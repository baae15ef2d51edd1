---------------------------- MODULE CoverageRows ----------------------------
(* The coverage report, row by row (coverage_engine.py): what the sources   *)
(* answer, which instance owns a wanted title, which probe belongs to a     *)
(* row, which language a row is shown with and on whose word, the rows that *)
(* Bazarr does not see, and the score with the gates that keep a row out of *)
(* the queue.                                                               *)
EXTENDS AudioTracks, Sidecars

----------------------------------------------------------------------------
(* The sources. An instance that is not configured is left alone; one that  *)
(* fails answers nothing and is not ok.                                     *)

\* _fetch_arr, _fetch_bazarr, _fetch_tautulli
Fetched(source) ==
  [configured |-> source.configured,
   ok |-> source.configured /\ source.up,
   rows |-> IF source.configured /\ source.up THEN source.rows ELSE {}]

\* _fetch_arr_tags, _fetch_wanted_missing, _fetch_recent_imports,
\* _fetch_calendar_upcoming: a failure leaves a warning, the source stays ok
SideFetched(source) == IF source.configured /\ source.up THEN source.rows ELSE {}

\* _rollup_arr_health and _fetch_bazarr_all: ok when every configured one is
RolledUp(health) ==
  LET on == {i \in DOMAIN health : health[i].configured} IN
  [configured |-> on # {}, ok |-> on # {} /\ \A i \in on : health[i].ok]

\* _fetch_tautulli_activity: the title of each session, with the audio that
\* was chosen for it
Activity(sessions) ==
  [playing |-> {s.title : s \in sessions},
   burning |-> {s.title : s \in {t \in sessions : t.transcodes}},
   hints |-> {<<s.title, s.audio>> : s \in {t \in sessions : t.audio \notin {None, "und"}}}]

\* _bazarr_routing: the first library that names a Sonarr decides, a library
\* without one only until such a library comes
Routing(libraries) ==
  [b \in {libraries[i].bazarr : i \in DOMAIN libraries} |->
     LET named == {i \in DOMAIN libraries : libraries[i].bazarr = b /\ libraries[i].arr # ""}
     IN IF named = {} THEN "" ELSE libraries[LeastOf(named)].arr]

\* Mutant: an unknown instance is not replaced by the default one.
RoutedUnchecked(wanted, routing, valid, id) ==
  {w \in wanted : (IF w.bazarr \in DOMAIN routing THEN routing[w.bazarr] ELSE "") = id}

\* _route_wanted
Routed(wanted, routing, valid, id) ==
  LET target(w) == IF w.bazarr \in DOMAIN routing /\ routing[w.bazarr] \in valid
                   THEN routing[w.bazarr] ELSE ""
  IN {w \in wanted : target(w) = id}

\* IntegrationBundle.client_for
ClientFor(pool, id) == IF id \in pool THEN id ELSE ""

\* _resolve_sonarr_files, _episode_file_canonical: the file of an episode, when
\* Sonarr answered for its series
EpisodeFile(ep, answered) ==
  IF answered /\ ep.known /\ ep.file # None THEN ep.file ELSE None

----------------------------------------------------------------------------
(* The probe of a row. A file is a record: its path, folder, stem, ending,  *)
(* episode number in its name, probe and verdicts.                          *)

\* _attach_probe_episode: the file the row names, or the first file of the
\* folder whose name shows the episode
ProbeOfEpisode(row, probed, failed) ==
  LET inFolder == {f \in probed : f.folder = row.folder /\ ShowsEpisode(f.shown, row.ep)}
      lost == {f \in failed : f.folder = row.folder /\ ShowsEpisode(f.shown, row.ep)}
      exact == {f \in probed : f.path = row.file}
  IN CASE row.file # None /\ exact # {} -> [state |-> "verified", files |-> exact]
       [] row.file # None /\ exact = {} ->
            [state |-> IF \E f \in failed : f.path = row.file THEN "probe_failed" ELSE "unprobed",
             files |-> {}]
       [] row.file = None /\ inFolder # {} -> [state |-> "verified", files |-> inFolder]
       [] OTHER -> [state |-> IF lost = {} THEN "unprobed" ELSE "probe_failed", files |-> {}]

\* _attach_probe_movie: a failure anywhere in the folder counts
ProbeOfMovie(row, probed, failed) ==
  LET found == {f \in probed : f.folder = row.folder /\ (row.file = None \/ f.path = row.file)}
      lost == {f \in failed : f.folder = row.folder}
  IN CASE found # {} -> [state |-> "verified", files |-> found]
       [] OTHER -> [state |-> IF lost = {} THEN "unprobed" ELSE "probe_failed", files |-> {}]

VideoEndings == {"mkv", "mp4"}
DiscEndings == {"iso"}

\* _disqualify_unsupported: a disc image, or a named file that is no video
Disqualified(state, ending) ==
  IF state # "verified" /\ ending # None /\ ending \notin VideoEndings THEN "unsupported" ELSE state

----------------------------------------------------------------------------
(* Verified languages. The store has a verdict per file and the user's      *)
(* declarations for whole series.                                           *)

\* _SeriesIntentLookup: a file of its own, else the longest prefix
Looked(base, intents, file) ==
  LET over == {i \in intents : i.series = file.folder \/ i.series = file.season}
      nearest == IF \E i \in over : i.series = file.season
                 THEN {i \in over : i.series = file.season} ELSE over
  IN CASE file.path \in DOMAIN base -> base[file.path]
       [] file.path \notin DOMAIN base /\ nearest # {} -> (CHOOSE i \in nearest : TRUE).lang
       [] OTHER -> None

\* _build_verification_lookup and the split of build_coverage: what a machine
\* heard is taken out of the users' lookup, whose declarations stay
UserBase(verdicts) ==
  [p \in {q \in DOMAIN verdicts : verdicts[q].by = "user"} |-> verdicts[p].lang]
MachineBase(verdicts) ==
  [p \in {q \in DOMAIN verdicts : verdicts[q].by = "machine"} |-> verdicts[p].lang]

\* Mutant: what Plex plays goes before what the user said.
LabelledPlexFirst(file, langs, original, user, heard, playing, plex) ==
  LET say(l, by) == [langs |-> {l}, source |-> by, suspect |-> FALSE, unknown |-> FALSE,
                     clash |-> FALSE]
      named == Spoken(langs)
  IN CASE playing # None -> say(playing, "plex")
       [] playing = None /\ user # None -> say(user, "user")
       [] playing = None /\ user = None /\ heard # None -> say(heard, "whisper")
       [] OTHER -> [langs |-> langs, source |-> IF named = {} THEN None ELSE "ffprobe",
                    suspect |-> FALSE, unknown |-> named = {}, clash |-> FALSE]

\* _classify_audio_label: the user, the machine that listened, the track that
\* plays, the track Plex chose, the tags; English alone on a foreign title is
\* suspect, no tag at all is unknown.
Labelled(file, langs, original, user, heard, playing, plex) ==
  LET say(l, by) == [langs |-> {l}, source |-> by, suspect |-> FALSE, unknown |-> FALSE,
                     clash |-> by \in {"user", "whisper"} /\ Spoken(langs) # {} /\ l \notin Spoken(langs)]
      named == Spoken(langs)
      doubted == original \notin {None, "en"} /\ named = {"en"}
  IN CASE user # None -> say(user, "user")
       [] user = None /\ heard # None -> say(heard, "whisper")
       [] user = None /\ heard = None /\ playing # None -> say(playing, "plex")
       [] user = None /\ heard = None /\ playing = None /\ plex # None -> say(plex, "plex")
       [] OTHER -> [langs |-> langs,
                    source |-> IF named = {} \/ doubted THEN None ELSE "ffprobe",
                    suspect |-> doubted, unknown |-> named = {}, clash |-> FALSE]

\* _refine_audio_sources: the store's own word for where a verdict came from
Refined(label, file, verdicts, intents) ==
  LET by == Looked([p \in DOMAIN verdicts |-> verdicts[p].by],
                   {[series |-> i.series, lang |-> "user"] : i \in intents}, file)
  IN CASE by = "machine" -> [label EXCEPT !.source = "whisper"]
       [] by = "user" -> [label EXCEPT !.source = "user"]
       [] OTHER -> label

\* _apply_multilingual_verifications
Several(label, codes) ==
  IF Cardinality(codes) < 2 THEN label
  ELSE [label EXCEPT !.langs = codes, !.source = "multilingual", !.suspect = FALSE, !.unknown = FALSE]

\* The label of a row with a probe, after the passes at the end of the build
LabelOf(file, verdicts, intents, playing, plex) ==
  Several(Refined(Labelled(file, TrackLanguages(file.audio), file.original,
                           Looked(UserBase(verdicts), intents, file),
                           Looked(MachineBase(verdicts), {}, file), playing, plex),
                  file, verdicts, intents),
          IF file.path \in DOMAIN verdicts THEN verdicts[file.path].codes ELSE {})

\* _flag_mixed_language_series: the languages of a series that someone heard,
\* English apart, when there are two and the user has not said it is fine. An
\* episode has its languages in order; one with several counts with its first.
MixedLanguages(episodes, dismissed) ==
  LET foreign(codes) == SelectSeq(codes, LAMBDA c : c \notin {None, "und", "en"})
      first(codes) == SubSeq(codes, 1, 1)
      told(e) == CASE e.source = "multilingual" -> first(foreign(e.langs))
                   [] e.source \in {"user", "whisper"} -> foreign(first(e.langs))
                   [] OTHER -> <<>>
      heard == UNION {ToSet(told(e)) : e \in episodes}
  IN IF Cardinality(heard) >= 2 /\ ~dismissed THEN heard ELSE {}

\* _drop_ignored_titles
Kept(rows, ignored) == {r \in rows : r.path \notin ignored /\ r.folder \notin ignored}

----------------------------------------------------------------------------
(* The score and the gates. *)

\* _score, the part that orders the list
Score(row) ==
  LET worth(condition, points) == IF condition THEN points ELSE 0
  IN  worth(row.playing, 2000) + worth(row.playing /\ row.burning, 1000)
    + worth(row.imported, 800) + worth(row.airing, 400)
    + worth(row.watched = "week", 1000) + worth(row.watched = "month", 500)
    + worth(row.plays > 3, 200)
    + worth(row.original \notin {None, "en"}, 100) + worth(row.monitored, 50)
    + worth(row.covered, -5000)
    + worth(row.embedded \in {"EN", "EN(SDH)"}, -3000)
    + worth(row.embedded \in {"EN(forced)", "EN(commentary)", "EN(image)"}, -500)
    + worth(row.images /\ row.embedded # "EN(image)", -500)

\* _score, what subgen is known to skip: English that is only forced or only a
\* picture, unless it was told to ignore those
SubgenSkips(row, caps) ==
  \/ row.embedded = "EN(forced)" /\ ~caps.ignoreForced
  \/ row.embedded = "EN(image)" /\ ~caps.ignoreImage
  \/ row.englishImages /\ row.embedded # "EN(image)" /\ ~caps.ignoreImage

\* Mutant: the override the feeder would send is not looked up.
GatedUnforced(file, followed, caps, enabled, wanted, missing) ==
  LET source == SourceLanguage(file.audio, None, caps)
      task == Task(source, NormalWanted(wanted))
      output == IF TasksActive(caps, enabled, wanted) /\ file.audio # <<>> /\ task # None
                THEN TaskOutput(task, source)
                ELSE Producible(caps.mode, TrackLanguages(file.audio))
  IN output # Unknown /\ missing \ {None} # {} /\ (missing \ {None}) \cap output = {}

\* _score and _per_file_forced_map, the last gate: subgen can write none of the
\* languages the row waits for
Gated(file, followed, caps, enabled, wanted, missing) ==
  LET source == SourceLanguage(file.audio, Override(followed, caps), caps)
      task == Task(source, NormalWanted(wanted))
      output == IF TasksActive(caps, enabled, wanted) /\ file.audio # <<>> /\ task # None
                THEN TaskOutput(task, source)
                ELSE Producible(caps.mode, TrackLanguages(file.audio))
  IN output # Unknown /\ missing \ {None} # {} /\ (missing \ {None}) \cap output = {}

----------------------------------------------------------------------------
(* The rows. *)

\* build_coverage, a wanted episode: what covers it on disk
EpisodeCovered(ep, answered, sidecars, stem) ==
  StaleForEpisode(ep.known, IF EpisodeFile(ep, answered) = None THEN <<>> ELSE stem,
                  sidecars, ep.number, ep.wanted)

\* build_coverage, a wanted movie
MovieCovered(folder) == ScannedFolder(folder)

\* Mutant: episodes are told apart by their ids only.
BlindEpisodesById(episodes, rows, sidecars, suspect, foreign) ==
  {e \in episodes : /\ e.hasFile /\ e.file # None
                    /\ \A r \in rows : r.id # e.id
                    /\ ~\E s \in sidecars : EnglishSidecar(s.name, e.stem)
                    /\ (suspect[e.id] \/ foreign[e.id])}

\* _add_bazarr_blind_synthetic_rows, for a series in another language: files
\* without an English sidecar that no row has, whose label is suspect or that
\* a user verified as foreign. A file has one row, whichever episode comes
\* first.
BlindEpisodes(episodes, rows, sidecars, suspect, foreign) ==
  LET open == {e \in episodes : /\ e.hasFile /\ e.file # None
                                /\ \A r \in rows : r.id # e.id /\ r.file # e.file
                                /\ ~\E s \in sidecars : EnglishSidecar(s.name, e.stem)
                                /\ (suspect[e.id] \/ foreign[e.id])}
  IN {e \in open : \A other \in open : other.file = e.file => e.id <= other.id}

\* _add_radarr_blind_movie_rows: files no row has; a probed one only without
\* English in the file or beside it
BlindMovies(movies, rows) ==
  LET open == {m \in movies : /\ m.hasFile /\ m.file # None
                              /\ \A r \in rows : r.id # m.id /\ r.file # m.file
                              /\ ~(m.probed /\ (m.embedded # None
                                     \/ \E s \in m.sidecars : EnglishSidecar(s.name, m.stem)))}
  IN {m \in open : \A other \in open : other.file = m.file => m.id <= other.id}

----------------------------------------------------------------------------
(* The report. *)

\* build_coverage: an instance that fails for any reason has no rows, and the
\* others go on
InstanceRows(answers) ==
  [i \in DOMAIN answers |-> IF answers[i].raised THEN {} ELSE Fetched(answers[i]).rows]

\* _resolve_sonarr_files, and the same in the blind pass for the series it did
\* not ask for: a series Sonarr does not answer for has no files
ResolvedFiles(series, answers) == UNION {answers[s] : s \in series \cap DOMAIN answers}

\* _add_bazarr_blind_synthetic_rows looks at the series in another language
ForeignSeries(series) == {s \in series : s.original \notin {None, "en"}}

\* _audio_metadata_looks_mislabeled: tags that say English, or nothing
Mislabelled(probed, langs) == probed /\ langs \subseteq {"en", "und"}

\* _apply_track_mismatch: only in a container whose flags can be changed
FlaggedTrack(file, ending) == ending = "mkv" /\ Mismatch(file.audio, file.original) # 0

\* _read_post_pass_lookups: what cannot be read is left out of this build
OrNothing(reading) == IF reading.ok THEN reading.value ELSE {}

\* the end of build_coverage: the rows of all instances, with what the user and
\* the machine said of several languages, without the dismissed flags and
\* without the ignored titles, best first
Report(rows, store) ==
  LET several(r) == {c \in OrNothing(store.several) : c.path = r.path}
      noted(r) == {c \in OrNothing(store.carried) : c.path = r.path} # {}
      final(r) == [r EXCEPT !.label = Several(@, UNION {c.codes : c \in several(r)}),
                            !.mismatch = @ /\ r.path \notin OrNothing(store.dismissed),
                            !.carried = noted(r)]
      kept == Kept({final(r) : r \in rows}, OrNothing(store.ignored))
  IN SetToSortSeq(kept, LAMBDA q, r : q.score > r.score)
=============================================================================
