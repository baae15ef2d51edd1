---------------------------- MODULE AudioTracks ----------------------------
(* The tracks of a video file and what is decided from them: what ffprobe   *)
(* and the arrs say (media_probe.py, arr_mediainfo.py), which track should  *)
(* play first (track_swap.py), which language subgen will hear and which    *)
(* task it is sent (per_file_task.py, submission_language.py).              *)
(*                                                                          *)
(* A language is an ISO 639-1 code, "und" or None. A tag is what the        *)
(* container says: the language it stands for and whether it is one of the  *)
(* three-letter codes subgen reads.                                         *)
EXTENDS Integers, Sequences, FiniteSets, SequencesExt

None == "none"
NoTag == [lang |-> None, three |-> FALSE]
Spoken(codes) == codes \ {None, "und"}
LeastOf(S) == CHOOSE i \in S : \A j \in S : i <= j

----------------------------------------------------------------------------
(* Languages. *)

\* normalize_lang of a tag
Norm(tag) == tag.lang
\* subgen_track_language: only the table's three-letter codes
SubgenLanguage(tag) == IF tag.three /\ tag.lang # "und" THEN tag.lang ELSE None
\* known_language, for codes the table has
KnownLanguage(code) == IF code \in {None, "und"} THEN None ELSE code
\* normalize_wanted
NormalWanted(wanted) == Spoken(wanted)

----------------------------------------------------------------------------
(* Reading a file. A raw stream of ffprobe has its kind, its tag, its       *)
(* disposition flags and the words of its title that the patterns look for. *)

\* _classify_subtitle: a flag counts, and so does the title that names it
SubtitleOf(s) ==
  [tag |-> s.tag, image |-> s.image,
   forced |-> "forced" \in s.flags \cup s.title,
   sdh |-> "sdh" \in s.flags \cup s.title,
   commentary |-> "commentary" \in s.flags \cup s.title]

\* parse_title_lang: another language in a title goes before English
TitleLanguage(title) ==
  LET named == title \cap {"en", "ja", "fr"} IN
  CASE named \ {"en"} # {} -> CHOOSE c \in named \ {"en"} : TRUE
    [] named = {"en"} -> "en"
    [] OTHER -> None

\* _classify_audio
AudioOf(s) == [tag |-> s.tag, default |-> "default" \in s.flags, title |-> TitleLanguage(s.title)]

OfKind(streams, k) == SelectSeq(streams, LAMBDA s : s.kind = k)
MapSeq(Op(_), s) == [i \in DOMAIN s |-> Op(s[i])]

\* parse_ffprobe_json: streams of other kinds are left out
Parsed(streams) == [audio |-> MapSeq(AudioOf, OfKind(streams, "audio")),
                    subs |-> MapSeq(SubtitleOf, OfKind(streams, "subtitle"))]

NoResult == [audio |-> <<>>, subs |-> <<>>]

\* probe: a missing file, a directory, ffprobe itself missing, its timeout, a
\* bad exit and an answer that is no JSON all raise; an empty answer is a file
\* without streams.
Probe(file) ==
  IF file.exists /\ file.regular /\ file.ffprobe = "fine"
  THEN [ok |-> TRUE, result |-> Parsed(file.streams)]
  ELSE [ok |-> FALSE, result |-> NoResult]

\* _arr_row_to_probe_result: the arrs name languages only; the first audio
\* track passes for the default and no subtitle for a forced one.
ArrResult(row) ==
  [audio |-> [i \in DOMAIN row.audio |-> [tag |-> row.audio[i], default |-> i = 1, title |-> None]],
   subs |-> [i \in DOMAIN row.subs |->
              [tag |-> row.subs[i], image |-> FALSE, forced |-> FALSE, sdh |-> FALSE,
               commentary |-> FALSE]]]

\* ProbeStore.upsert: what ffprobe found is not replaced by the arrs' word
Upserted(old, new, source) ==
  IF source = "arr" /\ old.source = "ffprobe" THEN old ELSE [source |-> source, result |-> new]

\* ArrMediainfoSync._handle_row: a row without a path or without languages is
\* left alone.
ArrHandled(old, row) ==
  IF ~row.path \/ (row.audio = <<>> /\ row.subs = <<>>) THEN old
  ELSE Upserted(old, ArrResult(row), "arr")

----------------------------------------------------------------------------
(* What the subtitles and the tags say. *)

English(s) == Norm(s.tag) = "en"

\* has_usable_embedded_english
UsableEnglish(subs) ==
  \E i \in DOMAIN subs : English(subs[i]) /\ ~subs[i].forced /\ ~subs[i].commentary /\ ~subs[i].image

\* has_forced_or_commentary_english
OnlyPartialEnglish(subs) ==
  (\E i \in DOMAIN subs : English(subs[i])) /\ ~UsableEnglish(subs)

\* english_track_summary: the plain track first, then SDH; without a readable
\* one the first English track says why.
EnglishSummary(subs) ==
  LET en == {i \in DOMAIN subs : English(subs[i])}
      open == {i \in en : ~subs[i].forced /\ ~subs[i].commentary}
  IN CASE UsableEnglish(subs) /\ (\E i \in open : ~subs[i].sdh) -> "EN"
       [] UsableEnglish(subs) /\ (\A i \in open : subs[i].sdh) -> "EN(SDH)"
       [] ~UsableEnglish(subs) /\ en = {} -> None
       [] OTHER -> LET s == subs[LeastOf(en)] IN
                   IF s.forced THEN "EN(forced)"
                   ELSE IF s.commentary THEN "EN(commentary)" ELSE "EN(image)"

\* audio_lang_summary
TagLanguages(audio) ==
  {IF Norm(audio[i].tag) = None THEN "und" ELSE Norm(audio[i].tag) : i \in DOMAIN audio}

\* audio_lang_summary_with_titles: a title that names another language wins
TrackLanguages(audio) ==
  {CASE audio[i].title # None -> audio[i].title
     [] audio[i].title = None /\ Norm(audio[i].tag) # None -> Norm(audio[i].tag)
     [] OTHER -> "und" : i \in DOMAIN audio}

\* classify_high_conf_langs: the languages some chunk heard surely enough
SureLanguages(chunks) ==
  {chunks[i].lang : i \in {j \in DOMAIN chunks : chunks[j].lang \notin {None, "und"} /\ chunks[j].sure}}

----------------------------------------------------------------------------
(* The default track. *)

\* detect_default_track_mismatch: the ordinal of the first track in the
\* original language when another language plays first, else 0.
Mismatch(audio, original) ==
  LET lang(i) == Norm(audio[i].tag)
      defaults == {i \in DOMAIN audio : audio[i].default}
      first == IF defaults = {} THEN 1 ELSE LeastOf(defaults)
      native == {i \in DOMAIN audio : lang(i) = original}
  IN IF /\ original \notin {None, "und", "en"}
        /\ Len(audio) >= 2
        /\ Cardinality(Spoken({lang(i) : i \in DOMAIN audio})) >= 2
        /\ lang(first) \notin {None, "und", original}
        /\ native # {}
     THEN LeastOf(native)
     ELSE 0

\* Mutant: only the new default is edited.
SwappedWithoutClearing(audio, target) ==
  [audio EXCEPT ![target].default = TRUE]

\* swap_default_audio_track, build_mkvpropedit_args: every audio track is
\* edited, so that the target is the only default.
Swapped(audio, target) ==
  [i \in DOMAIN audio |-> [audio[i] EXCEPT !.default = i = target]]

\* The exits of mkvpropedit: 1 is a warning, the file was written.
SwapResult(run, audio, target) ==
  CASE run.tool /\ target \in DOMAIN audio /\ run.exit \in {0, 1} -> Swapped(audio, target)
    [] OTHER -> audio

----------------------------------------------------------------------------
(* The verified language that is sent along. A verdict of AudioLangStore is *)
(* one language or several; "zxx" is a file without speech.                 *)

NoVerdict == [class |-> None, lang |-> None, codes |-> {}, source |-> FALSE, sure |-> FALSE]

\* resolve_audio_language_override. English is sent only to a subgen known not
\* to skip it; a guess and an entry without a source are not sent.
Override(verdict, caps) ==
  IF \/ verdict.class # "single"
     \/ verdict.lang \in {None, "zxx"}
     \/ verdict.lang = "en" /\ (~caps.skipKnown \/ "en" \in caps.skip)
     \/ ~verdict.source
     \/ ~verdict.sure
  THEN None
  ELSE verdict.lang

\* _tagged_audio_languages; an unread file has none that are known
TaggedLanguages(audio) == {Norm(audio[i].tag) : i \in DOMAIN audio} \ {None}

\* _output_languages: whatever the mode, when it is not known
OutputLanguages(caps, verdict) ==
  CASE caps.mode = "translate" -> {caps.name, "en"}
    [] caps.mode = "transcribe" -> verdict.codes
    [] OTHER -> verdict.codes \cup {caps.name, "en"}

\* _has_full_text_sidecar: a file outside the roots counts as covered, one in
\* a folder that cannot be read has no sidecars.
FullTextSidecar(disk, languages) ==
  ~disk.inside \/ \E s \in disk.sidecars : ~s.forced /\ s.tokens \cap languages # {}

\* resolve_submission. `own` is the file's verdict, `followed` the one the
\* resolver finds when it also looks at the file this one replaced.
Submission(own, followed, probed, audio, disk, caps) ==
  LET forced == Override(followed, caps)
      bypass == /\ forced = None
                /\ own.class = "multi"
                /\ caps.bypass
                /\ probed
                /\ TaggedLanguages(audio) \cap caps.skip # {}
                /\ ~FullTextSidecar(disk, OutputLanguages(caps, own))
  IN [override |-> forced, bypass |-> bypass]

\* resolve_for_job: a job that was queued with a decision keeps it
ForJob(job, decision) ==
  IF job.override # None \/ job.bypass
  THEN [override |-> job.override, bypass |-> job.bypass]
  ELSE decision

\* explain_audio_language_skip, by the advice it ends with
ExplainSkip(own, probed, audio, caps) ==
  LET hit == TaggedLanguages(audio) \cap caps.skip IN
  CASE ~probed \/ hit = {} -> "nothing"
    [] probed /\ hit # {} /\ own = NoVerdict -> "verify it"
    [] probed /\ hit # {} /\ own.class = "multi" /\ caps.bypass -> "requeue: bypass"
    [] probed /\ hit # {} /\ own.class = "multi" /\ ~caps.bypass -> "cannot bypass"
    [] probed /\ hit # {} /\ own.class = "single" /\ own.lang \in caps.skip -> "expected"
    [] OTHER -> "requeue: override"

----------------------------------------------------------------------------
(* The task of one file. *)

\* active_config: the feature needs a subgen that takes a task per request and
\* says how it picks a track, in words subarr can read.
TasksActive(caps, enabled, wanted) ==
  /\ enabled
  /\ caps.known
  /\ NormalWanted(wanted) # {}
  /\ caps.perRequest
  /\ caps.readable

\* resolve_source_language: forced, then what subgen forces itself, then its
\* preferred languages in their order, then the default track. A preferred
\* entry that is no language ends the search when an unread track matches it.
SourceLanguage(audio, forced, caps) ==
  LET heard == {SubgenLanguage(audio[i].tag) : i \in DOMAIN audio}
      hits == SelectSeq(caps.preferred, LAMBDA p : p \in heard)
      defaults == {i \in DOMAIN audio : audio[i].default}
  IN CASE forced # None -> forced
       [] forced = None /\ caps.force # None -> caps.force
       [] forced = None /\ caps.force = None /\ hits # <<>> /\ Head(hits) # None -> Head(hits)
       [] OTHER -> IF defaults = {} THEN None ELSE SubgenLanguage(audio[LeastOf(defaults)].tag)

\* choose_task
Task(source, wanted) ==
  CASE source # None /\ source \in wanted -> "transcribe"
    [] source # None /\ source \notin wanted /\ "en" \in wanted -> "translate"
    [] OTHER -> None

\* producible_for_task
TaskOutput(task, source) == IF task = "translate" THEN {"en"} ELSE {source} \ {None}

\* resolve_task_for_file
FileTask(probed, audio, override, caps, enabled, wanted) ==
  IF TasksActive(caps, enabled, wanted) /\ probed /\ audio # <<>>
  THEN Task(SourceLanguage(audio, override, caps), NormalWanted(wanted))
  ELSE None

\* Mutant: a folder goes as one when its first file has a task.
DispatchByFirstFile(job, decision, files, cap, caps, enabled, wanted) ==
  LET ask(f) == FileTask(files[f].probed, files[f].audio, decision.override, caps, enabled, wanted)
      first == CHOOSE f \in DOMAIN files : TRUE
  IN IF job.task # None \/ files = <<>> \/ Cardinality(DOMAIN files) > cap
     THEN [whole |-> TRUE, task |-> [f \in DOMAIN files |-> job.task]]
     ELSE [whole |-> ask(first) # None,
           task |-> [f \in DOMAIN files |-> IF ask(first) # None THEN ask(first) ELSE ask(f)]]

\* plan_job_dispatch: a folder whose files all want the same goes as one path,
\* otherwise each file goes alone; a folder that is empty, too large or cannot
\* be read goes whole without a task. `files` are the files under the path.
Dispatch(job, decision, files, cap, caps, enabled, wanted) ==
  LET ask(f) == FileTask(files[f].probed, files[f].audio, decision.override, caps, enabled, wanted)
      asked == {ask(f) : f \in DOMAIN files}
      bare == [f \in DOMAIN files |-> None]
  IN CASE job.task # None -> [whole |-> TRUE, task |-> [f \in DOMAIN files |-> job.task]]
       [] job.task = None /\ (~TasksActive(caps, enabled, wanted) \/ files = <<>>
                              \/ Cardinality(DOMAIN files) > cap)
            -> [whole |-> TRUE, task |-> bare]
       [] OTHER -> [whole |-> Cardinality(asked) = 1, task |-> [f \in DOMAIN files |-> ask(f)]]

\* producible_subtitle_languages; Unknown is not the empty set
Unknown == {"?"}
Producible(mode, languages) ==
  CASE mode = "translate" -> {"en"}
    [] mode = "transcribe" /\ Spoken(languages) # {} -> Spoken(languages)
    [] OTHER -> Unknown
=============================================================================
