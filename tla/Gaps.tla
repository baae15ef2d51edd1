-------------------------------- MODULE Gaps --------------------------------
(* The gaps page (routers/coverage.py, routers/coverage_actions.py): which  *)
(* rows it shows, what a request to queue one comes to; the rules of the    *)
(* auto-queue (auto_queue.py); the ids a job is given and the file an id    *)
(* stands for (coverage_cache.py, arr_resolve.py, arr_id_lookup.py); the    *)
(* record of Bazarr's providers (provider_leaderboard.py).                  *)
EXTENDS Integers, Sequences, FiniteSets, FiniteSetsExt, SequencesExt

NoOne == "no one"
NoPath == <<>>
NoId == 0

----------------------------------------------------------------------------
(* _apply_filters_and_pack. *)

SuppressedEmbedded == {"EN", "EN(SDH)"}  \* _SUPPRESSED_EMBEDDED

\* what hides a verified row, the first that applies; "shown" when nothing does
Suppression(row, hide) ==
  CASE row.state # "verified" -> "shown"
    [] row.state = "verified" /\ hide.pending /\ row.pending -> "pending_download"
    [] row.state = "verified" /\ ~(hide.pending /\ row.pending)
         /\ hide.only # {} /\ row.missing \cap hide.only = {} -> "wanted_langs"
    [] OTHER ->
         IF hide.embedded /\ row.embedded \in SuppressedEmbedded THEN "embedded_en"
         ELSE IF hide.disk /\ row.onDisk THEN "stale_disk"
         ELSE IF hide.english /\ (\/ ~row.suspect /\ "eng" \in row.audio
                                  \/ row.original = "en" /\ row.audio = {})
         THEN "english_audio" ELSE "shown"

\* get_coverage: which filters reach the rows, by where they come from
FiltersOf(query, origin) ==
  IF origin = "snapshot" THEN query ELSE [query EXCEPT !.only = {}]

PageOf(rows, query, origin) ==
  {r \in rows : Suppression(r, FiltersOf(query, origin)) = "shown"}

----------------------------------------------------------------------------
(* auto_queue.py *)

\* settle_seconds_left
Settling(row, rules, now) ==
  rules.settle > 0 /\ row.imported # 0 /\ row.imported + rules.settle > now

\* _filter_reason: one condition each, whichever is first
FilteredOut(row, rules) ==
  \/ rules.skipStale /\ row.onDisk
  \/ rules.skipEmbedded /\ row.embedded \in SuppressedEmbedded
  \/ row.imageSkipped \/ row.forcedSkipped \/ row.cannotProduce
  \/ rules.monitored /\ row.unmonitored
  \/ row.score < rules.minScore
  \/ rules.allow # {} /\ row.original \notin rules.allow
  \/ row.original # NoOne /\ row.original \in rules.deny
  \/ rules.allowTags # {} /\ rules.allowTags \cap row.tags = {}
  \/ rules.denyTags \cap row.tags # {}

\* _episode_pattern, _is_in_flight: the row's file, a film's folder, or a file
\* of the series whose name shows the pattern of the episode
InFlight(row, paths) ==
  \/ \E p \in paths : p.file = row.file /\ row.file # NoOne
  \/ row.media = "movie" /\ \E p \in paths : p.file = row.folder
  \/ /\ row.media = "episode" /\ row.pattern # NoOne
     /\ \E p \in paths : p.folder = row.folder /\ row.pattern \in p.shows

\* evaluate: the best of those that nothing holds back, in the order of the
\* report among equals. The rows are a sequence, the result is a set of its places.
Decided(rows, rules, inFlight, suppressed, now) ==
  LET open == {i \in DOMAIN rows :
                 /\ ~InFlight(rows[i], inFlight) /\ ~InFlight(rows[i], suppressed)
                 /\ rows[i].state = "verified"
                 /\ ~Settling(rows[i], rules, now) /\ ~FilteredOut(rows[i], rules)}
      better(i) == {j \in open : \/ rows[j].score > rows[i].score
                                 \/ rows[j].score = rows[i].score /\ j < i}
  IN IF rules.mode = "dashboard" THEN {}
     ELSE {i \in open : Cardinality(better(i)) < rules.maxPerRun}

----------------------------------------------------------------------------
(* Ids. An *arr is a record: whether it is configured and up, its episodes  *)
(* (by id: series, file), its files (by id: path) and its films.            *)

\* resolve_episode_target: the instance of the row's library, or the first
EpisodeTarget(arrs, default, library, episode) ==
  LET arr == arrs[IF library # NoOne THEN library ELSE default]
      found == {e \in arr.episodes : e.id = episode}
      files(e) == {f \in arr.files : f.id = e.fileId}
  IN IF episode = NoId \/ ~arr.configured \/ ~arr.up \/ found = {}
     THEN [path |-> NoPath, series |-> NoId]
     ELSE LET e == CHOOSE x \in found : TRUE IN
          [path |-> IF files(e) = {} THEN NoPath ELSE (CHOOSE f \in files(e) : TRUE).path,
           series |-> e.series]

\* snapshot_enqueue_ids, enqueue_ids_for: what the last snapshot knows of a file
EnqueueIds(snapshot, path) ==
  {[kind |-> r.media, series |-> r.series, id |-> r.id] :
     r \in {q \in snapshot : q.file = path /\ (q.id # NoId \/ q.series # NoId)}}

\* ArrIdResolver._episode: the series whose folder holds the file, the deepest
\* first, the file in it, and the first episode on that file
HoldingSeries(sonarr, path) ==
  LET holding == {s \in sonarr.series : IsStrictPrefix(s.path, path)}
  IN {s \in holding : \A t \in holding : Len(t.path) <= Len(s.path)}

\* Mutant: the first episode of the series, whatever its file.
EpisodeOfSeries(sonarr, path) ==
  LET on == {e \in sonarr.episodes : \E s \in HoldingSeries(sonarr, path) : e.series = s.id}
  IN {e \in on : \A d \in on : e.number <= d.number}

EpisodeOnFile(sonarr, path) ==
  LET on == {e \in sonarr.episodes :
               /\ \E s \in HoldingSeries(sonarr, path) : e.series = s.id
               /\ \E f \in sonarr.files : f.id = e.fileId /\ f.path = path}
  IN {e \in on : \A d \in on : e.number <= d.number}

\* ArrIdResolver._movie: the film with the file, or the deepest folder around it
MovieOnFile(radarr, path) ==
  LET exact == {m \in radarr.movies : m.file = path}
      around == {m \in radarr.movies : IsStrictPrefix(m.path, path)}
  IN IF exact # {} THEN exact
     ELSE {m \in around : \A n \in around : Len(n.path) <= Len(m.path)}

\* ArrIdResolver.resolve: Sonarr first; one that fails does not know the file
ResolvedIds(path, sonarr, radarr) ==
  LET asked(arr) == arr.configured /\ arr.up
  IN IF asked(sonarr) /\ EpisodeOnFile(sonarr, path) # {}
     THEN {[kind |-> "episode", series |-> e.series, id |-> e.id] : e \in EpisodeOnFile(sonarr, path)}
     ELSE IF asked(radarr)
     THEN {[kind |-> "movie", series |-> NoId, id |-> m.id] : m \in MovieOnFile(radarr, path)}
     ELSE {}

\* ArrIdResolver._cached: a list is used for five minutes
UsedList(cached, age, ttl, asked) == IF cached # {} /\ age < ttl THEN cached ELSE asked

----------------------------------------------------------------------------
(* coverage_queue: the answer to a request to queue a row. *)

\* _file_has_target_sub
HasEnglish(file) == file.isFile /\ file.readable /\ "en" \in file.sidecars

\* the status the request is refused with, 0 when it is not; with an id only,
\* Sonarr is asked for the file
GapRefused(request, sonarr, file) ==
  LET asked == request.path = NoOne
      found == {e \in sonarr.episodes : e.id = request.episode}
      fileIds == {e.fileId : e \in found} \ {NoId}
  IN CASE asked /\ request.episode = NoId -> 400
       [] asked /\ request.episode # NoId /\ ~sonarr.configured -> 503
       [] asked /\ request.episode # NoId /\ sonarr.configured /\ ~sonarr.up -> 502
       [] asked /\ request.episode # NoId /\ sonarr.configured /\ sonarr.up /\ fileIds = {} -> 404
       [] OTHER -> IF file.outside THEN 400 ELSE IF ~file.exists THEN 404
                   ELSE IF ~(file.isFile \/ file.isDir) THEN 400 ELSE 0

\* "already" when there is an English subtitle and the user did not ask to go
\* over it
GapAnswer(request, sonarr, file) ==
  CASE GapRefused(request, sonarr, file) # 0 -> "refused"
    [] GapRefused(request, sonarr, file) = 0 /\ ~request.ignoreForced /\ HasEnglish(file) -> "already"
    [] OTHER -> "queued"

----------------------------------------------------------------------------
(* The record of providers. *)

\* aggregate: what was downloaded, uploaded by hand or translated counts; a
\* row without a provider counts for Whisper when it is a translation
Counted(row) == row.action \in {1, 2, 5}
ProviderOf(row) ==
  IF row.provider # NoOne THEN row.provider ELSE IF row.action = 5 THEN "whisperai" ELSE NoOne
Leaderboard(history, status) ==
  LET names == ({ProviderOf(r) : r \in history} \ {NoOne}) \cup DOMAIN status
      of(p) == {r \in history : ProviderOf(r) = p}
  IN [p \in names |->
       [downloads |-> Cardinality({r \in of(p) : Counted(r)}),
        blacklisted |-> Cardinality({r \in of(p) : r.blacklisted}),
        throttled |-> p \in DOMAIN status /\ status[p] \notin {"good", "history", NoOne}]]

\* build_leaderboard, telemetry_snapshot: nothing without Bazarr
LeaderboardOf(bazarr) ==
  IF bazarr.configured THEN Leaderboard(bazarr.history, bazarr.status) ELSE <<>>

\* by_path: the history of a file is looked up by the first id its jobs have
HistoryId(ledger) ==
  LET known == SelectSeq(ledger, LAMBDA r : r.episode # NoId)
  IN IF known = <<>> THEN NoId ELSE known[1].episode
=============================================================================
