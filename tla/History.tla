------------------------------ MODULE History ------------------------------
(* The queue page (routers/queue.py): what became of each file that was     *)
(* submitted, what the page's requests are refused for, and the clean-up of *)
(* rows whose file has its subtitle (pending_reconcile.py).                 *)
EXTENDS Integers, Sequences, FiniteSets, SequencesExt, Places

----------------------------------------------------------------------------
(* The view. An attempt has its path, the name of its file, its status and  *)
(* the time of its scan, and what the chip is made from.                    *)

Superseded == {"skipped", "error", "orphaned"}  \* _SUPERSEDABLE_STATUSES
Categories == {"ok", "skipped", "error", "running", "orphaned"}

\* _infer_skip_reason: a subtitle next to the file that bears its name
SkipReason(file) ==
  IF file.inside /\ file.isFile /\ file.readable /\ \E s \in file.siblings : s.subtitle /\ s.named
  THEN "sub_exists" ELSE "unknown"

\* _path_outcome_chip
Chip(attempt, completed, noOutput) ==
  CASE attempt.status = "running" -> [category |-> "running", label |-> "running"]
    [] attempt.status = "ok" /\ attempt.path \in noOutput -> [category |-> "error", label |-> "no subtitle"]
    [] attempt.status = "ok" /\ attempt.path \in completed \ noOutput ->
         [category |-> "ok", label |-> "completed"]
    [] attempt.status = "ok" /\ attempt.path \notin completed \cup noOutput ->
         [category |-> "ok", label |-> "queued"]
    [] attempt.status = "skipped" ->
         [category |-> "skipped",
          label |-> IF SkipReason(attempt.file) # "sub_exists" /\ attempt.explained # "none"
                    THEN attempt.explained ELSE SkipReason(attempt.file)]
    [] attempt.status = "error" /\ attempt.cancelled -> [category |-> "skipped", label |-> "interrupted"]
    [] attempt.status = "error" /\ ~attempt.cancelled -> [category |-> "error", label |-> "failed"]
    [] attempt.status = "orphaned" -> [category |-> "orphaned", label |-> "lost on restart"]
    [] attempt.status = "empty" -> [category |-> "skipped", label |-> "file removed"]
    [] OTHER -> [category |-> "pending", label |-> attempt.status]

\* Mutant: the attempts are taken as the store lists them.
NewestFirstAsListed(attempts) == attempts

NewestFirst(attempts) ==
  LET places == DOMAIN attempts
  IN Picked(attempts, places, {p \in places \X places :
              \/ attempts[p[1]].at > attempts[p[2]].at
              \/ attempts[p[1]].at = attempts[p[2]].at /\ p[1] < p[2]})

\* a retry of the path waits, queued after the attempt
RetryWaits(attempt, waiting) ==
  attempt.path \in DOMAIN waiting /\ waiting[attempt.path] > attempt.at

\* _build_history_view: which of the attempts, newest first, are shown. A
\* failure is shown only when nothing has happened to its file since.
IsShown(order, i, live, waiting) ==
  IF order[i].status \in Superseded
  THEN /\ \A j \in 1..(i - 1) : order[j].path # order[i].path
       /\ ~RetryWaits(order[i], waiting) /\ order[i].base \notin live
  ELSE ~(order[i].base \in live /\ order[i].status \in {"running", "ok"})

\* how many older failures the newest row of a path stands for
Retries(order, i, live, waiting) ==
  IF /\ \A j \in 1..(i - 1) : order[j].path # order[i].path
     /\ IsShown(order, i, live, waiting)
  THEN Cardinality({j \in (i + 1)..Len(order) :
                      order[j].path = order[i].path /\ order[j].status \in Superseded})
  ELSE 0

HistoryView(attempts, live, waiting, completed, noOutput) ==
  LET order == NewestFirst(attempts)
      shown == {i \in DOMAIN order : IsShown(order, i, live, waiting)}
      row == [i \in DOMAIN order |->
                [attempt |-> order[i], chip |-> Chip(order[i], completed, noOutput),
                 retries |-> Retries(order, i, live, waiting)]]
  IN Picked(row, shown, Ascending(shown))

HistoryCounts(view) ==
  [c \in Categories |-> Cardinality({n \in DOMAIN view : view[n].chip.category = c})]

\* get_queue: the jobs of subgen that lie in a library (_is_library_job, with
\* the prefixes of _subgen_library_prefixes), or none when it cannot be asked.
\* A path is a sequence of segments.
LibraryPrefixes(libraries, mediaPrefix) ==
  {p \in (IF libraries = {} THEN {mediaPrefix} ELSE libraries) : p # <<"">>}
IsLibraryJob(path, prefixes) == \E p \in prefixes : IsStrictPrefix(p, path)
LiveJobs(answer, prefixes) ==
  IF ~answer.up THEN [processing |-> <<>>, queued |-> <<>>]
  ELSE [processing |-> SelectSeq(answer.processing, LAMBDA p : IsLibraryJob(p, prefixes)),
        queued |-> SelectSeq(answer.queued, LAMBDA p : IsLibraryJob(p, prefixes))]

\* match_progress: the progress lines of subgen's log bear shortened names
ProgressOf(name, known) ==
  IF name \in known THEN {name} ELSE {k \in known : IsPrefix(k, name)}

----------------------------------------------------------------------------
(* What ends a request before anything is changed: the status of the answer, *)
(* 0 when the request is carried out.                                       *)

\* cancel_queued
CancelRefused(path, caps, subgenUp) ==
  CASE path.empty \/ path.climbs -> 400
    [] ~path.empty /\ ~path.climbs /\ ~caps.cancel -> 503
    [] ~path.empty /\ ~path.climbs /\ caps.cancel /\ ~subgenUp -> 502
    [] OTHER -> 0

\* requeue, and create_scan for each of its paths
PathRefused(path) ==
  CASE path.empty \/ path.outside -> 400
    [] ~path.empty /\ ~path.outside /\ ~path.exists -> 404
    [] OTHER -> 0
ScanRefused(paths, blocked) ==
  LET bad == SelectSeq(paths, LAMBDA p : PathRefused(p) # 0 \/ ~(p.isFile \/ p.isDir))
  IN IF bad # <<>> THEN IF PathRefused(bad[1]) # 0 THEN PathRefused(bad[1]) ELSE 400
     ELSE IF blocked THEN 503 ELSE 0

\* clear_history: which scans go
ClearRefused(statuses) == statuses \ {"done", "error"} # {}
Cleared(scans, statuses, cutoff) ==
  {s \in scans : s.status \in statuses /\ (cutoff # 0 => s.at < cutoff)}

\* _require_pending, and move_pending on top of it
NotWaiting(job) ==
  CASE ~job.exists -> 404
    [] job.exists /\ job.status # "pending" -> 409
    [] OTHER -> 0
MoveRefused(job, neighbours) ==
  IF NotWaiting(job) # 0 THEN NotWaiting(job)
  ELSE IF neighbours = {} THEN 400
  ELSE IF \E n \in neighbours : ~n.exists THEN 404 ELSE 0

----------------------------------------------------------------------------
(* reconcile_pending: the submitted rows whose file has a full English      *)
(* subtitle. A name is the sequence of its parts between dots.              *)

\* is_full_english_sidecar: the name begins with the stem, and says English
\* and not forced after it
FullEnglish(file, stem) ==
  LET marks == {file.name[i] : i \in (Len(stem) + 1)..Len(file.name)}
  IN file.srt /\ IsStrictPrefix(stem, file.name) /\ "forced" \notin marks /\ marks \cap {"en", "eng"} # {}

\* _list_siblings: the files of the folder; nothing is said of a row whose
\* folder cannot be listed
Siblings(folders, row) == IF row.folder \in DOMAIN folders THEN folders[row.folder] ELSE {}

\* a row that asks to be transcribed over what is there stays
Satisfied(rows, folders) ==
  {r \in rows : /\ r.status = "submitted" /\ ~r.bypass
                /\ \E f \in Siblings(folders, r) : FullEnglish(f, r.stem)}

\* _reconcile, by way of resolve_skipped
RowsReconciled(rows, folders, dry) == IF dry THEN rows ELSE rows \ Satisfied(rows, folders)
=============================================================================
