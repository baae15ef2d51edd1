------------------------------ MODULE Aftercare ------------------------------
(* Judgements of subtitles: of what subgen wrote (aftercare.py), and of the  *)
(* sidecars that were there before, by an audit a user starts                *)
(* (existing_audit.py); their store with the backlog a user reviews          *)
(* (aftercare_store.py, routers/aftercare.py).                               *)
EXTENDS Integers, Sequences, FiniteSets, SequencesExt

CONSTANTS
  Jobs,        \* files whose subtitles subgen writes
  Sidecars,    \* subtitles that were there, by their paths
  MaxResults   \* bound: judgements ever recorded

ASSUME AftercareAssumption == MaxResults \in Nat

VARIABLES
  results,     \* aftercare_results: a set of rows
  lastResult,    \* the last id
  audit,       \* [running, todo, at]: the audit service
  settled      \* history: paths whose last judgement was good, or was reviewed

aftercareVars == <<results, lastResult, audit, settled>>

CompositeMin == 65      \* AFTERCARE_COMPOSITE_MIN
OverrunMax == 30        \* AFTERCARE_SYNC_OVERRUN_MAX_S
RepeatMax == 20         \* AFTERCARE_REPEAT_MAX, in percent

\* _is_flagged: any signal is enough
IsFlagged(card) ==
  \/ card.disqualified \/ card.canned > 0 \/ card.boilerplate > 0
  \/ card.overrun > OverrunMax \/ card.repeated > RepeatMax
  \/ card.critical \/ card.composite < CompositeMin

\* evaluate_subtitle: how far the last cue runs past the end is known only with
\* the duration
SidecarsEvaluated(card, duration, lastCue) ==
  IF duration = 0 \/ card.cues = 0 THEN [card EXCEPT !.overrun = 0]
  ELSE [card EXCEPT !.overrun = IF lastCue > duration THEN lastCue - duration ELSE 0]

\* is_subarr_generated: the marker in the name, or a path of the ledger; the
\* ledger has the paths of media files
OwnOutput(srt, ledger) == srt.marked \/ srt.path \in ledger

\* discover_external_srts: what can be seen under the roots, without links
SidecarsFound(srts, roots, maxDepth) ==
  {s \in srts : s.root \in roots /\ ~s.link /\ (maxDepth # 0 => s.depth <= maxDepth)}

\* resolve_media_for_srt: the video next to it whose name it begins with, the
\* longest. A name is the sequence of its parts.
MediaOf(name, videos) ==
  LET owners == {v \in videos : IsPrefix(v, name)}
  IN {v \in owners : \A w \in owners : Len(w) <= Len(v)}

----------------------------------------------------------------------------
Latest(path) ==
  {r \in results : r.path = path /\ \A s \in results : s.path = path => s.id <= r.id}
\* _LATEST, _VIEW_FLAGGED
Backlog ==
  {r \in results : r.flagged /\ ~r.reviewed /\ r \in Latest(r.path)}
PendingCount == Cardinality(Backlog)

\* results: pages of the latest rows, flagged ones first, then the newest
AftercarePage(view, source, limit, offset) ==
  LET shown == {r \in IF view = "flagged" THEN Backlog ELSE UNION {Latest(p) : p \in Jobs \cup Sidecars} :
                  source # "any" => r.source = source}
      before(r, s) == \/ r.flagged /\ ~s.flagged
                      \/ r.flagged = s.flagged /\ s.old /\ ~r.old
                      \/ r.flagged = s.flagged /\ r.old = s.old /\ r.id > s.id
      order == SetToSortSeq(shown, before)
  IN [items |-> SubSeq(order, offset + 1, offset + limit), total |-> Cardinality(shown),
      more |-> offset + limit < Cardinality(shown)]

NoAudit == [running |-> FALSE, todo |-> {}, at |-> "idle"]

AftercareInit ==
  /\ results = {} /\ lastResult = 0 /\ audit = NoAudit /\ settled = {}

\* record
Record(path, source, flagged) ==
  /\ lastResult < MaxResults /\ lastResult' = lastResult + 1
  /\ results' = results \cup {[id |-> lastResult + 1, path |-> path, source |-> source,
                               flagged |-> flagged, reviewed |-> FALSE, old |-> FALSE]}
  /\ settled' = IF flagged THEN settled \ {path} ELSE settled \cup {path}

\* _run_aftercare: the subtitle of a finished job is judged
JobJudged(p) ==
  /\ \E flagged \in BOOLEAN : Record(p, "job", flagged)
  /\ UNCHANGED audit

\* start: one at a time
AuditAsked ==
  /\ ~audit.running
  /\ audit' = [running |-> TRUE, at |-> "starting", todo |-> {}]
  /\ UNCHANGED <<results, lastResult, settled>>

\* _run lists the sidecars; listing them may fail
AuditLists ==
  /\ audit.at = "starting"
  /\ \E found \in SUBSET Sidecars :
       audit' = [audit EXCEPT !.running = TRUE, !.at = "walking", !.todo = found]
  /\ UNCHANGED <<results, lastResult, settled>>

\* run_existing_audit, one sidecar: its own output is skipped, one that cannot
\* be read is counted, and the duration is probed before it is judged
AuditSkips ==
  /\ audit.at = "walking"
  /\ \E p \in audit.todo : audit' = [audit EXCEPT !.todo = @ \ {p}]
  /\ UNCHANGED <<results, lastResult, settled>>
AuditJudges ==
  /\ audit.at = "walking"
  /\ \E p \in audit.todo, flagged \in BOOLEAN :
       Record(p, "audit", flagged) /\ audit' = [audit EXCEPT !.todo = @ \ {p}]

\* the end of _run, after a failure too
AuditOver ==
  /\ audit.at = "starting" \/ (audit.at = "walking" /\ audit.todo = {})
  /\ audit' = NoAudit
  /\ UNCHANGED <<results, lastResult, settled>>

Reviewed(rows) ==
  /\ results' = {IF r \in rows THEN [r EXCEPT !.reviewed = TRUE] ELSE r : r \in results}
  /\ settled' = settled \cup {r.path : r \in {q \in rows : q \in Latest(q.path)}}

\* mark_reviewed: any row, by its id
Acknowledged ==
  /\ \E r \in results : ~r.reviewed /\ Reviewed({r})
  /\ UNCHANGED <<lastResult, audit>>

\* mark_all_reviewed, of one source or of all
AllAcknowledged ==
  /\ \E sources \in {{"job"}, {"audit"}, {"job", "audit"}} :
       LET rows == {r \in results : ~r.reviewed /\ r.source \in sources}
       IN rows # {} /\ Reviewed(rows)
  /\ UNCHANGED <<lastResult, audit>>

\* regenerate: a row of the audit is given to the queue; nothing changes here
Regenerable(r, media) == r.source = "audit" /\ media # {}

\* a year passes for every row
YearPasses ==
  /\ \E r \in results : ~r.old
  /\ results' = {[r EXCEPT !.old = TRUE] : r \in results}
  /\ UNCHANGED <<lastResult, audit, settled>>

\* Mutant: what is old goes, reviewed or not.
KeptByAge == {r \in results : ~r.old}

\* prune: an old row goes, unless it waits for a review
KeptByPrune == {r \in results : ~r.old \/ (r.flagged /\ ~r.reviewed)}

\* a restart: the audit is forgotten, the store pruned
AftercareBoots ==
  /\ audit' = NoAudit /\ results' = KeptByPrune
  /\ UNCHANGED <<lastResult, settled>>

AftercareNext ==
  \/ \E p \in Jobs : JobJudged(p)
  \/ AuditAsked \/ AuditLists \/ AuditSkips \/ AuditJudges \/ AuditOver
  \/ Acknowledged \/ AllAcknowledged \/ YearPasses \/ AftercareBoots

AftercareSpec == AftercareInit /\ [][AftercareNext]_aftercareVars

----------------------------------------------------------------------------
\* "flagged-but-unreviewed rows are the user's review backlog - never pruned"
\* (aftercare_store.py:84): a row leaves the backlog only when it is reviewed or
\* its file is judged anew.
BacklogSurvives ==
  [][\A r \in Backlog : \/ \E s \in Backlog' : s.id = r.id
                        \/ \E s \in results' : s.id = r.id /\ s.reviewed
                        \/ \E s \in results' : s.path = r.path /\ s.id > r.id]_aftercareVars

\* "Latest-per-path" (aftercare_store.py:18): a file whose last judgement was
\* good, or was reviewed, is in the backlog again only after another judgement.
SettledStaysSettled == \A r \in Backlog : r.path \notin settled
=============================================================================
