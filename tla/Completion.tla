----------------------------- MODULE Completion -----------------------------
(***************************************************************************)
(* What happens after a file was handed to subgen: the provenance ledger   *)
(* (src/subarr/provenance.py), the completion watcher that closes its rows *)
(* and writes the subtitle back to Bazarr (completion_watcher.py), and the *)
(* webhook by which subgen reports a finished file (routers/queue.py).     *)
(*                                                                         *)
(* The store's methods are atomic.  A watcher tick awaits subgen's queue,  *)
(* then for every row it completes an upload and perhaps a scan task; a    *)
(* webhook handler awaits the same write-back.  The judgements between two *)
(* awaits are single actions, one per row.  Bazarr is configured, with one *)
(* instance; ages of rows saturate at the minimum age of a verdict.  The    *)
(* settings may lose a library whose files are in the ledger: its paths can *)
(* then not be translated (paths.py).                                       *)
(***************************************************************************)
EXTENDS Integers, FiniteSets

CONSTANTS
    Paths,       \* canonical paths
    Folders,     \* those that are not a single file, so never judged
    Slugged,     \* those of a library that the user may remove and add again
    Kinds,       \* ids a job is queued with: "episode", "movie", "unknown"
    Loop,        \* the watcher's loop
    RunNow,      \* ticks asked for on demand, beside the loop's
    Handlers,    \* webhook requests served at once
    Called,      \* bound: subgen calls back while the ledger is about these files only
    MinAge,      \* NO_OUTPUT_MIN_AGE_S, in ticks of the clock
    SurfaceLag,  \* environment: longest time from record() to subgen's queue
    PassSpan,    \* environment: longest time a pass works on one queue answer
    Faults,      \* which disturbances a run includes
    MaxFaults,   \* bound: how many of them
    MaxRows      \* bound: ledger rows ever written

AllFaults ==
    {"crash",      \* this process dies and boots again
     "restart",    \* subgen loses its queue
     "library",    \* a library is taken out of the settings
     "resubmit"}   \* a lost file is submitted again while its row is open

ASSUME CompletionAssumption ==
    /\ IsFiniteSet(Paths)
    /\ Folders \subseteq Paths
    /\ Slugged \subseteq Paths
    /\ Called \subseteq Paths
    /\ Kinds \subseteq {"episode", "movie", "unknown"}
    /\ MinAge \in Nat \ {0}
    /\ SurfaceLag \in Nat
    /\ PassSpan \in Nat
    /\ Faults \subseteq AllFaults
    /\ MaxFaults \in Nat
    /\ MaxRows \in Nat

VARIABLES
    ledger,    \* subs_generated: row id -> row
    pass,      \* driver -> where its tick or request stands
    judged,    \* how often aftercare judged a subtitle for each row
    posted,    \* submissions subgen has not listed: path -> age
    working,   \* paths in subgen's queue
    sidecars,  \* files with a subtitle beside them
    hooks,     \* completion webhooks under way, by path
    strays,    \* paths whose library the settings do not have
    faults     \* disturbances so far

outsideVars == <<posted, working, sidecars, hooks, strays>>
vars == <<ledger, pass, judged, outsideVars, faults>>

Ids == DOMAIN ledger

Pollers == {Loop} \cup RunNow

Drivers == Pollers \cup Handlers

\* stamp is completed_at: 0 when NULL, else the place in completion order
Row == [path: Paths, kind: {"episode", "movie", "unknown"}, age: 0..MinAge,
        stamp: Nat, outcome: {"none", "written", "no_output"}, heard: BOOLEAN]

IdlePass == [pc |-> "idle", todo |-> {}, live |-> {}, entry |-> 0, phase |-> "none", span |-> 0]

Fault(kind) == kind \in Faults /\ faults < MaxFaults /\ faults' = faults + 1

-----------------------------------------------------------------------------
(* The ledger. *)

Open == {i \in Ids : ledger[i].stamp = 0}

OpenFor(p) == {i \in Open : ledger[i].path = p}

Closed == Ids \ Open

\* bazarr_scan_triggered_at is set
Heard == {i \in Ids : ledger[i].heard}

NextStamp == Cardinality(Closed) + 1

\* no_output_entries_since, within the hold-back window
NoOutput == {i \in Closed : ledger[i].outcome = "no_output"}

\* Mutant: rows judged in a queue pass only, not those a webhook closed.
StuckJudged == {i \in Closed \ Heard :
                  ledger[i].kind = "episode" /\ ledger[i].outcome = "written"}

\* completed_without_bazarr: it asks for a series_id
Stuck == {i \in Closed \ Heard :
            ledger[i].kind = "episode" /\ ledger[i].outcome # "no_output"}

\* no_output_paths_since: the most recent completed job produced nothing
HeldBack ==
    {p \in Paths : \E i \in NoOutput :
        /\ ledger[i].path = p
        /\ \A j \in Closed : ledger[j].path = p => ledger[j].stamp <= ledger[i].stamp}

\* Mutant: a later verdict overwrites the first.
StampAgain(i, outcome) ==
    [ledger EXCEPT ![i].stamp = NextStamp, ![i].outcome = outcome]

\* mark_completed: only the first completion is recorded
Stamp(i, outcome) ==
    IF i \in Open
    THEN [ledger EXCEPT ![i].stamp = NextStamp, ![i].outcome = outcome]
    ELSE ledger

\* Mutant: no deduplication against an open row.
RecordTwice(p, k) ==
    /\ Cardinality(Ids) < MaxRows
    /\ ledger' = [i \in 1..(Cardinality(Ids) + 1) |->
                    IF i \in Ids THEN ledger[i]
                    ELSE [path |-> p, kind |-> k, age |-> 0, stamp |-> 0,
                          outcome |-> "none", heard |-> FALSE]]

\* record: an open row of the path is reused as it stands
Record(p, k) ==
    \/ /\ OpenFor(p) # {}
       /\ UNCHANGED ledger
    \/ /\ OpenFor(p) = {}
       /\ Cardinality(Ids) < MaxRows
       /\ ledger' = [i \in 1..(Cardinality(Ids) + 1) |->
                       IF i \in Ids THEN ledger[i]
                       ELSE [path |-> p, kind |-> k, age |-> 0, stamp |-> 0,
                             outcome |-> "none", heard |-> FALSE]]

-----------------------------------------------------------------------------
(* complete_entry: stamp, retime and judge at once, then the write-back.   *)

Goes(d, pc) == pass' = [pass EXCEPT ![d].pc = pc]

\* _find_srt_sidecar: the path is translated, and nothing is found if it cannot be
Found(i) == ledger[i].path \in sidecars \ strays

\* where a driver continues once an entry is done
AfterEntry(q) ==
    IF q.phase = "hook" THEN IdlePass
    ELSE [q EXCEPT !.entry = 0, !.phase = "none",
                   !.pc = IF q.phase = "pending" THEN "judging" ELSE "healing"]

Resume(d) == pass' = [pass EXCEPT ![d] = AfterEntry(@)]

\* Mutant: the row is closed only after the write-back has succeeded.
CompleteLast(d, i, outcome, phase) ==
    /\ UNCHANGED <<ledger, judged>>
    /\ pass' = [pass EXCEPT ![d].pc = "uploading", ![d].entry = i, ![d].phase = phase,
                            ![d].todo = @ \ {i}]

Complete(d, i, outcome, phase) ==
    /\ ledger' = Stamp(i, outcome)
    /\ judged' = IF Found(i)
                 THEN [judged EXCEPT ![i] = IF @ < 2 THEN @ + 1 ELSE 2]
                 ELSE judged
    /\ pass' = [pass EXCEPT ![d].pc = "uploading", ![d].entry = i, ![d].phase = phase,
                            ![d].todo = @ \ {i}]

\* ids found in the arrs for a job queued without them
Resolved(i) ==
    IF ledger[i].kind = "unknown" /\ Found(i)
    THEN {"episode", "movie", "unknown"} ELSE {ledger[i].kind}

\* the direct upload needs a subtitle and ids
Uploaded(d) ==
    LET i == pass[d].entry
    IN  /\ pass[d].pc = "uploading"
        /\ Found(i)
        /\ \E k \in Resolved(i) \ {"unknown"} :
              ledger' = [ledger EXCEPT ![i].kind = k, ![i].heard = TRUE]
        /\ Resume(d)
        /\ UNCHANGED <<judged, outsideVars, faults>>

\* no subtitle, no ids, or an error: the scan task is next if there is a series
NotUploaded(d) ==
    LET i == pass[d].entry
    IN  /\ pass[d].pc = "uploading"
        /\ \E k \in Resolved(i) :
              /\ ledger' = [ledger EXCEPT ![i].kind = k]
              /\ IF k = "episode" THEN Goes(d, "triggering") ELSE Resume(d)
        /\ UNCHANGED <<judged, outsideVars, faults>>

Triggered(d) ==
    /\ pass[d].pc = "triggering"
    /\ ledger' = [ledger EXCEPT ![pass[d].entry].heard = TRUE]
    /\ Resume(d)
    /\ UNCHANGED <<judged, outsideVars, faults>>

NotTriggered(d) ==
    /\ pass[d].pc = "triggering"
    /\ Resume(d)
    /\ UNCHANGED <<ledger, judged, outsideVars, faults>>

\* an error nothing catches ends the whole tick, or the request
Raised(d) ==
    /\ pass[d].pc \in {"uploading", "triggering"}
    /\ pass' = [pass EXCEPT ![d] = IdlePass]
    /\ UNCHANGED <<ledger, judged, outsideVars, faults>>

WriteBack(d) ==
    Uploaded(d) \/ NotUploaded(d) \/ Triggered(d) \/ NotTriggered(d) \/ Raised(d)

-----------------------------------------------------------------------------
(* A watcher tick: _pass_pending, _pass_heal_no_output, the notify retry. *)

Heal(d) == pass' = [pass EXCEPT ![d] = [IdlePass EXCEPT !.pc = "healing", !.todo = NoOutput]]

StartTick(d) ==
    /\ pass[d].pc = "idle"
    /\ IF Open = {} THEN Heal(d)
       ELSE pass' = [pass EXCEPT ![d] = [IdlePass EXCEPT !.pc = "asking", !.todo = Open]]
    /\ UNCHANGED <<ledger, judged, outsideVars, faults>>

\* subgen answers; the tick resumes later and works on a stale answer
QueueAnswered(d) ==
    /\ pass[d].pc = "asking"
    /\ pass' = [pass EXCEPT ![d].pc = "judging", ![d].live = working]
    /\ UNCHANGED <<ledger, judged, outsideVars, faults>>

QueueUnreachable(d) ==
    /\ pass[d].pc = "asking"
    /\ Heal(d)
    /\ UNCHANGED <<ledger, judged, outsideVars, faults>>

\* rows of the tick's list that have a path at subgen and were not in its queue
Left(d) == {i \in pass[d].todo : ledger[i].path \notin strays \cup pass[d].live}

\* those without one: canonical_to_subgen_batch raises for them
Untranslatable(d) == {i \in pass[d].todo : ledger[i].path \in strays}

\* Mutant: a row is judged however young it is.
NothingWrittenAtOnce(i) ==
    ledger[i].path \notin Folders /\ ~Found(i)

\* _output_verdict NO OUTPUT
NothingWritten(i) ==
    /\ ledger[i].path \notin Folders
    /\ ~Found(i)
    /\ ledger[i].age >= MinAge

\* _output_verdict otherwise: WRITTEN, None for a folder, or wait
Verdict(i) ==
    IF ledger[i].path \in Folders THEN "none"
    ELSE IF Found(i) THEN "written"
    ELSE "wait"

RecordNoOutput(d) ==
    /\ pass[d].pc = "judging"
    /\ \E i \in Left(d) :
          /\ NothingWritten(i)
          /\ ledger' = Stamp(i, "no_output")
          /\ pass' = [pass EXCEPT ![d].todo = @ \ {i}]
    /\ UNCHANGED <<judged, outsideVars, faults>>

\* Mutant: a row that should wait is completed with that as its outcome.
CompletesWaiting(d) ==
    /\ pass[d].pc = "judging"
    /\ \E i \in Left(d) : ~NothingWritten(i) /\ Complete(d, i, Verdict(i), "pending")
    /\ UNCHANGED <<outsideVars, faults>>

CompletesRow(d) ==
    /\ pass[d].pc = "judging"
    /\ \E i \in Left(d) :
          /\ ~NothingWritten(i)
          /\ Verdict(i) # "wait"
          /\ Complete(d, i, Verdict(i), "pending")
    /\ UNCHANGED <<outsideVars, faults>>

\* nothing catches it: the tick ends before the heal and the retry pass, with
\* the row as it was
JudgeRaises(d) ==
    /\ pass[d].pc = "judging"
    /\ Untranslatable(d) # {}
    /\ pass' = [pass EXCEPT ![d] = IdlePass]
    /\ UNCHANGED <<ledger, judged, outsideVars, faults>>

\* the others are still in flight or too young
PendingDone(d) ==
    /\ pass[d].pc = "judging"
    /\ Untranslatable(d) = {}
    /\ \A i \in Left(d) : ~NothingWritten(i) /\ Verdict(i) = "wait"
    /\ Heal(d)
    /\ UNCHANGED <<ledger, judged, outsideVars, faults>>

\* Mutant: the heal pass runs the write-back but leaves the verdict.
HealsRowSilently(d) ==
    /\ pass[d].pc = "healing"
    /\ \E i \in pass[d].todo :
          /\ Found(i)
          /\ Complete(d, i, "written", "heal")
    /\ UNCHANGED <<outsideVars, faults>>

\* a subtitle is there after all: set_outcome, then the completion it missed
HealsRow(d) ==
    /\ pass[d].pc = "healing"
    /\ \E i \in pass[d].todo :
          /\ Found(i)
          /\ ledger' = [ledger EXCEPT ![i].outcome = "written"]
          /\ judged' = [judged EXCEPT ![i] = IF @ < 2 THEN @ + 1 ELSE 2]
          /\ pass' = [pass EXCEPT ![d].pc = "uploading", ![d].entry = i,
                                  ![d].phase = "heal", ![d].todo = @ \ {i}]
    /\ UNCHANGED <<outsideVars, faults>>

HealDone(d) ==
    /\ pass[d].pc = "healing"
    /\ \A i \in pass[d].todo : ~Found(i)
    /\ pass' = [pass EXCEPT ![d] =
                  IF Stuck = {} THEN IdlePass
                  ELSE [IdlePass EXCEPT !.pc = "retrying", !.todo = Stuck]]
    /\ UNCHANGED <<ledger, judged, outsideVars, faults>>

\* one library-wide scan task for all of them
Retried(d) ==
    /\ pass[d].pc = "retrying"
    /\ ledger' = [i \in Ids |-> IF i \in pass[d].todo
                                THEN [ledger[i] EXCEPT !.heard = TRUE] ELSE ledger[i]]
    /\ pass' = [pass EXCEPT ![d] = IdlePass]
    /\ UNCHANGED <<judged, outsideVars, faults>>

RetryFailed(d) ==
    /\ pass[d].pc = "retrying"
    /\ pass' = [pass EXCEPT ![d] = IdlePass]
    /\ UNCHANGED <<ledger, judged, outsideVars, faults>>

Judge(d) ==
    \/ RecordNoOutput(d)
    \/ CompletesRow(d)
    \/ JudgeRaises(d)
    \/ PendingDone(d)
    \/ HealsRow(d)
    \/ HealDone(d)

Tick(d) ==
    \/ StartTick(d)
    \/ QueueAnswered(d)
    \/ QueueUnreachable(d)
    \/ Judge(d)
    \/ Retried(d)
    \/ RetryFailed(d)

-----------------------------------------------------------------------------
(* The webhook: complete_by_canonical for the open row of the path, if any; *)
(* subgen_to_canonical knows the path by its library.                       *)

HookServed(h) ==
    /\ pass[h].pc = "idle"
    /\ \E p \in hooks :
          /\ hooks' = hooks \ {p}
          /\ IF OpenFor(p) = {} \/ p \in strays THEN UNCHANGED <<ledger, pass, judged>>
             ELSE \E i \in OpenFor(p) : Complete(h, i, "none", "hook")
    /\ UNCHANGED <<posted, working, sidecars, strays, faults>>

-----------------------------------------------------------------------------
(* subgen, the feeder's submissions, the clock, restarts. *)

\* _feeder_submit: the scan's POST and record() together; a path in subgen's
\* queue is adopted instead, and one without its library is refused
Submit ==
    \E p \in Paths \ (working \cup DOMAIN posted \cup strays), k \in Kinds :
        /\ Record(p, k)
        /\ IF OpenFor(p) # {} THEN Fault("resubmit") ELSE UNCHANGED faults
        /\ judged' = [i \in DOMAIN ledger' |-> IF i \in Ids THEN judged[i] ELSE 0]
        /\ posted' = [q \in DOMAIN posted \cup {p} |-> IF q = p THEN 0 ELSE posted[q]]
        /\ UNCHANGED <<pass, working, sidecars, hooks, strays>>

Unpost(p) == posted' = [q \in DOMAIN posted \ {p} |-> posted[q]]

\* subgen lists the path, or refuses it or never gets the request
Arrives ==
    /\ \E p \in DOMAIN posted :
          /\ Unpost(p)
          /\ working' \in {working, working \cup {p}}
    /\ UNCHANGED <<ledger, pass, judged, sidecars, hooks, strays, faults>>

\* a folder's own path is never in the queue, its files are
Finishes ==
    /\ \E p \in working :
          /\ working' = working \ {p}
          /\ sidecars' \in IF p \in Folders THEN {sidecars} ELSE {sidecars, sidecars \cup {p}}
          /\ hooks' \in IF {ledger[i].path : i \in Ids} \subseteq Called
                       THEN {hooks, hooks \cup {p}} ELSE {hooks}
    /\ UNCHANGED <<ledger, pass, judged, posted, strays, faults>>

HookLost ==
    /\ \E p \in hooks : hooks' = hooks \ {p}
    /\ UNCHANGED <<ledger, pass, judged, posted, working, sidecars, strays, faults>>

SubgenRestarts ==
    /\ Fault("restart")
    /\ working' = {}
    /\ posted' = [p \in {} |-> 0]
    /\ UNCHANGED <<ledger, pass, judged, sidecars, hooks, strays>>

Crash ==
    /\ Fault("crash")
    /\ pass' = [d \in Drivers |-> IdlePass]
    /\ UNCHANGED <<ledger, judged, outsideVars>>

\* a library is edited out of the settings, at once for every coroutine
LibraryRemoved ==
    /\ Fault("library")
    /\ strays' = Slugged
    /\ UNCHANGED <<ledger, pass, judged, posted, working, sidecars, hooks>>

LibraryRestored ==
    /\ strays # {}
    /\ strays' = {}
    /\ UNCHANGED <<ledger, pass, judged, posted, working, sidecars, hooks, faults>>

\* a driver that works on an answer of subgen's queue
OnAnswer(d) ==
    \/ pass[d].pc = "judging"
    \/ pass[d].pc \in {"uploading", "triggering"} /\ pass[d].phase = "pending"

Clock ==
    /\ \A p \in DOMAIN posted : posted[p] < SurfaceLag
    /\ \A d \in Drivers : OnAnswer(d) => pass[d].span < PassSpan
    /\ ledger' = [i \in Ids |-> IF i \in Open /\ ledger[i].age < MinAge
                                THEN [ledger[i] EXCEPT !.age = @ + 1] ELSE ledger[i]]
    /\ posted' = [p \in DOMAIN posted |-> posted[p] + 1]
    /\ pass' = [d \in Drivers |-> IF OnAnswer(d) THEN [pass[d] EXCEPT !.span = @ + 1] ELSE pass[d]]
    /\ UNCHANGED <<judged, working, sidecars, hooks, strays, faults>>

-----------------------------------------------------------------------------
Init ==
    /\ ledger = [i \in {} |-> 0]
    /\ pass = [d \in Drivers |-> IdlePass]
    /\ judged = [i \in {} |-> 0]
    /\ posted = [p \in {} |-> 0]
    /\ working = {}
    /\ sidecars \in SUBSET (Paths \ Folders)
    /\ hooks = {}
    /\ strays = {}
    /\ faults = 0

Next ==
    \/ \E d \in Pollers : Tick(d)
    \/ \E d \in Drivers : WriteBack(d)
    \/ \E h \in Handlers : HookServed(h)
    \/ Submit
    \/ Arrives
    \/ Finishes
    \/ HookLost
    \/ SubgenRestarts
    \/ Crash
    \/ LibraryRemoved
    \/ LibraryRestored
    \/ Clock

Spec == Init /\ [][Next]_vars

\* The loop ticks again and again and its awaits return; subgen answers and
\* works through its queue; Bazarr does not fail for ever; time passes.
Fairness ==
    /\ WF_vars(StartTick(Loop) \/ Judge(Loop) \/ RetryFailed(Loop))
    /\ SF_vars(QueueAnswered(Loop))
    /\ SF_vars(Retried(Loop))
    /\ WF_vars(WriteBack(Loop))
    /\ WF_vars(Arrives)
    /\ WF_vars(Finishes)
    /\ SF_vars(Clock)

FairSpec == Spec /\ Fairness

-----------------------------------------------------------------------------
(* Properties. *)

TypeOK ==
    /\ Ids = 1..Cardinality(Ids)
    /\ Cardinality(Ids) <= MaxRows
    /\ ledger \in [Ids -> Row]
    /\ judged \in [Ids -> 0..2]
    /\ pass \in [Drivers -> [pc: {"idle", "asking", "judging", "uploading", "triggering",
                                  "healing", "retrying"},
                             todo: SUBSET Ids, live: SUBSET Paths, entry: {0} \cup Ids,
                             phase: {"none", "pending", "heal", "hook"}, span: 0..PassSpan]]
    /\ DOMAIN posted \subseteq Paths
    /\ posted \in [DOMAIN posted -> 0..SurfaceLag]
    /\ working \subseteq Paths
    /\ sidecars \subseteq Paths
    /\ hooks \subseteq Paths
    /\ strays \in {{}, Slugged}
    /\ faults \in 0..MaxFaults

\* record()'s promise: one transcription has one open row, however often the
\* path is searched again while it is in flight.
OneOpenRow == \A i, j \in Open : ledger[i].path = ledger[j].path => i = j

\* The first completion stands.  The watcher and the webhook race to close a
\* row, and whichever comes second neither moves completed_at nor turns a
\* completed file into one without output; only the heal pass corrects it.
VerdictKept ==
    [][\A i \in Closed :
          /\ ledger'[i].stamp = ledger[i].stamp
          /\ \/ ledger'[i].outcome = ledger[i].outcome
             \/ ledger[i].outcome = "no_output" /\ ledger'[i].outcome = "written"]_vars

\* NO_OUTPUT_MIN_AGE_S: a file is not judged without output while its job is
\* on the way to subgen or in its queue.
NotHeldWhileUnderWay ==
    [][\A i \in Open : ledger'[i].outcome = "no_output" =>
          ledger[i].path \notin DOMAIN posted \cup working]_vars

\* provenance.py: completed_at is stamped when the path leaves subgen's queue.
CompletedAfterRun ==
    [][\A i \in Open : ledger'[i].stamp # 0 =>
          ledger[i].path \notin DOMAIN posted \cup working]_vars

\* record()'s reason for deduplicating: aftercare runs once per transcription.
AftercareOnce == \A i \in Ids : judged[i] <= 1

\* An open row of a library that the settings no longer have: every tick of
\* the watcher ends in its pending pass.
Blocked == \E i \in Open : ledger[i].path \in strays

\* Every ledger row is eventually closed, whatever the write-backs of other
\* rows do.  The exception is a tick that cannot go on: while an open row is of
\* a removed library, no row has to close.  Where the library comes back, the
\* row is open still and the claim holds of it again.
RowsClose == \A i \in 1..MaxRows : i \in Open ~> i \in Closed \/ Blocked

\* A completed episode is eventually announced to Bazarr, although uploads
\* and tasks fail and the process may die between the stamp and the upload;
\* with the same exception, since the retry pass is the last of a tick.
EpisodesHeard ==
    \A i \in 1..MaxRows :
        i \in {j \in Closed : ledger[j].kind = "episode" /\ ledger[j].outcome # "no_output"}
            ~> i \in Heard \/ Blocked

\* The same of a movie, whose upload may fail as well.
MoviesHeard ==
    \A i \in 1..MaxRows :
        i \in {j \in Closed : ledger[j].kind = "movie" /\ ledger[j].outcome = "written"}
            ~> i \in Heard

\* A file with a subtitle beside it is not held back for having none, except
\* while the heal pass is not reached or cannot translate its path.
HoldBackEnds ==
    \A p \in Paths :
        p \in HeldBack /\ p \in sidecars ~> p \notin HeldBack \/ p \in strays \/ Blocked

\* What does not hold: every row closes, whatever becomes of the libraries.
RowsCloseAnyway == \A i \in 1..MaxRows : i \in Open ~> i \in Closed

=============================================================================
