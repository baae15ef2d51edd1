---------------------------- MODULE ScanHistory -----------------------------
(***************************************************************************)
(* Scans and what a subgen restart does to them: the runner that posts a   *)
(* scan's files (src/subarr/scan_runner.py), the history table it saves to *)
(* (scan_store.py), the watchdog that probes subgen (subgen_watchdog.py)   *)
(* and app.py's reconciliation, which marks what a restart lost.           *)
(*                                                                         *)
(* The runner works on a copy of the scan and saves all of it; the store's *)
(* methods are atomic.  A probe, the reconciliation's look at subgen's     *)
(* queue and each POST await.  Every file belongs to one scan only, and    *)
(* its basename to it alone.                                               *)
(***************************************************************************)
EXTENDS Integers, FiniteSets

CONSTANTS
    Scans,       \* scan ids
    Width,       \* files per scan
    Loop,        \* the watchdog's loop
    RunNow,      \* probes asked for on demand, beside the loop's
    Refreshers,  \* the telemetry's (and a reload's) probes, which only renew subgen_caps
    BounceMin,   \* _BOUNCE_MIN_UNREACHABLE
    MaxVersion,  \* bound: identities subgen takes on
    Faults,      \* which disturbances a run includes
    MaxFaults    \* bound: how many of them

AllFaults ==
    {"restart",  \* subgen is down for BounceMin probes or longer, and comes back
     "upgrade",  \* it comes back, however soon, with another identity
     "blip",     \* it cannot be reached for a while, and keeps its queue
     "unread",   \* the reconciliation cannot read subgen's queue
     "delete",   \* the user drops a scan from the history
     "crash"}    \* this process dies and boots again

ASSUME ScanHistoryAssumption ==
    /\ IsFiniteSet(Scans)
    /\ ({Loop} \cup RunNow) \cap Refreshers = {}
    /\ Width \in Nat \ {0}
    /\ BounceMin \in Nat \ {0}
    /\ MaxVersion \in Nat \ {0}
    /\ Faults \subseteq AllFaults
    /\ MaxFaults \in Nat

VARIABLES
    saved,      \* results_json: scan -> file -> status
    status,     \* the scan rows: "absent", "running", "done" or "deleted"
    copy,       \* the runner's results of a scan
    at,         \* the file a scan's task is posting, 0 when it has no task
    accepted,   \* POSTs subgen has taken and not answered yet
    queue,      \* files subgen holds
    finished,   \* files it has transcribed
    completed,  \* those the provenance ledger knows of
    outage,     \* "none", or why subgen is unreachable
    missed,     \* the loop's probes that missed it in this outage
    identity,   \* patch revision and version of the running subgen
    caps,       \* subgen_caps: the identity last reached, 0 when none
    misses,     \* _consecutive_unreachable
    probe,      \* where each probe stands
    faults      \* disturbances so far

runnerVars == <<saved, status, copy, at>>
subgenVars == <<accepted, queue, finished, completed, outage, missed, identity>>
watchdogVars == <<caps, misses, probe>>
vars == <<runnerVars, subgenVars, watchdogVars, faults>>

Watchdog == {Loop} \cup RunNow

Probers == Watchdog \cup Refreshers

Index == 1..Width

\* a file is known by its scan and its place in it
Files == Scans \X Index

PathStatuses == {"pending", "running", "ok", "refused", "error", "orphaned"}

Reachable == outage = "none"

Created == {s \in Scans : status[s] # "absent"}

\* rows that hold files in the given status
With(st) == {f \in Files : status[f[1]] \in {"running", "done"} /\ saved[f[1]][f[2]] = st}

Fault(kind) == kind \in Faults /\ faults < MaxFaults /\ faults' = faults + 1

IdleProbe == [pc |-> "idle", old |-> 0, new |-> 0, before |-> {}, done |-> {}, live |-> {}]

-----------------------------------------------------------------------------
(* The runner.  save() writes the whole copy, to a row that may be gone.   *)

\* Mutant: the scan ends when its first file has been answered.
NextFileStops(s) == Width + 1

NextFile(s) == at[s] + 1

\* the current file gets its verdict, the next one starts; one save each
SaveOutcome(s, outcome) ==
    LET next == NextFile(s)
        results == [k \in Index |-> IF k = at[s] THEN outcome
                                    ELSE IF k = next THEN "running" ELSE copy[s][k]]
    IN  /\ copy' = [copy EXCEPT ![s] = results]
        /\ saved' = [saved EXCEPT ![s] = results]
        /\ at' = [at EXCEPT ![s] = IF next \in Index THEN next ELSE 0]
        /\ status' = [status EXCEPT ![s] = IF @ = "running" /\ next \notin Index THEN "done" ELSE @]

\* scans.create and runner.start, up to the first POST
Start(s) ==
    /\ status[s] = "absent"
    /\ LET results == [k \in Index |-> IF k = 1 THEN "running" ELSE "pending"]
       IN  /\ copy' = [copy EXCEPT ![s] = results]
           /\ saved' = [saved EXCEPT ![s] = results]
    /\ status' = [status EXCEPT ![s] = "running"]
    /\ at' = [at EXCEPT ![s] = 1]
    /\ UNCHANGED <<subgenVars, watchdogVars, faults>>

\* subgen queues the file while the POST is still under way
Accepted(s) ==
    /\ at[s] # 0
    /\ s \notin accepted
    /\ Reachable
    /\ accepted' = accepted \cup {s}
    /\ queue' = queue \cup {<<s, at[s]>>}
    /\ UNCHANGED <<runnerVars, finished, completed, outage, missed, identity, watchdogVars, faults>>

Answered(s) ==
    /\ s \in accepted
    /\ accepted' = accepted \ {s}
    /\ SaveOutcome(s, "ok")
    /\ UNCHANGED <<queue, finished, completed, outage, missed, identity, watchdogVars, faults>>

\* skipped, or nothing there
Refused(s) ==
    /\ at[s] # 0
    /\ s \notin accepted
    /\ Reachable
    /\ SaveOutcome(s, "refused")
    /\ UNCHANGED <<subgenVars, watchdogVars, faults>>

PostFailed(s) ==
    /\ at[s] # 0
    /\ s \notin accepted
    /\ ~Reachable
    /\ SaveOutcome(s, "error")
    /\ UNCHANGED <<subgenVars, watchdogVars, faults>>

Runs(s) == Answered(s) \/ Refused(s) \/ PostFailed(s)

DeleteScan(s) ==
    /\ Fault("delete")
    /\ status[s] \in {"running", "done"}
    /\ status' = [status EXCEPT ![s] = "deleted"]
    /\ UNCHANGED <<saved, copy, at, subgenVars, watchdogVars>>

-----------------------------------------------------------------------------
(* The watchdog: _probe_once, then app.py's _on_subgen_restart.            *)

ProbeStarts(d) ==
    /\ probe[d].pc = "idle"
    /\ probe' = [probe EXCEPT ![d].pc = "probing", ![d].old = caps]
    /\ UNCHANGED <<runnerVars, subgenVars, caps, misses, faults>>

\* 0 when nothing answers
ProbeAnswered(d) ==
    /\ probe[d].pc = "probing"
    /\ probe' = [probe EXCEPT ![d].pc = "judging",
                              ![d].new = IF Reachable THEN identity ELSE 0]
    /\ missed' = IF ~Reachable /\ d = Loop /\ missed < BounceMin THEN missed + 1 ELSE missed
    /\ UNCHANGED <<runnerVars, accepted, queue, finished, completed, outage, identity,
                   caps, misses, faults>>

NotReached(d) ==
    /\ d \in Watchdog
    /\ probe[d].pc = "judging"
    /\ probe[d].new = 0
    /\ misses' = IF misses < BounceMin THEN misses + 1 ELSE misses
    /\ probe' = [probe EXCEPT ![d] = IdleProbe]
    /\ UNCHANGED <<runnerVars, subgenVars, caps, faults>>

\* Mutant: one missed probe more is needed than an outage may last.
RestartSeenLate(d) == probe[d].old # probe[d].new \/ misses > BounceMin

\* another identity than at the start of the probe, or an observed bounce
RestartSeen(d) == probe[d].old # probe[d].new \/ misses >= BounceMin

\* no restart, or no baseline to compare with: the capabilities are adopted
Adopted(d) ==
    /\ d \in Watchdog
    /\ probe[d].pc = "judging"
    /\ probe[d].new # 0
    /\ probe[d].old = 0 \/ ~RestartSeen(d)
    /\ caps' = probe[d].new
    /\ misses' = 0
    /\ probe' = [probe EXCEPT ![d] = IdleProbe]
    /\ UNCHANGED <<runnerVars, subgenVars, faults>>

\* Mutant: the capabilities of the old subgen stay after a restart.
RestartKeepsCaps(d) ==
    /\ d \in Watchdog
    /\ probe[d].pc = "judging"
    /\ probe[d].new # 0
    /\ probe[d].old # 0
    /\ RestartSeen(d)
    /\ misses' = 0
    /\ probe' = [probe EXCEPT ![d].pc = "fetching", ![d].before = Created,
                              ![d].done = completed]
    /\ UNCHANGED <<runnerVars, subgenVars, caps, faults>>

\* the hook notes the time and the completed paths, then asks for the queue
RestartDetected(d) ==
    /\ d \in Watchdog
    /\ probe[d].pc = "judging"
    /\ probe[d].new # 0
    /\ probe[d].old # 0
    /\ RestartSeen(d)
    /\ caps' = probe[d].new
    /\ misses' = 0
    /\ probe' = [probe EXCEPT ![d].pc = "fetching", ![d].before = Created,
                              ![d].done = completed]
    /\ UNCHANGED <<runnerVars, subgenVars, faults>>

QueueFetched(d) ==
    /\ probe[d].pc = "fetching"
    /\ Reachable
    /\ probe' = [probe EXCEPT ![d].pc = "marking", ![d].live = queue]
    /\ UNCHANGED <<runnerVars, subgenVars, caps, misses, faults>>

\* the error is logged, and the queue taken to be empty
QueueUnread(d) ==
    /\ probe[d].pc = "fetching"
    /\ IF Reachable THEN Fault("unread") ELSE UNCHANGED faults
    /\ probe' = [probe EXCEPT ![d].pc = "marking", ![d].live = {}]
    /\ UNCHANGED <<runnerVars, subgenVars, caps, misses>>

\* mark_orphaned_before
Lost(d) ==
    {f \in With("ok") : f[1] \in probe[d].before /\ f \notin probe[d].done \cup probe[d].live}

Mark(d) ==
    /\ probe[d].pc = "marking"
    /\ saved' = [s \in Scans |-> [k \in Index |->
                    IF <<s, k>> \in Lost(d) THEN "orphaned" ELSE saved[s][k]]]
    /\ probe' = [probe EXCEPT ![d] = IdleProbe]
    /\ UNCHANGED <<status, copy, at, subgenVars, caps, misses, faults>>

\* _refresh_subgen_caps: the snapshot is replaced by whatever the probe found,
\* also by "unreachable", and nothing is compared with the old one
Refreshed(d) ==
    /\ d \in Refreshers
    /\ probe[d].pc = "judging"
    /\ caps' = probe[d].new
    /\ probe' = [probe EXCEPT ![d] = IdleProbe]
    /\ UNCHANGED <<runnerVars, subgenVars, misses, faults>>

\* a probe under way
Probes(d) ==
    \/ ProbeAnswered(d)
    \/ NotReached(d)
    \/ Adopted(d)
    \/ RestartDetected(d)
    \/ QueueFetched(d)
    \/ QueueUnread(d)
    \/ Mark(d)
    \/ Refreshed(d)

ProbeStep(d) == ProbeStarts(d) \/ Probes(d)

-----------------------------------------------------------------------------
(* subgen and the completion watcher. *)

Finishes ==
    /\ \E f \in queue : queue' = queue \ {f} /\ finished' = finished \cup {f}
    /\ UNCHANGED <<runnerVars, accepted, completed, outage, missed, identity, watchdogVars, faults>>

\* Mutant: a file is noted as completed while subgen still works on it.
NotedEarly ==
    /\ \E f \in queue \ completed : completed' = completed \cup {f}
    /\ UNCHANGED <<runnerVars, accepted, queue, finished, outage, missed, identity,
                   watchdogVars, faults>>

\* the watcher's next tick stamps completed_at
Noted ==
    /\ \E f \in finished \ completed : completed' = completed \cup {f}
    /\ UNCHANGED <<runnerVars, accepted, queue, finished, outage, missed, identity,
                   watchdogVars, faults>>

\* connections break: a POST under way fails, whatever became of it
GoesDown(kind) ==
    /\ Reachable
    /\ Fault(kind)
    /\ outage' = kind
    /\ missed' = 0
    /\ accepted' = {}
    /\ UNCHANGED <<runnerVars, finished, completed, watchdogVars>>

Stops == GoesDown("restart") /\ queue' = {} /\ UNCHANGED identity

Upgrades ==
    /\ identity < MaxVersion
    /\ GoesDown("upgrade")
    /\ queue' = {}
    /\ identity' = identity + 1

Blip == GoesDown("blip") /\ UNCHANGED <<queue, identity>>

Returns ==
    /\ ~Reachable
    /\ outage = "restart" => missed >= BounceMin
    /\ outage' = "none"
    /\ missed' = 0
    /\ UNCHANGED <<runnerVars, accepted, queue, finished, completed, identity, watchdogVars, faults>>

\* boot: no scan resumes, and the capabilities are probed afresh
Crash ==
    /\ Fault("crash")
    /\ at' = [s \in Scans |-> 0]
    /\ accepted' = {}
    /\ caps' = IF Reachable THEN identity ELSE 0
    /\ misses' = 0
    /\ probe' = [d \in Probers |-> IdleProbe]
    /\ UNCHANGED <<saved, status, copy, queue, finished, completed, outage, missed, identity>>

-----------------------------------------------------------------------------
Init ==
    /\ saved = [s \in Scans |-> [k \in Index |-> "pending"]]
    /\ status = [s \in Scans |-> "absent"]
    /\ copy = saved
    /\ at = [s \in Scans |-> 0]
    /\ accepted = {}
    /\ queue = {}
    /\ finished = {}
    /\ completed = {}
    /\ outage = "none"
    /\ missed = 0
    /\ identity = 1
    /\ caps = 1
    /\ misses = 0
    /\ probe = [d \in Probers |-> IdleProbe]
    /\ faults = 0

Next ==
    \/ \E s \in Scans : Start(s) \/ Accepted(s) \/ Runs(s) \/ DeleteScan(s)
    \/ \E d \in Probers : ProbeStep(d)
    \/ Finishes
    \/ Noted
    \/ Stops
    \/ Upgrades
    \/ Blip
    \/ Returns
    \/ Crash

Spec == Init /\ [][Next]_vars

\* The watchdog's loop keeps probing, and the requests of every probe have a
\* timeout and return; an outage ends.
\* subgen need not finish anything.
Fairness ==
    /\ WF_vars(ProbeStarts(Loop))
    /\ \A d \in Probers : WF_vars(Probes(d))
    /\ WF_vars(Returns)
    /\ \A s \in Scans : WF_vars(Runs(s))

FairSpec == Spec /\ Fairness

-----------------------------------------------------------------------------
(* Properties. *)

TypeOK ==
    /\ saved \in [Scans -> [Index -> PathStatuses]]
    /\ status \in [Scans -> {"absent", "running", "done", "deleted"}]
    /\ copy \in [Scans -> [Index -> PathStatuses]]
    /\ at \in [Scans -> 0..Width]
    /\ accepted \subseteq Scans
    /\ queue \subseteq Files
    /\ finished \subseteq Files
    /\ completed \subseteq finished
    /\ outage \in {"none", "restart", "upgrade", "blip"}
    /\ missed \in 0..BounceMin
    /\ identity \in 1..MaxVersion
    /\ caps \in 0..MaxVersion
    /\ misses \in 0..BounceMin
    /\ probe \in [Probers -> [pc: {"idle", "probing", "judging", "fetching", "marking"},
                              old: 0..MaxVersion, new: 0..MaxVersion,
                              before: SUBSET Scans, done: SUBSET Files, live: SUBSET Files]]
    /\ faults \in 0..MaxFaults

\* A scan is done only when each of its files has an answer, whatever else
\* writes to the row between the runner's saves.
DoneIsAnswered ==
    \A s \in Scans : status[s] = "done" =>
        \A k \in Index : saved[s][k] \in {"ok", "refused", "error", "orphaned"}

\* subgen is gone and with it a file that history calls handed over
Gone(f) ==
    /\ outage \in {"restart", "upgrade"}
    /\ f \in With("ok") \ (queue \cup finished)

\* A restart is recognised by comparison with the capabilities last reached; a
\* refresh replaces these without a comparison, and by nothing when it finds
\* subgen unreachable.
Compared ==
    /\ caps # 0
    /\ probe[Loop].pc \in {"probing", "judging"} => probe[Loop].old # 0
    /\ \A d \in Refreshers : probe[d].pc = "idle"

\* A file that an outage took from subgen while history calls it handed over is
\* eventually shown as lost, unless the telemetry's refresh hides the restart;
\* and it stays so if the runner was through with its scan.  (The mark in a scan
\* that is still being posted is overwritten by the runner's next save.)
LostAreMarked ==
    \A f \in Files :
        /\ Gone(f) ~> (f \notin With("ok") \/ ~Compared)
        /\ Gone(f) /\ at[f[1]] = 0 ~> ([](f \notin With("ok")) \/ ~Compared)

\* The capability snapshot the rest of the program reads follows subgen,
\* although probes started before a restart may end after it.
CapsFollow == caps # identity ~> (caps = identity \/ ~Reachable)

\* scan_store.py: a file that subgen still holds is not marked lost.
HeldNotMarked ==
    [][\A f \in queue : f \in With("ok") => saved'[f[1]][f[2]] # "orphaned"]_vars

\* completed_paths_since: a file subgen finished is not marked lost.
FinishedNotMarked ==
    [][\A f \in finished : f \in With("ok") => saved'[f[1]][f[2]] # "orphaned"]_vars

\* PATH_STATUS_ORPHANED: a file marked as lost stays marked.
MarksKept ==
    [][\A f \in With("orphaned") : saved'[f[1]][f[2]] = "orphaned"]_vars

\* LostAreMarked as _on_subgen_restart has it ("the history view doesn't lie"):
\* whatever refreshes the capabilities beside the watchdog.
LostAreMarkedDespiteRefresh ==
    \A f \in Files : Gone(f) ~> (f \notin With("ok") \/ caps = 0)

=============================================================================
