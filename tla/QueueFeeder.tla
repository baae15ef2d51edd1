---------------------------- MODULE QueueFeeder -----------------------------
(***************************************************************************)
(* The depth-aware feeder (src/subarr/pending_feeder.py) that drains the   *)
(* pending queue into subgen, with what it runs against: the submit hook   *)
(* and scan-outcome hook of app.py, subgen's own queue, other producers,   *)
(* the user, and restarts of either process.                               *)
(*                                                                         *)
(* A tick awaits twice: for subgen's queue, and for each submission.  pc   *)
(* says where it stands; everything between two awaits is one action,      *)
(* because the process has a single event loop.                            *)
(***************************************************************************)
EXTENDS PendingQueue

CONSTANTS
    InflightGrace,  \* INFLIGHT_GRACE_S, in ticks of the clock
    SurfaceLag,     \* environment: longest time from POST /batch to subgen's queue
    TickSpan,       \* environment: longest time subgen's answer or a fill takes
    MaxTarget,      \* largest queue_target_depth a user sets
    NoLimit,        \* concurrent_transcriptions when subgen does not report it
    Capacity,       \* subgen's concurrent_transcriptions, or NoLimit
    MaxArena,       \* arena sweeps that may run beside the queue
    Faults,         \* which disturbances a run includes
    MaxFaults       \* bound: how many of them

AllFaults ==
    {"subarr_restart",    \* this process dies and boots again
     "subgen_restart",    \* subgen loses its queue
     "foreign",           \* Bazarr or Plex queue a file in subgen themselves
     "control",           \* the user pauses, resumes, changes the target
     "remove_held",       \* the user deletes the row being submitted
     "remove_submitted"}  \* the user deletes a row already handed over

ASSUME QueueFeederAssumption ==
    /\ IsFiniteSet(Paths)
    /\ InflightGrace \in Nat \ {0}
    /\ SurfaceLag \in Nat
    /\ TickSpan \in Nat
    /\ MaxTarget \in Nat
    /\ NoLimit \notin Nat
    /\ Capacity \in Nat \cup {NoLimit}
    /\ MaxArena \in Nat
    /\ Faults \subseteq AllFaults
    /\ MaxFaults \in Nat

VARIABLES
    rules,     \* queue_paused and queue_target_depth
    pc,        \* where the tick stands
    seen,      \* the tick's copy of subgen's queue: its paths and its counts
    depth,     \* the tick's effective depth
    target,    \* the tick's target depth
    held,      \* the job being submitted, 0 when none
    heldPath,  \* its path, as read when the job was picked
    tickAge,   \* time since subgen answered, then since the tick read the clock
    inflight,  \* _inflight: path -> time since it was reserved
    posts,     \* submissions subgen has not listed, skipped or refused yet
    listed,    \* subgen's queue: path -> TRUE when subarr asked for it
    faults     \* disturbances so far

tickVars == <<seen, depth, target, held, heldPath, tickAge>>
subgenVars == <<posts, listed>>
feederVars == <<rules, pc, tickVars, inflight, subgenVars, faults>>
vars == <<queueVars, feederVars>>

NoPath == "no path"

Empty == [p \in {} |-> 0]

\* subgen holds a path once: a second request for it joins the first
Post == [job: Nat, path: Paths, age: 0..SurfaceLag, watched: BOOLEAN]

Drop(f, S) == [p \in DOMAIN f \ S |-> f[p]]

Set(f, p, v) == [q \in DOMAIN f \cup {p} |-> IF q = p THEN v ELSE f[q]]

\* subarr's own unfinished work at subgen
OwnListed == {p \in DOMAIN listed : listed[p]}

OwnWork == Cardinality(posts) + Cardinality(OwnListed)

Fault(kind) == kind \in Faults /\ faults < MaxFaults /\ faults' = faults + 1

NothingSeen == [paths |-> {}, count |-> 0, processing |-> 0]

IdleTick ==
    /\ pc' = "idle"
    /\ seen' = NothingSeen
    /\ depth' = 0
    /\ target' = 0
    /\ held' = 0
    /\ heldPath' = NoPath
    /\ tickAge' = 0

-----------------------------------------------------------------------------
(* The feeder's tick. *)

\* a paused tick returns before it awaits anything
TickStarts ==
    /\ pc = "idle"
    /\ ~rules.paused
    /\ pc' = "reading"
    /\ UNCHANGED <<queueVars, rules, tickVars, inflight, subgenVars, faults>>

\* subgen answers GET /queue; the tick resumes later, with a stale answer
QueueAnswered ==
    /\ pc = "reading"
    /\ pc' = "answered"
    /\ \E processing \in 0..Cardinality(DOMAIN listed) :
          /\ Capacity # NoLimit => processing <= Capacity
          /\ seen' = [paths |-> DOMAIN listed, count |-> Cardinality(DOMAIN listed),
                      processing |-> IF Capacity = NoLimit THEN 0 ELSE processing]
    /\ UNCHANGED <<queueVars, rules, depth, target, held, heldPath, tickAge,
                   inflight, subgenVars, faults>>

\* subgen is down or its queue unreadable: the tick ends
QueueUnreadable ==
    /\ pc = "reading"
    /\ IdleTick
    /\ UNCHANGED <<queueVars, rules, inflight, subgenVars, faults>>

\* Mutant: nothing is reserved across ticks.
NothingReserved == {}

\* reservations that outlive this tick: neither listed nor past the grace
StillReserved == {p \in DOMAIN inflight : p \notin seen.paths /\ inflight[p] < InflightGrace}

\* orphaned rows are resolved, reservations pruned, the depth computed
FillStarts ==
    /\ pc = "answered"
    /\ ResolveOrphaned(seen.paths)
    /\ inflight' = [p \in StillReserved |-> inflight[p]]
    /\ depth' = seen.count + Cardinality(StillReserved)
    /\ target' = rules.target
    /\ tickAge' = 0
    /\ pc' = "filling"
    /\ UNCHANGED <<rules, seen, held, heldPath, subgenVars, faults>>

\* subgen_capacity_free, with some number of arena sweeps running
CapacityFree(arena) ==
    Capacity # NoLimit =>
        seen.processing + Cardinality(DOMAIN inflight) + arena < Capacity

MayFill == depth < target /\ \E arena \in 0..MaxArena : CapacityFree(arena)

MayStop == depth >= target \/ (\E arena \in 0..MaxArena : ~CapacityFree(arena)) \/ Pending = {}

TickEnds ==
    /\ pc = "filling"
    /\ MayStop
    /\ IdleTick
    /\ UNCHANGED <<queueVars, rules, inflight, subgenVars, faults>>

\* the next job's path is already in subgen's queue: adopt it
Adopt ==
    /\ pc = "filling"
    /\ MayFill
    /\ \E j \in Pending :
          /\ IsNext(j)
          /\ rows[j].path \in seen.paths
          /\ MarkSubmitted(j)
          /\ inflight' = Drop(inflight, {rows[j].path})
          /\ seen' = [seen EXCEPT !.paths = @ \ {rows[j].path}]
    /\ depth' = depth + 1
    /\ UNCHANGED <<rules, pc, target, held, heldPath, tickAge, subgenVars, faults>>

\* Mutant: the row is marked before the submission is known to succeed.
PickMarksFirst ==
    /\ pc = "filling"
    /\ MayFill
    /\ \E j \in Pending :
          /\ IsNext(j)
          /\ rows[j].path \notin seen.paths
          /\ held' = j
          /\ heldPath' = rows[j].path
          /\ MarkSubmitted(j)
    /\ pc' = "submitting"
    /\ UNCHANGED <<rules, seen, depth, target, tickAge, inflight, subgenVars, faults>>

\* otherwise submit it: the hook first awaits the language decision
Pick ==
    /\ pc = "filling"
    /\ MayFill
    /\ \E j \in Pending :
          /\ IsNext(j)
          /\ rows[j].path \notin seen.paths
          /\ held' = j
          /\ heldPath' = rows[j].path
    /\ pc' = "submitting"
    /\ UNCHANGED <<queueVars, rules, seen, depth, target, tickAge, inflight, subgenVars, faults>>

\* the hook creates and starts the scan; the tick marks the row and reserves
SubmitReturns ==
    /\ pc = "submitting"
    /\ posts' = posts \cup {[job |-> held, path |-> heldPath, age |-> 0, watched |-> TRUE]}
    /\ MarkSubmitted(held)
    /\ inflight' = Set(inflight, heldPath, tickAge)
    /\ depth' = depth + 1
    /\ held' = 0
    /\ heldPath' = NoPath
    /\ pc' = "filling"
    /\ UNCHANGED <<rules, seen, target, tickAge, listed, faults>>

\* Mutant: a job whose submission fails stays at the head of the queue.
SubmitRaisesKeepsRow ==
    /\ pc = "submitting"
    /\ held' = 0
    /\ heldPath' = NoPath
    /\ pc' = "filling"
    /\ UNCHANGED <<queueVars, rules, seen, depth, target, tickAge, inflight, subgenVars, faults>>

\* the hook raises: the row takes no slot
SubmitRaises ==
    /\ pc = "submitting"
    /\ MarkError(held)
    /\ held' = 0
    /\ heldPath' = NoPath
    /\ pc' = "filling"
    /\ UNCHANGED <<rules, seen, depth, target, tickAge, inflight, subgenVars, faults>>

-----------------------------------------------------------------------------
(* The scan's POST /batch and subgen. *)

\* subgen lists the path
Surface(q) ==
    /\ posts' = posts \ {q}
    /\ listed' = IF q.path \in DOMAIN listed THEN listed ELSE Set(listed, q.path, TRUE)
    /\ UNCHANGED <<queueVars, rules, pc, tickVars, inflight, faults>>

\* subgen skips the path and says so: resolve_skipped, then release_inflight
Skipped(q) ==
    /\ q.watched
    /\ posts' = posts \ {q}
    /\ ResolveSkipped(q.path)
    /\ inflight' = Drop(inflight, {q.path})
    /\ UNCHANGED <<rules, pc, tickVars, listed, faults>>

\* the request fails, or nobody is left to hear the answer
PostLost(q) ==
    /\ posts' = posts \ {q}
    /\ UNCHANGED <<queueVars, rules, pc, tickVars, inflight, listed, faults>>

PostResolves == \E q \in posts : Surface(q) \/ Skipped(q) \/ PostLost(q)

\* transcribed, or cancelled at subgen
Finish ==
    /\ \E p \in DOMAIN listed : listed' = Drop(listed, {p})
    /\ UNCHANGED <<queueVars, rules, pc, tickVars, inflight, posts, faults>>

ForeignRequest ==
    /\ Fault("foreign")
    /\ \E p \in Paths \ DOMAIN listed : listed' = Set(listed, p, FALSE)
    /\ UNCHANGED <<queueVars, rules, pc, tickVars, inflight, posts>>

SubgenRestarts ==
    /\ Fault("subgen_restart")
    /\ listed' = Empty
    /\ posts' = {}
    /\ UNCHANGED <<queueVars, rules, pc, tickVars, inflight>>

-----------------------------------------------------------------------------
(* Producers, the user, the clock, and restarts of this process. *)

\* enqueue by any producer, then kick(): TickStarts needs no other trigger
Produce ==
    /\ \E path \in Paths, p \in Priorities : Enqueue(path, p)
    /\ UNCHANGED feederVars

\* which rows this run's user deletes
Removable(j) ==
    /\ j = held => "remove_held" \in Faults
    /\ j \in Submitted => "remove_submitted" \in Faults

UserRemoves ==
    /\ \E j \in DOMAIN rows : Removable(j) /\ RemoveRow(j)
    /\ UNCHANGED feederVars

\* Mutant: the target is stored as sent, without max(0, ...).
SetControlUnchecked ==
    /\ Fault("control")
    /\ \E paused \in BOOLEAN, depthSet \in -1..MaxTarget :
          rules' = [paused |-> paused, target |-> depthSet]
    /\ UNCHANGED <<queueVars, pc, tickVars, inflight, subgenVars>>

\* POST /queue/control
SetControl ==
    /\ Fault("control")
    /\ \E paused \in BOOLEAN, depthSet \in 0..MaxTarget :
          rules' = [paused |-> paused, target |-> depthSet]
    /\ UNCHANGED <<queueVars, pc, tickVars, inflight, subgenVars>>

\* memory is lost, the tables stay; a request already sent may still be served
SubarrRestarts ==
    /\ Fault("subarr_restart")
    /\ IdleTick
    /\ inflight' = Empty
    /\ posts' = {[q EXCEPT !.watched = FALSE] : q \in posts}
    /\ UNCHANGED <<queueVars, rules, listed>>

\* from subgen's answer to the end of the tick
UnderWay == pc \in {"answered", "filling", "submitting"}

Clock ==
    /\ \A q \in posts : q.age < SurfaceLag
    /\ UnderWay => tickAge < TickSpan
    /\ QueueTick
    /\ inflight' = [p \in DOMAIN inflight |-> Older(inflight[p], InflightGrace)]
    /\ posts' = {[q EXCEPT !.age = @ + 1] : q \in posts}
    /\ tickAge' = IF UnderWay THEN tickAge + 1 ELSE 0
    /\ UNCHANGED <<rules, pc, seen, depth, target, held, heldPath, listed, faults>>

-----------------------------------------------------------------------------
Init ==
    /\ QueueInit
    /\ rules = [paused |-> FALSE, target |-> MaxTarget]
    /\ pc = "idle"
    /\ seen = NothingSeen
    /\ depth = 0
    /\ target = 0
    /\ held = 0
    /\ heldPath = NoPath
    /\ tickAge = 0
    /\ inflight = Empty
    /\ posts = {}
    /\ listed = Empty
    /\ faults = 0

TickStep ==
    \/ TickStarts
    \/ QueueAnswered
    \/ FillStarts
    \/ Adopt
    \/ Pick
    \/ SubmitReturns
    \/ TickEnds

Next ==
    \/ TickStep
    \/ QueueUnreadable
    \/ SubmitRaises
    \/ PostResolves
    \/ Finish
    \/ ForeignRequest
    \/ SubgenRestarts
    \/ Produce
    \/ UserRemoves
    \/ SetControl
    \/ SubarrRestarts
    \/ Clock

Spec == Init /\ [][Next]_vars

\* The feeder loop keeps ticking and its awaits return; subgen answers and
\* works through its queue; time passes.  Users and producers owe nothing.
Fairness ==
    /\ WF_vars(TickStep)
    /\ SF_vars(QueueAnswered)
    /\ WF_vars(PostResolves)
    /\ WF_vars(Finish)
    /\ WF_vars(Clock)

FairSpec == Spec /\ Fairness

-----------------------------------------------------------------------------
(* Properties. *)

TypeOK ==
    /\ QueueTypeOK
    /\ rules \in [paused: BOOLEAN, target: 0..MaxTarget]
    /\ pc \in {"idle", "reading", "answered", "filling", "submitting"}
    /\ seen \in [paths: SUBSET Paths, count: Nat, processing: Nat]
    /\ depth \in Nat
    /\ target \in 0..MaxTarget
    /\ held \in Nat
    /\ heldPath \in Paths \cup {NoPath}
    /\ tickAge \in 0..TickSpan
    /\ DOMAIN inflight \subseteq Paths
    /\ inflight \in [DOMAIN inflight -> Nat]
    /\ posts \subseteq Post
    /\ DOMAIN listed \subseteq Paths
    /\ listed \in [DOMAIN listed -> BOOLEAN]
    /\ faults \in 0..MaxFaults

\* The feeder never holds more unfinished work at subgen than the deepest
\* target the user set, although subgen lists a submission only some time
\* after it was made and the depth is read before two awaits.
OwnWorkWithinTarget == OwnWork <= MaxTarget

\* Never double-queue: two of subarr's own submissions for one file are never
\* at subgen together.
NoDoubleQueue ==
    /\ \A q, r \in posts : q.path = r.path => q = r
    /\ \A q \in posts : q.path \notin OwnListed

\* A file the user is waiting on leaves the pending list only by being
\* submitted, by failing, or by the user's own delete; no verdict about an
\* earlier submission of the file and no orphan sweep takes it away.
PendingNotLost ==
    [][\A j \in Pending : j \in DOMAIN rows' \/ RemoveRow(j)]_vars

\* routers/queue.py on a submitted row: it lives in subgen's queue, and a
\* mutation is rejected (the user cancels it through subgen instead).
SubmittedRowsKept ==
    [][UserRemoves => Submitted \subseteq DOMAIN rows']_vars

\* Every waiting file is eventually submitted, failed or removed, unless the
\* user keeps the feed closed.
PendingDrains ==
    \A j \in 1..MaxJobs :
        j \in Pending ~> (j \notin Pending \/ rules.paused \/ rules.target = 0)

\* Every submitted row is eventually resolved, so its path can be asked for
\* again, unless the user keeps the feed paused.
SubmittedResolves ==
    \A j \in 1..MaxJobs : j \in Submitted ~> (j \notin Submitted \/ rules.paused)

=============================================================================
