----------------------------- MODULE Approvals ------------------------------
(***************************************************************************)
(* The coverage walk (src/subarr/scheduler.py) and the approval lists of   *)
(* its manual_confirm mode (pending_store.py, auto_queue.py).              *)
(*                                                                         *)
(* A walk awaits the coverage report and a poke of Bazarr, then reads what *)
(* is in flight and decides at once.  An approval works through the        *)
(* decisions it read at its start and awaits before each job it enqueues;  *)
(* a rejection never awaits.  What was enqueued is in flight until its     *)
(* ledger row is closed; of the queue no more is kept than that.           *)
(***************************************************************************)
EXTENDS Integers, FiniteSets

CONSTANTS
    Items,        \* files the coverage report may list
    Approvers,    \* approve requests served at once
    MaxPerRun,    \* max_per_run
    ExpireAfter,  \* EXPIRE_AFTER_S, in ticks of the clock
    MaxWalks,     \* bound: approval lists ever made
    MaxCrashes    \* bound: restarts of this process

ASSUME ApprovalsAssumption ==
    /\ IsFiniteSet(Items)
    /\ MaxPerRun \in Nat \ {0}
    /\ ExpireAfter \in Nat \ {0}
    /\ MaxWalks \in Nat
    /\ MaxCrashes \in Nat

VARIABLES
    suppressed, \* files whose last attempt produced no output
    inflight,   \* active in the pending queue or open in the ledger
    walks,      \* pending_walks: id -> status and age
    verdicts,   \* pending_decisions: id -> item -> verdict
    walker,     \* the coverage walk under _walk_lock
    approval,   \* what each approve request is doing
    crashes     \* restarts so far

fileVars == <<suppressed, inflight>>
listVars == <<walks, verdicts>>
vars == <<fileVars, listVars, walker, approval, crashes>>

Modes == {"dashboard", "manual_confirm", "auto_rules"}

Walks == DOMAIN walks

\* walks waiting for the user
Asking == {w \in Walks : walks[w].status = "pending"}

With(w, v) == {i \in DOMAIN verdicts[w] : verdicts[w][i] = v}

Undecided(w) == With(w, "none")

IdleWalker == [pc |-> "idle", mode |-> "dashboard", todo |-> {}]

IdleApproval == [walk |-> 0, todo |-> {}]

-----------------------------------------------------------------------------
(* The store. *)

Expired(w) == walks[w].status = "pending" /\ walks[w].age >= ExpireAfter

\* create_walk: old lists expire, and a new one is stored, empty or not
CreateWalk(offered) ==
    LET new == Cardinality(Walks) + 1
    IN  /\ new <= MaxWalks
        /\ walks' = [w \in Walks \cup {new} |->
                        IF w = new THEN [status |-> "pending", age |-> 0]
                        ELSE IF Expired(w) THEN [walks[w] EXCEPT !.status = "expired"]
                        ELSE walks[w]]
        /\ verdicts' = [w \in Walks \cup {new} |->
                           IF w = new THEN [i \in offered |-> "none"] ELSE verdicts[w]]

\* Mutant: a list is closed once one of its decisions is approved.
StatusOfFirst(decided) ==
    LET all == DOMAIN decided
        having(v) == {i \in all : decided[i] = v}
    IN  IF having("approved") = all THEN "approved_all"
        ELSE IF having("rejected") = all THEN "rejected"
        ELSE IF having("approved") # {} THEN "approved_partial"
        ELSE "pending"

\* Mutant: a finished list takes the name of the decisions, not its own.
StatusMisnamed(decided) ==
    LET all == DOMAIN decided
        having(v) == {i \in all : decided[i] = v}
    IN  IF having("approved") = all THEN "approved"
        ELSE IF having("rejected") = all THEN "rejected"
        ELSE IF having("none") = {} THEN "approved_partial"
        ELSE "pending"

\* what finalise_walk makes of a walk's decisions; none are left alone
StatusOf(decided) ==
    LET all == DOMAIN decided
        having(v) == {i \in all : decided[i] = v}
    IN  IF having("approved") = all THEN "approved_all"
        ELSE IF having("rejected") = all THEN "rejected"
        ELSE IF having("none") = {} THEN "approved_partial"
        ELSE "pending"

Finalised(w, decided) ==
    IF DOMAIN decided = {} THEN walks
    ELSE [walks EXCEPT ![w].status = StatusOf(decided)]

-----------------------------------------------------------------------------
(* run_coverage_walk; a second one finds the lock taken and returns.  The  *)
(* user may have set any mode before it reads the rules, and the report    *)
(* lists whatever Bazarr, which lags behind the disk, still wants.         *)

WalkStarts ==
    /\ walker.pc = "idle"
    /\ \E mode \in Modes : walker' = [pc |-> "building", mode |-> mode, todo |-> {}]
    /\ UNCHANGED <<fileVars, listVars, approval, crashes>>

BuildFails ==
    /\ walker.pc = "building"
    /\ walker' = IdleWalker
    /\ UNCHANGED <<fileVars, listVars, approval, crashes>>

\* build_coverage returns; the poke of Bazarr is still to come
Built ==
    /\ walker.pc = "building"
    /\ \E wanted \in SUBSET Items :
          walker' = [walker EXCEPT !.pc = "poking", !.todo = wanted]
    /\ UNCHANGED <<fileVars, listVars, approval, crashes>>

\* evaluate: the rules that look at other state than the row itself
Eligible == walker.todo \ (inflight \cup suppressed)

\* some of them pass the rules, at most max_per_run are taken
DecisionChoices ==
    IF walker.mode = "dashboard" THEN {{}}
    ELSE {S \in SUBSET Eligible : Cardinality(S) <= MaxPerRun}

Evaluated ==
    /\ walker.pc = "poking"
    /\ \E chosen \in DecisionChoices :
          IF walker.mode = "manual_confirm"
          THEN /\ CreateWalk(chosen)
               /\ walker' = IdleWalker
          ELSE /\ walker' = [walker EXCEPT !.pc = "enqueuing", !.todo = chosen]
               /\ UNCHANGED listVars
    /\ UNCHANGED <<fileVars, approval, crashes>>

\* enqueue: one job, or the one that is there; the attempt in flight is now
\* the file's last
Enqueue(i) ==
    /\ inflight' = inflight \cup {i}
    /\ suppressed' = suppressed \ {i}

WalkEnqueues ==
    /\ walker.pc = "enqueuing"
    /\ \E i \in walker.todo :
          /\ walker' = [walker EXCEPT !.todo = @ \ {i}]
          \* no path, or nothing on disk
          /\ Enqueue(i) \/ UNCHANGED fileVars
    /\ UNCHANGED <<listVars, approval, crashes>>

WalkEnds ==
    /\ walker.pc = "enqueuing"
    /\ walker.todo = {}
    /\ walker' = IdleWalker
    /\ UNCHANGED <<fileVars, listVars, approval, crashes>>

-----------------------------------------------------------------------------
(* The user's answers, to any list, whatever its status. *)

Mark(w, S, v) == [i \in DOMAIN verdicts[w] |-> IF i \in S THEN v ELSE verdicts[w][i]]

\* Mutant: the decisions are marked before their jobs are enqueued.
ApproveMarksFirst(a) ==
    /\ approval[a].walk = 0
    /\ \E w \in Walks : \E chosen \in SUBSET Undecided(w) :
          /\ approval' = [approval EXCEPT ![a] = [walk |-> w, todo |-> chosen]]
          /\ verdicts' = [verdicts EXCEPT ![w] = Mark(w, chosen, "approved")]
    /\ UNCHANGED <<fileVars, walks, walker, crashes>>

\* approve_pending reads the decisions that are still open
ApproveStarts(a) ==
    /\ approval[a].walk = 0
    /\ \E w \in Walks : \E chosen \in SUBSET Undecided(w) :
          approval' = [approval EXCEPT ![a] = [walk |-> w, todo |-> chosen]]
    /\ UNCHANGED <<fileVars, listVars, walker, crashes>>

\* after the await: enqueue, then mark_decision
Approved(a) ==
    LET w == approval[a].walk
    IN  /\ \E i \in approval[a].todo :
              /\ Enqueue(i)
              /\ verdicts' = [verdicts EXCEPT ![w] = Mark(w, {i}, "approved")]
              /\ approval' = [approval EXCEPT ![a].todo = @ \ {i}]
        /\ UNCHANGED <<walks, walker, crashes>>

\* no path, or nothing on disk
NotQueued(a) ==
    LET w == approval[a].walk
    IN  /\ \E i \in approval[a].todo :
              /\ verdicts' = [verdicts EXCEPT ![w] = Mark(w, {i}, "rejected")]
              /\ approval' = [approval EXCEPT ![a].todo = @ \ {i}]
        /\ UNCHANGED <<fileVars, walks, walker, crashes>>

ApproveEnds(a) ==
    /\ approval[a].walk # 0
    /\ approval[a].todo = {}
    /\ walks' = Finalised(approval[a].walk, verdicts[approval[a].walk])
    /\ approval' = [approval EXCEPT ![a] = IdleApproval]
    /\ UNCHANGED <<fileVars, verdicts, walker, crashes>>

\* reject_pending
Reject ==
    /\ \E w \in Walks : \E chosen \in SUBSET Undecided(w) :
          /\ verdicts' = [verdicts EXCEPT ![w] = Mark(w, chosen, "rejected")]
          /\ walks' = Finalised(w, verdicts'[w])
    /\ UNCHANGED <<fileVars, walker, approval, crashes>>

-----------------------------------------------------------------------------
(* The rest of the program, the clock and restarts. *)

\* transcribed or not, the ledger row closes
JobEnds ==
    /\ \E i \in inflight :
          /\ inflight' = inflight \ {i}
          /\ suppressed' \in {suppressed \ {i}, suppressed \cup {i}}
    /\ UNCHANGED <<listVars, walker, approval, crashes>>

Clock ==
    /\ \E w \in Walks : walks[w].age < ExpireAfter
    /\ walks' = [w \in Walks |->
                    IF walks[w].age < ExpireAfter THEN [walks[w] EXCEPT !.age = @ + 1]
                    ELSE walks[w]]
    /\ UNCHANGED <<fileVars, verdicts, walker, approval, crashes>>

Crash ==
    /\ crashes < MaxCrashes
    /\ crashes' = crashes + 1
    /\ walker' = IdleWalker
    /\ approval' = [a \in Approvers |-> IdleApproval]
    /\ UNCHANGED <<fileVars, listVars>>

-----------------------------------------------------------------------------
Init ==
    /\ suppressed = {}
    /\ inflight = {}
    /\ walks = [w \in {} |-> 0]
    /\ verdicts = [w \in {} |-> 0]
    /\ walker = IdleWalker
    /\ approval = [a \in Approvers |-> IdleApproval]
    /\ crashes = 0

Next ==
    \/ WalkStarts
    \/ BuildFails
    \/ Built
    \/ Evaluated
    \/ WalkEnqueues
    \/ WalkEnds
    \/ \E a \in Approvers : ApproveStarts(a) \/ Approved(a) \/ NotQueued(a) \/ ApproveEnds(a)
    \/ Reject
    \/ JobEnds
    \/ Clock
    \/ Crash

Spec == Init /\ [][Next]_vars

-----------------------------------------------------------------------------
(* Properties. *)

Statuses == {"pending", "approved_all", "approved_partial", "rejected", "expired"}

TypeOK ==
    /\ suppressed \subseteq Items
    /\ inflight \subseteq Items
    /\ Walks = 1..Cardinality(Walks)
    /\ walks \in [Walks -> [status: Statuses, age: 0..ExpireAfter]]
    /\ DOMAIN verdicts = Walks
    /\ \A w \in Walks : DOMAIN verdicts[w] \subseteq Items
    /\ \A w \in Walks : verdicts[w] \in [DOMAIN verdicts[w] -> {"none", "approved", "rejected"}]
    /\ walker \in [pc: {"idle", "building", "poking", "enqueuing"}, mode: Modes,
                   todo: SUBSET Items]
    /\ approval \in [Approvers -> [walk: {0} \cup Walks, todo: SUBSET Items]]
    /\ crashes \in 0..MaxCrashes

\* However approvals, rejections and expiry interleave, a list nobody works on
\* still asks exactly while a decision is open, and says afterwards what the
\* decisions amount to, unless it expired.  A restart in the middle of an
\* approval leaves its status behind.
StatusSettles ==
    crashes = 0 => \A w \in Walks :
        (\A a \in Approvers : approval[a].walk # w) /\ DOMAIN verdicts[w] # {}
        => LET said(v) == With(w, v) = DOMAIN verdicts[w]
           IN  \/ walks[w].status = "expired"
               \/ walks[w].status = "pending" /\ Undecided(w) # {}
               \/ walks[w].status = "approved_all" /\ said("approved")
               \/ walks[w].status = "rejected" /\ said("rejected")
               \/ walks[w].status = "approved_partial" /\ Undecided(w) = {}
                  /\ ~said("approved") /\ ~said("rejected")

\* An approval is never recorded without its job: when a decision turns to
\* approved its file is in flight, and a crash between two decisions leaves
\* the rest for the user to approve.
ApprovedIsQueued ==
    [][\A w \in Walks : With(w, "approved")' \ With(w, "approved") \subseteq inflight']_vars

\* evaluate's reason for the in-flight set: walks do not offer the same file
\* again while it waits for an answer.
OfferedOnce ==
    \A v, w \in Asking : v # w => Undecided(v) \cap Undecided(w) = {}

\* approve_pending's "already decided": an answer the user gave is not changed.
DecisionsStand ==
    [][\A w \in Walks : \A i \in DOMAIN verdicts[w] \ Undecided(w) :
          verdicts'[w][i] = verdicts[w][i]]_vars

\* pending_walks: one row per walk that emitted a list to decide on.
AskingHasQuestions == \A w \in Asking : DOMAIN verdicts[w] # {}

=============================================================================
