---------------------------- MODULE PendingQueue ----------------------------
(***************************************************************************)
(* subarr's pending queue: the SQLite table pending_queue and the store    *)
(* that owns it (src/subarr/pending_queue.py), together with the endpoint  *)
(* guards that decide which rows a user may touch (routers/queue.py).      *)
(*                                                                         *)
(* Every store method runs under one lock and never awaits, so each one is *)
(* a single action.  A row keeps only what the properties tell apart: its  *)
(* path, its priority bucket, its sort key, its status and the time since  *)
(* submitted_at.  Job ids are drawn in creation order, so an id doubles as *)
(* created_at, the final ORDER BY term.                                    *)
(*                                                                         *)
(* A position is a REAL column.  It is modelled on an integer grid with    *)
(* Unit points per 1.0: the grid step stands for the last bit of the       *)
(* mantissa, and halving a gap of one step rounds to one of its two ends   *)
(* as binary64 does.                                                       *)
(***************************************************************************)
EXTENDS Integers, FiniteSets

CONSTANTS
    Paths,       \* canonical paths a producer may ask for
    Priorities,  \* priority buckets: manual 2, gaps and auto 1, backfill 0
    OrphanGrace, \* ORPHAN_GRACE_S, in ticks of the model's clock
    Unit,        \* grid points per 1.0 of the position column
    Rounding,    \* TRUE: midpoints below the grid are rounded, FALSE: not taken
    MaxJobs,     \* bound: rows ever created
    PosBound     \* bound: largest absolute position reached by a reorder

ASSUME PendingQueueAssumption ==
    /\ Priorities \subseteq Int
    /\ OrphanGrace \in Nat \ {0}
    /\ Unit \in Nat \ {0}
    /\ Rounding \in BOOLEAN
    /\ MaxJobs \in Nat
    /\ PosBound \in Nat

VARIABLES
    rows,   \* the table: job id -> row, for the ids it holds
    nextId  \* the id the next INSERT uses

queueVars == <<rows, nextId>>

Statuses == {"pending", "submitted", "error"}

Row == [path: Paths, priority: Priorities, position: Int,
        status: Statuses, age: 0..OrphanGrace]

-----------------------------------------------------------------------------
(* Queries. *)

Having(status) == {j \in DOMAIN rows : rows[j].status = status}

Pending == Having("pending")

Submitted == Having("submitted")

\* ACTIVE_STATUSES, the rows that deduplicate an enqueue
Active == Pending \cup Submitted

ActivePaths == {rows[j].path : j \in Active}

\* pending rows of one bucket
Bucket(p) == {j \in Pending : rows[j].priority = p}

PositionsOf(S) == {rows[j].position : j \in S}

\* the extreme elements: one for a finite set that is not empty
Largest(S) == {x \in S : \A y \in S : y <= x}

Smallest(S) == {x \in S : \A y \in S : x <= y}

\* ORDER BY priority DESC, position ASC, created_at ASC
Before(i, j) ==
    \/ rows[i].priority > rows[j].priority
    \/ /\ rows[i].priority = rows[j].priority
       /\ \/ rows[i].position < rows[j].position
          \/ rows[i].position = rows[j].position /\ i < j

\* next_pending(1)
IsNext(j) == j \in Pending /\ \A i \in Pending \ {j} : Before(j, i)

\* i stands directly before j in the pending list
Adjacent(i, j) ==
    /\ {i, j} \subseteq Pending
    /\ Before(i, j)
    /\ ~\E k \in Pending : Before(i, k) /\ Before(k, j)

-----------------------------------------------------------------------------
(* Writes that any caller shares. *)

DeleteRows(S) == rows' = [j \in DOMAIN rows \ S |-> rows[j]]

\* Mutant: the sort key counts the bucket instead of passing its last key.
CountedPositions(p) == {Unit * Cardinality(Bucket(p))}

\* one past the last sort key of the bucket
AppendPositions(p) ==
    IF Bucket(p) = {} THEN {0} ELSE {m + Unit : m \in Largest(PositionsOf(Bucket(p)))}

Insert(path, p) ==
    /\ nextId <= MaxJobs
    /\ \E pos \in AppendPositions(p) :
          rows' = [j \in DOMAIN rows \cup {nextId} |->
                     IF j = nextId
                     THEN [path |-> path, priority |-> p, position |-> pos,
                           status |-> "pending", age |-> 0]
                     ELSE rows[j]]
    /\ nextId' = nextId + 1

\* Mutant: a row already handed to subgen does not deduplicate.
EnqueueBesideSubmitted(path, p) ==
    /\ \A j \in Pending : rows[j].path # path
    /\ Insert(path, p)

\* enqueue: an active row for the path makes it return that row unchanged
Enqueue(path, p) ==
    /\ path \notin ActivePaths
    /\ Insert(path, p)

\* mark_submitted: an UPDATE by id, which finds no row when it was deleted
MarkSubmitted(j) ==
    /\ rows' = IF j \in DOMAIN rows
               THEN [rows EXCEPT ![j].status = "submitted", ![j].age = 0]
               ELSE rows
    /\ UNCHANGED nextId

\* Mutant: a status the table does not know.
MarkFailed(j) ==
    /\ rows' = IF j \in DOMAIN rows THEN [rows EXCEPT ![j].status = "failed"] ELSE rows
    /\ UNCHANGED nextId

\* set_status(id, STATUS_ERROR), the same UPDATE
MarkError(j) ==
    /\ rows' = IF j \in DOMAIN rows THEN [rows EXCEPT ![j].status = "error"] ELSE rows
    /\ UNCHANGED nextId

\* Mutant: the verdict takes every row of the path, waiting ones too.
ResolveSkippedAnyStatus(path) ==
    /\ DeleteRows({j \in DOMAIN rows : rows[j].path = path})
    /\ UNCHANGED nextId

\* resolve_skipped: subgen skipped the path, its submitted rows go
ResolveSkipped(path) ==
    /\ DeleteRows({j \in Submitted : rows[j].path = path})
    /\ UNCHANGED nextId

\* Mutant: no grace for a submission subgen has not listed yet.
OrphanedAtOnce(live) == {j \in Submitted : rows[j].path \notin live}

\* Mutant: the membership test inverted.
OrphanedInverted(live) ==
    {j \in Submitted : rows[j].age >= OrphanGrace /\ rows[j].path \in live}

Orphaned(live) ==
    {j \in Submitted : rows[j].age >= OrphanGrace /\ rows[j].path \notin live}

\* Mutant: orphans go back to pending, as they did before #336.
RependOrphaned(live) ==
    /\ rows' = [j \in DOMAIN rows |->
                  IF j \in Orphaned(live) THEN [rows[j] EXCEPT !.status = "pending"]
                  ELSE rows[j]]
    /\ UNCHANGED nextId

\* resolve_orphaned_submitted: submitted rows past the grace that subgen lacks
ResolveOrphaned(live) ==
    /\ DeleteRows(Orphaned(live))
    /\ UNCHANGED nextId

\* time passes for every submitted_at; ages saturate at the grace period
Older(age, limit) == IF age < limit THEN age + 1 ELSE limit

AgedRows ==
    [j \in DOMAIN rows |->
        IF j \in Submitted
        THEN [rows[j] EXCEPT !.age = Older(@, OrphanGrace)]
        ELSE rows[j]]

-----------------------------------------------------------------------------
(* Mutations from the user interface. *)

\* DELETE /queue/pending/{id}: remove() looks at the id only
RemoveRow(j) ==
    /\ j \in DOMAIN rows
    /\ DeleteRows({j})
    /\ UNCHANGED nextId

Clear(statuses) ==
    /\ DeleteRows({j \in DOMAIN rows : rows[j].status \in statuses})
    /\ UNCHANGED nextId

Place(j, p, pos) ==
    /\ -PosBound <= pos /\ pos <= PosBound
    /\ rows' = [rows EXCEPT ![j].priority = p, ![j].position = pos]
    /\ UNCHANGED nextId

\* promote and demote: one past the ends of the other rows of the bucket
Reposition(j, toTop) ==
    LET p == rows[j].priority
        others == PositionsOf(Bucket(p) \ {j})
    IN  /\ j \in Pending
        /\ \E pos \in IF others = {} THEN {rows[j].position}
                     ELSE IF toTop THEN {m - Unit : m \in Smallest(others)}
                     ELSE {m + Unit : m \in Largest(others)} :
              Place(j, p, pos)

Promote(j) == Reposition(j, TRUE)

Demote(j) == Reposition(j, FALSE)

\* (a + b) / 2.0 on the grid
Midpoints(a, b) ==
    LET s == a + b
    IN  IF s % 2 = 0 THEN {s \div 2}
        ELSE IF Rounding THEN {s \div 2, (s \div 2) + 1}
        ELSE {}

\* the sort keys move() may give job j when it is dropped beside target t
MovePositions(j, t, side) ==
    LET others == Bucket(rows[t].priority) \ {j}
        here   == rows[t].position
        above  == PositionsOf({i \in others : Before(i, t)})
        below  == PositionsOf({i \in others : Before(t, i)})
    IN  IF t \notin others
        THEN IF others = {} THEN {here}
             ELSE {m + Unit : m \in Largest(PositionsOf(others))}
        ELSE IF side = "before"
        THEN IF above = {} THEN {here - Unit}
             ELSE UNION {Midpoints(m, here) : m \in Largest(above)}
        ELSE IF below = {} THEN {here + Unit}
             ELSE UNION {Midpoints(here, m) : m \in Smallest(below)}

\* POST /queue/pending/{id}/move: only the moved job has to be pending
Move(j, t, side) ==
    /\ j \in Pending
    /\ t \in DOMAIN rows
    /\ \E pos \in MovePositions(j, t, side) : Place(j, rows[t].priority, pos)

\* POST /queue/pending/{id}/move-step: the neighbour comes from the full list
MoveUp(j) == \E i \in Pending : Adjacent(i, j) /\ Move(j, i, "before")

MoveDown(j) == \E i \in Pending : Adjacent(j, i) /\ Move(j, i, "after")

-----------------------------------------------------------------------------
(* The store under any of its callers.  The feeder only marks rows that    *)
(* were pending when it picked them (QueueFeeder shows this of the real    *)
(* caller).                                                                *)

QueueInit == rows = [j \in {} |-> 0] /\ nextId = 1

Submit == \E j \in Pending : MarkSubmitted(j)

Fail == \E j \in Pending : MarkError(j)

Request == \E path \in Paths, p \in Priorities : Enqueue(path, p)

Skip == \E path \in Paths : ResolveSkipped(path)

Orphan == \E live \in SUBSET Paths : ResolveOrphaned(live)

Delete == \E j \in DOMAIN rows : RemoveRow(j)

Wipe == \E statuses \in {Statuses} \cup {{s} : s \in Statuses} : Clear(statuses)

Reorder ==
    \E j \in Pending :
        \/ Promote(j)
        \/ Demote(j)
        \/ MoveUp(j)
        \/ MoveDown(j)
        \/ \E t \in DOMAIN rows, side \in {"before", "after"} : Move(j, t, side)

QueueTick == rows' = AgedRows /\ UNCHANGED nextId

QueueNext ==
    \/ Request
    \/ Submit
    \/ Fail
    \/ Skip
    \/ Orphan
    \/ Delete
    \/ Wipe
    \/ Reorder
    \/ QueueTick

QueueSpec == QueueInit /\ [][QueueNext]_queueVars

-----------------------------------------------------------------------------
(* Properties. *)

\* The table holds well-formed rows whose ids were all handed out.
QueueTypeOK ==
    /\ nextId \in Nat \ {0}
    /\ DOMAIN rows \subseteq 1..(nextId - 1)
    /\ rows \in [DOMAIN rows -> Row]

\* enqueue's promise: a file is never queued twice, however often producers
\* ask and whatever the feeder does with the first row.
OneActiveRowPerPath ==
    \A i, j \in Active : rows[i].path = rows[j].path => i = j

\* While midpoints are exact, no sequence of enqueues, promotions, drags and
\* bucket changes gives two pending rows of a bucket the same sort key, so
\* the list the user arranged never depends on the created_at tie-break.
DistinctPositions ==
    \A i, j \in Pending :
        /\ rows[i].priority = rows[j].priority
        /\ rows[i].position = rows[j].position
        => i = j

\* move()'s docstring: it places a job immediately before or after the target.
MovePlacesAdjacent ==
    [][\A j \in Pending : \A t \in Pending \ {j} :
          /\ Move(j, t, "before") => Adjacent(j, t)'
          /\ Move(j, t, "after") => Adjacent(t, j)']_queueVars

=============================================================================
