------------------------ MODULE PendingQueue_proofs -------------------------
(***************************************************************************)
(* Proofs about the pending queue, for any paths, buckets and bounds.      *)
(***************************************************************************)
EXTENDS MCPendingQueue, SequenceTheorems, FiniteSetTheorems, WellFoundedInduction, TLAPS

\* A drop computes a grid point.
LEMMA MovePositionsInt ==
    ASSUME QueueTypeOK, NEW j, NEW t \in DOMAIN rows, NEW side,
           NEW pos \in MovePositions(j, t, side)
    PROVE  pos \in Int
<1> DEFINE others == Bucket(rows[t].priority) \ {j}
           here   == rows[t].position
           above  == PositionsOf({i \in others : Before(i, t)})
           below  == PositionsOf({i \in others : Before(t, i)})
<1>1. Unit \in Int
  BY PendingQueueAssumption
<1>2. \A i \in DOMAIN rows : rows[i].position \in Int
  BY DEF QueueTypeOK, Row
<1>3. others \subseteq DOMAIN rows
  BY DEF Bucket, Pending, Having
<1>4. here \in Int /\ PositionsOf(others) \subseteq Int /\ above \subseteq Int /\ below \subseteq Int
  BY <1>2, <1>3 DEF PositionsOf
<1>5. \A a, b \in Int : Midpoints(a, b) \subseteq Int
  BY DEF Midpoints
<1>6. \/ pos = here
      \/ \E m \in Largest(PositionsOf(others)) : pos = m + Unit
      \/ pos = here - Unit
      \/ \E m \in Largest(above) : pos \in Midpoints(m, here)
      \/ pos = here + Unit
      \/ \E m \in Smallest(below) : pos \in Midpoints(here, m)
  BY Zenon DEF MovePositions
<1> HIDE DEF others, here, above, below
<1>7. /\ Largest(PositionsOf(others)) \subseteq Int
      /\ Largest(above) \subseteq Int
      /\ Smallest(below) \subseteq Int
  BY <1>4 DEF Largest, Smallest
<1>8. QED
  BY <1>1, <1>4, <1>5, <1>6, <1>7

\* An order of the user's changes two columns of one row, whichever order it is.
LEMMA ReorderPlaces ==
    ASSUME NEW j \in Pending,
           \/ Promote(j)
           \/ Demote(j)
           \/ MoveUp(j)
           \/ MoveDown(j)
           \/ \E t \in DOMAIN rows, side \in {"before", "after"} : Move(j, t, side),
           QueueTypeOK
    PROVE  \E p \in Priorities, pos \in Int : Place(j, p, pos)
<1>1. Unit \in Int
  BY PendingQueueAssumption
<1>2. \A i \in DOMAIN rows : rows[i].priority \in Priorities /\ rows[i].position \in Int
  BY DEF QueueTypeOK, Row
<1>3. \A S \in SUBSET (DOMAIN rows) : PositionsOf(S) \subseteq Int
  BY <1>2 DEF PositionsOf
<1>4. \A p : Bucket(p) \subseteq DOMAIN rows
  BY DEF Bucket, Pending, Having
<1>5. j \in DOMAIN rows
  BY DEF Pending, Having
<1>6. ASSUME NEW toTop \in BOOLEAN, Reposition(j, toTop)
      PROVE  \E p \in Priorities, pos \in Int : Place(j, p, pos)
  <2> DEFINE others == PositionsOf(Bucket(rows[j].priority) \ {j})
  <2>1. others \subseteq Int
    BY <1>3, <1>4
  <2>2. \A m \in Smallest(others) \cup Largest(others) : m - Unit \in Int /\ m + Unit \in Int
    BY <1>1, <2>1 DEF Smallest, Largest
  <2>3. QED
    BY <1>2, <1>5, <1>6, <2>2 DEF Reposition
<1>7. ASSUME NEW t \in DOMAIN rows, NEW side, Move(j, t, side)
      PROVE  \E p \in Priorities, pos \in Int : Place(j, p, pos)
  BY <1>2, <1>7, MovePositionsInt DEF Move
<1>8. CASE Promote(j)
  BY <1>6, <1>8 DEF Promote
<1>9. CASE Demote(j)
  BY <1>6, <1>9 DEF Demote
<1>10. \A i \in Pending : i \in DOMAIN rows
  BY DEF Pending, Having
<1>11. CASE MoveUp(j) \/ MoveDown(j)
  BY <1>7, <1>10, <1>11 DEF MoveUp, MoveDown
<1>12. CASE \E t \in DOMAIN rows, side \in {"before", "after"} : Move(j, t, side)
  BY <1>7, <1>12
<1>13. QED
  BY <1>8, <1>9, <1>11, <1>12

\* Every step of the store writes the table in one of five ways.
LEMMA Writes ==
    ASSUME QueueNext, QueueTypeOK
    PROVE  \/ \E path \in Paths, p \in Priorities : Enqueue(path, p)
           \/ \E j \in Pending : MarkSubmitted(j) \/ MarkError(j)
           \/ \E S \in SUBSET (DOMAIN rows) : DeleteRows(S) /\ UNCHANGED nextId
           \/ Reorder
           \/ QueueTick
<1>1. ASSUME NEW path, ResolveSkipped(path)
      PROVE  \E S \in SUBSET (DOMAIN rows) : DeleteRows(S) /\ UNCHANGED nextId
  BY <1>1 DEF ResolveSkipped, Submitted, Having
<1>2. ASSUME NEW live, ResolveOrphaned(live)
      PROVE  \E S \in SUBSET (DOMAIN rows) : DeleteRows(S) /\ UNCHANGED nextId
  BY <1>2 DEF ResolveOrphaned, Orphaned, Submitted, Having
<1>3. ASSUME NEW j \in DOMAIN rows, RemoveRow(j)
      PROVE  \E S \in SUBSET (DOMAIN rows) : DeleteRows(S) /\ UNCHANGED nextId
  BY <1>3 DEF RemoveRow
<1>4. ASSUME NEW statuses, Clear(statuses)
      PROVE  \E S \in SUBSET (DOMAIN rows) : DeleteRows(S) /\ UNCHANGED nextId
  BY <1>4 DEF Clear
<1>5. QED
  BY <1>1, <1>2, <1>3, <1>4
     DEF QueueNext, Request, Submit, Fail, Skip, Orphan, Delete, Wipe

-----------------------------------------------------------------------------
(* Type correctness. *)

LEMMA TypeInduction ==
    ASSUME QueueTypeOK, [QueueNext]_queueVars
    PROVE  QueueTypeOK'
<1> USE PendingQueueAssumption
<1>1. \A j \in DOMAIN rows : j \in 1..(nextId - 1) /\ rows[j] \in Row
  BY DEF QueueTypeOK
<1>2. ASSUME NEW path \in Paths, NEW p \in Priorities, Enqueue(path, p)
      PROVE  QueueTypeOK'
  <2>1. PICK pos \in AppendPositions(p) :
          rows' = [j \in DOMAIN rows \cup {nextId} |->
                     IF j = nextId
                     THEN [path |-> path, priority |-> p, position |-> pos,
                           status |-> "pending", age |-> 0]
                     ELSE rows[j]]
    BY <1>2 DEF Enqueue, Insert
  <2>2. PositionsOf(Bucket(p)) \subseteq Int
    BY <1>1 DEF PositionsOf, Bucket, Pending, Having, Row
  <2>3. pos \in Int
    BY <2>1, <2>2 DEF AppendPositions, Largest
  <2>4. [path |-> path, priority |-> p, position |-> pos, status |-> "pending", age |-> 0]
          \in Row
    BY <2>3 DEF Row, Statuses
  <2>5. DOMAIN rows' = DOMAIN rows \cup {nextId} /\ nextId' = nextId + 1
    BY <1>2, <2>1 DEF Enqueue, Insert
  <2>6. \A j \in DOMAIN rows' : rows'[j] \in Row
    BY <1>1, <2>1, <2>4
  <2>7. DOMAIN rows' \subseteq 1..(nextId' - 1) /\ nextId' \in Nat \ {0}
    BY <1>1, <2>5 DEF QueueTypeOK
  <2>8. QED
    BY <2>1, <2>6, <2>7 DEF QueueTypeOK
<1>3. ASSUME NEW j \in Pending, MarkSubmitted(j) \/ MarkError(j)
      PROVE  QueueTypeOK'
  <2>1. j \in DOMAIN rows
    BY DEF Pending, Having
  <2>2. \A i \in DOMAIN rows : rows'[i] \in Row
    BY <1>1, <1>3, <2>1 DEF MarkSubmitted, MarkError, Row, Statuses, QueueTypeOK
  <2>3. QED
    BY <1>3, <2>1, <2>2 DEF MarkSubmitted, MarkError, QueueTypeOK
<1>4. ASSUME NEW S \in SUBSET (DOMAIN rows), DeleteRows(S), UNCHANGED nextId
      PROVE  QueueTypeOK'
  BY <1>1, <1>4 DEF DeleteRows, QueueTypeOK
<1>5. ASSUME NEW j \in Pending, NEW p \in Priorities, NEW pos \in Int, Place(j, p, pos)
      PROVE  QueueTypeOK'
  <2>1. j \in DOMAIN rows
    BY DEF Pending, Having
  <2>2. \A i \in DOMAIN rows : rows'[i] \in Row
    BY <1>1, <1>5, <2>1 DEF Place, Row, QueueTypeOK
  <2>3. QED
    BY <1>5, <2>1, <2>2 DEF Place, QueueTypeOK
<1>6. CASE QueueTick
  <2>1. \A age \in 0..OrphanGrace : Older(age, OrphanGrace) \in 0..OrphanGrace
    BY DEF Older
  <2>2. \A j \in DOMAIN rows : AgedRows[j] \in Row
    BY <1>1, <2>1 DEF AgedRows, Row
  <2>3. QED
    BY <1>6, <2>2 DEF QueueTick, AgedRows, QueueTypeOK
<1>7. CASE UNCHANGED queueVars
  BY <1>7 DEF queueVars, QueueTypeOK
<1>8. QED
  BY <1>2, <1>3, <1>4, <1>5, <1>6, <1>7, Writes, ReorderPlaces DEF Reorder

\* The table is well formed in every state the store can reach.
THEOREM QueueTypeCorrect == QueueSpec => []QueueTypeOK
<1>1. QueueInit => QueueTypeOK
  BY DEF QueueInit, QueueTypeOK
<1>2. QED
  BY <1>1, TypeInduction, PTL DEF QueueSpec

-----------------------------------------------------------------------------
(* Deduplication. *)

LEMMA DedupInduction ==
    ASSUME QueueTypeOK, OneActiveRowPerPath, [QueueNext]_queueVars
    PROVE  OneActiveRowPerPath'
<1> DEFINE Keeps(i) == i \in Active /\ rows'[i].path = rows[i].path
<1>1. ASSUME \A i \in Active' : Keeps(i)
      PROVE  OneActiveRowPerPath'
  BY <1>1 DEF OneActiveRowPerPath
<1>2. \A i \in Active : i \in DOMAIN rows /\ i < nextId
  BY DEF Active, Pending, Submitted, Having, QueueTypeOK
<1>3. ASSUME NEW path \in Paths, NEW p \in Priorities, Enqueue(path, p)
      PROVE  OneActiveRowPerPath'
  <2>1. DOMAIN rows' = DOMAIN rows \cup {nextId} /\ nextId \notin DOMAIN rows
    BY <1>3 DEF Enqueue, Insert, QueueTypeOK
  <2>2. /\ rows'[nextId].path = path
        /\ \A i \in DOMAIN rows : rows'[i] = rows[i]
    BY <1>3, <2>1 DEF Enqueue, Insert
  <2>3. \A i \in Active' : i = nextId \/ Keeps(i)
    BY <2>1, <2>2 DEF Active, Pending, Submitted, Having
  <2>4. \A i \in Active : rows[i].path # path
    BY <1>3 DEF Enqueue, ActivePaths
  <2>5. QED
    BY <2>2, <2>3, <2>4 DEF OneActiveRowPerPath
<1>4. ASSUME NEW j \in Pending, MarkSubmitted(j) \/ MarkError(j)
      PROVE  \A i \in Active' : Keeps(i)
  <2>1. j \in DOMAIN rows /\ rows[j] \in Row
    BY DEF Pending, Having, QueueTypeOK
  <2>2. DOMAIN rows' = DOMAIN rows /\ \A i \in DOMAIN rows \ {j} : rows'[i] = rows[i]
    BY <1>4, <2>1 DEF MarkSubmitted, MarkError
  <2>3. rows'[j].path = rows[j].path
    BY <1>4, <2>1 DEF MarkSubmitted, MarkError, Row
  <2>4. QED
    BY <2>1, <2>2, <2>3 DEF Active, Pending, Submitted, Having
<1>5. ASSUME NEW S \in SUBSET (DOMAIN rows), DeleteRows(S)
      PROVE  \A i \in Active' : Keeps(i)
  BY <1>5 DEF DeleteRows, Active, Pending, Submitted, Having
<1>6. ASSUME NEW j \in Pending, NEW p \in Priorities, NEW pos \in Int, Place(j, p, pos)
      PROVE  \A i \in Active' : Keeps(i)
  <2>1. j \in DOMAIN rows /\ rows[j] \in Row
    BY DEF Pending, Having, QueueTypeOK
  <2>2. DOMAIN rows' = DOMAIN rows /\ \A i \in DOMAIN rows \ {j} : rows'[i] = rows[i]
    BY <1>6, <2>1 DEF Place
  <2>3. rows'[j].path = rows[j].path /\ rows'[j].status = rows[j].status
    BY <1>6, <2>1 DEF Place, Row
  <2>4. QED
    BY <2>1, <2>2, <2>3 DEF Active, Pending, Submitted, Having
<1>7. ASSUME QueueTick
      PROVE  \A i \in Active' : Keeps(i)
  <2>1. DOMAIN rows' = DOMAIN rows
    BY <1>7 DEF QueueTick, AgedRows
  <2>2. \A i \in DOMAIN rows : /\ rows'[i].path = rows[i].path
                               /\ rows'[i].status = rows[i].status
    BY <1>7 DEF QueueTick, AgedRows, QueueTypeOK, Row
  <2>3. QED
    BY <2>1, <2>2 DEF Active, Pending, Submitted, Having
<1>8. CASE UNCHANGED queueVars
  BY <1>8 DEF queueVars, OneActiveRowPerPath, Active, Pending, Submitted, Having
<1>9. QED
  BY <1>1, <1>3, <1>4, <1>5, <1>6, <1>7, <1>8, Writes, ReorderPlaces DEF Reorder

\* Whatever producers ask for and the feeder does with the rows, no path has
\* two active rows: enqueue's check and the feeder's unconditional UPDATEs
\* never combine into a second one.
THEOREM Deduplication == QueueSpec => []OneActiveRowPerPath
<1>1. QueueInit => OneActiveRowPerPath
  BY DEF QueueInit, OneActiveRowPerPath, Active, Pending, Submitted, Having
<1>2. QED
  BY <1>1, DedupInduction, QueueTypeCorrect, PTL DEF QueueSpec

-----------------------------------------------------------------------------
(* Sort keys. *)

\* the midpoint of two different grid points lies strictly between them
LEMMA MidpointBetween ==
    ASSUME NEW a \in Int, NEW b \in Int, a < b, Rounding = FALSE, NEW x \in Midpoints(a, b)
    PROVE  x \in Int /\ a < x /\ x < b
<1>1. (a + b) % 2 = 0 /\ x = (a + b) \div 2
  BY DEF Midpoints
<1>2. QED
  BY <1>1

\* no other row of bucket p has the sort key pos
Free(j, p, pos) == \A i \in Bucket(p) \ {j} : rows[i].position # pos

\* Where a drop puts a job, against every other job of the bucket.
LEMMA MoveBetween ==
    ASSUME QueueTypeOK, DistinctPositions, Rounding = FALSE,
           NEW j \in Pending, NEW t \in DOMAIN rows, NEW side,
           NEW pos \in MovePositions(j, t, side),
           NEW i \in Bucket(rows[t].priority) \ {j}
    PROVE  IF t \notin Bucket(rows[t].priority) \ {j}
           THEN rows[i].position < pos
           ELSE IF Before(i, t) \/ (i = t /\ side # "before")
           THEN rows[i].position < pos
           ELSE pos < rows[i].position
<1> DEFINE others == Bucket(rows[t].priority) \ {j}
           here   == rows[t].position
           over   == {k \in others : Before(k, t)}
           under  == {k \in others : Before(t, k)}
<1>1. /\ here \in Int
      /\ Unit \in Int /\ Unit > 0
      /\ \A k \in others : rows[k].position \in Int /\ k \in Int
      /\ t \in Int /\ rows[t].priority \in Int
  BY PendingQueueAssumption DEF QueueTypeOK, Row, Bucket, Pending, Having
<1>2. \A k \in others : rows[k].priority = rows[t].priority /\ k \in Pending
  BY DEF Bucket
<1>3. \A k \in others : k = t \/ k \in over \/ k \in under
  BY <1>1, <1>2 DEF Before
<1>4. ASSUME t \in others
      PROVE  /\ \A k \in over : rows[k].position < here
             /\ \A k \in under : here < rows[k].position
             /\ t \notin over /\ over \cap under = {}
  <2>1. \A k \in over \cup under : k # t
    BY <1>1 DEF Before
  <2>2. \A k \in over \cup under : rows[k].position # here
    BY <1>2, <1>4, <2>1 DEF DistinctPositions
  <2>3. QED
    BY <1>1, <1>2, <2>1, <2>2 DEF Before
<1>5. \/ t \notin others /\ others = {}
      \/ t \notin others /\ \E m \in Largest(PositionsOf(others)) : pos = m + Unit
      \/ t \in others /\ side = "before" /\ over = {} /\ pos = here - Unit
      \/ /\ t \in others /\ side = "before"
         /\ \E m \in Largest(PositionsOf(over)) : pos \in Midpoints(m, here)
      \/ t \in others /\ side # "before" /\ under = {} /\ pos = here + Unit
      \/ /\ t \in others /\ side # "before"
         /\ \E m \in Smallest(PositionsOf(under)) : pos \in Midpoints(here, m)
  <2>1. (PositionsOf(over) = {} => over = {}) /\ (PositionsOf(under) = {} => under = {})
    BY DEF PositionsOf
  <2>2. QED
    BY <2>1, Zenon DEF MovePositions
<1>6. (Before(i, t) <=> i \in over) /\ i \in others
  OBVIOUS
<1> SUFFICES IF t \notin others THEN rows[i].position < pos
             ELSE IF i \in over \/ (i = t /\ side # "before") THEN rows[i].position < pos
             ELSE pos < rows[i].position
  BY <1>6
<1> HIDE DEF others, here, over, under
<1>7. \A S : \A m \in Largest(PositionsOf(S)) :
        /\ \E k \in S : m = rows[k].position
        /\ \A k \in S : rows[k].position <= m
  BY DEF Largest, PositionsOf
<1>8. \A S : \A m \in Smallest(PositionsOf(S)) :
        /\ \E k \in S : m = rows[k].position
        /\ \A k \in S : m <= rows[k].position
  BY DEF Smallest, PositionsOf
<1>9. over \subseteq others /\ under \subseteq others
  BY DEF over, under
<1>10. rows[t].position = here
  BY DEF here
<1>11. CASE t \notin others
  <2>1. PICK m \in Largest(PositionsOf(others)) : pos = m + Unit
    BY <1>5, <1>6, <1>11
  <2>2. QED
    BY <1>1, <1>6, <1>7, <1>11, <2>1
<1>12. ASSUME t \in others, side = "before", over = {}, pos = here - Unit
       PROVE  pos < rows[i].position
  BY <1>1, <1>3, <1>4, <1>6, <1>10, <1>12
<1>13. ASSUME t \in others, NEW m \in Largest(PositionsOf(over)), pos \in Midpoints(m, here)
       PROVE  IF i \in over THEN rows[i].position < pos ELSE pos < rows[i].position
  <2>1. m \in Int /\ m < here
    BY <1>1, <1>4, <1>7, <1>9, <1>13
  <2>2. pos \in Int /\ m < pos /\ pos < here
    BY <1>1, <1>13, <2>1, MidpointBetween
  <2>3. i \in over => rows[i].position <= m
    BY <1>7, <1>13
  <2>4. i \notin over => here <= rows[i].position
    BY <1>1, <1>3, <1>4, <1>6, <1>10, <1>13
  <2>5. QED
    BY <1>1, <1>6, <2>1, <2>2, <2>3, <2>4
<1>14. ASSUME t \in others, side # "before", under = {}, pos = here + Unit
       PROVE  rows[i].position < pos /\ (i \in over \/ i = t)
  BY <1>1, <1>3, <1>4, <1>6, <1>10, <1>14
<1>15. ASSUME t \in others, NEW m \in Smallest(PositionsOf(under)), pos \in Midpoints(here, m)
       PROVE  IF i \in over \/ i = t THEN rows[i].position < pos ELSE pos < rows[i].position
  <2>1. m \in Int /\ here < m
    BY <1>1, <1>4, <1>8, <1>9, <1>15
  <2>2. pos \in Int /\ here < pos /\ pos < m
    BY <1>1, <1>15, <2>1, MidpointBetween
  <2>3. i \in under => m <= rows[i].position
    BY <1>8, <1>15
  <2>4. i \in over \/ i = t => rows[i].position <= here
    BY <1>1, <1>4, <1>6, <1>10, <1>15
  <2>5. QED
    BY <1>1, <1>3, <1>6, <2>1, <2>2, <2>3, <2>4
<1>16. CASE t \in others /\ side = "before"
  BY <1>4, <1>5, <1>12, <1>13, <1>16
<1>17. CASE t \in others /\ side # "before"
  BY <1>4, <1>5, <1>14, <1>15, <1>17
<1>18. QED
  BY <1>11, <1>16, <1>17

LEMMA MoveSeparates ==
    ASSUME QueueTypeOK, DistinctPositions, Rounding = FALSE,
           NEW j \in Pending, NEW t \in DOMAIN rows, NEW side,
           NEW pos \in MovePositions(j, t, side)
    PROVE  Free(j, rows[t].priority, pos)
<1>1. \A i \in Bucket(rows[t].priority) \ {j} : rows[i].position < pos \/ pos < rows[i].position
  BY MoveBetween
<1>2. pos \in Int /\ \A i \in Bucket(rows[t].priority) : rows[i].position \in Int
  BY MovePositionsInt DEF QueueTypeOK, Row, Bucket, Pending, Having
<1>3. QED
  BY <1>1, <1>2 DEF Free

LEMMA RepositionSeparates ==
    ASSUME QueueTypeOK, NEW j \in Pending, NEW toTop \in BOOLEAN, Reposition(j, toTop)
    PROVE  \E p \in Priorities, pos \in Int : Place(j, p, pos) /\ Free(j, p, pos)
<1> DEFINE p      == rows[j].priority
           others == Bucket(p) \ {j}
<1>1. /\ p \in Priorities /\ rows[j].position \in Int
      /\ Unit \in Int /\ Unit > 0
      /\ \A i \in others : rows[i].position \in Int
  BY PendingQueueAssumption DEF QueueTypeOK, Row, Bucket, Pending, Having
<1>2. PICK pos : /\ Place(j, p, pos)
                 /\ \/ others = {} /\ pos = rows[j].position
                    \/ \E m \in Smallest(PositionsOf(others)) : pos = m - Unit
                    \/ \E m \in Largest(PositionsOf(others)) : pos = m + Unit
  <2>1. PositionsOf(others) = {} => others = {}
    BY DEF PositionsOf
  <2>2. QED
    BY <2>1, Zenon DEF Reposition
<1> HIDE DEF others
<1>3. \A m \in Smallest(PositionsOf(others)) :
        /\ \E k \in others : m = rows[k].position
        /\ \A k \in others : m <= rows[k].position
  BY DEF Smallest, PositionsOf
<1>4. \A m \in Largest(PositionsOf(others)) :
        /\ \E k \in others : m = rows[k].position
        /\ \A k \in others : rows[k].position <= m
  BY DEF Largest, PositionsOf
<1>5. pos \in Int /\ \A i \in others : rows[i].position # pos
  BY <1>1, <1>2, <1>3, <1>4
<1>6. QED
  BY <1>1, <1>2, <1>5 DEF Free, others

LEMMA ReorderSeparates ==
    ASSUME QueueTypeOK, DistinctPositions, Rounding = FALSE, Reorder
    PROVE  \E j \in Pending, p \in Priorities, pos \in Int :
              Place(j, p, pos) /\ Free(j, p, pos)
<1>1. PICK j \in Pending :
        \/ Promote(j)
        \/ Demote(j)
        \/ MoveUp(j)
        \/ MoveDown(j)
        \/ \E t \in DOMAIN rows, side \in {"before", "after"} : Move(j, t, side)
  BY DEF Reorder
<1>2. ASSUME NEW t \in DOMAIN rows, NEW side, Move(j, t, side)
      PROVE  \E p \in Priorities, pos \in Int : Place(j, p, pos) /\ Free(j, p, pos)
  <2>1. PICK pos \in MovePositions(j, t, side) : Place(j, rows[t].priority, pos)
    BY <1>2 DEF Move
  <2>2. Free(j, rows[t].priority, pos)
    BY <2>1, MoveSeparates
  <2>3. rows[t].priority \in Priorities
    BY DEF QueueTypeOK, Row
  <2>4. pos \in Int
    BY <2>1, MovePositionsInt
  <2>5. QED
    BY <2>1, <2>2, <2>3, <2>4
<1>3. \A i \in Pending : i \in DOMAIN rows
  BY DEF Pending, Having
<1>4. CASE Promote(j) \/ Demote(j)
  BY <1>4, RepositionSeparates DEF Promote, Demote
<1>5. CASE MoveUp(j) \/ MoveDown(j)
  BY <1>2, <1>3, <1>5 DEF MoveUp, MoveDown
<1>6. QED
  BY <1>1, <1>2, <1>4, <1>5

LEMMA DistinctInduction ==
    ASSUME QueueTypeOK, DistinctPositions, Rounding = FALSE, [QueueNext]_queueVars
    PROVE  DistinctPositions'
<1> DEFINE Keeps(i) == /\ i \in Pending
                       /\ rows'[i].priority = rows[i].priority
                       /\ rows'[i].position = rows[i].position
<1>1. ASSUME \A i \in Pending' : Keeps(i)
      PROVE  DistinctPositions'
  BY <1>1 DEF DistinctPositions
<1>2. ASSUME NEW j, NEW p, NEW pos, Free(j, p, pos),
             j \in DOMAIN rows',
             rows'[j].priority = p,
             rows'[j].position = pos,
             \A i \in Pending' : i = j \/ (i # j /\ Keeps(i))
      PROVE  DistinctPositions'
  BY <1>2 DEF DistinctPositions, Free, Bucket
<1>3. \A i \in Pending : i \in DOMAIN rows /\ rows[i] \in Row
  BY DEF Pending, Having, QueueTypeOK
<1>4. ASSUME NEW path \in Paths, NEW p \in Priorities, Enqueue(path, p)
      PROVE  DistinctPositions'
  <2>1. PICK pos \in AppendPositions(p) :
          rows' = [j \in DOMAIN rows \cup {nextId} |->
                     IF j = nextId
                     THEN [path |-> path, priority |-> p, position |-> pos,
                           status |-> "pending", age |-> 0]
                     ELSE rows[j]]
    BY <1>4 DEF Enqueue, Insert
  <2>2. /\ nextId \notin DOMAIN rows
        /\ DOMAIN rows' = DOMAIN rows \cup {nextId}
        /\ rows'[nextId].priority = p /\ rows'[nextId].position = pos
        /\ \A i \in DOMAIN rows : rows'[i] = rows[i]
    BY <2>1 DEF QueueTypeOK
  <2>3. \A i \in Pending' : i = nextId \/ (i # nextId /\ Keeps(i))
    BY <2>2 DEF Pending, Having
  <2>4. Free(nextId, p, pos)
    <3>1. \A m \in Largest(PositionsOf(Bucket(p))) :
             /\ \E k \in Bucket(p) : m = rows[k].position
             /\ \A k \in Bucket(p) : rows[k].position <= m
      BY DEF Largest, PositionsOf
    <3>2. \A k \in Bucket(p) : rows[k].position \in Int
      BY <1>3 DEF Bucket, Row
    <3>3. Bucket(p) # {} => \E m \in Largest(PositionsOf(Bucket(p))) : pos = m + Unit
      BY <2>1 DEF AppendPositions
    <3>4. Unit \in Int /\ Unit > 0
      BY PendingQueueAssumption
    <3>5. QED
      BY <3>1, <3>2, <3>3, <3>4 DEF Free
  <2>5. QED
    BY <1>2, <2>2, <2>3, <2>4
<1>5. ASSUME NEW j \in Pending, MarkSubmitted(j) \/ MarkError(j)
      PROVE  \A i \in Pending' : Keeps(i)
  <2>1. j \in DOMAIN rows /\ rows[j] \in Row
    BY <1>3
  <2>2. DOMAIN rows' = DOMAIN rows /\ \A i \in DOMAIN rows \ {j} : rows'[i] = rows[i]
    BY <1>5, <2>1 DEF MarkSubmitted, MarkError
  <2>3. rows'[j].status # "pending"
    BY <1>5, <2>1 DEF MarkSubmitted, MarkError, Row
  <2>4. QED
    BY <2>1, <2>2, <2>3 DEF Pending, Having
<1>6. ASSUME NEW S \in SUBSET (DOMAIN rows), DeleteRows(S)
      PROVE  \A i \in Pending' : Keeps(i)
  BY <1>6 DEF DeleteRows, Pending, Having
<1>7. CASE Reorder
  <2>1. PICK j \in Pending, p \in Priorities, pos \in Int :
          Place(j, p, pos) /\ Free(j, p, pos)
    BY <1>7, ReorderSeparates
  <2>2. j \in DOMAIN rows /\ rows[j] \in Row
    BY <1>3
  <2>3. DOMAIN rows' = DOMAIN rows /\ \A i \in DOMAIN rows \ {j} : rows'[i] = rows[i]
    BY <2>1, <2>2 DEF Place
  <2>4. rows'[j].priority = p /\ rows'[j].position = pos
    BY <2>1, <2>2 DEF Place, Row
  <2>5. \A i \in Pending' : i = j \/ (i # j /\ Keeps(i))
    BY <2>3 DEF Pending, Having
  <2>6. QED
    BY <1>2, <2>1, <2>2, <2>3, <2>4, <2>5
<1>8. ASSUME QueueTick
      PROVE  \A i \in Pending' : Keeps(i)
  <2>1. DOMAIN rows' = DOMAIN rows
    BY <1>8 DEF QueueTick, AgedRows
  <2>2. \A i \in DOMAIN rows : /\ rows'[i].status = rows[i].status
                               /\ rows'[i].priority = rows[i].priority
                               /\ rows'[i].position = rows[i].position
    BY <1>8 DEF QueueTick, AgedRows, QueueTypeOK, Row
  <2>3. QED
    BY <2>1, <2>2 DEF Pending, Having
<1>9. CASE UNCHANGED queueVars
  BY <1>9 DEF queueVars, DistinctPositions, Pending, Having
<1>10. QED
  BY <1>1, <1>4, <1>5, <1>6, <1>7, <1>8, <1>9, Writes

\* While midpoints are exact, the list order of the pending rows of a bucket
\* is decided by the sort key alone: no drag, promotion or re-prioritisation
\* makes two keys meet.
THEOREM SortKeysDistinct ==
    ASSUME Rounding = FALSE
    PROVE  QueueSpec => []DistinctPositions
<1>1. QueueInit => DistinctPositions
  BY DEF QueueInit, DistinctPositions, Pending, Having
<1>2. QueueTypeOK /\ DistinctPositions /\ [QueueNext]_queueVars => DistinctPositions'
  BY DistinctInduction
<1>3. QED
  BY <1>1, <1>2, QueueTypeCorrect, PTL DEF QueueSpec

-----------------------------------------------------------------------------
(* Lists: the elements of B, each once, in the order of R. *)
Sorted(s, R) == \A i, k \in DOMAIN s : i < k => <<s[i], s[k]>> \in R

Lists(s, B, R) ==
    /\ s \in Seq(B)
    /\ \A b \in B : \E i \in DOMAIN s : s[i] = b
    /\ Sorted(s, R)

Asymmetric(R) == \A a, b : <<a, b>> \in R => <<b, a>> \notin R

\* InsertAt and RemoveAt, element by element.
LEMMA InsertAtFacts ==
    ASSUME NEW S, NEW s \in Seq(S), NEW i \in 1..(Len(s) + 1), NEW e \in S
    PROVE  /\ InsertAt(s, i, e) \in Seq(S)
           /\ Len(InsertAt(s, i, e)) = Len(s) + 1
           /\ \A k \in 1..(Len(s) + 1) :
                InsertAt(s, i, e)[k] = IF k < i THEN s[k] ELSE IF k = i THEN e ELSE s[k - 1]
<1> DEFINE n == Len(s)
           left  == SubSeq(s, 1, i - 1)
           right == SubSeq(s, i, n)
<1>1. n \in Nat /\ i \in 1..(n + 1) /\ \A k \in 1..n : s[k] \in S
  BY LenProperties, ElementOfSeq
<1>2. /\ left \in Seq(S) /\ Len(left) = i - 1
      /\ \A k \in 1..(i - 1) : left[k] = s[k]
  BY <1>1, SubSeqProperties
<1>3. /\ right \in Seq(S) /\ Len(right) = n - i + 1
      /\ \A k \in 1..(n - i + 1) : right[k] = s[i + k - 1]
  BY <1>1, SubSeqProperties
<1>4. <<e>> \in Seq(S) /\ Len(<<e>>) = 1 /\ <<e>>[1] = e
  OBVIOUS
<1>5. InsertAt(s, i, e) = (left \o <<e>>) \o right
  BY DEF InsertAt
<1> HIDE DEF n, left, right
<1>6. /\ left \o <<e>> \in Seq(S) /\ Len(left \o <<e>>) = i
      /\ \A k \in 1..i : (left \o <<e>>)[k] = IF k < i THEN s[k] ELSE e
  BY <1>1, <1>2, <1>4, ConcatProperties
<1> DEFINE head == left \o <<e>>
<1> HIDE DEF head
<1>7. /\ head \o right \in Seq(S) /\ Len(head \o right) = n + 1
      /\ \A k \in 1..(n + 1) : (head \o right)[k] = IF k <= i THEN head[k] ELSE right[k - i]
  <2>1. head \in Seq(S) /\ Len(head) = i
    BY <1>6 DEF head
  <2>2. /\ head \o right \in Seq(S) /\ Len(head \o right) = i + (n - i + 1)
        /\ \A k \in 1..(i + (n - i + 1)) :
             (head \o right)[k] = IF k <= i THEN head[k] ELSE right[k - i]
    <3>1. /\ head \o right \in Seq(S) /\ Len(head \o right) = Len(head) + Len(right)
          /\ \A k \in 1..(Len(head) + Len(right)) :
               (head \o right)[k] = IF k <= Len(head) THEN head[k] ELSE right[k - Len(head)]
      BY <1>3, <2>1, ConcatProperties
    <3>2. QED
      BY <1>3, <2>1, <3>1
  <2>3. i + (n - i + 1) = n + 1
    BY <1>1
  <2>4. QED
    BY <2>2, <2>3
<1>8. \A k \in 1..(n + 1) : i < k => right[k - i] = s[k - 1]
  <2>1. SUFFICES ASSUME NEW k \in 1..(n + 1), i < k PROVE right[k - i] = s[k - 1]
    OBVIOUS
  <2>2. k - i \in 1..(n - i + 1) /\ i + (k - i) - 1 = k - 1
    BY <1>1, <2>1
  <2>3. QED
    BY <1>3, <2>2
<1>9. QED
  BY <1>1, <1>5, <1>6, <1>7, <1>8 DEF head, n

LEMMA RemoveAtFacts ==
    ASSUME NEW S, NEW s \in Seq(S), NEW i \in 1..Len(s)
    PROVE  /\ RemoveAt(s, i) \in Seq(S)
           /\ Len(RemoveAt(s, i)) = Len(s) - 1
           /\ \A k \in 1..(Len(s) - 1) : RemoveAt(s, i)[k] = IF k < i THEN s[k] ELSE s[k + 1]
<1> DEFINE n == Len(s)
           left  == SubSeq(s, 1, i - 1)
           right == SubSeq(s, i + 1, n)
<1>1. n \in Nat /\ i \in 1..n /\ \A k \in 1..n : s[k] \in S
  BY LenProperties, ElementOfSeq
<1>2. /\ left \in Seq(S) /\ Len(left) = i - 1
      /\ \A k \in 1..(i - 1) : left[k] = s[k]
  BY <1>1, SubSeqProperties
<1>3. /\ right \in Seq(S) /\ Len(right) = n - i
      /\ \A k \in 1..(n - i) : right[k] = s[i + k]
  <2>1. /\ right \in Seq(S) /\ Len(right) = IF i + 1 <= n THEN n - (i + 1) + 1 ELSE 0
        /\ \A k \in 1..(n - (i + 1) + 1) : right[k] = s[(i + 1) + k - 1]
    BY <1>1, SubSeqProperties
  <2>2. QED
    BY <1>1, <2>1
<1>4. RemoveAt(s, i) = left \o right
  BY DEF RemoveAt
<1> HIDE DEF n, left, right
<1>5. /\ left \o right \in Seq(S) /\ Len(left \o right) = n - 1
      /\ \A k \in 1..(n - 1) : (left \o right)[k] = IF k <= i - 1 THEN left[k] ELSE right[k - (i - 1)]
  <2>1. /\ left \o right \in Seq(S) /\ Len(left \o right) = (i - 1) + (n - i)
        /\ \A k \in 1..((i - 1) + (n - i)) :
             (left \o right)[k] = IF k <= i - 1 THEN left[k] ELSE right[k - (i - 1)]
    <3>1. /\ left \o right \in Seq(S) /\ Len(left \o right) = Len(left) + Len(right)
          /\ \A k \in 1..(Len(left) + Len(right)) :
               (left \o right)[k] = IF k <= Len(left) THEN left[k] ELSE right[k - Len(left)]
      BY <1>2, <1>3, ConcatProperties
    <3>2. QED
      BY <1>2, <1>3, <3>1
  <2>2. (i - 1) + (n - i) = n - 1
    BY <1>1
  <2>3. QED
    BY <2>1, <2>2
<1>6. \A k \in 1..(n - 1) : i <= k => right[k - (i - 1)] = s[k + 1]
  <2>1. SUFFICES ASSUME NEW k \in 1..(n - 1), i <= k PROVE right[k - (i - 1)] = s[k + 1]
    OBVIOUS
  <2>2. k - (i - 1) \in 1..(n - i) /\ i + (k - (i - 1)) = k + 1
    BY <1>1, <2>1
  <2>3. QED
    BY <1>3, <2>2
<1>7. \A k \in 1..(n - 1) : (k < i => k \in 1..(i - 1)) /\ (k <= i - 1 <=> k < i)
  BY <1>1
<1>8. QED
  BY <1>1, <1>2, <1>4, <1>5, <1>6, <1>7 DEF n

\* A list holds nothing twice.
LEMMA ListedOnce ==
    ASSUME NEW B, NEW R, Asymmetric(R), NEW s, Lists(s, B, R)
    PROVE  \A i, k \in DOMAIN s : s[i] = s[k] => i = k
<1>1. DOMAIN s = 1..Len(s) /\ Len(s) \in Nat
  BY LenProperties DEF Lists
<1>2. \A a : <<a, a>> \notin R
  BY DEF Asymmetric
<1>3. SUFFICES ASSUME NEW i \in DOMAIN s, NEW k \in DOMAIN s, s[i] = s[k], i # k
               PROVE  FALSE
  OBVIOUS
<1>4. i < k \/ k < i
  BY <1>1, <1>3
<1>5. <<s[i], s[k]>> \in R \/ <<s[k], s[i]>> \in R
  BY <1>4 DEF Lists, Sorted
<1>6. QED
  BY <1>2, <1>3, <1>5

\* A set of numbers has a least one.
LEMMA LeastNumber ==
    ASSUME NEW S \in SUBSET Nat, S # {}
    PROVE  \E x \in S : \A y \in S : x <= y
<1> DEFINE R == OpToRel(<, Nat)
<1>1. IsWellFoundedOn(R, Nat)
  BY NatLessThanWellFounded
<1>2. \A x, y \in Nat : <<y, x>> \in R <=> y < x
  BY DEF OpToRel
<1> HIDE DEF R
<1>3. PICK x \in S : \A y \in S : ~(<<y, x>> \in R)
  BY <1>1, WFMin
<1>4. \A y \in S : ~(y < x)
  BY <1>2, <1>3
<1>5. QED
  BY <1>4

\* There is one list of a set, and it is as long as the set is large.
LEMMA OneList ==
    ASSUME NEW B, NEW R, Asymmetric(R), NEW s, Lists(s, B, R)
    PROVE  /\ s \in [1..Cardinality(B) -> B]
           /\ \A t \in [1..Cardinality(B) -> B] : Sorted(t, R) => t = s
<1> DEFINE n == Len(s)
<1>1. n \in Nat /\ s \in [1..n -> B] /\ DOMAIN s = 1..n
  BY LenProperties DEF Lists
<1>2. \A i, k \in 1..n : s[i] = s[k] => i = k
  BY <1>1, ListedOnce
<1>3. \A b \in B : \E i \in 1..n : s[i] = b
  BY <1>1 DEF Lists
<1> HIDE DEF n
<1>4. s \in Bijection(1..n, B)
  BY <1>1, <1>2, <1>3 DEF Bijection, Injection, Surjection, IsInjective
<1>5. Cardinality(B) = n
  BY <1>1, <1>4, FS_CountingElements DEF ExistsBijection
<1>6. SUFFICES ASSUME NEW t \in [1..n -> B], Sorted(t, R) PROVE t = s
  BY <1>1, <1>5
<1>7. t \in Seq(B)
  BY <1>1, SeqDef
<1>8. \A i, k \in 1..n : t[i] = t[k] => i = k
  <2>1. \A a : <<a, a>> \notin R
    BY DEF Asymmetric
  <2>2. \A i, k \in 1..n : i < k => <<t[i], t[k]>> \in R
    BY <1>6 DEF Sorted
  <2>3. \A i, k \in 1..n : i < k \/ k < i \/ i = k
    BY <1>1
  <2>4. QED
    BY <2>1, <2>2, <2>3
<1>9. \A b \in B : \E i \in 1..n : t[i] = b
  <2>1. t \in Injection(1..n, B)
    BY <1>8 DEF Injection, IsInjective
  <2>2. IsFiniteSet(1..n) /\ Cardinality(1..n) = n
    BY <1>1, FS_Interval
  <2>3. IsFiniteSet(B)
    BY <1>1, <1>4, FS_NatBijection DEF ExistsBijection
  <2>4. t \in Surjection(1..n, B)
    BY <1>5, <2>1, <2>2, <2>3, FS_Injection
  <2>5. QED
    BY <2>4 DEF Surjection
<1>10. SUFFICES ASSUME t # s PROVE FALSE
  OBVIOUS
<1> DEFINE Apart == {i \in 1..n : t[i] # s[i]}
<1>11. Apart # {} /\ Apart \subseteq Nat
  <2>1. \E i \in 1..n : t[i] # s[i]
    BY <1>1, <1>6, <1>10
  <2>2. QED
    BY <1>1, <2>1
<1>12. PICK i \in Apart : \A k \in Apart : i <= k
  BY <1>11, LeastNumber
<1>13. i \in 1..n /\ t[i] # s[i] /\ \A k \in 1..n : k < i => t[k] = s[k]
  BY <1>1, <1>12
<1>14. PICK k \in 1..n : t[k] = s[i]
  BY <1>1, <1>9, <1>13
<1>15. PICK m \in 1..n : s[m] = t[i]
  BY <1>3, <1>6, <1>13
<1>16. i < k /\ i < m
  <2>1. ~(k < i) /\ k # i
    BY <1>2, <1>13, <1>14
  <2>2. ~(m < i) /\ m # i
    BY <1>8, <1>13, <1>15
  <2>3. QED
    BY <1>1, <1>13, <2>1, <2>2
<1>17. <<t[i], t[k]>> \in R /\ <<s[i], s[m]>> \in R
  BY <1>1, <1>6, <1>13, <1>16 DEF Lists, Sorted
<1>18. QED
  BY <1>14, <1>15, <1>17 DEF Asymmetric

\* Where a new element fits between its neighbours, it may be put into a list.
LEMMA InsertedLists ==
    ASSUME NEW B, NEW R, NEW Q, NEW s, Lists(s, B, R),
           \A a, b \in B : <<a, b>> \in R => <<a, b>> \in Q,
           NEW j, NEW i \in 1..(Len(s) + 1),
           \A k \in DOMAIN s : IF k < i THEN <<s[k], j>> \in Q ELSE <<j, s[k]>> \in Q
    PROVE  Lists(InsertAt(s, i, j), B \cup {j}, Q)
<1> DEFINE C == B \cup {j}
           n == Len(s)
           w == InsertAt(s, i, j)
<1>1. s \in Seq(C) /\ n \in Nat /\ DOMAIN s = 1..n /\ \A k \in 1..n : s[k] \in B
  BY SeqMonotonic, LenProperties, ElementOfSeq DEF Lists
<1>2. /\ w \in Seq(C)
      /\ Len(w) = n + 1
      /\ \A k \in 1..(n + 1) :
           w[k] = IF k < i THEN s[k] ELSE IF k = i THEN j ELSE s[k - 1]
  <2>1. s \in Seq(C) /\ j \in C /\ i \in 1..(Len(s) + 1)
    BY <1>1
  <2>2. QED
    BY <2>1, InsertAtFacts
<1>3. DOMAIN w = 1..(n + 1)
  BY <1>2, LenProperties
<1> HIDE DEF n, w
<1>4. \A b \in C : \E k \in DOMAIN w : w[k] = b
  <2>1. w[i] = j /\ i \in DOMAIN w
    BY <1>1, <1>2, <1>3 DEF n
  <2>2. ASSUME NEW b \in B
        PROVE  \E k \in DOMAIN w : w[k] = b
    <3>1. PICK k \in 1..n : s[k] = b
      BY <1>1 DEF Lists
    <3>2. CASE k < i
      <4>1. k \in 1..(n + 1) /\ w[k] = s[k]
        BY <1>1, <1>2, <3>2
      <4>2. QED
        BY <1>3, <3>1, <4>1
    <3>3. CASE ~(k < i)
      <4>1. k + 1 \in 1..(n + 1) /\ w[k + 1] = s[k]
        BY <1>1, <1>2, <3>3 DEF n
      <4>2. QED
        BY <1>3, <3>1, <4>1
    <3>4. QED
      BY <3>2, <3>3
  <2>3. QED
    BY <2>1, <2>2
<1>5. Sorted(w, Q)
  <2>1. \A k, m \in 1..n : k < m => <<s[k], s[m]>> \in Q
    BY <1>1 DEF Lists, Sorted
  <2>2. SUFFICES ASSUME NEW k \in 1..(n + 1), NEW m \in 1..(n + 1), k < m
                 PROVE  <<w[k], w[m]>> \in Q
    BY <1>3 DEF Sorted
  <2>3. i \in 1..(n + 1)
    BY DEF n
  <2>4. CASE m < i
    <3>1. k \in 1..n /\ m \in 1..n /\ w[k] = s[k] /\ w[m] = s[m]
      BY <1>1, <1>2, <2>2, <2>3, <2>4
    <3>2. QED
      BY <2>1, <2>2, <3>1
  <2>5. CASE m = i
    <3>1. k \in 1..n /\ k < i /\ w[k] = s[k] /\ w[m] = j
      BY <1>1, <1>2, <2>2, <2>3, <2>5
    <3>2. QED
      BY <1>1, <3>1
  <2>6. CASE i < m /\ k < i
    <3>1. k \in 1..n /\ m - 1 \in 1..n /\ k < m - 1 /\ w[k] = s[k] /\ w[m] = s[m - 1]
      BY <1>1, <1>2, <2>2, <2>3, <2>6
    <3>2. QED
      BY <2>1, <3>1
  <2>7. CASE i < m /\ k = i
    <3>1. m - 1 \in 1..n /\ ~(m - 1 < i) /\ w[k] = j /\ w[m] = s[m - 1]
      BY <1>1, <1>2, <2>2, <2>3, <2>7
    <3>2. QED
      BY <1>1, <3>1
  <2>8. CASE i < k
    <3>1. k - 1 \in 1..n /\ m - 1 \in 1..n /\ k - 1 < m - 1 /\ w[k] = s[k - 1] /\ w[m] = s[m - 1]
      BY <1>1, <1>2, <2>2, <2>3, <2>8
    <3>2. QED
      BY <2>1, <3>1
  <2>9. QED
    BY <1>1, <2>2, <2>3, <2>4, <2>5, <2>6, <2>7, <2>8
<1>6. QED
  BY <1>2, <1>4, <1>5 DEF Lists, w

\* What leaves a list leaves a list.
LEMMA RemovedLists ==
    ASSUME NEW B, NEW R, Asymmetric(R), NEW s, Lists(s, B, R), NEW i \in DOMAIN s
    PROVE  Lists(RemoveAt(s, i), B \ {s[i]}, R)
<1> DEFINE n == Len(s)
           w == RemoveAt(s, i)
           C == B \ {s[i]}
<1>1. s \in Seq(B) /\ n \in Nat /\ DOMAIN s = 1..n /\ \A k \in 1..n : s[k] \in B
  BY LenProperties, ElementOfSeq DEF Lists
<1>2. /\ w \in Seq(B)
      /\ Len(w) = n - 1
      /\ \A k \in 1..(n - 1) : w[k] = IF k < i THEN s[k] ELSE s[k + 1]
  BY <1>1, RemoveAtFacts
<1>3. DOMAIN w = 1..(n - 1)
  BY <1>2, LenProperties
<1>4. i \in 1..n /\ \A k \in 1..n : s[k] = s[i] => k = i
  BY <1>1, ListedOnce
<1> HIDE DEF n, w
<1>5. w \in Seq(C)
  <2>1. \A k \in 1..(n - 1) : w[k] \in C
    BY <1>1, <1>2, <1>4
  <2>2. w \in [1..(n - 1) -> C] /\ n - 1 \in Nat
    BY <1>1, <1>2, <1>4, <2>1, LenProperties
  <2>3. QED
    BY <2>2, SeqDef
<1>6. ASSUME NEW b \in C
      PROVE  \E k \in DOMAIN w : w[k] = b
  <2>1. PICK k \in 1..n : s[k] = b
    BY <1>1 DEF Lists
  <2>2. k # i
    BY <1>6, <2>1
  <2>3. CASE k < i
    BY <1>1, <1>2, <1>3, <1>4, <2>1, <2>3
  <2>4. CASE i < k
    <3>1. k - 1 \in 1..(n - 1) /\ w[k - 1] = s[k]
      BY <1>1, <1>2, <1>4, <2>4
    <3>2. QED
      BY <1>3, <2>1, <3>1
  <2>5. QED
    BY <1>1, <1>4, <2>2, <2>3, <2>4
<1>7. Sorted(w, R)
  <2>1. \A k, m \in 1..n : k < m => <<s[k], s[m]>> \in R
    BY <1>1 DEF Lists, Sorted
  <2>2. SUFFICES ASSUME NEW k \in 1..(n - 1), NEW m \in 1..(n - 1), k < m
                 PROVE  <<w[k], w[m]>> \in R
    BY <1>3 DEF Sorted
  <2>3. PICK a \in 1..n, b \in 1..n : a < b /\ w[k] = s[a] /\ w[m] = s[b]
    <3>1. CASE m < i
      BY <1>1, <1>2, <1>4, <2>2, <3>1
    <3>2. CASE k < i /\ ~(m < i)
      BY <1>1, <1>2, <1>4, <2>2, <3>2
    <3>3. CASE ~(k < i)
      BY <1>1, <1>2, <1>4, <2>2, <3>3
    <3>4. QED
      BY <1>1, <1>4, <2>2, <3>1, <3>2, <3>3
  <2>4. QED
    BY <2>1, <2>3
<1>8. QED
  BY <1>5, <1>6, <1>7 DEF Lists, w

-----------------------------------------------------------------------------
(* The list of the user: what the sort keys implement. *)

\* the order of the pending rows, as a set of pairs
Order == {x \in Pending \X Pending : Before(x[1], x[2])}

\* every bucket has its list
Listable == \A p \in Priorities : Lists(ListOf(p), Bucket(p), Order)

\* the lists as OrderedQueue sees them
UserLists == [p \in Priorities |-> ListOf(p)]

OrderInv == QueueTypeOK /\ DistinctPositions /\ Listable /\ nextId <= MaxJobs + 1

LEMMA OrderAsymmetric == QueueTypeOK => Asymmetric(Order)
<1> SUFFICES ASSUME QueueTypeOK, NEW a, NEW b, <<a, b>> \in Order, <<b, a>> \in Order
             PROVE  FALSE
  BY DEF Asymmetric
<1>1. a \in Pending /\ b \in Pending /\ Before(a, b) /\ Before(b, a)
  BY DEF Order
<1>2. /\ a \in Int /\ b \in Int
      /\ rows[a].priority \in Int /\ rows[b].priority \in Int
      /\ rows[a].position \in Int /\ rows[b].position \in Int
  BY <1>1, PendingQueueAssumption DEF Pending, Having, QueueTypeOK, Row
<1>3. QED
  BY <1>1, <1>2 DEF Before

\* Whatever lists a bucket in order is its list, now and after a step.
LEMMA ListIsListOf ==
    ASSUME NEW p
    PROVE  /\ QueueTypeOK => \A s : Lists(s, Bucket(p), Order) => ListOf(p) = s
           /\ QueueTypeOK' => \A s : Lists(s, Bucket(p)', Order') => ListOf(p)' = s
<1>1. ASSUME QueueTypeOK, NEW s, Lists(s, Bucket(p), Order)
      PROVE  ListOf(p) = s
  <2> DEFINE n == Cardinality(Bucket(p))
  <2>1. Asymmetric(Order)
    BY <1>1, OrderAsymmetric
  <2>2. s \in [1..n -> Bucket(p)] /\ \A t \in [1..n -> Bucket(p)] : Sorted(t, Order) => t = s
    BY <1>1, <2>1, OneList
  <2>3. \A t \in [1..n -> Bucket(p)] : InListOrder(t) <=> Sorted(t, Order)
    <3>1. Bucket(p) \subseteq Pending
      BY DEF Bucket
    <3>2. QED
      BY <3>1 DEF InListOrder, Sorted, Order
  <2>4. Sorted(s, Order)
    BY <1>1 DEF Lists
  <2> HIDE DEF n
  <2>5. s = CHOOSE t \in [1..n -> Bucket(p)] : InListOrder(t)
    BY <2>2, <2>3, <2>4
  <2>6. QED
    BY <2>5 DEF ListOf, n
<1>2. ASSUME QueueTypeOK', NEW s, Lists(s, Bucket(p)', Order')
      PROVE  ListOf(p)' = s
  <2> DEFINE B == Bucket(p)'
             n == Cardinality(B)
  <2>1. Asymmetric(Order')
    <3>1. (QueueTypeOK => Asymmetric(Order))'
      BY OrderAsymmetric, PTL
    <3>2. QED
      BY <1>2, <3>1
  <2>2. s \in [1..n -> B] /\ \A t \in [1..n -> B] : Sorted(t, Order') => t = s
    BY <1>2, <2>1, OneList
  <2>3. \A t \in [1..n -> B] : InListOrder(t)' <=> Sorted(t, Order')
    <3>1. B \subseteq Pending'
      BY DEF Bucket
    <3>2. QED
      BY <3>1 DEF InListOrder, Sorted, Order
  <2>4. Sorted(s, Order')
    BY <1>2 DEF Lists
  <2>5. ListOf(p)' = CHOOSE t \in [1..n -> B] : InListOrder(t)'
    BY DEF ListOf
  <2> HIDE DEF n, B
  <2>6. QED
    BY <2>2, <2>3, <2>4, <2>5
<1>3. QED
  BY <1>1, <1>2

\* A step that leaves each bucket with the list f gives it has these lists.
LEMMA ListsFollow ==
    ASSUME QueueTypeOK', NEW f, DOMAIN f = Priorities, f = [p \in Priorities |-> f[p]],
           \A p \in Priorities : Lists(f[p], Bucket(p)', Order')
    PROVE  Listable' /\ UserLists' = f
<1>1. \A p \in Priorities : ListOf(p)' = f[p]
  BY ListIsListOf
<1>2. QED
  BY <1>1 DEF Listable, UserLists

\* A list is a list of the same rows in any order that agrees on them.
LEMMA ListsAgree ==
    ASSUME NEW B, NEW R, NEW Q, NEW s, Lists(s, B, R),
           \A a, b \in B : <<a, b>> \in R => <<a, b>> \in Q
    PROVE  Lists(s, B, Q)
<1>1. \A i \in DOMAIN s : s[i] \in B
  BY LenProperties, ElementOfSeq DEF Lists
<1>2. QED
  BY <1>1 DEF Lists, Sorted

\* a row stands where it stood
Stands(i) == /\ i \in Pending /\ i \in Pending'
             /\ rows'[i].priority = rows[i].priority
             /\ rows'[i].position = rows[i].position

LEMMA StandsInOrder ==
    ASSUME NEW a, NEW b, Stands(a), Stands(b), <<a, b>> \in Order
    PROVE  <<a, b>> \in Order'
BY DEF Stands, Order, Before

LEMMA WithoutLists ==
    ASSUME OrderInv, NEW j \in Pending, NEW p \in Priorities
    PROVE  /\ Lists(Ordered!Without(j)[p], Bucket(p) \ {j}, Order)
           /\ Ordered!InBucket(j, p) <=> j \in Bucket(p)
<1> DEFINE s == ListOf(p)
           i == Ordered!IndexIn(s, j)
<1>1. Lists(s, Bucket(p), Order) /\ Asymmetric(Order)
  BY OrderAsymmetric DEF OrderInv, Listable
<1>2. DOMAIN s = 1..Len(s) /\ \A k \in DOMAIN s : s[k] \in Bucket(p)
  BY <1>1, LenProperties, ElementOfSeq DEF Lists
<1>3. Ordered!InBucket(j, p) <=> \E k \in DOMAIN s : s[k] = j
  BY DEF Ordered!InBucket, Ordered!ToSet
<1>4. (\E k \in DOMAIN s : s[k] = j) <=> j \in Bucket(p)
  BY <1>1, <1>2 DEF Lists
<1>5. Ordered!Without(j)[p] = IF Ordered!InBucket(j, p) THEN RemoveAt(s, i) ELSE s
  BY DEF Ordered!Without, Ordered!RemoveAt, RemoveAt
<1>6. CASE j \in Bucket(p)
  <2>1. i \in DOMAIN s /\ s[i] = j
    BY <1>4, <1>6 DEF Ordered!IndexIn
  <2> HIDE DEF s, i
  <2>2. Lists(RemoveAt(s, i), Bucket(p) \ {s[i]}, Order)
    BY <1>1, <2>1, RemovedLists
  <2>3. QED
    BY <1>3, <1>4, <1>5, <1>6, <2>1, <2>2
<1>7. CASE j \notin Bucket(p)
  <2>1. Bucket(p) \ {j} = Bucket(p)
    BY <1>7
  <2> HIDE DEF s, i
  <2>2. QED
    BY <1>1, <1>3, <1>4, <1>5, <1>7, <2>1
<1>8. QED
  BY <1>6, <1>7

\* A job put among rows that stay where they are, where its sort key belongs.
LEMMA JobPut ==
    ASSUME QueueTypeOK', NEW p, NEW B \in SUBSET Bucket(p), NEW w, Lists(w, B, Order),
           \A b \in B : Stands(b),
           NEW j \in Pending', rows'[j].priority = p, NEW i \in 1..(Len(w) + 1),
           \A k \in DOMAIN w : IF k < i THEN rows[w[k]].position < rows'[j].position
                                       ELSE rows'[j].position < rows[w[k]].position
    PROVE  Lists(InsertAt(w, i, j), B \cup {j}, Order')
<1>1. \A a, b \in B : <<a, b>> \in Order => <<a, b>> \in Order'
  BY StandsInOrder
<1>2. \A k \in DOMAIN w : w[k] \in B
  BY LenProperties, ElementOfSeq DEF Lists
<1>3. ASSUME NEW k \in DOMAIN w
      PROVE  IF k < i THEN <<w[k], j>> \in Order' ELSE <<j, w[k]>> \in Order'
  <2>1. /\ w[k] \in Pending'
        /\ rows'[w[k]].priority = p
        /\ rows'[w[k]].position = rows[w[k]].position
    BY <1>2 DEF Stands, Bucket
  <2>2. QED
    BY <2>1 DEF Order, Before
<1>4. QED
  BY <1>1, <1>3, InsertedLists

\* The ends of a list are places in it.
LEMMA EndsOfSequence ==
    ASSUME NEW T, NEW s \in Seq(T), NEW e \in T
    PROVE  /\ Append(s, e) = InsertAt(s, Len(s) + 1, e)
           /\ <<e>> \o s = InsertAt(s, 1, e)
<1> DEFINE n == Len(s)
<1>1. s \in Seq(T) /\ n \in Nat /\ e \in T
  BY LenProperties
<1>2. \A i \in 1..(Len(s) + 1) :
        /\ InsertAt(s, i, e) \in Seq(T) /\ Len(InsertAt(s, i, e)) = Len(s) + 1
        /\ \A k \in 1..(Len(s) + 1) :
             InsertAt(s, i, e)[k] = IF k < i THEN s[k] ELSE IF k = i THEN e ELSE s[k - 1]
  BY InsertAtFacts
<1>3. Append(s, e) = InsertAt(s, n + 1, e)
  <2>1. /\ Append(s, e) \in Seq(T) /\ Len(Append(s, e)) = n + 1
        /\ \A k \in 1..n : Append(s, e)[k] = s[k]
        /\ Append(s, e)[n + 1] = e
    BY <1>1, AppendProperties
  <2>2. \A k \in 1..(n + 1) : Append(s, e)[k] = InsertAt(s, n + 1, e)[k]
    BY <1>1, <1>2, <2>1
  <2>3. QED
    BY <1>1, <1>2, <2>1, <2>2, SeqEqual
<1>4. <<e>> \o s = InsertAt(s, 1, e)
  <2>1. <<e>> \in Seq(T) /\ Len(<<e>>) = 1 /\ <<e>>[1] = e
    BY <1>1
  <2>2. /\ <<e>> \o s \in Seq(T) /\ Len(<<e>> \o s) = Len(<<e>>) + n
        /\ \A k \in 1..(Len(<<e>>) + n) :
             (<<e>> \o s)[k] = IF k <= Len(<<e>>) THEN <<e>>[k] ELSE s[k - Len(<<e>>)]
    BY <1>1, <2>1, ConcatProperties
  <2>3. \A k \in 1..(n + 1) : (<<e>> \o s)[k] = IF k <= 1 THEN e ELSE s[k - 1]
    BY <1>1, <2>1, <2>2
  <2>4. \A k \in 1..(n + 1) : (<<e>> \o s)[k] = InsertAt(s, 1, e)[k]
    BY <1>1, <1>2, <2>3
  <2>5. QED
    BY <1>1, <1>2, <2>1, <2>2, <2>4, SeqEqual
<1>5. QED
  BY <1>3, <1>4

\* The element put at an end need not be of the set the list is over.
LEMMA EndsArePlaces ==
    ASSUME NEW S, NEW s \in Seq(S), NEW e
    PROVE  /\ Append(s, e) = InsertAt(s, Len(s) + 1, e)
           /\ <<e>> \o s = InsertAt(s, 1, e)
<1> DEFINE T == S \cup {e}
<1>1. s \in Seq(T) /\ e \in T
  BY SeqMonotonic
<1> HIDE DEF T
<1>2. QED
  BY <1>1, EndsOfSequence

\* Nothing that waits moves.
LEMMA NothingMoves ==
    ASSUME OrderInv, QueueTypeOK', Pending' = Pending, \A b \in Pending : Stands(b)
    PROVE  Listable' /\ UserLists' = UserLists
<1>1. ASSUME NEW p \in Priorities
      PROVE  Lists(ListOf(p), Bucket(p)', Order')
  <2>1. Bucket(p)' = Bucket(p)
    BY DEF Bucket, Stands
  <2>2. \A a, b \in Bucket(p) : <<a, b>> \in Order => <<a, b>> \in Order'
    BY StandsInOrder DEF Bucket
  <2>3. QED
    BY <2>1, <2>2, ListsAgree DEF OrderInv, Listable
<1>2. QED
  BY <1>1, ListsFollow DEF UserLists

LEMMA JobLeaves ==
    ASSUME OrderInv, QueueTypeOK', NEW j \in Pending, Pending' = Pending \ {j},
           \A b \in Pending' : Stands(b), UNCHANGED nextId
    PROVE  Listable' /\ Ordered!Leave(j)
<1> DEFINE W == Ordered!Without(j)
<1>1. ASSUME NEW p \in Priorities
      PROVE  Lists(W[p], Bucket(p)', Order')
  <2>1. Bucket(p)' = Bucket(p) \ {j}
    BY DEF Bucket, Stands
  <2>2. \A a, b \in Bucket(p) \ {j} : <<a, b>> \in Order => <<a, b>> \in Order'
    BY StandsInOrder DEF Bucket
  <2>3. Lists(W[p], Bucket(p) \ {j}, Order)
    BY WithoutLists
  <2> HIDE DEF W
  <2>4. QED
    BY <2>1, <2>2, <2>3, ListsAgree
<1>2. W = [p \in Priorities |-> W[p]] /\ DOMAIN W = Priorities
  BY DEF Ordered!Without
<1>3. Ordered!Listed(j)
  <2>1. rows[j].priority \in Priorities /\ j \in Bucket(rows[j].priority)
    BY DEF OrderInv, QueueTypeOK, Row, Bucket, Pending, Having
  <2>2. QED
    BY <2>1, WithoutLists DEF Ordered!Listed
<1>4. Listable' /\ UserLists' = W
  <2> HIDE DEF W
  <2>1. QED
    BY <1>1, <1>2, ListsFollow
<1>5. QED
  BY <1>3, <1>4 DEF Ordered!Leave, UserLists

LEMMA AllLeave ==
    ASSUME QueueTypeOK', Pending' = {}, UNCHANGED nextId
    PROVE  Listable' /\ Ordered!LeaveAll
<1> DEFINE f == [p \in Priorities |-> <<>>]
<1>1. ASSUME NEW p \in Priorities
      PROVE  Lists(f[p], Bucket(p)', Order')
  <2>1. Bucket(p)' = {}
    BY DEF Bucket
  <2>2. QED
    BY <2>1 DEF Lists, Sorted
<1>2. Listable' /\ UserLists' = f
  BY <1>1, ListsFollow
<1>3. QED
  BY <1>2 DEF Ordered!LeaveAll, UserLists

LEMMA JobArrives ==
    ASSUME OrderInv, QueueTypeOK', NEW path \in Paths, NEW p \in Priorities, Enqueue(path, p)
    PROVE  /\ Listable' /\ nextId \in Jobs /\ nextId' <= MaxJobs + 1
           /\ Ordered!Arrive(nextId, p)
<1> DEFINE j == nextId
           s == ListOf(p)
           f == [UserLists EXCEPT ![p] = Append(@, j)]
<1>1. PICK pos \in AppendPositions(p) :
        rows' = [i \in DOMAIN rows \cup {nextId} |->
                   IF i = nextId
                   THEN [path |-> path, priority |-> p, position |-> pos,
                         status |-> "pending", age |-> 0]
                   ELSE rows[i]]
  BY DEF Enqueue, Insert
<1>2. /\ j \in Nat /\ j \notin DOMAIN rows
      /\ DOMAIN rows' = DOMAIN rows \cup {j}
      /\ rows'[j].priority = p /\ rows'[j].position = pos /\ rows'[j].status = "pending"
      /\ \A i \in DOMAIN rows : rows'[i] = rows[i]
  BY <1>1 DEF OrderInv, QueueTypeOK
<1>3. Pending' = Pending \cup {j} /\ j \notin Pending /\ \A b \in Pending : Stands(b)
  BY <1>2 DEF Pending, Having, Stands
<1>4. \A k \in Bucket(p) : rows[k].position < pos
  <2>1. \A k \in Bucket(p) : rows[k].position \in Int
    BY DEF Bucket, Pending, Having, OrderInv, QueueTypeOK, Row
  <2>2. Bucket(p) # {} => \E m \in Largest(PositionsOf(Bucket(p))) : pos = m + Unit
    BY <1>1 DEF AppendPositions
  <2>3. \A m \in Largest(PositionsOf(Bucket(p))) :
          (\E k \in Bucket(p) : m = rows[k].position) /\ \A k \in Bucket(p) : rows[k].position <= m
    BY DEF Largest, PositionsOf
  <2>4. QED
    BY <2>1, <2>2, <2>3, PendingQueueAssumption
<1>5. Lists(s, Bucket(p), Order) /\ s \in Seq(Bucket(p))
  BY DEF OrderInv, Listable, Lists
<1>6. \A k \in DOMAIN s : k < Len(s) + 1 /\ s[k] \in Bucket(p)
  BY <1>5, LenProperties, ElementOfSeq
<1>7. Lists(Append(s, j), Bucket(p)', Order')
  <2>1. Bucket(p)' = Bucket(p) \cup {j}
    BY <1>2, <1>3 DEF Bucket, Stands
  <2>2. Len(s) + 1 \in 1..(Len(s) + 1)
    BY <1>5, LenProperties
  <2>3. j \in Pending' /\ rows'[j].priority = p /\ rows'[j].position = pos
        /\ \A b \in Bucket(p) : Stands(b)
    BY <1>2, <1>3 DEF Bucket
  <2> HIDE DEF s, j
  <2>4. Lists(InsertAt(s, Len(s) + 1, j), Bucket(p) \cup {j}, Order')
    BY <1>4, <1>5, <1>6, <2>2, <2>3, JobPut
  <2>5. QED
    BY <1>5, <2>1, <2>4, EndsArePlaces
<1>8. ASSUME NEW q \in Priorities \ {p}
      PROVE  Lists(ListOf(q), Bucket(q)', Order')
  <2>1. Bucket(q)' = Bucket(q)
    BY <1>2, <1>3 DEF Bucket, Stands
  <2>2. \A a, b \in Bucket(q) : <<a, b>> \in Order => <<a, b>> \in Order'
    BY <1>3, StandsInOrder DEF Bucket
  <2>3. QED
    BY <2>1, <2>2, ListsAgree DEF OrderInv, Listable
<1>9. \A q \in Priorities : Lists(f[q], Bucket(q)', Order')
  BY <1>7, <1>8 DEF UserLists
<1>10. DOMAIN f = Priorities /\ f = [q \in Priorities |-> f[q]]
  BY DEF UserLists
<1>11. Listable' /\ UserLists' = f
  <2> HIDE DEF f
  <2>1. QED
    BY <1>9, <1>10, ListsFollow
<1>12. j <= MaxJobs /\ nextId' = j + 1 /\ MaxJobs \in Nat /\ j \in Nat \ {0}
  BY PendingQueueAssumption DEF Enqueue, Insert, OrderInv, QueueTypeOK
<1>13. j \notin 1..(nextId - 1) /\ 1..(nextId' - 1) = (1..(nextId - 1)) \cup {j}
  BY <1>12
<1>14. QED
  BY <1>11, <1>12, <1>13 DEF Ordered!Arrive, UserLists, Jobs

\* A reorder takes the job out and puts it where its new sort key belongs.
LEMMA JobMoves ==
    ASSUME OrderInv, QueueTypeOK', NEW j \in Pending, NEW p \in Priorities, NEW pos \in Int,
           Place(j, p, pos), NEW w, w = Ordered!Without(j)[p], NEW i \in 1..(Len(w) + 1),
           \A k \in DOMAIN w : IF k < i THEN rows[w[k]].position < pos
                                       ELSE pos < rows[w[k]].position
    PROVE  Listable' /\ UserLists' = [Ordered!Without(j) EXCEPT ![p] = InsertAt(w, i, j)]
<1> DEFINE W == Ordered!Without(j)
           f == [W EXCEPT ![p] = InsertAt(w, i, j)]
<1>1. j \in DOMAIN rows /\ rows[j] \in Row
  BY DEF Pending, Having, OrderInv, QueueTypeOK
<1>2. /\ DOMAIN rows' = DOMAIN rows /\ \A b \in DOMAIN rows \ {j} : rows'[b] = rows[b]
      /\ rows'[j].priority = p /\ rows'[j].position = pos /\ rows'[j].status = rows[j].status
  BY <1>1 DEF Place, Row
<1>3. Pending' = Pending /\ j \in Pending' /\ \A b \in Pending \ {j} : Stands(b)
  BY <1>1, <1>2 DEF Pending, Having, Stands
<1>4. Lists(w, Bucket(p) \ {j}, Order)
  BY WithoutLists
<1>5. Lists(InsertAt(w, i, j), Bucket(p)', Order')
  <2>1. Bucket(p)' = (Bucket(p) \ {j}) \cup {j}
    BY <1>2, <1>3 DEF Bucket, Stands
  <2>2. \A b \in Bucket(p) \ {j} : Stands(b)
    BY <1>3 DEF Bucket
  <2>3. QED
    BY <1>2, <1>3, <1>4, <2>1, <2>2, JobPut
<1>6. ASSUME NEW q \in Priorities \ {p}
      PROVE  Lists(W[q], Bucket(q)', Order')
  <2>1. Bucket(q)' = Bucket(q) \ {j}
    BY <1>2, <1>3 DEF Bucket, Stands
  <2>2. \A a, b \in Bucket(q) \ {j} : <<a, b>> \in Order => <<a, b>> \in Order'
    BY <1>3, StandsInOrder DEF Bucket
  <2>3. Lists(W[q], Bucket(q) \ {j}, Order)
    BY WithoutLists
  <2> HIDE DEF W
  <2>4. QED
    BY <2>1, <2>2, <2>3, ListsAgree
<1>7. W = [q \in Priorities |-> W[q]] /\ DOMAIN W = Priorities
  BY DEF Ordered!Without
<1> HIDE DEF W
<1>8. \A q \in Priorities : Lists(f[q], Bucket(q)', Order')
  BY <1>5, <1>6, <1>7
<1>9. DOMAIN f = Priorities /\ f = [q \in Priorities |-> f[q]]
  BY <1>7
<1>10. Listable' /\ UserLists' = f
  <2> HIDE DEF f
  <2>1. QED
    BY <1>8, <1>9, ListsFollow
<1>11. QED
  BY <1>10 DEF W

\* promote and demote: to the top, to the bottom.
LEMMA RepositionOrders ==
    ASSUME OrderInv, QueueTypeOK', NEW j \in Pending, NEW toTop \in BOOLEAN, Reposition(j, toTop)
    PROVE  /\ Listable'
           /\ \E p \in Priorities : Ordered!ToTop(j, p) \/ Ordered!ToBottom(j, p)
<1> DEFINE p == rows[j].priority
           others == Bucket(p) \ {j}
           w == Ordered!Without(j)[p]
<1>1. /\ p \in Priorities /\ rows[j].position \in Int /\ j \in Bucket(p)
      /\ Unit \in Int /\ Unit > 0
      /\ \A i \in others : rows[i].position \in Int
  BY PendingQueueAssumption DEF OrderInv, QueueTypeOK, Row, Bucket, Pending, Having
<1>2. PICK pos : /\ Place(j, p, pos)
                 /\ \/ others = {} /\ pos = rows[j].position
                    \/ toTop /\ \E m \in Smallest(PositionsOf(others)) : pos = m - Unit
                    \/ ~toTop /\ \E m \in Largest(PositionsOf(others)) : pos = m + Unit
  <2>1. PositionsOf(others) = {} => others = {}
    BY DEF PositionsOf
  <2>2. QED
    BY <2>1, Zenon DEF Reposition
<1> HIDE DEF others
<1>3. \A m \in Smallest(PositionsOf(others)) :
        (\E k \in others : m = rows[k].position) /\ \A k \in others : m <= rows[k].position
  BY DEF Smallest, PositionsOf
<1>4. \A m \in Largest(PositionsOf(others)) :
        (\E k \in others : m = rows[k].position) /\ \A k \in others : rows[k].position <= m
  BY DEF Largest, PositionsOf
<1>5. /\ pos \in Int
      /\ \A i \in others : IF toTop THEN pos < rows[i].position ELSE rows[i].position < pos
  BY <1>1, <1>2, <1>3, <1>4
<1>6. Lists(w, others, Order) /\ Ordered!InBucket(j, p) /\ Ordered!Listed(j)
  BY <1>1, WithoutLists DEF Ordered!Listed, others
<1>7. w \in Seq(others) /\ Len(w) \in Nat /\ \A k \in DOMAIN w : k \in 1..Len(w) /\ w[k] \in others
  BY <1>6, LenProperties, ElementOfSeq DEF Lists
<1>8. Append(w, j) = InsertAt(w, Len(w) + 1, j) /\ <<j>> \o w = InsertAt(w, 1, j)
  BY <1>7, EndsArePlaces
<1> HIDE DEF p, w
<1>9. CASE toTop
  <2>1. Listable' /\ UserLists' = [Ordered!Without(j) EXCEPT ![p] = InsertAt(w, 1, j)]
    <3>1. 1 \in 1..(Len(w) + 1)
      BY <1>7
    <3>2. \A k \in DOMAIN w : IF k < 1 THEN rows[w[k]].position < pos
                                       ELSE pos < rows[w[k]].position
      BY <1>5, <1>7, <1>9
    <3>3. QED
      BY <1>1, <1>2, <1>5, <3>1, <3>2, JobMoves DEF w
  <2>2. nextId' = nextId
    BY <1>2 DEF Place
  <2>3. Ordered!ToTop(j, p)
    BY <1>6, <1>8, <2>1, <2>2 DEF Ordered!ToTop, UserLists, w
  <2>4. QED
    BY <1>1, <2>1, <2>3
<1>10. CASE ~toTop
  <2>1. Listable' /\ UserLists' = [Ordered!Without(j) EXCEPT ![p] = InsertAt(w, Len(w) + 1, j)]
    <3>1. Len(w) + 1 \in 1..(Len(w) + 1)
      BY <1>7
    <3>2. \A k \in DOMAIN w : IF k < Len(w) + 1 THEN rows[w[k]].position < pos
                                                ELSE pos < rows[w[k]].position
      BY <1>5, <1>7, <1>10
    <3>3. QED
      BY <1>1, <1>2, <1>5, <3>1, <3>2, JobMoves DEF w
  <2>2. nextId' = nextId
    BY <1>2 DEF Place
  <2>3. Ordered!ToBottom(j, p)
    BY <1>6, <1>8, <2>1, <2>2 DEF Ordered!ToBottom, UserLists, w
  <2>4. QED
    BY <1>1, <2>1, <2>3
<1>11. QED
  BY <1>9, <1>10

\* move: directly beside the target, or to the bottom of its bucket when the
\* target does not wait there.
LEMMA MoveOrders ==
    ASSUME OrderInv, QueueTypeOK', Rounding = FALSE, NEW j \in Pending, NEW t \in DOMAIN rows,
           NEW side, Move(j, t, side)
    PROVE  /\ Listable'
           /\ \E p \in Priorities :
                \/ Ordered!ToBottom(j, p)
                \/ \E offset \in {0, 1} : Ordered!Beside(j, t, p, offset)
<1> DEFINE p == rows[t].priority
           others == Bucket(p) \ {j}
           w == Ordered!Without(j)[p]
           x == Ordered!IndexIn(w, t)
<1>1. PICK pos \in MovePositions(j, t, side) : Place(j, p, pos)
  BY DEF Move
<1>2. pos \in Int /\ p \in Priorities /\ nextId' = nextId
  BY <1>1, MovePositionsInt DEF OrderInv, QueueTypeOK, Row, Place
<1>3. \A i \in others :
        IF t \notin others THEN rows[i].position < pos
        ELSE IF Before(i, t) \/ (i = t /\ side # "before") THEN rows[i].position < pos
        ELSE pos < rows[i].position
  BY <1>1, MoveBetween DEF OrderInv
<1>4. Lists(w, others, Order) /\ Asymmetric(Order)
  BY <1>2, WithoutLists, OrderAsymmetric DEF OrderInv
<1>5. w \in Seq(others) /\ Len(w) \in Nat /\ DOMAIN w = 1..Len(w)
      /\ \A k \in DOMAIN w : w[k] \in others
  BY <1>4, LenProperties, ElementOfSeq DEF Lists
<1>6. Append(w, j) = InsertAt(w, Len(w) + 1, j)
  BY <1>5, EndsArePlaces
<1>7. Ordered!Listed(j)
  <2>1. rows[j].priority \in Priorities /\ j \in Bucket(rows[j].priority)
    BY DEF OrderInv, QueueTypeOK, Row, Bucket, Pending, Having
  <2>2. QED
    BY <2>1, WithoutLists DEF Ordered!Listed
<1>8. \A i \in 1..(Len(w) + 1) :
        (\A k \in DOMAIN w : IF k < i THEN rows[w[k]].position < pos
                                      ELSE pos < rows[w[k]].position)
        => Listable' /\ UserLists' = [Ordered!Without(j) EXCEPT ![p] = InsertAt(w, i, j)]
  BY <1>1, <1>2, JobMoves
<1>9. CASE t \notin others
  <2> HIDE DEF p, others, w
  <2>1. Len(w) + 1 \in 1..(Len(w) + 1) /\ \A k \in DOMAIN w : k < Len(w) + 1
    BY <1>5
  <2>2. Listable' /\ UserLists' = [Ordered!Without(j) EXCEPT ![p] = Append(w, j)]
    BY <1>3, <1>5, <1>6, <1>8, <1>9, <2>1
  <2>3. Ordered!ToBottom(j, p)
    BY <1>2, <1>7, <2>2 DEF Ordered!ToBottom, UserLists, w
  <2>4. QED
    BY <1>2, <2>2, <2>3
<1>10. CASE t \in others
  <2>1. t \in Bucket(p) /\ t \in Pending /\ t # j
    BY <1>10 DEF Bucket
  <2>2. Ordered!InBucket(t, p)
    BY <1>2, <2>1, WithoutLists
  <2>3. x \in DOMAIN w /\ w[x] = t
    <3>1. \E k \in DOMAIN w : w[k] = t
      BY <1>4, <1>10 DEF Lists
    <3>2. QED
      BY <3>1 DEF Ordered!IndexIn
  <2> DEFINE i == IF side = "before" THEN x ELSE x + 1
  <2> HIDE DEF p, others, w, x
  <2>4. ASSUME NEW k \in DOMAIN w
        PROVE  (k < x => Before(w[k], t)) /\ (x <= k => ~Before(w[k], t)) /\ (k # x => w[k] # t)
    <3>1. <<w[k], w[x]>> \in Order => Before(w[k], t) /\ <<w[x], w[k]>> \notin Order
      BY <1>4, <2>3 DEF Order, Asymmetric
    <3>2. Before(w[k], t) => <<w[k], w[x]>> \in Order
      <4>1. w[k] \in Pending
        BY <1>5 DEF others, Bucket
      <4>2. QED
        BY <2>1, <2>3, <4>1 DEF Order
    <3>3. (k < x => <<w[k], w[x]>> \in Order) /\ (x < k => <<w[x], w[k]>> \in Order)
      BY <1>4, <2>3 DEF Lists, Sorted
    <3>4. k # x => w[k] # w[x]
      BY <1>4, <2>3, ListedOnce
    <3>5. k = x => <<w[k], w[x]>> \notin Order
      BY <1>4 DEF Asymmetric
    <3>6. x <= k => x < k \/ k = x
      BY <1>5, <2>3
    <3>7. QED
      BY <1>4, <2>3, <3>1, <3>2, <3>3, <3>4, <3>5, <3>6 DEF Asymmetric
  <2>5. i \in 1..(Len(w) + 1)
    BY <1>5, <2>3
  <2>6. ASSUME NEW k \in DOMAIN w
        PROVE  IF k < i THEN rows[w[k]].position < pos ELSE pos < rows[w[k]].position
    <3>1. w[k] \in others /\ k \in Nat /\ x \in Nat
      BY <1>5, <2>3
    <3>2. CASE side = "before"
      BY <1>3, <1>10, <2>3, <2>4, <3>1, <3>2
    <3>3. CASE side # "before"
      BY <1>3, <1>10, <2>3, <2>4, <3>1, <3>3
    <3>4. QED
      BY <3>2, <3>3
  <2>7. Listable' /\ UserLists' = [Ordered!Without(j) EXCEPT ![p] = InsertAt(w, i, j)]
    BY <1>8, <2>5, <2>6
  <2>8. \A offset \in {0, 1} : i = x + offset => Ordered!Beside(j, t, p, offset)
    BY <1>2, <1>7, <2>1, <2>2, <2>7
       DEF Ordered!Beside, Ordered!InsertAt, InsertAt, UserLists, w, x
  <2>9. i = x + 0 \/ i = x + 1
    BY <1>5, <2>3
  <2>10. QED
    BY <1>2, <2>7, <2>8, <2>9
<1>11. QED
  BY <1>9, <1>10

\* What a step of the store does to the lists.
LEMMA StepOrders ==
    ASSUME OrderInv, Rounding = FALSE, [QueueNext]_queueVars
    PROVE  OrderInv' /\ [Ordered!ListNext]_(Ordered!listVars)
<1>1. QueueTypeOK' /\ DistinctPositions'
  BY TypeInduction, DistinctInduction DEF OrderInv
<1>2. SUFFICES /\ Listable' /\ nextId' <= MaxJobs + 1
               /\ Ordered!ListNext \/ (UserLists' = UserLists /\ nextId' = nextId)
  BY <1>1 DEF OrderInv, Ordered!listVars, UserLists
<1>3. nextId \in Nat \ {0} /\ MaxJobs \in Nat /\ nextId <= MaxJobs + 1
  BY PendingQueueAssumption DEF OrderInv, QueueTypeOK
<1>4. \A i \in Pending : i \in DOMAIN rows /\ rows[i] \in Row /\ i \in Jobs
  <2>1. \A i \in DOMAIN rows : i \in 1..(nextId - 1) /\ rows[i] \in Row
    BY DEF OrderInv, QueueTypeOK
  <2>2. QED
    BY <1>3, <2>1 DEF Pending, Having, Jobs
<1>5. CASE Request
  <2>1. PICK path \in Paths, p \in Priorities : Enqueue(path, p)
    BY <1>5 DEF Request
  <2>2. QED
    BY <1>1, <2>1, JobArrives DEF Ordered!ListNext
<1>6. ASSUME NEW j \in Pending, MarkSubmitted(j) \/ MarkError(j)
      PROVE  Listable' /\ Ordered!ListNext /\ nextId' = nextId
  <2>1. DOMAIN rows' = DOMAIN rows /\ \A i \in DOMAIN rows \ {j} : rows'[i] = rows[i]
    BY <1>4, <1>6 DEF MarkSubmitted, MarkError
  <2>2. rows'[j].status # "pending" /\ nextId' = nextId
    BY <1>4, <1>6 DEF MarkSubmitted, MarkError, Row
  <2>3. Pending' = Pending \ {j} /\ \A b \in Pending' : Stands(b)
    BY <1>4, <2>1, <2>2 DEF Pending, Having, Stands
  <2>4. QED
    BY <1>1, <1>4, <2>2, <2>3, JobLeaves DEF Ordered!ListNext
<1>7. ASSUME NEW S, S \cap Pending = {}, DeleteRows(S), nextId' = nextId
      PROVE  Listable' /\ UserLists' = UserLists
  <2>1. Pending' = Pending /\ \A b \in Pending : Stands(b)
    BY <1>7 DEF DeleteRows, Pending, Having, Stands
  <2>2. QED
    BY <1>1, <2>1, NothingMoves
<1>8. Submitted \cap Pending = {}
  BY DEF Submitted, Pending, Having
<1>9. CASE Skip
  <2>1. PICK path \in Paths : ResolveSkipped(path)
    BY <1>9 DEF Skip
  <2>2. QED
    BY <1>3, <1>7, <1>8, <2>1 DEF ResolveSkipped
<1>10. CASE Orphan
  <2>1. PICK live \in SUBSET Paths : ResolveOrphaned(live)
    BY <1>10 DEF Orphan
  <2>2. QED
    BY <1>3, <1>7, <1>8, <2>1 DEF ResolveOrphaned, Orphaned
<1>11. CASE Delete
  <2>1. PICK j \in DOMAIN rows : DeleteRows({j}) /\ nextId' = nextId
    BY <1>11 DEF Delete, RemoveRow
  <2>2. CASE j \in Pending
    <3>1. Pending' = Pending \ {j} /\ \A b \in Pending' : Stands(b)
      BY <2>1 DEF DeleteRows, Pending, Having, Stands
    <3>2. QED
      BY <1>1, <1>3, <1>4, <2>1, <2>2, <3>1, JobLeaves DEF Ordered!ListNext
  <2>3. CASE j \notin Pending
    BY <1>3, <1>7, <2>1, <2>3
  <2>4. QED
    BY <2>2, <2>3
<1>12. CASE Wipe
  <2>1. PICK statuses \in {Statuses} \cup {{s} : s \in Statuses} : Clear(statuses)
    BY <1>12 DEF Wipe
  <2>2. CASE "pending" \in statuses
    <3>1. Pending' = {} /\ nextId' = nextId
      BY <2>1, <2>2 DEF Clear, DeleteRows, Pending, Having
    <3>2. QED
      BY <1>1, <1>3, <3>1, AllLeave DEF Ordered!ListNext
  <2>3. CASE "pending" \notin statuses
    <3>1. {j \in DOMAIN rows : rows[j].status \in statuses} \cap Pending = {}
      BY <2>3 DEF Pending, Having
    <3>2. QED
      BY <1>3, <1>7, <2>1, <3>1 DEF Clear
  <2>4. QED
    BY <2>2, <2>3
<1>13. CASE Reorder
  <2>1. PICK j \in Pending :
          \/ Promote(j)
          \/ Demote(j)
          \/ MoveUp(j)
          \/ MoveDown(j)
          \/ \E t \in DOMAIN rows, side \in {"before", "after"} : Move(j, t, side)
    BY <1>13 DEF Reorder
  <2>2. j \in Jobs
    BY <1>4
  <2>3. CASE Promote(j) \/ Demote(j)
    <3>1. nextId' = nextId
      BY <2>3 DEF Promote, Demote, Reposition, Place
    <3>2. QED
      BY <1>1, <1>3, <2>2, <2>3, <3>1, RepositionOrders DEF Promote, Demote, Ordered!ListNext
  <2>4. ASSUME NEW t \in DOMAIN rows, NEW side, Move(j, t, side)
        PROVE  Listable' /\ nextId' = nextId /\ Ordered!ListNext
    <3>1. nextId' = nextId
      BY <2>4 DEF Move, Place
    <3>2. t \in Jobs
      BY <1>3 DEF OrderInv, QueueTypeOK, Jobs
    <3>3. QED
      BY <1>1, <2>2, <2>4, <3>1, <3>2, MoveOrders DEF Ordered!ListNext
  <2>5. CASE MoveUp(j) \/ MoveDown(j)
    BY <1>3, <1>4, <2>4, <2>5 DEF MoveUp, MoveDown
  <2>6. QED
    BY <1>3, <2>1, <2>3, <2>4, <2>5
<1>14. CASE QueueTick \/ UNCHANGED queueVars
  <2>1. /\ DOMAIN rows' = DOMAIN rows /\ nextId' = nextId
        /\ \A i \in DOMAIN rows : /\ rows'[i].status = rows[i].status
                                  /\ rows'[i].priority = rows[i].priority
                                  /\ rows'[i].position = rows[i].position
    BY <1>14 DEF QueueTick, AgedRows, queueVars, OrderInv, QueueTypeOK, Row
  <2>2. Pending' = Pending /\ \A b \in Pending : Stands(b)
    BY <2>1 DEF Pending, Having, Stands
  <2>3. QED
    BY <1>1, <1>3, <2>1, <2>2, NothingMoves
<1>15. QED
  BY <1>3, <1>5, <1>6, <1>9, <1>10, <1>11, <1>12, <1>13, <1>14
     DEF QueueNext, Submit, Fail

\* While midpoints are exact, the numeric sort keys implement ordered lists:
\* every method of the store is one operation on the lists or none, and moves
\* no other job, for any files, buckets and bounds.
THEOREM SortKeysImplementLists ==
    ASSUME Rounding = FALSE
    PROVE  QueueSpec => ImplementsOrderedQueue
<1>1. QueueInit => OrderInv /\ Ordered!ListInit
  <2> SUFFICES ASSUME QueueInit PROVE OrderInv /\ Ordered!ListInit
    OBVIOUS
  <2>1. QueueTypeOK /\ Pending = {} /\ DistinctPositions /\ nextId <= MaxJobs + 1
    BY PendingQueueAssumption DEF QueueInit, QueueTypeOK, Pending, Having, DistinctPositions
  <2>2. \A p \in Priorities : Lists(<<>>, Bucket(p), Order)
    BY <2>1 DEF Lists, Sorted, Bucket
  <2>3. \A p \in Priorities : ListOf(p) = <<>>
    BY <2>1, <2>2, ListIsListOf
  <2>4. 1..(nextId - 1) = {}
    BY DEF QueueInit
  <2>5. QED
    BY <2>1, <2>2, <2>3, <2>4 DEF OrderInv, Listable, Ordered!ListInit
<1>2. OrderInv /\ [QueueNext]_queueVars => OrderInv' /\ [Ordered!ListNext]_(Ordered!listVars)
  BY StepOrders
<1>3. QED
  BY <1>1, <1>2, PTL DEF QueueSpec, ImplementsOrderedQueue, Ordered!ListSpec

=============================================================================
