------------------------- MODULE QueueFeeder_proofs -------------------------
(***************************************************************************)
(* Proofs about the feeder, for any paths, graces, faults and bounds: it   *)
(* uses the pending queue only as the queue's own specification allows, so *)
(* what is proved of the queue holds of the composed system; it never has  *)
(* one file twice at subgen, loses no waiting row, and keeps to the depth. *)
(***************************************************************************)
EXTENDS MCQueueFeeder, PendingQueue_proofs, FiniteSetTheorems

\* The row being submitted is still pending, or the user deleted it: no other
\* actor changes its status across the await.
HeldRow ==
    IF pc = "submitting"
    THEN /\ held < nextId
         /\ held \in DOMAIN rows => held \in Pending
         /\ heldPath \in Paths
    ELSE held = 0

IInv == TypeOK /\ HeldRow

\* Every step of the composed system is a step of the queue or none.
LEMMA StepRefines ==
    ASSUME IInv, [Next]_vars
    PROVE  [QueueNext]_queueVars
<1>1. CASE FillStarts
  <2>1. seen.paths \in SUBSET Paths
    BY DEF IInv, TypeOK
  <2>2. QED
    BY <1>1, <2>1 DEF FillStarts, QueueNext, Orphan
<1>2. CASE Adopt
  BY <1>2 DEF Adopt, QueueNext, Submit
<1>3. CASE SubmitReturns
  <2>1. CASE held \in DOMAIN rows
    BY <1>3, <2>1 DEF SubmitReturns, IInv, HeldRow, QueueNext, Submit
  <2>2. CASE held \notin DOMAIN rows
    BY <1>3, <2>2 DEF SubmitReturns, MarkSubmitted, queueVars
  <2>3. QED
    BY <2>1, <2>2
<1>4. CASE SubmitRaises
  <2>1. CASE held \in DOMAIN rows
    BY <1>4, <2>1 DEF SubmitRaises, IInv, HeldRow, QueueNext, Fail
  <2>2. CASE held \notin DOMAIN rows
    BY <1>4, <2>2 DEF SubmitRaises, MarkError, queueVars
  <2>3. QED
    BY <2>1, <2>2
<1>5. ASSUME NEW q \in posts, Skipped(q)
      PROVE  [QueueNext]_queueVars
  <2>1. q.path \in Paths
    BY DEF IInv, TypeOK, Post
  <2>2. QED
    BY <1>5, <2>1 DEF Skipped, QueueNext, Skip
<1>6. CASE Produce
  BY <1>6 DEF Produce, QueueNext, Request
<1>7. CASE UserRemoves
  BY <1>7 DEF UserRemoves, QueueNext, Delete
<1>8. CASE Clock
  BY <1>8 DEF Clock, QueueNext
<1>9. ASSUME NEW q \in posts, Surface(q) \/ PostLost(q)
      PROVE  UNCHANGED queueVars
  BY <1>9 DEF Surface, PostLost
<1>10. CASE TickStarts \/ QueueAnswered \/ Pick \/ TickEnds
  BY <1>10 DEF TickStarts, QueueAnswered, Pick, TickEnds
<1>11. CASE QueueUnreadable \/ Finish \/ ForeignRequest \/ SubgenRestarts \/ SetControl
  BY <1>11 DEF QueueUnreadable, Finish, ForeignRequest, SubgenRestarts, SetControl
<1>12. CASE SubarrRestarts
  BY <1>12 DEF SubarrRestarts
<1>13. CASE UNCHANGED vars
  BY <1>13 DEF vars
<1>14. QED
  BY <1>1, <1>2, <1>3, <1>4, <1>5, <1>6, <1>7, <1>8, <1>9, <1>10, <1>11, <1>12, <1>13
     DEF Next, TickStep, PostResolves

LEMMA StepHeld ==
    ASSUME IInv, [Next]_vars
    PROVE  HeldRow'
<1>1. /\ nextId \in Nat \ {0}
      /\ held \in Nat
      /\ \A j \in DOMAIN rows : j \in 1..(nextId - 1) /\ rows[j] \in Row
  BY DEF IInv, TypeOK, QueueTypeOK
<1>2. ASSUME pc' # "submitting", held' = 0
      PROVE  HeldRow'
  BY <1>2 DEF HeldRow
<1>3. ASSUME UNCHANGED <<pc, held, heldPath>>, nextId' \in Nat, nextId <= nextId',
             \A j \in DOMAIN rows' :
                j < nextId => j \in DOMAIN rows /\ rows'[j].status = rows[j].status
      PROVE  HeldRow'
  BY <1>1, <1>3 DEF IInv, HeldRow, Pending, Having
<1>4. CASE Pick
  BY <1>1, <1>4 DEF Pick, HeldRow, queueVars, Pending, Having, Row
<1>5. CASE TickStarts \/ QueueAnswered \/ FillStarts \/ Adopt
  BY <1>2, <1>5 DEF TickStarts, QueueAnswered, FillStarts, Adopt, tickVars, IInv, HeldRow
<1>6. CASE SubmitReturns \/ SubmitRaises
  BY <1>2, <1>6 DEF SubmitReturns, SubmitRaises
<1>7. CASE TickEnds \/ QueueUnreadable \/ SubarrRestarts
  BY <1>2, <1>7 DEF TickEnds, QueueUnreadable, SubarrRestarts, IdleTick
<1>8. ASSUME NEW q \in posts, Skipped(q)
      PROVE  HeldRow'
  BY <1>1, <1>3, <1>8 DEF Skipped, ResolveSkipped, DeleteRows, tickVars
<1>9. CASE UserRemoves
  BY <1>1, <1>3, <1>9 DEF UserRemoves, RemoveRow, DeleteRows, feederVars, tickVars
<1>10. CASE Produce
  <2>1. /\ nextId' = nextId + 1
        /\ DOMAIN rows' = DOMAIN rows \cup {nextId}
        /\ \A j \in DOMAIN rows : j # nextId => rows'[j] = rows[j]
    BY <1>10 DEF Produce, Enqueue, Insert
  <2>2. UNCHANGED <<pc, held, heldPath>>
    BY <1>10 DEF Produce, feederVars, tickVars
  <2>3. QED
    BY <1>1, <1>3, <2>1, <2>2
<1>11. CASE Clock
  <2>1. DOMAIN rows' = DOMAIN rows /\ nextId' = nextId
    BY <1>11 DEF Clock, QueueTick, AgedRows
  <2>2. \A j \in DOMAIN rows : rows'[j].status = rows[j].status
    BY <1>1, <1>11 DEF Clock, QueueTick, AgedRows, Row
  <2>3. UNCHANGED <<pc, held, heldPath>>
    BY <1>11 DEF Clock
  <2>4. QED
    BY <1>1, <1>3, <2>1, <2>2, <2>3
<1>12. ASSUME UNCHANGED <<queueVars, pc, tickVars>>
       PROVE  HeldRow'
  BY <1>12 DEF IInv, HeldRow, queueVars, tickVars, Pending, Having
<1>13. ASSUME NEW q \in posts, Surface(q) \/ PostLost(q)
       PROVE  HeldRow'
  BY <1>12, <1>13 DEF Surface, PostLost
<1>14. CASE Finish \/ ForeignRequest \/ SubgenRestarts \/ SetControl
  BY <1>12, <1>14 DEF Finish, ForeignRequest, SubgenRestarts, SetControl
<1>15. CASE UNCHANGED vars
  BY <1>12, <1>15 DEF vars, feederVars
<1>16. QED
  BY <1>4, <1>5, <1>6, <1>7, <1>8, <1>9, <1>10, <1>11, <1>13, <1>14, <1>15
     DEF Next, TickStep, PostResolves

\* Feeder-side type correctness, apart from the table's.
FeederTypeOK ==
    /\ rules \in [paused: BOOLEAN, target: 0..MaxTarget]
    /\ pc \in {"idle", "reading", "answered", "filling", "submitting"}
    /\ seen \in [paths: SUBSET Paths, count: Nat, processing: Nat]
    /\ depth \in Nat
    /\ target \in 0..MaxTarget
    /\ held \in Nat
    /\ heldPath \in Paths \cup {NoPath}
    /\ tickAge \in 0..TickSpan
    /\ DOMAIN inflight \subseteq Paths
    /\ inflight \in [DOMAIN inflight -> Nat]
    /\ posts \subseteq Post
    /\ DOMAIN listed \subseteq Paths
    /\ listed \in [DOMAIN listed -> BOOLEAN]
    /\ faults \in 0..MaxFaults

\* A post changed in one field is still a post.
LEMMA PostChanged ==
    ASSUME NEW q \in Post
    PROVE  /\ [q EXCEPT !.watched = FALSE] \in Post
           /\ q.age < SurfaceLag => [q EXCEPT !.age = @ + 1] \in Post
<1>1. [q EXCEPT !.watched = FALSE] \in Post
  BY DEF Post
<1>2. ASSUME q.age < SurfaceLag
      PROVE  [q EXCEPT !.age = @ + 1] \in Post
  <2>1. SurfaceLag \in Nat
    BY QueueFeederAssumption
  <2>2. q.age \in 0..SurfaceLag
    BY DEF Post
  <2>3. q.age + 1 \in 0..SurfaceLag
    BY <1>2, <2>1, <2>2
  <2>4. QED
    BY <2>3 DEF Post
<1>3. QED
  BY <1>1, <1>2

LEMMA StepTyped ==
    ASSUME IInv, [Next]_vars
    PROVE  FeederTypeOK'
<1> USE PendingQueueAssumption, QueueFeederAssumption
<1>1. FeederTypeOK
  BY DEF IInv, TypeOK, FeederTypeOK
<1>2. \A S \in SUBSET Paths : Cardinality(S) \in Nat
  BY FS_Subset, FS_CardinalityType
<1>3. \A j \in Pending : j \in Nat /\ rows[j].path \in Paths
  BY DEF IInv, TypeOK, QueueTypeOK, Pending, Having, Row
<1>4. CASE IdleTick /\ UNCHANGED <<rules, inflight, listed, faults>> /\ posts' \subseteq Post
  BY <1>1, <1>4 DEF IdleTick, NothingSeen, FeederTypeOK
<1>5. ASSUME UNCHANGED <<rules, pc, tickVars, inflight, listed>>, posts' \subseteq Post,
             faults' \in 0..MaxFaults
      PROVE  FeederTypeOK'
  BY <1>1, <1>5 DEF FeederTypeOK, tickVars
<1>6. \A kind : Fault(kind) => faults' \in 0..MaxFaults
  BY <1>1 DEF Fault, FeederTypeOK
<1>7. CASE TickStarts
  BY <1>1, <1>7 DEF TickStarts, FeederTypeOK, tickVars, subgenVars
<1>8. CASE QueueAnswered
  <2>1. Cardinality(DOMAIN listed) \in Nat
    BY <1>1, <1>2 DEF FeederTypeOK
  <2>2. seen' \in [paths: SUBSET Paths, count: Nat, processing: Nat]
    BY <1>1, <1>8, <2>1 DEF QueueAnswered, FeederTypeOK
  <2>3. QED
    BY <1>1, <1>8, <2>2 DEF QueueAnswered, FeederTypeOK, subgenVars
<1>9. CASE FillStarts
  <2>1. StillReserved \in SUBSET Paths
    BY <1>1 DEF StillReserved, FeederTypeOK
  <2>2. seen.count + Cardinality(StillReserved) \in Nat
    BY <1>1, <1>2, <2>1 DEF FeederTypeOK
  <2>3. /\ DOMAIN inflight' = StillReserved
        /\ \A p \in StillReserved : inflight'[p] \in Nat
        /\ inflight' \in [DOMAIN inflight' -> Nat]
    BY <1>1, <1>9 DEF FillStarts, StillReserved, FeederTypeOK
  <2>4. QED
    BY <1>1, <1>9, <2>1, <2>2, <2>3 DEF FillStarts, FeederTypeOK, subgenVars
<1>10. CASE Adopt
  <2>1. PICK j \in Pending :
          /\ inflight' = Drop(inflight, {rows[j].path})
          /\ seen' = [seen EXCEPT !.paths = @ \ {rows[j].path}]
    BY <1>10 DEF Adopt
  <2>2. DOMAIN inflight' \subseteq Paths /\ inflight' \in [DOMAIN inflight' -> Nat]
    BY <1>1, <2>1 DEF Drop, FeederTypeOK
  <2>3. seen' \in [paths: SUBSET Paths, count: Nat, processing: Nat]
    BY <1>1, <2>1 DEF FeederTypeOK
  <2>4. /\ depth' = depth + 1
        /\ UNCHANGED <<rules, pc, target, held, heldPath, tickAge, posts, listed, faults>>
    BY <1>10 DEF Adopt, subgenVars
  <2>5. QED
    BY <1>1, <2>2, <2>3, <2>4 DEF FeederTypeOK
<1>11. CASE Pick
  BY <1>1, <1>3, <1>11 DEF Pick, FeederTypeOK, subgenVars
<1>12. CASE SubmitReturns
  <2>1. heldPath \in Paths
    BY <1>12 DEF SubmitReturns, IInv, HeldRow
  <2>2. DOMAIN inflight' \subseteq Paths /\ inflight' \in [DOMAIN inflight' -> Nat]
    BY <1>1, <1>12, <2>1 DEF SubmitReturns, Set, FeederTypeOK
  <2>3. [job |-> held, path |-> heldPath, age |-> 0, watched |-> TRUE] \in Post
    BY <1>1, <2>1 DEF Post, FeederTypeOK
  <2>4. posts' \subseteq Post
    BY <1>1, <1>12, <2>3 DEF SubmitReturns, FeederTypeOK
  <2>5. QED
    BY <1>1, <1>12, <2>2, <2>4 DEF SubmitReturns, FeederTypeOK
<1>13. CASE SubmitRaises
  BY <1>1, <1>13 DEF SubmitRaises, FeederTypeOK, subgenVars
<1>14. CASE TickEnds \/ QueueUnreadable
  BY <1>1, <1>4, <1>14 DEF TickEnds, QueueUnreadable, subgenVars, FeederTypeOK
<1>15. CASE SubarrRestarts
  <2>1. DOMAIN inflight' \subseteq Paths /\ inflight' \in [DOMAIN inflight' -> Nat]
    BY <1>15 DEF SubarrRestarts, Empty
  <2>2. \A q \in posts : [q EXCEPT !.watched = FALSE] \in Post
    BY <1>1, PostChanged DEF FeederTypeOK
  <2>3. posts' \subseteq Post
    BY <1>15, <2>2 DEF SubarrRestarts
  <2>4. QED
    BY <1>1, <1>6, <1>15, <2>1, <2>3 DEF SubarrRestarts, IdleTick, NothingSeen, FeederTypeOK
<1>16. ASSUME NEW q \in posts, Surface(q)
       PROVE  FeederTypeOK'
  <2>1. q.path \in Paths
    BY <1>1 DEF FeederTypeOK, Post
  <2>2. DOMAIN listed' \subseteq Paths /\ listed' \in [DOMAIN listed' -> BOOLEAN]
    BY <1>1, <1>16, <2>1 DEF Surface, Set, FeederTypeOK
  <2>3. QED
    BY <1>1, <1>16, <2>2 DEF Surface, FeederTypeOK, tickVars
<1>17. ASSUME NEW q \in posts, Skipped(q)
       PROVE  FeederTypeOK'
  <2>1. DOMAIN inflight' \subseteq Paths /\ inflight' \in [DOMAIN inflight' -> Nat]
    BY <1>1, <1>17 DEF Skipped, Drop, FeederTypeOK
  <2>2. QED
    BY <1>1, <1>17, <2>1 DEF Skipped, FeederTypeOK, tickVars
<1>18. ASSUME NEW q \in posts, PostLost(q)
       PROVE  FeederTypeOK'
  BY <1>1, <1>5, <1>18 DEF PostLost, FeederTypeOK
<1>19. CASE Finish
  <2>1. DOMAIN listed' \subseteq Paths /\ listed' \in [DOMAIN listed' -> BOOLEAN]
    BY <1>1, <1>19 DEF Finish, Drop, FeederTypeOK
  <2>2. QED
    BY <1>1, <1>19, <2>1 DEF Finish, FeederTypeOK, tickVars
<1>20. CASE ForeignRequest
  <2>1. DOMAIN listed' \subseteq Paths /\ listed' \in [DOMAIN listed' -> BOOLEAN]
    BY <1>1, <1>20 DEF ForeignRequest, Set, FeederTypeOK
  <2>2. QED
    BY <1>1, <1>6, <1>20, <2>1 DEF ForeignRequest, FeederTypeOK, tickVars
<1>21. CASE SubgenRestarts
  <2>1. DOMAIN listed' \subseteq Paths /\ listed' \in [DOMAIN listed' -> BOOLEAN]
    BY <1>21 DEF SubgenRestarts, Empty
  <2>2. QED
    BY <1>1, <1>6, <1>21, <2>1 DEF SubgenRestarts, FeederTypeOK, tickVars
<1>22. CASE Produce \/ UserRemoves
  BY <1>1, <1>5, <1>22 DEF Produce, UserRemoves, feederVars, subgenVars, FeederTypeOK
<1>23. CASE SetControl
  BY <1>1, <1>6, <1>23 DEF SetControl, FeederTypeOK, tickVars, subgenVars
<1>24. CASE Clock
  <2>1. tickAge' \in 0..TickSpan
    BY <1>1, <1>24 DEF Clock, UnderWay, FeederTypeOK
  <2>2. \A age \in Nat : Older(age, InflightGrace) \in Nat
    BY DEF Older
  <2>3. DOMAIN inflight' \subseteq Paths /\ inflight' \in [DOMAIN inflight' -> Nat]
    BY <1>1, <1>24, <2>2 DEF Clock, FeederTypeOK
  <2>4. \A q \in posts : [q EXCEPT !.age = @ + 1] \in Post
    BY <1>1, <1>24, PostChanged DEF Clock, FeederTypeOK
  <2>5. QED
    BY <1>1, <1>24, <2>1, <2>3, <2>4 DEF Clock, FeederTypeOK
<1>25. CASE UNCHANGED vars
  BY <1>1, <1>5, <1>25 DEF vars, feederVars, subgenVars, FeederTypeOK
<1>26. QED
  BY <1>7, <1>8, <1>9, <1>10, <1>11, <1>12, <1>13, <1>14, <1>15, <1>16, <1>17, <1>18,
     <1>19, <1>20, <1>21, <1>22, <1>23, <1>24, <1>25
     DEF Next, TickStep, PostResolves

LEMMA Induction ==
    ASSUME IInv, [Next]_vars
    PROVE  IInv'
<1>1. QueueTypeOK /\ [QueueNext]_queueVars
  BY StepRefines DEF IInv, TypeOK
<1>2. QueueTypeOK'
  BY <1>1, TypeInduction
<1>3. QED
  BY <1>2, StepTyped, StepHeld DEF IInv, TypeOK, FeederTypeOK

LEMMA Initially == Init => IInv
<1> SUFFICES ASSUME Init PROVE IInv
  OBVIOUS
<1>1. QueueTypeOK
  BY DEF Init, QueueInit, QueueTypeOK
<1>2. rules \in [paused: BOOLEAN, target: 0..MaxTarget]
  BY QueueFeederAssumption DEF Init
<1>3. seen \in [paths: SUBSET Paths, count: Nat, processing: Nat]
  BY DEF Init, NothingSeen
<1>4. /\ DOMAIN inflight \subseteq Paths /\ inflight \in [DOMAIN inflight -> Nat]
      /\ DOMAIN listed \subseteq Paths /\ listed \in [DOMAIN listed -> BOOLEAN]
  BY DEF Init, Empty
<1>5. TypeOK
  BY <1>1, <1>2, <1>3, <1>4, QueueFeederAssumption DEF Init, TypeOK
<1>6. QED
  BY <1>5 DEF Init, IInv, HeldRow

\* Every reachable state of the feeder, the table and subgen is well formed.
THEOREM FeederTypeCorrect == Spec => []TypeOK
<1>1. IInv => TypeOK
  BY DEF IInv
<1>2. QED
  BY <1>1, Initially, Induction, PTL DEF Spec

\* The feeder, the scan outcomes, the user and restarts together use the
\* pending queue only as its own specification says: although mark_submitted
\* and set_status are unconditional UPDATEs by id, issued after an await, they
\* only ever hit a row that is still pending, or no row.
THEOREM FeederImplementsQueue == Spec => QueueSpec
<1>1. Init => QueueInit
  BY DEF Init
<1>2. QED
  BY <1>1, Initially, Induction, StepRefines, PTL DEF Spec, QueueSpec

\* Deduplication therefore holds of the composed system, restarts included.
THEOREM FeederDeduplicates == Spec => []OneActiveRowPerPath
  BY FeederImplementsQueue, Deduplication, PTL

-----------------------------------------------------------------------------
(* Never double-queue. What the feeder has at subgen, or is about to have,  *)
(* has a row that deduplicates: while the user deletes only waiting rows,   *)
(* no actor takes that row away before subgen is done with the file. The    *)
(* orphan sweep spares it because its grace is longer than subgen takes to  *)
(* list a submission and an answer of subgen takes to be used.              *)

UserKeepsHanded == "remove_held" \notin Faults /\ "remove_submitted" \notin Faults

\* A step in which the user deletes neither the row being submitted nor one
\* already handed over.
SparesHanded ==
    UserRemoves => \E j \in DOMAIN rows \ ({held} \cup Submitted) :
                     RemoveRow(j) /\ UNCHANGED feederVars

LEMMA UserSpares ==
    ASSUME UserKeepsHanded
    PROVE  SparesHanded
  BY DEF UserKeepsHanded, SparesHanded, UserRemoves, Removable

GraceSpansAnswer == OrphanGrace > SurfaceLag + TickSpan

\* The row being submitted waits, with the path that was read.
HeldPending == pc = "submitting" => held \in Pending /\ rows[held].path = heldPath

\* A submission on its way has its row, which is no older than it is.
PostsBacked ==
    \A q \in posts : \E j \in Submitted : rows[j].path = q.path /\ rows[j].age <= q.age

\* subarr's work at subgen has its row; what a tick in progress has not seen
\* there came after subgen's answer.
NotSeen(p) == pc = "answered" /\ p \notin seen.paths

ListedBacked ==
    \A p \in OwnListed : \E j \in Submitted :
        rows[j].path = p /\ (NotSeen(p) => rows[j].age <= SurfaceLag + tickAge)

QueuedOnceInv ==
    /\ IInv
    /\ OneActiveRowPerPath
    /\ NoDoubleQueue
    /\ HeldPending
    /\ PostsBacked
    /\ ListedBacked

\* A row that a step leaves as it is, but for its place in the list.
Kept(j) ==
    /\ j \in DOMAIN rows'
    /\ rows'[j].path = rows[j].path
    /\ rows'[j].status = rows[j].status
    /\ rows'[j].age = rows[j].age

\* Facts about the types that the steps use.
LEMMA RowFacts ==
    ASSUME IInv
    PROVE  /\ nextId \notin DOMAIN rows
           /\ \A j \in DOMAIN rows : /\ rows[j] \in Row /\ j \in Nat /\ j # 0
                                     /\ rows[j].path \in Paths /\ rows[j].age \in Nat
           /\ \A q \in posts : q \in Post /\ q.path \in Paths /\ q.age \in 0..SurfaceLag
           /\ Pending \subseteq DOMAIN rows /\ Submitted \subseteq DOMAIN rows
           /\ Pending \cap Submitted = {}
           /\ tickAge \in 0..TickSpan
           /\ SurfaceLag \in Nat /\ TickSpan \in Nat /\ OrphanGrace \in Nat
<1>1. /\ nextId \in Nat \ {0} /\ DOMAIN rows \subseteq 1..(nextId - 1)
      /\ \A j \in DOMAIN rows : rows[j] \in Row
  BY DEF IInv, TypeOK, QueueTypeOK
<1>2. \A j \in DOMAIN rows : rows[j].path \in Paths /\ rows[j].age \in Nat
  BY <1>1, PendingQueueAssumption DEF Row
<1>3. nextId \notin DOMAIN rows /\ \A j \in DOMAIN rows : j \in Nat /\ j # 0
  BY <1>1
<1>4. \A q \in posts : q \in Post /\ q.path \in Paths /\ q.age \in 0..SurfaceLag
  BY DEF IInv, TypeOK, Post
<1>5. Pending \subseteq DOMAIN rows /\ Submitted \subseteq DOMAIN rows
      /\ Pending \cap Submitted = {}
  BY DEF Pending, Submitted, Having
<1>6. tickAge \in 0..TickSpan
  BY DEF IInv, TypeOK
<1>7. QED
  BY <1>1, <1>2, <1>3, <1>4, <1>5, <1>6, PendingQueueAssumption, QueueFeederAssumption

\* A step that starts nothing at subgen and spares the rows of what is there.
LEMMA SparingKeepsBacked ==
    ASSUME QueuedOnceInv,
           posts' \subseteq posts,
           OwnListed' \subseteq OwnListed,
           \A j \in Submitted :
              \/ \E q \in posts' : rows[j].path = q.path /\ rows[j].age <= q.age
              \/ /\ rows[j].path \in OwnListed'
                 /\ NotSeen(rows[j].path) => rows[j].age <= SurfaceLag + tickAge
              => Kept(j),
           pc' = "answered" => UNCHANGED <<pc, seen, tickAge>>
    PROVE  NoDoubleQueue' /\ PostsBacked' /\ ListedBacked'
<1>1. NoDoubleQueue /\ PostsBacked /\ ListedBacked
  BY DEF QueuedOnceInv
<1>2. \A j \in Submitted : Kept(j) => j \in Submitted'
  BY DEF Submitted, Having, Kept
<1>3. NoDoubleQueue'
  BY <1>1 DEF NoDoubleQueue
<1>4. PostsBacked'
  <2> SUFFICES ASSUME NEW q \in posts'
               PROVE  \E j \in Submitted' : rows'[j].path = q.path /\ rows'[j].age <= q.age
    BY DEF PostsBacked
  <2>1. PICK j \in Submitted : rows[j].path = q.path /\ rows[j].age <= q.age
    BY <1>1 DEF PostsBacked
  <2>2. Kept(j)
    BY <2>1
  <2>3. QED
    BY <1>2, <2>1, <2>2 DEF Kept
<1>5. ListedBacked'
  <2> SUFFICES ASSUME NEW p \in OwnListed'
               PROVE  \E j \in Submitted' :
                        /\ rows'[j].path = p
                        /\ NotSeen(p)' => rows'[j].age <= SurfaceLag + tickAge'
    BY DEF ListedBacked
  <2>1. PICK j \in Submitted : /\ rows[j].path = p
                               /\ NotSeen(p) => rows[j].age <= SurfaceLag + tickAge
    BY <1>1 DEF ListedBacked
  <2>2. Kept(j)
    BY <2>1
  <2>3. NotSeen(p)' => NotSeen(p) /\ tickAge' = tickAge
    BY DEF NotSeen
  <2>4. QED
    BY <1>2, <2>1, <2>2, <2>3 DEF Kept
<1>6. QED
  BY <1>3, <1>4, <1>5

\* mark_submitted and set_status touch the one row, which waited.
LEMMA MarkTouchesOne ==
    ASSUME IInv, NEW j \in Pending, MarkSubmitted(j) \/ MarkError(j)
    PROVE  /\ \A i \in DOMAIN rows : i # j => Kept(i)
           /\ MarkSubmitted(j) => j \in Submitted' /\ rows'[j].path = rows[j].path /\ rows'[j].age = 0
<1>1. j \in DOMAIN rows /\ \A i \in DOMAIN rows : rows[i] \in Row
  BY RowFacts
<1>2. DOMAIN rows' = DOMAIN rows /\ \A i \in DOMAIN rows : i # j => rows'[i] = rows[i]
  BY <1>1 DEF MarkSubmitted, MarkError
<1>3. ASSUME MarkSubmitted(j)
      PROVE  j \in Submitted' /\ rows'[j].path = rows[j].path /\ rows'[j].age = 0
  <2>1. rows' = [rows EXCEPT ![j].status = "submitted", ![j].age = 0]
    BY <1>1, <1>3 DEF MarkSubmitted
  <2>2. rows'[j] = [rows[j] EXCEPT !.status = "submitted", !.age = 0]
    BY <1>1, <2>1
  <2>3. rows'[j].status = "submitted" /\ rows'[j].path = rows[j].path /\ rows'[j].age = 0
    BY <1>1, <2>2 DEF Row
  <2>4. QED
    BY <1>1, <1>2, <2>3 DEF Submitted, Having
<1>4. QED
  BY <1>2, <1>3 DEF Kept

\* An insert changes no row, an age passes over rows that wait.
LEMMA ProduceKeeps ==
    ASSUME IInv, Produce
    PROVE  \A i \in DOMAIN rows : Kept(i)
<1>1. /\ DOMAIN rows' = DOMAIN rows \cup {nextId}
      /\ \A j \in DOMAIN rows : j # nextId => rows'[j] = rows[j]
  BY DEF Produce, Enqueue, Insert
<1>2. QED
  BY <1>1, RowFacts DEF Kept

LEMMA ClockAges ==
    ASSUME IInv, QueueTick
    PROVE  /\ \A i \in Pending : Kept(i)
           /\ \A i \in Submitted : /\ i \in Submitted' /\ rows'[i].path = rows[i].path
                                  /\ rows'[i].age <= rows[i].age + 1
<1>1. /\ DOMAIN rows' = DOMAIN rows
      /\ \A i \in DOMAIN rows : rows'[i] = IF i \in Submitted
                                         THEN [rows[i] EXCEPT !.age = Older(@, OrphanGrace)]
                                         ELSE rows[i]
  BY DEF QueueTick, AgedRows
<1>2. \A i \in Pending : Kept(i)
  BY <1>1, RowFacts DEF Kept
<1>3. ASSUME NEW i \in Submitted
      PROVE  /\ i \in Submitted' /\ rows'[i].path = rows[i].path
             /\ rows'[i].age <= rows[i].age + 1
  <2>1. i \in DOMAIN rows /\ rows[i] \in Row /\ rows[i].status = "submitted"
    BY RowFacts DEF Submitted, Having
  <2>2. rows'[i] = [rows[i] EXCEPT !.age = Older(rows[i].age, OrphanGrace)]
    BY <1>1, <1>3, <2>1
  <2>3. /\ rows'[i].status = "submitted" /\ rows'[i].path = rows[i].path
        /\ rows'[i].age = Older(rows[i].age, OrphanGrace)
    BY <2>1, <2>2 DEF Row
  <2>4. rows[i].age \in 0..OrphanGrace /\ OrphanGrace \in Nat
    BY <2>1, PendingQueueAssumption DEF Row
  <2>5. Older(rows[i].age, OrphanGrace) <= rows[i].age + 1
    BY <2>4 DEF Older
  <2>6. QED
    BY <1>1, <2>1, <2>3, <2>5 DEF Submitted, Having
<1>4. QED
  BY <1>2, <1>3

\* Nobody takes the row that is being submitted off the pending list.
LEMMA StepHeldPending ==
    ASSUME QueuedOnceInv, [Next]_vars, SparesHanded
    PROVE  HeldPending'
<1> USE DEF QueuedOnceInv
<1>1. ASSUME UNCHANGED <<pc, held, heldPath>>, pc = "submitting" => Kept(held)
      PROVE  HeldPending'
  BY <1>1 DEF HeldPending, Kept, Pending, Having
<1>2. pc = "submitting" => held \in Pending /\ held \in DOMAIN rows /\ held \notin Submitted
  BY RowFacts DEF HeldPending
<1>3. ASSUME UNCHANGED <<rows, pc, held, heldPath>> PROVE HeldPending'
  BY <1>1, <1>2, <1>3 DEF Kept
<1>4. ASSUME pc' # "submitting" PROVE HeldPending'
  BY <1>4 DEF HeldPending
<1>5. CASE Pick
  <2>1. rows' = rows /\ \E j \in Pending : held' = j /\ heldPath' = rows[j].path
    BY <1>5 DEF Pick, queueVars
  <2>2. Pending' = Pending
    BY <2>1 DEF Pending, Having
  <2>3. QED
    BY <2>1, <2>2 DEF HeldPending
<1>6. CASE TickStarts \/ QueueAnswered \/ FillStarts \/ SubmitReturns \/ SubmitRaises
  BY <1>4, <1>6 DEF TickStarts, QueueAnswered, FillStarts, SubmitReturns, SubmitRaises
<1>7. CASE Adopt
  BY <1>4, <1>7 DEF Adopt
<1>8. CASE TickEnds \/ QueueUnreadable \/ SubarrRestarts
  BY <1>4, <1>8 DEF TickEnds, QueueUnreadable, SubarrRestarts, IdleTick
<1>9. ASSUME NEW q \in posts, Skipped(q) PROVE HeldPending'
  <2>1. \A i \in DOMAIN rows : i \notin Submitted => Kept(i)
    BY <1>9 DEF Skipped, ResolveSkipped, DeleteRows, Kept
  <2>2. QED
    BY <1>1, <1>2, <1>9, <2>1 DEF Skipped, tickVars
<1>10. CASE UserRemoves
  <2>1. PICK j \in DOMAIN rows \ ({held} \cup Submitted) : RemoveRow(j)
    BY <1>10 DEF SparesHanded
  <2>2. j # held
    BY <2>1
  <2>3. \A i \in DOMAIN rows : i # j => Kept(i)
    BY <2>1 DEF RemoveRow, DeleteRows, Kept
  <2>4. QED
    BY <1>1, <1>2, <1>10, <2>2, <2>3 DEF UserRemoves, feederVars, tickVars
<1>11. CASE Produce
  BY <1>1, <1>2, <1>11, ProduceKeeps DEF Produce, feederVars, tickVars
<1>12. CASE Clock
  BY <1>1, <1>2, <1>12, ClockAges DEF Clock
<1>13. ASSUME NEW q \in posts, Surface(q) \/ PostLost(q) PROVE HeldPending'
  BY <1>3, <1>13 DEF Surface, PostLost, queueVars, tickVars
<1>14. CASE Finish \/ ForeignRequest \/ SubgenRestarts \/ SetControl
  BY <1>3, <1>14 DEF Finish, ForeignRequest, SubgenRestarts, SetControl, queueVars, tickVars
<1>15. CASE UNCHANGED vars
  BY <1>3, <1>15 DEF vars, feederVars, queueVars, tickVars
<1>16. QED
  BY <1>5, <1>6, <1>7, <1>8, <1>9, <1>10, <1>11, <1>12, <1>13, <1>14, <1>15
     DEF Next, TickStep, PostResolves

\* A submission goes out for a file that has none: its row was waiting.
LEMMA SubmitReturnsOnce ==
    ASSUME QueuedOnceInv, SubmitReturns
    PROVE  NoDoubleQueue' /\ PostsBacked' /\ ListedBacked'
<1> DEFINE new == [job |-> held, path |-> heldPath, age |-> 0, watched |-> TRUE]
<1>1. /\ IInv /\ OneActiveRowPerPath /\ NoDoubleQueue /\ PostsBacked /\ ListedBacked
      /\ held \in Pending /\ rows[held].path = heldPath
  BY DEF QueuedOnceInv, HeldPending, SubmitReturns
<1>2. /\ posts' = posts \cup {new} /\ listed' = listed /\ MarkSubmitted(held) /\ pc' = "filling"
  BY DEF SubmitReturns
<1>3. /\ \A i \in Submitted : Kept(i)
      /\ held \in Submitted' /\ rows'[held].path = heldPath /\ rows'[held].age = 0
  BY <1>1, <1>2, MarkTouchesOne, RowFacts
<1>4. \A i \in Submitted : i \in Submitted'
  BY <1>3 DEF Submitted, Having, Kept
<1>5. \A i \in Submitted : rows[i].path # heldPath
  BY <1>1, RowFacts DEF OneActiveRowPerPath, Active
<1>6. heldPath \notin OwnListed /\ \A q \in posts : q.path # heldPath
  BY <1>1, <1>5 DEF PostsBacked, ListedBacked
<1>7. OwnListed' = OwnListed
  BY <1>2 DEF OwnListed
<1>8. new.path = heldPath /\ new.age = 0
  OBVIOUS
<1> HIDE DEF new
<1>9. NoDoubleQueue'
  BY <1>1, <1>2, <1>6, <1>7, <1>8 DEF NoDoubleQueue
<1>10. ASSUME NEW q \in posts'
       PROVE  \E j \in Submitted' : rows'[j].path = q.path /\ rows'[j].age <= q.age
  <2>1. CASE q = new
    BY <1>3, <1>8, <2>1
  <2>2. CASE q \in posts
    <3>1. PICK j \in Submitted : rows[j].path = q.path /\ rows[j].age <= q.age
      BY <1>1, <2>2 DEF PostsBacked
    <3>2. QED
      BY <1>3, <1>4, <3>1 DEF Kept
  <2>3. QED
    BY <1>2, <2>1, <2>2
<1>11. ASSUME NEW p \in OwnListed'
       PROVE  \E j \in Submitted' : rows'[j].path = p
  <2>1. PICK j \in Submitted : rows[j].path = p
    BY <1>1, <1>7 DEF ListedBacked
  <2>2. QED
    BY <1>3, <1>4, <2>1 DEF Kept
<1>12. QED
  BY <1>2, <1>9, <1>10, <1>11 DEF PostsBacked, ListedBacked, NotSeen

\* subgen lists a submission: its row is as young as the submission was.
LEMMA SurfaceOnce ==
    ASSUME QueuedOnceInv, NEW q \in posts, Surface(q)
    PROVE  NoDoubleQueue' /\ PostsBacked' /\ ListedBacked'
<1>1. IInv /\ NoDoubleQueue /\ PostsBacked /\ ListedBacked
  BY DEF QueuedOnceInv
<1>2. posts' = posts \ {q} /\ rows' = rows /\ UNCHANGED <<pc, seen, tickAge>>
  BY DEF Surface, queueVars, tickVars
<1>3. Submitted' = Submitted
  BY <1>2 DEF Submitted, Having
<1>4. OwnListed' \subseteq OwnListed \cup {q.path}
  BY DEF Surface, Set, OwnListed
<1>5. NoDoubleQueue'
  BY <1>1, <1>2, <1>4 DEF NoDoubleQueue
<1>6. PostsBacked'
  BY <1>1, <1>2, <1>3 DEF PostsBacked
<1>7. PICK j \in Submitted : rows[j].path = q.path /\ rows[j].age <= q.age
  BY <1>1 DEF PostsBacked
<1>8. rows[j].age <= SurfaceLag + tickAge
  <2>1. /\ rows[j].age \in Nat /\ q.age \in 0..SurfaceLag /\ tickAge \in 0..TickSpan
        /\ SurfaceLag \in Nat /\ TickSpan \in Nat
    BY <1>1, RowFacts
  <2>2. QED
    BY <1>7, <2>1
<1>9. ListedBacked'
  BY <1>1, <1>2, <1>3, <1>4, <1>7, <1>8 DEF ListedBacked, NotSeen
<1>10. QED
  BY <1>5, <1>6, <1>9

\* The orphan sweep is too late for a submission on its way and for what came
\* after subgen's answer.
LEMMA FillStartsSpares ==
    ASSUME QueuedOnceInv, FillStarts, GraceSpansAnswer
    PROVE  NoDoubleQueue' /\ PostsBacked' /\ ListedBacked'
<1>1. IInv
  BY DEF QueuedOnceInv
<1>2. /\ rows' = [j \in DOMAIN rows \ Orphaned(seen.paths) |-> rows[j]]
      /\ posts' = posts /\ listed' = listed /\ pc = "answered" /\ pc' = "filling"
  BY DEF FillStarts, ResolveOrphaned, DeleteRows, subgenVars
<1>3. /\ tickAge \in 0..TickSpan /\ SurfaceLag \in Nat /\ TickSpan \in Nat /\ OrphanGrace \in Nat
  BY <1>1, RowFacts
<1>4. ASSUME NEW j \in Submitted,
             rows[j].age < OrphanGrace \/ rows[j].path \in seen.paths
      PROVE  Kept(j)
  <2>1. j \in DOMAIN rows /\ rows[j].age \in Nat
    BY <1>1, RowFacts
  <2>2. j \notin Orphaned(seen.paths)
    BY <1>3, <1>4, <2>1 DEF Orphaned
  <2>3. QED
    BY <1>2, <2>1, <2>2 DEF Kept
<1>5. ASSUME NEW j \in Submitted, NEW q \in posts, rows[j].age <= q.age
      PROVE  rows[j].age < OrphanGrace
  <2>1. rows[j].age \in Nat /\ q.age \in 0..SurfaceLag
    BY <1>1, RowFacts
  <2>2. QED
    BY <1>3, <1>5, <2>1 DEF GraceSpansAnswer
<1>6. ASSUME NEW j \in Submitted, rows[j].age <= SurfaceLag + tickAge
      PROVE  rows[j].age < OrphanGrace
  <2>1. rows[j].age \in Nat
    BY <1>1, RowFacts
  <2>2. QED
    BY <1>3, <1>6, <2>1 DEF GraceSpansAnswer
<1>7. OwnListed' = OwnListed
  BY <1>2 DEF OwnListed
<1>8. \A j \in Submitted :
        \/ \E q \in posts' : rows[j].path = q.path /\ rows[j].age <= q.age
        \/ /\ rows[j].path \in OwnListed'
           /\ NotSeen(rows[j].path) => rows[j].age <= SurfaceLag + tickAge
        => Kept(j)
  BY <1>2, <1>4, <1>5, <1>6 DEF NotSeen
<1>9. QED
  BY <1>2, <1>7, <1>8, SparingKeepsBacked

\* Rows age no faster than the submissions and the tick they are held against.
LEMMA ClockKeepsBacked ==
    ASSUME QueuedOnceInv, Clock
    PROVE  NoDoubleQueue' /\ PostsBacked' /\ ListedBacked'
<1> DEFINE Aged(q) == [q EXCEPT !.age = @ + 1]
<1>1. IInv /\ NoDoubleQueue /\ PostsBacked /\ ListedBacked
  BY DEF QueuedOnceInv
<1>2. /\ posts' = {Aged(q) : q \in posts} /\ UNCHANGED <<pc, seen, listed>> /\ QueueTick
      /\ tickAge' = IF UnderWay THEN tickAge + 1 ELSE 0
  BY DEF Clock
<1>3. \A q \in posts : Aged(q).path = q.path /\ Aged(q).age = q.age + 1
  BY <1>1, RowFacts DEF Post
<1>4. \A i \in Submitted : /\ i \in Submitted' /\ rows'[i].path = rows[i].path
                         /\ rows'[i].age <= rows[i].age + 1
  BY <1>1, <1>2, ClockAges
<1>5. OwnListed' = OwnListed
  BY <1>2 DEF OwnListed
<1> HIDE DEF Aged
<1>6. NoDoubleQueue'
  BY <1>1, <1>2, <1>3, <1>5 DEF NoDoubleQueue
<1>7. \A i \in Submitted : rows[i].age \in Nat
  BY <1>1, RowFacts
<1>8. \A i \in Submitted' : rows'[i].age \in Nat
  <2>1. IInv'
    BY <1>1, Induction DEF Next
  <2>2. QED
    BY <2>1 DEF IInv, TypeOK, QueueTypeOK, Row, Submitted, Having
<1>9. ASSUME NEW q \in posts'
      PROVE  \E j \in Submitted' : rows'[j].path = q.path /\ rows'[j].age <= q.age
  <2>1. PICK r \in posts : q = Aged(r)
    BY <1>2
  <2>2. PICK j \in Submitted : rows[j].path = r.path /\ rows[j].age <= r.age
    BY <1>1 DEF PostsBacked
  <2>3. r.age \in 0..SurfaceLag /\ q.path = r.path /\ q.age = r.age + 1 /\ SurfaceLag \in Nat
    BY <1>1, <1>3, <2>1, RowFacts
  <2>4. /\ j \in Submitted' /\ rows'[j].path = rows[j].path
        /\ rows'[j].age <= rows[j].age + 1 /\ rows[j].age \in Nat /\ rows'[j].age \in Nat
    BY <1>4, <1>7, <1>8
  <2>5. rows'[j].age <= q.age
    BY <2>2, <2>3, <2>4
  <2>6. QED
    BY <2>2, <2>3, <2>4, <2>5
<1>10. ASSUME NEW p \in OwnListed'
       PROVE  \E j \in Submitted' :
                /\ rows'[j].path = p
                /\ NotSeen(p)' => rows'[j].age <= SurfaceLag + tickAge'
  <2>1. PICK j \in Submitted : /\ rows[j].path = p
                               /\ NotSeen(p) => rows[j].age <= SurfaceLag + tickAge
    BY <1>1, <1>5 DEF ListedBacked
  <2>2. /\ j \in Submitted' /\ rows'[j].path = rows[j].path
        /\ rows'[j].age <= rows[j].age + 1 /\ rows[j].age \in Nat /\ rows'[j].age \in Nat
    BY <1>4, <1>7, <1>8
  <2>3. tickAge \in 0..TickSpan /\ SurfaceLag \in Nat /\ TickSpan \in Nat
    BY <1>1, RowFacts
  <2>4. NotSeen(p)' => NotSeen(p) /\ tickAge' = tickAge + 1
    BY <1>2 DEF NotSeen, UnderWay
  <2>5. ASSUME rows[j].age <= SurfaceLag + tickAge
        PROVE  rows'[j].age <= SurfaceLag + (tickAge + 1)
    BY <2>2, <2>3, <2>5
  <2>6. QED
    BY <2>1, <2>2, <2>4, <2>5
<1>11. QED
  BY <1>6, <1>9, <1>10 DEF PostsBacked, ListedBacked

\* Every step of the feeder, of subgen, of the user and of restarts keeps each
\* submission and each of subarr's listed files behind a row of its own.
LEMMA StepQueuedOnce ==
    ASSUME QueuedOnceInv, [Next]_vars, SparesHanded, GraceSpansAnswer
    PROVE  NoDoubleQueue' /\ PostsBacked' /\ ListedBacked'
<1> DEFINE Goal == NoDoubleQueue' /\ PostsBacked' /\ ListedBacked'
<1>1. IInv /\ NoDoubleQueue /\ PostsBacked /\ ListedBacked
  BY DEF QueuedOnceInv
<1>2. Pending \subseteq DOMAIN rows /\ Submitted \subseteq DOMAIN rows /\ Pending \cap Submitted = {}
  BY <1>1, RowFacts
<1>3. ASSUME posts' \subseteq posts, OwnListed' \subseteq OwnListed, \A j \in Submitted : Kept(j),
             pc' = "answered" => UNCHANGED <<pc, seen, tickAge>>
      PROVE  Goal
  BY <1>3, SparingKeepsBacked
<1>4. ASSUME rows' = rows PROVE \A j \in Submitted : Kept(j)
  BY <1>2, <1>4 DEF Kept
<1>5. ASSUME listed' = listed PROVE OwnListed' = OwnListed
  BY <1>5 DEF OwnListed
<1>6. CASE TickStarts \/ Pick
  BY <1>3, <1>4, <1>5, <1>6 DEF TickStarts, Pick, queueVars, subgenVars
<1>7. CASE TickEnds \/ QueueUnreadable
  BY <1>3, <1>4, <1>5, <1>7 DEF TickEnds, QueueUnreadable, IdleTick, queueVars, subgenVars
<1>8. CASE QueueAnswered
  <2>1. rows' = rows /\ posts' = posts /\ listed' = listed /\ seen'.paths = DOMAIN listed
    BY <1>8 DEF QueueAnswered, queueVars, subgenVars
  <2>2. Submitted' = Submitted /\ OwnListed' = OwnListed /\ OwnListed \subseteq DOMAIN listed
    BY <2>1 DEF Submitted, Having, OwnListed
  <2>3. QED
    BY <1>1, <2>1, <2>2 DEF NoDoubleQueue, PostsBacked, ListedBacked, NotSeen
<1>9. CASE FillStarts
  BY <1>9, FillStartsSpares
<1>10. CASE Adopt
  <2>1. PICK j \in Pending : MarkSubmitted(j)
    BY <1>10 DEF Adopt
  <2>2. \A i \in Submitted : Kept(i)
    BY <1>1, <1>2, <2>1, MarkTouchesOne
  <2>3. posts' = posts /\ listed' = listed /\ pc' = "filling"
    BY <1>10 DEF Adopt, subgenVars
  <2>4. QED
    BY <1>3, <1>5, <2>2, <2>3
<1>11. CASE SubmitReturns
  BY <1>11, SubmitReturnsOnce
<1>12. CASE SubmitRaises
  <2>1. held \in Pending /\ MarkError(held)
    BY <1>12 DEF SubmitRaises, QueuedOnceInv, HeldPending
  <2>2. \A i \in Submitted : Kept(i)
    BY <1>1, <1>2, <2>1, MarkTouchesOne
  <2>3. posts' = posts /\ listed' = listed /\ pc' = "filling"
    BY <1>12 DEF SubmitRaises, subgenVars
  <2>4. QED
    BY <1>3, <1>5, <2>2, <2>3
<1>13. ASSUME NEW q \in posts, Surface(q) PROVE Goal
  BY <1>13, SurfaceOnce
<1>14. ASSUME NEW q \in posts, Skipped(q) PROVE Goal
  <2>1. /\ rows' = [j \in DOMAIN rows \ {j \in Submitted : rows[j].path = q.path} |-> rows[j]]
        /\ posts' = posts \ {q} /\ listed' = listed /\ UNCHANGED <<pc, seen, tickAge>>
    BY <1>14 DEF Skipped, ResolveSkipped, DeleteRows, tickVars
  <2>2. \A j \in Submitted : rows[j].path # q.path => Kept(j)
    BY <1>2, <2>1 DEF Kept
  <2>3. (\A r \in posts' : r.path # q.path) /\ q.path \notin OwnListed
    BY <1>1, <2>1 DEF NoDoubleQueue
  <2>4. OwnListed' = OwnListed
    BY <1>5, <2>1
  <2>5. \A j \in Submitted :
          \/ \E r \in posts' : rows[j].path = r.path /\ rows[j].age <= r.age
          \/ /\ rows[j].path \in OwnListed'
             /\ NotSeen(rows[j].path) => rows[j].age <= SurfaceLag + tickAge
          => Kept(j)
    BY <2>2, <2>3, <2>4
  <2>6. QED
    BY <2>1, <2>4, <2>5, SparingKeepsBacked
<1>15. ASSUME NEW q \in posts, PostLost(q) PROVE Goal
  BY <1>3, <1>4, <1>5, <1>15 DEF PostLost, queueVars, tickVars
<1>16. CASE Finish
  <2>1. OwnListed' \subseteq OwnListed
    BY <1>16 DEF Finish, Drop, OwnListed
  <2>2. QED
    BY <1>3, <1>4, <1>16, <2>1 DEF Finish, queueVars, tickVars
<1>17. CASE ForeignRequest
  <2>1. OwnListed' \subseteq OwnListed
    BY <1>17 DEF ForeignRequest, Set, OwnListed
  <2>2. QED
    BY <1>3, <1>4, <1>17, <2>1 DEF ForeignRequest, queueVars, tickVars
<1>18. CASE SubgenRestarts
  <2>1. OwnListed' = {}
    BY <1>18 DEF SubgenRestarts, Empty, OwnListed
  <2>2. QED
    BY <1>3, <1>4, <1>18, <2>1 DEF SubgenRestarts, queueVars, tickVars
<1>19. CASE Produce
  <2>1. \A j \in Submitted : Kept(j)
    BY <1>1, <1>2, <1>19, ProduceKeeps
  <2>2. QED
    BY <1>3, <1>5, <1>19, <2>1 DEF Produce, feederVars, tickVars, subgenVars
<1>20. CASE UserRemoves
  <2>1. PICK j \in DOMAIN rows \ ({held} \cup Submitted) : RemoveRow(j)
    BY <1>20 DEF SparesHanded
  <2>2. j \notin Submitted
    BY <2>1
  <2>3. \A i \in Submitted : Kept(i)
    BY <1>2, <2>1, <2>2 DEF RemoveRow, DeleteRows, Kept
  <2>4. QED
    BY <1>3, <1>5, <1>20, <2>3 DEF UserRemoves, feederVars, tickVars, subgenVars
<1>21. CASE SetControl
  BY <1>3, <1>4, <1>5, <1>21 DEF SetControl, queueVars, tickVars, subgenVars
<1>22. CASE SubarrRestarts
  <2> DEFINE Unwatched(q) == [q EXCEPT !.watched = FALSE]
  <2>1. /\ posts' = {Unwatched(q) : q \in posts}
        /\ rows' = rows /\ listed' = listed /\ pc' = "idle"
    BY <1>22 DEF SubarrRestarts, IdleTick, queueVars
  <2>2. \A q \in posts : Unwatched(q).path = q.path /\ Unwatched(q).age = q.age
    BY <1>1, RowFacts DEF Post
  <2>3. Submitted' = Submitted /\ OwnListed' = OwnListed
    BY <2>1 DEF Submitted, Having, OwnListed
  <2> HIDE DEF Unwatched
  <2>4. NoDoubleQueue'
    BY <1>1, <2>1, <2>2, <2>3 DEF NoDoubleQueue
  <2>5. ASSUME NEW q \in posts'
        PROVE  \E j \in Submitted' : rows'[j].path = q.path /\ rows'[j].age <= q.age
    <3>1. PICK r \in posts : q = Unwatched(r)
      BY <2>1
    <3>2. PICK j \in Submitted : rows[j].path = r.path /\ rows[j].age <= r.age
      BY <1>1 DEF PostsBacked
    <3>3. QED
      BY <2>1, <2>2, <2>3, <3>1, <3>2
  <2>6. ListedBacked'
    BY <1>1, <2>1, <2>3 DEF ListedBacked, NotSeen
  <2>7. QED
    BY <2>4, <2>5, <2>6 DEF PostsBacked
<1>23. CASE Clock
  BY <1>23, ClockKeepsBacked
<1>24. CASE UNCHANGED vars
  BY <1>3, <1>4, <1>5, <1>24 DEF vars, feederVars, queueVars, tickVars, subgenVars
<1>25. QED
  BY <1>6, <1>7, <1>8, <1>9, <1>10, <1>11, <1>12, <1>13, <1>14, <1>15, <1>16, <1>17, <1>18,
     <1>19, <1>20, <1>21, <1>22, <1>23, <1>24
     DEF Next, TickStep, PostResolves

LEMMA QueuedOnceInduction ==
    ASSUME QueuedOnceInv, [Next]_vars, SparesHanded, GraceSpansAnswer
    PROVE  QueuedOnceInv'
<1>1. IInv /\ QueueTypeOK /\ OneActiveRowPerPath /\ [QueueNext]_queueVars
  BY StepRefines DEF QueuedOnceInv, IInv, TypeOK
<1>2. IInv' /\ OneActiveRowPerPath'
  BY <1>1, Induction, DedupInduction
<1>3. QED
  BY <1>2, StepHeldPending, StepQueuedOnce DEF QueuedOnceInv

LEMMA QueuedOnceInitially == Init => QueuedOnceInv
<1> SUFFICES ASSUME Init PROVE QueuedOnceInv
  OBVIOUS
<1>1. rows = [j \in {} |-> 0] /\ posts = {} /\ listed = Empty /\ pc = "idle"
  BY DEF Init, QueueInit
<1>2. OwnListed = {} /\ Active = {}
  BY <1>1 DEF OwnListed, Empty, Active, Pending, Submitted, Having
<1>3. QED
  BY <1>1, <1>2, Initially
     DEF QueuedOnceInv, OneActiveRowPerPath, NoDoubleQueue, HeldPending, PostsBacked, ListedBacked

\* enqueue's "never double-queue a file that's already pending or in subgen":
\* two of subarr's submissions for one file are never at subgen together,
\* whatever else asks subgen for files, whoever restarts and whenever subgen
\* lists, skips or loses a submission, as long as the user deletes no row that
\* is being submitted or was handed over, and the orphan grace is longer than
\* a submission takes to show up in an answer that is used.
THEOREM FeederNeverDoubleQueues ==
    ASSUME UserKeepsHanded, GraceSpansAnswer
    PROVE  Spec => []NoDoubleQueue
<1>1. QueuedOnceInv => NoDoubleQueue
  BY DEF QueuedOnceInv
<1>2. QueuedOnceInv /\ [Next]_vars => QueuedOnceInv'
  BY QueuedOnceInduction, UserSpares
<1>3. QED
  BY <1>1, <1>2, QueuedOnceInitially, PTL DEF Spec
-----------------------------------------------------------------------------
(* A waiting file is not lost.                                              *)

\* Only the user's delete takes a pending row out of the table: a verdict of
\* subgen and the orphan sweep take submitted ones.
LEMMA StepLosesNoPending ==
    ASSUME IInv, [Next]_vars, NEW j \in Pending
    PROVE  j \in DOMAIN rows' \/ RemoveRow(j)
<1>1. j \in DOMAIN rows /\ j \notin Submitted
  BY RowFacts
<1>2. ASSUME rows' = rows PROVE j \in DOMAIN rows'
  BY <1>1, <1>2
<1>3. CASE FillStarts
  BY <1>1, <1>3 DEF FillStarts, ResolveOrphaned, DeleteRows, Orphaned
<1>4. ASSUME NEW q \in posts, Skipped(q) PROVE j \in DOMAIN rows'
  BY <1>1, <1>4 DEF Skipped, ResolveSkipped, DeleteRows
<1>5. CASE UserRemoves
  BY <1>1, <1>5 DEF UserRemoves, RemoveRow, DeleteRows
<1>6. CASE Produce
  BY <1>1, <1>6, ProduceKeeps DEF Kept
<1>7. CASE Clock
  BY <1>1, <1>7 DEF Clock, QueueTick, AgedRows
<1>8. CASE Adopt \/ SubmitReturns \/ SubmitRaises
  BY <1>1, <1>8 DEF Adopt, SubmitReturns, SubmitRaises, MarkSubmitted, MarkError
<1>9. ASSUME NEW q \in posts, Surface(q) \/ PostLost(q) PROVE j \in DOMAIN rows'
  BY <1>2, <1>9 DEF Surface, PostLost, queueVars
<1>10. CASE \/ TickStarts \/ QueueAnswered \/ Pick \/ TickEnds \/ QueueUnreadable \/ Finish
            \/ ForeignRequest \/ SubgenRestarts \/ SetControl \/ SubarrRestarts \/ UNCHANGED vars
  BY <1>2, <1>10
     DEF TickStarts, QueueAnswered, Pick, TickEnds, QueueUnreadable, Finish, ForeignRequest,
         SubgenRestarts, SetControl, SubarrRestarts, vars, queueVars
<1>11. QED
  BY <1>3, <1>4, <1>5, <1>6, <1>7, <1>8, <1>9, <1>10 DEF Next, TickStep, PostResolves

\* A file the user waits on leaves the pending list only by being submitted, by
\* failing, or by the user's own delete, whatever verdicts about earlier
\* submissions of it arrive late and whoever restarts.
THEOREM WaitingIsNotLost == Spec => PendingNotLost
<1>1. IInv /\ [Next]_vars => [\A j \in Pending : j \in DOMAIN rows' \/ RemoveRow(j)]_vars
  BY StepLosesNoPending
<1>2. QED
  BY <1>1, Initially, Induction, PTL DEF Spec, PendingNotLost

-----------------------------------------------------------------------------
(* The depth is kept. Reservations bridge the time in which subgen does not *)
(* list a submission yet: an answer that misses one comes while it is still *)
(* reserved.                                                                *)

ReservationSpansAnswers == InflightGrace > SurfaceLag + 2 * TickSpan

\* What subarr has on the way to subgen, and all it has there or on the way.
Sent == {q.path : q \in posts}

OwnPaths == Sent \cup OwnListed

\* A submission on its way is reserved, since the clock was read before it.
SentReserved ==
    \A q \in posts : q.path \in DOMAIN inflight /\ inflight[q.path] <= q.age + TickSpan

\* What an answer that is about to be used misses is reserved.
MissedReserved ==
    \A p \in OwnListed :
        NotSeen(p) => /\ p \in DOMAIN inflight
                      /\ inflight[p] <= SurfaceLag + TickSpan + tickAge

\* An answer counts the files it names, none of them on its way.
AnswerCounts ==
    pc = "answered" =>
        /\ seen.count = Cardinality(seen.paths)
        /\ \A q \in posts : q.path \notin seen.paths

\* The depth of a tick counts at least what subarr has at subgen.
DepthCounts ==
    /\ Cardinality(OwnPaths) <= MaxTarget
    /\ pc \in {"filling", "submitting"} => Cardinality(OwnPaths) <= depth
    /\ pc = "submitting" => depth < target

DepthInv ==
    /\ QueuedOnceInv
    /\ DOMAIN listed = OwnListed
    /\ SentReserved
    /\ MissedReserved
    /\ AnswerCounts
    /\ DepthCounts

\* A step that neither this process's restart nor another client of subgen makes.
Alone == ~SubarrRestarts /\ ~ForeignRequest

\* Files, not submissions, are what is counted: each has one.
LEMMA OwnWorkCounts ==
    ASSUME IInv, NoDoubleQueue
    PROVE  /\ OwnWork = Cardinality(OwnPaths)
           /\ OwnPaths \subseteq Paths /\ IsFiniteSet(OwnPaths) /\ Cardinality(OwnPaths) \in Nat
<1>1. Sent \subseteq Paths /\ OwnListed \subseteq Paths /\ IsFiniteSet(Paths)
  BY RowFacts, QueueFeederAssumption DEF Sent, OwnListed, IInv, TypeOK
<1>2. IsFiniteSet(Sent) /\ IsFiniteSet(OwnListed) /\ IsFiniteSet(OwnPaths)
  BY <1>1, FS_Subset DEF OwnPaths
<1>3. [q \in posts |-> q.path] \in Bijection(posts, Sent)
  BY DEF NoDoubleQueue, Sent, Bijection, Injection, Surjection, IsInjective
<1>4. Cardinality(posts) = Cardinality(Sent)
  <2>1. /\ [q \in posts |-> q.path] \in Injection(posts, Sent)
        /\ [q \in posts |-> q.path] \in Surjection(posts, Sent)
    BY <1>3 DEF Bijection
  <2>2. QED
    BY <1>2, <2>1, FS_Injection
<1>5. Sent \cap OwnListed = {}
  BY DEF NoDoubleQueue, Sent
<1>6. Cardinality(OwnPaths) = Cardinality(Sent) + Cardinality(OwnListed)
  <2>1. Cardinality(OwnPaths) = Cardinality(Sent) + Cardinality(OwnListed) - Cardinality(Sent \cap OwnListed)
    BY <1>2, FS_Union DEF OwnPaths
  <2>2. /\ Cardinality(Sent \cap OwnListed) = 0
        /\ Cardinality(Sent) \in Nat /\ Cardinality(OwnListed) \in Nat
    BY <1>2, <1>5, FS_EmptySet, FS_CardinalityType
  <2>3. QED
    BY <2>1, <2>2
<1>7. QED
  BY <1>1, <1>2, <1>4, <1>6, FS_CardinalityType DEF OwnWork, OwnPaths

\* Fewer files at subgen, or as many, and a depth no smaller, keep the count.
LEMMA CountKept ==
    ASSUME DepthInv, OwnPaths' \subseteq OwnPaths, depth' \in Nat,
           pc' \in {"filling", "submitting"} => pc \in {"filling", "submitting"} /\ depth <= depth',
           pc' = "submitting" => depth' < target'
    PROVE  DepthCounts'
<1>1. IInv /\ NoDoubleQueue /\ DepthCounts
  BY DEF DepthInv, QueuedOnceInv
<1>2. /\ IsFiniteSet(OwnPaths) /\ Cardinality(OwnPaths) \in Nat
      /\ depth \in Nat /\ MaxTarget \in Nat
  BY <1>1, OwnWorkCounts, QueueFeederAssumption DEF IInv, TypeOK
<1>3. PICK c : c = Cardinality(OwnPaths')
  OBVIOUS
<1>4. c \in Nat /\ c <= Cardinality(OwnPaths)
  BY <1>2, <1>3, FS_Subset, FS_CardinalityType
<1>5. c <= MaxTarget
  BY <1>1, <1>2, <1>4 DEF DepthCounts
<1>6. pc' \in {"filling", "submitting"} => c <= depth'
  BY <1>1, <1>2, <1>4 DEF DepthCounts
<1>7. Cardinality(OwnPaths)' = c
  BY <1>3
<1>8. QED
  BY <1>5, <1>6, <1>7 DEF DepthCounts

\* A step that sends and surfaces nothing, and forgets no reservation in use.
LEMMA QuietKeepsDepth ==
    ASSUME DepthInv, QueuedOnceInv',
           DOMAIN listed' = OwnListed', OwnListed' \subseteq OwnListed, posts' \subseteq posts,
           \A p \in OwnPaths' : p \in DOMAIN inflight
              => p \in DOMAIN inflight' /\ inflight'[p] = inflight[p],
           pc' = "answered" => UNCHANGED <<pc, seen, tickAge>>,
           depth' \in Nat,
           pc' \in {"filling", "submitting"} => pc \in {"filling", "submitting"} /\ depth <= depth',
           pc' = "submitting" => depth' < target'
    PROVE  DepthInv'
<1>1. SentReserved /\ MissedReserved /\ AnswerCounts
  BY DEF DepthInv
<1>2. OwnPaths' \subseteq OwnPaths
  BY DEF OwnPaths, Sent
<1>3. DepthCounts'
  BY <1>2, CountKept
<1>4. \A q \in posts' : q.path \in OwnPaths'
  BY DEF OwnPaths, Sent
<1>5. SentReserved'
  BY <1>1, <1>4 DEF SentReserved
<1>6. ASSUME NEW p \in OwnListed', NotSeen(p)'
      PROVE  p \in DOMAIN inflight' /\ inflight'[p] <= SurfaceLag + TickSpan + tickAge'
  <2>1. p \in OwnPaths' /\ p \in OwnListed
    BY DEF OwnPaths
  <2>2. NotSeen(p) /\ tickAge' = tickAge
    BY <1>6 DEF NotSeen
  <2>3. QED
    BY <1>1, <2>1, <2>2 DEF MissedReserved
<1>7. AnswerCounts'
  BY <1>1 DEF AnswerCounts
<1>8. QED
  BY <1>3, <1>5, <1>6, <1>7 DEF DepthInv, MissedReserved

\* An answer names what is listed, and nothing that is still on its way.
LEMMA AnswerKeepsDepth ==
    ASSUME DepthInv, QueuedOnceInv', QueueAnswered
    PROVE  DepthInv'
<1>1. /\ seen'.paths = DOMAIN listed /\ seen'.count = Cardinality(DOMAIN listed)
      /\ UNCHANGED <<depth, target, inflight, posts, listed, tickAge>> /\ pc' = "answered"
  BY DEF QueueAnswered, subgenVars
<1>2. /\ DOMAIN listed = OwnListed /\ NoDoubleQueue /\ SentReserved /\ DepthCounts
  BY DEF DepthInv, QueuedOnceInv
<1>3. OwnListed' = OwnListed /\ OwnPaths' = OwnPaths
  BY <1>1 DEF OwnListed, OwnPaths, Sent
<1>4. AnswerCounts'
  BY <1>1, <1>2 DEF AnswerCounts, NoDoubleQueue
<1>5. MissedReserved'
  BY <1>1, <1>2, <1>3 DEF MissedReserved, NotSeen
<1>6. DepthCounts'
  BY <1>1, <1>2, <1>3 DEF DepthCounts
<1>7. QED
  BY <1>1, <1>2, <1>3, <1>4, <1>5, <1>6 DEF DepthInv, SentReserved

\* The depth a tick begins with: what the answer names and what is reserved
\* beside it hold all of subarr's work.
LEMMA FillStartsCounts ==
    ASSUME DepthInv, QueuedOnceInv', FillStarts, ReservationSpansAnswers
    PROVE  DepthInv'
<1>1. /\ posts' = posts /\ listed' = listed /\ pc = "answered" /\ pc' = "filling"
      /\ inflight' = [p \in StillReserved |-> inflight[p]]
      /\ depth' = seen.count + Cardinality(StillReserved)
  BY DEF FillStarts, subgenVars
<1>2. /\ IInv /\ NoDoubleQueue /\ SentReserved /\ MissedReserved /\ AnswerCounts
      /\ DepthCounts /\ DOMAIN listed = OwnListed
  BY DEF DepthInv, QueuedOnceInv
<1>3. /\ tickAge \in 0..TickSpan /\ SurfaceLag \in Nat /\ TickSpan \in Nat /\ InflightGrace \in Nat
      /\ \A p \in DOMAIN inflight : p \in Paths /\ inflight[p] \in Nat
      /\ seen.paths \subseteq Paths /\ IsFiniteSet(Paths)
  BY <1>2, QueueFeederAssumption DEF IInv, TypeOK
<1>4. ASSUME NEW q \in posts PROVE q.path \in StillReserved
  <2>1. q.age \in 0..SurfaceLag /\ q.path \in DOMAIN inflight /\ inflight[q.path] <= q.age + TickSpan
        /\ q.path \notin seen.paths
    BY <1>1, <1>2, RowFacts DEF SentReserved, AnswerCounts
  <2>2. inflight[q.path] < InflightGrace
    BY <1>3, <2>1 DEF ReservationSpansAnswers
  <2>3. QED
    BY <2>1, <2>2 DEF StillReserved
<1>5. ASSUME NEW p \in OwnListed, p \notin seen.paths PROVE p \in StillReserved
  <2>1. p \in DOMAIN inflight /\ inflight[p] <= SurfaceLag + TickSpan + tickAge
    BY <1>1, <1>2, <1>5 DEF MissedReserved, NotSeen
  <2>2. inflight[p] < InflightGrace
    BY <1>3, <2>1 DEF ReservationSpansAnswers
  <2>3. QED
    BY <1>5, <2>1, <2>2 DEF StillReserved
<1>6. OwnPaths \subseteq seen.paths \cup StillReserved
  BY <1>4, <1>5 DEF OwnPaths, Sent
<1>7. StillReserved \subseteq Paths
  BY <1>3 DEF StillReserved
<1>8. /\ IsFiniteSet(seen.paths) /\ IsFiniteSet(StillReserved)
      /\ Cardinality(seen.paths) \in Nat /\ Cardinality(StillReserved) \in Nat
  BY <1>3, <1>7, FS_Subset, FS_CardinalityType
<1>9. Cardinality(OwnPaths) <= depth'
  <2>1. /\ IsFiniteSet(seen.paths \cup StillReserved)
        /\ Cardinality(seen.paths \cup StillReserved)
             = Cardinality(seen.paths) + Cardinality(StillReserved)
                 - Cardinality(seen.paths \cap StillReserved)
    BY <1>8, FS_Union
  <2>2. Cardinality(seen.paths \cap StillReserved) \in Nat
    BY <1>8, FS_Subset, FS_CardinalityType
  <2>3. Cardinality(OwnPaths) <= Cardinality(seen.paths \cup StillReserved)
    BY <1>6, <2>1, FS_Subset
  <2>4. seen.count = Cardinality(seen.paths) /\ Cardinality(OwnPaths) \in Nat
    BY <1>1, <1>2, OwnWorkCounts DEF AnswerCounts
  <2>5. QED
    BY <1>1, <1>8, <2>1, <2>2, <2>3, <2>4
<1>10. OwnListed' = OwnListed /\ OwnPaths' = OwnPaths
  BY <1>1 DEF OwnListed, OwnPaths, Sent
<1>11. DepthCounts'
  BY <1>1, <1>2, <1>9, <1>10 DEF DepthCounts
<1>12. SentReserved'
  BY <1>1, <1>2, <1>4 DEF SentReserved
<1>13. MissedReserved' /\ AnswerCounts'
  BY <1>1 DEF MissedReserved, NotSeen, AnswerCounts
<1>14. QED
  BY <1>1, <1>2, <1>10, <1>11, <1>12, <1>13 DEF DepthInv

\* A submission takes the slot that was free when its row was picked.
LEMMA SubmitCounts ==
    ASSUME DepthInv, QueuedOnceInv', SubmitReturns
    PROVE  DepthInv'
<1> DEFINE new == [job |-> held, path |-> heldPath, age |-> 0, watched |-> TRUE]
<1>1. /\ posts' = posts \cup {new} /\ listed' = listed /\ pc = "submitting" /\ pc' = "filling"
      /\ inflight' = Set(inflight, heldPath, tickAge) /\ depth' = depth + 1 /\ target' = target
  BY DEF SubmitReturns
<1>2. /\ IInv /\ NoDoubleQueue /\ SentReserved /\ DepthCounts /\ DOMAIN listed = OwnListed
      /\ heldPath \in Paths
  BY <1>1 DEF DepthInv, QueuedOnceInv, IInv, HeldRow
<1>3. /\ tickAge \in 0..TickSpan /\ TickSpan \in Nat /\ depth \in Nat /\ target \in 0..MaxTarget
      /\ MaxTarget \in Nat /\ DOMAIN inflight \subseteq Paths
  BY <1>2, QueueFeederAssumption DEF IInv, TypeOK
<1>4. new.path = heldPath /\ new.age = 0
  OBVIOUS
<1> HIDE DEF new
<1>5. /\ heldPath \in DOMAIN inflight' /\ inflight'[heldPath] = tickAge
      /\ \A p \in DOMAIN inflight : p # heldPath => p \in DOMAIN inflight' /\ inflight'[p] = inflight[p]
  BY <1>1 DEF Set
<1>6. NoDoubleQueue'
  BY DEF QueuedOnceInv
<1>7. \A q \in posts : q # new => q.path # heldPath
  BY <1>1, <1>4, <1>6 DEF NoDoubleQueue
<1>8. new.age + TickSpan = TickSpan
  BY <1>3, <1>4
<1>9. SentReserved'
  <2> SUFFICES ASSUME NEW q \in posts'
               PROVE  q.path \in DOMAIN inflight' /\ inflight'[q.path] <= q.age + TickSpan
    BY DEF SentReserved
  <2>1. CASE q = new
    BY <1>3, <1>4, <1>5, <1>8, <2>1
  <2>2. CASE q # new
    BY <1>1, <1>2, <1>5, <1>7, <2>2 DEF SentReserved
  <2>3. QED
    BY <2>1, <2>2
<1>10. OwnListed' = OwnListed
  BY <1>1 DEF OwnListed
<1>11. OwnPaths' = OwnPaths \cup {heldPath}
  BY <1>1, <1>4, <1>10 DEF OwnPaths, Sent
<1>12. PICK n : n = Cardinality(OwnPaths')
  OBVIOUS
<1>13. n \in Nat /\ Cardinality(OwnPaths) \in Nat /\ n <= Cardinality(OwnPaths) + 1
  <2>1. IsFiniteSet(OwnPaths) /\ Cardinality(OwnPaths) \in Nat
    BY <1>2, OwnWorkCounts
  <2>2. n = IF heldPath \in OwnPaths THEN Cardinality(OwnPaths) ELSE Cardinality(OwnPaths) + 1
    BY <1>11, <1>12, <2>1, FS_AddElement
  <2>3. QED
    BY <2>1, <2>2
<1>14. n <= depth' /\ n <= MaxTarget
  <2>1. Cardinality(OwnPaths) <= depth /\ depth < target
    BY <1>1, <1>2 DEF DepthCounts
  <2>2. QED
    BY <1>1, <1>3, <1>13, <2>1
<1>15. Cardinality(OwnPaths)' = n
  BY <1>12
<1>16. DepthCounts'
  BY <1>1, <1>14, <1>15 DEF DepthCounts
<1>17. MissedReserved' /\ AnswerCounts'
  BY <1>1 DEF MissedReserved, NotSeen, AnswerCounts
<1>18. QED
  BY <1>1, <1>2, <1>9, <1>10, <1>16, <1>17 DEF DepthInv

\* A submission that is listed goes on being reserved until an answer names it.
LEMMA SurfaceCounts ==
    ASSUME DepthInv, QueuedOnceInv', NEW q \in posts, Surface(q)
    PROVE  DepthInv'
<1>1. /\ posts' = posts \ {q} /\ UNCHANGED <<pc, seen, depth, target, tickAge, inflight>>
      /\ listed' = IF q.path \in DOMAIN listed THEN listed ELSE Set(listed, q.path, TRUE)
  BY DEF Surface, tickVars
<1>2. /\ IInv /\ NoDoubleQueue /\ SentReserved /\ MissedReserved /\ AnswerCounts
      /\ DepthCounts /\ DOMAIN listed = OwnListed
  BY DEF DepthInv, QueuedOnceInv
<1>3. q.path \notin DOMAIN listed
  BY <1>2 DEF NoDoubleQueue
<1>4. DOMAIN listed' = OwnListed \cup {q.path} /\ OwnListed' = OwnListed \cup {q.path}
  BY <1>1, <1>2, <1>3 DEF Set, OwnListed
<1>5. OwnPaths' \subseteq OwnPaths
  BY <1>1, <1>4 DEF OwnPaths, Sent
<1>6. DepthCounts'
  <2>1. depth \in Nat
    BY <1>2 DEF IInv, TypeOK
  <2>2. depth' \in Nat /\ depth <= depth' /\ (pc' = "submitting" => depth' < target')
    BY <1>1, <1>2, <2>1 DEF DepthCounts
  <2>3. QED
    BY <1>1, <1>5, <2>2, CountKept
<1>7. SentReserved' /\ AnswerCounts'
  BY <1>1, <1>2 DEF SentReserved, AnswerCounts
<1>8. q.path \in DOMAIN inflight /\ inflight[q.path] <= SurfaceLag + TickSpan + tickAge
  <2>1. /\ q.path \in DOMAIN inflight /\ inflight[q.path] <= q.age + TickSpan
        /\ q.age \in 0..SurfaceLag
    BY <1>2, RowFacts DEF SentReserved
  <2>2. inflight[q.path] \in Nat /\ tickAge \in 0..TickSpan /\ SurfaceLag \in Nat /\ TickSpan \in Nat
    BY <1>2, <2>1, QueueFeederAssumption DEF IInv, TypeOK
  <2>3. QED
    BY <2>1, <2>2
<1>9. MissedReserved'
  BY <1>1, <1>2, <1>4, <1>8 DEF MissedReserved, NotSeen
<1>10. QED
  BY <1>4, <1>6, <1>7, <1>9 DEF DepthInv

\* Reservations age no faster than the submissions and the tick.
LEMMA ClockCounts ==
    ASSUME DepthInv, QueuedOnceInv', Clock
    PROVE  DepthInv'
<1> DEFINE Aged(q) == [q EXCEPT !.age = @ + 1]
<1>1. /\ posts' = {Aged(q) : q \in posts} /\ UNCHANGED <<pc, seen, depth, target, listed>>
      /\ inflight' = [p \in DOMAIN inflight |-> Older(inflight[p], InflightGrace)]
      /\ tickAge' = IF UnderWay THEN tickAge + 1 ELSE 0
  BY DEF Clock
<1>2. /\ IInv /\ SentReserved /\ MissedReserved /\ AnswerCounts
      /\ DepthCounts /\ DOMAIN listed = OwnListed
  BY DEF DepthInv, QueuedOnceInv
<1>3. \A q \in posts : /\ Aged(q).path = q.path /\ Aged(q).age = q.age + 1
                     /\ q.age \in 0..SurfaceLag
  BY <1>2, RowFacts DEF Post
<1> HIDE DEF Aged
<1>4. /\ tickAge \in 0..TickSpan /\ SurfaceLag \in Nat /\ TickSpan \in Nat /\ InflightGrace \in Nat
      /\ \A p \in DOMAIN inflight : inflight[p] \in Nat
  BY <1>2, QueueFeederAssumption DEF IInv, TypeOK
<1>5. \A n, g \in Nat : Older(n, g) \in Nat /\ Older(n, g) <= n + 1
  BY DEF Older
<1>6. \A p \in DOMAIN inflight : /\ p \in DOMAIN inflight' /\ inflight'[p] \in Nat
                               /\ inflight'[p] <= inflight[p] + 1
  BY <1>1, <1>4, <1>5
<1>7. SentReserved'
  <2> SUFFICES ASSUME NEW q \in posts'
               PROVE  q.path \in DOMAIN inflight' /\ inflight'[q.path] <= q.age + TickSpan
    BY DEF SentReserved
  <2>1. PICK r \in posts : q = Aged(r)
    BY <1>1
  <2>2. r.path \in DOMAIN inflight /\ inflight[r.path] <= r.age + TickSpan
    BY <1>2 DEF SentReserved
  <2>3. q.path = r.path /\ q.age = r.age + 1 /\ r.age \in 0..SurfaceLag
    BY <1>3, <2>1
  <2>4. inflight'[r.path] <= (r.age + 1) + TickSpan
    BY <1>4, <1>6, <2>2, <2>3
  <2>5. QED
    BY <1>6, <2>2, <2>3, <2>4
<1>8. OwnListed' = OwnListed /\ Sent' = Sent
  BY <1>1, <1>3 DEF OwnListed, Sent
<1>9. ASSUME NEW p \in OwnListed', NotSeen(p)'
      PROVE  p \in DOMAIN inflight' /\ inflight'[p] <= SurfaceLag + TickSpan + tickAge'
  <2>1. NotSeen(p) /\ tickAge' = tickAge + 1
    BY <1>1, <1>9 DEF NotSeen, UnderWay
  <2>2. p \in DOMAIN inflight /\ inflight[p] <= SurfaceLag + TickSpan + tickAge
    BY <1>2, <1>8, <2>1 DEF MissedReserved
  <2>3. inflight'[p] <= SurfaceLag + TickSpan + (tickAge + 1)
    BY <1>4, <1>6, <2>2
  <2>4. QED
    BY <1>6, <2>1, <2>2, <2>3
<1>10. AnswerCounts'
  BY <1>1, <1>2, <1>3 DEF AnswerCounts
<1>11. DepthCounts'
  BY <1>1, <1>2, <1>8 DEF DepthCounts, OwnPaths
<1>12. QED
  BY <1>1, <1>2, <1>7, <1>8, <1>9, <1>10, <1>11 DEF DepthInv, MissedReserved

\* A path with a waiting row, or whose submission was refused, is not reserved
\* for anything subarr has at subgen.
LEMMA WaitingIsNotOwn ==
    ASSUME QueuedOnceInv, NEW j \in Pending
    PROVE  rows[j].path \notin OwnPaths
<1>1. \A p \in OwnPaths : \E i \in Submitted : rows[i].path = p
  BY DEF QueuedOnceInv, PostsBacked, ListedBacked, OwnPaths, Sent
<1>2. Pending \cap Submitted = {} /\ OneActiveRowPerPath
  BY RowFacts DEF QueuedOnceInv
<1>3. QED
  BY <1>1, <1>2 DEF OneActiveRowPerPath, Active

\* One step per action that neither sends, surfaces nor reads the answer.
LEMMA StepQuiet ==
    ASSUME DepthInv, QueuedOnceInv', Alone,
           \/ TickStarts \/ QueueUnreadable \/ TickEnds \/ Adopt \/ Pick \/ SubmitRaises
           \/ (\E q \in posts : Skipped(q) \/ PostLost(q))
           \/ Finish \/ SubgenRestarts \/ Produce \/ UserRemoves \/ SetControl
           \/ UNCHANGED vars
    PROVE  DepthInv'
<1>1. /\ QueuedOnceInv /\ IInv /\ NoDoubleQueue /\ DepthCounts /\ DOMAIN listed = OwnListed
      /\ depth \in Nat /\ target \in 0..MaxTarget /\ MaxTarget \in Nat
  BY QueueFeederAssumption DEF DepthInv, QueuedOnceInv, IInv, TypeOK
<1>2. pc = "submitting" => depth < target
  BY <1>1 DEF DepthCounts
<1>3. ASSUME UNCHANGED <<posts, listed, inflight>>
      PROVE  /\ DOMAIN listed' = OwnListed' /\ OwnListed' \subseteq OwnListed /\ posts' \subseteq posts
             /\ \A p \in OwnPaths' : p \in DOMAIN inflight
                  => p \in DOMAIN inflight' /\ inflight'[p] = inflight[p]
  BY <1>1, <1>3 DEF OwnListed
<1>4. CASE TickStarts
  <2>1. UNCHANGED <<posts, listed, inflight, depth>> /\ pc' = "reading"
    BY <1>4 DEF TickStarts, tickVars, subgenVars
  <2>2. QED
    BY <1>1, <1>3, <2>1, QuietKeepsDepth
<1>5. CASE QueueUnreadable \/ TickEnds
  <2>1. UNCHANGED <<posts, listed, inflight>> /\ depth' = 0 /\ pc' = "idle"
    BY <1>5 DEF QueueUnreadable, TickEnds, IdleTick, subgenVars
  <2>2. QED
    BY <1>3, <2>1, QuietKeepsDepth
<1>6. CASE Adopt
  <2>1. PICK j \in Pending : inflight' = Drop(inflight, {rows[j].path})
    BY <1>6 DEF Adopt
  <2>2. UNCHANGED <<posts, listed>> /\ depth' = depth + 1 /\ pc = "filling" /\ pc' = "filling"
    BY <1>6 DEF Adopt, subgenVars
  <2>3. OwnPaths' = OwnPaths /\ OwnListed' = OwnListed
    BY <2>2 DEF OwnPaths, Sent, OwnListed
  <2>4. rows[j].path \notin OwnPaths
    BY <1>1, WaitingIsNotOwn
  <2>5. \A p \in OwnPaths' : p \in DOMAIN inflight
           => p \in DOMAIN inflight' /\ inflight'[p] = inflight[p]
    BY <2>1, <2>3, <2>4 DEF Drop
  <2>6. depth' \in Nat /\ depth <= depth'
    BY <1>1, <2>2
  <2>7. QED
    BY <1>1, <2>2, <2>3, <2>5, <2>6, QuietKeepsDepth
<1>7. CASE Pick
  <2>1. /\ UNCHANGED <<posts, listed, inflight, depth, target>>
        /\ pc = "filling" /\ pc' = "submitting" /\ depth < target
    BY <1>7 DEF Pick, MayFill, subgenVars
  <2>2. depth' \in Nat /\ depth <= depth' /\ depth' < target'
    BY <1>1, <2>1
  <2>3. QED
    BY <1>3, <2>1, <2>2, QuietKeepsDepth
<1>8. CASE SubmitRaises
  <2>1. UNCHANGED <<posts, listed, inflight, depth>> /\ pc = "submitting" /\ pc' = "filling"
    BY <1>8 DEF SubmitRaises, subgenVars
  <2>2. depth' \in Nat /\ depth <= depth'
    BY <1>1, <2>1
  <2>3. QED
    BY <1>3, <2>1, <2>2, QuietKeepsDepth
<1>9. ASSUME UNCHANGED <<pc, tickVars>>
      PROVE  /\ pc' = "answered" => UNCHANGED <<pc, seen, tickAge>>
             /\ depth' \in Nat
             /\ pc' \in {"filling", "submitting"}
                  => pc \in {"filling", "submitting"} /\ depth <= depth'
             /\ pc' = "submitting" => depth' < target'
  BY <1>1, <1>2, <1>9 DEF tickVars
<1>10. ASSUME NEW q \in posts, Skipped(q)
       PROVE  DepthInv'
  <2>1. /\ posts' = posts \ {q} /\ listed' = listed /\ UNCHANGED <<pc, tickVars>>
        /\ inflight' = Drop(inflight, {q.path})
    BY <1>10 DEF Skipped
  <2>2. OwnListed' = OwnListed
    BY <2>1 DEF OwnListed
  <2>3. q.path \notin OwnPaths'
    BY <1>1, <2>1, <2>2 DEF NoDoubleQueue, OwnPaths, Sent
  <2>4. \A p \in OwnPaths' : p \in DOMAIN inflight
           => p \in DOMAIN inflight' /\ inflight'[p] = inflight[p]
    BY <2>1, <2>3 DEF Drop
  <2>5. DOMAIN listed' = OwnListed' /\ OwnListed' \subseteq OwnListed /\ posts' \subseteq posts
    BY <1>1, <2>1, <2>2
  <2>6. QED
    BY <1>9, <2>1, <2>4, <2>5, QuietKeepsDepth
<1>11. ASSUME NEW q \in posts, PostLost(q)
       PROVE  DepthInv'
  <2>1. posts' = posts \ {q} /\ UNCHANGED <<listed, inflight, pc, tickVars>>
    BY <1>11 DEF PostLost
  <2>2. OwnListed' = OwnListed
    BY <2>1 DEF OwnListed
  <2>3. QED
    BY <1>1, <1>9, <2>1, <2>2, QuietKeepsDepth
<1>12. CASE Finish \/ SubgenRestarts
  <2>1. UNCHANGED <<inflight, pc, tickVars>> /\ posts' \subseteq posts
    BY <1>12 DEF Finish, SubgenRestarts
  <2>2. DOMAIN listed' \subseteq DOMAIN listed /\ \A p \in DOMAIN listed' : listed'[p] = listed[p]
    BY <1>12 DEF Finish, SubgenRestarts, Drop, Empty
  <2>3. DOMAIN listed' = OwnListed' /\ OwnListed' \subseteq OwnListed
    BY <1>1, <2>2 DEF OwnListed
  <2>4. QED
    BY <1>9, <2>1, <2>3, QuietKeepsDepth
<1>13. CASE Produce \/ UserRemoves \/ SetControl \/ UNCHANGED vars
  <2>1. UNCHANGED <<posts, listed, inflight, pc, tickVars>>
    BY <1>13 DEF Produce, UserRemoves, SetControl, vars, feederVars, subgenVars
  <2>2. QED
    BY <1>3, <1>9, <2>1, QuietKeepsDepth
<1>14. QED
  BY <1>4, <1>5, <1>6, <1>7, <1>8, <1>10, <1>11, <1>12, <1>13

LEMMA DepthInduction ==
    ASSUME DepthInv, [Next]_vars, SparesHanded, Alone, GraceSpansAnswer, ReservationSpansAnswers
    PROVE  DepthInv'
<1>1. QueuedOnceInv'
  BY QueuedOnceInduction DEF DepthInv
<1>2. CASE QueueAnswered
  BY <1>1, <1>2, AnswerKeepsDepth
<1>3. CASE FillStarts
  BY <1>1, <1>3, FillStartsCounts
<1>4. CASE SubmitReturns
  BY <1>1, <1>4, SubmitCounts
<1>5. ASSUME NEW q \in posts, Surface(q) PROVE DepthInv'
  BY <1>1, <1>5, SurfaceCounts
<1>6. CASE Clock
  BY <1>1, <1>6, ClockCounts
<1>7. CASE \/ TickStarts \/ QueueUnreadable \/ TickEnds \/ Adopt \/ Pick \/ SubmitRaises
           \/ (\E q \in posts : Skipped(q) \/ PostLost(q))
           \/ Finish \/ SubgenRestarts \/ Produce \/ UserRemoves \/ SetControl
           \/ UNCHANGED vars
  BY <1>1, <1>7, StepQuiet
<1>8. QED
  BY <1>2, <1>3, <1>4, <1>5, <1>6, <1>7 DEF Next, TickStep, PostResolves, Alone

LEMMA DepthInitially == Init => DepthInv
<1> SUFFICES ASSUME Init PROVE DepthInv
  OBVIOUS
<1>1. listed = Empty /\ posts = {} /\ pc = "idle" /\ MaxTarget \in Nat
  BY QueueFeederAssumption DEF Init
<1>2. DOMAIN listed = {} /\ OwnListed = {} /\ OwnPaths = {}
  BY <1>1 DEF OwnListed, OwnPaths, Sent, Empty
<1>3. Cardinality(OwnPaths) = 0
  BY <1>2, FS_EmptySet
<1>4. DepthCounts
  BY <1>1, <1>3 DEF DepthCounts
<1>5. SentReserved /\ MissedReserved /\ AnswerCounts
  BY <1>1, <1>2 DEF SentReserved, MissedReserved, AnswerCounts
<1>6. QED
  BY <1>2, <1>4, <1>5, QueuedOnceInitially DEF DepthInv

\* The invariant of the setting in which the user deletes waiting rows only.
SettingInv == setting = "depth" => DepthInv

\* "Depth-aware": subarr never has more unfinished work at subgen than the
\* deepest target the user set, although the depth is read before two awaits
\* and subgen lists a submission only some time after it was made; as long as
\* the process does not restart and no other client uses subgen, and both
\* graces are longer than it takes a submission to show up in an answer that is
\* used.
THEOREM DepthKept ==
    ASSUME "subarr_restart" \notin Faults, "foreign" \notin Faults,
           GraceSpansAnswer, ReservationSpansAnswers
    PROVE  SettingsSpec => []DepthIsKept
<1>1. Init => SettingInv
  BY DepthInitially DEF SettingInv
<1>2. SettingInv /\ [Next /\ UNCHANGED setting /\ InSetting]_<<vars, setting>> => SettingInv'
  <2> SUFFICES ASSUME SettingInv, [Next /\ UNCHANGED setting /\ InSetting]_<<vars, setting>>,
                      setting' = "depth"
               PROVE  DepthInv'
    BY DEF SettingInv
  <2>1. setting = "depth" /\ DepthInv /\ [Next]_vars
    BY DEF SettingInv
  <2>2. Alone
    BY DEF Alone, SubarrRestarts, ForeignRequest, Fault
  <2>3. CASE ~DeletesHandedOver
    <3>1. SparesHanded
      BY <2>3 DEF SparesHanded, UserRemoves, DeletesHandedOver
    <3>2. QED
      BY <2>1, <2>2, <3>1, DepthInduction
  <2>4. CASE UNCHANGED <<vars, setting>>
    <3>1. ~UserRemoves
      <4> SUFFICES ASSUME NEW j \in DOMAIN rows, RemoveRow(j) PROVE FALSE
        BY DEF UserRemoves
      <4>1. DOMAIN rows' = DOMAIN rows \ {j} /\ rows' = rows
        BY <2>4 DEF RemoveRow, DeleteRows, vars, queueVars
      <4>2. QED
        BY <4>1
    <3>2. SparesHanded
      BY <3>1 DEF SparesHanded
    <3>3. QED
      BY <2>1, <2>2, <3>2, DepthInduction
  <2>5. QED
    BY <2>1, <2>3, <2>4 DEF InSetting
<1>3. SettingInv => DepthIsKept
  <2> SUFFICES ASSUME SettingInv, setting = "depth" PROVE OwnWork <= MaxTarget
    BY DEF DepthIsKept, OwnWorkWithinTarget
  <2>1. DepthInv /\ IInv /\ NoDoubleQueue
    BY DEF SettingInv, DepthInv, QueuedOnceInv
  <2>2. QED
    BY <2>1, OwnWorkCounts DEF DepthInv, DepthCounts
<1>4. QED
  BY <1>1, <1>2, <1>3, PTL DEF SettingsSpec
=============================================================================
