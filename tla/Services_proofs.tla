--------------------------- MODULE Services_proofs --------------------------
(* Proofs about the services that MCServices composes: the boot of several   *)
(* processes on one database, the sweeps of the tuning lab, the scans for    *)
(* forced segments, the backlog of judged subtitles, the verdicts on spoken  *)
(* languages, and all of them and the single cases side by side.             *)
EXTENDS MCServices, Cases_proofs


----------------------------------------------------------------------------
(* Boot: what is recorded is applied. *)

\* Numbers of migrations and columns have a least one.
LEMMA LeastIsLeast ==
  ASSUME NEW S \in SUBSET Nat, S # {}
  PROVE  Least(S) \in S /\ \A y \in S : Least(S) <= y
<1> DEFINE R == OpToRel(<, Nat)
<1>1. IsWellFoundedOn(R, Nat)
  BY NatLessThanWellFounded
<1>2. \A x, y \in Nat : <<y, x>> \in R <=> y < x
  BY DEF OpToRel
<1> HIDE DEF R
<1>3. \E x \in S : \A y \in S : ~(<<y, x>> \in R)
  BY <1>1, WFMin
<1>4. ASSUME NEW x \in S, NEW y \in S, ~(<<y, x>> \in R)
      PROVE  x <= y
  <2>1. x \in Nat /\ y \in Nat
    OBVIOUS
  <2>2. ~(y < x)
    BY <1>2, <1>4, <2>1
  <2>3. QED
    BY <2>1, <2>2
<1>5. \E x \in S : \A y \in S : x <= y
  BY <1>3, <1>4
<1>6. QED
  BY <1>5 DEF Least

Boots == [at : {"down", "migrating", "locked", "running"}, todo : SUBSET Migrations, got : BOOLEAN]

\* A process that migrates has nothing left but what it has not seen recorded,
\* and goes upwards; its transaction is about the least that is left and holds
\* what the file's statements so far add to the schema.
BootInv ==
  /\ booting \in [Processes -> Boots]
  /\ recorded \subseteq Migrations
  /\ recorded \X Columns \subseteq schema
  /\ \A m \in recorded, n \in Migrations : n < m => n \in recorded
  /\ \A p \in Processes :
       /\ booting[p].at = "migrating" =>
            /\ Migrations \ booting[p].todo \subseteq recorded
            /\ \A m \in booting[p].todo, n \in Migrations : m < n => n \in booting[p].todo
       /\ booting[p].at \in {"locked", "running"} => recorded = Migrations
       /\ txn.by = p =>
            /\ booting[p].at = "migrating"
            /\ txn.m \in booting[p].todo /\ \A n \in booting[p].todo : txn.m <= n
            /\ txn.done \subseteq Columns
            /\ {txn.m} \X txn.done \subseteq schema \cup txn.added

LEMMA InitBootInv == BootInit => BootInv
<1> SUFFICES ASSUME BootInit PROVE BootInv
  OBVIOUS
<1> USE BootAssumption, ProcessesAssumption
<1>1. PICK applied \in {{}} \cup {{n \in Migrations : n <= m} : m \in Migrations} :
        recorded = applied /\ applied \X Columns \subseteq schema
  BY DEF BootInit
<1>2. applied \subseteq Migrations /\ \A m \in applied, n \in Migrations : n < m => n \in applied
  <2>1. CASE applied = {}
    BY <2>1
  <2>2. CASE \E k \in Migrations : applied = {n \in Migrations : n <= k}
    BY <2>2
  <2>3. QED
    BY <2>1, <2>2
<1>3. booting = [p \in Processes |-> Down] /\ Down \in Boots /\ Down.at = "down"
  BY DEF BootInit, Down, Boots
<1>4. \A p \in Processes : txn.by # p
  BY DEF BootInit, NoTxn
<1>5. QED
  BY <1>1, <1>2, <1>3, <1>4 DEF BootInv

LEMMA NextBootInv == BootInv /\ [BootNext]_bootVars => BootInv'
<1> SUFFICES ASSUME BootInv, [BootNext]_bootVars PROVE BootInv'
  OBVIOUS
<1> USE BootAssumption, ProcessesAssumption
<1>1. NoTxn.by \notin Processes /\ Down \in Boots /\ Down.at = "down"
  BY DEF NoTxn, Down, Boots
<1>2. ASSUME NEW p \in Processes, MigratorStarts(p)
      PROVE  BootInv'
  <2>1. booting' = [booting EXCEPT ![p] =
                      [at |-> "migrating", todo |-> Migrations \ recorded, got |-> FALSE]]
    BY <1>2 DEF MigratorStarts
  <2>2. txn.by # p /\ UNCHANGED <<schema, recorded, txn>>
    BY <1>1, <1>2 DEF MigratorStarts, BootInv
  <2>3. QED
    BY <2>1, <2>2 DEF BootInv, Boots
<1>3. ASSUME NEW p \in Processes, MigrationBegins(p)
      PROVE  BootInv'
  <2>1. /\ booting[p].todo \in SUBSET Nat /\ booting[p].todo # {}
        /\ booting[p].at = "migrating"
    BY <1>3 DEF MigrationBegins, BootInv, Boots
  <2>2. /\ Least(booting[p].todo) \in booting[p].todo
        /\ \A n \in booting[p].todo : Least(booting[p].todo) <= n
    BY <2>1, LeastIsLeast
  <2>3. /\ txn'.by = p /\ txn'.m = Least(booting[p].todo) /\ txn'.done = {} /\ txn'.added = {}
        /\ UNCHANGED <<schema, recorded, booting>>
    BY <1>3 DEF MigrationBegins
  <2>4. QED
    BY <2>1, <2>2, <2>3 DEF BootInv
<1>4. ASSUME NEW p \in Processes, MigratorWaitedTooLong(p)
      PROVE  BootInv'
  <2>1. txn.by # p /\ booting' = [booting EXCEPT ![p] = Down] /\ UNCHANGED <<schema, recorded, txn>>
    BY <1>4 DEF MigratorWaitedTooLong
  <2>2. QED
    BY <1>1, <2>1 DEF BootInv
<1>5. ASSUME NEW p \in Processes, StatementRuns(p)
      PROVE  BootInv'
  <2> DEFINE c == Least(Columns \ txn.done)
  <2>1. txn.by = p /\ txn.done \subseteq Columns
    BY <1>5 DEF StatementRuns, BootInv
  <2>2. c \in Columns
    <3>1. Columns \ txn.done \in SUBSET Nat /\ Columns \ txn.done # {}
      BY <1>5, <2>1 DEF StatementRuns
    <3>2. QED
      BY <3>1, LeastIsLeast
  <2>3. /\ txn' = [txn EXCEPT !.done = @ \cup {c}, !.added = @ \cup ({<<txn.m, c>>} \ schema)]
        /\ UNCHANGED <<schema, recorded, booting>>
    BY <1>5 DEF StatementRuns
  <2> HIDE DEF c
  <2>4. /\ txn'.by = txn.by /\ txn'.m = txn.m
        /\ txn'.done \subseteq txn.done \cup {c}
        /\ txn.added \cup ({<<txn.m, c>>} \ schema) \subseteq txn'.added
    BY <2>3
  <2>5. {txn'.m} \X txn'.done \subseteq schema' \cup txn'.added
    BY <2>1, <2>3, <2>4 DEF BootInv
  <2>6. QED
    BY <2>1, <2>2, <2>3, <2>4, <2>5 DEF BootInv
<1>6. ASSUME NEW p \in Processes, StatementFails(p)
      PROVE  BootInv'
  BY <1>1, <1>6 DEF StatementFails, BootInv
<1>7. ASSUME NEW p \in Processes, MigrationRecorded(p)
      PROVE  BootInv'
  <2>1. /\ txn.by = p /\ txn.done = Columns /\ booting[p].at = "migrating"
        /\ txn.m \in booting[p].todo /\ \A n \in booting[p].todo : txn.m <= n
        /\ txn.m \in Migrations
        /\ txn' = NoTxn
    BY <1>7 DEF MigrationRecorded, BootInv, Boots
  <2>2. booting' = [booting EXCEPT ![p].todo = @ \ {txn.m}]
    BY <1>7 DEF MigrationRecorded
  <2>3. recorded' = recorded \cup {txn.m} /\ schema \subseteq schema'
        /\ {txn.m} \X Columns \subseteq schema'
    BY <1>7, <2>1 DEF MigrationRecorded, BootInv
  <2>4. recorded' \subseteq Migrations /\ recorded' \X Columns \subseteq schema'
    BY <2>1, <2>3 DEF BootInv
  <2>5. \A m \in recorded', n \in Migrations : n < m => n \in recorded'
    <3>1. ASSUME NEW n \in Migrations, n < txn.m
          PROVE  n \notin booting[p].todo
      <4>1. n \in Nat /\ txn.m \in Nat
        BY <2>1
      <4>2. ~(txn.m <= n)
        BY <3>1, <4>1
      <4>3. QED
        BY <2>1, <4>2
    <3>2. \A n \in Migrations : n < txn.m => n \in recorded
      BY <2>1, <3>1 DEF BootInv
    <3>3. QED
      BY <2>3, <3>2 DEF BootInv
  <2>6. /\ booting' \in [Processes -> Boots]
        /\ \A q \in Processes \ {p} : booting'[q] = booting[q]
        /\ booting'[p].at = "migrating" /\ booting'[p].todo = booting[p].todo \ {txn.m}
    BY <2>1, <2>2 DEF BootInv, Boots
  <2>7. /\ Migrations \ booting'[p].todo \subseteq recorded'
        /\ \A m \in booting'[p].todo, n \in Migrations : m < n => n \in booting'[p].todo
    BY <2>1, <2>3, <2>6 DEF BootInv, Boots
  <2>8. \A q \in Processes : txn'.by # q
    BY <1>1, <2>1
  <2>9. \A q \in Processes : booting'[q].at \in {"locked", "running"} => recorded' = Migrations
    BY <2>1, <2>3, <2>4, <2>6 DEF BootInv
  <2>10. \A q \in Processes \ {p} : booting'[q].at = "migrating" =>
            /\ Migrations \ booting'[q].todo \subseteq recorded'
            /\ \A m \in booting'[q].todo, n \in Migrations : m < n => n \in booting'[q].todo
    BY <2>3, <2>6 DEF BootInv
  <2>11. QED
    BY <2>4, <2>5, <2>6, <2>7, <2>8, <2>9, <2>10 DEF BootInv
<1>8. ASSUME NEW p \in Processes, LockTried(p)
      PROVE  BootInv'
  <2>1. recorded = Migrations /\ txn.by # p /\ UNCHANGED <<schema, recorded, txn>>
    BY <1>8 DEF LockTried, BootInv
  <2>2. booting' \in [Processes -> Boots] /\ booting'[p].at = "locked"
        /\ \A q \in Processes \ {p} : booting'[q] = booting[q]
    <3> DEFINE locked == [booting[p] EXCEPT !.at = "locked", !.got = processLock = NoProcess]
    <3>1. locked \in Boots /\ locked.at = "locked"
      BY DEF BootInv, Boots
    <3>2. booting' = [booting EXCEPT ![p] = locked]
      BY <1>8 DEF LockTried
    <3> HIDE DEF locked
    <3>3. QED
      BY <3>1, <3>2 DEF BootInv
  <2>3. QED
    BY <2>1, <2>2 DEF BootInv
<1>9. ASSUME NEW p \in Processes, LockToldHealth(p)
      PROVE  BootInv'
  <2>1. recorded = Migrations /\ txn.by # p /\ UNCHANGED <<schema, recorded, txn>>
    BY <1>9 DEF LockToldHealth, BootInv
  <2>2. booting' \in [Processes -> Boots] /\ booting'[p].at = "running"
        /\ \A q \in Processes \ {p} : booting'[q] = booting[q]
    BY <1>9 DEF LockToldHealth, BootInv, Boots
  <2>3. QED
    BY <2>1, <2>2 DEF BootInv
<1>10. ASSUME NEW p \in Processes, ProcessEnds(p)
       PROVE  BootInv'
  <2>1. booting' = [booting EXCEPT ![p] = Down] /\ UNCHANGED <<schema, recorded>>
        /\ txn' = IF txn.by = p THEN NoTxn ELSE txn
    BY <1>10 DEF ProcessEnds
  <2>2. QED
    BY <1>1, <2>1 DEF BootInv
<1>11. CASE UNCHANGED bootVars
  BY <1>11 DEF bootVars, BootInv
<1>12. QED
  BY <1>2, <1>3, <1>4, <1>5, <1>6, <1>7, <1>8, <1>9, <1>10, <1>11 DEF BootNext

\* What the database says was applied is there in full and in order, and no
\* process serves before all of it is, for any number of processes, migrations
\* and columns, and wherever processes end, wait in vain or fail.
THEOREM RecordedApplied == BootSpec => []RecordedIsApplied
<1>1. BootInv => RecordedIsApplied
  BY DEF BootInv, RecordedIsApplied
<1>2. QED
  BY <1>1, InitBootInv, NextBootInv, PTL DEF BootSpec

----------------------------------------------------------------------------
(* Arena: the stored sweeps match the tasks. *)

SweepStates == {"none", "new", "waiting", "probing", "sweep", "over"}
SweepStatuses == Unfinished \cup {"done", "error"}
SweepRows == [status : SweepStatuses, lang : {"none", "heard", "user"}]

\* A run that was deleted while its task lives is noted as dropped until the
\* task is over, and before the service closes nothing but a deletion tells a
\* task to stop.
ArenaInv ==
  /\ sweepTask \in [Sweeps -> SweepStates]
  /\ DOMAIN sweepRow \subseteq Sweeps /\ sweepGone \subseteq Sweeps
  /\ \A r \in DOMAIN sweepRow : sweepRow[r] \in SweepRows
  /\ \A r \in Sweeps :
       /\ r \in sweepDropped => r \in sweepGone
       /\ r \in sweepGone /\ r \in LiveSweeps => r \in sweepDropped
       /\ r \in DOMAIN sweepRow \/ r \in sweepGone => sweepTask[r] # "none"
       /\ r \in sweepCancel /\ ~sweepClosing => r \in sweepDropped
  /\ RunsMatchTasks

LEMMA InitArenaInv == ArenaInit => ArenaInv
  BY DEF ArenaInit, ArenaInv, SweepStates, RunsMatchTasks, DeletedStaysGone, UnfinishedHasTask

\* A save of a live task, with a status that its next state can stand for.
LEMMA SaveKeeps ==
  ASSUME ArenaInv, NEW r \in LiveSweeps, NEW status \in SweepStatuses, NEW lang \in {"none", "heard"},
         NEW at \in SweepStates \ {"none"},
         Persist(r, status, lang),
         sweepTask' = [sweepTask EXCEPT ![r] = at],
         \/ at \in {"new", "waiting", "probing", "sweep"} /\ UNCHANGED <<sweepDropped, sweepCancel>>
         \/ /\ at = "over" /\ status \notin Unfinished
            /\ sweepDropped' = sweepDropped \ {r} /\ sweepCancel' = sweepCancel \ {r},
         UNCHANGED <<sweepGone, sweepClosing>>
  PROVE  ArenaInv'
<1>1. r \in Sweeps /\ \A q \in Sweeps : q \in LiveSweeps' <=>
         IF q = r THEN at # "over" ELSE q \in LiveSweeps
  BY DEF ArenaInv, LiveSweeps, SweepStates
<1>2. r \in sweepDropped <=> r \in sweepGone
  BY <1>1 DEF ArenaInv
<1>3. /\ DOMAIN sweepRow' = IF r \in sweepGone THEN DOMAIN sweepRow ELSE DOMAIN sweepRow \cup {r}
      /\ r \notin sweepGone => sweepRow'[r] = [status |-> status, lang |-> lang]
      /\ \A q \in DOMAIN sweepRow \ {r} : sweepRow'[q] = sweepRow[q]
  BY <1>2 DEF Persist, Stored
<1>4. sweepTask' \in [Sweeps -> SweepStates]
      /\ DOMAIN sweepRow' \subseteq Sweeps /\ sweepGone' \subseteq Sweeps
  BY <1>1, <1>3 DEF ArenaInv
<1>4a. \A q \in DOMAIN sweepRow' : sweepRow'[q] \in SweepRows
  BY <1>3 DEF ArenaInv, SweepRows, DeletedStaysGone, RunsMatchTasks
<1>5. \A q \in Sweeps :
        /\ q \in sweepDropped' => q \in sweepGone'
        /\ q \in sweepGone' /\ q \in LiveSweeps' => q \in sweepDropped'
        /\ q \in sweepCancel' /\ ~sweepClosing' => q \in sweepDropped'
  BY <1>1 DEF ArenaInv
<1>6. \A q \in Sweeps : q \in DOMAIN sweepRow' \/ q \in sweepGone' => sweepTask'[q] # "none"
  BY <1>1, <1>3 DEF ArenaInv
<1>7. DeletedStaysGone'
  BY <1>3 DEF ArenaInv, RunsMatchTasks, DeletedStaysGone
<1>8. UnfinishedHasTask'
  BY <1>1, <1>3, <1>7 DEF ArenaInv, RunsMatchTasks, UnfinishedHasTask, DeletedStaysGone
<1>9. QED
  BY <1>4a, <1>4, <1>5, <1>6, <1>7, <1>8 DEF ArenaInv, RunsMatchTasks

LEMMA NextArenaInv == ArenaInv /\ [ArenaNext]_arenaVars => ArenaInv'
<1> SUFFICES ASSUME ArenaInv, [ArenaNext]_arenaVars PROVE ArenaInv'
  OBVIOUS
<1>1. sweepTask \in [Sweeps -> SweepStates]
  BY DEF ArenaInv
\* a step of a task that saves nothing
<1>2. ASSUME NEW r \in LiveSweeps, NEW at \in {"waiting", "probing", "sweep"},
             sweepTask' = [sweepTask EXCEPT ![r] = at],
             UNCHANGED <<sweepRow, sweepDropped, sweepCancel, sweepGone, sweepClosing>>
      PROVE  ArenaInv'
  <2>1. LiveSweeps' = LiveSweeps /\ \A q \in Sweeps : sweepTask'[q] = "none" <=> sweepTask[q] = "none"
    BY <1>1, <1>2 DEF LiveSweeps
  <2>2. sweepTask' \in [Sweeps -> SweepStates]
    BY <1>1, <1>2 DEF SweepStates
  <2>3. QED
    BY <1>2, <2>1, <2>2 DEF ArenaInv, RunsMatchTasks, DeletedStaysGone, UnfinishedHasTask
<1>3. CASE SweepsSubmitted
  <2>1. PICK new \in SUBSET {r \in Sweeps : sweepTask[r] = "none"} :
           /\ DOMAIN sweepRow' = DOMAIN sweepRow \cup new
           /\ \A q \in DOMAIN sweepRow \ new : sweepRow'[q] = sweepRow[q]
           /\ \A q \in new : sweepRow'[q] = [status |-> "pending", lang |-> "none"]
           /\ sweepTask' = [r \in Sweeps |-> IF r \in new THEN "new" ELSE sweepTask[r]]
    BY <1>3 DEF SweepsSubmitted
  <2>2. UNCHANGED <<sweepDropped, sweepCancel, sweepGone, sweepClosing>>
    BY <1>3 DEF SweepsSubmitted
  <2>3. sweepTask' \in [Sweeps -> SweepStates]
    BY <1>1, <2>1 DEF SweepStates
  <2>4. \A q \in Sweeps : q \in LiveSweeps' <=> q \in new \/ q \in LiveSweeps
    BY <1>1, <2>1 DEF LiveSweeps
  <2>5. new \cap sweepGone = {} /\ new \cap DOMAIN sweepRow = {}
    BY DEF ArenaInv
  <2>6. \A q \in DOMAIN sweepRow' : sweepRow'[q] \in SweepRows
    BY <2>1 DEF ArenaInv, SweepRows, SweepStatuses, Unfinished
  <2>7. QED
    BY <2>1, <2>2, <2>3, <2>4, <2>5, <2>6
       DEF ArenaInv, RunsMatchTasks, DeletedStaysGone, UnfinishedHasTask
<1>4. ASSUME NEW r \in Sweeps, SweepStarts(r)
      PROVE  ArenaInv'
  <2>1. r \in LiveSweeps
    BY <1>4 DEF SweepStarts, LiveSweeps
  <2>2. QED
    BY <1>4, <2>1, SaveKeeps DEF SweepStarts, SweepStates, SweepStatuses, Unfinished
<1>5. ASSUME NEW r \in Sweeps, SlotTaken(r)
      PROVE  ArenaInv'
  <2>1. r \in LiveSweeps
    BY <1>5 DEF SlotTaken, LiveSweeps
  <2>2. QED
    BY <1>2, <1>5, <2>1 DEF SlotTaken
<1>6. ASSUME NEW r \in Sweeps,
             CapacityFree(r) \/ CapacityBusy(r) \/ CapacityUnread(r) \/ SweepSteps(r)
      PROVE  ArenaInv'
  <2>1. r \in LiveSweeps
    BY <1>6 DEF CapacityFree, CapacityBusy, CapacityUnread, SweepSteps, LiveSweeps
  <2>2. UNCHANGED <<sweepDropped, sweepCancel, sweepGone, sweepClosing>>
    BY <1>6 DEF CapacityFree, CapacityBusy, CapacityUnread, SweepSteps
  <2>3. CASE SweepBegins(r)
    BY <2>1, <2>2, <2>3, SaveKeeps DEF SweepBegins, SweepStates, SweepStatuses, Unfinished
  <2>4. CASE UNCHANGED sweepTask /\ \E status \in SweepStatuses : Persist(r, status, "none")
    <3>1. sweepTask' = [sweepTask EXCEPT ![r] = sweepTask[r]]
          /\ sweepTask[r] \in {"new", "waiting", "probing", "sweep"}
      BY <1>1, <2>1, <2>4 DEF LiveSweeps
    <3>2. QED
      BY <2>1, <2>2, <2>4, <3>1, SaveKeeps DEF SweepStates
  <2>5. CASE UNCHANGED <<sweepRow, sweepTask>>
    BY <2>2, <2>5 DEF ArenaInv, RunsMatchTasks, DeletedStaysGone, UnfinishedHasTask, LiveSweeps
  <2>6. QED
    BY <1>6, <2>3, <2>4, <2>5
       DEF CapacityFree, CapacityBusy, CapacityUnread, SweepSteps, SweepStatuses, Unfinished
<1>7. ASSUME NEW r \in Sweeps, SweepDone(r) \/ SweepFailed(r) \/ CancelHeard(r)
      PROVE  ArenaInv'
  <2>1. r \in LiveSweeps
    BY <1>7 DEF SweepDone, SweepFailed, CancelHeard, LiveSweeps
  <2>2. TaskOver(r) /\ UNCHANGED <<sweepGone, sweepClosing>>
        /\ \E status \in {"done", "error"}, lang \in {"none", "heard"} : Persist(r, status, lang)
    BY <1>7 DEF SweepDone, SweepFailed, CancelHeard
  <2>3. QED
    BY <2>1, <2>2, SaveKeeps DEF TaskOver, SweepStates, SweepStatuses, Unfinished
<1>8. ASSUME NEW r \in Sweeps, CancelledUnbegun(r)
      PROVE  ArenaInv'
  <2>1. /\ r \in LiveSweeps /\ r \in sweepCancel
        /\ sweepTask' = [sweepTask EXCEPT ![r] = "over"] /\ sweepCancel' = sweepCancel \ {r}
        /\ UNCHANGED <<sweepRow, sweepDropped, sweepGone, sweepClosing>>
    BY <1>8 DEF CancelledUnbegun, LiveSweeps
  <2>2. sweepTask' \in [Sweeps -> SweepStates]
    BY <1>1, <2>1 DEF SweepStates
  <2>3. \A q \in Sweeps : q \in LiveSweeps' <=> q # r /\ q \in LiveSweeps
    BY <1>1, <2>1 DEF LiveSweeps
  <2>4. ~sweepClosing => r \notin DOMAIN sweepRow
    BY <2>1 DEF ArenaInv, RunsMatchTasks, DeletedStaysGone
  <2>5. QED
    BY <2>1, <2>2, <2>3, <2>4 DEF ArenaInv, RunsMatchTasks, DeletedStaysGone, UnfinishedHasTask
<1>9. ASSUME NEW r \in Sweeps, SweepDeleted(r)
      PROVE  ArenaInv'
  <2>1. /\ r \in DOMAIN sweepRow /\ DOMAIN sweepRow' = DOMAIN sweepRow \ {r}
        /\ \A q \in DOMAIN sweepRow' : sweepRow'[q] = sweepRow[q]
        /\ sweepDropped' = sweepDropped \cup {r} /\ sweepGone' = sweepGone \cup {r}
        /\ sweepCancel' \subseteq sweepCancel \cup {r}
        /\ UNCHANGED <<sweepTask, sweepClosing>>
    BY <1>9 DEF SweepDeleted
  <2>2. LiveSweeps' = LiveSweeps
    BY <2>1 DEF LiveSweeps
  <2>3. QED
    BY <2>1, <2>2 DEF ArenaInv, RunsMatchTasks, DeletedStaysGone, UnfinishedHasTask
<1>10. ASSUME NEW r \in Sweeps, SweepNamed(r)
       PROVE  ArenaInv'
  <2>1. /\ DOMAIN sweepRow' = DOMAIN sweepRow
        /\ \A q \in DOMAIN sweepRow :
              sweepRow'[q] \in SweepRows /\ sweepRow'[q].status = sweepRow[q].status
        /\ UNCHANGED <<sweepTask, sweepCancel, sweepDropped, sweepGone, sweepClosing>>
    BY <1>10 DEF SweepNamed, ArenaInv, SweepRows
  <2>2. LiveSweeps' = LiveSweeps
    BY <2>1 DEF LiveSweeps
  <2>3. QED
    BY <2>1, <2>2 DEF ArenaInv, RunsMatchTasks, DeletedStaysGone, UnfinishedHasTask
<1>11. CASE ArenaCloses
  <2>1. LiveSweeps' = LiveSweeps /\ sweepClosing' = TRUE
        /\ UNCHANGED <<sweepRow, sweepTask, sweepDropped, sweepGone>>
    BY <1>11 DEF ArenaCloses, LiveSweeps
  <2>2. QED
    BY <2>1 DEF ArenaInv, RunsMatchTasks, DeletedStaysGone, UnfinishedHasTask
<1>12. CASE ArenaBoots
  <2>1. /\ DOMAIN sweepRow' \subseteq DOMAIN sweepRow
        /\ \A r \in DOMAIN sweepRow' : sweepRow'[r] = Reconciled[r]
        /\ sweepTask' = [r \in Sweeps |-> IF sweepTask[r] = "none" THEN "none" ELSE "over"]
        /\ sweepCancel' = {} /\ sweepDropped' = {}
        /\ UNCHANGED sweepGone
    BY <1>12 DEF ArenaBoots
  <2>2. \A r \in DOMAIN sweepRow' : sweepRow'[r] \in SweepRows /\ sweepRow'[r].status \notin Unfinished
    <3>1. ASSUME NEW r \in DOMAIN sweepRow'
          PROVE  sweepRow'[r] \in SweepRows /\ sweepRow'[r].status \notin Unfinished
      <4>1. CASE sweepRow[r].status \in Unfinished
        <5>1. sweepRow[r] \in SweepRows /\ sweepRow'[r] = [sweepRow[r] EXCEPT !.status = "error"]
          BY <2>1, <4>1 DEF Reconciled, ArenaInv
        <5>2. QED
          BY <5>1 DEF SweepRows, SweepStatuses, Unfinished
      <4>2. CASE sweepRow[r].status \notin Unfinished
        BY <2>1, <4>2 DEF Reconciled, ArenaInv
      <4>3. QED
        BY <4>1, <4>2
    <3>2. QED
      BY <3>1
  <2>3. sweepTask' \in [Sweeps -> SweepStates] /\ LiveSweeps' = {}
    BY <1>1, <2>1 DEF SweepStates, LiveSweeps
  <2>4. QED
    BY <2>1, <2>2, <2>3 DEF ArenaInv, RunsMatchTasks, DeletedStaysGone, UnfinishedHasTask
<1>13. CASE UNCHANGED arenaVars
  BY <1>13 DEF arenaVars, ArenaInv, RunsMatchTasks, DeletedStaysGone, UnfinishedHasTask, LiveSweeps
<1>14. QED
  BY <1>3, <1>4, <1>5, <1>6, <1>7, <1>8, <1>9, <1>10, <1>11, <1>12, <1>13
     DEF ArenaNext, SweepRuns

\* A deleted sweep is not written again, and a row shown as unfinished has a
\* task that will write it, for any number of sweeps and however deletions,
\* saves, cancellations, shutdowns and crashes interleave.
THEOREM SweepsMatchTasks == ArenaSpec => []RunsMatchTasks
<1>1. ArenaInv => RunsMatchTasks
  BY DEF ArenaInv
<1>2. QED
  BY <1>1, InitArenaInv, NextArenaInv, PTL DEF ArenaSpec

----------------------------------------------------------------------------
(* Forced segments: what spares a file another scan was heard in it. *)

Scans == [at : {"vad", "lid", "translate", "write", "empty", "written"}, film : Films,
          version : Nat, heard : Nat, outage : BOOLEAN]
ForcedRows == [status : {"unscanned", "vad-unavailable", "error"} \cup Terminal,
               version : Nat, heard : Nat, outage : BOOLEAN]

\* what was found out of a version, if that version is the file's, was heard in it
HeardIn(got, f) ==
  got.version <= film[f].version /\ (got.version = film[f].version => got.heard = got.version)

\* The same holds of a scan under way, whose version is the one at its start and
\* whose sound is taken later; a row of a failed scan is not believed.
ForcedInv ==
  /\ film \in [Films -> [version : Nat, scenes : BOOLEAN]]
  /\ forcedRow \in [Films -> ForcedRows]
  /\ scanner \in [Scanners -> {NoScan} \cup Scans]
  /\ \A f \in Films : forcedRow[f].status \in Terminal => HeardIn(forcedRow[f], f)
  /\ \A s \in Scanners : scanner[s] # NoScan => HeardIn(scanner[s], scanner[s].film)

LEMMA InitForcedInv == ForcedInit => ForcedInv
<1> SUFFICES ASSUME ForcedInit PROVE ForcedInv
  OBVIOUS
<1>1. film \in [Films -> [version : Nat, scenes : BOOLEAN]]
  BY DEF ForcedInit
<1>2. forcedRow \in [Films -> ForcedRows] /\ \A f \in Films : forcedRow[f].status = "unscanned"
  BY DEF ForcedInit, ForcedRows
<1>3. scanner \in [Scanners -> {NoScan} \cup Scans] /\ \A s \in Scanners : scanner[s] = NoScan
  BY DEF ForcedInit
<1>4. QED
  BY <1>1, <1>2, <1>3 DEF ForcedInv, Terminal

\* NoScan is no scan.
LEMMA UnderWay ==
  ASSUME ForcedInv, NEW s \in Scanners, scanner[s].at # "idle"
  PROVE  scanner[s] \in Scans /\ scanner[s] # NoScan /\ HeardIn(scanner[s], scanner[s].film)
  BY DEF ForcedInv, NoScan

\* A scan ends with a verdict, or with a row that is not believed.
LEMMA ScanEndKeeps ==
  ASSUME ForcedInv, NEW s \in Scanners, scanner[s] \in Scans, HeardIn(scanner[s], scanner[s].film),
         ScanEnds(s), film' = film,
         NEW row \in ForcedRows, forcedRow' = [forcedRow EXCEPT ![scanner[s].film] = row],
         \/ row.status \notin Terminal
         \/ row.version = scanner[s].version /\ row.heard = scanner[s].heard
  PROVE  ForcedInv'
<1>1. scanner[s].film \in Films
  BY DEF Scans
<1>2. forcedRow' \in [Films -> ForcedRows] /\ scanner' \in [Scanners -> {NoScan} \cup Scans]
  BY <1>1 DEF ForcedInv, ScanEnds
<1>3. ASSUME NEW f \in Films, forcedRow'[f].status \in Terminal
      PROVE  HeardIn(forcedRow[f], f)'
  <2>1. CASE f = scanner[s].film
    <3>1. forcedRow'[f] = row
      BY <2>1 DEF ForcedInv
    <3>2. row.version = scanner[s].version /\ row.heard = scanner[s].heard
      BY <1>3, <3>1
    <3>3. QED
      BY <2>1, <3>1, <3>2 DEF HeardIn
  <2>2. CASE f # scanner[s].film
    BY <1>1, <1>3, <2>2 DEF ForcedInv, HeardIn
  <2>3. QED
    BY <2>1, <2>2
<1>4. \A w \in Scanners : scanner'[w] # NoScan => HeardIn(scanner[w], scanner[w].film)'
  BY DEF ForcedInv, HeardIn, ScanEnds
<1>5. film' \in [Films -> [version : Nat, scenes : BOOLEAN]]
  BY DEF ForcedInv
<1>6. QED
  BY <1>2, <1>3, <1>4, <1>5 DEF ForcedInv, HeardIn

\* A scan goes on, or begins.
LEMMA ScanGoesOn ==
  ASSUME ForcedInv, NEW s \in Scanners, UNCHANGED <<film, forcedRow>>,
         NEW c \in Scans, HeardIn(c, c.film), scanner' = [scanner EXCEPT ![s] = c]
  PROVE  ForcedInv'
<1>1. scanner' \in [Scanners -> {NoScan} \cup Scans] /\ scanner'[s] = c
      /\ \A w \in Scanners \ {s} : scanner'[w] = scanner[w]
  BY DEF ForcedInv
<1>2. /\ film' \in [Films -> [version : Nat, scenes : BOOLEAN]]
      /\ forcedRow' \in [Films -> ForcedRows]
      /\ \A f \in Films : forcedRow'[f].status \in Terminal => HeardIn(forcedRow[f], f)'
  BY DEF ForcedInv, HeardIn
<1>3. \A w \in Scanners : scanner'[w] # NoScan => HeardIn(scanner[w], scanner[w].film)'
  BY <1>1 DEF ForcedInv, HeardIn
<1>4. QED
  BY <1>1, <1>2, <1>3 DEF ForcedInv, HeardIn

LEMMA NextForcedInv == ForcedInv /\ [ForcedNext]_forcedVars => ForcedInv'
<1> SUFFICES ASSUME ForcedInv, [ForcedNext]_forcedVars PROVE ForcedInv'
  OBVIOUS
<1> USE ForcedAssumption
<1>1. film \in [Films -> [version : Nat, scenes : BOOLEAN]] /\ forcedRow \in [Films -> ForcedRows]
      /\ scanner \in [Scanners -> {NoScan} \cup Scans] /\ Walkers \subseteq Scanners
  BY DEF ForcedInv, Scanners
\* steps that leave files, rows and scans alone, or end scans
<1>2. ASSUME UNCHANGED <<film, forcedRow>>,
             \A s \in Scanners : scanner'[s] \in {scanner[s], NoScan},
             scanner' \in [Scanners -> {NoScan} \cup Scans]
      PROVE  ForcedInv'
  BY <1>2 DEF ForcedInv, HeardIn
<1>3. ASSUME NEW s \in Walkers, WalkAskedFor(s) \/ WalkStarted(s) \/ WalkStopped(s)
      PROVE  ForcedInv'
  BY <1>1, <1>2, <1>3 DEF WalkAskedFor, WalkStarted, WalkStopped, ScanEnds
<1>4. ASSUME NEW s \in Scanners, ScanBegins(s)
      PROVE  ForcedInv'
  <2>1. PICK f \in Films :
          \/ UNCHANGED <<forcedRow, scanner>>
          \/ /\ UNCHANGED scanner
             /\ forcedRow' = [forcedRow EXCEPT ![f] =
                  [status |-> "exists", version |-> film[f].version,
                   heard |-> film[f].version, outage |-> FALSE]]
          \/ /\ UNCHANGED forcedRow
             /\ scanner' = [scanner EXCEPT ![s] =
                  [at |-> "vad", film |-> f, version |-> film[f].version,
                   heard |-> film[f].version, outage |-> FALSE]]
    BY <1>4 DEF ScanBegins
  <2>2. film' = film
    BY <1>4 DEF ScanBegins
  <2>3. film[f].version \in Nat
    BY <1>1
  <2>4. CASE UNCHANGED <<forcedRow, scanner>>
    BY <1>1, <1>2, <2>2, <2>4
  <2>5. CASE /\ UNCHANGED scanner
             /\ forcedRow' = [forcedRow EXCEPT ![f] =
                  [status |-> "exists", version |-> film[f].version,
                   heard |-> film[f].version, outage |-> FALSE]]
    <3> DEFINE row == [status |-> "exists", version |-> film[f].version,
                       heard |-> film[f].version, outage |-> FALSE]
    <3>1. row \in ForcedRows /\ HeardIn(row, f)
      BY <2>3 DEF ForcedRows, Terminal, HeardIn
    <3> HIDE DEF row
    <3>2. forcedRow' \in [Films -> ForcedRows] /\ forcedRow'[f] = row
          /\ \A g \in Films \ {f} : forcedRow'[g] = forcedRow[g]
      BY <1>1, <2>5, <3>1 DEF row
    <3>3. QED
      BY <2>2, <2>5, <3>1, <3>2 DEF ForcedInv, HeardIn
  <2>6. CASE /\ UNCHANGED forcedRow
             /\ scanner' = [scanner EXCEPT ![s] =
                  [at |-> "vad", film |-> f, version |-> film[f].version,
                   heard |-> film[f].version, outage |-> FALSE]]
    <3> DEFINE c == [at |-> "vad", film |-> f, version |-> film[f].version,
                     heard |-> film[f].version, outage |-> FALSE]
    <3>1. c \in Scans /\ HeardIn(c, c.film)
      BY <2>3 DEF Scans, HeardIn
    <3> HIDE DEF c
    <3>2. QED
      BY <2>2, <2>6, <3>1, ScanGoesOn DEF c
  <2>7. QED
    BY <2>1, <2>4, <2>5, <2>6
\* a verdict of any status, with what the scan holds
<1>5. ASSUME NEW s \in Scanners, scanner[s].at # "idle", ScanEnds(s), film' = film,
             NEW status \in {"vad-unavailable"} \cup Terminal, ForcedVerdict(s, status)
      PROVE  ForcedInv'
  <2> DEFINE row == [status |-> status, version |-> scanner[s].version,
                     heard |-> scanner[s].heard, outage |-> scanner[s].outage]
  <2>1. scanner[s] \in Scans /\ HeardIn(scanner[s], scanner[s].film)
    BY <1>5, UnderWay
  <2>2. row \in ForcedRows /\ row.version = scanner[s].version /\ row.heard = scanner[s].heard
    BY <2>1 DEF Scans, ForcedRows
  <2>3. forcedRow' = [forcedRow EXCEPT ![scanner[s].film] = row]
    BY <1>5 DEF ForcedVerdict
  <2> HIDE DEF row
  <2>4. QED
    BY <1>5, <2>1, <2>2, <2>3, ScanEndKeeps
<1>6. ASSUME NEW s \in Scanners, SpeechHeard(s)
      PROVE  ForcedInv'
  <2>1. scanner[s].at # "idle" /\ scanner[s] \in Scans /\ HeardIn(scanner[s], scanner[s].film)
        /\ film' = film
    BY <1>6, UnderWay DEF SpeechHeard
  <2>2. CASE vadHere
    <3> DEFINE c == [scanner[s] EXCEPT !.at = "lid", !.heard = film[scanner[s].film].version]
    <3>1. c \in Scans /\ c.film = scanner[s].film /\ c.version = scanner[s].version
          /\ c.heard = film[c.film].version
      BY <1>1, <2>1 DEF Scans
    <3>2. scanner' = [scanner EXCEPT ![s] = c] /\ forcedRow' = forcedRow
      BY <1>1, <1>6, <2>2 DEF SpeechHeard
    <3> HIDE DEF c
    <3>3. HeardIn(c, c.film)
      BY <2>1, <3>1 DEF HeardIn
    <3>4. QED
      BY <2>1, <3>1, <3>2, <3>3, ScanGoesOn
  <2>3. CASE ~vadHere
    BY <1>5, <1>6, <2>1, <2>3 DEF SpeechHeard
  <2>4. QED
    BY <2>2, <2>3
<1>7. ASSUME NEW s \in Scanners, NothingHeard(s) \/ NoScenes(s) \/ NoCues(s) \/ ForcedRecorded(s)
      PROVE  ForcedInv'
  BY <1>5, <1>7 DEF NothingHeard, NoScenes, NoCues, ForcedRecorded, Terminal
\* a scan moves on with the same version and the same sound
<1>8. ASSUME NEW s \in Scanners, UNCHANGED <<film, forcedRow>>, NEW c \in Scans,
             scanner[s].at # "idle", scanner' = [scanner EXCEPT ![s] = c],
             c.film = scanner[s].film /\ c.version = scanner[s].version /\ c.heard = scanner[s].heard
      PROVE  ForcedInv'
  <2>1. HeardIn(c, c.film)
    BY <1>8, UnderWay DEF HeardIn
  <2>2. QED
    BY <1>8, <2>1, ScanGoesOn
<1>9. ASSUME NEW s \in Scanners, ScenesFound(s) \/ Translated(s) \/ ForcedWritten(s)
      PROVE  ForcedInv'
  <2>1. /\ scanner[s].at # "idle" /\ scanner[s] \in Scans
        /\ UNCHANGED <<film, forcedRow>>
    BY <1>9, UnderWay DEF ScenesFound, Translated, ForcedWritten
  <2>2. CASE \E at \in {"translate", "write", "written"} :
               scanner' = [scanner EXCEPT ![s].at = at]
    <3>1. PICK at \in {"translate", "write", "written"} : scanner' = [scanner EXCEPT ![s].at = at]
      BY <2>2
    <3> DEFINE c == [scanner[s] EXCEPT !.at = at]
    <3>2. c \in Scans /\ c.film = scanner[s].film /\ c.version = scanner[s].version
          /\ c.heard = scanner[s].heard /\ scanner' = [scanner EXCEPT ![s] = c]
      BY <1>1, <2>1, <3>1 DEF Scans
    <3> HIDE DEF c
    <3>3. QED
      BY <1>8, <2>1, <3>2
  <2>3. CASE scanner' = [scanner EXCEPT ![s].at = "empty", ![s].outage = ~subgenHere]
    <3> DEFINE c == [scanner[s] EXCEPT !.at = "empty", !.outage = ~subgenHere]
    <3>1. c \in Scans /\ c.film = scanner[s].film /\ c.version = scanner[s].version
          /\ c.heard = scanner[s].heard /\ scanner' = [scanner EXCEPT ![s] = c]
      BY <1>1, <2>1, <2>3 DEF Scans
    <3> HIDE DEF c
    <3>2. QED
      BY <1>8, <2>1, <3>1
  <2>4. QED
    BY <1>9, <2>2, <2>3 DEF ScenesFound, Translated, ForcedWritten
<1>10. ASSUME NEW s \in Scanners, LidUnanswered(s)
       PROVE  ForcedInv'
  <2> DEFINE row == [status |-> "bailed", version |-> scanner[s].version,
                     heard |-> scanner[s].heard, outage |-> TRUE]
  <2>1. scanner[s] \in Scans /\ HeardIn(scanner[s], scanner[s].film)
    BY <1>10, UnderWay DEF LidUnanswered
  <2>2. row \in ForcedRows /\ row.version = scanner[s].version /\ row.heard = scanner[s].heard
    BY <2>1 DEF Scans, ForcedRows, Terminal
  <2>3. forcedRow' = [forcedRow EXCEPT ![scanner[s].film] = row] /\ ScanEnds(s) /\ film' = film
    BY <1>10 DEF LidUnanswered
  <2> HIDE DEF row
  <2>4. QED
    BY <2>1, <2>2, <2>3, ScanEndKeeps
<1>11. ASSUME NEW s \in Scanners, ScanFails(s)
       PROVE  ForcedInv'
  <2> DEFINE row == [status |-> "error", version |-> film[scanner[s].film].version,
                     heard |-> scanner[s].heard, outage |-> FALSE]
  <2>1. scanner[s] \in Scans /\ HeardIn(scanner[s], scanner[s].film)
    BY <1>11 DEF ScanFails, ForcedInv
  <2>2. row \in ForcedRows /\ row.status \notin Terminal
    BY <1>1, <2>1 DEF Scans, ForcedRows, Terminal
  <2>3. forcedRow' = [forcedRow EXCEPT ![scanner[s].film] = row] /\ ScanEnds(s) /\ film' = film
    BY <1>11 DEF ScanFails
  <2> HIDE DEF row
  <2>4. QED
    BY <2>1, <2>2, <2>3, ScanEndKeeps
<1>12. CASE FilmReplaced
  <2>1. PICK f \in Films, scenes \in BOOLEAN :
           film' = [film EXCEPT ![f] = [version |-> @.version + 1, scenes |-> scenes]]
    BY <1>12 DEF FilmReplaced
  <2>2. film' \in [Films -> [version : Nat, scenes : BOOLEAN]]
        /\ film'[f].version = film[f].version + 1
        /\ \A g \in Films \ {f} : film'[g] = film[g]
    BY <1>1, <2>1
  <2>3. \A g \in Films, got \in ForcedRows \cup Scans : HeardIn(got, g) => HeardIn(got, g)'
    BY <1>1, <2>2 DEF HeardIn, ForcedRows, Scans
  <2>4. UNCHANGED <<forcedRow, scanner>>
    BY <1>12 DEF FilmReplaced
  <2>5. QED
    BY <1>1, <2>2, <2>3, <2>4 DEF ForcedInv, Scans
<1>13. CASE UserPutsForced \/ ServicesChange \/ UNCHANGED forcedVars
  BY <1>1, <1>2, <1>13 DEF UserPutsForced, ServicesChange, forcedVars
<1>14. CASE ForcedBoots
  BY <1>2, <1>14 DEF ForcedBoots
<1>15. QED
  BY <1>3, <1>4, <1>6, <1>7, <1>9, <1>10, <1>11, <1>12, <1>13, <1>14 DEF ForcedNext

\* What spares a file another scan was heard in this version of it, for any
\* files, scans and versions: a file may be replaced anywhere in a scan.
THEOREM SparedWasHeard == ForcedSpec => []VerdictsAreOfThisFile
<1>1. ForcedInv => VerdictsAreOfThisFile
  BY DEF ForcedInv, VerdictsAreOfThisFile, CacheHit, HeardIn
<1>2. QED
  BY <1>1, InitForcedInv, NextForcedInv, PTL DEF ForcedSpec

----------------------------------------------------------------------------
(* Aftercare: the backlog of judgements a user has to review. *)

Judgements == [id : Nat, path : Jobs \cup Sidecars, source : {"job", "audit"},
               flagged : BOOLEAN, reviewed : BOOLEAN, old : BOOLEAN]
Audits == [running : BOOLEAN, todo : SUBSET Sidecars, at : {"idle", "starting", "walking"}]

\* No row is newer than the last id given.
AftercareInv ==
  /\ results \subseteq Judgements
  /\ lastResult \in Nat
  /\ \A r \in results : r.id <= lastResult
  /\ audit \in Audits

\* what may become of a row of the backlog in a step
KeptInBacklog(r) ==
  \/ \E s \in Backlog' : s.id = r.id
  \/ \E s \in results' : s.id = r.id /\ s.reviewed
  \/ \E s \in results' : s.path = r.path /\ s.id > r.id

LEMMA InitAftercareInv == AftercareInit => AftercareInv
  BY DEF AftercareInit, AftercareInv, NoAudit, Audits

LEMMA RecordKeeps ==
  ASSUME AftercareInv, NEW path \in Jobs \cup Sidecars, NEW source \in {"job", "audit"},
         NEW flagged \in BOOLEAN, Record(path, source, flagged), audit' \in Audits
  PROVE  AftercareInv' /\ \A r \in Backlog : KeptInBacklog(r)
<1> DEFINE new == [id |-> lastResult + 1, path |-> path, source |-> source,
                   flagged |-> flagged, reviewed |-> FALSE, old |-> FALSE]
<1>1. new \in Judgements /\ new.id = lastResult + 1 /\ new.path = path
  BY DEF AftercareInv, Judgements
<1>2. results' = results \cup {new} /\ lastResult' = lastResult + 1
  BY DEF Record
<1> HIDE DEF new
<1>3. \A r \in results : r.id \in Nat /\ r.id <= lastResult /\ lastResult \in Nat
  BY DEF AftercareInv, Judgements
<1>4. AftercareInv'
  BY <1>1, <1>2, <1>3 DEF AftercareInv
<1>5. ASSUME NEW r \in Backlog
      PROVE  KeptInBacklog(r)
  <2>1. r \in results /\ r.flagged /\ ~r.reviewed /\ \A s \in results : s.path = r.path => s.id <= r.id
    BY DEF Backlog, Latest
  <2>2. CASE r.path = path
    <3>1. new \in results' /\ new.path = r.path /\ new.id > r.id
      BY <1>1, <1>2, <1>3, <2>1, <2>2
    <3>2. QED
      BY <3>1 DEF KeptInBacklog
  <2>3. CASE r.path # path
    <3>1. r \in Backlog'
      BY <1>1, <1>2, <2>1, <2>3 DEF Backlog, Latest
    <3>2. QED
      BY <3>1 DEF KeptInBacklog
  <2>4. QED
    BY <2>2, <2>3
<1>6. QED
  BY <1>4, <1>5

\* Rows marked in place keep their ids and paths.
LEMMA MarkKeeps ==
  ASSUME AftercareInv, NEW mark,
         \A r \in results :
            /\ mark[r] \in Judgements
            /\ mark[r].id = r.id /\ mark[r].path = r.path
            /\ mark[r].flagged = r.flagged /\ (mark[r].reviewed = r.reviewed \/ mark[r].reviewed),
         results' = {mark[r] : r \in results}, lastResult' = lastResult, audit' = audit
  PROVE  AftercareInv' /\ \A r \in Backlog : KeptInBacklog(r)
<1>1. AftercareInv'
  BY DEF AftercareInv
<1>2. ASSUME NEW r \in Backlog
      PROVE  KeptInBacklog(r)
  <2>1. r \in results /\ r.flagged /\ ~r.reviewed /\ \A s \in results : s.path = r.path => s.id <= r.id
    BY DEF Backlog, Latest
  <2>2. mark[r] \in results' /\ mark[r].id = r.id
    BY <2>1
  <2>3. CASE mark[r].reviewed
    BY <2>2, <2>3 DEF KeptInBacklog
  <2>4. CASE ~mark[r].reviewed
    <3>1. \A s \in results' : s.path = mark[r].path => s.id <= mark[r].id
      BY <2>1
    <3>2. mark[r] \in Backlog'
      BY <2>1, <2>2, <2>4, <3>1 DEF Backlog, Latest
    <3>3. QED
      BY <2>2, <3>2 DEF KeptInBacklog
  <2>5. QED
    BY <2>3, <2>4
<1>3. QED
  BY <1>1, <1>2

LEMMA NextAftercareInv ==
  ASSUME AftercareInv, AftercareNext
  PROVE  AftercareInv' /\ \A r \in Backlog : KeptInBacklog(r)
<1>1. results \subseteq Judgements /\ audit \in Audits
  BY DEF AftercareInv
\* steps of the audit that judge nothing
<1>2. ASSUME UNCHANGED <<results, lastResult>>, audit' \in Audits
      PROVE  AftercareInv' /\ \A r \in Backlog : KeptInBacklog(r)
  <2>1. AftercareInv' /\ Backlog' = Backlog
    BY <1>2 DEF AftercareInv, Backlog, Latest
  <2>2. QED
    BY <2>1 DEF KeptInBacklog
<1>3. ASSUME NEW p \in Jobs, JobJudged(p)
      PROVE  AftercareInv' /\ \A r \in Backlog : KeptInBacklog(r)
  <2>1. PICK flagged \in BOOLEAN : Record(p, "job", flagged)
    BY <1>3 DEF JobJudged
  <2>2. audit' \in Audits
    BY <1>1, <1>3 DEF JobJudged
  <2>3. QED
    BY <2>1, <2>2, RecordKeeps
<1>4. CASE AuditAsked \/ AuditLists \/ AuditSkips \/ AuditOver
  <2>1. UNCHANGED <<results, lastResult>>
    BY <1>4 DEF AuditAsked, AuditLists, AuditSkips, AuditOver
  <2>2. audit' \in Audits
    <3>1. CASE AuditAsked \/ AuditOver
      <4>1. NoAudit \in Audits /\ [running |-> TRUE, at |-> "starting", todo |-> {}] \in Audits
        BY DEF NoAudit, Audits
      <4>2. QED
        BY <3>1, <4>1 DEF AuditAsked, AuditOver
    <3>2. CASE AuditLists
      BY <1>1, <3>2 DEF AuditLists, Audits
    <3>3. CASE AuditSkips
      BY <1>1, <3>3 DEF AuditSkips, Audits
    <3>4. QED
      BY <1>4, <3>1, <3>2, <3>3
  <2>3. QED
    BY <1>2, <2>1, <2>2
<1>5. CASE AuditJudges
  <2>1. PICK p \in audit.todo, flagged \in BOOLEAN :
           Record(p, "audit", flagged) /\ audit' = [audit EXCEPT !.todo = @ \ {p}]
    BY <1>5 DEF AuditJudges
  <2>2. p \in Jobs \cup Sidecars /\ audit' \in Audits
    BY <1>1, <2>1 DEF Audits
  <2>3. QED
    BY <2>1, <2>2, RecordKeeps
<1>6. ASSUME NEW rows, Reviewed(rows), lastResult' = lastResult, audit' = audit
      PROVE  AftercareInv' /\ \A r \in Backlog : KeptInBacklog(r)
  <2> DEFINE mark == [r \in results |-> IF r \in rows THEN [r EXCEPT !.reviewed = TRUE] ELSE r]
  <2>1. \A r \in results :
          /\ mark[r] \in Judgements
          /\ mark[r].id = r.id /\ mark[r].path = r.path
          /\ mark[r].flagged = r.flagged /\ (mark[r].reviewed = r.reviewed \/ mark[r].reviewed)
    BY <1>1 DEF Judgements
  <2>2. results' = {mark[r] : r \in results}
    BY <1>6 DEF Reviewed
  <2> HIDE DEF mark
  <2>3. QED
    BY <1>6, <2>1, <2>2, MarkKeeps
<1>7. CASE Acknowledged \/ AllAcknowledged
  BY <1>6, <1>7 DEF Acknowledged, AllAcknowledged
<1>8. CASE YearPasses
  <2> DEFINE mark == [r \in results |-> [r EXCEPT !.old = TRUE]]
  <2>1. \A r \in results :
          /\ mark[r] \in Judgements
          /\ mark[r].id = r.id /\ mark[r].path = r.path
          /\ mark[r].flagged = r.flagged /\ (mark[r].reviewed = r.reviewed \/ mark[r].reviewed)
    BY <1>1 DEF Judgements
  <2>2. results' = {mark[r] : r \in results} /\ lastResult' = lastResult /\ audit' = audit
    BY <1>8 DEF YearPasses
  <2> HIDE DEF mark
  <2>3. QED
    BY <2>1, <2>2, MarkKeeps
<1>9. CASE AftercareBoots
  <2>1. results' \subseteq results /\ \A r \in Backlog : r \in results'
    BY <1>9 DEF AftercareBoots, KeptByPrune, Backlog
  <2>2. lastResult' = lastResult /\ audit' \in Audits
    BY <1>9 DEF AftercareBoots, NoAudit, Audits
  <2>3. AftercareInv'
    BY <2>1, <2>2 DEF AftercareInv
  <2>4. \A r \in Backlog : r \in Backlog'
    BY <2>1 DEF Backlog, Latest
  <2>5. QED
    BY <2>3, <2>4 DEF KeptInBacklog
<1>10. QED
  BY <1>3, <1>4, <1>5, <1>7, <1>8, <1>9 DEF AftercareNext

\* A row leaves the backlog only when it is reviewed or its file is judged anew,
\* for any files and any number of judgements, whatever the store prunes at boot.
THEOREM BacklogKept == AftercareSpec => BacklogSurvives
<1>1. AftercareInv /\ [AftercareNext]_aftercareVars => AftercareInv'
  <2>1. AftercareInv /\ UNCHANGED aftercareVars => AftercareInv'
    BY DEF AftercareInv, aftercareVars
  <2>2. QED
    BY <2>1, NextAftercareInv
<1>2. AftercareInv /\ [AftercareNext]_aftercareVars =>
        [\A r \in Backlog : \/ \E s \in Backlog' : s.id = r.id
                            \/ \E s \in results' : s.id = r.id /\ s.reviewed
                            \/ \E s \in results' : s.path = r.path /\ s.id > r.id]_aftercareVars
  BY NextAftercareInv DEF KeptInBacklog
<1>3. QED
  BY <1>1, <1>2, InitAftercareInv, PTL DEF AftercareSpec, BacklogSurvives

----------------------------------------------------------------------------
(* Verdicts: the passes that follow replaced and moved files keep each       *)
(* verdict with its title, and an audit row that is current was heard in the *)
(* content it names, for any paths, libraries, passes and changes.           *)

(* Rows of audio_lang_verifications, and what a pass holds while it runs.    *)
Rows == [by : Sources \cup {"none"}, lang : Languages \cup {"none"},
         id : Ids \cup {NoArrId}, about : Ids \cup {NoArrId}]

Passes == [at : {"idle", "look", "ids", "check", "move"}, todo : SUBSET Paths,
           listing : SUBSET Paths, old : SUBSET Paths, new : SUBSET Paths,
           missing : SUBSET Paths]

----------------------------------------------------------------------------
(* Verdicts and titles. *)

(* A row says what it says about the title of the path it is on.            *)
OfTitle(w, p) == w = NoWord \/ (w.about = Id[p] /\ w.id \in {NoArrId, Id[p]})

(* The paths a pass is about to move a row between are of one title, and    *)
(* the new files a sweep looks at have the token of an episode.             *)
OneTitle(r) ==
  /\ \A o \in r.old, n \in r.new : Id[o] = Id[n]
  /\ r.at = "look" => \A p \in r.listing : Key[p] # NoKey

TitlesInv ==
  /\ verdict \in [Paths -> Rows]
  /\ \A p \in Paths : OfTitle(verdict[p], p)
  /\ known \subseteq Paths
  /\ probed \subseteq Paths
  /\ pass \in [Threads -> Passes]
  /\ \A t \in Threads : OneTitle(pass[t])

(* Nothing is recorded at first, and nothing runs.                          *)
LEMMA InitTitlesInv == LibraryInit => TitlesInv
<1> SUFFICES ASSUME LibraryInit PROVE TitlesInv
  OBVIOUS
<1>1. NoWord \in Rows
  BY DEF NoWord, Rows
<1>2. AtRest \in Passes /\ OneTitle(AtRest)
  BY DEF AtRest, Passes, OneTitle
<1>3. QED BY <1>1, <1>2 DEF LibraryInit, TitlesInv, OfTitle

(* A statement of the store keeps the title of the path it writes.          *)
LEMMA UpsertKeepsTitle ==
  ASSUME TitlesInv, NEW p \in Paths, NEW by \in Sources, NEW lang \in Languages,
         NEW id \in {NoArrId, Id[p]}
  PROVE  VerdictUpserted(p, by, lang, id) \in Rows /\ OfTitle(VerdictUpserted(p, by, lang, id), p)
<1>1. verdict[p] \in Rows /\ OfTitle(verdict[p], p)
  BY DEF TitlesInv
<1>2. verdict[p].id \in {NoArrId, Id[p]}
  BY <1>1 DEF OfTitle, NoWord
<1>3. Id[p] \in Ids
  BY DEF Ids
<1>4. QED BY <1>2, <1>3 DEF VerdictUpserted, Rows, OfTitle

(* Moving a row between two paths of one title keeps it with that title.    *)
LEMMA MoveKeepsTitle ==
  ASSUME TitlesInv, NEW old \in Paths, NEW new \in Paths, Id[old] = Id[new]
  PROVE  /\ Moved(old, new) \in [Paths -> Rows]
         /\ \A p \in Paths : OfTitle(Moved(old, new)[p], p)
<1>1. verdict \in [Paths -> Rows] /\ (\A p \in Paths : OfTitle(verdict[p], p)) /\ NoWord \in Rows
  BY DEF TitlesInv, NoWord, Rows
<1>2. OfTitle(verdict[old], new)
  BY <1>1 DEF OfTitle
<1>3. QED BY <1>1, <1>2 DEF Moved, OfTitle

(* A step that writes one path, or none, and whatever follows from it.      *)
LEMMA WriteKeepsTitles ==
  ASSUME TitlesInv, NEW p, NEW row, p \in Paths => row \in Rows /\ OfTitle(row, p),
         verdict' = [verdict EXCEPT ![p] = row]
  PROVE  verdict' \in [Paths -> Rows] /\ \A q \in Paths : OfTitle(verdict'[q], q)
  BY DEF TitlesInv

(* A pass goes on with other locals.                                        *)
LEMMA PassGoesOn ==
  ASSUME TitlesInv, NEW t \in Threads, NEW r \in Passes, OneTitle(r), Goes(t, r)
  PROVE  pass' \in [Threads -> Passes] /\ \A u \in Threads : OneTitle(pass'[u])
  BY DEF TitlesInv, Goes

(* What holds of the rows and of the passes, held together.                 *)
LEMMA TitlesKept ==
  ASSUME verdict' \in [Paths -> Rows], \A q \in Paths : OfTitle(verdict'[q], q),
         known' \subseteq Paths, probed' \subseteq Paths,
         pass' \in [Threads -> Passes], \A u \in Threads : OneTitle(pass'[u])
  PROVE  TitlesInv'
  BY DEF TitlesInv, OfTitle, OneTitle

(* Every step of users, of the disk, of the passes and of the audit keeps   *)
(* each verdict with its title.                                             *)
LEMMA NextTitlesInv == TitlesInv /\ [LibraryNext]_libraryVars => TitlesInv'
<1> SUFFICES ASSUME TitlesInv, [LibraryNext]_libraryVars PROVE TitlesInv'
  OBVIOUS
<1>1. /\ verdict \in [Paths -> Rows] /\ \A q \in Paths : OfTitle(verdict[q], q)
      /\ known \subseteq Paths /\ probed \subseteq Paths
      /\ pass \in [Threads -> Passes] /\ \A u \in Threads : OneTitle(pass[u])
  BY DEF TitlesInv
<1>2. AtRest \in Passes /\ OneTitle(AtRest)
  BY DEF AtRest, Passes, OneTitle
<1>3. NoWord \in Rows /\ \A q \in Paths : OfTitle(NoWord, q)
  BY DEF NoWord, Rows, OfTitle
<1>4. Worded \subseteq Paths /\ Live \subseteq Paths
  BY DEF Worded, Live
<1>5. ASSUME UNCHANGED <<known, probed, pass>>,
             verdict' \in [Paths -> Rows], \A q \in Paths : OfTitle(verdict'[q], q)
      PROVE  TitlesInv'
  BY <1>1, <1>5, TitlesKept
<1>6. ASSUME UNCHANGED <<verdict, known, probed>>,
             NEW t \in Threads, NEW r \in Passes, OneTitle(r), Goes(t, r)
      PROVE  TitlesInv'
  BY <1>1, <1>6, PassGoesOn, TitlesKept
<1>7. ASSUME UNCHANGED <<verdict, known, probed, pass>> PROVE TitlesInv'
  BY <1>1, <1>7, TitlesKept
<1>8. ASSUME NEW p \in Paths, NEW l \in Languages, Verify(p, l) PROVE TitlesInv'
  <2>1. KnownId(p) \in {NoArrId, Id[p]}
    BY DEF KnownId
  <2>2. VerdictUpserted(p, "user", l, KnownId(p)) \in Rows
        /\ OfTitle(VerdictUpserted(p, "user", l, KnownId(p)), p)
    BY <2>1, UpsertKeepsTitle DEF Sources
  <2>3. verdict' \in [Paths -> Rows] /\ \A q \in Paths : OfTitle(verdict'[q], q)
    BY <1>8, <2>2, WriteKeepsTitles DEF Verify
  <2>4. QED BY <1>5, <1>8, <2>3 DEF Verify
<1>9. ASSUME NEW files \in SUBSET Paths, NEW l \in Languages, BulkForSeries(files, l)
      PROVE  TitlesInv'
  <2>1. \A p \in Paths : /\ VerdictUpserted(p, "user", l, NoArrId) \in Rows
                        /\ OfTitle(VerdictUpserted(p, "user", l, NoArrId), p)
    BY UpsertKeepsTitle DEF Sources
  <2>2. verdict' = [p \in Paths |-> IF p \in files /\ Key[p] # NoKey
                                   THEN VerdictUpserted(p, "user", l, NoArrId) ELSE verdict[p]]
    BY <1>9 DEF BulkForSeries
  <2>3. verdict' \in [Paths -> Rows] /\ \A q \in Paths : OfTitle(verdict'[q], q)
    BY <1>1, <2>1, <2>2
  <2>4. QED BY <1>5, <1>9, <2>3 DEF BulkForSeries
<1>10. ASSUME NEW p \in Paths, Withdraw(p) PROVE TitlesInv'
  <2>1. verdict' \in [Paths -> Rows] /\ \A q \in Paths : OfTitle(verdict'[q], q)
    BY <1>3, <1>10, WriteKeepsTitles DEF Withdraw
  <2>2. QED BY <1>5, <1>10, <2>1 DEF Withdraw
<1>11. ASSUME NEW named \in SUBSET {p \in Paths : content[p] > 0}, CarryBegins(named) PROVE TitlesInv'
  <2>1. verdict' = BackFilled /\ known' = named /\ probed' = probed
        /\ Goes("refresh", [AtRest EXCEPT !.at = "look", !.todo = Worded])
    BY <1>11 DEF CarryBegins
  <2>2. \A p \in Paths : verdict[p] # NoWord /\ verdict[p].id = NoArrId
          => /\ [verdict[p] EXCEPT !.id = Id[p]] \in Rows
             /\ OfTitle([verdict[p] EXCEPT !.id = Id[p]], p)
    <3> SUFFICES ASSUME NEW p \in Paths, verdict[p] # NoWord
                 PROVE  /\ [verdict[p] EXCEPT !.id = Id[p]] \in Rows
                        /\ OfTitle([verdict[p] EXCEPT !.id = Id[p]], p)
      OBVIOUS
    <3>1. verdict[p] \in Rows /\ verdict[p].about = Id[p] /\ Id[p] \in Ids
      BY <1>1 DEF OfTitle, Ids
    <3>2. QED BY <3>1 DEF Rows, OfTitle
  <2>3. verdict' \in [Paths -> Rows] /\ \A q \in Paths : OfTitle(verdict'[q], q)
    BY <1>1, <2>1, <2>2 DEF BackFilled
  <2>4. [AtRest EXCEPT !.at = "look", !.todo = Worded] \in Passes
        /\ OneTitle([AtRest EXCEPT !.at = "look", !.todo = Worded])
    BY <1>4 DEF AtRest, Passes, OneTitle
  <2>5. "refresh" \in Threads
    BY DEF Threads
  <2>6. QED BY <1>1, <2>1, <2>3, <2>4, <2>5, PassGoesOn, TitlesKept
<1>12. CASE PruneBegins
  <2>1. [AtRest EXCEPT !.at = "look", !.todo = Worded] \in Passes
        /\ OneTitle([AtRest EXCEPT !.at = "look", !.todo = Worded])
    BY <1>4 DEF AtRest, Passes, OneTitle
  <2>2. QED BY <1>6, <1>12, <2>1 DEF PruneBegins, Threads
<1>13. ASSUME NEW t \in Threads, CarryLists(t) PROVE TitlesInv'
  <2>1. PICK old \in pass[t].todo :
          Goes(t, [pass[t] EXCEPT
            !.todo = @ \ {old},
            !.listing = IF old \notin Live /\ Cardinality(Listed(Key[old])) = 1
                        THEN @ \cup Listed(Key[old]) ELSE @])
    BY <1>13 DEF CarryLists
  <2>2. \A p \in Listed(Key[old]) : p \in Paths /\ Key[p] # NoKey
    BY <1>4 DEF Listed
  <2>3. PICK add : /\ add = IF old \notin Live /\ Cardinality(Listed(Key[old])) = 1
                           THEN pass[t].listing \cup Listed(Key[old]) ELSE pass[t].listing
    OBVIOUS
  <2>4. pass[t] \in Passes /\ OneTitle(pass[t]) /\ pass[t].at = "look"
    BY <1>1, <1>13 DEF CarryLists
  <2>5. add \subseteq Paths /\ \A p \in add : Key[p] # NoKey
    BY <2>2, <2>3, <2>4 DEF Passes, OneTitle
  <2>6. [pass[t] EXCEPT !.todo = @ \ {old}, !.listing = add] \in Passes
        /\ OneTitle([pass[t] EXCEPT !.todo = @ \ {old}, !.listing = add])
    BY <2>4, <2>5 DEF Passes, OneTitle
  <2>7. Goes(t, [pass[t] EXCEPT !.todo = @ \ {old}, !.listing = add])
    BY <2>1, <2>3
  <2>8. QED BY <1>6, <1>13, <2>6, <2>7 DEF CarryLists
<1>14. ASSUME NEW t \in Threads, CarryLooks(t) PROVE TitlesInv'
  <2>1. PICK new \in pass[t].listing :
          \/ \E old \in CarryOver(new) :
               Goes(t, [pass[t] EXCEPT !.listing = @ \ {new}, !.old = {old}, !.new = {new}])
          \/ Goes(t, [pass[t] EXCEPT !.listing = @ \ {new}])
    BY <1>14 DEF CarryLooks
  <2>2. pass[t] \in Passes /\ OneTitle(pass[t]) /\ pass[t].at = "look"
    BY <1>1, <1>14 DEF CarryLooks
  <2>3. new \in Paths /\ Key[new] # NoKey
    BY <2>2 DEF Passes, OneTitle
  <2>4. ASSUME NEW old \in CarryOver(new),
               Goes(t, [pass[t] EXCEPT !.listing = @ \ {new}, !.old = {old}, !.new = {new}])
        PROVE  TitlesInv'
    <3>1. old \in Paths /\ Key[old] = Key[new]
      BY <1>4 DEF CarryOver
    <3>2. Id[old] = Id[new]
      BY <2>3, <3>1, PathsAssumption
    <3>3. [pass[t] EXCEPT !.listing = @ \ {new}, !.old = {old}, !.new = {new}] \in Passes
          /\ OneTitle([pass[t] EXCEPT !.listing = @ \ {new}, !.old = {old}, !.new = {new}])
      BY <2>2, <2>3, <3>1, <3>2 DEF Passes, OneTitle
    <3>4. QED BY <1>6, <1>14, <2>4, <3>3 DEF CarryLooks
  <2>5. [pass[t] EXCEPT !.listing = @ \ {new}] \in Passes
        /\ OneTitle([pass[t] EXCEPT !.listing = @ \ {new}])
    BY <2>2 DEF Passes, OneTitle
  <2>6. ASSUME Goes(t, [pass[t] EXCEPT !.listing = @ \ {new}]) PROVE TitlesInv'
    BY <1>6, <1>14, <2>5, <2>6 DEF CarryLooks
  <2>7. QED BY <2>1, <2>4, <2>6
<1>15. ASSUME NEW t \in Threads, CarryMoves(t) PROVE TitlesInv'
  <2>1. PICK old \in pass[t].old, new \in pass[t].new : verdict' = Moved(old, new)
    BY <1>15 DEF CarryMoves
  <2>2. pass[t] \in Passes /\ OneTitle(pass[t])
    BY <1>1
  <2>3. old \in Paths /\ new \in Paths /\ Id[old] = Id[new]
    BY <2>2 DEF Passes, OneTitle
  <2>4. verdict' \in [Paths -> Rows] /\ \A q \in Paths : OfTitle(verdict'[q], q)
    BY <2>1, <2>3, MoveKeepsTitle
  <2>5. [pass[t] EXCEPT !.old = {}, !.new = {}] \in Passes
        /\ OneTitle([pass[t] EXCEPT !.old = {}, !.new = {}])
    BY <2>2 DEF Passes, OneTitle
  <2>6. QED BY <1>1, <1>15, <2>4, <2>5, PassGoesOn, TitlesKept DEF CarryMoves
<1>16. ASSUME NEW t \in Threads, TokensDone(t) PROVE TitlesInv'
  <2>1. PICK at \in {"ids", "check"}, todo \in SUBSET Paths :
          Goes(t, [pass[t] EXCEPT !.at = at, !.todo = todo])
    BY <1>1, <1>4, <1>16 DEF TokensDone
  <2>2. pass[t] \in Passes /\ OneTitle(pass[t])
    BY <1>1
  <2>3. [pass[t] EXCEPT !.at = at, !.todo = todo] \in Passes
        /\ OneTitle([pass[t] EXCEPT !.at = at, !.todo = todo])
    BY <2>2 DEF Passes, OneTitle
  <2>4. QED BY <1>6, <1>16, <2>1, <2>3 DEF TokensDone
<1>17. CASE CarryById
  <2> DEFINE r == pass["refresh"]
  <2>1. PICK old \in r.todo :
          LET named == Successors(old)
              may == /\ verdict[old].id # NoArrId /\ old \notin Live
                     /\ Cardinality(named) = 1 /\ named # {old} /\ named \subseteq Live
          IN Goes("refresh", [r EXCEPT !.todo = @ \ {old},
               !.old = IF may THEN {old} ELSE {}, !.new = IF may THEN named ELSE {}])
    BY <1>17 DEF CarryById
  <2>2. "refresh" \in Threads /\ r \in Passes /\ OneTitle(r) /\ r.at = "ids"
    BY <1>1, <1>17 DEF CarryById, Threads
  <2>3. old \in Paths
    BY <2>2 DEF Passes
  <2>4. OfTitle(verdict[old], old)
    BY <1>1, <2>3
  <2>5. verdict[old].id # NoArrId => \A p \in Successors(old) : p \in Paths /\ Id[p] = Id[old]
    BY <1>1, <2>4 DEF Successors, OfTitle, NoWord
  <2> DEFINE may == /\ verdict[old].id # NoArrId /\ old \notin Live
                    /\ Cardinality(Successors(old)) = 1 /\ Successors(old) # {old}
                    /\ Successors(old) \subseteq Live
  <2>6. PICK from, to : /\ from = IF may THEN {old} ELSE {}
                        /\ to = IF may THEN Successors(old) ELSE {}
    OBVIOUS
  <2>7. Goes("refresh", [r EXCEPT !.todo = @ \ {old}, !.old = from, !.new = to])
    BY <2>1, <2>6
  <2>8. from \subseteq Paths /\ to \subseteq Paths /\ \A o \in from, n \in to : Id[o] = Id[n]
    BY <2>3, <2>5, <2>6
  <2>9. [r EXCEPT !.todo = @ \ {old}, !.old = from, !.new = to] \in Passes
        /\ OneTitle([r EXCEPT !.todo = @ \ {old}, !.old = from, !.new = to])
    BY <2>2, <2>8 DEF Passes, OneTitle
  <2>10. QED BY <1>6, <1>17, <2>2, <2>7, <2>9 DEF CarryById
<1>18. CASE CarryEnds
  BY <1>2, <1>6, <1>18 DEF CarryEnds, Threads
<1>19. CASE PruneChecks
  <2> DEFINE r == pass["prune"]
  <2>1. PICK p \in r.todo :
          Goes("prune", [r EXCEPT !.todo = @ \ {p}, !.listing = @ \cup {p},
                           !.missing = IF p \in Live THEN @ ELSE @ \cup {p}])
    BY <1>19 DEF PruneChecks
  <2>2. "prune" \in Threads /\ r \in Passes /\ OneTitle(r) /\ r.at = "check"
    BY <1>1, <1>19 DEF PruneChecks, Threads
  <2>3. PICK gone \in SUBSET Paths :
          Goes("prune", [r EXCEPT !.todo = @ \ {p}, !.listing = @ \cup {p}, !.missing = gone])
    BY <2>1, <2>2 DEF Passes
  <2>4. [r EXCEPT !.todo = @ \ {p}, !.listing = @ \cup {p}, !.missing = gone] \in Passes
        /\ OneTitle([r EXCEPT !.todo = @ \ {p}, !.listing = @ \cup {p}, !.missing = gone])
    BY <2>1, <2>2 DEF Passes, OneTitle
  <2>5. QED BY <1>6, <1>19, <2>2, <2>3, <2>4 DEF PruneChecks
<1>20. CASE PruneDeletes
  <2>1. verdict' = [p \in Paths |-> verdict'[p]] /\ \A p \in Paths : verdict'[p] \in {NoWord, verdict[p]}
    BY <1>20 DEF PruneDeletes
  <2>2. verdict' \in [Paths -> Rows] /\ \A q \in Paths : OfTitle(verdict'[q], q)
    BY <1>1, <1>3, <2>1
  <2>3. probed' \subseteq Paths /\ known' = known /\ Goes("prune", AtRest)
    BY <1>1, <1>20 DEF PruneDeletes
  <2>4. QED BY <1>1, <1>2, <2>2, <2>3, PassGoesOn, TitlesKept DEF Threads
<1>21. ASSUME NEW p \in Paths, NEW q \in Paths, RelinkChecks(p, q) PROVE TitlesInv'
  <2>1. Goes("relink", [AtRest EXCEPT !.at = "move", !.old = {p}, !.new = {q},
                                      !.missing = {p} \cap Worded])
        /\ Id[p] = Id[q]
    BY <1>21 DEF RelinkChecks
  <2>2. [AtRest EXCEPT !.at = "move", !.old = {p}, !.new = {q}, !.missing = {p} \cap Worded] \in Passes
        /\ OneTitle([AtRest EXCEPT !.at = "move", !.old = {p}, !.new = {q},
                                   !.missing = {p} \cap Worded])
    BY <2>1 DEF AtRest, Passes, OneTitle
  <2>3. QED BY <1>6, <1>21, <2>1, <2>2 DEF RelinkChecks, Threads
<1>22. CASE RelinkMoves
  <2>1. PICK old \in pass["relink"].old, new \in pass["relink"].new :
          /\ verdict' = IF old \in pass["relink"].missing THEN Moved(old, new) ELSE verdict
          /\ probed' \in {probed, (probed \ {old}) \cup {new}}
    BY <1>22 DEF RelinkMoves
  <2>2. "relink" \in Threads /\ pass["relink"] \in Passes /\ OneTitle(pass["relink"])
    BY <1>1 DEF Threads
  <2>3. old \in Paths /\ new \in Paths /\ Id[old] = Id[new]
    BY <2>2 DEF Passes, OneTitle
  <2>4. verdict' \in [Paths -> Rows] /\ \A q \in Paths : OfTitle(verdict'[q], q)
    BY <1>1, <2>1, <2>3, MoveKeepsTitle
  <2>5. probed' \subseteq Paths /\ known' = known /\ Goes("relink", AtRest)
    BY <1>1, <1>22, <2>1, <2>3 DEF RelinkMoves
  <2>6. QED BY <1>1, <1>2, <2>2, <2>4, <2>5, PassGoesOn, TitlesKept
<1>23. ASSUME NEW status \in StatusesHeard, NEW l \in Languages, AuditHears(status, l) PROVE TitlesInv'
  <2>1. PICK p \in walk.path :
          verdict' = CASE status = "mislabel" -> RecordedMislabel(p, l)
                       [] status = "multilingual" -> RecordedMulti(p, l)
                       [] OTHER -> verdict
    BY <1>23 DEF AuditHears
  <2>2. \/ verdict' = verdict
        \/ \E by \in {"whisper-robust", "auto-high-conf-multi"} :
             verdict' = [verdict EXCEPT ![p] = VerdictUpserted(p, by, l, NoArrId)]
    BY <2>1 DEF RecordedMislabel, RecordedMulti
  <2>3. ASSUME NEW by \in {"whisper-robust", "auto-high-conf-multi"},
               verdict' = [verdict EXCEPT ![p] = VerdictUpserted(p, by, l, NoArrId)]
        PROVE  verdict' \in [Paths -> Rows] /\ \A q \in Paths : OfTitle(verdict'[q], q)
    <3>1. p \in Paths => /\ VerdictUpserted(p, by, l, NoArrId) \in Rows
                         /\ OfTitle(VerdictUpserted(p, by, l, NoArrId), p)
      BY UpsertKeepsTitle DEF Sources
    <3>2. QED BY <2>3, <3>1, WriteKeepsTitles
  <2>4. verdict' \in [Paths -> Rows] /\ \A q \in Paths : OfTitle(verdict'[q], q)
    BY <1>1, <2>2, <2>3
  <2>5. QED BY <1>5, <1>23, <2>4 DEF AuditHears
<1>24. CASE \/ \E l \in Languages : DeclareSeries(l) \/ ApplySuggestion(l)
            \/ DropSeries
            \/ \E p \in Paths : Written(p)
            \/ \E p, q \in Paths : FileReplaced(p, q)
            \/ \E l \in Libraries : MountLost(l) \/ MountBack(l)
            \/ AuditStarts \/ AuditNext \/ AuditFails \/ AuditEnds
            \/ UNCHANGED libraryVars
  BY <1>7, <1>24 DEF DeclareSeries, ApplySuggestion, DropSeries, Written, FileReplaced, MountLost,
                     MountBack, AuditStarts, AuditNext, AuditFails, AuditEnds, libraryVars
<1>25. QED
  BY <1>8, <1>9, <1>10, <1>11, <1>12, <1>13, <1>14, <1>15, <1>16, <1>17, <1>18, <1>19, <1>20, <1>21,
     <1>22, <1>23, <1>24 DEF LibraryNext

(* A verdict stays with the title it was given for, whatever is replaced,   *)
(* moved, relinked or back-filled, and in whatever order the passes run.    *)
THEOREM VerdictsKeepTitles == LibrarySpec => []VerdictKeepsItsTitle
<1>1. TitlesInv => VerdictKeepsItsTitle
  BY DEF TitlesInv, OfTitle, VerdictKeepsItsTitle, Worded
<1>2. QED BY InitTitlesInv, NextTitlesInv, <1>1, PTL DEF LibrarySpec

----------------------------------------------------------------------------
(* Audit rows and contents. *)

Findings == [mtime : Nat, heard : Nat]
AuditWalks == [at : {"idle", "next", "listen"}, todo : SUBSET Paths, path : SUBSET Paths,
               mtime : [Paths -> Nat], heard : Nat]

(* No mtime is later than the last change.                                  *)
NotLater(m) == m \in Nat /\ m <= changes + 1

FindingsTypeOK ==
  /\ content \in [Paths -> Nat]
  /\ finding \in [Paths -> Findings]
  /\ walk \in AuditWalks
  /\ changes \in Nat

NothingFromTheFuture ==
  \A p \in Paths : NotLater(content[p]) /\ NotLater(finding[p].mtime) /\ NotLater(walk.mtime[p])

(* While subgen listens, what it heard is the content there is, or that     *)
(* content is not the one of the list any more.                             *)
ListeningIsCurrent ==
  walk.at = "listen" /\ walk.heard > 0
    => \A p \in walk.path : walk.mtime[p] = content[p] /\ content[p] > 0 => walk.heard = content[p]

FindingsInv ==
  FindingsTypeOK /\ NothingFromTheFuture /\ ListeningIsCurrent /\ FindingsAreCurrent

(* At first nothing was heard.                                              *)
LEMMA InitFindingsInv == LibraryInit => FindingsInv
<1> SUFFICES ASSUME LibraryInit PROVE FindingsInv
  OBVIOUS
<1>1. content = [p \in Paths |-> IF p \in Here THEN 1 ELSE 0] /\ changes = 0
      /\ finding = [p \in Paths |-> NoFinding] /\ walk = NoAuditWalk
  BY DEF LibraryInit
<1>2. FindingsTypeOK
  BY <1>1 DEF FindingsTypeOK, NoFinding, NoAuditWalk, Findings, AuditWalks
<1>3. NothingFromTheFuture
  BY <1>1 DEF NothingFromTheFuture, NotLater, NoFinding, NoAuditWalk
<1>4. ListeningIsCurrent
  BY <1>1 DEF ListeningIsCurrent, NoAuditWalk
<1>5. FindingsAreCurrent
  BY <1>1 DEF FindingsAreCurrent, NoFinding
<1>6. QED BY <1>2, <1>3, <1>4, <1>5 DEF FindingsInv

(* A file that is written gets an mtime no row and no list has.             *)
LEMMA WritingKeepsFindings ==
  ASSUME FindingsInv, Change, content' \in [Paths -> Nat],
         \A p \in Paths : content'[p] \in {content[p], 0, NewVersion},
         UNCHANGED <<finding, walk>>
  PROVE  FindingsInv'
<1>1. changes \in Nat /\ changes' = changes + 1 /\ NewVersion = changes + 2
  BY DEF FindingsInv, FindingsTypeOK, Change, NewVersion
<1>2. FindingsTypeOK'
  BY <1>1 DEF FindingsInv, FindingsTypeOK
<1>3. ASSUME NEW p \in Paths
      PROVE  /\ content[p] \in Nat /\ content[p] <= changes + 1
             /\ finding[p].mtime \in Nat /\ finding[p].mtime <= changes + 1
             /\ walk.mtime[p] \in Nat /\ walk.mtime[p] <= changes + 1
             /\ content'[p] \in {content[p], 0, changes + 2}
  BY <1>1, <1>3 DEF FindingsInv, NothingFromTheFuture, NotLater
<1>4. NothingFromTheFuture'
  BY <1>1, <1>3 DEF NothingFromTheFuture, NotLater
<1>5. ASSUME NEW p \in Paths, content'[p] > 0, content'[p] # content[p]
      PROVE  finding[p].mtime # content'[p] /\ walk.mtime[p] # content'[p]
  BY <1>1, <1>3, <1>5
<1>6. walk.path \subseteq Paths
  BY DEF FindingsInv, FindingsTypeOK, AuditWalks
<1>7. ListeningIsCurrent'
  BY <1>5, <1>6 DEF FindingsInv, ListeningIsCurrent
<1>8. FindingsAreCurrent'
  BY <1>5 DEF FindingsInv, FindingsAreCurrent
<1>9. QED BY <1>2, <1>4, <1>7, <1>8 DEF FindingsInv

(* A step that leaves files, audit rows and the audit alone.                *)
LEMMA OthersKeepFindings ==
  ASSUME FindingsInv, UNCHANGED <<content, finding, walk>>, changes' \in {changes, changes + 1}
  PROVE  FindingsInv'
<1>1. changes \in Nat /\ changes' \in Nat
  BY DEF FindingsInv, FindingsTypeOK
<1>2. ASSUME NEW m \in Nat, m <= changes + 1 PROVE m <= changes' + 1
  <2>1. CASE changes' = changes
    BY <1>2, <2>1
  <2>2. CASE changes' = changes + 1
    BY <1>1, <1>2, <2>2
  <2>3. QED BY <2>1, <2>2
<1>3. NothingFromTheFuture'
  BY <1>2 DEF FindingsInv, NothingFromTheFuture, NotLater
<1>4. QED
  BY <1>1, <1>3 DEF FindingsInv, FindingsTypeOK, ListeningIsCurrent, FindingsAreCurrent

(* Every step of users, of the disk, of the passes and of the audit keeps   *)
(* the audit rows true to the content they name.                            *)
LEMMA NextFindingsInv == FindingsInv /\ [LibraryNext]_libraryVars => FindingsInv'
<1> SUFFICES ASSUME FindingsInv, [LibraryNext]_libraryVars PROVE FindingsInv'
  OBVIOUS
<1>1. /\ content \in [Paths -> Nat] /\ finding \in [Paths -> Findings]
      /\ walk \in AuditWalks /\ changes \in Nat
      /\ NothingFromTheFuture /\ ListeningIsCurrent /\ FindingsAreCurrent
  BY DEF FindingsInv, FindingsTypeOK
<1>2. ASSUME NEW p \in Paths, Written(p) PROVE FindingsInv'
  <2>1. NewVersion \in Nat
    BY <1>1 DEF NewVersion
  <2>2. content' \in [Paths -> Nat] /\ \A q \in Paths : content'[q] \in {content[q], 0, NewVersion}
    BY <1>1, <1>2, <2>1 DEF Written
  <2>3. QED BY <1>2, <2>2, WritingKeepsFindings DEF Written
<1>3. ASSUME NEW p \in Paths, NEW q \in Paths, FileReplaced(p, q) PROVE FindingsInv'
  <2>1. NewVersion \in Nat
    BY <1>1 DEF NewVersion
  <2>2. content' \in [Paths -> Nat] /\ \A r \in Paths : content'[r] \in {content[r], 0, NewVersion}
    BY <1>1, <1>3, <2>1 DEF FileReplaced
  <2>3. QED BY <1>3, <2>2, WritingKeepsFindings DEF FileReplaced
<1>4. ASSUME UNCHANGED <<content, finding, changes>>, walk' \in AuditWalks,
             \A p \in Paths : NotLater(walk'.mtime[p]), ListeningIsCurrent'
      PROVE  FindingsInv'
  <2>1. \A m : NotLater(m)' = NotLater(m)
    BY <1>4 DEF NotLater
  <2>2. NothingFromTheFuture'
    BY <1>1, <1>4 DEF NothingFromTheFuture, NotLater
  <2>3. QED BY <1>1, <1>4, <2>2 DEF FindingsInv, FindingsTypeOK, FindingsAreCurrent
<1>5. ASSUME walk' = NoAuditWalk PROVE walk' \in AuditWalks /\ ListeningIsCurrent'
                                       /\ \A p \in Paths : NotLater(walk'.mtime[p])
  BY <1>1, <1>5 DEF NoAuditWalk, AuditWalks, ListeningIsCurrent, NotLater
<1>6. CASE AuditStarts
  <2>1. walk' = [NoAuditWalk EXCEPT !.at = "next", !.todo = Live, !.mtime = content]
    BY <1>6 DEF AuditStarts
  <2>2. walk' \in AuditWalks /\ walk'.at = "next" /\ walk'.mtime = content
    BY <1>1, <2>1 DEF NoAuditWalk, AuditWalks, Live
  <2>3. \A p \in Paths : NotLater(walk'.mtime[p])
    BY <1>1, <2>2 DEF NothingFromTheFuture
  <2>4. QED BY <1>4, <1>6, <2>2, <2>3 DEF AuditStarts, ListeningIsCurrent
<1>7. CASE AuditNext
  <2>1. PICK p \in walk.todo :
          walk' = IF finding[p].mtime = walk.mtime[p]
                  THEN [walk EXCEPT !.todo = @ \ {p}]
                  ELSE [walk EXCEPT !.todo = @ \ {p}, !.at = "listen", !.path = {p},
                                    !.heard = IF p \in Live THEN content[p] ELSE 0]
    BY <1>7 DEF AuditNext
  <2>2. p \in Paths /\ walk.at = "next"
    BY <1>1, <1>7 DEF AuditNext, AuditWalks
  <2>3. UNCHANGED <<content, finding, changes>>
    BY <1>7 DEF AuditNext
  <2>4. CASE walk' = [walk EXCEPT !.todo = @ \ {p}]
    <3>1. walk' \in AuditWalks /\ walk'.at = "next" /\ walk'.mtime = walk.mtime
      BY <1>1, <2>2, <2>4 DEF AuditWalks
    <3>2. QED BY <1>1, <1>4, <2>3, <3>1 DEF ListeningIsCurrent, NothingFromTheFuture
  <2>5. CASE walk' = [walk EXCEPT !.todo = @ \ {p}, !.at = "listen", !.path = {p},
                                  !.heard = IF p \in Live THEN content[p] ELSE 0]
    <3>1. walk' \in AuditWalks /\ walk'.mtime = walk.mtime /\ walk'.path = {p}
          /\ walk'.heard \in {content[p], 0}
      BY <1>1, <2>2, <2>5 DEF AuditWalks
    <3>2. ListeningIsCurrent'
      BY <2>3, <3>1 DEF ListeningIsCurrent
    <3>3. QED BY <1>1, <1>4, <2>3, <3>1, <3>2 DEF NothingFromTheFuture
  <2>6. QED BY <2>1, <2>4, <2>5
<1>8. ASSUME walk' = [walk EXCEPT !.at = "next", !.path = {}, !.heard = 0]
      PROVE  /\ walk' \in AuditWalks /\ walk'.mtime = walk.mtime /\ walk'.at = "next"
             /\ ListeningIsCurrent'
  BY <1>1, <1>8 DEF AuditWalks, ListeningIsCurrent
<1>9. ASSUME NEW status \in StatusesHeard, NEW l \in Languages, AuditHears(status, l) PROVE FindingsInv'
  <2>1. PICK p \in walk.path : finding' = [finding EXCEPT ![p] = FindingStored(p)]
    BY <1>9 DEF AuditHears
  <2>2. /\ walk.at = "listen" /\ walk.heard > 0 /\ UNCHANGED <<content, changes>>
        /\ walk' = [walk EXCEPT !.at = "next", !.path = {}, !.heard = 0]
    BY <1>9 DEF AuditHears
  <2>3. p \in Paths /\ FindingStored(p) \in Findings
    BY <1>1 DEF AuditWalks, FindingStored, Findings
  <2>4. /\ finding' \in [Paths -> Findings]
        /\ finding'[p].mtime = walk.mtime[p] /\ finding'[p].heard = walk.heard
        /\ \A q \in Paths : q # p => finding'[q] = finding[q]
    BY <1>1, <2>1, <2>3 DEF FindingStored
  <2>5. walk.mtime[p] = content[p] /\ content[p] > 0 => walk.heard = content[p]
    BY <1>1, <2>2, <2>3 DEF ListeningIsCurrent
  <2>6. FindingsAreCurrent'
    BY <1>1, <2>2, <2>4, <2>5 DEF FindingsAreCurrent
  <2>7. NothingFromTheFuture'
    <3>1. \A q \in Paths : NotLater(content[q]) /\ NotLater(finding'[q].mtime)
                         /\ NotLater(walk'.mtime[q])
      BY <1>1, <1>8, <2>2, <2>3, <2>4 DEF NothingFromTheFuture
    <3>2. QED BY <2>2, <3>1 DEF NothingFromTheFuture, NotLater
  <2>8. QED BY <1>1, <1>8, <2>2, <2>4, <2>6, <2>7 DEF FindingsInv, FindingsTypeOK
<1>10. CASE AuditFails
  BY <1>1, <1>4, <1>8, <1>10 DEF AuditFails, NothingFromTheFuture
<1>11. CASE AuditEnds
  BY <1>4, <1>5, <1>11 DEF AuditEnds
<1>12. CASE \/ \E p \in Paths, l \in Languages : Verify(p, l)
            \/ \E files \in SUBSET Paths, l \in Languages : BulkForSeries(files, l)
            \/ \E p \in Paths : Withdraw(p)
            \/ \E l \in Languages : DeclareSeries(l) \/ ApplySuggestion(l)
            \/ DropSeries
            \/ \E l \in Libraries : MountLost(l) \/ MountBack(l)
  BY <1>12, OthersKeepFindings
  DEF Verify, BulkForSeries, Withdraw, DeclareSeries, ApplySuggestion, DropSeries, MountLost,
      MountBack, Change
<1>13. CASE \/ \E named \in SUBSET {p \in Paths : content[p] > 0} : CarryBegins(named)
            \/ PruneBegins \/ CarryById \/ CarryEnds \/ PruneChecks \/ PruneDeletes \/ RelinkMoves
            \/ \E t \in Threads : CarryLists(t) \/ CarryLooks(t) \/ CarryMoves(t) \/ TokensDone(t)
            \/ \E p, q \in Paths : RelinkChecks(p, q)
            \/ UNCHANGED libraryVars
  <2>1. UNCHANGED <<content, finding, walk, changes>>
    BY <1>13 DEF CarryBegins, PruneBegins, CarryById, CarryEnds, PruneChecks, PruneDeletes, RelinkMoves,
                 CarryLists, CarryLooks, CarryMoves, TokensDone, RelinkChecks, libraryVars
  <2>2. QED BY <2>1, OthersKeepFindings
<1>14. QED
  BY <1>2, <1>3, <1>6, <1>7, <1>9, <1>10, <1>11, <1>12, <1>13 DEF LibraryNext

(* An audit row that names the mtime a file has was written from what was   *)
(* heard in that file, however files change while subgen listens.           *)
THEOREM FindingsStayCurrent == LibrarySpec => []FindingsAreCurrent
<1>1. FindingsInv => FindingsAreCurrent
  BY DEF FindingsInv
<1>2. QED BY InitFindingsInv, NextFindingsInv, <1>1, PTL DEF LibrarySpec

----------------------------------------------------------------------------
(* Side by side. *)

\* A service that is checked beside the others begins and steps as it does
\* alone, for every value of the constants.
LEMMA EachAsAlone ==
  /\ ServicesInit => /\ CasesInit /\ LibraryInit /\ AftercareInit
                     /\ ForcedInit /\ BootInit /\ ArenaInit
  /\ [ServicesNext]_servicesVars =>
       /\ [CasesNext]_case /\ [LibraryNext]_libraryVars /\ [AftercareNext]_aftercareVars
       /\ [ForcedNext]_forcedVars /\ [BootNext]_bootVars /\ [ArenaNext]_arenaVars
<1>1. ServicesInit => /\ CasesInit /\ LibraryInit /\ AftercareInit
                      /\ ForcedInit /\ BootInit /\ ArenaInit
  BY DEF ServicesInit
<1>2. ASSUME ServicesNext
      PROVE  /\ [CasesNext]_case /\ [LibraryNext]_libraryVars /\ [AftercareNext]_aftercareVars
             /\ [ForcedNext]_forcedVars /\ [BootNext]_bootVars /\ [ArenaNext]_arenaVars
  BY <1>2, Zenon DEF ServicesNext
<1>3. ASSUME UNCHANGED servicesVars
      PROVE  UNCHANGED <<case, libraryVars, aftercareVars, forcedVars, bootVars, arenaVars>>
  BY <1>3 DEF servicesVars
<1>4. ASSUME UNCHANGED servicesVars
      PROVE  /\ [CasesNext]_case /\ [LibraryNext]_libraryVars /\ [AftercareNext]_aftercareVars
             /\ [ForcedNext]_forcedVars /\ [BootNext]_bootVars /\ [ArenaNext]_arenaVars
  BY <1>3, <1>4
<1>5. QED
  BY <1>1, <1>2, <1>4

\* What is checked of the services side by side is so for any processes,
\* migrations, sweeps, files, scans, judgements, titles and changes.
THEOREM ServicesAreSafe ==
  ServicesSpec => /\ []RecordedIsApplied /\ []RunsMatchTasks /\ []VerdictsAreOfThisFile
                  /\ []VerdictKeepsItsTitle /\ []FindingsAreCurrent /\ BacklogSurvives
                  /\ []RemediesFit /\ []RowsFit /\ []FilesAreMatched /\ []RetimeKeepsCues
                  /\ []PagesShowAll /\ []RanksFollowLanguages
<1>1. ServicesSpec => BootSpec /\ ForcedSpec /\ AftercareSpec /\ LibrarySpec /\ CasesSpec
  BY EachAsAlone, PTL DEF ServicesSpec, BootSpec, ForcedSpec, AftercareSpec, LibrarySpec, CasesSpec
<1>2. ServicesSpec => []RunsMatchTasks
  <2>1. ArenaInv => RunsMatchTasks
    BY DEF ArenaInv
  <2>2. QED
    BY <2>1, EachAsAlone, InitArenaInv, NextArenaInv, PTL DEF ServicesSpec
<1>3. QED
  BY <1>1, <1>2, RecordedApplied, SparedWasHeard, VerdictsKeepTitles, FindingsStayCurrent,
     BacklogKept, CasesRemediesFit, CasesRowsFit, CasesFilesAreMatched, CasesRetimeKeepsCues,
     CasesPagesShowAll, CasesRanksFollowLanguages, PTL
=============================================================================
