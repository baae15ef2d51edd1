------------------------- MODULE Completion_proofs --------------------------
(* Theorems about Completion, for any files, drivers, spans and bounds: a   *)
(* path never has two open ledger rows, the first completion of a row       *)
(* stands, and no file is judged without output while its job is under way. *)
EXTENDS Completion, TLAPS, FiniteSetTheorems

PassRecord ==
    [pc: {"idle", "asking", "judging", "uploading", "triggering", "healing", "retrying"},
     todo: SUBSET Ids, live: SUBSET Paths, entry: {0} \cup Ids,
     phase: {"none", "pending", "heal", "hook"}, span: Nat]

(* What the argument needs of the types: numbered rows, and well-formed     *)
(* drivers.                                                                 *)
LedgerOK ==
    /\ \E n \in Nat : Ids = 1..n
    /\ ledger \in [Ids -> Row]
    /\ working \subseteq Paths

PassOK == pass \in [Drivers -> PassRecord]

(* The heal pass works on rows that are closed and have a verdict, so the   *)
(* outcome it sets is a correction; and an entry being written back belongs *)
(* to a pass.                                                               *)
HealList ==
  \A d \in Drivers :
    /\ pass[d].pc \in {"uploading", "triggering"} => pass[d].phase # "none"
    /\ pass[d].pc = "healing" \/ pass[d].phase = "heal" =>
        \A i \in pass[d].todo : i \in Closed /\ ledger[i].outcome # "none"

IInv == LedgerOK /\ PassOK /\ OneOpenRow /\ HealList

(* One step keeps every completion: the body of VerdictKept.                *)
Kept ==
    \A i \in Closed :
        /\ ledger'[i].stamp = ledger[i].stamp
        /\ \/ ledger'[i].outcome = ledger[i].outcome
           \/ ledger[i].outcome = "no_output" /\ ledger'[i].outcome = "written"

(* A step that changes no row's path, reopens none and keeps the verdicts.  *)
Steady ==
    /\ Ids' = Ids
    /\ ledger' \in [Ids -> Row]
    /\ \A i \in Ids : ledger'[i].path = ledger[i].path
    /\ Kept

USE DEF Ids

(* mark_completed closes at most the row it is given.                       *)
LEMMA StampSteady ==
  ASSUME LedgerOK, NEW i, NEW outcome \in {"none", "written", "no_output"},
         ledger' = Stamp(i, outcome)
  PROVE  Steady
<1>1. NextStamp \in Nat \ {0}
  <2>1. PICK n \in Nat : Ids = 1..n
    BY DEF LedgerOK
  <2>2. IsFiniteSet(Closed)
    BY <2>1, FS_Interval, FS_Subset DEF Closed
  <2>3. QED BY <2>2, FS_CardinalityType DEF NextStamp
<1>2. QED BY <1>1 DEF LedgerOK, Stamp, Steady, Kept, Row, Open, Closed

(* A steady step keeps the ledger's invariants and the heal lists.          *)
LEMMA SteadyKeeps ==
  ASSUME IInv, Steady, working' \subseteq Paths
  PROVE  /\ LedgerOK'
         /\ OneOpenRow'
         /\ PassRecord' = PassRecord
         /\ \A i : i \in Closed /\ ledger[i].outcome # "none"
                   => i \in Closed' /\ ledger'[i].outcome # "none"
  BY DEF IInv, Steady, LedgerOK, OneOpenRow, Kept, Open, Closed, PassRecord

(* What one driver's step must show of that driver alone.                   *)
LEMMA OneDriver ==
  ASSUME IInv, Steady, working' \subseteq Paths,
         NEW d \in Drivers, NEW r \in PassRecord,
         pass' = [pass EXCEPT ![d] = r],
         r.pc \in {"uploading", "triggering"} => r.phase # "none",
         r.pc = "healing" \/ r.phase = "heal" =>
            \A i \in r.todo : i \in Closed' /\ ledger'[i].outcome # "none"
  PROVE  IInv'
<1>1. PassOK'
  BY SteadyKeeps DEF IInv, PassOK
<1>2. HealList'
  BY SteadyKeeps DEF IInv, PassOK, HealList
<1>3. QED BY <1>1, <1>2, SteadyKeeps DEF IInv


(* A driver's record has the fields its updates name.                       *)
LEMMA PassFields ==
  ASSUME IInv, NEW d \in Drivers
  PROVE  pass[d] \in PassRecord
  BY DEF IInv, PassOK

(* Steps that leave the ledger alone are steady.                            *)
LEMMA StillSteady ==
  ASSUME IInv, UNCHANGED ledger
  PROVE  Steady
  BY DEF IInv, LedgerOK, Steady, Kept

(* complete_entry on a row of the driver's list, in the pass over open rows *)
(* or for a webhook.                                                        *)
LEMMA CompleteKeeps ==
  ASSUME IInv, NEW d \in Drivers, NEW i \in Ids,
         NEW outcome \in {"none", "written", "no_output"}, NEW phase \in {"pending", "hook"},
         Complete(d, i, outcome, phase), UNCHANGED working
  PROVE  IInv' /\ Steady
<1>1. Steady
  BY StampSteady DEF Complete, IInv
<1> DEFINE r == [pass[d] EXCEPT !.pc = "uploading", !.entry = i, !.phase = phase,
                                !.todo = @ \ {i}]
<1>2. pass' = [pass EXCEPT ![d] = r]
  BY DEF Complete
<1>3. r \in PassRecord /\ r.pc = "uploading" /\ r.phase = phase
  BY PassFields DEF PassRecord
<1>4. UNCHANGED working => working' \subseteq Paths
  BY DEF IInv, LedgerOK
<1> HIDE DEF r
<1>5. QED BY <1>1, <1>2, <1>3, <1>4, OneDriver

(* Going on after an entry keeps the list of the heal pass.                 *)
LEMMA ResumeKeeps ==
  ASSUME IInv, Steady, UNCHANGED working, NEW d \in Drivers,
         pass[d].pc \in {"uploading", "triggering"}, Resume(d)
  PROVE  IInv'
<1> DEFINE r == AfterEntry(pass[d])
<1>1. pass' = [pass EXCEPT ![d] = r]
  BY DEF Resume, IInv, PassOK
<1>2. r \in PassRecord
  BY PassFields DEF AfterEntry, PassRecord, IdlePass
<1>3. /\ r.pc \notin {"uploading", "triggering"}
      /\ r.pc = "healing" \/ r.phase = "heal" =>
           r.todo = pass[d].todo /\ pass[d].phase = "heal"
  BY PassFields DEF AfterEntry, PassRecord, IdlePass, IInv, HealList
<1>4. working' \subseteq Paths
  BY DEF IInv, LedgerOK
<1>5. r.pc = "healing" \/ r.phase = "heal" =>
        \A i \in r.todo : i \in Closed' /\ ledger'[i].outcome # "none"
  <2>1. pass[d].phase = "heal" =>
          \A i \in pass[d].todo : i \in Closed /\ ledger[i].outcome # "none"
    BY DEF IInv, HealList
  <2>2. QED BY <1>3, <1>4, <2>1, SteadyKeeps
<1> HIDE DEF r
<1>6. QED BY <1>1, <1>2, <1>3, <1>4, <1>5, OneDriver


(* Writing another field of a row keeps its path, its stamp and its verdict. *)
LEMMA RowEdit ==
  ASSUME NEW r \in Row, NEW k \in {"episode", "movie", "unknown"}, NEW h \in BOOLEAN,
         NEW e \in {[r EXCEPT !.kind = k], [r EXCEPT !.heard = h],
                    [r EXCEPT !.kind = k, !.heard = h]}
  PROVE  e \in Row /\ e.path = r.path /\ e.stamp = r.stamp /\ e.outcome = r.outcome
  BY DEF Row

(* A steady write changes one row in such a field, or finds no row.         *)
LEMMA EditSteady ==
  ASSUME IInv, NEW i, NEW e, ledger' = [ledger EXCEPT ![i] = e],
         i \in Ids => /\ e \in Row
                      /\ e.path = ledger[i].path
                      /\ e.stamp = ledger[i].stamp
                      /\ e.outcome = ledger[i].outcome
  PROVE  Steady
  BY DEF IInv, LedgerOK, Steady, Kept, Closed

(* A driver that becomes idle, or that only moves on, needs no more.        *)
LEMMA GoesIdle ==
  ASSUME IInv, Steady, UNCHANGED working, NEW d \in Drivers,
         pass' = [pass EXCEPT ![d] = IdlePass]
  PROVE  IInv'
<1>1. IdlePass \in PassRecord /\ IdlePass.pc = "idle" /\ IdlePass.phase = "none"
  BY DEF IdlePass, PassRecord
<1>2. working' \subseteq Paths
  BY DEF IInv, LedgerOK
<1>3. QED BY <1>1, <1>2, OneDriver

(* The write-back notes ids and announcements, and resumes or gives up.     *)
LEMMA WriteBackKeeps ==
  ASSUME IInv, NEW d \in Drivers, WriteBack(d)
  PROVE  IInv' /\ Steady
<1> DEFINE i == pass[d].entry
<1> DEFINE kinds == {"episode", "movie", "unknown"}
<1>a. i \in Ids => ledger[i] \in Row /\ Resolved(i) \subseteq kinds
  BY DEF Resolved, IInv, LedgerOK, Row
<1> HIDE DEF i
<1>1. CASE Uploaded(d)
  <2>1. PICK k \in Resolved(i) :
          ledger' = [ledger EXCEPT ![i].kind = k, ![i].heard = TRUE]
    BY <1>1 DEF Uploaded, i
  <2> DEFINE e == [ledger[i] EXCEPT !.kind = k, !.heard = TRUE]
  <2>2. ledger' = [ledger EXCEPT ![i] = e]
    BY <2>1, Zenon DEF IInv, LedgerOK
  <2>3. i \in Ids => e \in Row /\ e.path = ledger[i].path /\ e.stamp = ledger[i].stamp
                     /\ e.outcome = ledger[i].outcome
    BY <1>a, RowEdit
  <2> HIDE DEF e
  <2>4. Steady
    BY <2>2, <2>3, EditSteady
  <2>5. Resume(d) /\ pass[d].pc = "uploading" /\ UNCHANGED working
    BY <1>1 DEF Uploaded, outsideVars
  <2>6. QED BY <2>4, <2>5, ResumeKeeps
<1>2. CASE NotUploaded(d)
  <2>1. PICK k \in Resolved(i) :
          /\ ledger' = [ledger EXCEPT ![i].kind = k]
          /\ IF k = "episode" THEN Goes(d, "triggering") ELSE Resume(d)
    BY <1>2 DEF NotUploaded, i
  <2>2. Steady
    <3> DEFINE e == [ledger[i] EXCEPT !.kind = k]
    <3>1. ledger' = [ledger EXCEPT ![i] = e]
      BY <2>1
    <3>2. i \in Ids => e \in Row /\ e.path = ledger[i].path /\ e.stamp = ledger[i].stamp
                       /\ e.outcome = ledger[i].outcome
      BY <1>a, RowEdit
    <3> HIDE DEF e
    <3>3. QED BY <3>1, <3>2, EditSteady
  <2>3. pass[d].pc = "uploading" /\ UNCHANGED working
    BY <1>2 DEF NotUploaded, outsideVars
  <2>4. CASE Resume(d)
    BY <2>2, <2>3, <2>4, ResumeKeeps
  <2>5. CASE Goes(d, "triggering")
    <3> DEFINE r == [pass[d] EXCEPT !.pc = "triggering"]
    <3>1. pass' = [pass EXCEPT ![d] = r]
      BY <2>5 DEF Goes
    <3>2. r \in PassRecord /\ r.pc = "triggering" /\ r.phase = pass[d].phase
          /\ r.todo = pass[d].todo
      BY PassFields DEF PassRecord
    <3>3. r.phase # "none"
      BY <2>3, <3>2 DEF IInv, HealList
    <3>4. r.phase = "heal" => \A j \in r.todo : j \in Closed' /\ ledger'[j].outcome # "none"
      BY <2>2, <2>3, <3>2, SteadyKeeps DEF IInv, HealList, LedgerOK
    <3>5. working' \subseteq Paths
      BY <2>3 DEF IInv, LedgerOK
    <3> HIDE DEF r
    <3>6. IInv'
      BY <2>2, <3>1, <3>2, <3>3, <3>4, <3>5, OneDriver
    <3>7. QED BY <2>2, <3>6
  <2>6. QED BY <2>1, <2>4, <2>5
<1>3. CASE Triggered(d)
  <2> DEFINE e == [ledger[i] EXCEPT !.heard = TRUE]
  <2>1. ledger' = [ledger EXCEPT ![i] = e]
    BY <1>3 DEF Triggered, i
  <2>2. i \in Ids => e \in Row /\ e.path = ledger[i].path /\ e.stamp = ledger[i].stamp
                     /\ e.outcome = ledger[i].outcome
    BY <1>a, RowEdit
  <2> HIDE DEF e
  <2>3. Steady
    BY <2>1, <2>2, EditSteady
  <2>4. QED BY <1>3, <2>3, ResumeKeeps DEF Triggered, outsideVars
<1>4. CASE NotTriggered(d)
  <2>1. Steady
    BY <1>4, StillSteady DEF NotTriggered
  <2>2. QED BY <1>4, <2>1, ResumeKeeps DEF NotTriggered, outsideVars
<1>5. CASE Raised(d)
  <2>1. Steady
    BY <1>5, StillSteady DEF Raised
  <2>2. QED BY <1>5, <2>1, GoesIdle DEF Raised, outsideVars
<1>6. QED BY <1>1, <1>2, <1>3, <1>4, <1>5 DEF WriteBack

(* The heal pass takes up the rows recorded as having no output.            *)
LEMMA HealKeeps ==
  ASSUME IInv, NEW d \in Drivers, Heal(d), UNCHANGED <<ledger, working>>
  PROVE  IInv' /\ Steady
<1> DEFINE r == [IdlePass EXCEPT !.pc = "healing", !.todo = NoOutput]
<1>1. r \in PassRecord /\ r.pc = "healing" /\ r.todo = NoOutput
  BY DEF PassRecord, IdlePass, NoOutput, Closed
<1>2. Steady
  BY StillSteady
<1>3. \A i \in r.todo : i \in Closed' /\ ledger'[i].outcome # "none"
  BY <1>1 DEF NoOutput, Closed, Open
<1>4. pass' = [pass EXCEPT ![d] = r] /\ working' \subseteq Paths
  BY DEF Heal, IInv, LedgerOK
<1> HIDE DEF r
<1>5. QED BY <1>1, <1>2, <1>3, <1>4, OneDriver


(* record() adds an open row only for a path that has none.                 *)
LEMMA SubmitKeeps ==
  ASSUME IInv, Submit
  PROVE  IInv' /\ Kept
<1>1. PICK p \in Paths, k \in Kinds : Record(p, k)
  BY DEF Submit
<1>2. UNCHANGED <<pass, working>>
  BY DEF Submit
<1>3. CASE UNCHANGED ledger
  <2>1. Steady
    BY <1>3, StillSteady
  <2>2. QED
    BY <1>2, <1>3, <2>1, SteadyKeeps
    DEF IInv, PassOK, HealList, LedgerOK, Steady, Closed, Open
<1>4. CASE OpenFor(p) = {} /\ ~UNCHANGED ledger
  <2>1. PICK n \in Nat : Ids = 1..n
    BY DEF IInv, LedgerOK
  <2>2. Cardinality(Ids) = n
    BY <2>1, FS_Interval
  <2> DEFINE new == [path |-> p, kind |-> k, age |-> 0, stamp |-> 0,
                     outcome |-> "none", heard |-> FALSE]
  <2>3. ledger' = [i \in 1..(n + 1) |-> IF i \in 1..n THEN ledger[i] ELSE new]
    BY <1>1, <1>4, <2>1, <2>2 DEF Record
  <2>4. new \in Row /\ new.path = p /\ new.stamp = 0
    BY CompletionAssumption DEF Row
  <2> HIDE DEF new
  <2>5. Ids' = 1..(n + 1) /\ ledger' \in [Ids' -> Row]
    BY <2>1, <2>3, <2>4 DEF IInv, LedgerOK
  <2>6. \A i \in Ids : i \in Ids' /\ ledger'[i] = ledger[i]
    BY <2>1, <2>3, <2>5
  <2>7. Ids' = Ids \cup {n + 1} /\ n + 1 \notin Ids /\ ledger'[n + 1] = new
    BY <2>1, <2>3, <2>5
  <2>8. Open' = Open \cup {n + 1} /\ Closed' = Closed
    BY <2>4, <2>6, <2>7 DEF Open, Closed
  <2>9. LedgerOK'
    BY <1>2, <2>5 DEF IInv, LedgerOK
  <2>10. OneOpenRow'
    BY <1>4, <2>4, <2>6, <2>7, <2>8 DEF IInv, OneOpenRow, OpenFor, Open
  <2>11. PassOK'
    BY <1>2, <2>7 DEF IInv, PassOK, PassRecord
  <2>12. HealList'
    BY <1>2, <2>6, <2>8 DEF IInv, HealList, Closed
  <2>13. Kept
    BY <2>6 DEF Kept, Closed
  <2>14. QED BY <2>9, <2>10, <2>11, <2>12, <2>13 DEF IInv
<1>5. QED BY <1>1, <1>3, <1>4 DEF Record

(* One watcher step.                                                        *)
LEMMA TickKeeps ==
  ASSUME IInv, NEW d \in Drivers, Tick(d)
  PROVE  IInv' /\ Steady
<1>0. pass[d] \in PassRecord
  BY PassFields
<1>1. CASE StartTick(d)
  <2>1. UNCHANGED <<ledger, working>>
    BY <1>1 DEF StartTick, outsideVars
  <2>2. CASE Heal(d)
    BY <2>1, <2>2, HealKeeps
  <2>3. CASE pass' = [pass EXCEPT ![d] = [IdlePass EXCEPT !.pc = "asking", !.todo = Open]]
    <3> DEFINE r == [IdlePass EXCEPT !.pc = "asking", !.todo = Open]
    <3>1. r \in PassRecord /\ r.pc = "asking" /\ r.phase = "none"
      BY DEF IdlePass, PassRecord, Open
    <3>2. Steady /\ working' \subseteq Paths
      BY <2>1, StillSteady DEF IInv, LedgerOK
    <3> HIDE DEF r
    <3>3. QED BY <2>3, <3>1, <3>2, OneDriver DEF r
  <2>4. QED BY <1>1, <2>2, <2>3 DEF StartTick
<1>2. CASE QueueAnswered(d)
  <2> DEFINE r == [pass[d] EXCEPT !.pc = "judging", !.live = working]
  <2>1. pass' = [pass EXCEPT ![d] = r]
    BY <1>2 DEF QueueAnswered
  <2>2. r \in PassRecord /\ r.pc = "judging" /\ r.phase = pass[d].phase /\ r.todo = pass[d].todo
    BY <1>0 DEF PassRecord, IInv, LedgerOK
  <2>3. Steady /\ UNCHANGED <<ledger, working>> /\ working' \subseteq Paths
    BY <1>2, StillSteady DEF QueueAnswered, outsideVars, IInv, LedgerOK
  <2>4. r.phase = "heal" => \A i \in r.todo : i \in Closed' /\ ledger'[i].outcome # "none"
    BY <2>2, <2>3 DEF IInv, HealList, Closed, Open
  <2> HIDE DEF r
  <2>5. QED BY <2>1, <2>2, <2>3, <2>4, OneDriver
<1>3. CASE QueueUnreachable(d)
  BY <1>3, HealKeeps DEF QueueUnreachable, outsideVars
<1>4. CASE RecordNoOutput(d)
  <2>1. PICK i \in Left(d) :
          ledger' = Stamp(i, "no_output") /\ pass' = [pass EXCEPT ![d].todo = @ \ {i}]
    BY <1>4 DEF RecordNoOutput
  <2>2. Steady
    BY <2>1, StampSteady DEF IInv
  <2> DEFINE r == [pass[d] EXCEPT !.todo = @ \ {i}]
  <2>3. pass' = [pass EXCEPT ![d] = r]
    BY <2>1
  <2>4. r \in PassRecord /\ r.pc = "judging" /\ r.phase = pass[d].phase
        /\ r.todo \subseteq pass[d].todo
    BY <1>0, <1>4 DEF PassRecord, RecordNoOutput
  <2>5. working' \subseteq Paths
    BY <1>4 DEF RecordNoOutput, outsideVars, IInv, LedgerOK
  <2>6. r.phase = "heal" => \A j \in r.todo : j \in Closed' /\ ledger'[j].outcome # "none"
    BY <2>2, <2>4, <2>5, SteadyKeeps DEF IInv, HealList
  <2> HIDE DEF r
  <2>7. QED BY <2>2, <2>3, <2>4, <2>5, <2>6, OneDriver
<1>5. CASE CompletesRow(d)
  <2>1. PICK i \in Left(d) : Verdict(i) # "wait" /\ Complete(d, i, Verdict(i), "pending")
    BY <1>5 DEF CompletesRow
  <2>2. i \in Ids /\ Verdict(i) \in {"none", "written"}
    BY <1>0, <2>1 DEF Left, PassRecord, Verdict
  <2>3. UNCHANGED working
    BY <1>5 DEF CompletesRow, outsideVars
  <2>4. QED BY <2>1, <2>2, <2>3, CompleteKeeps
<1>6. CASE PendingDone(d)
  BY <1>6, HealKeeps DEF PendingDone, outsideVars
<1>7. CASE HealsRow(d)
  <2>1. PICK i \in pass[d].todo :
          /\ ledger' = [ledger EXCEPT ![i].outcome = "written"]
          /\ pass' = [pass EXCEPT ![d].pc = "uploading", ![d].entry = i,
                                  ![d].phase = "heal", ![d].todo = @ \ {i}]
    BY <1>7 DEF HealsRow
  <2>2. /\ i \in Ids
        /\ \A j \in pass[d].todo : j \in Closed /\ ledger[j].outcome # "none"
        /\ ledger[i] \in Row
    BY <1>0, <1>7, <2>1 DEF HealsRow, IInv, HealList, PassRecord, LedgerOK
  <2>3. ledger[i].outcome \in {"written", "no_output"}
    BY <2>2, <2>1 DEF Row
  <2> DEFINE e == [ledger[i] EXCEPT !.outcome = "written"]
  <2>4. e \in Row /\ e.path = ledger[i].path /\ e.stamp = ledger[i].stamp /\ e.outcome = "written"
    BY <2>2 DEF Row
  <2>5. ledger' = [ledger EXCEPT ![i] = e]
    BY <2>1
  <2> HIDE DEF e
  <2>6. Steady
    BY <2>2, <2>3, <2>4, <2>5 DEF IInv, LedgerOK, Steady, Kept, Closed
  <2> DEFINE r == [pass[d] EXCEPT !.pc = "uploading", !.entry = i, !.phase = "heal",
                                  !.todo = @ \ {i}]
  <2>7. pass' = [pass EXCEPT ![d] = r]
    BY <2>1
  <2>8. r \in PassRecord /\ r.pc = "uploading" /\ r.phase = "heal"
        /\ r.todo \subseteq pass[d].todo
    BY <1>0, <2>2 DEF PassRecord
  <2>9. working' \subseteq Paths
    BY <1>7 DEF HealsRow, outsideVars, IInv, LedgerOK
  <2> HIDE DEF r
  <2>10. \A j \in r.todo : j \in Closed' /\ ledger'[j].outcome # "none"
    BY <2>2, <2>6, <2>8, <2>9, SteadyKeeps
  <2>11. QED BY <2>6, <2>7, <2>8, <2>9, <2>10, OneDriver
<1>8. CASE HealDone(d)
  <2>1. Steady /\ working' \subseteq Paths
    BY <1>8, StillSteady DEF HealDone, outsideVars, IInv, LedgerOK
  <2> DEFINE r == IF Stuck = {} THEN IdlePass
                  ELSE [IdlePass EXCEPT !.pc = "retrying", !.todo = Stuck]
  <2>2. r \in PassRecord /\ r.pc \in {"idle", "retrying"} /\ r.phase = "none"
    BY DEF PassRecord, IdlePass, Stuck, Closed
  <2>3. pass' = [pass EXCEPT ![d] = r]
    BY <1>8 DEF HealDone
  <2> HIDE DEF r
  <2>4. QED BY <2>1, <2>2, <2>3, OneDriver
<1>9. CASE Retried(d)
  <2>1. ledger' = [i \in Ids |-> IF i \in pass[d].todo
                                 THEN [ledger[i] EXCEPT !.heard = TRUE] ELSE ledger[i]]
    BY <1>9 DEF Retried
  <2>2. \A i \in Ids : LET e == [ledger[i] EXCEPT !.heard = TRUE]
                       IN  e \in Row /\ e.path = ledger[i].path
                           /\ e.stamp = ledger[i].stamp /\ e.outcome = ledger[i].outcome
    BY RowEdit DEF IInv, LedgerOK
  <2>3. \A i \in Ids : /\ ledger'[i] \in Row
                       /\ ledger'[i].path = ledger[i].path
                       /\ ledger'[i].stamp = ledger[i].stamp
                       /\ ledger'[i].outcome = ledger[i].outcome
    BY <2>1, <2>2 DEF IInv, LedgerOK
  <2>4. Steady
    BY <2>1, <2>3 DEF IInv, LedgerOK, Steady, Kept, Closed
  <2>5. QED BY <1>9, <2>4, GoesIdle DEF Retried, outsideVars
<1>10. CASE RetryFailed(d) \/ JudgeRaises(d)
  BY <1>10, StillSteady, GoesIdle DEF RetryFailed, JudgeRaises, outsideVars
<1>11. QED
  BY <1>1, <1>2, <1>3, <1>4, <1>5, <1>6, <1>7, <1>8, <1>9, <1>10 DEF Tick, Judge

(* A webhook completes the one open row of its path, if there is one.       *)
LEMMA HookKeeps ==
  ASSUME IInv, NEW h \in Drivers, HookServed(h)
  PROVE  IInv' /\ Steady
<1>1. UNCHANGED working
  BY DEF HookServed
<1>2. CASE UNCHANGED <<ledger, pass>>
  <2>1. Steady
    BY <1>2, StillSteady
  <2>2. PassOK' /\ HealList'
    BY <1>2 DEF IInv, PassOK, PassRecord, HealList, Closed, Open
  <2>3. working' \subseteq Paths
    BY <1>1 DEF IInv, LedgerOK
  <2>4. LedgerOK' /\ OneOpenRow'
    BY <2>1, <2>3, SteadyKeeps
  <2>5. QED BY <2>1, <2>2, <2>4 DEF IInv
<1>3. CASE \E p \in hooks : \E i \in OpenFor(p) : Complete(h, i, "none", "hook")
  BY <1>1, <1>3, CompleteKeeps DEF OpenFor, Open
<1>4. QED BY <1>2, <1>3 DEF HookServed

(* A step of the environment leaves the ledger and the drivers alone.       *)
LEMMA OutsideKeeps ==
  ASSUME IInv, UNCHANGED <<ledger, pass>>, working' \subseteq Paths
  PROVE  IInv' /\ Steady
<1>1. Steady
  BY StillSteady
<1>2. PassOK' /\ HealList'
  BY DEF IInv, PassOK, PassRecord, HealList, Closed, Open
<1>3. QED BY <1>1, <1>2, SteadyKeeps DEF IInv

(* A crash loses the drivers, not the ledger.                               *)
LEMMA CrashKeeps ==
  ASSUME IInv, Crash
  PROVE  IInv' /\ Steady
<1>1. Steady /\ working' \subseteq Paths
  BY StillSteady DEF Crash, outsideVars, IInv, LedgerOK
<1>2. \A d \in Drivers : pass'[d] = IdlePass
  BY DEF Crash
<1>3. IdlePass \in PassRecord' /\ IdlePass.pc = "idle" /\ IdlePass.phase = "none"
  BY DEF IdlePass, PassRecord
<1>4. PassOK' /\ HealList'
  BY <1>2, <1>3 DEF Crash, PassOK, HealList
<1>5. QED BY <1>1, <1>4, SteadyKeeps DEF IInv

(* The clock ages the open rows and the work on an answer.                  *)
LEMMA ClockKeeps ==
  ASSUME IInv, Clock
  PROVE  IInv' /\ Steady
<1>1. \A i \in Ids : /\ ledger'[i] \in Row
                     /\ ledger'[i].path = ledger[i].path
                     /\ ledger'[i].stamp = ledger[i].stamp
                     /\ ledger'[i].outcome = ledger[i].outcome
  <2>1. SUFFICES ASSUME NEW i \in Ids
                 PROVE  /\ ledger'[i] \in Row
                        /\ ledger'[i].path = ledger[i].path
                        /\ ledger'[i].stamp = ledger[i].stamp
                        /\ ledger'[i].outcome = ledger[i].outcome
    OBVIOUS
  <2>2. ledger[i] \in Row
    BY DEF IInv, LedgerOK
  <2>3. CASE i \in Open /\ ledger[i].age < MinAge
    <3>1. ledger'[i] = [ledger[i] EXCEPT !.age = @ + 1]
      BY <2>3 DEF Clock
    <3>2. QED BY <2>2, <2>3, <3>1, CompletionAssumption DEF Row
  <2>4. CASE ~(i \in Open /\ ledger[i].age < MinAge)
    BY <2>2, <2>4 DEF Clock
  <2>5. QED BY <2>3, <2>4
<1>2. Ids' = Ids /\ working' \subseteq Paths
  BY DEF Clock, IInv, LedgerOK
<1>3. Steady
  BY <1>1, <1>2 DEF IInv, LedgerOK, Steady, Kept, Closed, Clock
<1>4. \A d \in Drivers : /\ pass'[d] \in PassRecord
                         /\ pass'[d].pc = pass[d].pc
                         /\ pass'[d].phase = pass[d].phase
                         /\ pass'[d].todo = pass[d].todo
  BY PassFields DEF Clock, PassRecord
<1>5. PassOK'
  BY <1>3, <1>2, <1>4, SteadyKeeps DEF Clock, PassOK
<1>6. HealList'
  BY <1>3, <1>2, <1>4, SteadyKeeps DEF IInv, HealList
<1>7. QED BY <1>2, <1>3, <1>5, <1>6, SteadyKeeps DEF IInv

(* Only paths are submitted.                                                *)
PostedOK == DOMAIN posted \subseteq Paths

LEMMA InitInvariant == Init => IInv /\ PostedOK
<1> SUFFICES ASSUME Init PROVE IInv /\ PostedOK
  OBVIOUS
<1>1. Ids = {} /\ Ids = 1..0 /\ 0 \in Nat
  BY DEF Init
<1>2. LedgerOK
  BY <1>1 DEF Init, LedgerOK
<1>3. IdlePass \in PassRecord /\ IdlePass.pc = "idle" /\ IdlePass.phase = "none"
  BY DEF IdlePass, PassRecord
<1>4. PassOK /\ HealList
  BY <1>3 DEF Init, PassOK, HealList
<1>5. OneOpenRow
  BY <1>1 DEF OneOpenRow, Open
<1>6. QED BY <1>2, <1>4, <1>5 DEF IInv, Init, PostedOK

LEMMA PostedKeeps == PostedOK /\ [Next]_vars => PostedOK'
<1> SUFFICES ASSUME PostedOK, [Next]_vars PROVE PostedOK'
  OBVIOUS
<1>1. CASE \E d \in Pollers : Tick(d)
  BY <1>1 DEF PostedOK, Tick, StartTick, QueueAnswered, QueueUnreachable, Judge, RecordNoOutput,
              CompletesRow, JudgeRaises, PendingDone, HealsRow, HealDone, Retried, RetryFailed, outsideVars
<1>2. CASE \E d \in Drivers : WriteBack(d)
  BY <1>2 DEF PostedOK, WriteBack, Uploaded, NotUploaded, Triggered, NotTriggered, Raised,
              outsideVars
<1>3. CASE \E h \in Handlers : HookServed(h)
  BY <1>3 DEF PostedOK, HookServed
<1>4. CASE Submit \/ Arrives \/ SubgenRestarts \/ Clock
  BY <1>4 DEF PostedOK, Submit, Arrives, Unpost, SubgenRestarts, Clock
<1>5. CASE Finishes \/ HookLost \/ Crash \/ UNCHANGED vars
  BY <1>5 DEF PostedOK, Finishes, HookLost, Crash, vars, outsideVars
<1>6. CASE LibraryRemoved \/ LibraryRestored
  BY <1>6 DEF PostedOK, LibraryRemoved, LibraryRestored
<1>7. QED BY <1>1, <1>2, <1>3, <1>4, <1>5, <1>6 DEF Next

(* Every step keeps the invariant and the recorded completions.             *)
LEMMA NextKeeps == IInv /\ PostedOK /\ [Next]_vars => IInv' /\ Kept
<1> SUFFICES ASSUME IInv, PostedOK, [Next]_vars PROVE IInv' /\ Kept
  OBVIOUS
<1>1. CASE \E d \in Pollers : Tick(d)
  BY <1>1, TickKeeps DEF Drivers, Steady
<1>2. CASE \E d \in Drivers : WriteBack(d)
  BY <1>2, WriteBackKeeps DEF Steady
<1>3. CASE \E h \in Handlers : HookServed(h)
  BY <1>3, HookKeeps DEF Drivers, Steady
<1>4. CASE Submit
  BY <1>4, SubmitKeeps
<1>5. CASE Arrives
  <2>1. working' \subseteq Paths
    BY <1>5 DEF Arrives, PostedOK, IInv, LedgerOK
  <2>2. QED BY <1>5, <2>1, OutsideKeeps DEF Arrives, Steady
<1>6. CASE Finishes
  <2>1. working' \subseteq Paths
    BY <1>6 DEF Finishes, IInv, LedgerOK
  <2>2. QED BY <1>6, <2>1, OutsideKeeps DEF Finishes, Steady
<1>7. CASE HookLost
  BY <1>7, OutsideKeeps DEF HookLost, Steady, IInv, LedgerOK
<1>8. CASE SubgenRestarts
  BY <1>8, OutsideKeeps DEF SubgenRestarts, Steady
<1>9. CASE Crash
  BY <1>9, CrashKeeps DEF Steady
<1>10. CASE Clock
  BY <1>10, ClockKeeps DEF Steady
<1>11. CASE UNCHANGED vars
  BY <1>11, OutsideKeeps DEF vars, outsideVars, Steady, IInv, LedgerOK
<1>12. CASE LibraryRemoved \/ LibraryRestored
  <2>1. UNCHANGED <<ledger, pass>> /\ working' \subseteq Paths
    BY <1>12 DEF LibraryRemoved, LibraryRestored, IInv, LedgerOK
  <2>2. QED BY <2>1, OutsideKeeps DEF Steady
<1>13. QED
  BY <1>1, <1>2, <1>3, <1>4, <1>5, <1>6, <1>7, <1>8, <1>9, <1>10, <1>11, <1>12 DEF Next

(* record() and mark_completed keep one open row per path, whatever the     *)
(* watcher, the webhook handlers and the crashes do in between.             *)
THEOREM OneOpenRowAlways == Spec => []OneOpenRow
<1>1. Spec => [](IInv /\ PostedOK)
  BY InitInvariant, PostedKeeps, NextKeeps, PTL DEF Spec
<1>2. IInv => OneOpenRow
  BY DEF IInv
<1>3. QED BY <1>1, <1>2, PTL

(* The first completion of a row stands; only the heal pass corrects a      *)
(* verdict of no output.                                                    *)
THEOREM FirstVerdictStands == Spec => VerdictKept
<1>1. Spec => [](IInv /\ PostedOK)
  BY InitInvariant, PostedKeeps, NextKeeps, PTL DEF Spec
<1>2. IInv /\ PostedOK /\ [Next]_vars =>
        [\A i \in Closed :
          /\ ledger'[i].stamp = ledger[i].stamp
          /\ \/ ledger'[i].outcome = ledger[i].outcome
             \/ ledger[i].outcome = "no_output" /\ ledger'[i].outcome = "written"]_vars
  BY NextKeeps DEF Kept
<1>3. QED BY <1>1, <1>2, PTL DEF Spec, VerdictKept
-----------------------------------------------------------------------------
(* The minimum age of a verdict. It is longer than a submission takes to be *)
(* listed and a pass then works on an answer, so a row old enough to be     *)
(* judged without output was listed before the answer it is judged by.      *)

MinAgeSpansAnswer == MinAge > SurfaceLag + PassSpan

(* A submission on its way is as old as the open row of its path, at least. *)
SentFresh ==
    /\ posted \in [DOMAIN posted -> 0..SurfaceLag]
    /\ \A i \in Open : ledger[i].path \in DOMAIN posted => ledger[i].age <= posted[ledger[i].path]

(* A record of a driver that works on an answer of subgen's queue.          *)
WorksOn(r) ==
    \/ r.pc = "judging"
    \/ r.pc \in {"uploading", "triggering"} /\ r.phase = "pending"

(* What such a driver's answer misses was listed since.                     *)
MissedFresh ==
    \A d \in Drivers : WorksOn(pass[d]) =>
        \A i \in pass[d].todo : i \in Open /\ ledger[i].path \in working \ pass[d].live
            => ledger[i].age <= SurfaceLag + pass[d].span

SpansOK == \A d \in Drivers : pass[d].span <= PassSpan

OpenUnjudged == \A i \in Open : ledger[i].outcome = "none"

FreshInv == SentFresh /\ MissedFresh /\ SpansOK /\ OpenUnjudged

(* A step that opens no row and changes no age.                             *)
KeepsOpen ==
    \A i \in Open' : /\ i \in Open
                     /\ ledger'[i].path = ledger[i].path
                     /\ ledger'[i].age = ledger[i].age
                     /\ ledger'[i].outcome = ledger[i].outcome

(* A step that holds no row back.                                           *)
SparesHeld == \A i \in Open : ledger'[i].outcome # "no_output"

SparesOpen == KeepsOpen /\ SparesHeld

(* A driver goes on with the answer it has, on no more rows, or drops it.   *)
Calmly(old, new) ==
    /\ new.span \in {0, old.span}
    /\ WorksOn(new) => /\ WorksOn(old)
                       /\ new.todo \subseteq old.todo
                       /\ new.live = old.live
                       /\ new.span = old.span

(* Nothing is sent or listed.                                               *)
QueueShrinks ==
    /\ DOMAIN posted' \subseteq DOMAIN posted
    /\ posted' = [p \in DOMAIN posted' |-> posted[p]]
    /\ working' \subseteq working

LEMMA StampPositive ==
  ASSUME LedgerOK
  PROVE  NextStamp # 0
<1>1. PICK n \in Nat : Ids = 1..n
  BY DEF LedgerOK
<1>2. IsFiniteSet(Closed)
  BY <1>1, FS_Interval, FS_Subset DEF Closed
<1>3. QED BY <1>2, FS_CardinalityType DEF NextStamp

(* mark_completed takes the row out of the open ones.                       *)
LEMMA StampCloses ==
  ASSUME IInv, NEW i, NEW outcome, ledger' = Stamp(i, outcome)
  PROVE  \A j \in Open' : j \in Open /\ ledger'[j] = ledger[j]
<1>1. NextStamp # 0 /\ ledger \in [Ids -> Row]
  BY StampPositive DEF IInv, LedgerOK
<1>2. CASE i \in Open
  <2>1. ledger' = [ledger EXCEPT ![i].stamp = NextStamp, ![i].outcome = outcome]
    BY <1>2 DEF Stamp
  <2>2. Ids' = Ids /\ i \in Ids /\ \A j \in Ids : j # i => ledger'[j] = ledger[j]
    BY <1>1, <1>2, <2>1 DEF Open
  <2>3. ledger'[i].stamp = NextStamp
    BY <1>1, <2>1, <2>2 DEF Row
  <2>4. QED BY <1>1, <2>2, <2>3 DEF Open
<1>3. CASE i \notin Open
  BY <1>3 DEF Stamp, Open
<1>4. QED BY <1>2, <1>3

(* A completion other than one without output holds nothing back.           *)
LEMMA StampSpares ==
  ASSUME IInv, OpenUnjudged, NEW i, NEW outcome \in {"none", "written"}, ledger' = Stamp(i, outcome)
  PROVE  SparesOpen
<1>1. \A j \in Open' : j \in Open /\ ledger'[j] = ledger[j]
  BY StampCloses
<1>2. ledger \in [Ids -> Row]
  BY DEF IInv, LedgerOK
<1>3. \A j \in Open : ledger'[j].outcome # "no_output"
  <2> SUFFICES ASSUME NEW j \in Open PROVE ledger'[j].outcome # "no_output"
    OBVIOUS
  <2>1. CASE i \in Open /\ j = i
    BY <1>2, <2>1 DEF Stamp, Open, Row
  <2>2. CASE ~(i \in Open /\ j = i)
    <3>1. ledger'[j] = ledger[j]
      BY <1>2, <2>2 DEF Stamp, Open
    <3>2. QED BY <3>1 DEF OpenUnjudged
  <2>3. QED BY <2>1, <2>2
<1>4. QED BY <1>1, <1>3 DEF SparesOpen, SparesHeld, KeepsOpen

LEMMA StillSpares ==
  ASSUME OpenUnjudged, UNCHANGED ledger
  PROVE  SparesOpen
  BY DEF OpenUnjudged, SparesOpen, SparesHeld, KeepsOpen, Open

(* Writing another field of one row, or of a closed one, is no verdict.     *)
LEMMA EditSpares ==
  ASSUME IInv, OpenUnjudged, NEW i, NEW e, ledger' = [ledger EXCEPT ![i] = e],
         i \in Ids => \/ /\ e.path = ledger[i].path /\ e.age = ledger[i].age
                         /\ e.stamp = ledger[i].stamp /\ e.outcome = ledger[i].outcome
                      \/ i \in Closed /\ e.stamp = ledger[i].stamp
  PROVE  SparesOpen
<1>1. Ids' = Ids /\ \A j \in Ids : j # i => ledger'[j] = ledger[j]
  BY DEF IInv, LedgerOK
<1>2. i \in Ids => ledger'[i] = e
  BY DEF IInv, LedgerOK
<1>3. QED BY <1>1, <1>2 DEF SparesOpen, SparesHeld, KeepsOpen, OpenUnjudged, Open, Closed

(* A calm step keeps what is known of ages.                                 *)
LEMMA CalmKeepsFresh ==
  ASSUME IInv, FreshInv, KeepsOpen, QueueShrinks,
         \A d \in Drivers : Calmly(pass[d], pass'[d]) \/ (pass'[d].live = working' /\ pass'[d].span = pass[d].span)
  PROVE  FreshInv'
<1>1. SentFresh'
  <2>1. \A p \in DOMAIN posted' : p \in DOMAIN posted /\ posted'[p] = posted[p]
    BY DEF QueueShrinks
  <2>2. posted' \in [DOMAIN posted' -> 0..SurfaceLag]
    BY <2>1 DEF FreshInv, SentFresh, QueueShrinks
  <2>3. QED BY <2>1, <2>2 DEF FreshInv, SentFresh, KeepsOpen
<1>2. MissedFresh'
  <2> SUFFICES ASSUME NEW d \in Drivers, WorksOn(pass'[d]), NEW i \in pass'[d].todo,
                      i \in Open', ledger'[i].path \in working' \ pass'[d].live
               PROVE  ledger'[i].age <= SurfaceLag + pass'[d].span
    BY DEF MissedFresh, WorksOn
  <2>1. Calmly(pass[d], pass'[d])
    OBVIOUS
  <2>2. /\ WorksOn(pass[d]) /\ i \in pass[d].todo /\ pass'[d].live = pass[d].live
        /\ pass'[d].span = pass[d].span
    BY <2>1 DEF Calmly
  <2>3. i \in Open /\ ledger'[i].age = ledger[i].age /\ ledger[i].path \in working \ pass[d].live
    BY <2>2 DEF KeepsOpen, QueueShrinks
  <2>4. QED BY <2>2, <2>3 DEF FreshInv, MissedFresh
<1>3. SpansOK'
  <2> SUFFICES ASSUME NEW d \in Drivers PROVE pass'[d].span <= PassSpan
    BY DEF SpansOK
  <2>1. pass'[d].span \in {0, pass[d].span}
    BY DEF Calmly
  <2>2. QED BY <2>1, CompletionAssumption DEF FreshInv, SpansOK
<1>4. OpenUnjudged'
  BY DEF FreshInv, OpenUnjudged, KeepsOpen
<1>5. QED BY <1>1, <1>2, <1>3, <1>4 DEF FreshInv

(* One driver's calm step.                                                  *)
LEMMA DriverKeepsFresh ==
  ASSUME IInv, FreshInv, KeepsOpen, UNCHANGED <<posted, working>>,
         NEW d \in Drivers, NEW r, pass' = [pass EXCEPT ![d] = r],
         Calmly(pass[d], r) \/ (r.live = working /\ r.span = pass[d].span)
  PROVE  FreshInv'
<1>1. QueueShrinks
  BY DEF QueueShrinks, FreshInv, SentFresh
<1>2. \A c \in Drivers : pass'[c] = IF c = d THEN r ELSE pass[c]
  BY DEF IInv, PassOK
<1>3. \A c \in Drivers : Calmly(pass[c], pass[c])
  BY DEF Calmly
<1>4. QED BY <1>1, <1>2, <1>3, CalmKeepsFresh

(* A driver that works on no answer.                                        *)
LEMMA RestIsCalm ==
  ASSUME NEW old, NEW r, ~WorksOn(r), r.span \in {0, old.span}
  PROVE  Calmly(old, r)
  BY DEF Calmly

LEMMA IdleIsCalm ==
  ASSUME NEW old
  PROVE  Calmly(old, IdlePass)
  BY DEF Calmly, IdlePass, WorksOn

(* The body of NotHeldWhileUnderWay.                                        *)
HoldsFairly ==
    \A i \in Open : ledger'[i].outcome = "no_output" =>
        ledger[i].path \notin DOMAIN posted \cup working

LEMMA SparesHoldsFairly ==
  ASSUME SparesHeld
  PROVE  HoldsFairly
  BY DEF SparesHeld, HoldsFairly

(* complete_entry without the verdict that nothing was written.             *)
LEMMA CompleteFresh ==
  ASSUME IInv, FreshInv, NEW d \in Drivers, NEW i \in Ids, NEW outcome \in {"none", "written"},
         NEW phase, phase = "hook" \/ (phase = "pending" /\ pass[d].pc = "judging"),
         Complete(d, i, outcome, phase), UNCHANGED <<posted, working>>
  PROVE  FreshInv' /\ SparesOpen
<1>1. SparesOpen
  BY StampSpares DEF Complete, FreshInv
<1> DEFINE r == [pass[d] EXCEPT !.pc = "uploading", !.entry = i, !.phase = phase,
                                !.todo = @ \ {i}]
<1>2. pass' = [pass EXCEPT ![d] = r]
  BY DEF Complete
<1>3. /\ r.pc = "uploading" /\ r.phase = phase /\ r.span = pass[d].span
      /\ r.live = pass[d].live /\ r.todo = pass[d].todo \ {i}
  BY PassFields DEF PassRecord
<1> HIDE DEF r
<1>4. Calmly(pass[d], r)
  BY <1>3 DEF Calmly, WorksOn
<1>5. QED BY <1>1, <1>2, <1>4, DriverKeepsFresh DEF SparesOpen

(* Going on after an entry, with the answer of its pass.                    *)
LEMMA ResumeFresh ==
  ASSUME IInv, FreshInv, SparesOpen, UNCHANGED <<posted, working>>, NEW d \in Drivers,
         pass[d].pc \in {"uploading", "triggering"}, Resume(d)
  PROVE  FreshInv'
<1> DEFINE r == AfterEntry(pass[d])
<1>1. pass' = [pass EXCEPT ![d] = r]
  BY DEF Resume, IInv, PassOK
<1>2. pass[d] \in PassRecord /\ pass[d].phase # "none"
  BY PassFields DEF IInv, HealList
<1>3. CASE pass[d].phase = "hook"
  BY <1>1, <1>3, IdleIsCalm, DriverKeepsFresh DEF AfterEntry, SparesOpen
<1>4. CASE pass[d].phase # "hook"
  <2>1. /\ r.span = pass[d].span /\ r.live = pass[d].live /\ r.todo = pass[d].todo
        /\ r.pc = IF pass[d].phase = "pending" THEN "judging" ELSE "healing"
    BY <1>2, <1>4 DEF AfterEntry, PassRecord
  <2> HIDE DEF r
  <2>2. Calmly(pass[d], r)
    BY <2>1 DEF Calmly, WorksOn
  <2>3. QED BY <1>1, <2>2, DriverKeepsFresh DEF SparesOpen
<1>5. QED BY <1>3, <1>4

LEMMA WriteBackFresh ==
  ASSUME IInv, FreshInv, NEW d \in Drivers, WriteBack(d)
  PROVE  FreshInv' /\ SparesOpen
<1> DEFINE i == pass[d].entry
<1>a. i \in Ids => ledger[i] \in Row
  BY DEF IInv, LedgerOK
<1>b. UNCHANGED <<posted, working>>
  BY DEF WriteBack, Uploaded, NotUploaded, Triggered, NotTriggered, Raised, outsideVars
<1>c. OpenUnjudged
  BY DEF FreshInv
<1>d. \A row \in Row : \A k, h :
        \A e \in {[row EXCEPT !.kind = k], [row EXCEPT !.heard = h],
                  [row EXCEPT !.kind = k, !.heard = h]} :
          e.path = row.path /\ e.age = row.age /\ e.stamp = row.stamp /\ e.outcome = row.outcome
  BY DEF Row
<1> HIDE DEF i
<1>1. CASE Uploaded(d)
  <2>1. PICK k \in Resolved(i) :
          ledger' = [ledger EXCEPT ![i].kind = k, ![i].heard = TRUE]
    BY <1>1 DEF Uploaded, i
  <2> DEFINE e == [ledger[i] EXCEPT !.kind = k, !.heard = TRUE]
  <2>2. ledger' = [ledger EXCEPT ![i] = e]
    BY <2>1, Zenon DEF IInv, LedgerOK
  <2>3. i \in Ids => e.path = ledger[i].path /\ e.age = ledger[i].age
                     /\ e.stamp = ledger[i].stamp /\ e.outcome = ledger[i].outcome
    BY <1>a, <1>d
  <2> HIDE DEF e
  <2>4. SparesOpen
    BY <1>c, <2>2, <2>3, EditSpares
  <2>5. Resume(d) /\ pass[d].pc = "uploading"
    BY <1>1 DEF Uploaded
  <2>6. QED BY <1>b, <2>4, <2>5, ResumeFresh
<1>2. CASE NotUploaded(d)
  <2>1. PICK k \in Resolved(i) :
          /\ ledger' = [ledger EXCEPT ![i].kind = k]
          /\ IF k = "episode" THEN Goes(d, "triggering") ELSE Resume(d)
    BY <1>2 DEF NotUploaded, i
  <2>2. SparesOpen
    <3> DEFINE e == [ledger[i] EXCEPT !.kind = k]
    <3>1. ledger' = [ledger EXCEPT ![i] = e]
      BY <2>1
    <3>2. i \in Ids => e.path = ledger[i].path /\ e.age = ledger[i].age
                       /\ e.stamp = ledger[i].stamp /\ e.outcome = ledger[i].outcome
      BY <1>a, <1>d
    <3> HIDE DEF e
    <3>3. QED BY <1>c, <3>1, <3>2, EditSpares
  <2>3. pass[d].pc = "uploading"
    BY <1>2 DEF NotUploaded
  <2>4. CASE Resume(d)
    BY <1>b, <2>2, <2>3, <2>4, ResumeFresh
  <2>5. CASE Goes(d, "triggering")
    <3> DEFINE r == [pass[d] EXCEPT !.pc = "triggering"]
    <3>1. pass' = [pass EXCEPT ![d] = r]
      BY <2>5 DEF Goes
    <3>2. /\ r.pc = "triggering" /\ r.phase = pass[d].phase /\ r.todo = pass[d].todo
          /\ r.live = pass[d].live /\ r.span = pass[d].span
      BY PassFields DEF PassRecord
    <3> HIDE DEF r
    <3>3. Calmly(pass[d], r)
      BY <2>3, <3>2 DEF Calmly, WorksOn
    <3>4. QED BY <1>b, <2>2, <3>1, <3>3, DriverKeepsFresh DEF SparesOpen
  <2>6. QED BY <2>1, <2>2, <2>4, <2>5
<1>3. CASE Triggered(d)
  <2> DEFINE e == [ledger[i] EXCEPT !.heard = TRUE]
  <2>1. ledger' = [ledger EXCEPT ![i] = e]
    BY <1>3 DEF Triggered, i
  <2>2. i \in Ids => e.path = ledger[i].path /\ e.age = ledger[i].age
                     /\ e.stamp = ledger[i].stamp /\ e.outcome = ledger[i].outcome
    BY <1>a, <1>d
  <2> HIDE DEF e
  <2>3. SparesOpen
    BY <1>c, <2>1, <2>2, EditSpares
  <2>4. QED BY <1>3, <1>b, <2>3, ResumeFresh DEF Triggered
<1>4. CASE NotTriggered(d)
  BY <1>4, <1>b, <1>c, StillSpares, ResumeFresh DEF NotTriggered
<1>5. CASE Raised(d)
  BY <1>5, <1>b, <1>c, StillSpares, IdleIsCalm, DriverKeepsFresh DEF Raised, SparesOpen
<1>6. QED BY <1>1, <1>2, <1>3, <1>4, <1>5 DEF WriteBack

LEMMA HealFresh ==
  ASSUME IInv, FreshInv, NEW d \in Drivers, Heal(d), UNCHANGED <<ledger, posted, working>>
  PROVE  FreshInv' /\ SparesOpen
<1> DEFINE r == [IdlePass EXCEPT !.pc = "healing", !.todo = NoOutput]
<1>1. pass' = [pass EXCEPT ![d] = r] /\ r.pc = "healing" /\ r.span = 0
  BY DEF Heal, IdlePass
<1> HIDE DEF r
<1>2. Calmly(pass[d], r)
  BY <1>1, RestIsCalm DEF WorksOn
<1>3. SparesOpen
  BY StillSpares DEF FreshInv
<1>4. QED BY <1>1, <1>2, <1>3, DriverKeepsFresh DEF SparesOpen

(* A row judged without output is old, so it is neither on its way nor was   *)
(* it listed after the answer, which does not name it.                      *)
LEMMA RecordNoOutputFresh ==
  ASSUME IInv, FreshInv, MinAgeSpansAnswer, NEW d \in Drivers, RecordNoOutput(d)
  PROVE  FreshInv' /\ HoldsFairly
<1>1. PICK i \in Left(d) : /\ NothingWritten(i)
                           /\ ledger' = Stamp(i, "no_output")
                           /\ pass' = [pass EXCEPT ![d].todo = @ \ {i}]
  BY DEF RecordNoOutput
<1>2. UNCHANGED <<posted, working>> /\ pass[d].pc = "judging"
  BY DEF RecordNoOutput, outsideVars
<1>3. KeepsOpen
  BY <1>1, StampCloses DEF KeepsOpen
<1>4. FreshInv'
  <2> DEFINE r == [pass[d] EXCEPT !.todo = @ \ {i}]
  <2>1. pass' = [pass EXCEPT ![d] = r]
    BY <1>1
  <2>2. /\ r.pc = pass[d].pc /\ r.span = pass[d].span /\ r.live = pass[d].live
        /\ r.todo = pass[d].todo \ {i}
    BY PassFields DEF PassRecord
  <2> HIDE DEF r
  <2>3. Calmly(pass[d], r)
    BY <1>2, <2>2 DEF Calmly, WorksOn
  <2>4. QED BY <1>2, <1>3, <2>1, <2>3, DriverKeepsFresh
<1>5. ASSUME NEW j \in Open, ledger'[j].outcome = "no_output"
      PROVE  ledger[j].path \notin DOMAIN posted \cup working
  <2>1. j = i /\ i \in Open
    <3>1. ledger \in [Ids -> Row] /\ ledger[j].outcome = "none"
      BY DEF IInv, LedgerOK, FreshInv, OpenUnjudged
    <3>2. QED BY <1>1, <1>5, <3>1 DEF Stamp, Open
  <2>2. /\ i \in pass[d].todo /\ ledger[i].path \notin pass[d].live
        /\ ledger[i].age >= MinAge
    BY <1>1 DEF Left, NothingWritten
  <2>3. /\ ledger[i].age \in Nat /\ pass[d].span \in Nat /\ pass[d].span <= PassSpan
        /\ MinAge \in Nat /\ SurfaceLag \in Nat /\ PassSpan \in Nat
    BY <2>1, PassFields, CompletionAssumption
       DEF IInv, LedgerOK, Open, Row, PassRecord, FreshInv, SpansOK
  <2>4. ledger[i].path \notin DOMAIN posted
    <3>1. ledger[i].path \in DOMAIN posted =>
            /\ ledger[i].age <= posted[ledger[i].path]
            /\ posted[ledger[i].path] \in 0..SurfaceLag
      BY <2>1 DEF FreshInv, SentFresh
    <3>2. QED BY <2>2, <2>3, <3>1 DEF MinAgeSpansAnswer
  <2>5. ledger[i].path \notin working
    <3>1. ledger[i].path \in working => ledger[i].age <= SurfaceLag + pass[d].span
      BY <1>2, <2>1, <2>2 DEF FreshInv, MissedFresh, WorksOn
    <3>2. QED BY <2>2, <2>3, <3>1 DEF MinAgeSpansAnswer
  <2>6. QED BY <2>1, <2>4, <2>5
<1>6. QED BY <1>4, <1>5 DEF HoldsFairly

LEMMA TickFresh ==
  ASSUME IInv, FreshInv, MinAgeSpansAnswer, NEW d \in Drivers, Tick(d)
  PROVE  FreshInv' /\ HoldsFairly
<1>a. OpenUnjudged /\ UNCHANGED <<posted, working>>
  BY DEF FreshInv, Tick, StartTick, QueueAnswered, QueueUnreachable, Judge, RecordNoOutput,
         CompletesRow, JudgeRaises, PendingDone, HealsRow, HealDone, Retried, RetryFailed, outsideVars
<1>1. ASSUME UNCHANGED ledger, Heal(d) PROVE FreshInv' /\ HoldsFairly
  BY <1>a, <1>1, HealFresh, SparesHoldsFairly DEF SparesOpen
<1>2. ASSUME SparesOpen, NEW r, pass' = [pass EXCEPT ![d] = r], r.span = 0, ~WorksOn(r)
      PROVE  FreshInv' /\ HoldsFairly
  BY <1>a, <1>2, RestIsCalm, DriverKeepsFresh, SparesHoldsFairly DEF SparesOpen
<1>3. UNCHANGED ledger => SparesOpen
  BY <1>a, StillSpares
<1>4. IdlePass.span = 0 /\ ~WorksOn(IdlePass)
  BY DEF IdlePass, WorksOn
<1>5. CASE StartTick(d)
  <2>1. UNCHANGED ledger
    BY <1>5 DEF StartTick
  <2>2. CASE pass' = [pass EXCEPT ![d] = [IdlePass EXCEPT !.pc = "asking", !.todo = Open]]
    <3> DEFINE r == [IdlePass EXCEPT !.pc = "asking", !.todo = Open]
    <3>1. pass' = [pass EXCEPT ![d] = r]
      BY <2>2
    <3>2. r.span = 0 /\ ~WorksOn(r)
      BY DEF IdlePass, WorksOn
    <3> HIDE DEF r
    <3>3. QED BY <1>2, <1>3, <2>1, <3>1, <3>2
  <2>3. QED BY <1>1, <1>5, <2>1, <2>2 DEF StartTick
<1>6. CASE QueueAnswered(d)
  <2> DEFINE r == [pass[d] EXCEPT !.pc = "judging", !.live = working]
  <2>1. pass' = [pass EXCEPT ![d] = r] /\ UNCHANGED ledger
    BY <1>6 DEF QueueAnswered
  <2>2. r.live = working /\ r.span = pass[d].span
    BY PassFields DEF PassRecord
  <2> HIDE DEF r
  <2>3. QED
    BY <1>a, <1>3, <2>1, <2>2, DriverKeepsFresh, SparesHoldsFairly DEF SparesOpen
<1>7. CASE QueueUnreachable(d) \/ PendingDone(d)
  BY <1>1, <1>7 DEF QueueUnreachable, PendingDone
<1>8. CASE RecordNoOutput(d)
  BY <1>8, RecordNoOutputFresh
<1>9. CASE CompletesRow(d)
  <2>1. PICK i \in Left(d) : Verdict(i) # "wait" /\ Complete(d, i, Verdict(i), "pending")
    BY <1>9 DEF CompletesRow
  <2>2. Verdict(i) \in {"none", "written"} /\ i \in Ids /\ pass[d].pc = "judging"
    BY <1>9, <2>1, PassFields DEF Verdict, Left, PassRecord, CompletesRow
  <2>3. QED BY <1>a, <2>1, <2>2, CompleteFresh, SparesHoldsFairly DEF SparesOpen
<1>10. CASE HealsRow(d)
  <2>1. PICK i \in pass[d].todo :
          /\ ledger' = [ledger EXCEPT ![i].outcome = "written"]
          /\ pass' = [pass EXCEPT ![d].pc = "uploading", ![d].entry = i,
                                  ![d].phase = "heal", ![d].todo = @ \ {i}]
    BY <1>10 DEF HealsRow
  <2>2. i \in Closed /\ pass[d].pc = "healing" /\ i \in Ids
    BY <1>10 DEF HealsRow, IInv, HealList, Closed
  <2> DEFINE e == [ledger[i] EXCEPT !.outcome = "written"]
  <2>3. ledger' = [ledger EXCEPT ![i] = e]
    BY <2>1
  <2>4. e.stamp = ledger[i].stamp
    BY <2>2 DEF IInv, LedgerOK, Row
  <2> HIDE DEF e
  <2>5. SparesOpen
    BY <1>a, <2>2, <2>3, <2>4, EditSpares
  <2> DEFINE r == [pass[d] EXCEPT !.pc = "uploading", !.entry = i, !.phase = "heal",
                                  !.todo = @ \ {i}]
  <2>6. pass' = [pass EXCEPT ![d] = r]
    BY <2>1
  <2>7. r.pc = "uploading" /\ r.phase = "heal" /\ r.span = pass[d].span
    BY PassFields DEF PassRecord
  <2> HIDE DEF r
  <2>8. Calmly(pass[d], r)
    BY <2>7, RestIsCalm DEF WorksOn
  <2>9. QED BY <1>a, <2>5, <2>6, <2>8, DriverKeepsFresh, SparesHoldsFairly DEF SparesOpen
<1>11. CASE HealDone(d)
  <2>1. UNCHANGED ledger
    BY <1>11 DEF HealDone
  <2>2. CASE pass' = [pass EXCEPT ![d] = IdlePass]
    BY <1>2, <1>3, <1>4, <2>1, <2>2
  <2>3. CASE pass' = [pass EXCEPT ![d] = [IdlePass EXCEPT !.pc = "retrying", !.todo = Stuck]]
    <3> DEFINE r == [IdlePass EXCEPT !.pc = "retrying", !.todo = Stuck]
    <3>1. pass' = [pass EXCEPT ![d] = r]
      BY <2>3
    <3>2. r.span = 0 /\ ~WorksOn(r)
      BY DEF IdlePass, WorksOn
    <3> HIDE DEF r
    <3>3. QED BY <1>2, <1>3, <2>1, <3>1, <3>2
  <2>4. QED BY <1>11, <2>2, <2>3 DEF HealDone
<1>12. CASE Retried(d)
  <2>1. /\ ledger' = [i \in Ids |-> IF i \in pass[d].todo
                                    THEN [ledger[i] EXCEPT !.heard = TRUE] ELSE ledger[i]]
        /\ pass' = [pass EXCEPT ![d] = IdlePass]
    BY <1>12 DEF Retried
  <2>2. \A row \in Row : LET e == [row EXCEPT !.heard = TRUE]
                         IN  /\ e.path = row.path /\ e.age = row.age
                             /\ e.stamp = row.stamp /\ e.outcome = row.outcome
    BY DEF Row
  <2>3. Ids' = Ids /\ \A i \in Ids : ledger[i] \in Row
    BY <2>1 DEF IInv, LedgerOK
  <2>4. \A i \in Ids : /\ ledger'[i].path = ledger[i].path /\ ledger'[i].age = ledger[i].age
                       /\ ledger'[i].stamp = ledger[i].stamp
                       /\ ledger'[i].outcome = ledger[i].outcome
    BY <2>1, <2>2, <2>3
  <2>5. SparesOpen
    BY <1>a, <2>3, <2>4 DEF SparesOpen, SparesHeld, KeepsOpen, OpenUnjudged, Open
  <2>6. QED BY <1>2, <1>4, <2>1, <2>5
<1>13. CASE RetryFailed(d) \/ JudgeRaises(d)
  <2>1. UNCHANGED ledger /\ pass' = [pass EXCEPT ![d] = IdlePass]
    BY <1>13 DEF RetryFailed, JudgeRaises
  <2>2. QED BY <1>2, <1>3, <1>4, <2>1
<1>14. QED
  BY <1>5, <1>6, <1>7, <1>8, <1>9, <1>10, <1>11, <1>12, <1>13 DEF Tick, Judge

LEMMA HookFresh ==
  ASSUME IInv, FreshInv, NEW h \in Drivers, HookServed(h)
  PROVE  FreshInv' /\ SparesOpen
<1>1. UNCHANGED <<posted, working>> /\ OpenUnjudged
  BY DEF HookServed, FreshInv
<1>2. CASE UNCHANGED <<ledger, pass>>
  <2>1. SparesOpen
    BY <1>1, <1>2, StillSpares
  <2>2. pass' = [pass EXCEPT ![h] = pass[h]] /\ Calmly(pass[h], pass[h])
    BY <1>2 DEF IInv, PassOK, Calmly
  <2>3. QED BY <1>1, <2>1, <2>2, DriverKeepsFresh DEF SparesOpen
<1>3. CASE \E p \in hooks : \E i \in OpenFor(p) : Complete(h, i, "none", "hook")
  BY <1>1, <1>3, CompleteFresh DEF OpenFor, Open
<1>4. QED BY <1>2, <1>3 DEF HookServed

(* A submission begins with its row, since no lost file is submitted again  *)
(* on an old one.                                                           *)
LEMMA SubmitFresh ==
  ASSUME IInv, FreshInv, Submit, "resubmit" \notin Faults
  PROVE  FreshInv' /\ SparesHeld
<1>1. PICK p \in Paths, k \in Kinds :
        /\ p \notin DOMAIN posted
        /\ Record(p, k)
        /\ OpenFor(p) = {}
        /\ posted' = [q \in DOMAIN posted \cup {p} |-> IF q = p THEN 0 ELSE posted[q]]
  BY DEF Submit, Fault
<1>2. UNCHANGED <<pass, working>>
  BY DEF Submit
<1>3. PICK n \in Nat : Ids = 1..n
  BY DEF IInv, LedgerOK
<1>4. Cardinality(Ids) = n
  BY <1>3, FS_Interval
<1> DEFINE new == [path |-> p, kind |-> k, age |-> 0, stamp |-> 0,
                   outcome |-> "none", heard |-> FALSE]
<1>5. UNCHANGED ledger \/ ledger' = [i \in 1..(n + 1) |-> IF i \in 1..n THEN ledger[i] ELSE new]
  BY <1>1, <1>3, <1>4 DEF Record
<1>6. new.path = p /\ new.age = 0 /\ new.outcome = "none"
  OBVIOUS
<1> HIDE DEF new
<1>7. \A i \in Ids : ledger'[i] = ledger[i]
  BY <1>3, <1>5
<1>8. \A i \in Ids' : i \notin Ids => ledger'[i] = new
  BY <1>3, <1>5
<1>9. \A i \in Open' : i \in Open \/ (i \notin Ids /\ ledger'[i] = new)
  BY <1>7, <1>8 DEF Open
<1>10. posted' \in [DOMAIN posted' -> 0..SurfaceLag]
  BY <1>1, CompletionAssumption DEF FreshInv, SentFresh
<1>11. SentFresh'
  <2> SUFFICES ASSUME NEW i \in Open', ledger'[i].path \in DOMAIN posted'
               PROVE  ledger'[i].age <= posted'[ledger'[i].path]
    BY <1>10 DEF SentFresh
  <2>1. CASE i \in Open
    <3>1. ledger'[i] = ledger[i] /\ ledger[i].path # p
      BY <1>1, <1>7, <2>1 DEF OpenFor, Open
    <3>2. ledger[i].path \in DOMAIN posted /\ posted'[ledger[i].path] = posted[ledger[i].path]
      BY <1>1, <3>1
    <3>3. QED BY <2>1, <3>1, <3>2 DEF FreshInv, SentFresh
  <2>2. CASE ledger'[i] = new
    <3>1. posted'[p] = 0 /\ 0 <= 0
      BY <1>1
    <3>2. QED BY <1>6, <2>2, <3>1
  <2>3. QED BY <1>9, <2>1, <2>2
<1>12. MissedFresh'
  <2> SUFFICES ASSUME NEW d \in Drivers, WorksOn(pass[d]), NEW i \in pass[d].todo,
                      i \in Open', ledger'[i].path \in working \ pass[d].live
               PROVE  ledger'[i].age <= SurfaceLag + pass[d].span
    BY <1>2 DEF MissedFresh, WorksOn
  <2>1. i \in Ids
    BY PassFields DEF PassRecord
  <2>2. i \in Open /\ ledger'[i] = ledger[i]
    BY <1>7, <1>9, <2>1
  <2>3. QED BY <2>2 DEF FreshInv, MissedFresh
<1>13. SpansOK' /\ OpenUnjudged'
  BY <1>2, <1>6, <1>7, <1>9 DEF FreshInv, SpansOK, OpenUnjudged, Open
<1>14. \A i \in Open : ledger'[i].outcome # "no_output"
  BY <1>7 DEF FreshInv, OpenUnjudged, Open
<1>15. QED BY <1>11, <1>12, <1>13, <1>14 DEF FreshInv, SparesHeld

(* What is listed after an answer is no older than a submission may be.     *)
LEMMA ArrivesFresh ==
  ASSUME IInv, FreshInv, Arrives
  PROVE  FreshInv' /\ SparesHeld
<1>1. PICK p \in DOMAIN posted : /\ posted' = [q \in DOMAIN posted \ {p} |-> posted[q]]
                                 /\ working' \in {working, working \cup {p}}
  BY DEF Arrives, Unpost
<1>2. UNCHANGED <<ledger, pass>>
  BY DEF Arrives
<1>3. Open' = Open
  BY <1>2 DEF Open
<1>4. SentFresh'
  BY <1>1, <1>2, <1>3 DEF FreshInv, SentFresh
<1>5. MissedFresh'
  <2> SUFFICES ASSUME NEW d \in Drivers, WorksOn(pass[d]), NEW i \in pass[d].todo,
                      i \in Open, ledger[i].path \in working' \ pass[d].live
               PROVE  ledger[i].age <= SurfaceLag + pass[d].span
    BY <1>2, <1>3 DEF MissedFresh, WorksOn
  <2>1. CASE ledger[i].path \in working
    BY <2>1 DEF FreshInv, MissedFresh
  <2>2. CASE ledger[i].path = p
    <3>1. ledger[i].age <= posted[p] /\ posted[p] \in 0..SurfaceLag
      BY <2>2 DEF FreshInv, SentFresh
    <3>2. ledger[i].age \in Nat /\ pass[d].span \in Nat /\ SurfaceLag \in Nat
      BY PassFields, CompletionAssumption DEF IInv, LedgerOK, Open, Row, PassRecord
    <3>3. QED BY <3>1, <3>2
  <2>3. QED BY <1>1, <2>1, <2>2
<1>6. SpansOK' /\ OpenUnjudged' /\ SparesHeld
  BY <1>2, <1>3 DEF FreshInv, SpansOK, OpenUnjudged, SparesHeld
<1>7. QED BY <1>4, <1>5, <1>6 DEF FreshInv

(* Rows, submissions and the work on an answer age together.                *)
LEMMA ClockFresh ==
  ASSUME IInv, FreshInv, Clock
  PROVE  FreshInv' /\ SparesHeld
<1>1. \A i \in Ids : /\ ledger'[i].path = ledger[i].path
                     /\ ledger'[i].stamp = ledger[i].stamp
                     /\ ledger'[i].outcome = ledger[i].outcome
                     /\ ledger'[i].age <= ledger[i].age + 1
                     /\ ledger'[i].age \in Nat /\ ledger[i].age \in Nat
  <2> SUFFICES ASSUME NEW i \in Ids
               PROVE  /\ ledger'[i].path = ledger[i].path
                      /\ ledger'[i].stamp = ledger[i].stamp
                      /\ ledger'[i].outcome = ledger[i].outcome
                      /\ ledger'[i].age <= ledger[i].age + 1
                      /\ ledger'[i].age \in Nat /\ ledger[i].age \in Nat
    OBVIOUS
  <2>1. ledger[i] \in Row /\ ledger[i].age \in Nat
    BY CompletionAssumption DEF IInv, LedgerOK, Row
  <2>2. CASE i \in Open /\ ledger[i].age < MinAge
    <3>1. ledger'[i] = [ledger[i] EXCEPT !.age = @ + 1]
      BY <2>2 DEF Clock
    <3>2. /\ ledger'[i].path = ledger[i].path /\ ledger'[i].stamp = ledger[i].stamp
          /\ ledger'[i].outcome = ledger[i].outcome /\ ledger'[i].age = ledger[i].age + 1
      BY <2>1, <3>1 DEF Row
    <3>3. QED BY <2>1, <3>2
  <2>3. CASE ~(i \in Open /\ ledger[i].age < MinAge)
    <3>1. ledger'[i] = ledger[i]
      BY <2>3 DEF Clock
    <3>2. QED BY <2>1, <3>1
  <2>4. QED BY <2>2, <2>3
<1>2. Ids' = Ids /\ working' = working
  BY DEF Clock
<1>3. Open' = Open
  BY <1>1, <1>2 DEF Open
<1>4. SentFresh'
  <2>1. /\ posted' = [p \in DOMAIN posted |-> posted[p] + 1]
        /\ \A p \in DOMAIN posted : posted[p] < SurfaceLag /\ posted[p] \in 0..SurfaceLag
    BY DEF Clock, FreshInv, SentFresh
  <2>2. SurfaceLag \in Nat
    BY CompletionAssumption
  <2>3. posted' \in [DOMAIN posted' -> 0..SurfaceLag]
    BY <2>1, <2>2
  <2>4. ASSUME NEW i \in Open, ledger[i].path \in DOMAIN posted
        PROVE  ledger'[i].age <= posted'[ledger[i].path]
    <3>1. ledger[i].age <= posted[ledger[i].path]
      BY <2>4 DEF FreshInv, SentFresh
    <3>2. i \in Ids /\ posted'[ledger[i].path] = posted[ledger[i].path] + 1
      BY <2>1, <2>4 DEF Open
    <3>3. QED BY <1>1, <2>1, <2>2, <2>4, <3>1, <3>2
  <2>5. \A i \in Open : i \in Ids
    BY DEF Open
  <2>6. QED BY <1>1, <1>3, <2>1, <2>3, <2>4, <2>5 DEF SentFresh
<1>5. \A d \in Drivers : /\ pass'[d].todo = pass[d].todo /\ pass'[d].live = pass[d].live
                         /\ pass'[d].pc = pass[d].pc /\ pass'[d].phase = pass[d].phase
                         /\ pass'[d].span = IF WorksOn(pass[d]) THEN pass[d].span + 1 ELSE pass[d].span
  BY PassFields DEF Clock, OnAnswer, WorksOn, PassRecord
<1>6. MissedFresh'
  <2> SUFFICES ASSUME NEW d \in Drivers, WorksOn(pass'[d]), NEW i \in pass'[d].todo,
                      i \in Open', ledger'[i].path \in working' \ pass'[d].live
               PROVE  ledger'[i].age <= SurfaceLag + pass'[d].span
    BY DEF MissedFresh, WorksOn
  <2>1. i \in Open /\ i \in Ids /\ ledger'[i].path = ledger[i].path
    BY <1>1, <1>3 DEF Open
  <2>2. WorksOn(pass[d]) /\ i \in pass[d].todo /\ ledger[i].path \in working \ pass[d].live
    BY <1>2, <1>5, <2>1 DEF WorksOn
  <2>3. ledger[i].age <= SurfaceLag + pass[d].span /\ pass'[d].span = pass[d].span + 1
    BY <1>5, <2>1, <2>2 DEF FreshInv, MissedFresh
  <2>4. pass[d].span \in Nat /\ SurfaceLag \in Nat
    BY PassFields, CompletionAssumption DEF PassRecord
  <2>5. QED BY <1>1, <2>1, <2>3, <2>4
<1>7. SpansOK'
  <2> SUFFICES ASSUME NEW d \in Drivers PROVE pass'[d].span <= PassSpan
    BY DEF SpansOK
  <2>1. pass[d].span \in Nat /\ PassSpan \in Nat /\ pass[d].span <= PassSpan
    BY PassFields, CompletionAssumption DEF PassRecord, FreshInv, SpansOK
  <2>2. WorksOn(pass[d]) => pass[d].span < PassSpan
    BY DEF Clock, OnAnswer, WorksOn
  <2>3. QED BY <1>5, <2>1, <2>2
<1>8. OpenUnjudged' /\ SparesHeld
  BY <1>1, <1>3 DEF FreshInv, OpenUnjudged, SparesHeld, Open
<1>9. QED BY <1>4, <1>6, <1>7, <1>8 DEF FreshInv

(* Every step keeps the ages and holds rows back fairly.                    *)
LEMMA NextFresh ==
  ASSUME IInv, FreshInv, [Next]_vars, MinAgeSpansAnswer, "resubmit" \notin Faults
  PROVE  FreshInv' /\ HoldsFairly
<1>1. CASE \E d \in Pollers : Tick(d)
  BY <1>1, TickFresh DEF Drivers
<1>2. CASE \E d \in Drivers : WriteBack(d)
  BY <1>2, WriteBackFresh, SparesHoldsFairly DEF SparesOpen
<1>3. CASE \E h \in Handlers : HookServed(h)
  BY <1>3, HookFresh, SparesHoldsFairly DEF Drivers, SparesOpen
<1>4. CASE Submit
  BY <1>4, SubmitFresh, SparesHoldsFairly DEF SparesOpen
<1>5. CASE Arrives
  BY <1>5, ArrivesFresh, SparesHoldsFairly DEF SparesOpen
<1>6. CASE Clock
  BY <1>6, ClockFresh, SparesHoldsFairly DEF SparesOpen
<1>7. CASE \/ Finishes \/ HookLost \/ SubgenRestarts \/ Crash
           \/ LibraryRemoved \/ LibraryRestored \/ UNCHANGED vars
  <2>1. UNCHANGED ledger
    BY <1>7 DEF Finishes, HookLost, SubgenRestarts, Crash, LibraryRemoved, LibraryRestored, vars
  <2>2. SparesOpen
    BY <2>1, StillSpares DEF FreshInv
  <2>3. posted \in [DOMAIN posted -> 0..SurfaceLag]
    BY DEF FreshInv, SentFresh
  <2>4. QueueShrinks
    BY <1>7, <2>3 DEF Finishes, HookLost, SubgenRestarts, Crash, LibraryRemoved, LibraryRestored, vars, outsideVars, QueueShrinks
  <2>5. \A d \in Drivers : pass'[d] = pass[d] \/ pass'[d] = IdlePass
    BY <1>7 DEF Finishes, HookLost, SubgenRestarts, Crash, LibraryRemoved, LibraryRestored, vars
  <2>6. \A d \in Drivers : Calmly(pass[d], pass'[d])
    BY <2>5, IdleIsCalm DEF Calmly
  <2>7. QED BY <2>2, <2>4, <2>6, CalmKeepsFresh, SparesHoldsFairly DEF SparesOpen
<1>8. QED BY <1>1, <1>2, <1>3, <1>4, <1>5, <1>6, <1>7 DEF Next

LEMMA InitFresh == Init => FreshInv
<1> SUFFICES ASSUME Init PROVE FreshInv
  OBVIOUS
<1>1. Open = {} /\ posted = [p \in {} |-> 0] /\ DOMAIN posted = {}
  BY DEF Init, Open
<1>2. \A d \in Drivers : pass[d].pc = "idle" /\ pass[d].span = 0
  BY DEF Init, IdlePass
<1>3. SentFresh /\ OpenUnjudged
  BY <1>1 DEF SentFresh, OpenUnjudged
<1>4. MissedFresh
  BY <1>2 DEF MissedFresh, WorksOn
<1>5. SpansOK
  BY <1>2, CompletionAssumption DEF SpansOK
<1>6. QED BY <1>3, <1>4, <1>5 DEF FreshInv

(* NO_OUTPUT_MIN_AGE_S keeps its promise: however answers of subgen's queue  *)
(* go stale while rows are written back, and whoever crashes or restarts, a *)
(* file is not recorded as having produced nothing while its job is on the  *)
(* way to subgen or in its queue; as long as the minimum age is longer than *)
(* a submission takes to be listed and a pass works on an answer, and a     *)
(* file is not submitted again on an open row.                              *)
THEOREM NoVerdictUnderWay ==
  ASSUME MinAgeSpansAnswer, "resubmit" \notin Faults
  PROVE  Spec => NotHeldWhileUnderWay
<1>1. IInv /\ PostedOK /\ FreshInv /\ [Next]_vars => IInv' /\ PostedOK' /\ FreshInv'
  BY NextKeeps, PostedKeeps, NextFresh
<1>2. IInv /\ FreshInv /\ [Next]_vars =>
        [\A i \in Open : ledger'[i].outcome = "no_output" =>
            ledger[i].path \notin DOMAIN posted \cup working]_vars
  BY NextFresh DEF HoldsFairly
<1>3. QED BY <1>1, <1>2, InitInvariant, InitFresh, PTL DEF Spec, NotHeldWhileUnderWay

=============================================================================
