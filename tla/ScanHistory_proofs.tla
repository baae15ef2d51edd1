------------------------- MODULE ScanHistory_proofs -------------------------
(***************************************************************************)
(* Proofs about the scan history, for any scans, width, probes and         *)
(* disturbances.                                                           *)
(***************************************************************************)
EXTENDS ScanHistory, TLAPS

Answers == {"ok", "refused", "error", "orphaned"}

\* A POST under way is one of a task, and a task belongs to a row that is not
\* done and has answers for all files before the one it is posting.
TasksInOrder ==
    /\ \A s \in accepted : at[s] # 0
    /\ \A s \in Scans : at[s] # 0 => status[s] \in {"running", "deleted"}
    /\ \A s \in Scans, k \in Index : k < at[s] => copy[s][k] \in Answers

IInv == TypeOK /\ TasksInOrder /\ DoneIsAnswered

-----------------------------------------------------------------------------
(* Type correctness. *)

LEMMA InitTypeOK == Init => TypeOK
<1> SUFFICES ASSUME Init PROVE TypeOK
  OBVIOUS
<1> USE ScanHistoryAssumption
<1>1. IdleProbe \in [pc: {"idle", "probing", "judging", "fetching", "marking"},
                     old: 0..MaxVersion, new: 0..MaxVersion,
                     before: SUBSET Scans, done: SUBSET Files, live: SUBSET Files]
  BY DEF IdleProbe
<1>2. QED
  BY <1>1 DEF Init, TypeOK, PathStatuses, Files, Index

\* A save of the runner leaves copy, row and task well formed.
LEMMA SaveType ==
    ASSUME TypeOK, NEW s \in Scans, NEW outcome \in PathStatuses,
           SaveOutcome(s, outcome)
    PROVE  /\ saved' \in [Scans -> [Index -> PathStatuses]]
           /\ status' \in [Scans -> {"absent", "running", "done", "deleted"}]
           /\ copy' \in [Scans -> [Index -> PathStatuses]]
           /\ at' \in [Scans -> 0..Width]
<1> DEFINE results == [k \in Index |-> IF k = at[s] THEN outcome
                                       ELSE IF k = NextFile(s) THEN "running" ELSE copy[s][k]]
<1>1. results \in [Index -> PathStatuses]
  BY DEF TypeOK, PathStatuses
<1>2. /\ copy' = [copy EXCEPT ![s] = results]
      /\ saved' = [saved EXCEPT ![s] = results]
      /\ at' = [at EXCEPT ![s] = IF NextFile(s) \in Index THEN NextFile(s) ELSE 0]
      /\ status' = [status EXCEPT ![s] =
                       IF @ = "running" /\ NextFile(s) \notin Index THEN "done" ELSE @]
  BY DEF SaveOutcome
<1> HIDE DEF results
<1>3. QED
  BY <1>1, <1>2, ScanHistoryAssumption DEF TypeOK, Index

\* A step of a probe leaves its record and the watchdog's state well formed.
LEMMA ProbeType ==
    ASSUME TypeOK, NEW d \in Probers, ProbeStep(d)
    PROVE  TypeOK'
<1> USE ScanHistoryAssumption
<1> DEFINE P == [pc: {"idle", "probing", "judging", "fetching", "marking"},
                 old: 0..MaxVersion, new: 0..MaxVersion,
                 before: SUBSET Scans, done: SUBSET Files, live: SUBSET Files]
<1>1. IdleProbe \in P
  BY DEF IdleProbe
<1>2. probe \in [Probers -> P] /\ probe[d] \in P
  BY DEF TypeOK
<1>3. caps \in 0..MaxVersion /\ identity \in 0..MaxVersion /\ Created \in SUBSET Scans
      /\ completed \in SUBSET Files /\ queue \in SUBSET Files
  BY DEF TypeOK, Created
<1>4. probe' \in [Probers -> P]
  <2>1. CASE ProbeStarts(d)
    BY <1>2, <1>3, <2>1 DEF ProbeStarts
  <2>2. CASE ProbeAnswered(d)
    <3> DEFINE answer == IF Reachable THEN identity ELSE 0
    <3>1. answer \in 0..MaxVersion
      BY <1>3
    <3>2. probe' = [probe EXCEPT ![d].pc = "judging", ![d].new = answer]
      BY <2>2 DEF ProbeAnswered
    <3> HIDE DEF answer
    <3>3. QED
      BY <1>2, <3>1, <3>2
  <2>3. CASE NotReached(d) \/ Adopted(d) \/ Refreshed(d) \/ Mark(d)
    BY <1>1, <1>2, <2>3 DEF NotReached, Adopted, Refreshed, Mark
  <2>4. CASE RestartDetected(d)
    BY <1>2, <1>3, <2>4 DEF RestartDetected
  <2>5. CASE QueueFetched(d) \/ QueueUnread(d)
    BY <1>2, <1>3, <2>5 DEF QueueFetched, QueueUnread
  <2>6. QED
    BY <2>1, <2>2, <2>3, <2>4, <2>5 DEF ProbeStep, Probes
<1>5. caps' \in 0..MaxVersion /\ misses' \in 0..BounceMin /\ missed' \in 0..BounceMin
      /\ faults' \in 0..MaxFaults
  <2>1. /\ caps \in 0..MaxVersion /\ misses \in 0..BounceMin /\ missed \in 0..BounceMin
        /\ faults \in 0..MaxFaults /\ probe[d].new \in 0..MaxVersion
    BY <1>2 DEF TypeOK
  <2>2. QED
    BY <2>1 DEF ProbeStep, Probes, ProbeStarts, ProbeAnswered, NotReached, Adopted, Refreshed,
         RestartDetected, QueueFetched, QueueUnread, Mark, Fault, subgenVars
<1>6. saved' \in [Scans -> [Index -> PathStatuses]]
  <2>1. CASE Mark(d)
    BY <2>1 DEF TypeOK, Mark, PathStatuses
  <2>2. CASE ~Mark(d)
    BY <2>2 DEF TypeOK, ProbeStep, Probes, ProbeStarts, ProbeAnswered, NotReached, Adopted, Refreshed,
         RestartDetected, QueueFetched, QueueUnread, runnerVars
  <2>3. QED
    BY <2>1, <2>2
<1>7. UNCHANGED <<status, copy, at, accepted, queue, finished, completed, outage, identity>>
  BY DEF ProbeStep, Probes, ProbeStarts, ProbeAnswered, NotReached, Adopted, Refreshed, RestartDetected,
         QueueFetched, QueueUnread, Mark, runnerVars, subgenVars
<1> HIDE DEF P
<1>8. QED
  BY <1>4, <1>5, <1>6, <1>7 DEF TypeOK, P

LEMMA TypeInduction == TypeOK /\ [Next]_vars => TypeOK'
<1> SUFFICES ASSUME TypeOK, [Next]_vars PROVE TypeOK'
  OBVIOUS
<1> USE ScanHistoryAssumption
<1>1. ASSUME NEW s \in Scans, Start(s)
      PROVE  TypeOK'
  <2> DEFINE results == [k \in Index |-> IF k = 1 THEN "running" ELSE "pending"]
  <2>1. results \in [Index -> PathStatuses]
    BY DEF PathStatuses
  <2>2. copy' = [copy EXCEPT ![s] = results] /\ saved' = [saved EXCEPT ![s] = results]
    BY <1>1 DEF Start
  <2> HIDE DEF results
  <2>3. QED
    BY <1>1, <2>1, <2>2 DEF TypeOK, Start, subgenVars, watchdogVars
<1>2. ASSUME NEW s \in Scans, Accepted(s)
      PROVE  TypeOK'
  BY <1>2 DEF TypeOK, Accepted, Files, Index, runnerVars, watchdogVars
<1>3. ASSUME NEW s \in Scans, Runs(s)
      PROVE  TypeOK'
  <2>1. \E outcome \in PathStatuses : SaveOutcome(s, outcome)
    BY <1>3 DEF Runs, Answered, Refused, PostFailed, PathStatuses
  <2>2. /\ accepted' \subseteq accepted
        /\ UNCHANGED <<queue, finished, completed, outage, missed, identity, watchdogVars, faults>>
    BY <1>3 DEF Runs, Answered, Refused, PostFailed, subgenVars
  <2>3. QED
    BY <2>1, <2>2, SaveType DEF TypeOK, watchdogVars
<1>4. ASSUME NEW s \in Scans, DeleteScan(s)
      PROVE  TypeOK'
  BY <1>4 DEF TypeOK, DeleteScan, Fault, subgenVars, watchdogVars
<1>5. CASE Finishes
  BY <1>5 DEF TypeOK, Finishes, runnerVars, watchdogVars
<1>6. CASE Noted
  BY <1>6 DEF TypeOK, Noted, runnerVars, watchdogVars
<1>7. CASE Stops \/ Upgrades \/ Blip
  BY <1>7 DEF TypeOK, Stops, Upgrades, Blip, GoesDown, Fault, runnerVars, watchdogVars
<1>8. CASE Returns
  BY <1>8 DEF TypeOK, Returns, runnerVars, watchdogVars
<1>9. CASE Crash
  <2>1. caps' \in 0..MaxVersion /\ faults' \in 0..MaxFaults /\ misses' \in 0..BounceMin
    BY <1>9 DEF TypeOK, Crash, Fault
  <2>2. IdleProbe \in [pc: {"idle", "probing", "judging", "fetching", "marking"},
                       old: 0..MaxVersion, new: 0..MaxVersion,
                       before: SUBSET Scans, done: SUBSET Files, live: SUBSET Files]
    BY DEF IdleProbe
  <2>3. at' \in [Scans -> 0..Width] /\ accepted' \subseteq Scans
    BY <1>9 DEF Crash
  <2>4. QED
    BY <1>9, <2>1, <2>2, <2>3 DEF TypeOK, Crash
<1>10. CASE UNCHANGED vars
  BY <1>10 DEF TypeOK, vars, runnerVars, subgenVars, watchdogVars
<1>11. QED
  BY <1>1, <1>2, <1>3, <1>4, <1>5, <1>6, <1>7, <1>8, <1>9, <1>10, ProbeType DEF Next

-----------------------------------------------------------------------------
(* Scans end answered. *)

LEMMA InitIInv == Init => IInv
<1> SUFFICES ASSUME Init PROVE IInv
  OBVIOUS
<1>1. TasksInOrder /\ DoneIsAnswered
  BY ScanHistoryAssumption DEF Init, TasksInOrder, DoneIsAnswered, Index
<1>2. QED
  BY <1>1, InitTypeOK DEF IInv

LEMMA NextIInv == IInv /\ [Next]_vars => IInv'
<1> SUFFICES ASSUME IInv, [Next]_vars PROVE TasksInOrder' /\ DoneIsAnswered'
  BY TypeInduction DEF IInv
<1> USE ScanHistoryAssumption
<1>1. TypeOK /\ TasksInOrder /\ DoneIsAnswered /\ accepted \subseteq Scans
  BY DEF IInv, TypeOK
<1>2. ASSUME NEW s \in Scans, Start(s)
      PROVE  TasksInOrder' /\ DoneIsAnswered'
  <2>1. at'[s] = 1 /\ status'[s] = "running"
        /\ \A t \in Scans \ {s} : at'[t] = at[t] /\ status'[t] = status[t]
                                  /\ copy'[t] = copy[t] /\ saved'[t] = saved[t]
    BY <1>1, <1>2 DEF TypeOK, Start
  <2>2. accepted' = accepted
    BY <1>2 DEF Start, subgenVars
  <2>3. TasksInOrder'
    BY <1>1, <2>1, <2>2 DEF TasksInOrder, Index
  <2>4. DoneIsAnswered'
    BY <1>1, <2>1 DEF DoneIsAnswered
  <2>5. QED
    BY <2>3, <2>4
<1>3. ASSUME NEW s \in Scans, Accepted(s)
      PROVE  TasksInOrder' /\ DoneIsAnswered'
  BY <1>1, <1>3 DEF Accepted, TasksInOrder, DoneIsAnswered, runnerVars
<1>4. ASSUME NEW s \in Scans, Runs(s)
      PROVE  TasksInOrder' /\ DoneIsAnswered'
  <2>1. PICK outcome \in Answers : SaveOutcome(s, outcome)
    BY <1>4 DEF Runs, Answered, Refused, PostFailed, Answers
  <2>2. at[s] \in Index /\ s \notin accepted' /\ accepted' \subseteq accepted
    BY <1>1, <1>4 DEF Runs, Answered, Refused, PostFailed, TasksInOrder, TypeOK, Index, subgenVars
  <2> DEFINE results == [k \in Index |-> IF k = at[s] THEN outcome
                                         ELSE IF k = NextFile(s) THEN "running" ELSE copy[s][k]]
  <2>3. /\ copy' = [copy EXCEPT ![s] = results]
        /\ saved' = [saved EXCEPT ![s] = results]
        /\ at' = [at EXCEPT ![s] = IF NextFile(s) \in Index THEN NextFile(s) ELSE 0]
        /\ status' = [status EXCEPT ![s] =
                         IF @ = "running" /\ NextFile(s) \notin Index THEN "done" ELSE @]
    BY <2>1 DEF SaveOutcome
  <2>4. \A k \in Index : k <= at[s] => results[k] \in Answers
    BY <1>1, <2>2 DEF TasksInOrder, Index, NextFile
  <2>5. copy'[s] = results /\ saved'[s] = results
        /\ \A t \in Scans \ {s} : at'[t] = at[t] /\ status'[t] = status[t]
                                  /\ copy'[t] = copy[t] /\ saved'[t] = saved[t]
    BY <1>1, <2>3 DEF TypeOK
  <2> HIDE DEF results
  <2>6. CASE at[s] = Width
    <3>1. at'[s] = 0 /\ \A k \in Index : results[k] \in Answers
      BY <1>1, <2>3, <2>4, <2>6 DEF TypeOK, NextFile, Index
    <3>2. TasksInOrder'
      BY <1>1, <2>2, <2>5, <3>1 DEF TasksInOrder, Index
    <3>3. DoneIsAnswered'
      BY <1>1, <2>5, <3>1 DEF DoneIsAnswered, Answers
    <3>4. QED
      BY <3>2, <3>3
  <2>7. CASE at[s] # Width
    <3>1. at'[s] = at[s] + 1 /\ status'[s] = status[s] /\ at[s] \in Int
      BY <1>1, <2>2, <2>3, <2>7 DEF TypeOK, NextFile, Index
    <3>2. status[s] \in {"running", "deleted"}
      BY <1>1, <2>2 DEF TasksInOrder, Index
    <3>3. \A k \in Index : k < at'[s] => copy'[s][k] \in Answers
      BY <2>4, <2>5, <3>1 DEF Index
    <3>4. TasksInOrder'
      BY <1>1, <2>2, <2>5, <3>1, <3>2, <3>3 DEF TasksInOrder
    <3>5. DoneIsAnswered'
      BY <1>1, <2>5, <3>1, <3>2 DEF DoneIsAnswered
    <3>6. QED
      BY <3>4, <3>5
  <2>8. QED
    BY <2>6, <2>7
<1>5. ASSUME NEW s \in Scans, DeleteScan(s)
      PROVE  TasksInOrder' /\ DoneIsAnswered'
  BY <1>1, <1>5 DEF DeleteScan, TypeOK, TasksInOrder, DoneIsAnswered, subgenVars
<1>6. ASSUME NEW d \in Probers, ProbeStep(d)
      PROVE  TasksInOrder' /\ DoneIsAnswered'
  <2>1. UNCHANGED <<status, copy, at, accepted>>
    BY <1>6 DEF ProbeStep, Probes, ProbeStarts, ProbeAnswered, NotReached, Adopted, Refreshed,
         RestartDetected, QueueFetched, QueueUnread, Mark, runnerVars, subgenVars
  <2>2. \A s \in Scans, k \in Index : saved'[s][k] \in {saved[s][k], "orphaned"}
    <3>1. CASE Mark(d)
      BY <3>1 DEF Mark
    <3>2. CASE ~Mark(d)
      BY <1>6, <3>2 DEF ProbeStep, Probes, ProbeStarts, ProbeAnswered, NotReached, Adopted, Refreshed,
           RestartDetected, QueueFetched, QueueUnread, runnerVars
    <3>3. QED
      BY <3>1, <3>2
  <2>3. QED
    BY <1>1, <2>1, <2>2 DEF TasksInOrder, DoneIsAnswered
<1>7. CASE Finishes \/ Noted \/ Stops \/ Upgrades \/ Blip \/ Returns
  <2>1. UNCHANGED runnerVars /\ accepted' \subseteq accepted
    BY <1>7 DEF Finishes, Noted, Stops, Upgrades, Blip, GoesDown, Returns
  <2>2. QED
    BY <1>1, <2>1 DEF TasksInOrder, DoneIsAnswered, runnerVars
<1>8. CASE Crash
  BY <1>1, <1>8 DEF Crash, TasksInOrder, DoneIsAnswered, Index
<1>9. CASE UNCHANGED vars
  BY <1>1, <1>9 DEF TasksInOrder, DoneIsAnswered, vars, runnerVars, subgenVars
<1>10. QED
  BY <1>2, <1>3, <1>4, <1>5, <1>6, <1>7, <1>8, <1>9 DEF Next

\* Every reachable state of the runner, the store, the watchdog and subgen is
\* well formed.
THEOREM ScanTypeCorrect == Spec => []TypeOK
<1>1. QED
  BY InitTypeOK, TypeInduction, PTL DEF Spec

\* A row is done only when each of its files has an answer, for any number of
\* scans, files, probes and disturbances: a reconciliation that writes the row
\* between two saves of the runner does not change that.
THEOREM ScansEndAnswered == Spec => []DoneIsAnswered
<1>1. IInv => DoneIsAnswered
  BY DEF IInv
<1>2. QED
  BY <1>1, InitIInv, NextIInv, PTL DEF Spec

=============================================================================
