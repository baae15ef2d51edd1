---------------------------- MODULE Loops_proofs ----------------------------
(* Proofs about services that keep going by themselves: the circuit breaker *)
(* and the coverage snapshot with its requests, builds and walks.           *)
EXTENDS MCLoops, SequenceTheorems, TLAPS

----------------------------------------------------------------------------
(* The circuit breaker: type correctness, and that it blocks only for a     *)
(* time, for any number of callers, any threshold and any cooldown.         *)

(* The two invariants the runs check are inductive together. *)
BreakerInv == TypeOK /\ BlocksOnlyForATime

(* The breaker starts closed with nothing counted. *)
LEMMA InitBreakerInv == Init => BreakerInv
  BY BreakerAssumption
  DEF Init, BreakerInv, TypeOK, BlocksOnlyForATime, States, Never, Idle

(* record_failure, whatever state the verdict finds the breaker in. *)
LEMMA FailureKeeps ==
  ASSUME BreakerInv, RecordFailure
  PROVE  /\ state' \in States
         /\ failures' \in 0..Threshold
         /\ openFor' \in {Never} \cup 0..Cooldown
         /\ BlocksOnlyForATime'
  BY BreakerAssumption
  DEF BreakerInv, RecordFailure, Trip, TypeOK, BlocksOnlyForATime, States, Never

(* Every step of a caller, the upstream or the clock preserves them. *)
LEMMA NextBreakerInv == BreakerInv /\ [Next]_vars => BreakerInv'
<1> SUFFICES ASSUME BreakerInv, [Next]_vars PROVE BreakerInv'
  OBVIOUS
<1> USE BreakerAssumption DEF BreakerInv, TypeOK, BlocksOnlyForATime, States, Never
<1>1. ASSUME NEW c \in Callers, Send(c) PROVE BreakerInv'
  BY <1>1 DEF Send, Allow, CooledDown, InFlight, breakerVars, Idle, Ordinary, Probe
<1>2. ASSUME NEW c \in Callers, Reached(c) PROVE BreakerInv'
  BY <1>2 DEF Reached, Returned, RecordSuccess, Idle
<1>3. ASSUME NEW c \in Callers, Failed(c) PROVE BreakerInv'
  <2>1. calls' \in [Callers -> {Idle, Ordinary, Probe}]
    BY <1>3 DEF Failed, Returned
  <2>2. up' \in BOOLEAN /\ flips' \in 0..MaxFlips
    BY <1>3 DEF Failed
  <2>3. QED BY <1>3, <2>1, <2>2, FailureKeeps DEF Failed
<1>4. ASSUME NEW c \in Callers, Abandoned(c) PROVE BreakerInv'
  BY <1>4 DEF Abandoned, Returned, breakerVars, Idle
<1>5. CASE Flip
  BY <1>5 DEF Flip, breakerVars
<1>6. CASE Clock
  BY <1>6 DEF Clock
<1>7. CASE UNCHANGED vars
  BY <1>7 DEF vars
<1>8. QED
  BY <1>1, <1>2, <1>3, <1>4, <1>5, <1>6, <1>7 DEF Next

(* TypeOK holds of every behaviour of the breaker and its callers. *)
THEOREM BreakerTypeCorrect == Spec => []TypeOK
<1>1. BreakerInv => TypeOK
  BY DEF BreakerInv
<1>2. QED BY InitBreakerInv, NextBreakerInv, <1>1, PTL DEF Spec

(* However late verdicts arrive, a breaker that blocks has a deadline to   *)
(* wait for, and a closed one is below its threshold.                      *)
THEOREM BreakerNeverWedged == Spec => []BlocksOnlyForATime
<1>1. BreakerInv => BlocksOnlyForATime
  BY DEF BreakerInv
<1>2. QED BY InitBreakerInv, NextBreakerInv, <1>1, PTL DEF Spec

----------------------------------------------------------------------------
(* The coverage snapshot: type correctness. *)

RefreshVerdicts == [Files -> Verdicts \cup {"none"}]
Builds == [by : RefreshCallers \cup {"none"}, stage : {"none", "fetch", "entries", "storing"},
           verified : SUBSET Files, hurt : BOOLEAN, verdict : RefreshVerdicts]
WalkFiles == [at : {"out", "todo", "statted", "read"}, stamp : Nat, ok : BOOLEAN, tracks : Nat]
WalkStates == [on : BOOLEAN, force : BOOLEAN, hook : BOOLEAN, wrote : BOOLEAN,
               file : [Files -> WalkFiles]]

\* The types of the locals of builds and walks are needed as well.
RefreshTypes ==
  /\ RefreshTypeOK
  /\ build \in Builds
  /\ walks \in [WalkIds -> WalkStates]

LEMMA Blanks ==
  /\ Out \in WalkFiles /\ Todo \in WalkFiles
  /\ NoWalk \in WalkStates
  /\ NoSnapshot \in [verdict : RefreshVerdicts, healthy : BOOLEAN, caps : BOOLEAN]
  /\ NoBuild \in Builds
<1>1. Out \in WalkFiles
  BY DEF Out, WalkFiles
<1>2. Todo \in WalkFiles
  BY <1>1 DEF Todo, WalkFiles
<1>3. NoWalk \in WalkStates
  BY <1>1 DEF NoWalk, WalkStates
<1>4. NoSnapshot \in [verdict : RefreshVerdicts, healthy : BOOLEAN, caps : BOOLEAN]
  BY DEF NoSnapshot, RefreshVerdicts, Verdicts
<1>5. NoBuild \in Builds
  BY <1>4 DEF NoBuild, Builds
<1>6. QED
  BY <1>1, <1>2, <1>3, <1>4, <1>5

LEMMA InitRefreshTypes == RefreshInit => RefreshTypes
<1> SUFFICES ASSUME RefreshInit PROVE RefreshTypes
  OBVIOUS
<1>1. walks \in [WalkIds -> WalkStates] /\ build \in Builds
  BY Blanks DEF RefreshInit
<1>2. snap \in [verdict : [Files -> Verdicts \cup {"none"}], healthy : BOOLEAN, caps : BOOLEAN]
  BY Blanks DEF RefreshInit, RefreshVerdicts
<1>3. waiting \in Seq(RefreshCallers)
  BY EmptySeq DEF RefreshInit
<1>4. /\ disk \in [Files -> [stat : BOOLEAN, ok : BOOLEAN, stamp : Nat, tracks : Nat]]
      /\ probes \in [Files -> [stamp : Nat, tracks : Nat]]
      /\ buildFailures \subseteq Files
  BY DEF RefreshInit, NoProbe
<1>5. holds \in 0..MaxHolds /\ budget \in 0..MaxEvents
  BY CapAssumption, RefreshBoundsAssumption DEF RefreshInit
<1>6. /\ down \in BOOLEAN /\ again \in BOOLEAN /\ timer \in BOOLEAN
      /\ reprobe \in BOOLEAN /\ unserved \in BOOLEAN /\ args \in Tasks
  BY DEF RefreshInit, Tasks
<1>7. QED
  BY <1>1, <1>2, <1>3, <1>4, <1>5, <1>6 DEF RefreshTypes, RefreshTypeOK, Builds, WalkStates, WalkFiles

\* A request, wherever it comes from, leaves its promise well formed.
LEMMA RequestTypes ==
  ASSUME RefreshTypes, NEW a \in Tasks, Request(waiting, a)
  PROVE  /\ waiting' \in Seq(RefreshCallers)
         /\ again' \in BOOLEAN /\ timer' \in BOOLEAN /\ args' \in Tasks /\ unserved' \in BOOLEAN
         /\ again' \/ timer' \/ waiting' # <<>>
<1>1. waiting \in Seq(RefreshCallers) /\ a \in RefreshCallers /\ again \in BOOLEAN /\ timer \in BOOLEAN
  BY DEF RefreshTypes, RefreshTypeOK, RefreshCallers
<1>2. Append(waiting, a) \in Seq(RefreshCallers) /\ Append(waiting, a) # <<>>
  BY <1>1, AppendProperties
<1>3. QED
  BY <1>1, <1>2 DEF Request

\* The end of a build likewise.
LEMMA BuildEndTypes ==
  ASSUME RefreshTypes, BuildEnds
  PROVE  /\ build' \in Builds
         /\ waiting' \in Seq(RefreshCallers)
         /\ again' \in BOOLEAN
         /\ again \/ waiting # <<>> => again' \/ waiting' # <<>>
<1>1. waiting \in Seq(RefreshCallers) /\ args \in RefreshCallers /\ again \in BOOLEAN
  BY DEF RefreshTypes, RefreshTypeOK, RefreshCallers
<1>2. Append(waiting, args) \in Seq(RefreshCallers) /\ Append(waiting, args) # <<>>
  BY <1>1, AppendProperties
<1>3. QED
  BY <1>1, <1>2, Blanks DEF BuildEnds

\* What requests and builds write.
LEMMA RequestAndBuildTypes ==
  ASSUME RefreshTypes,
         Kick \/ TimerFires \/ LoopAsks \/ AskedNow \/ BuildStep \/ BuildRaises
  PROVE  RefreshTypes'
<1> USE CapAssumption, RefreshBoundsAssumption
<1>1. waiting \in Seq(RefreshCallers)
  BY DEF RefreshTypes, RefreshTypeOK
<1>2. \A c \in RefreshCallers : Append(waiting, c) \in Seq(RefreshCallers)
  BY <1>1, AppendProperties
<1>3. waiting # <<>> => /\ Head(waiting) \in RefreshCallers
                        /\ Tail(waiting) \in Seq(RefreshCallers)
  BY <1>1, HeadTailProperties
<1>4. build \in Builds /\ build' \in Builds => 
         /\ build'.by \in RefreshCallers \cup {"none"}
         /\ build'.stage \in {"none", "fetch", "entries", "storing"}
  BY DEF Builds
<1>5. CASE Kick
  <2>1. PICK a \in Tasks : Request(waiting, a)
    BY <1>5 DEF Kick
  <2>2. budget' \in 0..MaxEvents
    BY <1>5 DEF Kick, RefreshTypes, RefreshTypeOK
  <2>3. QED
    BY <1>5, <2>1, <2>2, RequestTypes DEF Kick, RefreshTypes, RefreshTypeOK
<1>6. CASE TimerFires
  <2>1. args \in RefreshCallers
    BY DEF RefreshTypes, RefreshTypeOK, RefreshCallers
  <2>2. waiting' \in Seq(RefreshCallers) /\ timer' \in BOOLEAN /\ again' \in BOOLEAN
    BY <1>1, <1>2, <1>6, <2>1 DEF TimerFires, RefreshTypes, RefreshTypeOK
  <2>3. QED
    BY <1>6, <2>2 DEF TimerFires, RefreshTypes, RefreshTypeOK
<1>7. CASE LoopAsks \/ AskedNow
  <2>1. waiting' \in Seq(RefreshCallers)
    BY <1>2, <1>7 DEF LoopAsks, AskedNow, RefreshCallers
  <2>2. budget' \in 0..MaxEvents
    BY <1>7 DEF LoopAsks, AskedNow, RefreshTypes, RefreshTypeOK
  <2>3. QED
    BY <1>7, <2>1, <2>2 DEF LoopAsks, AskedNow, RefreshTypes, RefreshTypeOK
<1>8. CASE BuildStarts
  <2>1. build' \in Builds
    BY <1>3, <1>8, Blanks DEF BuildStarts, Builds
  <2>2. QED
    BY <1>3, <1>4, <1>8, <2>1 DEF BuildStarts, RefreshTypes, RefreshTypeOK
<1>9. CASE ReadsEntries
  <2>1. build' \in Builds
    BY <1>9 DEF ReadsEntries, Builds, RefreshTypes, RefreshTypeOK
  <2>2. QED
    BY <1>4, <1>9, <2>1 DEF ReadsEntries, RefreshTypes, RefreshTypeOK
<1>10. CASE BuildHeld
  <2>1. holds' \in 0..MaxHolds
    BY <1>10 DEF BuildHeld, Held, RefreshTypes, RefreshTypeOK
  <2>2. BuildEnds
    BY <1>10 DEF BuildHeld
  <2>3. QED
    BY <1>4, <1>10, <2>1, <2>2, BuildEndTypes DEF BuildHeld, RefreshTypes, RefreshTypeOK
<1>11. CASE BuildGoesOut
  <2>1. [f \in Files |-> Verdict(f)] \in RefreshVerdicts
    BY DEF Verdict, RefreshVerdicts, Verdicts
  <2>2. build' \in Builds
    BY <1>11, <2>1 DEF BuildGoesOut, Builds, RefreshTypes
  <2>3. QED
    BY <1>4, <1>11, <2>2 DEF BuildGoesOut, RefreshTypes, RefreshTypeOK
<1>12. CASE Published
  <2>1. BuildEnds
    BY <1>12 DEF Published
  <2>2. snap' \in [verdict : [Files -> Verdicts \cup {"none"}], healthy : BOOLEAN, caps : BOOLEAN]
    BY <1>12 DEF Published, Builds, RefreshVerdicts, RefreshTypes, RefreshTypeOK
  <2>3. walks' \in [WalkIds -> WalkStates]
    <3> DEFINE fresh == [NoWalk EXCEPT !.on = TRUE, !.hook = TRUE,
                           !.file = [f \in Files |-> IF f \in Targets THEN Todo ELSE Out]]
    <3>1. fresh \in WalkStates
      BY Blanks DEF WalkStates
    <3>2. walks' \in {walks, [walks EXCEPT !["eager"] = fresh]}
      BY <1>12 DEF Published
    <3> HIDE DEF fresh
    <3>3. QED
      BY <3>1, <3>2 DEF RefreshTypes
  <2>4. \A w \in WalkIds : \A f \in Files :
           walks'[w].file[f].at \in {"out", "todo", "statted", "read"}
    BY <2>3 DEF WalkStates, WalkFiles
  <2>5. QED
    BY <1>4, <1>12, <2>1, <2>2, <2>3, <2>4, BuildEndTypes DEF Published, RefreshTypes, RefreshTypeOK
<1>13. CASE BuildRaises
  <2>1. BuildEnds
    BY <1>13 DEF BuildRaises
  <2>2. budget' \in 0..MaxEvents
    BY <1>13 DEF BuildRaises, RefreshTypes, RefreshTypeOK
  <2>3. QED
    BY <1>4, <1>13, <2>1, <2>2, BuildEndTypes DEF BuildRaises, RefreshTypes, RefreshTypeOK
<1>14. QED
  BY <1>5, <1>6, <1>7, <1>8, <1>9, <1>10, <1>11, <1>12, <1>13 DEF BuildStep

\* What walks write.
LEMMA WalkTypes ==
  ASSUME RefreshTypes,
         \/ \E fs \in (SUBSET Files) \ {{}} : Reprobe(fs)
         \/ RootWalk
         \/ ReprobeAsks
         \/ \E w \in WalkIds : WalkEnds(w) \/ \E f \in Files : FileStep(w, f)
  PROVE  RefreshTypes'
<1> USE RefreshBoundsAssumption
<1>1. walks \in [WalkIds -> WalkStates] /\ "eager" \in WalkIds /\ "root" \in WalkIds
  BY DEF RefreshTypes, WalkIds
<1>2. walks' \in [WalkIds -> WalkStates] =>
         \A w \in WalkIds : \A f \in Files :
            walks'[w].file[f].at \in {"out", "todo", "statted", "read"}
  BY DEF WalkStates, WalkFiles
<1>3. \A w \in WalkIds, f \in Files :
         walks[w].file[f].stamp \in Nat /\ walks[w].file[f].tracks \in Nat
  BY <1>1 DEF WalkStates, WalkFiles
<1>4. \A f \in Files : disk[f] \in [stat : BOOLEAN, ok : BOOLEAN, stamp : Nat, tracks : Nat]
  BY DEF RefreshTypes, RefreshTypeOK
<1>b. budget \in 0..MaxEvents /\ RefreshTypeOK
  BY DEF RefreshTypes, RefreshTypeOK
<1>5. ASSUME NEW fs \in (SUBSET Files) \ {{}}, Reprobe(fs)
      PROVE  RefreshTypes'
  <2> DEFINE fresh == [NoWalk EXCEPT !.on = TRUE, !.force = TRUE,
                         !.file = [f \in Files |-> IF f \in fs THEN Todo ELSE Out]]
  <2>1. fresh \in WalkStates
    BY Blanks DEF WalkStates
  <2>2. walks' \in {walks, [walks EXCEPT !["eager"] = fresh]}
    BY <1>5 DEF Reprobe
  <2> HIDE DEF fresh
  <2>3. walks' \in [WalkIds -> WalkStates]
    BY <1>1, <2>1, <2>2
  <2>4. budget' \in 0..MaxEvents
    <3>1. budget > 0 /\ budget' = budget - 1
      BY <1>5 DEF Reprobe
    <3>2. QED
      BY <1>b, <3>1
  <2>5. QED
    BY <1>2, <1>5, <2>3, <2>4 DEF Reprobe, RefreshTypes, RefreshTypeOK
<1>6. CASE RootWalk
  <2> DEFINE fresh == [NoWalk EXCEPT !.on = TRUE,
                         !.file = [f \in Files |-> IF disk[f].stat THEN Todo ELSE Out]]
  <2>1. fresh \in WalkStates
    BY Blanks DEF WalkStates
  <2>2. walks' = [walks EXCEPT !["root"] = fresh]
    BY <1>6 DEF RootWalk
  <2> HIDE DEF fresh
  <2>3. walks' \in [WalkIds -> WalkStates]
    BY <1>1, <2>1, <2>2
  <2>4. budget' \in 0..MaxEvents
    BY <1>6 DEF RootWalk, RefreshTypes, RefreshTypeOK
  <2>5. QED
    BY <1>2, <1>6, <2>3, <2>4 DEF RootWalk, RefreshTypes, RefreshTypeOK
<1>7. CASE ReprobeAsks
  <2>1. Request(waiting, "bare") /\ "bare" \in Tasks
    BY <1>7 DEF ReprobeAsks, Tasks
  <2>2. QED
    BY <1>7, <2>1, RequestTypes DEF ReprobeAsks, RefreshTypes, RefreshTypeOK
<1>8. ASSUME NEW w \in WalkIds, WalkEnds(w)
      PROVE  RefreshTypes'
  <2>1. walks' \in [WalkIds -> WalkStates]
    BY <1>1, <1>8, Blanks DEF WalkEnds
  <2>2. /\ waiting' \in Seq(RefreshCallers) /\ again' \in BOOLEAN /\ timer' \in BOOLEAN
        /\ args' \in Tasks /\ unserved' \in BOOLEAN
    <3>1. CASE walks[w].hook /\ walks[w].wrote
      <4>1. Request(waiting, "task") /\ "task" \in Tasks
        BY <1>8, <3>1 DEF WalkEnds, Tasks
      <4>2. QED
        BY <4>1, RequestTypes
    <3>2. CASE ~(walks[w].hook /\ walks[w].wrote)
      BY <1>8, <3>2 DEF WalkEnds, RefreshTypes, RefreshTypeOK
    <3>3. QED
      BY <3>1, <3>2
  <2>3. QED
    BY <1>2, <1>8, <2>1, <2>2 DEF WalkEnds, RefreshTypes, RefreshTypeOK
<1>9. ASSUME NEW w \in WalkIds, NEW f \in Files, FileStep(w, f)
      PROVE  RefreshTypes'
  <2>1. CASE Lookup(w, f)
    <3> DEFINE found == IF ~disk[f].stat
                           \/ (~walks[w].force /\ probes[f] # NoProbe /\ probes[f].stamp = disk[f].stamp)
                        THEN Out ELSE [Out EXCEPT !.at = "statted", !.stamp = disk[f].stamp]
    <3>1. found \in WalkFiles
      BY <1>4, Blanks DEF WalkFiles
    <3>2. walks' = [walks EXCEPT ![w].file[f] = found]
      BY <2>1 DEF Lookup
    <3> HIDE DEF found
    <3>3. walks' \in [WalkIds -> WalkStates]
      BY <1>1, <3>1, <3>2 DEF WalkStates
    <3>4. QED
      BY <1>2, <2>1, <3>3 DEF Lookup, RefreshTypes, RefreshTypeOK
  <2>2. CASE Ffprobe(w, f)
    <3> DEFINE read == [walks[w].file[f] EXCEPT !.at = "read", !.ok = disk[f].stat /\ disk[f].ok,
                                                !.tracks = disk[f].tracks]
    <3>1. read \in WalkFiles
      <4>1. walks[w].file[f] \in WalkFiles
        BY <1>1 DEF WalkStates
      <4>2. disk[f].tracks \in Nat /\ (disk[f].stat /\ disk[f].ok) \in BOOLEAN
        BY <1>4
      <4>3. QED
        BY <4>1, <4>2 DEF WalkFiles
    <3>2. walks' = [walks EXCEPT ![w].file[f] = read]
      BY <2>2 DEF Ffprobe
    <3> HIDE DEF read
    <3>3. walks' \in [WalkIds -> WalkStates]
      BY <1>1, <3>1, <3>2 DEF WalkStates
    <3>4. QED
      BY <1>2, <2>2, <3>3 DEF Ffprobe, RefreshTypes, RefreshTypeOK
  <2>3. CASE Recorded(w, f)
    <3>1. walks' \in [WalkIds -> WalkStates]
      <4> DEFINE after == [walks[w] EXCEPT !.file = [walks[w].file EXCEPT ![f] = Out],
                                           !.wrote = TRUE]
      <4>1. walks[w] \in WalkStates /\ after \in WalkStates
        BY <1>1, Blanks DEF WalkStates
      <4>2. walks' = [walks EXCEPT ![w] = after]
        BY <1>1, <2>3 DEF Recorded
      <4> HIDE DEF after
      <4>3. QED
        BY <1>1, <4>1, <4>2
    <3>2. probes' \in [Files -> [stamp : Nat, tracks : Nat]] /\ buildFailures' \subseteq Files
      <4>1. /\ probes \in [Files -> [stamp : Nat, tracks : Nat]] /\ buildFailures \subseteq Files
            /\ walks[w].file[f].stamp \in Nat /\ walks[w].file[f].tracks \in Nat
        BY <1>3 DEF RefreshTypes, RefreshTypeOK
      <4>2. QED
        BY <2>3, <4>1 DEF Recorded, FailureRecorded
    <3>3. QED
      BY <1>2, <2>3, <3>1, <3>2 DEF Recorded, RefreshTypes, RefreshTypeOK
  <2>4. QED
    BY <1>9, <2>1, <2>2, <2>3 DEF FileStep
<1>10. QED
  BY <1>5, <1>6, <1>7, <1>8, <1>9

\* A new file at a path has a newer stamp, and other files stay as they are.
LEMMA ReplacedDisk ==
  ASSUME RefreshTypeOK, NEW f \in Files, Replaced(f)
  PROVE  /\ disk' \in [Files -> [stat : BOOLEAN, ok : BOOLEAN, stamp : Nat, tracks : Nat]]
         /\ disk'[f].stamp = disk[f].stamp + 1
         /\ \A g \in Files \ {f} : disk'[g] = disk[g]
<1> DEFINE Disk == [stat : BOOLEAN, ok : BOOLEAN, stamp : Nat, tracks : Nat]
<1>1. disk \in [Files -> Disk]
  BY DEF RefreshTypeOK
<1>2. PICK ok \in BOOLEAN :
         disk' = [disk EXCEPT ![f].ok = ok, ![f].stamp = @ + 1, ![f].tracks = @ + 1]
  BY DEF Replaced
<1> DEFINE new == [stat |-> disk[f].stat, ok |-> ok, stamp |-> disk[f].stamp + 1,
                   tracks |-> disk[f].tracks + 1]
<1>3. new \in Disk /\ new.stamp = disk[f].stamp + 1
  BY <1>1
<1>4. disk' = [disk EXCEPT ![f] = new]
  BY <1>1, <1>2
<1> HIDE DEF new
<1>5. QED
  BY <1>1, <1>3, <1>4

\* A mount changes neither the stamp nor the tracks of any file.
LEMMA MountedDisk ==
  ASSUME RefreshTypeOK, NEW f \in Files, Mounted(f)
  PROVE  /\ disk' \in [Files -> [stat : BOOLEAN, ok : BOOLEAN, stamp : Nat, tracks : Nat]]
         /\ \A g \in Files : disk'[g].stamp = disk[g].stamp /\ disk'[g].tracks = disk[g].tracks
  BY DEF Mounted, RefreshTypeOK

LEMMA NextRefreshTypes == RefreshTypes /\ [RefreshNext]_refreshVars => RefreshTypes'
<1> SUFFICES ASSUME RefreshTypes, [RefreshNext]_refreshVars PROVE RefreshTypes'
  OBVIOUS
<1> USE RefreshBoundsAssumption, CapAssumption
<1>1. ASSUME NEW f \in Files, Replaced(f) \/ Mounted(f)
      PROVE  RefreshTypes'
  <2>1. disk' \in [Files -> [stat : BOOLEAN, ok : BOOLEAN, stamp : Nat, tracks : Nat]]
    BY <1>1, ReplacedDisk, MountedDisk DEF RefreshTypes
  <2>2. budget' \in 0..MaxEvents
    <3>1. budget \in 0..MaxEvents /\ budget > 0 /\ budget' = budget - 1
      BY <1>1 DEF Replaced, Mounted, Disturbed, RefreshTypes, RefreshTypeOK
    <3>2. QED
      BY <3>1
  <2>3. QED
    BY <1>1, <2>1, <2>2 DEF Replaced, Mounted, RefreshTypes, RefreshTypeOK
<1>2. CASE Outage
  BY <1>2 DEF Outage, Disturbed, RefreshTypes, RefreshTypeOK
<1>3. CASE Restart
  <2>1. walks' \in [WalkIds -> WalkStates] /\ build' \in Builds
    BY <1>3, Blanks DEF Restart
  <2>2. waiting' \in Seq(RefreshCallers)
    BY <1>3, EmptySeq DEF Restart
  <2>3. budget' \in 0..MaxEvents /\ holds' \in 0..MaxHolds
    BY <1>3 DEF Restart, Disturbed, RefreshTypes, RefreshTypeOK
  <2>4. again' \in BOOLEAN /\ timer' \in BOOLEAN /\ args' \in Tasks
        /\ reprobe' \in BOOLEAN /\ unserved' \in BOOLEAN
    BY <1>3 DEF Restart, Tasks
  <2>5. QED
    BY <1>3, <2>1, <2>2, <2>3, <2>4
       DEF Restart, RefreshTypes, RefreshTypeOK, Builds, WalkStates, WalkFiles
<1>4. CASE UNCHANGED refreshVars
  BY <1>4 DEF refreshVars, RefreshTypes, RefreshTypeOK
<1>5. QED
  BY <1>1, <1>2, <1>3, <1>4, RequestAndBuildTypes, WalkTypes DEF RefreshNext

\* Every reachable state of the snapshot, of its lock and of the walks is well
\* formed, whatever the report, the caps and the disturbances.
THEOREM RefreshTypeCorrect == RefreshSpec => []RefreshTypeOK
<1>1. RefreshTypes => RefreshTypeOK
  BY DEF RefreshTypes
<1>2. QED
  BY <1>1, InitRefreshTypes, NextRefreshTypes, PTL DEF RefreshSpec

----------------------------------------------------------------------------
(* Requests are promised a build. *)

LEMMA NextPromised ==
  ASSUME RefreshTypes, NoRequestForgotten, [RefreshNext]_refreshVars
  PROVE  NoRequestForgotten'
<1>1. ASSUME NEW a \in Tasks, Request(waiting, a)
      PROVE  NoRequestForgotten'
  BY <1>1, RequestTypes DEF NoRequestForgotten
<1>2. waiting \in Seq(RefreshCallers) /\ args \in RefreshCallers
  BY DEF RefreshTypes, RefreshTypeOK, RefreshCallers
<1>3. \A c \in RefreshCallers : Append(waiting, c) # <<>>
  BY <1>2, AppendProperties
<1>4. CASE Kick \/ ReprobeAsks
  BY <1>1, <1>4 DEF Kick, ReprobeAsks, Tasks
<1>5. CASE TimerFires
  BY <1>2, <1>3, <1>5 DEF TimerFires, NoRequestForgotten
<1>6. CASE LoopAsks \/ AskedNow
  BY <1>3, <1>6 DEF LoopAsks, AskedNow, NoRequestForgotten, RefreshCallers
<1>7. CASE BuildStarts
  BY <1>7 DEF BuildStarts, NoRequestForgotten, NoBuild
<1>8. CASE ReadsEntries \/ BuildRaises \/ Restart
  BY <1>8 DEF ReadsEntries, BuildRaises, Restart, NoRequestForgotten
<1>9. CASE BuildHeld \/ Published
  BY <1>9, BuildEndTypes DEF BuildHeld, Published, NoRequestForgotten
<1>10. CASE BuildGoesOut
  BY <1>10 DEF BuildGoesOut, NoRequestForgotten
<1>11. ASSUME NEW w \in WalkIds, WalkEnds(w)
      PROVE  NoRequestForgotten'
  <2>1. CASE walks[w].hook /\ walks[w].wrote
    BY <1>1, <1>11, <2>1 DEF WalkEnds, Tasks
  <2>2. CASE ~(walks[w].hook /\ walks[w].wrote)
    BY <1>11, <2>2 DEF WalkEnds, NoRequestForgotten
  <2>3. QED
    BY <2>1, <2>2
<1>12. CASE \/ \E fs \in (SUBSET Files) \ {{}} : Reprobe(fs)
            \/ RootWalk
            \/ \E w \in WalkIds, f \in Files : FileStep(w, f)
            \/ \E f \in Files : Replaced(f) \/ Mounted(f)
            \/ Outage
            \/ UNCHANGED refreshVars
  <2>1. UNCHANGED <<unserved, again, timer, waiting, build>>
    BY <1>12 DEF Reprobe, RootWalk, FileStep, Lookup, Ffprobe, Recorded, Replaced, Mounted,
         Outage, refreshVars
  <2>2. QED
    BY <2>1 DEF NoRequestForgotten
<1>13. QED
  BY <1>4, <1>5, <1>6, <1>7, <1>8, <1>9, <1>10, <1>11, <1>12 DEF RefreshNext, BuildStep

\* A request for a rebuild is never dropped: until a build has read the tables
\* after it, the note, the timer, the queue at the lock or a build that has not
\* read yet stands for it, however requests, builds, walks, failures and timers
\* interleave.
THEOREM RequestsArePromised == RefreshSpec => []NoRequestForgotten
<1>1. RefreshInit => NoRequestForgotten
  BY DEF RefreshInit, NoRequestForgotten
<1>2. QED
  BY <1>1, InitRefreshTypes, NextRefreshTypes, NextPromised, PTL DEF RefreshSpec

----------------------------------------------------------------------------
(* Probes that are trusted are true. *)

\* what was read of a file, against the file that is there: never newer, and
\* equal tracks when not older
Describes(got, file) ==
  got.stamp <= file.stamp /\ (got.stamp = file.stamp => got.tracks = file.tracks)

\* The walks' locals have to be bounded too: a stamp is taken before ffprobe
\* reads, so that a file replaced in between has a newer one.
ProbesDescribe ==
  /\ \A f \in Files : Describes(probes[f], disk[f])
  /\ \A w \in WalkIds, f \in Files :
        LET got == walks[w].file[f]
        IN  /\ got.at \in {"statted", "read"} => got.stamp <= disk[f].stamp
            /\ got.at = "read" => Describes(got, disk[f])

LEMMA InitProbesDescribe == RefreshInit => ProbesDescribe
  BY DEF RefreshInit, ProbesDescribe, Describes, NoProbe, NoWalk, Out

LEMMA NextProbesDescribe ==
  ASSUME RefreshTypes, ProbesDescribe, [RefreshNext]_refreshVars
  PROVE  ProbesDescribe'
<1>1. /\ \A f \in Files : disk[f].stamp \in Nat /\ disk[f].tracks \in Nat
      /\ \A f \in Files : probes[f].stamp \in Nat /\ probes[f].tracks \in Nat
      /\ \A w \in WalkIds, f \in Files :
            walks[w].file[f].stamp \in Nat /\ walks[w].file[f].tracks \in Nat
  BY DEF RefreshTypes, RefreshTypeOK, WalkStates, WalkFiles
<1>2. disk \in [Files -> [stat : BOOLEAN, ok : BOOLEAN, stamp : Nat, tracks : Nat]]
      /\ walks \in [WalkIds -> WalkStates] /\ probes \in [Files -> [stamp : Nat, tracks : Nat]]
  BY DEF RefreshTypes, RefreshTypeOK
\* a step that gives every file of a walk what it had, or nothing
<1>3. ASSUME UNCHANGED <<disk, probes>>,
             \A w \in WalkIds, f \in Files :
                \/ walks'[w].file[f] = walks[w].file[f]
                \/ walks'[w].file[f].at \in {"out", "todo"}
      PROVE  ProbesDescribe'
  BY <1>3 DEF ProbesDescribe
<1>4. ASSUME NEW f \in Files, Replaced(f)
      PROVE  ProbesDescribe'
  <2>1. /\ disk'[f].stamp = disk[f].stamp + 1
        /\ \A g \in Files \ {f} : disk'[g] = disk[g]
        /\ UNCHANGED <<probes, walks>>
    BY <1>4, ReplacedDisk DEF Replaced, RefreshTypes
  <2>2. QED
    BY <1>1, <2>1 DEF ProbesDescribe, Describes
<1>5. ASSUME NEW f \in Files, Mounted(f)
      PROVE  ProbesDescribe'
  <2>1. /\ \A g \in Files : disk'[g].stamp = disk[g].stamp /\ disk'[g].tracks = disk[g].tracks
        /\ UNCHANGED <<probes, walks>>
    BY <1>5, MountedDisk DEF Mounted, RefreshTypes
  <2>2. QED
    BY <2>1 DEF ProbesDescribe, Describes
<1>6. ASSUME NEW w \in WalkIds, NEW f \in Files, FileStep(w, f)
      PROVE  ProbesDescribe'
  <2>1. disk' = disk
    BY <1>6 DEF FileStep, Lookup, Ffprobe, Recorded
  <2>2. \A v \in WalkIds, g \in Files :
           v # w \/ g # f => walks'[v].file[g] = walks[v].file[g]
    BY <1>2, <1>6 DEF FileStep, Lookup, Ffprobe, Recorded, WalkStates
  <2>3. CASE Lookup(w, f)
    <3>1. /\ probes' = probes
          /\ walks'[w].file[f].at \in {"out", "statted"}
          /\ walks'[w].file[f].at = "statted" => walks'[w].file[f].stamp = disk[f].stamp
      BY <1>2, <2>3 DEF Lookup, WalkStates, Out
    <3>2. QED
      BY <1>1, <2>1, <2>2, <3>1 DEF ProbesDescribe
  <2>4. CASE Ffprobe(w, f)
    <3>1. /\ probes' = probes
          /\ walks'[w].file[f].stamp = walks[w].file[f].stamp
          /\ walks'[w].file[f].tracks = disk[f].tracks
      BY <1>2, <2>4 DEF Ffprobe, WalkStates, WalkFiles
    <3>2. walks[w].file[f].at = "statted"
      BY <2>4 DEF Ffprobe
    <3>3. QED
      BY <1>1, <2>1, <2>2, <3>1, <3>2 DEF ProbesDescribe, Describes
  <2>5. CASE Recorded(w, f)
    <3>1. walks'[w].file[f].at = "out" /\ walks[w].file[f].at = "read"
      BY <1>2, <2>5 DEF Recorded, WalkStates, Out
    <3>2. /\ \A g \in Files \ {f} : probes'[g] = probes[g]
          /\ \/ probes'[f] = probes[f]
             \/ probes'[f] = [stamp |-> walks[w].file[f].stamp, tracks |-> walks[w].file[f].tracks]
      BY <1>2, <2>5 DEF Recorded
    <3>3. Describes(probes'[f], disk[f])
      BY <3>1, <3>2 DEF ProbesDescribe, Describes
    <3>4. QED
      BY <2>1, <2>2, <3>1, <3>2, <3>3 DEF ProbesDescribe
  <2>6. QED
    BY <1>6, <2>3, <2>4, <2>5 DEF FileStep
<1>7. CASE Published
  BY <1>2, <1>3, <1>7 DEF Published, WalkStates, NoWalk, Todo, Out
<1>8. ASSUME NEW fs \in (SUBSET Files) \ {{}}, Reprobe(fs)
      PROVE  ProbesDescribe'
  BY <1>2, <1>3, <1>8 DEF Reprobe, WalkStates, NoWalk, Todo, Out
<1>9. CASE RootWalk
  BY <1>2, <1>3, <1>9 DEF RootWalk, WalkStates, NoWalk, Todo, Out
<1>10. ASSUME NEW w \in WalkIds, WalkEnds(w)
      PROVE  ProbesDescribe'
  BY <1>2, <1>3, <1>10 DEF WalkEnds, NoWalk, Out
<1>11. CASE Restart
  BY <1>3, <1>11 DEF Restart, NoWalk, Out
<1>12. CASE \/ Kick \/ TimerFires \/ LoopAsks \/ AskedNow
            \/ BuildStarts \/ ReadsEntries \/ BuildHeld \/ BuildGoesOut \/ BuildRaises
            \/ ReprobeAsks \/ Outage \/ UNCHANGED refreshVars
  <2>1. UNCHANGED <<disk, probes, walks>>
    BY <1>12 DEF Kick, TimerFires, LoopAsks, AskedNow, BuildStarts, ReadsEntries, BuildHeld,
         BuildGoesOut, BuildRaises, ReprobeAsks, Outage, refreshVars
  <2>2. QED
    BY <1>3, <2>1
<1>13. QED
  BY <1>4, <1>5, <1>6, <1>7, <1>8, <1>9, <1>10, <1>11, <1>12 DEF RefreshNext, BuildStep

\* A cached probe whose stamp is the file's describes the file that is there,
\* for any files and any number of walks between the replacements.
THEOREM TrustedProbesTrue == RefreshSpec => []TrustedProbesAreTrue
<1>1. ProbesDescribe => TrustedProbesAreTrue
  BY DEF ProbesDescribe, Describes, TrustedProbesAreTrue
<1>2. QED
  BY <1>1, InitRefreshTypes, NextRefreshTypes, InitProbesDescribe, NextProbesDescribe, PTL
     DEF RefreshSpec

----------------------------------------------------------------------------
(* The loops side by side. *)

\* A behaviour that runs another service than the longer report.
NoReport == focus # "report"

\* A step of the loops is a step of each service by itself, or leaves it alone;
\* the snapshot of the longer report is another instance of its module.
LEMMA EachLoopAsAlone ==
  /\ LoopsInit => Init
  /\ LoopsInit /\ NoReport => RefreshInit
  /\ [LoopsNext]_loopsVars => [Next]_vars
  /\ NoReport /\ [LoopsNext]_loopsVars => NoReport' /\ [RefreshNext]_refreshVars
<1>1. /\ LoopsInit => Init
      /\ LoopsInit /\ NoReport => RefreshInit
  BY DEF LoopsInit, NoReport
<1>2. ASSUME LoopsNext
      PROVE  [Next]_vars
  BY <1>2, Zenon DEF LoopsNext
<1>3. ASSUME LoopsNext, NoReport
      PROVE  NoReport' /\ [RefreshNext]_refreshVars
  BY <1>3, Zenon DEF LoopsNext, NoReport
<1>4. ASSUME UNCHANGED loopsVars
      PROVE  UNCHANGED <<focus, vars, refreshVars>>
  BY <1>4 DEF loopsVars
<1>5. ASSUME UNCHANGED loopsVars
      PROVE  /\ [Next]_vars
             /\ NoReport => NoReport' /\ [RefreshNext]_refreshVars
  BY <1>4, <1>5 DEF NoReport
<1>6. QED
  BY <1>1, <1>2, <1>3, <1>5

\* Side by side, too, no request for a rebuild is forgotten, no untrue probe is
\* trusted, and the breaker blocks only for a time, whatever the fairness.
THEOREM LoopsAreSafe ==
  /\ LoopsSpec /\ NoReport => []NoRequestForgotten /\ []TrustedProbesAreTrue
  /\ LoopsSpec => []BlocksOnlyForATime
<1>1. LoopsSpec /\ NoReport => []NoRequestForgotten
  <2>1. RefreshInit => NoRequestForgotten
    BY DEF RefreshInit, NoRequestForgotten
  <2>2. QED
    BY <2>1, EachLoopAsAlone, InitRefreshTypes, NextRefreshTypes, NextPromised, PTL DEF LoopsSpec
<1>2. LoopsSpec /\ NoReport => []TrustedProbesAreTrue
  <2>1. ProbesDescribe => TrustedProbesAreTrue
    BY DEF ProbesDescribe, Describes, TrustedProbesAreTrue
  <2>2. QED
    BY <2>1, EachLoopAsAlone, InitRefreshTypes, NextRefreshTypes, InitProbesDescribe,
       NextProbesDescribe, PTL DEF LoopsSpec
<1>3. LoopsSpec => []BlocksOnlyForATime
  <2>1. BreakerInv => BlocksOnlyForATime
    BY DEF BreakerInv
  <2>2. QED
    BY <2>1, EachLoopAsAlone, InitBreakerInv, NextBreakerInv, PTL DEF LoopsSpec
<1>4. QED
  BY <1>1, <1>2, <1>3

============================================================================
