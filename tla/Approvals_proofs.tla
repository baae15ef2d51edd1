-------------------------- MODULE Approvals_proofs --------------------------
(* Proofs about the lists of the coverage walk and the answers to them:     *)
(* what status a list ends in, and that no approval is recorded without its *)
(* job, for any files, any number of requests, walks and restarts.          *)
EXTENDS Approvals, FiniteSetTheorems, TLAPS

Answers == {"none", "approved", "rejected"}
Lists == [status : Statuses, age : 0..ExpireAfter]

(* What the status of a list says of its decisions, where no approval works *)
(* on it.                                                                   *)
Settled(w) ==
  LET said(v) == With(w, v) = DOMAIN verdicts[w]
  IN  \/ walks[w].status = "expired"
      \/ walks[w].status = "pending" /\ Undecided(w) # {}
      \/ walks[w].status = "approved_all" /\ said("approved")
      \/ walks[w].status = "rejected" /\ said("rejected")
      \/ walks[w].status = "approved_partial" /\ Undecided(w) = {}
         /\ ~said("approved") /\ ~said("rejected")

(* Lists are numbered from 1. A request with work left names the list it    *)
(* works on, so that list is not asked to be settled.                       *)
ApprovalsInv ==
  /\ TypeOK
  /\ IsFiniteSet(Walks)
  /\ \A a \in Approvers : approval[a].walk = 0 => approval[a].todo = {}
  /\ StatusSettles

(* At first there are no lists. *)
LEMMA InitApprovalsInv == Init => ApprovalsInv
<1> SUFFICES ASSUME Init PROVE ApprovalsInv
  OBVIOUS
<1>1. Walks = {} /\ DOMAIN verdicts = {}
  BY DEF Init, Walks
<1>2. Walks = 1..Cardinality(Walks)
  BY <1>1, FS_EmptySet
<1>3. walks \in [Walks -> Lists]
  BY DEF Init, Walks
<1>4. walker \in [pc: {"idle", "building", "poking", "enqueuing"}, mode: Modes, todo: SUBSET Items]
  BY DEF Init, IdleWalker, Modes
<1>5. approval \in [Approvers -> [walk: {0} \cup Walks, todo: SUBSET Items]]
  BY DEF Init, IdleApproval
<1>6. TypeOK
  BY <1>1, <1>2, <1>3, <1>4, <1>5, ApprovalsAssumption DEF Init, TypeOK, Lists
<1>7. QED
  BY <1>1, <1>6, FS_EmptySet DEF Init, ApprovalsInv, StatusSettles, IdleApproval

(* There is no list 0, and the next number is free. *)
LEMMA ListsCount ==
  ASSUME ApprovalsInv
  PROVE  /\ 0 \notin Walks /\ Cardinality(Walks) \in Nat
         /\ Cardinality(Walks) + 1 \notin Walks
         /\ Walks \cup {Cardinality(Walks) + 1} = 1..(Cardinality(Walks) + 1)
<1>1. PICK c : c = Cardinality(Walks)
  OBVIOUS
<1>2. c \in Nat /\ Walks = 1..c
  BY <1>1, FS_CardinalityType DEF ApprovalsInv, TypeOK
<1>3. ASSUME NEW n \in Nat
      PROVE  0 \notin 1..n /\ n + 1 \notin 1..n /\ (1..n) \cup {n + 1} = 1..(n + 1)
  OBVIOUS
<1>4. QED BY <1>1, <1>2, <1>3

(* A status given to a list says what its decisions amount to. *)
LEMMA StatusSays ==
  ASSUME NEW decided, decided \in [DOMAIN decided -> Answers], DOMAIN decided # {}
  PROVE  LET having(v) == {i \in DOMAIN decided : decided[i] = v}
         IN  /\ StatusOf(decided) \in Statuses
             /\ \/ StatusOf(decided) = "pending" /\ having("none") # {}
                \/ StatusOf(decided) = "approved_all" /\ having("approved") = DOMAIN decided
                \/ StatusOf(decided) = "rejected" /\ having("rejected") = DOMAIN decided
                \/ StatusOf(decided) = "approved_partial" /\ having("none") = {}
                   /\ having("approved") # DOMAIN decided /\ having("rejected") # DOMAIN decided
  BY DEF StatusOf, Statuses

(* A list that was finalised is settled, the others are what they were. *)
LEMMA FinalisedSettles ==
  ASSUME ApprovalsInv, NEW w \in Walks, walks' = Finalised(w, verdicts'[w]),
         DOMAIN verdicts' = Walks, verdicts'[w] \in [DOMAIN verdicts'[w] -> Answers]
  PROVE  /\ walks' \in [Walks -> Lists]
         /\ DOMAIN verdicts'[w] # {} => Settled(w)'
         /\ \A u \in Walks : u # w => walks'[u] = walks[u]
<1>1. walks \in [Walks -> Lists]
  BY DEF ApprovalsInv, TypeOK, Lists
<1>2. CASE DOMAIN verdicts'[w] = {}
  BY <1>1, <1>2 DEF Finalised
<1>3. CASE DOMAIN verdicts'[w] # {}
  <2> DEFINE decided == verdicts'[w]
             having(v) == {i \in DOMAIN decided : decided[i] = v}
  <2>1. walks' = [walks EXCEPT ![w].status = StatusOf(decided)]
    BY <1>3 DEF Finalised
  <2>2. StatusOf(decided) \in Statuses
    BY <1>3, StatusSays
  <2>3. walks'[w].status = StatusOf(decided) /\ walks' \in [Walks -> Lists]
        /\ \A u \in Walks : u # w => walks'[u] = walks[u]
    BY <1>1, <2>1, <2>2 DEF Lists
  <2>4. Settled(w)'
    BY <1>3, <2>3, StatusSays DEF Settled, Undecided, With
  <2>5. QED BY <2>3, <2>4
<1>4. QED BY <1>2, <1>3

(* What marking decisions of a list changes, and what it leaves alone. *)
LEMMA MarkKeeps ==
  ASSUME ApprovalsInv, NEW w \in Walks, NEW S, NEW v \in Answers,
         verdicts' = [verdicts EXCEPT ![w] = Mark(w, S, v)]
  PROVE  /\ DOMAIN verdicts' = Walks
         /\ \A u \in Walks : DOMAIN verdicts'[u] = DOMAIN verdicts[u]
         /\ \A u \in Walks : verdicts'[u] \in [DOMAIN verdicts'[u] -> Answers]
         /\ \A u \in Walks : u # w => verdicts'[u] = verdicts[u]
         /\ \A i \in DOMAIN verdicts[w] :
              verdicts'[w][i] = IF i \in S THEN v ELSE verdicts[w][i]
<1>1. DOMAIN verdicts = Walks /\ \A u \in Walks : verdicts[u] \in [DOMAIN verdicts[u] -> Answers]
  BY DEF ApprovalsInv, TypeOK, Answers
<1>2. DOMAIN verdicts' = Walks /\ verdicts'[w] = Mark(w, S, v)
      /\ \A u \in Walks : u # w => verdicts'[u] = verdicts[u]
  BY <1>1
<1>3. DOMAIN Mark(w, S, v) = DOMAIN verdicts[w]
      /\ \A i \in DOMAIN verdicts[w] : Mark(w, S, v)[i] = IF i \in S THEN v ELSE verdicts[w][i]
  BY DEF Mark
<1>4. Mark(w, S, v) \in [DOMAIN verdicts[w] -> Answers]
  BY <1>1 DEF Mark
<1>5. QED BY <1>1, <1>2, <1>3, <1>4

(* A new list asks for every decision it holds; old ones may expire.        *)
LEMMA CreatedAsks ==
  ASSUME ApprovalsInv, NEW offered \in SUBSET Items, CreateWalk(offered)
  PROVE  /\ DOMAIN walks' = 1..(Cardinality(Walks) + 1) /\ DOMAIN verdicts' = DOMAIN walks'
         /\ IsFiniteSet(DOMAIN walks') /\ Cardinality(DOMAIN walks') = Cardinality(Walks) + 1
         /\ walks' \in [DOMAIN walks' -> Lists]
         /\ \A w \in Walks : /\ w \in DOMAIN walks' /\ verdicts'[w] = verdicts[w]
                            /\ walks'[w].status \in {walks[w].status, "expired"}
         /\ \A w \in DOMAIN walks' \ Walks :
              /\ walks'[w].status = "pending" /\ verdicts'[w] = [i \in offered |-> "none"]
<1> DEFINE new == Cardinality(Walks) + 1
           fresh == [status |-> "pending", age |-> 0]
<1>1. new \notin Walks /\ Walks \cup {new} = 1..new
  BY ListsCount
<1>2. IsFiniteSet(Walks \cup {new}) /\ Cardinality(Walks \cup {new}) = new
  BY <1>1, FS_AddElement DEF ApprovalsInv
<1>3. DOMAIN walks' = Walks \cup {new} /\ DOMAIN verdicts' = Walks \cup {new}
  BY DEF CreateWalk
<1>4. walks'[new] = fresh /\ verdicts'[new] = [i \in offered |-> "none"]
  BY <1>1 DEF CreateWalk
<1>5. \A w \in Walks : /\ verdicts'[w] = verdicts[w]
                      /\ walks'[w] = IF Expired(w) THEN [walks[w] EXCEPT !.status = "expired"]
                                     ELSE walks[w]
  BY <1>1 DEF CreateWalk
<1>6. \A w \in Walks : walks[w] \in Lists
  BY DEF ApprovalsInv, TypeOK, Lists
<1>7. \A w \in Walks : walks'[w] \in Lists /\ walks'[w].status \in {walks[w].status, "expired"}
  BY <1>5, <1>6 DEF Lists, Statuses
<1>8. fresh \in Lists
  BY ApprovalsAssumption DEF Lists, Statuses
<1>9. walks' = [w \in Walks \cup {new} |-> walks'[w]]
  BY DEF CreateWalk
<1>10. walks' \in [Walks \cup {new} -> Lists]
  <2>1. \A w \in Walks \cup {new} : walks'[w] \in Lists
    BY <1>4, <1>7, <1>8
  <2> HIDE DEF fresh, new
  <2>2. QED BY <1>9, <2>1
<1> HIDE DEF new
<1>11. QED BY <1>1, <1>2, <1>3, <1>4, <1>5, <1>7, <1>10 DEF new

(* The types of a state where the lists stay as many as they are. *)
LEMMA SameListsTyped ==
  ASSUME ApprovalsInv,
         suppressed' \subseteq Items, inflight' \subseteq Items,
         DOMAIN walks' = Walks, walks' \in [Walks -> Lists],
         DOMAIN verdicts' = Walks,
         \A w \in Walks : DOMAIN verdicts'[w] \subseteq Items,
         \A w \in Walks : verdicts'[w] \in [DOMAIN verdicts'[w] -> Answers],
         walker' \in [pc: {"idle", "building", "poking", "enqueuing"}, mode: Modes, todo: SUBSET Items],
         approval' \in [Approvers -> [walk: {0} \cup Walks, todo: SUBSET Items]],
         \A a \in Approvers : approval'[a].walk = 0 => approval'[a].todo = {},
         crashes' \in 0..MaxCrashes, StatusSettles'
  PROVE  ApprovalsInv'
<1>1. Walks' = Walks
  BY DEF Walks
<1>2. Walks = 1..Cardinality(Walks) /\ IsFiniteSet(Walks)
  BY DEF ApprovalsInv, TypeOK
<1>3. TypeOK'
  BY <1>1, <1>2 DEF TypeOK, Lists, Answers
<1>4. QED BY <1>1, <1>2, <1>3 DEF ApprovalsInv

(* A list nobody touches stays settled, if those who work on it stay.       *)
LEMMA UntouchedStaysSettled ==
  ASSUME ApprovalsInv, crashes = 0, NEW w \in Walks,
         \A a \in Approvers : approval[a].walk # w, DOMAIN verdicts[w] # {},
         verdicts'[w] = verdicts[w], walks'[w].status \in {walks[w].status, "expired"}
  PROVE  Settled(w)'
<1>1. Settled(w)
  BY DEF ApprovalsInv, StatusSettles, Settled
<1>2. \A v : With(w, v)' = With(w, v)
  BY DEF With
<1>3. QED BY <1>1, <1>2 DEF Settled, Undecided

(* Every step of the walk, of the requests, of the clock and of a restart   *)
(* preserves the invariant.                                                 *)
LEMMA NextApprovalsInv == ApprovalsInv /\ [Next]_vars => ApprovalsInv'
<1> SUFFICES ASSUME ApprovalsInv, [Next]_vars PROVE ApprovalsInv'
  OBVIOUS
<1> DEFINE WalkerStates == [pc: {"idle", "building", "poking", "enqueuing"}, mode: Modes,
                            todo: SUBSET Items]
           Requests == [walk: {0} \cup Walks, todo: SUBSET Items]
<1>1. /\ suppressed \subseteq Items /\ inflight \subseteq Items
      /\ walks \in [Walks -> Lists] /\ DOMAIN walks = Walks
      /\ DOMAIN verdicts = Walks
      /\ \A w \in Walks : DOMAIN verdicts[w] \subseteq Items
      /\ \A w \in Walks : verdicts[w] \in [DOMAIN verdicts[w] -> Answers]
      /\ walker \in WalkerStates /\ approval \in [Approvers -> Requests]
      /\ \A a \in Approvers : approval[a].walk = 0 => approval[a].todo = {}
      /\ crashes \in 0..MaxCrashes
  BY DEF ApprovalsInv, TypeOK, Lists, Answers, Walks
<1>2. 0 \notin Walks
  BY ListsCount
<1>3. IdleWalker \in WalkerStates /\ IdleApproval \in Requests
  BY DEF IdleWalker, IdleApproval, Modes
<1>4. ASSUME walks' = walks, verdicts' = verdicts, approval' = approval, crashes' = crashes
      PROVE  StatusSettles'
  BY <1>4 DEF ApprovalsInv, StatusSettles, Walks, With, Undecided
<1>5. ASSUME suppressed' \subseteq Items, inflight' \subseteq Items, walker' \in WalkerStates,
             UNCHANGED <<listVars, approval, crashes>>
      PROVE  ApprovalsInv'
  <2>1. StatusSettles'
    BY <1>4, <1>5 DEF listVars
  <2> HIDE DEF WalkerStates, Requests
  <2>2. QED BY <1>1, <1>5, <2>1, SameListsTyped DEF listVars, WalkerStates, Requests
<1>6. CASE WalkStarts
  <2>1. walker' \in WalkerStates
    BY <1>6 DEF WalkStarts
  <2>2. QED BY <1>1, <1>5, <1>6, <2>1 DEF WalkStarts, fileVars
<1>7. CASE BuildFails
  BY <1>1, <1>3, <1>5, <1>7 DEF BuildFails, fileVars
<1>8. CASE Built
  <2>1. walker' \in WalkerStates
    BY <1>1, <1>8 DEF Built
  <2>2. QED BY <1>1, <1>5, <1>8, <2>1 DEF Built, fileVars
<1>9. CASE Evaluated
  <2>1. PICK chosen \in DecisionChoices :
          IF walker.mode = "manual_confirm"
          THEN CreateWalk(chosen) /\ walker' = IdleWalker
          ELSE /\ walker' = [walker EXCEPT !.pc = "enqueuing", !.todo = chosen]
               /\ UNCHANGED listVars
    BY <1>9 DEF Evaluated
  <2>2. chosen \subseteq Items
    BY <1>1 DEF DecisionChoices, Eligible
  <2>3. UNCHANGED <<fileVars, approval, crashes>>
    BY <1>9 DEF Evaluated
  <2>4. CASE walker.mode # "manual_confirm"
    <3>1. walker' \in WalkerStates
      BY <1>1, <2>1, <2>2, <2>4
    <3>2. QED BY <1>1, <1>5, <2>1, <2>3, <2>4, <3>1 DEF fileVars
  <2>5. CASE walker.mode = "manual_confirm"
    <3>1. CreateWalk(chosen) /\ walker' = IdleWalker
      BY <2>1, <2>5
    <3>2. /\ DOMAIN walks' = 1..(Cardinality(Walks) + 1) /\ DOMAIN verdicts' = DOMAIN walks'
          /\ IsFiniteSet(DOMAIN walks') /\ Cardinality(DOMAIN walks') = Cardinality(Walks) + 1
          /\ walks' \in [DOMAIN walks' -> Lists]
          /\ \A w \in Walks : /\ w \in DOMAIN walks' /\ verdicts'[w] = verdicts[w]
                             /\ walks'[w].status \in {walks[w].status, "expired"}
          /\ \A w \in DOMAIN walks' \ Walks :
               /\ walks'[w].status = "pending" /\ verdicts'[w] = [i \in chosen |-> "none"]
      BY <2>2, <3>1, CreatedAsks
    <3>3. Walks' = DOMAIN walks' /\ IsFiniteSet(Walks') /\ Walks' = 1..Cardinality(Walks')
      BY <3>2 DEF Walks
    <3>4. [i \in chosen |-> "none"] \in [chosen -> Answers] /\ DOMAIN [i \in chosen |-> "none"] = chosen
      BY DEF Answers
    <3>5. \A w \in Walks' : DOMAIN verdicts'[w] \subseteq Items
                         /\ verdicts'[w] \in [DOMAIN verdicts'[w] -> Answers]
      BY <1>1, <2>2, <3>2, <3>3, <3>4
    <3>6. approval' \in [Approvers -> [walk: {0} \cup Walks', todo: SUBSET Items]]
      BY <1>1, <2>3, <3>2, <3>3
    <3>7. TypeOK'
      BY <1>1, <1>3, <2>3, <3>1, <3>2, <3>3, <3>5, <3>6
      DEF TypeOK, Lists, Answers, fileVars
    <3>8. ASSUME crashes' = 0, NEW w \in Walks', \A a \in Approvers : approval'[a].walk # w,
                 DOMAIN verdicts'[w] # {}
          PROVE  Settled(w)'
      <4>1. CASE w \in Walks
        BY <2>3, <3>2, <3>8, <4>1, UntouchedStaysSettled
      <4>2. CASE w \notin Walks
        <5>1. walks'[w].status = "pending" /\ verdicts'[w] = [i \in chosen |-> "none"]
          BY <3>2, <3>3, <4>2
        <5>2. QED BY <3>4, <3>8, <5>1 DEF Settled, Undecided, With
      <4>3. QED BY <4>1, <4>2
    <3>9. StatusSettles'
      BY <3>8 DEF StatusSettles, Settled
    <3>10. QED BY <1>1, <2>3, <3>3, <3>7, <3>9 DEF ApprovalsInv
  <2>6. QED BY <2>4, <2>5
<1>10. CASE WalkEnqueues
  <2>1. PICK i \in walker.todo : /\ walker' = [walker EXCEPT !.todo = @ \ {i}]
                                 /\ Enqueue(i) \/ UNCHANGED fileVars
    BY <1>10 DEF WalkEnqueues
  <2>2. i \in Items /\ walker' \in WalkerStates
    BY <1>1, <2>1
  <2>3. suppressed' \subseteq Items /\ inflight' \subseteq Items
    BY <1>1, <2>1, <2>2 DEF Enqueue, fileVars
  <2>4. QED BY <1>5, <1>10, <2>2, <2>3 DEF WalkEnqueues
<1>11. CASE WalkEnds
  BY <1>1, <1>3, <1>5, <1>11 DEF WalkEnds, fileVars
<1>12. ASSUME NEW a \in Approvers, ApproveStarts(a) PROVE ApprovalsInv'
  <2>0. PICK w \in Walks : \E chosen \in SUBSET Undecided(w) :
          approval' = [approval EXCEPT ![a] = [walk |-> w, todo |-> chosen]]
    BY <1>12 DEF ApproveStarts
  <2>1. PICK chosen \in SUBSET Undecided(w) :
          approval' = [approval EXCEPT ![a] = [walk |-> w, todo |-> chosen]]
    BY <2>0
  <2>2. chosen \subseteq Items
    BY <1>1, <2>1 DEF Undecided, With
  <2>3. approval'[a] = [walk |-> w, todo |-> chosen]
        /\ \A b \in Approvers : b # a => approval'[b] = approval[b]
    BY <1>1, <2>1
  <2>4. approval' \in [Approvers -> Requests]
    BY <1>1, <2>1, <2>2
  <2>5. UNCHANGED <<fileVars, listVars, walker, crashes>>
    BY <1>12 DEF ApproveStarts
  <2>6. \A b \in Approvers : approval[b].walk # 0 => approval'[b].walk = approval[b].walk
    BY <1>12, <2>3 DEF ApproveStarts
  <2>7. ASSUME crashes' = 0, NEW u \in Walks', \A b \in Approvers : approval'[b].walk # u,
               DOMAIN verdicts'[u] # {}
        PROVE  Settled(u)'
    <3>1. u \in Walks /\ verdicts'[u] = verdicts[u] /\ walks'[u] = walks[u] /\ crashes = 0
      BY <2>5, <2>7 DEF Walks, listVars
    <3>2. \A b \in Approvers : approval[b].walk # u
      BY <1>2, <2>6, <2>7, <3>1
    <3>3. QED BY <2>7, <3>1, <3>2, UntouchedStaysSettled
  <2>8. StatusSettles'
    BY <2>7 DEF StatusSettles, Settled
  <2>9. \A b \in Approvers : approval'[b].walk = 0 => approval'[b].todo = {}
    BY <1>1, <1>2, <2>3
  <2> HIDE DEF Requests, WalkerStates
  <2>10. QED BY <1>1, <2>4, <2>5, <2>8, <2>9, SameListsTyped
         DEF fileVars, listVars, Requests, WalkerStates
<1>13. ASSUME NEW a \in Approvers, NEW i \in approval[a].todo, NEW v \in Answers,
              verdicts' = [verdicts EXCEPT ![approval[a].walk] = Mark(approval[a].walk, {i}, v)],
              approval' = [approval EXCEPT ![a].todo = @ \ {i}],
              suppressed' \subseteq Items, inflight' \subseteq Items,
              UNCHANGED <<walks, walker, crashes>>
       PROVE  ApprovalsInv'
  <2> DEFINE w == approval[a].walk
  <2>1. approval[a] \in Requests
    BY <1>1
  <2>2. w \in Walks /\ i \in Items
    BY <1>1, <1>13, <2>1
  <2>3. approval'[a] = [approval[a] EXCEPT !.todo = @ \ {i}]
        /\ \A b \in Approvers : b # a => approval'[b] = approval[b]
    BY <1>1, <1>13
  <2>4. approval'[a] \in Requests /\ approval'[a].walk = w /\ approval' \in [Approvers -> Requests]
    BY <1>1, <1>13, <2>1, <2>3
  <2>5. /\ DOMAIN verdicts' = Walks
        /\ \A u \in Walks : DOMAIN verdicts'[u] = DOMAIN verdicts[u]
        /\ \A u \in Walks : verdicts'[u] \in [DOMAIN verdicts'[u] -> Answers]
        /\ \A u \in Walks : u # w => verdicts'[u] = verdicts[u]
    <3> HIDE DEF w
    <3>1. verdicts' = [verdicts EXCEPT ![w] = Mark(w, {i}, v)]
      BY <1>13 DEF w
    <3>2. QED BY <2>2, <3>1, MarkKeeps
  <2>6. \A b \in Approvers : approval'[b].walk = approval[b].walk
    BY <2>3, <2>4
  <2>7. ASSUME crashes' = 0, NEW u \in Walks', \A b \in Approvers : approval'[b].walk # u,
               DOMAIN verdicts'[u] # {}
        PROVE  Settled(u)'
    <3>1. u \in Walks /\ u # w /\ crashes = 0 /\ walks'[u] = walks[u]
      BY <1>13, <2>4, <2>7 DEF Walks
    <3>2. verdicts'[u] = verdicts[u] /\ \A b \in Approvers : approval[b].walk # u
      BY <2>5, <2>6, <2>7, <3>1
    <3>3. QED BY <2>7, <3>1, <3>2, UntouchedStaysSettled
  <2>8. StatusSettles'
    BY <2>7 DEF StatusSettles, Settled
  <2>9. \A b \in Approvers : approval'[b].walk = 0 => approval'[b].todo = {}
    BY <1>1, <1>2, <2>2, <2>3, <2>4
  <2>10. walks' \in [Walks -> Lists] /\ DOMAIN walks' = Walks
         /\ walker' \in WalkerStates /\ crashes' \in 0..MaxCrashes
         /\ \A u \in Walks : DOMAIN verdicts'[u] \subseteq Items
    BY <1>1, <1>13, <2>5
  <2> HIDE DEF Requests, WalkerStates, w
  <2>11. QED BY <1>13, <2>4, <2>5, <2>8, <2>9, <2>10, SameListsTyped DEF Requests, WalkerStates
<1>14. ASSUME NEW a \in Approvers, Approved(a) PROVE ApprovalsInv'
  <2>1. PICK i \in approval[a].todo :
          /\ Enqueue(i)
          /\ verdicts' = [verdicts EXCEPT ![approval[a].walk]
                             = Mark(approval[a].walk, {i}, "approved")]
          /\ approval' = [approval EXCEPT ![a].todo = @ \ {i}]
    BY <1>14 DEF Approved
  <2>2. UNCHANGED <<walks, walker, crashes>>
    BY <1>14 DEF Approved
  <2>3. approval[a] \in Requests
    BY <1>1
  <2>4. suppressed' \subseteq Items /\ inflight' \subseteq Items
    BY <1>1, <2>1, <2>3 DEF Enqueue
  <2>5. QED BY <1>13, <2>1, <2>2, <2>4 DEF Answers
<1>15. ASSUME NEW a \in Approvers, NotQueued(a) PROVE ApprovalsInv'
  <2>1. PICK i \in approval[a].todo :
          /\ verdicts' = [verdicts EXCEPT ![approval[a].walk]
                             = Mark(approval[a].walk, {i}, "rejected")]
          /\ approval' = [approval EXCEPT ![a].todo = @ \ {i}]
    BY <1>15 DEF NotQueued
  <2>2. UNCHANGED <<fileVars, walks, walker, crashes>>
    BY <1>15 DEF NotQueued
  <2>3. QED BY <1>1, <1>13, <2>1, <2>2 DEF Answers, fileVars
<1>16. ASSUME NEW a \in Approvers, ApproveEnds(a) PROVE ApprovalsInv'
  <2>0. approval[a] \in Requests /\ approval[a].walk # 0
    BY <1>1, <1>16 DEF ApproveEnds
  <2>1. PICK w \in Walks : w = approval[a].walk
    BY <2>0
  <2>2. verdicts' = verdicts /\ walks' = Finalised(w, verdicts'[w])
        /\ UNCHANGED <<fileVars, walker, crashes>>
    BY <1>16, <2>1 DEF ApproveEnds
  <2>3. /\ walks' \in [Walks -> Lists]
        /\ DOMAIN verdicts'[w] # {} => Settled(w)'
        /\ \A u \in Walks : u # w => walks'[u] = walks[u]
    BY <1>1, <2>1, <2>2, FinalisedSettles
  <2>4. approval' = [approval EXCEPT ![a] = IdleApproval]
    BY <1>16 DEF ApproveEnds
  <2>5. approval'[a] = IdleApproval /\ (\A b \in Approvers : b # a => approval'[b] = approval[b])
        /\ approval' \in [Approvers -> Requests]
    BY <1>1, <1>3, <2>4
  <2>6. ASSUME crashes' = 0, NEW u \in Walks', \A b \in Approvers : approval'[b].walk # u,
               DOMAIN verdicts'[u] # {}
        PROVE  Settled(u)'
    <3>1. u \in Walks /\ crashes = 0
      BY <2>2, <2>3, <2>6 DEF Walks
    <3>2. CASE u = w
      BY <2>3, <2>6, <3>2
    <3>3. CASE u # w
      <4>1. \A b \in Approvers : approval[b].walk # u
        BY <2>1, <2>5, <2>6, <3>3
      <4>2. verdicts'[u] = verdicts[u] /\ walks'[u] = walks[u]
        BY <2>2, <2>3, <3>1, <3>3
      <4>3. QED BY <2>6, <3>1, <4>1, <4>2, UntouchedStaysSettled
    <3>4. QED BY <3>2, <3>3
  <2>7. StatusSettles'
    BY <2>6 DEF StatusSettles, Settled
  <2>8. \A b \in Approvers : approval'[b].walk = 0 => approval'[b].todo = {}
    BY <1>1, <2>5 DEF IdleApproval
  <2>9. DOMAIN walks' = Walks
    BY <2>3
  <2> HIDE DEF Requests, WalkerStates
  <2>10. QED BY <1>1, <2>2, <2>3, <2>5, <2>7, <2>8, <2>9, SameListsTyped
         DEF fileVars, Requests, WalkerStates
<1>17. CASE Reject
  <2>0. PICK w \in Walks : \E chosen \in SUBSET Undecided(w) :
          /\ verdicts' = [verdicts EXCEPT ![w] = Mark(w, chosen, "rejected")]
          /\ walks' = Finalised(w, verdicts'[w])
    BY <1>17 DEF Reject
  <2>1. PICK chosen \in SUBSET Undecided(w) :
          /\ verdicts' = [verdicts EXCEPT ![w] = Mark(w, chosen, "rejected")]
          /\ walks' = Finalised(w, verdicts'[w])
    BY <2>0
  <2>2. UNCHANGED <<fileVars, walker, approval, crashes>>
    BY <1>17 DEF Reject
  <2>3. /\ DOMAIN verdicts' = Walks
        /\ \A u \in Walks : DOMAIN verdicts'[u] = DOMAIN verdicts[u]
        /\ \A u \in Walks : verdicts'[u] \in [DOMAIN verdicts'[u] -> Answers]
        /\ \A u \in Walks : u # w => verdicts'[u] = verdicts[u]
    BY <2>1, MarkKeeps DEF Answers
  <2>4. /\ walks' \in [Walks -> Lists]
        /\ DOMAIN verdicts'[w] # {} => Settled(w)'
        /\ \A u \in Walks : u # w => walks'[u] = walks[u]
    BY <2>1, <2>3, FinalisedSettles
  <2>5. ASSUME crashes' = 0, NEW u \in Walks', \A b \in Approvers : approval'[b].walk # u,
               DOMAIN verdicts'[u] # {}
        PROVE  Settled(u)'
    <3>1. u \in Walks /\ crashes = 0
      BY <2>2, <2>4, <2>5 DEF Walks
    <3>2. CASE u = w
      BY <2>4, <2>5, <3>2
    <3>3. CASE u # w
      <4>1. verdicts'[u] = verdicts[u] /\ walks'[u] = walks[u]
        BY <2>3, <2>4, <3>1, <3>3
      <4>2. \A b \in Approvers : approval[b].walk # u
        BY <2>2, <2>5
      <4>3. QED BY <2>5, <3>1, <4>1, <4>2, UntouchedStaysSettled
    <3>4. QED BY <3>2, <3>3
  <2>6. StatusSettles'
    BY <2>5 DEF StatusSettles, Settled
  <2>7. DOMAIN walks' = Walks /\ \A u \in Walks : DOMAIN verdicts'[u] \subseteq Items
    BY <1>1, <2>3, <2>4
  <2> HIDE DEF Requests, WalkerStates
  <2>8. QED BY <1>1, <2>2, <2>3, <2>4, <2>6, <2>7, SameListsTyped
        DEF fileVars, Requests, WalkerStates
<1>18. CASE JobEnds
  BY <1>1, <1>5, <1>18 DEF JobEnds
<1>19. CASE Clock
  <2>1. walks' = [w \in Walks |-> IF walks[w].age < ExpireAfter THEN [walks[w] EXCEPT !.age = @ + 1]
                                  ELSE walks[w]]
    BY <1>19 DEF Clock
  <2>2. \A w \in Walks : walks[w] \in Lists
    BY <1>1
  <2>3. \A w \in Walks : walks'[w] \in Lists /\ walks'[w].status = walks[w].status
    BY <2>1, <2>2, ApprovalsAssumption DEF Lists
  <2>4. DOMAIN walks' = Walks /\ walks' \in [Walks -> Lists]
    BY <2>1, <2>3
  <2>5. UNCHANGED <<fileVars, verdicts, walker, approval, crashes>>
    BY <1>19 DEF Clock
  <2>6. Walks' = Walks /\ \A w, v : With(w, v)' = With(w, v)
    BY <2>4, <2>5 DEF Walks, With
  <2>7. StatusSettles'
    BY <2>3, <2>5, <2>6 DEF ApprovalsInv, StatusSettles, Undecided
  <2> HIDE DEF Requests, WalkerStates
  <2>8. QED BY <1>1, <2>4, <2>5, <2>7, SameListsTyped DEF fileVars, Requests, WalkerStates
<1>20. CASE Crash
  <2>1. approval' = [a \in Approvers |-> IdleApproval] /\ approval' \in [Approvers -> Requests]
    BY <1>3, <1>20 DEF Crash
  <2>2. \A a \in Approvers : approval'[a].todo = {}
    BY <2>1 DEF IdleApproval
  <2>3. crashes' \in 0..MaxCrashes /\ crashes' # 0
    BY <1>1, <1>20, ApprovalsAssumption DEF Crash
  <2>4. StatusSettles'
    BY <2>3 DEF StatusSettles
  <2>5. walker' \in WalkerStates /\ UNCHANGED <<fileVars, listVars>>
    BY <1>3, <1>20 DEF Crash
  <2> HIDE DEF Requests, WalkerStates
  <2>6. QED BY <1>1, <2>1, <2>2, <2>3, <2>4, <2>5, SameListsTyped
        DEF fileVars, listVars, Requests, WalkerStates
<1>21. CASE UNCHANGED vars
  BY <1>1, <1>5, <1>21 DEF vars, fileVars
<1>22. QED
  BY <1>6, <1>7, <1>8, <1>9, <1>10, <1>11, <1>12, <1>14, <1>15, <1>16, <1>17, <1>18, <1>19, <1>20,
     <1>21 DEF Next

(* TypeOK holds of every behaviour of the walk and the requests.            *)
THEOREM ApprovalsTypeCorrect == Spec => []TypeOK
<1>1. ApprovalsInv => TypeOK
  BY DEF ApprovalsInv
<1>2. QED BY InitApprovalsInv, NextApprovalsInv, <1>1, PTL DEF Spec

(* Until a restart, a list that nobody works on has the status its          *)
(* decisions amount to (finalise_walk), whatever approvals, rejections and  *)
(* expiry did to it at once.                                                *)
THEOREM ListsSettle == Spec => []StatusSettles
<1>1. ApprovalsInv => StatusSettles
  BY DEF ApprovalsInv
<1>2. QED BY InitApprovalsInv, NextApprovalsInv, <1>1, PTL DEF Spec

----------------------------------------------------------------------------
(* Approved is what is queued. *)

(* Marking with another word, or no marking, approves nothing.              *)
LEMMA MarkApproves ==
  ASSUME ApprovalsInv, NEW u \in Walks, NEW S, NEW v \in Answers,
         verdicts' = [verdicts EXCEPT ![u] = Mark(u, S, v)], NEW w \in Walks
  PROVE  With(w, "approved")' \ With(w, "approved")
           \subseteq IF v = "approved" THEN S ELSE {}
<1>1. CASE w = u
  <2>1. u \in DOMAIN verdicts
    BY DEF ApprovalsInv, TypeOK
  <2>2. verdicts'[u] = [i \in DOMAIN verdicts[u] |-> IF i \in S THEN v ELSE verdicts[u][i]]
    BY <2>1 DEF Mark
  <2>3. QED BY <1>1, <2>2 DEF With
<1>2. CASE w # u
  <2>1. verdicts'[w] = verdicts[w]
    BY <1>2 DEF ApprovalsInv, TypeOK
  <2>2. QED BY <2>1 DEF With
<1>3. QED BY <1>1, <1>2

(* Only an approve request approves, one decision at a time, in the step    *)
(* that enqueues its job.                                                   *)
LEMMA StepsApproveQueued ==
  ApprovalsInv /\ [Next]_vars
    => [\A w \in Walks : With(w, "approved")' \ With(w, "approved") \subseteq inflight']_vars
<1> SUFFICES ASSUME ApprovalsInv, Next, NEW w \in Walks
             PROVE  With(w, "approved")' \ With(w, "approved") \subseteq inflight'
  OBVIOUS
<1>1. \A a \in Approvers : approval[a].walk \in {0} \cup Walks
                        /\ (approval[a].walk = 0 => approval[a].todo = {})
  BY DEF ApprovalsInv, TypeOK
<1>2. ASSUME verdicts'[w] = verdicts[w] PROVE With(w, "approved")' = With(w, "approved")
  BY <1>2 DEF With
<1>3. CASE Evaluated
  <2>1. \/ UNCHANGED listVars
        \/ \E chosen \in DecisionChoices : CreateWalk(chosen)
    BY <1>3 DEF Evaluated
  <2>2. CASE UNCHANGED listVars
    BY <1>2, <2>2 DEF listVars
  <2>3. ASSUME NEW chosen \in DecisionChoices, CreateWalk(chosen)
        PROVE  verdicts'[w] = verdicts[w]
    <3>1. Cardinality(Walks) + 1 # w
      BY ListsCount
    <3>2. QED BY <2>3, <3>1 DEF CreateWalk
  <2>4. QED BY <1>2, <2>1, <2>2, <2>3
<1>4. ASSUME NEW a \in Approvers, Approved(a)
      PROVE  With(w, "approved")' \ With(w, "approved") \subseteq inflight'
  <2>1. PICK i \in approval[a].todo :
          /\ Enqueue(i)
          /\ verdicts' = [verdicts EXCEPT ![approval[a].walk]
                             = Mark(approval[a].walk, {i}, "approved")]
    BY <1>4 DEF Approved
  <2>2. approval[a].walk \in Walks
    BY <1>1, <2>1
  <2>3. With(w, "approved")' \ With(w, "approved") \subseteq {i}
    BY <2>1, <2>2, MarkApproves DEF Answers
  <2>4. QED BY <2>1, <2>3 DEF Enqueue
<1>5. ASSUME NEW a \in Approvers, NotQueued(a)
      PROVE  With(w, "approved")' \ With(w, "approved") \subseteq inflight'
  <2>1. PICK i \in approval[a].todo :
          verdicts' = [verdicts EXCEPT ![approval[a].walk]
                         = Mark(approval[a].walk, {i}, "rejected")]
    BY <1>5 DEF NotQueued
  <2>2. approval[a].walk \in Walks
    BY <1>1, <2>1
  <2>3. QED BY <2>1, <2>2, MarkApproves DEF Answers
<1>6. CASE Reject
  <2>1. PICK u \in Walks : \E chosen \in SUBSET Undecided(u) :
          verdicts' = [verdicts EXCEPT ![u] = Mark(u, chosen, "rejected")]
    BY <1>6 DEF Reject
  <2>2. QED BY <2>1, MarkApproves DEF Answers
<1>7. CASE \/ WalkStarts \/ BuildFails \/ Built \/ WalkEnqueues \/ WalkEnds \/ JobEnds \/ Clock \/ Crash
           \/ \E a \in Approvers : ApproveStarts(a) \/ ApproveEnds(a)
  <2>1. verdicts' = verdicts
    BY <1>7 DEF WalkStarts, BuildFails, Built, WalkEnqueues, WalkEnds, JobEnds, Clock, Crash,
                ApproveStarts, ApproveEnds, listVars
  <2>2. QED BY <1>2, <2>1
<1>8. QED BY <1>3, <1>4, <1>5, <1>6, <1>7 DEF Next

(* approve_pending never records an approval without its job: a decision    *)
(* turns to approved only in the step that leaves its file in flight, and   *)
(* no restart comes between the two.                                        *)
THEOREM ApprovalsQueueTheirJobs == Spec => ApprovedIsQueued
  BY InitApprovalsInv, NextApprovalsInv, StepsApproveQueued, PTL DEF Spec, ApprovedIsQueued
=============================================================================
