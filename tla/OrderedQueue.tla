---------------------------- MODULE OrderedQueue ----------------------------
(***************************************************************************)
(* What the pending queue promises its users: one list of jobs per         *)
(* priority bucket, drained from the highest bucket down and each list     *)
(* from its head.  Nothing is said of how an order is stored; PendingQueue *)
(* implements this with numeric sort keys.                                 *)
(***************************************************************************)
EXTENDS Integers, Sequences, SequencesExt

CONSTANTS Priorities, Jobs

VARIABLES
    list,  \* bucket -> its jobs, first one first
    known  \* every job that was ever in a list

listVars == <<list, known>>

InBucket(j, p) == j \in ToSet(list[p])

Listed(j) == \E p \in Priorities : InBucket(j, p)

IndexIn(s, j) == CHOOSE i \in DOMAIN s : s[i] = j

\* the lists once job j has left its bucket
Without(j) ==
    [p \in Priorities |->
        IF InBucket(j, p) THEN RemoveAt(list[p], IndexIn(list[p], j)) ELSE list[p]]

-----------------------------------------------------------------------------
\* a new job goes to the end of its bucket; a job that left is never new again
Arrive(j, p) ==
    /\ j \notin known
    /\ list' = [list EXCEPT ![p] = Append(@, j)]
    /\ known' = known \cup {j}

\* submitted, failed or removed
Leave(j) == Listed(j) /\ list' = Without(j) /\ UNCHANGED known

LeaveAll == list' = [p \in Priorities |-> <<>>] /\ UNCHANGED known

ToTop(j, p) ==
    /\ InBucket(j, p)
    /\ list' = [Without(j) EXCEPT ![p] = <<j>> \o @]
    /\ UNCHANGED known

\* to the bottom of a bucket, its own or another
ToBottom(j, p) ==
    /\ Listed(j)
    /\ list' = [Without(j) EXCEPT ![p] = Append(@, j)]
    /\ UNCHANGED known

\* directly before or after another listed job, in that job's bucket
Beside(j, t, p, offset) ==
    /\ Listed(j)
    /\ j # t
    /\ InBucket(t, p)
    /\ list' = [Without(j) EXCEPT ![p] = InsertAt(@, IndexIn(@, t) + offset, j)]
    /\ UNCHANGED known

ListInit == list = [p \in Priorities |-> <<>>] /\ known = {}

ListNext ==
    \/ LeaveAll
    \/ \E j \in Jobs : Leave(j)
    \/ \E j \in Jobs, p \in Priorities : Arrive(j, p) \/ ToTop(j, p) \/ ToBottom(j, p)
    \/ \E j, t \in Jobs, p \in Priorities, offset \in {0, 1} : Beside(j, t, p, offset)

ListSpec == ListInit /\ [][ListNext]_listVars

=============================================================================
