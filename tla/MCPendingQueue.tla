--------------------------- MODULE MCPendingQueue ---------------------------
(* Small instances of PendingQueue, and its refinement of OrderedQueue.    *)
EXTENDS PendingQueue, Sequences, SequencesExt, TLC

Jobs == 1..MaxJobs

\* paths are interchangeable: no action or property names one
PathsAlike == Permutations(Paths)

\* the rows of s stand in list order
InListOrder(s) == \A i, k \in DOMAIN s : i < k => Before(s[i], s[k])

\* the pending rows of a bucket, in list order
ListOf(p) ==
    CHOOSE s \in [1..Cardinality(Bucket(p)) -> Bucket(p)] : InListOrder(s)

Ordered == INSTANCE OrderedQueue WITH
    list  <- [p \in Priorities |-> ListOf(p)],
    known <- 1..(nextId - 1)

\* While midpoints are exact the numeric sort keys implement ordered lists:
\* every store method is one list operation that keeps all other jobs where
\* they were, and a job that left the pending list never re-enters it.
ImplementsOrderedQueue == Ordered!ListSpec

=============================================================================
