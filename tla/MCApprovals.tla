----------------------------- MODULE MCApprovals ----------------------------
(***************************************************************************)
(* Approvals on small instances: files are interchangeable, and so are the *)
(* requests that approve them.                                             *)
(***************************************************************************)
EXTENDS Approvals, TLC

Interchangeable == Permutations(Items) \cup Permutations(Approvers)

=============================================================================
