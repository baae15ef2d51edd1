--------------------------- MODULE MCQueueFeeder ----------------------------
(* QueueFeeder in two settings: three files and a depth of two, so that one *)
(* of them always waits, while subgen restarts and the controls change; and *)
(* two files, while a user deletes any row at any moment.                   *)
(* No property names a path, and no action prefers one, so paths may be     *)
(* permuted.                                                                *)
EXTENDS QueueFeeder, TLC

VARIABLE setting

PathSymmetry == Permutations(Paths)

DeletesHandedOver == \E j \in {held} \cup Submitted : RemoveRow(j) /\ UNCHANGED feederVars

InSetting ==
    IF setting = "depth"
    THEN ~DeletesHandedOver
    ELSE Cardinality({rows'[j].path : j \in DOMAIN rows'}) <= 2 /\ ~SubgenRestarts /\ ~SetControl

SettingsSpec ==
    /\ Init /\ setting \in {"depth", "removals"}
    /\ [][Next /\ UNCHANGED setting /\ InSetting]_<<vars, setting>>

\* OwnWorkWithinTarget, while nobody deletes what was handed over: with its row
\* the feeder forgets that it waits for a submission.
DepthIsKept == setting = "depth" => OwnWorkWithinTarget

=============================================================================
