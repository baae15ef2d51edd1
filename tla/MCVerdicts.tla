----------------------------- MODULE MCVerdicts -----------------------------
(* Verdicts on two files of one episode and a film, whose numbers in the    *)
(* *arrs are equal.                                                         *)
EXTENDS Verdicts

TwoTitles == {"e1", "e2", "m1"}
OneLibrary == [p \in TwoTitles |-> "lib"]
EpisodeKeys == [p \in TwoTitles |-> IF p = "m1" THEN NoKey ELSE "S/1x1"]
ArrIds == [p \in TwoTitles |-> [kind |-> IF p = "m1" THEN "radarr" ELSE "sonarr", n |-> 1]]
PassMixes == {{"refresh", "relink"}, {"prune"}, {"audit"}}
=============================================================================
