----------------------------- MODULE MCServices -----------------------------
(* The services that keep state of their own and touch no state of another, *)
(* and the decisions about single cases, checked side by side: a behaviour  *)
(* runs one of them, its focus, and leaves the others where they start.     *)
EXTENDS MCCases, MCVerdicts, Aftercare, ForcedSegments, Boot, Arena, TLC

VARIABLE focus     \* what runs

\* Where an initial state is one of several, what does not run has one.
ServicesInit ==
  /\ focus \in {"cases", "library", "aftercare", "forced", "boot", "arena"}
  /\ CasesInit /\ AftercareInit /\ ArenaInit
  /\ LibraryInit /\ (focus # "library" => mix = {"prune"})
  /\ ForcedInit /\ (focus # "forced" => vadHere /\ subgenHere /\ \A f \in Films : film[f].scenes)
  /\ BootInit /\ (focus # "boot" => recorded = Migrations)

ServicesNext ==
  \/ /\ focus = "cases" /\ CasesNext
     /\ UNCHANGED <<focus, libraryVars, aftercareVars, forcedVars, bootVars, arenaVars>>
  \/ /\ focus = "library" /\ LibraryNext
     /\ UNCHANGED <<focus, case, aftercareVars, forcedVars, bootVars, arenaVars>>
  \/ /\ focus = "aftercare" /\ AftercareNext
     /\ UNCHANGED <<focus, case, libraryVars, forcedVars, bootVars, arenaVars>>
  \/ /\ focus = "forced" /\ ForcedNext
     /\ UNCHANGED <<focus, case, libraryVars, aftercareVars, bootVars, arenaVars>>
  \/ /\ focus = "boot" /\ BootNext
     /\ UNCHANGED <<focus, case, libraryVars, aftercareVars, forcedVars, arenaVars>>
  \/ /\ focus = "arena" /\ ArenaNext
     /\ UNCHANGED <<focus, case, libraryVars, aftercareVars, forcedVars, bootVars>>

servicesVars ==
  <<focus, case, libraryVars, aftercareVars, forcedVars, bootVars, arenaVars>>

\* Walks are alike.
Alike == Permutations(Walkers)

ServicesSpec == ServicesInit /\ [][ServicesNext]_servicesVars
=============================================================================
