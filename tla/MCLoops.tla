------------------------------ MODULE MCLoops ------------------------------
(* Services that keep going by themselves and touch no state of each other, *)
(* checked side by side: a behaviour runs one of them, its focus, and       *)
(* leaves the others where they start.                                      *)
EXTENDS CircuitBreaker, BazarrSync, HistoryCache, TrackSwap, CoverageRefresh

VARIABLE focus     \* the service that runs

OneRow == <<"f1">>

\* The snapshot of a report of two rows, and of fewer disturbances.
Report == INSTANCE CoverageRefresh WITH Rows <- <<"f1", "f2">>, MaxEvents <- 1

LoopsInit ==
  /\ focus \in {"breaker", "sync", "history", "tracks", "refresh", "report"}
  /\ Init /\ SyncInit /\ HistInit
  /\ IF focus = "report" THEN Report!RefreshInit ELSE RefreshInit
  /\ TrackInit /\ (focus # "tracks" => mistracked = {} /\ stored = {})

LoopsNext ==
  \/ /\ focus = "breaker" /\ Next
     /\ UNCHANGED <<focus, syncVars, histVars, trackVars, refreshVars>>
  \/ /\ focus = "sync" /\ SyncNext
     /\ UNCHANGED <<focus, vars, histVars, trackVars, refreshVars>>
  \/ /\ focus = "history" /\ HistNext
     /\ UNCHANGED <<focus, vars, syncVars, trackVars, refreshVars>>
  \/ /\ focus = "tracks" /\ TrackNext
     /\ UNCHANGED <<focus, vars, syncVars, histVars, refreshVars>>
  \/ /\ focus = "refresh" /\ RefreshNext
     /\ UNCHANGED <<focus, vars, syncVars, histVars, trackVars>>
  \/ /\ focus = "report" /\ Report!RefreshNext
     /\ UNCHANGED <<focus, vars, syncVars, histVars, trackVars>>

loopsVars == <<focus, vars, syncVars, histVars, trackVars, refreshVars>>

\* What is fair to a service is asked of it. At rest nothing of what is fair to
\* the sync and the tracks is enabled; the page, its clock, the callers of a
\* breaker and the loop that asks for a build would move.
LoopsFairness ==
  /\ SyncFairness /\ TrackFairness
  \* HistFairness
  /\ \A p \in Pages : /\ WF_histVars(focus = "history" /\ PageAsked(p))
                      /\ WF_histVars(JobsRead(p)) /\ WF_histVars(PageBuilt(p))
  /\ WF_histVars(RebuildStarts) /\ WF_histVars(JobsRead(Rebuild)) /\ WF_histVars(Rebuilt)
  /\ WF_histVars(focus = "history" /\ HistTick)
  \* RefreshFairness, of one report or the other
  /\ WF_refreshVars(TimerFires) /\ WF_refreshVars(focus \in {"refresh", "report"} /\ LoopAsks)
  /\ WF_refreshVars(IF focus = "report" THEN Report!BuildStep ELSE BuildStep)
  /\ WF_refreshVars(ReprobeAsks)
  /\ \A w \in WalkIds :
       WF_refreshVars(IF focus = "report" THEN Report!WalkEnds(w) ELSE WalkEnds(w))
  /\ \A w \in WalkIds, f \in Report!Files :
       WF_refreshVars(IF focus = "report" THEN Report!FileStep(w, f)
                      ELSE f \in Files /\ FileStep(w, f))
  \* Fairness of the breaker
  /\ WF_vars(Clock)
  /\ \A c \in Callers : WF_vars(focus = "breaker" /\ Send(c)) /\ SF_vars(Reached(c)) /\ WF_vars(Failed(c))

LoopsSpec == LoopsInit /\ [][LoopsNext]_loopsVars /\ LoopsFairness

\* Where the queue page is open, it shows the stores as they are in the end,
\* whatever rebuilds overlap, or fail for a time, on the way.
PageSettles == focus = "history" => HistorySettles

\* RowsLeaveAnalyzing of the longer report, whose rows compete for the places of
\* a walk: a row that could be analysed does not stay unprobed for ever.
ReportAnalyzable(f) == focus = "report" /\ Report!Analyzable(f)
ReportIsAnalyzed == \A f \in Report!Files : ReportAnalyzable(f) ~> ~ReportAnalyzable(f)

=============================================================================
