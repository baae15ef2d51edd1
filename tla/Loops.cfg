\* Each service on its own small instance.
SPECIFICATION LoopsSpec
CONSTANTS
  \* three callers trip the breaker with two failures; the upstream fails, recovers, fails again
  Callers = {c1, c2, c3}
  Threshold = 2
  Cooldown = 2
  MaxFlips = 4
  \* three verifications within a window of two ticks
  Requests = {v1, v2, v3}
  Window = 2
  \* two requests of the page beside the rebuild, two changes of the stores
  Pages = {p1, p2}
  MaxEdits = 2
  HistTtl = 1
  \* a file with a wrong default track, two requests
  SwapFiles = {t1}
  Swaps = {s1, s2}
  \* one row of the report, two disturbances or requests of any kinds
  Rows <- OneRow
  EagerCap = 1
  MaxHolds = 1
  Faults = {"replace", "mount", "outage", "raise", "restart", "rootwalk"}
  MaxEvents = 2
CHECK_DEADLOCK FALSE
INVARIANTS
  NoRequestForgotten
  TrustedProbesAreTrue
PROPERTIES
  Recovers
  PutsAreSynced
  PageSettles
  SwappedRowsClear
  ReportIsAnalyzed
  OutageShows
