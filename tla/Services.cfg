\* Each service on its own small instance, and every case.
SPECIFICATION ServicesSpec
CONSTANTS
  \* two files of one episode and a film, three changes
  Paths <- TwoTitles
  Library <- OneLibrary
  Key <- EpisodeKeys
  Id <- ArrIds
  Here = {"e1", "m1"}
  Languages = {"ja"}
  Mixes <- PassMixes
  MaxChanges = 3
  \* a job, a sidecar, three judgements
  Jobs = {"m"}
  Sidecars = {"s"}
  MaxResults = 3
  \* a file in two versions, two walks and a scan after its completion
  Films = {g1}
  Walkers = {w1, w2}
  AtImport = {t1}
  MaxVersions = 1
  \* two processes, two migrations of two columns
  Processes = {a, b}
  Migrations = {1, 2}
  Columns = {1, 2}
  \* two sweeps
  Sweeps = {r1, r2}
SYMMETRY Alike
CHECK_DEADLOCK FALSE
INVARIANTS
  VerdictKeepsItsTitle
  FindingsAreCurrent
  VerdictsAreOfThisFile
  RecordedIsApplied
  RunsMatchTasks
  RemediesFit
  RowsFit
  PagesShowAll
  FilesAreMatched
  RetimeKeepsCues
  RanksFollowLanguages
PROPERTIES
  BacklogSurvives
