\* The audit alone, and two changes by users or to the disk.
SPECIFICATION LibrarySpec
CONSTANTS
  Paths <- TwoTitles
  Library <- OneLibrary
  Key <- EpisodeKeys
  Id <- ArrIds
  Here = {"e1", "m1"}
  Languages = {"ja", "de"}
  Mixes = {{"audit"}}
  MaxChanges = 2
CHECK_DEADLOCK FALSE
PROPERTIES
  UserWordStands
