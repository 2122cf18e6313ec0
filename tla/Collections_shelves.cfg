SPECIFICATION FairSpec
CONSTANTS
  Items = {1, 2, 3}
  Values = {1, 2}
  Patterns = {1, 2}
  Library = {1, 3}
  MinItems = 1
  MaxItems = 2
  MaxShelves = 6
  Settings <- Checked
INVARIANTS ExplainAgrees QuietRunSyncs NothingForgotten
PROPERTIES UserShelvesKept SeasonEnds
CHECK_DEADLOCK FALSE
