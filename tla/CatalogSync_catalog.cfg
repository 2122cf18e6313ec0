SPECIFICATION FairCatalogSpec
CONSTANTS
  Titles = {1, 2}
  Episodes = {1, 2, 3}
  Special = {1}
  Settings <- Checked
INVARIANT QuietSyncAgrees
PROPERTIES RemovalsAreReal CatchesUp
