SPECIFICATION FairPlaybackSpec
CONSTANTS
  hd = hd
  uhd = uhd
  Instances = {hd, uhd}
  Standard = hd
  Settings <- Watched
  Fallback = TRUE
  Executors = {w}
  SearchTimeout = 1
  RetryGrace = 2
INVARIANTS CallsAreHeard
PROPERTIES WatchEnds FirstSearchGetsItsTime
