SPECIFICATION FairSpec
CONSTANTS
  want = want
  same = same
  short = short
  long = long
  Payloads = {want, same, short, long}
  Want = want
  Blocks <- MCBlocks
  MaxAttempts = 4
  None = None
  MaxFaults = 5
INVARIANT PublishedIsAuthentic
PROPERTIES StalePartIsOvercome DownloadEnds
CHECK_DEADLOCK FALSE
