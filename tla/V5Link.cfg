SPECIFICATION FairSpec
CONSTANTS
  Fds = {3, 4}
  Room = 3  Records = 2  Gop = 2  Frames = 4  MaxTries = 1  MaxFaults = 1  MaxMeets = 1
INVARIANTS BeginsWithI OneClient
PROPERTIES WholeFrames Watched
CHECK_DEADLOCK FALSE
