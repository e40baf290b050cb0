CONSTANTS
  Delays <- WithZero
  MaxTimers = 2
  MaxTime = 4
  CallbackAdds = FALSE
SPECIFICATION FairSpec
INVARIANT OncePerPass
PROPERTY DueRuns
CHECK_DEADLOCK FALSE
