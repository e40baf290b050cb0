CONSTANTS
  Delays <- OneDelay
  MaxTimers = 1
  MaxTime = 4
  CallbackAdds = TRUE
SPECIFICATION FairSpec
PROPERTY DueRuns
CHECK_DEADLOCK FALSE
