CONSTANTS
  Delays <- ShortDelays
  MaxTimers = 3
  MaxTime = 4
  CallbackAdds = TRUE
SPECIFICATION Spec
INVARIANTS
  TypeOK
  NeverAgain
  NoTaskNoTimeout
PROPERTY AlarmSpec
CHECK_DEADLOCK FALSE
