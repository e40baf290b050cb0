CONSTANTS
  t1 = t1
  t2 = t2
  loop = loop
  e1 = e1
  e2 = e2
  NoEvent = NoEvent
  Callers <- TwoCallers
  Quitters <- OneQuitter
  Loop <- loop
  Events <- MCEvents
  Capacity = 2
  PipeSize = 3
  ReadSize = 2
SPECIFICATION Spec
INVARIANT AcceptedIsQueued
CHECK_DEADLOCK FALSE
