CONSTANTS
  t1 = t1
  t2 = t2
  loop = loop
  e1 = e1
  e2 = e2
  NoEvent = NoEvent
  Callers <- ThreeCallers
  Quitters <- OneQuitter
  Loop <- loop
  Events <- MCEvents
  Capacity = 2
  PipeSize = 3
  ReadSize = 2
SPECIFICATION FairSpec
INVARIANTS
  TypeOK
  SlotsDisjoint
  NoLostWakeup
PROPERTIES MailboxSpec Served QuitStops
CHECK_DEADLOCK FALSE
