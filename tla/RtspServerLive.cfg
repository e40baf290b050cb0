SPECIFICATION FairSpec
CONSTANTS
  a = a  b = b  s1 = s1  s2 = s2  None = None
  Conns <- MCConns  Fds <- MCFds1  Sessions = {s1}  Url <- MCOne
  Multicast = {s1}  Modes = {"tcp", "multicast"}  Capacity = 1
  Redescribe = FALSE  Resetup = TRUE  Removals = TRUE
INVARIANTS OwnDescriptor ErasedOnce CountsOnline
PROPERTIES Reaped IdleClosed
CHECK_DEADLOCK FALSE
