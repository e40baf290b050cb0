SPECIFICATION Spec
CONSTANTS
  a = a  b = b  s1 = s1  s2 = s2  None = None
  Conns <- MCConns  Fds <- MCFds3  Sessions = {s1}  Url <- MCOne
  Multicast = {}  Modes = {"tcp", "udp"}  Capacity = 1
  Redescribe = FALSE  Resetup = FALSE  Removals = FALSE
SYMMETRY Symmetric
INVARIANTS TypeOK NoDangling OwnDescriptor Attended ErasedOnce CountsOnline
CHECK_DEADLOCK FALSE
