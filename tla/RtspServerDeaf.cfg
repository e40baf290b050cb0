SPECIFICATION Spec
CONSTANTS
  a = a  b = b  s1 = s1  s2 = s2  None = None
  Conns <- MCConns  Fds <- MCFds  Sessions = {s1}  Url <- MCOne
  Multicast = {}  Modes = {"tcp"}  Capacity = 2
  Redescribe = FALSE  Resetup = FALSE  Removals = TRUE
SYMMETRY Symmetric
INVARIANT Attended
CHECK_DEADLOCK FALSE
