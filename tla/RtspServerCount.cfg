SPECIFICATION Spec
CONSTANTS
  a = a  b = b  s1 = s1  s2 = s2  None = None
  Conns <- MCConns  Fds <- MCFds  Sessions = {s1, s2}  Url <- MCTwo
  Multicast = {}  Modes = {"tcp"}  Capacity = 2
  Redescribe = TRUE  Resetup = FALSE  Removals = FALSE
SYMMETRY Symmetric
INVARIANT CountsOnline
CHECK_DEADLOCK FALSE
