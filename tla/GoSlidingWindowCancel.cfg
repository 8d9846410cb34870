CONSTANTS
  Callers = {g1, g2}
  MaxRequests = 1
  Window = 2
SPECIFICATION CancelSpec
INVARIANT NoFatalError
