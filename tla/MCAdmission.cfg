CONSTANTS
  Callers = {c1, c2, c3, c4, c5}
  MaxConcurrent = 2
  Goroutines = {g1, g2, g3}
  NoSem = NoSem
  OptionSem = OptionSem
  MaxRequests = 2
  Window = 3
  Burst = 2
  Unit = 3
  Rate = 2
SPECIFICATION MCSpec
INVARIANTS GatesExact NoIdleSlot LimitersExact
PROPERTIES NoStarvation GatesImplementSlots LimitersAdmit WindowsKept
