SPECIFICATION Spec
CONSTANTS
  Lines = {0, 7, 15}
  I8254_BASE_FREQ = 3
  NS_PER_SEC = 10
  MIN_TICKS = 2
  BYTE = 4
  Loadable = {15}
  Deltas = {5, 6, 50, 51}
INVARIANTS
  InterruptsEnded
  MasksAsAsked
  CountsAsAsked
PROPERTIES
  EventsAreOwed
  PeriodicKeepsTicking
