SPECIFICATION MCSpec
CONSTANTS
  Timer = {"t0", "t1"}
  Vga = {"v0", "v1"}
  TimerDriver = {"td", "te"}
  VgaDriver = {"vd"}
  Line <- MCLine
  Rooms = {0, 1, 2, 4}
  m1 = m1
  m2 = m2
  h1 = h1
  h2 = h2
  IRQ_MAX = 4
  Map = {m1, m2}
  Handler = {h1, h2}
  HwRanges <- MCHwRanges
CHECK_DEADLOCK FALSE
INVARIANTS
  ProbesAllOrNothing
  TriedUntilFirstBound
  MapsPartitionIrqs
  HandlersServeTheirLine
SYMMETRY Symmetry
