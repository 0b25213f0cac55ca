SPECIFICATION Spec
CONSTANTS
  Timer = {"t0", "t1"}
  Vga = {"v0", "v1"}
  TimerDriver = {"td", "te"}
  VgaDriver = {"vd"}
  Line <- MCLine
  Rooms = {0, 1, 2, 4}
CHECK_DEADLOCK FALSE
INVARIANT EachDeviceTried
