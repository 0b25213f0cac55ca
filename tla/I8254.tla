-------------------------------- MODULE I8254 ---------------------------------
(***************************************************************************)
(* The arithmetic of the i8254 driver (kernel/drivers/timer/i8254.c): the  *)
(* interval in nanoseconds that a caller asks for becomes a number of      *)
(* ticks of the input clock, which goes to the counter in two bytes.       *)
(***************************************************************************)
EXTENDS Integers

CONSTANTS
  I8254_BASE_FREQ,   \* ticks per second, 1193182
  NS_PER_SEC,
  MIN_TICKS,         \* 20
  BYTE               \* values of a byte, 256

ASSUME ClockAssumption ==
  /\ I8254_BASE_FREQ \in Nat \ {0} /\ NS_PER_SEC \in Nat
  /\ I8254_BASE_FREQ <= NS_PER_SEC
  /\ MIN_TICKS \in Nat /\ MIN_TICKS >= 2
  /\ BYTE \in Nat /\ BYTE >= 2

UINT16_MAX == BYTE * BYTE - 1

I8254_MIN_DELTA_NS == (NS_PER_SEC * MIN_TICKS) \div I8254_BASE_FREQ
I8254_MAX_DELTA_NS == (NS_PER_SEC * UINT16_MAX) \div I8254_BASE_FREQ

(* Other intervals are refused with -KERR_RANGE.                           *)
InRange(ns) == ns >= I8254_MIN_DELTA_NS /\ ns <= I8254_MAX_DELTA_NS

pit_counter(ns) == (ns * I8254_BASE_FREQ) \div NS_PER_SEC

(* The counter after the writes of a first and a second byte.              *)
Loaded(first, second) == second * BYTE + first

WriteCounter_HighFirst(c) == Loaded((c \div BYTE) % BYTE, c % BYTE)

WriteCounter(c) == Loaded(c % BYTE, (c \div BYTE) % BYTE)

(* A counter of these ticks runs for the interval or less than one tick    *)
(* short of it; 0 would stand for UINT16_MAX + 1.                          *)
Lasts(ticks, ns) ==
  /\ ticks \in 1 .. UINT16_MAX
  /\ ticks * NS_PER_SEC <= ns * I8254_BASE_FREQ
  /\ ns * I8254_BASE_FREQ < (ticks + 1) * NS_PER_SEC
=============================================================================
