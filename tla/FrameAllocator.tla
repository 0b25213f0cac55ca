--------------------------- MODULE FrameAllocator ---------------------------
(***************************************************************************)
(* What a physical frame allocator promises its callers: it is given a set *)
(* of frames once, hands out contiguous runs of frames that nobody holds,  *)
(* and takes back frames that are held.  The users of the physical memory  *)
(* manager rely on nothing else.                                           *)
(***************************************************************************)
EXTENDS Integers

CONSTANT Frame           \* the frame numbers, a set of naturals

VARIABLES
  open,                  \* whether the frames have been given
  free,                  \* frames that may be handed out
  out                    \* frames handed out and not given back

avars == <<open, free, out>>

AInit == open = FALSE /\ free = {} /\ out = {}

Open ==
  /\ open = FALSE
  /\ open' = TRUE
  /\ free' \in SUBSET Frame
  /\ UNCHANGED out

Alloc(S) ==
  /\ S # {}
  /\ S \subseteq free
  /\ free' = free \ S
  /\ out' = out \cup S
  /\ UNCHANGED open

Release(S) ==
  /\ S # {}
  /\ S \subseteq out
  /\ out' = out \ S
  /\ free' = free \cup S
  /\ UNCHANGED open

ANext ==
  \/ Open
  \/ \E lo, hi \in Frame : Alloc(lo .. hi) \/ Release(lo .. hi)

ASpec == AInit /\ [][ANext]_avars
=============================================================================
