-------------------------------- MODULE Heap ---------------------------------
(***************************************************************************)
(* What a heap promises its callers: every allocation is a byte range of   *)
(* the arena of the size that was asked for and shares no byte with any    *)
(* other live allocation, until its owner gives it back.                   *)
(***************************************************************************)
EXTENDS Integers

CONSTANT Arena, Size     \* the addresses of the heap, the sizes asked for

VARIABLE live            \* the live allocations [ptr, size]

Range(b) == b.ptr .. (b.ptr + b.size - 1)

HInit == live = {}

Allocate(b) ==
  /\ b.size \in Size \ {0}
  /\ Range(b) \subseteq Arena
  /\ \A other \in live : Range(b) \cap Range(other) = {}
  /\ live' = live \cup {b}

Free(b) == live' = live \ {b}

HNext ==
  \/ \E b \in live' \ live : Allocate(b)
  \/ \E b \in live : Free(b)

HSpec == HInit /\ [][HNext]_live
=============================================================================
