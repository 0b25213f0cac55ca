------------------------------ MODULE PmmFrames ------------------------------
(***************************************************************************)
(* Address and frame arithmetic of the physical memory manager             *)
(* (kernel/mm/pmm.c), and the frame run an allocation returns: the lowest  *)
(* run of free frames in the window the caller asked for.  A bitmap is the *)
(* set of the frames whose bit is 1 (reserved or allocated).               *)
(***************************************************************************)
EXTENDS Integers, FiniteSets, FiniteSetsExt

CONSTANTS
  FRAME_SIZE,   \* bytes in a frame (4096 in the kernel)
  Requests      \* allocation requests [min, max, pages, policy]

ASSUME FrameSizeAssumption == FRAME_SIZE \in Nat \ {0}

STRICT   == "STRICT"
FALLBACK == "FALLBACK"
Policies == {STRICT, FALLBACK}

ASSUME RequestsAssumption ==
  Requests \subseteq [min : Nat, max : Nat, pages : Nat, policy : Policies]

ALIGN_DOWN(x) == (x \div FRAME_SIZE) * FRAME_SIZE
ALIGN_UP(x)   == ALIGN_DOWN(x + FRAME_SIZE - 1)

pmm_addr_to_frame(addr) == addr \div FRAME_SIZE

pmm_frame_to_addr(frame) == frame * FRAME_SIZE

(* The frames [first, first + pages).                                      *)
Run(first, pages) == first .. (first + pages - 1)

pmm_validate_range(first, pages, total) ==
  /\ pages # 0
  /\ first < total
  /\ pages <= total - first

(* First frame and exclusive last frame of the window [min, max) of an     *)
(* allocation; 0 means "no bound".                                         *)
StartFrame(min) == IF min # 0 THEN pmm_addr_to_frame(ALIGN_UP(min)) ELSE 0

MaxFrame(max, total) ==
  LET m == IF max # 0 THEN pmm_addr_to_frame(max) ELSE total
  IN  IF m > total THEN total ELSE m

(* Starts of the free runs of the given length inside [lo, hi).            *)
Fits(bm, lo, hi, pages) ==
  {f \in lo .. (hi - pages) : Run(f, pages) \cap bm = {}}

(* Result of pmm_alloc: the starts of the runs that a request may be given *)
(* in its own window or, when that has none and the policy allows it, in   *)
(* the whole of memory.                                                    *)
Candidates(bm, total, req) ==
  LET own == Fits(bm, StartFrame(req.min), MaxFrame(req.max, total), req.pages)
      any == Fits(bm, 0, total, req.pages)
  IN  IF own = {} /\ req.policy = FALLBACK THEN any ELSE own
=============================================================================
