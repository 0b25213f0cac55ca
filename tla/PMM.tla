--------------------------------- MODULE PMM ---------------------------------
(***************************************************************************)
(* The physical memory manager of kernel/mm/pmm.c: one bit per frame, set  *)
(* by pmm_init from the boot memory map, by pmm_alloc and by pmm_free.     *)
(*                                                                         *)
(* Each call is one step: the kernel runs on one CPU and no interrupt      *)
(* handler calls the PMM.  The scan inside pmm_alloc is the subject of     *)
(* module PmmScan.  The callers' side is the ghost variable held: how many *)
(* times each frame has been handed out and not yet given back.  A caller  *)
(* frees only frames it holds, or makes a call that pmm_free rejects.      *)
(***************************************************************************)
EXTENDS PmmFrames

CONSTANTS
  Maps,         \* the boot memory maps considered: sets of entries
  FirstMiB,     \* bytes of low memory always reserved (1 MiB)
  KernelStart,  \* physical address of __kernel_start
  KernelEnd,    \* physical address of __kernel_end, where the bitmap starts
  MaxFrames,    \* bound: no map reaches further than this many frames
  FreeAddrs,    \* addresses passed to pmm_free
  FreePages     \* page counts passed to pmm_free

USABLE == 1     \* BOOT_TYPE_USABLE

VARIABLES
  map,          \* the map pmm_init was given, {} before it ran
  bm,           \* pmm.bm: the frames whose bit is set
  total_frames,
  free_frames,
  held          \* ghost: outstanding hand-outs per frame

vars == <<map, bm, total_frames, free_frames, held>>

AllFrames == 0 .. (MaxFrames - 1)

Bytes(e) == e.base .. (e.base + e.length - 1)

(* Frame number f covers these bytes.                                      *)
FrameBytes(f) == pmm_frame_to_addr(f) .. (pmm_frame_to_addr(f + 1) - 1)

Usable(m) == {e \in m : e.type = USABLE}

TotalFrames(m) ==
  LET ends == {0} \cup {e.base + e.length : e \in Usable(m)}
  IN  pmm_addr_to_frame(ALIGN_UP(Max(ends)))

(* The frames wholly inside a usable entry: what pmm_init frees.           *)
UsableFrames(m) ==
  UNION {pmm_addr_to_frame(ALIGN_UP(e.base)) ..
         (pmm_addr_to_frame(ALIGN_DOWN(e.base + e.length)) - 1) : e \in Usable(m)}

(* The frames touched by the bytes [lo, hi).                               *)
FramesOf(lo, hi) ==
  pmm_addr_to_frame(ALIGN_DOWN(lo)) .. (pmm_addr_to_frame(ALIGN_UP(hi)) - 1)

BitmapEnd(total) == KernelEnd + ((total + 7) \div 8)

(* Variant: the bitmap forgotten.                                          *)
ForceReserved_NoBitmap(total) ==
  (0 .. (total - 1)) \cap
    (0 .. ((FirstMiB \div FRAME_SIZE) - 1) \cup FramesOf(KernelStart, KernelEnd))

(* pmm_force_reserve_range for the first MiB, the kernel and the bitmap.   *)
ForceReserved(total) ==
  (0 .. (total - 1)) \cap
    (0 .. ((FirstMiB \div FRAME_SIZE) - 1)
       \cup FramesOf(KernelStart, KernelEnd)
       \cup FramesOf(KernelEnd, BitmapEnd(total)))

InitBitmap(m) ==
  ((0 .. (TotalFrames(m) - 1)) \ UsableFrames(m)) \cup ForceReserved(TotalFrames(m))

ASSUME PmmAssumption ==
  /\ MaxFrames \in Nat /\ KernelStart \in Nat /\ KernelEnd \in Nat
  /\ FirstMiB \in Nat /\ FirstMiB % FRAME_SIZE = 0
  /\ \A m \in Maps : /\ m \subseteq [base : Nat, length : Nat, type : Nat]
                     /\ TotalFrames(m) \in 0 .. MaxFrames
  /\ FreeAddrs \subseteq Nat
  /\ FreePages \subseteq Nat

-----------------------------------------------------------------------------
Init ==
  /\ map = {}
  /\ bm = {}
  /\ total_frames = 0
  /\ free_frames = 0
  /\ held = [f \in AllFrames |-> 0]

(* pmm_init, called once by mm_init; it rejects an empty map.              *)
pmm_init(m) ==
  /\ map = {}
  /\ m # {}
  /\ map' = m
  /\ total_frames' = TotalFrames(m)
  /\ bm' = InitBitmap(m)
  /\ free_frames' = Cardinality((0 .. (total_frames' - 1)) \ bm')
  /\ UNCHANGED held

(* Variant: the last frame of the run not marked.                          *)
pmm_alloc_MarksOneLess(req) ==
  LET fits  == Candidates(bm, total_frames, req)
      run == Run(Min(fits), req.pages)
  IN  /\ req.pages # 0
      /\ fits # {}
      /\ bm' = bm \cup Run(Min(fits), req.pages - 1)
      /\ free_frames' = free_frames - req.pages
      /\ held' = [f \in AllFrames |-> IF f \in run THEN held[f] + 1 ELSE held[f]]
      /\ UNCHANGED <<map, total_frames>>

(* A successful pmm_alloc marks and returns the lowest run.                *)
pmm_alloc(req) ==
  LET fits  == Candidates(bm, total_frames, req)
      first == Min(fits)
  IN  /\ req.pages # 0
      /\ fits # {}
      /\ bm' = bm \cup Run(first, req.pages)
      /\ free_frames' = free_frames - req.pages
      /\ held' = [f \in AllFrames |->
                    IF f \in Run(first, req.pages) THEN held[f] + 1 ELSE held[f]]
      /\ UNCHANGED <<map, total_frames>>

(* pmm_alloc returns -KERR_INVAL for no pages and -KERR_NOMEM when no run  *)
(* fits; it changes nothing.                                               *)
pmm_alloc_fails(req) ==
  /\ req.pages = 0 \/ Candidates(bm, total_frames, req) = {}
  /\ UNCHANGED vars

(* pmm_free accepts an aligned, in-range run whose bits are all set.       *)
FreeAccepted(addr, pages) ==
  LET first == pmm_addr_to_frame(addr)
  IN  /\ addr % FRAME_SIZE = 0
      /\ pmm_validate_range(first, pages, total_frames)
      /\ Run(first, pages) \subseteq bm

(* Variant: the loop that clears the bits stops one frame early.           *)
pmm_free_ClearsOneLess(addr, pages) ==
  LET first == pmm_addr_to_frame(addr)
      run == Run(first, pages)
  IN  /\ FreeAccepted(addr, pages)
      /\ \A f \in run : held[f] > 0
      /\ bm' = bm \ Run(first, pages - 1)
      /\ free_frames' = free_frames + pages
      /\ held' = [f \in AllFrames |-> IF f \in run THEN held[f] - 1 ELSE held[f]]
      /\ UNCHANGED <<map, total_frames>>

(* The caller's contract: when the call is accepted, it gives back frames  *)
(* that were handed out to it.                                             *)
pmm_free(addr, pages) ==
  LET run == Run(pmm_addr_to_frame(addr), pages)
  IN  /\ FreeAccepted(addr, pages)
      /\ \A f \in run : held[f] > 0
      /\ bm' = bm \ run
      /\ free_frames' = free_frames + pages
      /\ held' = [f \in AllFrames |-> IF f \in run THEN held[f] - 1 ELSE held[f]]
      /\ UNCHANGED <<map, total_frames>>

(* Any other call (misaligned, out of range, a frame already free) gets    *)
(* -KERR_INVAL before a bit is changed.                                    *)
pmm_free_fails(addr, pages) ==
  /\ ~FreeAccepted(addr, pages)
  /\ UNCHANGED vars

Next ==
  \/ \E m \in Maps : pmm_init(m)
  \/ \E req \in Requests : pmm_alloc(req) \/ pmm_alloc_fails(req)
  \/ \E addr \in FreeAddrs, pages \in FreePages :
       pmm_free(addr, pages) \/ pmm_free_fails(addr, pages)

Spec == Init /\ [][Next]_vars

-----------------------------------------------------------------------------
(* Shapes of the state.                                                    *)
TypeOK ==
  /\ map \in Maps \cup {{}}
  /\ total_frames \in 0 .. MaxFrames
  /\ bm \subseteq 0 .. (total_frames - 1)
  /\ free_frames \in 0 .. MaxFrames
  /\ held \in [AllFrames -> Nat]

(* The counter pmm.free_frames, updated separately from the bitmap in      *)
(* pmm_init, pmm_alloc and pmm_free, always equals the number of clear     *)
(* bits.                                                                   *)
FreeCountMatchesBitmap ==
  free_frames = Cardinality((0 .. (total_frames - 1)) \ bm)

(* No frame is handed out twice before it is given back, and a frame that  *)
(* is handed out has its bit set: pmm_alloc returns only free frames and   *)
(* pmm_free clears no frame somebody else holds.                           *)
NoFrameHandedOutTwice ==
  \A f \in AllFrames : held[f] <= 1 /\ (held[f] = 1 => f \in bm)

(* docs/kernel/mm/pmm.md: "Reserves critical space that must never be      *)
(* overwritten": no byte of low memory, of the kernel image or of the      *)
(* bitmap is ever in a frame that is free or handed out.                   *)
CriticalMemoryNeverHandedOut ==
  \A f \in 0 .. (total_frames - 1) :
    (f \notin bm \/ held[f] > 0) =>
      FrameBytes(f) \cap (0 .. (FirstMiB - 1)
                            \cup KernelStart .. (KernelEnd - 1)
                            \cup KernelEnd .. (BitmapEnd(total_frames) - 1)) = {}

(* Every frame that is free or handed out consists of RAM the firmware     *)
(* reported usable: pmm_init rounds the usable entries inwards.            *)
OnlyUsableMemoryHandedOut ==
  \A f \in 0 .. (total_frames - 1) :
    (f \notin bm \/ held[f] > 0) =>
      FrameBytes(f) \subseteq UNION {Bytes(e) : e \in Usable(map)}

(* No frame is lost: a set bit is either one pmm_init reserved or one that *)
(* some caller still holds.                                                *)
NoFrameLost ==
  map # {} => bm = InitBitmap(map) \cup {f \in AllFrames : held[f] > 0}

(* Whatever is allocated and freed, and however often it fails, the        *)
(* callers' frames, the bitmap and the counter tell the same story: each   *)
(* frame is free, reserved or held by one caller, and the counter has the  *)
(* number of the free ones.                                                *)
FramesAccountedFor ==
  TypeOK /\ FreeCountMatchesBitmap /\ NoFrameHandedOutTwice /\ NoFrameLost

(* What pmm_alloc may hand out is RAM the firmware reported usable and     *)
(* none of the memory that pmm_init has to protect: the roundings of its   *)
(* three reservations and of the map's entries leave no byte over.         *)
OnlySpareMemoryHandedOut ==
  CriticalMemoryNeverHandedOut /\ OnlyUsableMemoryHandedOut

-----------------------------------------------------------------------------
(* The PMM implements the abstract frame allocator: its clear bits are the *)
(* free frames, the frames held by callers are out.                        *)
Abstract == INSTANCE FrameAllocator WITH
  Frame <- AllFrames,
  free  <- (0 .. (total_frames - 1)) \ bm,
  out   <- {f \in AllFrames : held[f] > 0},
  open  <- map # {}

(* Every step of the PMM is a step of the abstract allocator: frames are   *)
(* handed out only when free and contiguous, and come back only from their *)
(* holder.                                                                 *)
ImplementsFrameAllocator == Abstract!ASpec
=============================================================================
