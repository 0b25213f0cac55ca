----------------------------- MODULE PMMProofs ------------------------------
(***************************************************************************)
(* The physical memory manager, for every frame size, memory map and       *)
(* sequence of calls: facts about frames, windows and runs; the invariants *)
(* of PMM and the proof that it implements the abstract frame allocator;   *)
(* and the loop of pmm_alloc (module PmmScan), which returns the lowest    *)
(* run that fits for every bitmap and every request.                       *)
(***************************************************************************)
EXTENDS PMM, PmmScan, BasicFacts

(* Division and multiplication by the frame size.                          *)
LEMMA DivFacts ==
  ASSUME NEW x \in Nat
  PROVE  /\ x \div FRAME_SIZE \in Nat
         /\ (x \div FRAME_SIZE) * FRAME_SIZE <= x
         /\ x < (x \div FRAME_SIZE) * FRAME_SIZE + FRAME_SIZE
         /\ (x * FRAME_SIZE) \div FRAME_SIZE = x
  <1>1. FRAME_SIZE \in Nat /\ FRAME_SIZE > 0
    BY FrameSizeAssumption
  <1>2. /\ x \div FRAME_SIZE \in Nat
        /\ (x \div FRAME_SIZE) * FRAME_SIZE <= x
        /\ x < (x \div FRAME_SIZE) * FRAME_SIZE + FRAME_SIZE
    BY <1>1, SMTT(30)
  <1>3. (x * FRAME_SIZE) \div FRAME_SIZE = x
    BY <1>1, SMTT(30)
  <1> QED
    BY <1>2, <1>3

(* The window of an allocation.                                            *)
LEMMA WindowTypes ==
  ASSUME NEW min \in Nat, NEW max \in Nat, NEW n \in Nat
  PROVE  /\ StartFrame(min) \in Nat
         /\ MaxFrame(max, n) \in Nat
         /\ MaxFrame(max, n) <= n
         /\ StartFrame(0) = 0
         /\ MaxFrame(0, n) = n
  <1>1. min + FRAME_SIZE - 1 \in Nat
    BY FrameSizeAssumption
  <1>2. ALIGN_UP(min) \div FRAME_SIZE = (min + FRAME_SIZE - 1) \div FRAME_SIZE
    BY <1>1, DivFacts DEF ALIGN_UP, ALIGN_DOWN
  <1>3. StartFrame(min) \in Nat
    BY <1>1, <1>2, DivFacts DEF StartFrame, pmm_addr_to_frame
  <1>4. max \div FRAME_SIZE \in Nat
    BY DivFacts
  <1> QED
    BY <1>3, <1>4 DEF StartFrame, MaxFrame, pmm_addr_to_frame

(* Marking a free run takes its length from the count of the clear bits,   *)
(* clearing a marked one gives it back.                                    *)
LEMMA RunCount ==
  ASSUME NEW first \in Nat, NEW pages \in Nat, pages # 0
  PROVE  /\ IsFiniteSet(Run(first, pages))
         /\ Cardinality(Run(first, pages)) = pages
         /\ Run(first, pages) # {}
  <1>1. /\ first + pages - 1 \in Int
        /\ first <= first + pages - 1
        /\ (first + pages - 1) - first + 1 = pages
    OBVIOUS
  <1>2. /\ IsFiniteSet(first .. (first + pages - 1))
        /\ Cardinality(first .. (first + pages - 1)) = pages
    BY <1>1, FS_Interval
  <1>3. first \in first .. (first + pages - 1)
    BY <1>1
  <1> QED
    BY <1>2, <1>3 DEF Run

-----------------------------------------------------------------------------
Frames == 0 .. (total_frames - 1)

Held == {f \in AllFrames : held[f] > 0}

(* What pmm_init reserved is never handed out; before pmm_init there are   *)
(* no frames at all.                                                       *)
ReservedNotHeld ==
  /\ map = {} => bm = {} /\ total_frames = 0 /\ Held = {}
  /\ map # {} => /\ total_frames = TotalFrames(map)
                 /\ Held \cap InitBitmap(map) = {}

PInv ==
  /\ TypeOK
  /\ FreeCountMatchesBitmap
  /\ NoFrameHandedOutTwice
  /\ NoFrameLost
  /\ ReservedNotHeld

LEMMA FramesFinite ==
  ASSUME NEW n \in Nat, NEW S \in SUBSET (0 .. (n - 1))
  PROVE  /\ IsFiniteSet(S)
         /\ Cardinality(S) \in 0 .. n
  <1>1. IsFiniteSet(0 .. (n - 1)) /\ Cardinality(0 .. (n - 1)) = n
    BY FS_Interval
  <1>2. IsFiniteSet(S) /\ Cardinality(S) <= Cardinality(0 .. (n - 1))
    BY <1>1, FS_Subset
  <1>3. Cardinality(S) \in Nat
    BY <1>2, FS_CardinalityType
  <1> QED
    BY <1>1, <1>2, <1>3

(* The run that pmm_alloc picks lies in the managed frames and is free.    *)
LEMMA ChosenRun ==
  ASSUME NEW marked, NEW n \in Nat,
         NEW r \in [min : Nat, max : Nat, pages : Nat, policy : Policies],
         r.pages # 0, Candidates(marked, n, r) # {}
  PROVE  LET first == Min(Candidates(marked, n, r))
         IN  /\ first \in Nat
             /\ Run(first, r.pages) \subseteq (0 .. (n - 1)) \ marked
             /\ first + r.pages <= n
  <1> DEFINE first == Min(Candidates(marked, n, r))
             lo == StartFrame(r.min)
             hi == MaxFrame(r.max, n)
  <1>1. lo \in Nat /\ hi \in Nat /\ hi <= n /\ r.pages \in Nat
    BY WindowTypes
  <1>2. \A f \in Candidates(marked, n, r) :
           f \in Nat /\ f + r.pages <= n /\ Run(f, r.pages) \cap marked = {}
    BY <1>1 DEF Candidates, Fits
  <1>3. first \in Candidates(marked, n, r)
    BY <1>2, MinIsLeast
  <1>4. first \in Nat /\ first + r.pages <= n /\ Run(first, r.pages) \cap marked = {}
    BY <1>2, <1>3
  <1>5. Run(first, r.pages) \subseteq 0 .. (n - 1)
    BY <1>1, <1>4 DEF Run
  <1> QED
    BY <1>4, <1>5

LEMMA InitHolds == Init => PInv
  <1> SUFFICES ASSUME Init PROVE PInv
    OBVIOUS
  <1>1. Frames = {} /\ Cardinality(Frames \ bm) = 0
    BY FS_EmptySet DEF Init, Frames
  <1>2. TypeOK
    BY PmmAssumption DEF Init, TypeOK, AllFrames
  <1>3. Held = {}
    BY DEF Init, Held
  <1> QED
    BY <1>1, <1>2, <1>3 DEF Init, PInv, FreeCountMatchesBitmap, Frames,
       NoFrameHandedOutTwice, NoFrameLost, ReservedNotHeld

LEMMA PmmInitKeeps ==
  ASSUME PInv, NEW m \in Maps, pmm_init(m)
  PROVE  PInv'
  <1>1. /\ map = {} /\ map' = m /\ m # {} /\ total_frames' = TotalFrames(m)
        /\ bm' = InitBitmap(m) /\ held' = held
        /\ free_frames' = Cardinality((0 .. (total_frames' - 1)) \ bm')
    BY DEF pmm_init
  <1>2. total_frames' \in 0 .. MaxFrames
    BY <1>1, PmmAssumption
  <1>3. bm' \subseteq 0 .. (total_frames' - 1)
    BY <1>1 DEF InitBitmap, ForceReserved
  <1>4. Cardinality((0 .. (total_frames' - 1)) \ bm') \in 0 .. total_frames'
    BY <1>2, PmmAssumption, FramesFinite
  <1>5. free_frames' \in 0 .. MaxFrames
    BY <1>1, <1>2, <1>4, PmmAssumption
  <1>6. Held = {} /\ Held' = Held
    BY <1>1 DEF PInv, ReservedNotHeld, Held
  <1>7. \A f \in AllFrames : held[f] = 0
    BY <1>6 DEF Held, PInv, TypeOK
  <1>8. TypeOK'
    BY <1>1, <1>2, <1>3, <1>5 DEF PInv, TypeOK
  <1>9. NoFrameHandedOutTwice'
    BY <1>1, <1>7 DEF NoFrameHandedOutTwice
  <1>10. NoFrameLost' /\ ReservedNotHeld'
    BY <1>1, <1>6 DEF NoFrameLost, ReservedNotHeld, Held
  <1> QED
    BY <1>1, <1>8, <1>9, <1>10 DEF PInv, FreeCountMatchesBitmap

LEMMA PmmAllocKeeps ==
  ASSUME PInv, NEW r \in Requests, pmm_alloc(r)
  PROVE  PInv'
  <1> DEFINE first == Min(Candidates(bm, total_frames, r))
             run == Run(first, r.pages)
             free == Frames \ bm
             rest == Frames \ bm'
  <1>1. /\ r.pages # 0 /\ Candidates(bm, total_frames, r) # {}
        /\ bm' = bm \cup run /\ free_frames' = free_frames - r.pages
        /\ held' = [f \in AllFrames |-> IF f \in run THEN held[f] + 1 ELSE held[f]]
        /\ map' = map /\ total_frames' = total_frames
    BY DEF pmm_alloc
  <1>2. /\ total_frames \in Nat /\ total_frames <= MaxFrames /\ MaxFrames \in Nat
        /\ bm \subseteq Frames /\ held \in [AllFrames -> Nat]
        /\ r \in [min : Nat, max : Nat, pages : Nat, policy : Policies]
    BY PmmAssumption, RequestsAssumption DEF PInv, TypeOK, Frames
  <1>3. first \in Nat /\ run \subseteq free
    BY <1>1, <1>2, ChosenRun DEF Frames
  <1>4. Cardinality(run) = r.pages
    BY <1>1, <1>2, <1>3, RunCount
  <1> HIDE DEF first
  <1>5. map # {}
    <2>1. run # {}
      BY <1>1, <1>2, <1>3, RunCount
    <2> QED
      BY <1>2, <1>3, <2>1 DEF PInv, ReservedNotHeld, Frames
  <1>6. Frames \subseteq AllFrames
    BY <1>2 DEF Frames, AllFrames
  <1>7. IsFiniteSet(free) /\ Cardinality(free) \in Nat /\ Cardinality(rest) \in 0 .. total_frames
    BY <1>2, FramesFinite DEF Frames
  <1>8. rest = free \ run
    BY <1>1
  <1> HIDE DEF run, free, rest
  <1>9. Cardinality(rest) = Cardinality(free) - Cardinality(run)
    BY <1>3, <1>7, <1>8, MarkRun
  <1>10. free_frames' = Cardinality(rest)
    BY <1>1, <1>4, <1>9 DEF PInv, FreeCountMatchesBitmap, free, Frames
  <1>11. FreeCountMatchesBitmap'
    BY <1>1, <1>10 DEF FreeCountMatchesBitmap, rest, Frames
  <1>12. TypeOK'
    <2>1. held' \in [AllFrames -> Nat]
      BY <1>1, <1>2
    <2>2. bm' \subseteq Frames
      BY <1>1, <1>2, <1>3 DEF free
    <2>3. free_frames' \in 0 .. MaxFrames
      BY <1>2, <1>7, <1>10
    <2> QED
      BY <1>1, <2>1, <2>2, <2>3 DEF PInv, TypeOK, Frames
  <1>13. \A f \in run : f \in AllFrames /\ held[f] = 0
    BY <1>2, <1>3, <1>6 DEF PInv, NoFrameHandedOutTwice, free
  <1>14. NoFrameHandedOutTwice'
    BY <1>1, <1>2, <1>13 DEF PInv, NoFrameHandedOutTwice
  <1>15. Held' = Held \cup run
    BY <1>1, <1>2, <1>13 DEF Held
  <1>16. NoFrameLost'
    BY <1>1, <1>5, <1>15 DEF PInv, NoFrameLost, Held
  <1>17. run \cap InitBitmap(map) = {}
    BY <1>3, <1>5 DEF PInv, NoFrameLost, free
  <1>18. ReservedNotHeld'
    BY <1>1, <1>5, <1>15, <1>17 DEF PInv, ReservedNotHeld
  <1> QED
    BY <1>11, <1>12, <1>14, <1>16, <1>18 DEF PInv

LEMMA PmmFreeKeeps ==
  ASSUME PInv, NEW addr \in FreeAddrs, NEW pages \in FreePages, pmm_free(addr, pages)
  PROVE  PInv'
  <1> DEFINE first == pmm_addr_to_frame(addr)
             run == Run(first, pages)
             free == Frames \ bm
             all == Frames \ bm'
  <1>1. /\ FreeAccepted(addr, pages) /\ \A f \in run : held[f] > 0
        /\ bm' = bm \ run /\ free_frames' = free_frames + pages
        /\ held' = [f \in AllFrames |-> IF f \in run THEN held[f] - 1 ELSE held[f]]
        /\ map' = map /\ total_frames' = total_frames
    BY DEF pmm_free
  <1>2. /\ total_frames \in Nat /\ total_frames <= MaxFrames /\ MaxFrames \in Nat
        /\ bm \subseteq Frames /\ held \in [AllFrames -> Nat]
        /\ addr \in Nat /\ pages \in Nat
    BY PmmAssumption DEF PInv, TypeOK, Frames
  <1>3. first \in Nat /\ pages # 0 /\ run \subseteq bm
    BY <1>1, <1>2, DivFacts DEF FreeAccepted, pmm_validate_range, pmm_addr_to_frame
  <1> HIDE DEF first
  <1>4. Cardinality(run) = pages /\ IsFiniteSet(run) /\ run # {}
    BY <1>2, <1>3, RunCount
  <1> HIDE DEF run
  <1>5. Frames \subseteq AllFrames /\ map # {}
    <2>1. Frames \subseteq AllFrames
      BY <1>2 DEF Frames, AllFrames
    <2>2. bm # {}
      BY <1>3, <1>4
    <2> QED
      BY <2>1, <2>2 DEF PInv, ReservedNotHeld
  <1>6. all = free \cup run /\ free \cap run = {}
    BY <1>1, <1>2, <1>3
  <1>7. IsFiniteSet(free) /\ Cardinality(all) \in 0 .. total_frames
    BY <1>2, FramesFinite DEF Frames
  <1> HIDE DEF free, all
  <1>8. Cardinality(all) = Cardinality(free) + Cardinality(run)
    BY <1>4, <1>6, <1>7, ClearRun
  <1>9. free_frames' = Cardinality(all)
    BY <1>1, <1>4, <1>8 DEF PInv, FreeCountMatchesBitmap, free, Frames
  <1>10. FreeCountMatchesBitmap'
    BY <1>1, <1>9 DEF FreeCountMatchesBitmap, all, Frames
  <1>11. \A f \in run : f \in AllFrames /\ held[f] = 1
    BY <1>1, <1>2, <1>3, <1>5 DEF PInv, NoFrameHandedOutTwice
  <1>12. TypeOK'
    <2>1. held' \in [AllFrames -> Nat]
      BY <1>1, <1>2, <1>11
    <2>2. free_frames' \in 0 .. MaxFrames
      BY <1>2, <1>7, <1>9
    <2> QED
      BY <1>1, <2>1, <2>2 DEF PInv, TypeOK, Frames
  <1>13. NoFrameHandedOutTwice'
    BY <1>1, <1>2, <1>11 DEF PInv, NoFrameHandedOutTwice
  <1>14. Held' = Held \ run
    BY <1>1, <1>2, <1>11 DEF Held
  <1>15. run \subseteq Held
    BY <1>11 DEF Held
  <1>16. NoFrameLost'
    BY <1>1, <1>5, <1>14, <1>15 DEF PInv, NoFrameLost, ReservedNotHeld, Held
  <1>17. ReservedNotHeld'
    BY <1>1, <1>5, <1>14 DEF PInv, ReservedNotHeld
  <1> QED
    BY <1>10, <1>12, <1>13, <1>16, <1>17 DEF PInv

LEMMA PmmStep == PInv /\ [Next]_vars => PInv'
  <1> SUFFICES ASSUME PInv, [Next]_vars PROVE PInv'
    OBVIOUS
  <1>1. CASE UNCHANGED vars
    BY <1>1 DEF vars, PInv, TypeOK, FreeCountMatchesBitmap, NoFrameHandedOutTwice,
                NoFrameLost, ReservedNotHeld, Held
  <1>2. CASE Next
    BY <1>1, <1>2, PmmInitKeeps, PmmAllocKeeps, PmmFreeKeeps
       DEF Next, pmm_alloc_fails, pmm_free_fails
  <1> QED
    BY <1>1, <1>2

(* After every call of pmm_init, pmm_alloc and pmm_free each frame is      *)
(* free, reserved or held by one caller, and pmm.free_frames is the number *)
(* of clear bits, for every frame size, memory map and sequence of calls.  *)
THEOREM FramesAccounted == Spec => []FramesAccountedFor
  <1>1. PInv => FramesAccountedFor
    BY DEF PInv, FramesAccountedFor
  <1> QED
    BY <1>1, InitHolds, PmmStep, PTL DEF Spec

-----------------------------------------------------------------------------
(* A byte of [lo, hi) is in one of the frames that pmm_init computes for   *)
(* that range by rounding lo down and hi up.                               *)
LEMMA FrameOfByte ==
  ASSUME NEW f \in Nat, NEW b \in FrameBytes(f),
         NEW lo \in Nat, NEW hi \in Nat, lo <= b, b < hi
  PROVE  f \in FramesOf(lo, hi)
  <1> DEFINE q == lo \div FRAME_SIZE
             h == (hi + FRAME_SIZE - 1) \div FRAME_SIZE
  <1>1. FRAME_SIZE \in Nat /\ FRAME_SIZE > 0
    BY FrameSizeAssumption
  <1>2. /\ q \in Nat /\ q * FRAME_SIZE <= lo
        /\ (q * FRAME_SIZE) \div FRAME_SIZE = q
    BY DivFacts
  <1>3. hi + FRAME_SIZE - 1 \in Nat
    BY <1>1
  <1>4. h \in Nat /\ hi + FRAME_SIZE - 1 < h * FRAME_SIZE + FRAME_SIZE
    BY <1>3, DivFacts
  <1>5. (h * FRAME_SIZE) \div FRAME_SIZE = h
    BY <1>4, DivFacts
  <1>6. FramesOf(lo, hi) = q .. (h - 1)
    BY <1>2, <1>5 DEF FramesOf, pmm_addr_to_frame, ALIGN_UP, ALIGN_DOWN
  <1> HIDE DEF q, h
  <1>7. /\ b \in Int /\ f * FRAME_SIZE <= b /\ b < (f + 1) * FRAME_SIZE
        /\ f * FRAME_SIZE \in Nat /\ (f + 1) * FRAME_SIZE \in Nat
    BY <1>1 DEF FrameBytes, pmm_frame_to_addr
  <1>8. q * FRAME_SIZE \in Nat /\ h * FRAME_SIZE \in Nat
    BY <1>1, <1>2, <1>4
  <1>9. q * FRAME_SIZE < (f + 1) * FRAME_SIZE /\ f * FRAME_SIZE < h * FRAME_SIZE
    BY <1>1, <1>2, <1>4, <1>7, <1>8
  <1>10. \A x, y \in Nat : x * FRAME_SIZE < y * FRAME_SIZE => x < y
    BY <1>1, SMTT(30)
  <1>11. q < f + 1 /\ f < h
    BY <1>2, <1>4, <1>9, <1>10
  <1> QED
    BY <1>2, <1>4, <1>6, <1>11

(* The first MiB, the kernel image and the bitmap behind it are never      *)
(* given to anybody: pmm_init reserves every frame they touch.             *)
THEOREM CriticalMemorySafe == Spec => []CriticalMemoryNeverHandedOut
  <1>1. PInv => CriticalMemoryNeverHandedOut
    <2> SUFFICES ASSUME PInv, NEW f \in 0 .. (total_frames - 1),
                        f \notin bm \/ held[f] > 0,
                        NEW b \in FrameBytes(f),
                        \/ b \in 0 .. (FirstMiB - 1)
                        \/ b \in KernelStart .. (KernelEnd - 1)
                        \/ b \in KernelEnd .. (BitmapEnd(total_frames) - 1)
                 PROVE  FALSE
      BY DEF CriticalMemoryNeverHandedOut
    <2>1. total_frames \in Nat /\ f \in Nat /\ f \in AllFrames
      BY PmmAssumption DEF PInv, TypeOK, AllFrames
    <2>2. /\ map # {} /\ total_frames = TotalFrames(map)
          /\ f \notin InitBitmap(map)
      BY <2>1 DEF PInv, ReservedNotHeld, NoFrameLost, Held
    <2>3. f \notin ForceReserved(total_frames)
      BY <2>2 DEF InitBitmap
    <2>4. /\ FirstMiB \in Nat /\ KernelStart \in Nat /\ KernelEnd \in Nat
          /\ BitmapEnd(total_frames) \in Nat
      BY <2>1, PmmAssumption DEF BitmapEnd
    <2>5. CASE b \in KernelStart .. (KernelEnd - 1)
      BY <2>1, <2>3, <2>4, <2>5, FrameOfByte DEF ForceReserved
    <2>6. CASE b \in KernelEnd .. (BitmapEnd(total_frames) - 1)
      BY <2>1, <2>3, <2>4, <2>6, FrameOfByte DEF ForceReserved
    <2>7. CASE b \in 0 .. (FirstMiB - 1)
      <3> DEFINE k == FirstMiB \div FRAME_SIZE
      <3>1. FirstMiB = k * FRAME_SIZE /\ k \in Nat
        BY PmmAssumption, FrameSizeAssumption, SMTT(30)
      <3>2. f * FRAME_SIZE <= b /\ f * FRAME_SIZE \in Nat /\ b \in Int
        BY <2>1, FrameSizeAssumption DEF FrameBytes, pmm_frame_to_addr
      <3> HIDE DEF k
      <3>3. f * FRAME_SIZE < k * FRAME_SIZE
        BY <2>4, <2>7, <3>1, <3>2
      <3>4. \A x, y \in Nat : x * FRAME_SIZE < y * FRAME_SIZE => x < y
        BY FrameSizeAssumption, SMTT(30)
      <3>5. f < k
        BY <2>1, <3>1, <3>3, <3>4
      <3>6. f \in 0 .. ((FirstMiB \div FRAME_SIZE) - 1)
        BY <2>1, <3>1, <3>5 DEF k
      <3> QED
        BY <2>1, <2>3, <3>6 DEF ForceReserved
    <2> QED
      BY <2>5, <2>6, <2>7
  <1> QED
    BY <1>1, InitHolds, PmmStep, PTL DEF Spec

(* A frame number between the rounded ends of [base, base + length) covers *)
(* only bytes of that range.                                               *)
LEMMA FrameInside ==
  ASSUME NEW base \in Nat, NEW end \in Nat, NEW f \in Nat,
         f \in pmm_addr_to_frame(ALIGN_UP(base)) ..
                 (pmm_addr_to_frame(ALIGN_DOWN(end)) - 1)
  PROVE  FrameBytes(f) \subseteq base .. (end - 1)
  <1> DEFINE q == (base + FRAME_SIZE - 1) \div FRAME_SIZE
             h == end \div FRAME_SIZE
  <1>1. FRAME_SIZE \in Nat /\ FRAME_SIZE > 0
    BY FrameSizeAssumption
  <1>2. base + FRAME_SIZE - 1 \in Nat
    BY <1>1
  <1>3. q \in Nat /\ base + FRAME_SIZE - 1 < q * FRAME_SIZE + FRAME_SIZE
    BY <1>2, DivFacts
  <1>4. /\ h \in Nat /\ h * FRAME_SIZE <= end
        /\ (h * FRAME_SIZE) \div FRAME_SIZE = h
    BY DivFacts
  <1>5. (q * FRAME_SIZE) \div FRAME_SIZE = q
    BY <1>3, DivFacts
  <1>6. q <= f /\ f + 1 <= h
    BY <1>3, <1>4, <1>5 DEF pmm_addr_to_frame, ALIGN_UP, ALIGN_DOWN
  <1> HIDE DEF q, h
  <1>7. \A x, y \in Nat : x <= y => x * FRAME_SIZE <= y * FRAME_SIZE
    BY <1>1, SMTT(30)
  <1>8. q * FRAME_SIZE <= f * FRAME_SIZE /\ (f + 1) * FRAME_SIZE <= h * FRAME_SIZE
    BY <1>3, <1>4, <1>6, <1>7
  <1>9. /\ q * FRAME_SIZE \in Nat /\ f * FRAME_SIZE \in Nat
        /\ (f + 1) * FRAME_SIZE \in Nat /\ h * FRAME_SIZE \in Nat
    BY <1>1, <1>3, <1>4
  <1>10. base <= f * FRAME_SIZE /\ (f + 1) * FRAME_SIZE <= end
    BY <1>1, <1>3, <1>4, <1>8, <1>9
  <1> QED
    BY <1>9, <1>10 DEF FrameBytes, pmm_frame_to_addr

(* Every frame that is free or handed out is RAM the firmware called       *)
(* usable: pmm_init rounds each usable entry inwards.                      *)
THEOREM OnlyUsable == Spec => []OnlyUsableMemoryHandedOut
  <1>1. PInv => OnlyUsableMemoryHandedOut
    <2> SUFFICES ASSUME PInv, NEW f \in 0 .. (total_frames - 1),
                        f \notin bm \/ held[f] > 0
                 PROVE  FrameBytes(f) \subseteq UNION {Bytes(e) : e \in Usable(map)}
      BY DEF OnlyUsableMemoryHandedOut
    <2>1. total_frames \in Nat /\ f \in Nat /\ f \in AllFrames
      BY PmmAssumption DEF PInv, TypeOK, AllFrames
    <2>2. /\ map # {} /\ total_frames = TotalFrames(map)
          /\ f \notin InitBitmap(map)
      BY <2>1 DEF PInv, ReservedNotHeld, NoFrameLost, Held
    <2>3. f \in UsableFrames(map)
      BY <2>2 DEF InitBitmap
    <2>4. PICK e \in Usable(map) :
            f \in pmm_addr_to_frame(ALIGN_UP(e.base)) ..
                    (pmm_addr_to_frame(ALIGN_DOWN(e.base + e.length)) - 1)
      BY <2>3 DEF UsableFrames
    <2>5. e.base \in Nat /\ e.length \in Nat /\ e.base + e.length \in Nat
      BY <2>2, PmmAssumption DEF PInv, TypeOK, Usable
    <2>6. FrameBytes(f) \subseteq Bytes(e)
      BY <2>1, <2>4, <2>5, FrameInside DEF Bytes
    <2> QED
      BY <2>6
  <1> QED
    BY <1>1, InitHolds, PmmStep, PTL DEF Spec

(* pmm_init leaves to pmm_alloc only whole frames of usable RAM, none of   *)
(* which holds a byte of low memory, the kernel image or the bitmap.       *)
THEOREM OnlySpareMemory == Spec => []OnlySpareMemoryHandedOut
  BY CriticalMemorySafe, OnlyUsable, PTL DEF OnlySpareMemoryHandedOut

-----------------------------------------------------------------------------
LEMMA AllocRefines ==
  ASSUME PInv, NEW r \in Requests, pmm_alloc(r)
  PROVE  Abstract!ANext
  <1> DEFINE first == Min(Candidates(bm, total_frames, r))
             last == first + r.pages - 1
             run == Run(first, r.pages)
  <1>1. /\ r.pages # 0 /\ Candidates(bm, total_frames, r) # {}
        /\ bm' = bm \cup run
        /\ held' = [f \in AllFrames |-> IF f \in run THEN held[f] + 1 ELSE held[f]]
        /\ map' = map /\ total_frames' = total_frames
    BY DEF pmm_alloc
  <1>2. /\ total_frames \in Nat /\ total_frames <= MaxFrames /\ MaxFrames \in Nat
        /\ bm \subseteq Frames /\ held \in [AllFrames -> Nat]
        /\ r \in [min : Nat, max : Nat, pages : Nat, policy : Policies]
    BY PmmAssumption, RequestsAssumption DEF PInv, TypeOK, Frames
  <1>3. first \in Nat /\ run \subseteq Frames \ bm
    BY <1>1, <1>2, ChosenRun DEF Frames
  <1>4. run = first .. last /\ first \in run /\ last \in run
    BY <1>1, <1>2, <1>3 DEF Run
  <1> HIDE DEF first, last, run
  <1>5. first \in AllFrames /\ last \in AllFrames /\ run \subseteq AllFrames
    BY <1>2, <1>3, <1>4 DEF Frames, AllFrames
  <1>6. {f \in AllFrames : held'[f] > 0} = {f \in AllFrames : held[f] > 0} \cup run
    BY <1>1, <1>2, <1>5
  <1>7. PICK lo \in AllFrames, hi \in AllFrames : lo = first /\ hi = last
    BY <1>5
  <1>8. Abstract!Alloc(lo .. hi)
    BY <1>1, <1>3, <1>4, <1>6, <1>7 DEF Abstract!Alloc, Frames
  <1> QED
    BY <1>8 DEF Abstract!ANext

LEMMA FreeRefines ==
  ASSUME PInv, NEW addr \in FreeAddrs, NEW pages \in FreePages, pmm_free(addr, pages)
  PROVE  Abstract!ANext
  <1> DEFINE first == pmm_addr_to_frame(addr)
             last == first + pages - 1
             run == Run(first, pages)
  <1>1. /\ FreeAccepted(addr, pages) /\ \A f \in run : held[f] > 0
        /\ bm' = bm \ run
        /\ held' = [f \in AllFrames |-> IF f \in run THEN held[f] - 1 ELSE held[f]]
        /\ map' = map /\ total_frames' = total_frames
    BY DEF pmm_free
  <1>2. /\ total_frames \in Nat /\ total_frames <= MaxFrames /\ MaxFrames \in Nat
        /\ bm \subseteq Frames /\ held \in [AllFrames -> Nat]
        /\ addr \in Nat /\ pages \in Nat
    BY PmmAssumption DEF PInv, TypeOK, Frames
  <1>3. first \in Nat /\ pages # 0 /\ run \subseteq bm
    BY <1>1, <1>2, DivFacts DEF FreeAccepted, pmm_validate_range, pmm_addr_to_frame
  <1> HIDE DEF first
  <1>4. run = first .. last /\ first \in run /\ last \in run
    BY <1>2, <1>3 DEF Run
  <1> HIDE DEF last, run
  <1>5. first \in AllFrames /\ last \in AllFrames /\ run \subseteq AllFrames
    BY <1>2, <1>3, <1>4 DEF Frames, AllFrames
  <1>6. \A f \in run : held[f] = 1
    BY <1>1, <1>2, <1>5 DEF PInv, NoFrameHandedOutTwice
  <1>7. {f \in AllFrames : held'[f] > 0} = {f \in AllFrames : held[f] > 0} \ run
    BY <1>1, <1>2, <1>6
  <1>8. /\ Frames \ bm' = (Frames \ bm) \cup run
        /\ run \subseteq {f \in AllFrames : held[f] > 0}
    BY <1>1, <1>2, <1>3, <1>5
  <1>9. Abstract!Release(first .. last)
    BY <1>1, <1>4, <1>7, <1>8 DEF Abstract!Release, Frames
  <1> QED
    BY <1>5, <1>9 DEF Abstract!ANext

LEMMA InitRefines ==
  ASSUME PInv, NEW m \in Maps, pmm_init(m)
  PROVE  Abstract!ANext
  <1>1. /\ map = {} /\ map' = m /\ m # {} /\ total_frames' = TotalFrames(m)
        /\ held' = held
    BY DEF pmm_init
  <1>2. TotalFrames(m) \in 0 .. MaxFrames /\ MaxFrames \in Nat
    BY PmmAssumption
  <1>3. (0 .. (total_frames' - 1)) \ bm' \in SUBSET AllFrames
    BY <1>1, <1>2 DEF AllFrames
  <1> QED
    BY <1>1, <1>3 DEF Abstract!ANext, Abstract!Open

(* Every step of the PMM is a step of the abstract frame allocator or      *)
(* leaves its state alone.                                                 *)
THEOREM Implements == Spec => ImplementsFrameAllocator
  <1>1. Init => Abstract!AInit
    BY DEF Init, Abstract!AInit
  <1>2. PInv /\ [Next]_vars => [Abstract!ANext]_Abstract!avars
    <2> SUFFICES ASSUME PInv, [Next]_vars PROVE [Abstract!ANext]_Abstract!avars
      OBVIOUS
    <2>1. CASE UNCHANGED vars
      BY <2>1 DEF vars, Abstract!avars
    <2>2. CASE Next
      BY <2>1, <2>2, InitRefines, AllocRefines, FreeRefines
         DEF Next, pmm_alloc_fails, pmm_free_fails
    <2> QED
      BY <2>1, <2>2
  <1> QED
    BY <1>1, <1>2, InitHolds, PmmStep, PTL
       DEF Spec, ImplementsFrameAllocator, Abstract!ASpec

-----------------------------------------------------------------------------
(* What holds at the head of the loop: the count is the length of the free *)
(* run that ends just before i, and no run of the wanted length lies       *)
(* wholly before i.                                                        *)
LoopInv ==
  LET start == StartFrame(req.min)
  IN  /\ req.pages # 0
      /\ start <= i
      /\ consecutive < req.pages
      /\ consecutive <= i - start
      /\ \A f \in (i - consecutive) .. (i - 1) : f \notin bits
      /\ consecutive = i - start \/ (i - consecutive - 1) \in bits
      /\ \A f \in start .. (i - req.pages) : Run(f, req.pages) \cap bits # {}

(* The current activation is the call itself, or its second try after the  *)
(* window of the call had no run.                                          *)
Activation ==
  \/ req = call
  \/ /\ call.policy = FALLBACK
     /\ call.pages # 0
     /\ Fits(bits0, StartFrame(call.min), MaxFrame(call.max, total), call.pages) = {}
     /\ req = [min |-> 0, max |-> 0, pages |-> call.pages, policy |-> STRICT]

ScanInv ==
  /\ ScanTypeOK
  /\ pc # "done" => bits = bits0 /\ Activation
  /\ pc = "scan" => LoopInv
  /\ ReturnsLowestFit

LEMMA FreeCountType ==
  ASSUME NEW S \in SUBSET ScanFrames
  PROVE  /\ IsFiniteSet(S) /\ IsFiniteSet(ScanFrames \ S)
         /\ Cardinality(ScanFrames \ S) \in Nat
  <1>1. IsFiniteSet(ScanFrames)
    BY ScanAssumption, FS_Interval DEF ScanFrames
  <1>2. IsFiniteSet(S) /\ IsFiniteSet(ScanFrames \ S)
    BY <1>1, FS_Subset
  <1> QED
    BY <1>2, FS_CardinalityType

LEMMA ScanTypeInit == ScanInit => ScanTypeOK
  BY ScanAssumption, RequestsAssumption, FreeCountType DEF ScanInit, ScanTypeOK

-----------------------------------------------------------------------------
(* The window of the current activation.                                   *)
OwnFits ==
  Fits(bits, StartFrame(req.min), MaxFrame(req.max, total), req.pages)

(* At the end of the window no run fits: every start was ruled out.        *)
LEMMA NoneFits ==
  ASSUME ScanTypeOK, LoopInv, ~InWindow
  PROVE  OwnFits = {}
  <1> DEFINE start == StartFrame(req.min)
             max == MaxFrame(req.max, total)
  <1>1. start \in Nat /\ max \in Nat
    BY WindowTypes, ScanAssumption DEF ScanTypeOK
  <1>2. i >= max /\ i \in Nat /\ req.pages \in Nat
    BY <1>1 DEF InWindow, ScanTypeOK
  <1>3. \A f \in start .. (max - req.pages) : Run(f, req.pages) \cap bits # {}
    <2> SUFFICES ASSUME NEW f \in start .. (max - req.pages)
                 PROVE  Run(f, req.pages) \cap bits # {}
      OBVIOUS
    <2>1. f \in start .. (i - req.pages)
      BY <1>1, <1>2
    <2> QED
      BY <2>1 DEF LoopInv
  <1> QED
    BY <1>3 DEF OwnFits, Fits

(* When the count reaches pages, the run that ends in i is the lowest one  *)
(* that fits.                                                              *)
LEMMA FoundIsLowest ==
  ASSUME ScanTypeOK, LoopInv, InWindow, i \notin bits, consecutive + 1 = req.pages
  PROVE  /\ i - req.pages + 1 \in Nat
         /\ Run(i - req.pages + 1, req.pages) \subseteq ScanFrames \ bits
         /\ OwnFits # {}
         /\ Min(OwnFits) = i - req.pages + 1
  <1> DEFINE start == StartFrame(req.min)
             max == MaxFrame(req.max, total)
             first == i - req.pages + 1
  <1>1. start \in Nat /\ max \in Nat /\ max <= total /\ total \in Nat
    BY WindowTypes, ScanAssumption DEF ScanTypeOK
  <1>2. /\ i \in Nat /\ req.pages \in Nat /\ consecutive \in Nat /\ i < max
        /\ first = i - consecutive
    BY DEF InWindow, ScanTypeOK
  <1>3. start <= first /\ first \in Nat
    BY <1>1, <1>2 DEF LoopInv
  <1>4. Run(first, req.pages) = first .. i
    BY <1>2, <1>3 DEF Run
  <1>5. \A f \in first .. i : f \notin bits
    <2> SUFFICES ASSUME NEW f \in first .. i, f # i PROVE f \notin bits
      OBVIOUS
    <2>1. f \in (i - consecutive) .. (i - 1)
      BY <1>2, <1>3
    <2> QED
      BY <2>1 DEF LoopInv
  <1>6. first .. i \subseteq ScanFrames
    BY <1>1, <1>2, <1>3 DEF ScanFrames
  <1>7. first \in OwnFits
    BY <1>1, <1>2, <1>3, <1>4, <1>5 DEF OwnFits, Fits
  <1>8. \A f \in OwnFits : first <= f
    <2> SUFFICES ASSUME NEW f \in OwnFits, f < first PROVE FALSE
      BY <1>1, <1>2, <1>3 DEF OwnFits, Fits
    <2>1. f \in start .. (i - req.pages)
      BY <1>1, <1>2, <1>3 DEF OwnFits, Fits
    <2> QED
      BY <2>1 DEF LoopInv, OwnFits, Fits
  <1>9. OwnFits \in SUBSET Int
    BY <1>1 DEF OwnFits, Fits
  <1>10. Min(OwnFits) = first
    BY <1>7, <1>8, <1>9, LeastIsMin
  <1> QED
    BY <1>3, <1>4, <1>5, <1>6, <1>7, <1>10

(* The starts the call may return are the ones in the current window,      *)
(* unless that is empty and a second try is still to come.                 *)
LEMMA CandidatesAreOwn ==
  ASSUME ScanTypeOK, bits = bits0, Activation, OwnFits # {} \/ req.policy = STRICT
  PROVE  Candidates(bits0, total, call) = OwnFits /\ req.pages = call.pages
  <1>1. CASE req = call
    <2>1. ~(OwnFits = {} /\ call.policy = FALLBACK)
      BY <1>1 DEF STRICT, FALLBACK
    <2>2. Candidates(bits0, total, call) = OwnFits
      BY <1>1, <2>1 DEF Candidates, OwnFits
    <2> QED
      BY <1>1, <2>2
  <1>2. CASE /\ call.policy = FALLBACK
             /\ Fits(bits0, StartFrame(call.min), MaxFrame(call.max, total),
                     call.pages) = {}
             /\ req = [min |-> 0, max |-> 0, pages |-> call.pages,
                       policy |-> STRICT]
    <2>1. StartFrame(0) = 0 /\ MaxFrame(0, total) = total
      BY WindowTypes, ScanAssumption
    <2>2. OwnFits = Fits(bits0, 0, total, call.pages)
      BY <1>2, <2>1 DEF OwnFits
    <2>3. Candidates(bits0, total, call) = Fits(bits0, 0, total, call.pages)
      BY <1>2 DEF Candidates
    <2> QED
      BY <1>2, <2>2, <2>3
  <1> QED
    BY <1>1, <1>2 DEF Activation

-----------------------------------------------------------------------------
LEMMA ScanInitHolds == ScanInit => ScanInv
  BY ScanTypeInit DEF ScanInit, ScanInv, Activation, ReturnsLowestFit

(* Every step of the call keeps the invariant.                             *)
LEMMA ScanStep == ScanInv /\ [ScanNext]_scan_vars => ScanInv'
  <1> SUFFICES ASSUME ScanInv, [ScanNext]_scan_vars PROVE ScanInv'
    OBVIOUS
  <1>0. ScanTypeOK
    BY DEF ScanInv
  <1>1. CASE Enter
    <2>1. StartFrame(req.min) \in Nat
      BY <1>0, WindowTypes, ScanAssumption DEF ScanTypeOK
    <2>2. ScanTypeOK'
      BY <1>0, <1>1, <2>1 DEF ScanTypeOK, Enter, Return
    <2>3. bits = bits0 /\ Activation /\ UNCHANGED <<req, call, bits, bits0>>
      BY <1>1 DEF ScanInv, Enter
    <2>4. Activation'
      BY <2>3 DEF Activation
    <2>5. CASE req.pages = 0
      <3>1. call.pages = 0 /\ pc' = "done" /\ ret' = "INVAL"
        BY <1>1, <2>3, <2>5 DEF Enter, Return, Activation
      <3> QED
        BY <2>2, <2>3, <3>1 DEF ScanInv, ReturnsLowestFit
    <2>6. CASE req.pages # 0
      <3>1. pc' = "scan" /\ i' = StartFrame(req.min) /\ consecutive' = 0
        BY <1>1, <2>6 DEF Enter
      <3>2. LoopInv'
        <4>1. \A f \in (i' - consecutive') .. (i' - 1) : f \notin bits'
          BY <2>1, <3>1
        <4>2. StartFrame(req.min)' .. (i' - req'.pages) = {}
          BY <1>0, <2>1, <2>3, <2>6, <3>1 DEF ScanTypeOK
        <4>3. StartFrame(req.min)' = i'
          BY <2>3, <3>1
        <4> QED
          BY <1>0, <2>1, <2>3, <2>6, <3>1, <4>1, <4>2, <4>3 DEF LoopInv, ScanTypeOK
      <3> QED
        BY <2>2, <2>3, <2>4, <3>1, <3>2 DEF ScanInv, ReturnsLowestFit
    <2> QED
      BY <2>5, <2>6
  <1>2. CASE ScanUsed
    <2>1. LoopInv /\ bits = bits0 /\ Activation
      BY <1>2 DEF ScanInv, ScanUsed
    <2>2. /\ pc' = "scan" /\ consecutive' = 0 /\ i' = i + 1 /\ i \in bits
          /\ UNCHANGED <<req, bits, call, bits0>>
      BY <1>2 DEF ScanUsed
    <2>3. ScanTypeOK'
      BY <1>0, <1>2 DEF ScanTypeOK, ScanUsed
    <2>4. LoopInv'
      <3> DEFINE start == StartFrame(req.min)
      <3>1. start \in Nat /\ i \in Nat /\ consecutive \in Nat /\ req.pages \in Nat
        BY <1>0, WindowTypes, ScanAssumption DEF ScanTypeOK
      <3>2. \A f \in start .. (i + 1 - req.pages) : Run(f, req.pages) \cap bits # {}
        <4> SUFFICES ASSUME NEW f \in start .. (i + 1 - req.pages),
                            f \notin start .. (i - req.pages)
                     PROVE  Run(f, req.pages) \cap bits # {}
          BY <2>1 DEF LoopInv
        <4>1. i \in Run(f, req.pages)
          BY <2>1, <3>1 DEF LoopInv, Run
        <4> QED
          BY <2>2, <4>1
      <3>3. StartFrame(req.min)' = start
        BY <2>2
      <3>4. \A f \in (i' - consecutive') .. (i' - 1) : f \notin bits'
        BY <2>2, <3>1
      <3>5. i' - consecutive' - 1 \in bits'
        BY <2>2, <3>1
      <3> QED
        BY <2>1, <2>2, <3>1, <3>2, <3>3, <3>4, <3>5 DEF LoopInv
    <2> QED
      BY <2>1, <2>2, <2>3, <2>4 DEF ScanInv, ReturnsLowestFit, Activation
  <1>3. CASE ScanFree
    <2>1. LoopInv /\ bits = bits0 /\ Activation
      BY <1>3 DEF ScanInv, ScanFree
    <2>2. /\ pc' = "scan" /\ consecutive' = consecutive + 1 /\ i' = i + 1
          /\ consecutive + 1 # req.pages /\ i \notin bits
          /\ UNCHANGED <<req, bits, call, bits0>>
      BY <1>3 DEF ScanFree
    <2>3. ScanTypeOK'
      BY <1>0, <1>3 DEF ScanTypeOK, ScanFree
    <2>4. LoopInv'
      <3> DEFINE start == StartFrame(req.min)
      <3>1. start \in Nat /\ i \in Nat /\ consecutive \in Nat /\ req.pages \in Nat
        BY <1>0, WindowTypes, ScanAssumption DEF ScanTypeOK
      <3>2. \A f \in start .. (i + 1 - req.pages) : Run(f, req.pages) \cap bits # {}
        \* a run that starts after the last set bit is still too short
        <4> SUFFICES ASSUME NEW f \in start .. (i + 1 - req.pages),
                            f \notin start .. (i - req.pages)
                     PROVE  Run(f, req.pages) \cap bits # {}
          BY <2>1 DEF LoopInv
        <4>1. f = i + 1 - req.pages
          BY <3>1
        <4>2. consecutive + 1 < req.pages
          BY <2>1, <2>2, <3>1 DEF LoopInv
        <4>3. i - consecutive - 1 \in bits
          BY <2>1, <3>1, <4>1, <4>2 DEF LoopInv
        <4>4. i - consecutive - 1 \in Run(f, req.pages)
          BY <3>1, <4>1, <4>2 DEF Run
        <4> QED
          BY <4>3, <4>4
      <3>3. StartFrame(req.min)' = start
        BY <2>2
      <3>4. \A f \in (i' - consecutive') .. (i' - 1) : f \notin bits'
        <4> SUFFICES ASSUME NEW f \in (i' - consecutive') .. (i' - 1), f # i
                     PROVE  f \notin bits'
          BY <2>2
        <4>1. f \in (i - consecutive) .. (i - 1)
          BY <2>2, <3>1
        <4> QED
          BY <2>1, <2>2, <4>1 DEF LoopInv
      <3>5. consecutive' = i' - start \/ i' - consecutive' - 1 \in bits'
        <4>1. i' - consecutive' - 1 = i - consecutive - 1
          BY <2>2, <3>1
        <4> QED
          BY <2>1, <2>2, <3>1, <4>1 DEF LoopInv
      <3> QED
        BY <2>1, <2>2, <3>1, <3>2, <3>3, <3>4, <3>5 DEF LoopInv
    <2> QED
      BY <2>1, <2>2, <2>3, <2>4 DEF ScanInv, ReturnsLowestFit, Activation
  <1>4. CASE ScanFound
    <2> DEFINE first == i - req.pages + 1
    <2>1. /\ LoopInv /\ bits = bits0 /\ Activation
          /\ InWindow /\ i \notin bits /\ consecutive + 1 = req.pages
      BY <1>4 DEF ScanInv, ScanFound
    <2>2. /\ pc' = "done" /\ ret' = "OK" /\ UNCHANGED <<req, i, call, bits0>>
          /\ bits' = bits \cup Run(first, req.pages)
          /\ out' = pmm_frame_to_addr(first)
      BY <1>4 DEF ScanFound, Return
    <2>3. /\ first \in Nat
          /\ Run(first, req.pages) \subseteq ScanFrames
          /\ OwnFits # {} /\ Min(OwnFits) = first
      BY <1>0, <2>1, FoundIsLowest
    <2>4. /\ Candidates(bits0, total, call) = OwnFits
          /\ req.pages = call.pages /\ call.pages # 0
      BY <1>0, <2>1, <2>3, CandidatesAreOwn DEF LoopInv
    <2>5. out' \in Nat
      BY <2>2, <2>3, FrameSizeAssumption DEF pmm_frame_to_addr
    <2>6. ScanTypeOK'
      BY <1>0, <1>4, <2>2, <2>3, <2>5 DEF ScanTypeOK, ScanFound
    <2>7. ReturnsLowestFit'
      BY <2>1, <2>2, <2>3, <2>4 DEF ReturnsLowestFit
    <2> QED
      BY <2>2, <2>6, <2>7 DEF ScanInv
  <1>5. CASE Retry
    <2>1. LoopInv /\ bits = bits0 /\ Activation /\ ~InWindow /\ req.policy = FALLBACK
      BY <1>5 DEF ScanInv, Retry
    <2>2. req = call
      BY <2>1 DEF Activation, STRICT, FALLBACK
    <2>3. ScanTypeOK'
      BY <1>0, <1>5 DEF ScanTypeOK, Retry, Policies
    <2>4. Fits(bits0, StartFrame(call.min), MaxFrame(call.max, total), call.pages) = {}
      BY <1>0, <2>1, <2>2, NoneFits DEF OwnFits
    <2>5. /\ pc' = "enter" /\ UNCHANGED <<bits, bits0, call>>
          /\ req' = [min |-> 0, max |-> 0, pages |-> call.pages, policy |-> STRICT]
      BY <1>5, <2>2 DEF Retry
    <2>6. Activation'
      BY <2>1, <2>2, <2>4, <2>5 DEF Activation, LoopInv
    <2> QED
      BY <2>1, <2>3, <2>5, <2>6 DEF ScanInv, ReturnsLowestFit
  <1>6. CASE GiveUp
    <2>1. LoopInv /\ bits = bits0 /\ Activation /\ ~InWindow /\ req.policy = STRICT
      BY <1>6 DEF ScanInv, GiveUp
    <2>2. /\ Candidates(bits0, total, call) = {}
          /\ req.pages = call.pages /\ call.pages # 0
      BY <1>0, <2>1, NoneFits, CandidatesAreOwn DEF LoopInv
    <2>3. ScanTypeOK'
      BY <1>0, <1>6 DEF ScanTypeOK, GiveUp, Return
    <2>4. /\ pc' = "done" /\ ret' = "NOMEM" /\ UNCHANGED <<bits, bits0, call>>
      BY <1>6 DEF GiveUp, Return
    <2> QED
      BY <2>1, <2>2, <2>3, <2>4 DEF ScanInv, ReturnsLowestFit
  <1>7. CASE UNCHANGED scan_vars
    BY <1>7 DEF scan_vars, ScanInv, ScanTypeOK, Activation, LoopInv, ReturnsLowestFit
  <1> QED
    BY <1>1, <1>2, <1>3, <1>4, <1>5, <1>6, <1>7 DEF ScanNext

(* One call of pmm_alloc stays within its types.                           *)
THEOREM TypeCorrect == ScanSpec => []ScanTypeOK
  <1>1. ScanInv => ScanTypeOK
    BY DEF ScanInv
  <1> QED
    BY <1>1, ScanInitHolds, ScanStep, PTL DEF ScanSpec

(* The loop of pmm_alloc returns the lowest run that fits the request,     *)
(* marks exactly that run, and fails only when there is none.              *)
THEOREM ScanIsLowestFit == ScanSpec => []ReturnsLowestFit
  <1>1. ScanInv => ReturnsLowestFit
    BY DEF ScanInv
  <1> QED
    BY <1>1, ScanInitHolds, ScanStep, PTL DEF ScanSpec

(* A strict allocation lies in the byte range the caller of pmm_alloc      *)
(* gave.                                                                   *)
LEMMA FitsStayInWindow ==
  ASSUME NEW marked, NEW r \in [min : Nat, max : Nat, pages : Nat, policy : Policies],
         NEW f \in Fits(marked, StartFrame(r.min), MaxFrame(r.max, total), r.pages)
  PROVE  /\ f \in Nat
         /\ f * FRAME_SIZE >= r.min
         /\ r.max # 0 => f * FRAME_SIZE + r.pages * FRAME_SIZE <= r.max
         /\ f * FRAME_SIZE + r.pages * FRAME_SIZE <= total * FRAME_SIZE
  <1> DEFINE start == StartFrame(r.min)
             max == MaxFrame(r.max, total)
  <1>1. /\ start \in Nat /\ max \in Nat /\ max <= total /\ total \in Nat
        /\ r.min \in Nat /\ r.max \in Nat /\ r.pages \in Nat
        /\ FRAME_SIZE \in Nat /\ FRAME_SIZE > 0
    BY WindowTypes, ScanAssumption, FrameSizeAssumption
  <1>2. f \in Nat /\ start <= f /\ f + r.pages <= max
    BY <1>1 DEF Fits
  <1>3. f * FRAME_SIZE + r.pages * FRAME_SIZE = (f + r.pages) * FRAME_SIZE
    BY <1>1, <1>2
  <1>4. \A x, y \in Nat : x <= y => x * FRAME_SIZE <= y * FRAME_SIZE
    BY <1>1, SMTT(30)
  <1>5. start * FRAME_SIZE >= r.min
    <2> DEFINE q == (r.min + FRAME_SIZE - 1) \div FRAME_SIZE
    <2>1. r.min + FRAME_SIZE - 1 \in Nat
      BY <1>1
    <2>2. q \in Nat /\ r.min + FRAME_SIZE - 1 < q * FRAME_SIZE + FRAME_SIZE
      BY <2>1, DivFacts
    <2>3. (q * FRAME_SIZE) \div FRAME_SIZE = q
      BY <2>2, DivFacts
    <2>4. r.min # 0 => start = q
      BY <2>3 DEF StartFrame, pmm_addr_to_frame, ALIGN_UP, ALIGN_DOWN
    <2>5. q * FRAME_SIZE \in Nat
      BY <1>1, <2>2
    <2>6. r.min <= q * FRAME_SIZE
      BY <1>1, <2>2, <2>5
    <2>7. start * FRAME_SIZE \in Nat
      BY <1>1
    <2> QED
      BY <1>1, <2>4, <2>6, <2>7
  <1>6. r.max # 0 => max * FRAME_SIZE <= r.max
    <2> DEFINE q == r.max \div FRAME_SIZE
    <2>1. q \in Nat /\ q * FRAME_SIZE <= r.max
      BY <1>1, DivFacts
    <2>2. r.max # 0 => max <= q
      BY <1>1, <2>1 DEF MaxFrame, pmm_addr_to_frame
    <2>3. r.max # 0 => max * FRAME_SIZE <= q * FRAME_SIZE
      BY <1>1, <1>4, <2>1, <2>2
    <2>4. max * FRAME_SIZE \in Nat /\ q * FRAME_SIZE \in Nat
      BY <1>1, <2>1
    <2> QED
      BY <1>1, <2>1, <2>3, <2>4
  <1>7. /\ start * FRAME_SIZE <= f * FRAME_SIZE
        /\ (f + r.pages) * FRAME_SIZE <= max * FRAME_SIZE
        /\ max * FRAME_SIZE <= total * FRAME_SIZE
    BY <1>1, <1>2, <1>4
  <1>8. /\ start * FRAME_SIZE \in Nat /\ f * FRAME_SIZE \in Nat
        /\ (f + r.pages) * FRAME_SIZE \in Nat
        /\ max * FRAME_SIZE \in Nat /\ total * FRAME_SIZE \in Nat
    BY <1>1, <1>2
  <1> HIDE DEF start, max
  <1> QED
    BY <1>1, <1>2, <1>3, <1>5, <1>6, <1>7, <1>8

THEOREM StrictWindow == ScanSpec => []StrictStaysInWindow
  <1>1. ScanInv => StrictStaysInWindow
    <2> SUFFICES ASSUME ScanInv, pc = "done", ret = "OK", call.policy = STRICT
                 PROVE  /\ out >= call.min
                        /\ call.max # 0 => out + call.pages * FRAME_SIZE <= call.max
                        /\ out + call.pages * FRAME_SIZE <= total * FRAME_SIZE
      BY DEF StrictStaysInWindow
    <2> DEFINE own == Fits(bits0, StartFrame(call.min), MaxFrame(call.max, total),
                           call.pages)
    <2>1. call \in [min : Nat, max : Nat, pages : Nat, policy : Policies]
      BY DEF ScanInv, ScanTypeOK
    <2>2. Candidates(bits0, total, call) = own
      BY DEF Candidates, STRICT, FALLBACK
    <2>3. own # {} /\ out = Min(own) * FRAME_SIZE
      BY <2>2 DEF ScanInv, ReturnsLowestFit, pmm_frame_to_addr
    <2>4. own \in SUBSET Nat
      BY <2>1, FitsStayInWindow
    <2>5. Min(own) \in own
      BY <2>3, <2>4, MinIsLeast
    <2> QED
      BY <2>1, <2>3, <2>5, FitsStayInWindow
  <1> QED
    BY <1>1, ScanInitHolds, ScanStep, PTL DEF ScanSpec

(* One call of pmm_alloc returns the lowest run that fits and keeps to a   *)
(* strict window, for every bitmap and request.                            *)
THEOREM AllocationAsAsked == ScanSpec => []AllocatesAsAsked
  BY ScanIsLowestFit, StrictWindow, PTL DEF AllocatesAsAsked

(* The free-frame count that pmm_alloc keeps beside the bitmap equals the  *)
(* number of clear bits before and after the call.                         *)
CountInv == free_count = Cardinality(ScanFrames \ bits)

THEOREM FreeCount == ScanSpec => []FreeCountKept
  <1>1. ScanInit => CountInv
    BY DEF ScanInit, CountInv
  <1>2. ScanInv /\ CountInv /\ [ScanNext]_scan_vars => CountInv'
    <2> SUFFICES ASSUME ScanInv, CountInv, [ScanNext]_scan_vars PROVE CountInv'
      OBVIOUS
    <2>1. CASE ScanFound
      <3> DEFINE first == i - req.pages + 1
      <3>1. /\ ScanTypeOK /\ LoopInv /\ InWindow /\ i \notin bits
            /\ consecutive + 1 = req.pages
            /\ bits' = bits \cup Run(first, req.pages)
            /\ free_count' = free_count - req.pages
        BY <2>1 DEF ScanInv, ScanFound
      <3>2. first \in Nat /\ Run(first, req.pages) \subseteq ScanFrames \ bits
        BY <3>1, FoundIsLowest
      <3>3. req.pages \in Nat /\ req.pages # 0 /\ bits \in SUBSET ScanFrames
        BY <3>1 DEF ScanTypeOK, LoopInv
      <3>4. Cardinality(Run(first, req.pages)) = req.pages
        BY <3>2, <3>3, RunCount
      <3> DEFINE R == Run(first, req.pages)
                 free == ScanFrames \ bits
                 rest == ScanFrames \ bits'
      <3>5. R \in SUBSET free /\ rest = free \ R
        BY <3>1, <3>2
      <3>6. IsFiniteSet(free)
        BY <3>3, FreeCountType
      <3> HIDE DEF R, free, rest
      <3>7. Cardinality(rest) = Cardinality(free) - Cardinality(R)
        BY <3>5, <3>6, MarkRun
      <3> QED
        BY <3>1, <3>4, <3>7 DEF CountInv, R, free, rest
    <2>2. CASE ~ScanFound
      BY <2>2 DEF ScanNext, scan_vars, Enter, ScanUsed, ScanFree, Retry, GiveUp, CountInv
    <2> QED
      BY <2>1, <2>2
  <1>3. CountInv => FreeCountKept
    BY DEF CountInv, FreeCountKept
  <1> QED
    BY <1>1, <1>2, <1>3, ScanInitHolds, ScanStep, PTL DEF ScanSpec
=============================================================================
