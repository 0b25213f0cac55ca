------------------------------- MODULE PmmScan -------------------------------
(***************************************************************************)
(* One call of pmm_alloc (kernel/mm/pmm.c), iteration by iteration: the    *)
(* loop that counts consecutive clear bits, and the recursive second try   *)
(* over the whole of memory under PMM_POLICY_FALLBACK.  Module PMM takes   *)
(* the call as one step that returns the lowest run that fits; here that   *)
(* is what the loop computes.                                              *)
(***************************************************************************)
EXTENDS PmmFrames

CONSTANT
  total         \* pmm.total_frames

ASSUME ScanAssumption == total \in Nat

VARIABLES
  pc,           \* "enter": top of pmm_alloc, "scan": loop head, "done"
  req,          \* arguments of the current activation
  i,            \* loop variable
  consecutive,  \* clear bits counted so far
  bits,         \* pmm.bm
  free_count,   \* pmm.free_frames
  ret, out,     \* result code and *out
  call,         \* ghost: arguments of the outer call
  bits0         \* ghost: the bitmap at the call

scan_vars == <<pc, req, i, consecutive, bits, free_count, ret, out, call, bits0>>

ScanFrames == 0 .. (total - 1)

ScanInit ==
  /\ pc = "enter"
  /\ req \in Requests
  /\ i = 0
  /\ consecutive = 0
  /\ bits \in SUBSET ScanFrames
  /\ free_count = Cardinality(ScanFrames \ bits)
  /\ ret = "none"
  /\ out = 0
  /\ call = req
  /\ bits0 = bits

Return(code) ==
  /\ pc' = "done"
  /\ ret' = code

Enter ==
  /\ pc = "enter"
  /\ IF req.pages = 0
       THEN Return("INVAL") /\ UNCHANGED <<i, consecutive>>
       ELSE /\ pc' = "scan"
            /\ i' = StartFrame(req.min)
            /\ consecutive' = 0
            /\ UNCHANGED ret
  /\ UNCHANGED <<req, bits, free_count, out, call, bits0>>

InWindow == i < MaxFrame(req.max, total)

(* Variant: the count is not reset at a set bit.                           *)
ScanUsed_NoReset ==
  /\ pc = "scan" /\ InWindow /\ i \in bits
  /\ i' = i + 1
  /\ UNCHANGED <<pc, req, consecutive, bits, free_count, ret, out, call, bits0>>

(* The bit of frame i is set: the count starts again.                      *)
ScanUsed ==
  /\ pc = "scan" /\ InWindow /\ i \in bits
  /\ consecutive' = 0
  /\ i' = i + 1
  /\ UNCHANGED <<pc, req, bits, free_count, ret, out, call, bits0>>

ScanFree ==
  /\ pc = "scan" /\ InWindow /\ i \notin bits
  /\ consecutive + 1 # req.pages
  /\ consecutive' = consecutive + 1
  /\ i' = i + 1
  /\ UNCHANGED <<pc, req, bits, free_count, ret, out, call, bits0>>

(* The run is long enough: mark it, count it and return its address.       *)
ScanFound ==
  LET first_found_frame == i - req.pages + 1
  IN  /\ pc = "scan" /\ InWindow /\ i \notin bits
      /\ consecutive + 1 = req.pages
      /\ consecutive' = req.pages
      /\ bits' = bits \cup Run(first_found_frame, req.pages)
      /\ free_count' = free_count - req.pages
      /\ out' = pmm_frame_to_addr(first_found_frame)
      /\ Return("OK")
      /\ UNCHANGED <<req, i, call, bits0>>

(* Variant: the second try keeps the caller's policy.                      *)
Retry_SamePolicy ==
  /\ pc = "scan" /\ ~InWindow
  /\ req.policy = FALLBACK
  /\ req' = [min |-> 0, max |-> 0, pages |-> req.pages, policy |-> req.policy]
  /\ pc' = "enter"
  /\ UNCHANGED <<i, consecutive, bits, free_count, ret, out, call, bits0>>

(* The window is exhausted: try once more everywhere, or give up.          *)
Retry ==
  /\ pc = "scan" /\ ~InWindow
  /\ req.policy = FALLBACK
  /\ req' = [min |-> 0, max |-> 0, pages |-> req.pages, policy |-> STRICT]
  /\ pc' = "enter"
  /\ UNCHANGED <<i, consecutive, bits, free_count, ret, out, call, bits0>>

GiveUp ==
  /\ pc = "scan" /\ ~InWindow
  /\ req.policy = STRICT
  /\ Return("NOMEM")
  /\ UNCHANGED <<req, i, consecutive, bits, free_count, out, call, bits0>>

ScanNext == Enter \/ ScanUsed \/ ScanFree \/ ScanFound \/ Retry \/ GiveUp

ScanSpec == ScanInit /\ [][ScanNext]_scan_vars

(* The loop runs on: nothing blocks it.                                    *)
FairScanSpec == ScanSpec /\ WF_scan_vars(ScanNext)

-----------------------------------------------------------------------------
(* Shapes of the state.                                                    *)
ScanTypeOK ==
  /\ pc \in {"enter", "scan", "done"}
  /\ req \in [min : Nat, max : Nat, pages : Nat, policy : Policies]
  /\ call \in [min : Nat, max : Nat, pages : Nat, policy : Policies]
  /\ i \in Nat /\ consecutive \in Nat /\ out \in Nat
  /\ bits \in SUBSET ScanFrames /\ bits0 \in SUBSET ScanFrames
  /\ free_count \in Int
  /\ ret \in {"none", "OK", "INVAL", "NOMEM"}

(* The call returns what module PMM says it does: the lowest run that fits *)
(* the request, in its window or after the fallback, exactly that run is   *)
(* marked, and it fails only when no run of that length is free.           *)
ReturnsLowestFit ==
  pc = "done" =>
    LET fits == Candidates(bits0, total, call)
    IN  /\ call.pages = 0 => ret = "INVAL" /\ bits = bits0
        /\ call.pages # 0 /\ fits = {} => ret = "NOMEM" /\ bits = bits0
        /\ call.pages # 0 /\ fits # {} =>
             /\ ret = "OK"
             /\ out = pmm_frame_to_addr(Min(fits))
             /\ bits = bits0 \cup Run(Min(fits), call.pages)

(* A PMM_POLICY_STRICT allocation lies inside the byte range [min, max)    *)
(* the caller gave, even when min and max are not frame aligned.           *)
StrictStaysInWindow ==
  (pc = "done" /\ ret = "OK" /\ call.policy = STRICT) =>
    /\ out >= call.min
    /\ call.max # 0 => out + call.pages * FRAME_SIZE <= call.max
    /\ out + call.pages * FRAME_SIZE <= total * FRAME_SIZE

(* What pmm_alloc's loop returns is the lowest run that fits, and honours  *)
(* a strict window to the byte.                                            *)
AllocatesAsAsked == ReturnsLowestFit /\ StrictStaysInWindow

(* pmm.free_frames counts the clear bits when the call returns.            *)
FreeCountKept ==
  pc = "done" => free_count = Cardinality(ScanFrames \ bits)

(* Every call returns, the fallback included: the recursion is one deep.   *)
Terminates == <>(pc = "done")
=============================================================================
