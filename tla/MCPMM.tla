------------------------------- MODULE MCPMM --------------------------------
(* Twelve frames of four bytes: low memory is frames 0 and 1, the kernel   *)
(* starts in it and ends in frame 2, the bitmap is in frame 3.             *)
EXTENDS PMM, PmmScan

Entry(base, end, type) == [base |-> base, length |-> end - base, type |-> type]

MCMaps == {
  {Entry(0, 48, 1)},
  \* a hole in the middle and ends that are not frame aligned
  {Entry(0, 10, 1), Entry(10, 17, 2), Entry(17, 47, 1)},
  \* RAM ends inside a frame; firmware memory above it
  {Entry(0, 9, 1), Entry(12, 30, 1), Entry(30, 34, 2), Entry(36, 42, 1)},
  \* no RAM above the kernel
  {Entry(0, 14, 1), Entry(14, 48, 2)},
  \* nothing usable at all
  {Entry(0, 48, 2)}
}

Request(min, max, pages, policy) ==
  [min |-> min, max |-> max, pages |-> pages, policy |-> policy]

MCRequests ==
  {Request(0, 28, n, STRICT) : n \in 0 .. 3}           \* LOWMEM
    \cup {Request(28, 0, n, FALLBACK) : n \in 1 .. 3}  \* HIGHMEM
    \cup {Request(0, 0, n, STRICT) : n \in {1, 2, 8}}  \* ANY
    \cup {Request(18, 39, n, STRICT) : n \in {1, 4}}   \* unaligned bounds
    \cup [min : {0, 4, 9, 28}, max : {0, 8, 15, 40}, pages : 0 .. 4, policy : Policies]

MCFreeAddrs == {4 * f : f \in 0 .. 13} \cup {18}

(* First one call's loop, on any bitmap and request; behind the call for   *)
(* no page on an empty bitmap, the calls of the whole allocator.           *)
Behind == pc = "done" /\ call = Request(0, 28, 0, STRICT) /\ bits = {}

MCInit == ScanInit /\ Init

MCNext ==
  \/ ScanNext /\ UNCHANGED vars
  \/ Behind /\ Next /\ UNCHANGED scan_vars
  \/ pc = "done" /\ ~Behind /\ UNCHANGED <<vars, scan_vars>>

MCSpec == MCInit /\ [][MCNext]_<<vars, scan_vars>> /\ WF_scan_vars(ScanNext)
=============================================================================
