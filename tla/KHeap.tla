-------------------------------- MODULE KHeap --------------------------------
(***************************************************************************)
(* The kernel heap of kernel/mm/kheap.c: an explicit free list threaded    *)
(* through the free blocks, with a size tag at both ends of each block.    *)
(*                                                                         *)
(* mem is the memory the heap lives in, one value per 4-byte word, so that *)
(* tags, list pointers and the callers' data share the same words as they  *)
(* do in the kernel.  A header at address h has its size at h, its flags   *)
(* at h + 4 and its list node (next, prev) at h + 8; the footer is the     *)
(* last word of the block.  The list head is a static variable outside the *)
(* heap.  Of the flags only bit 0 is ever read.                            *)
(*                                                                         *)
(* live is ghost: what kmalloc has returned and kfree has not taken back.  *)
(* Its owner has written to every word of it.                              *)
(***************************************************************************)
EXTENDS Integers, FiniteSets, FiniteSetsExt

CONSTANTS
  HEAP_SIZE,    \* bytes the heap gets from the PMM (256 frames)
  SIZE_MAX,     \* size_t counts modulo this (2^32)
  Sizes         \* sizes passed to kmalloc

(* The heap holds a block, and ends a header below the top of the address  *)
(* space.  A size within 23 bytes of SIZE_MAX would wrap in BlockSize;     *)
(* every caller passes the size of a structure.                            *)
ASSUME HeapAssumption ==
  /\ HEAP_SIZE \in Nat /\ HEAP_SIZE % 4 = 0 /\ HEAP_SIZE >= 24
  /\ SIZE_MAX \in Nat /\ SIZE_MAX % 4 = 0 /\ HEAP_SIZE + 12 <= SIZE_MAX
  /\ Sizes \subseteq 0 .. (SIZE_MAX - 24)

HEADER == 16                    \* sizeof(struct kheap_header)
FOOTER == 4
KHEAP_MIN_BLOCK_SIZE == HEADER + 4 + FOOTER

NULL == 0
kheap_free_list == 4            \* its head, a static variable: words 4 and 8
kheap_start == 12
kheap_end == kheap_start + HEAP_SIZE

Words == {a \in kheap_free_list .. (kheap_end - 1) : a % 4 = 0}
HeapWords == {a \in Words : a >= kheap_start}

JUNK == -1                      \* data of a caller, or never written

VARIABLES mem, ready, live

vars == <<mem, ready, live>>

-----------------------------------------------------------------------------
(* The doubly linked list of klib/list.h, on the words of a memory m.  A   *)
(* node n has its next pointer at n and its prev pointer at n + 4.         *)
list_insert_after(m, node, new) ==
  LET linked == [m EXCEPT ![new + 4] = node, ![new] = m[node]]
  IN  [linked EXCEPT ![linked[node] + 4] = new, ![node] = new]

list_insert_front(m, new) == list_insert_after(m, kheap_free_list, new)

list_remove(m, node) ==
  LET unlinked == [m EXCEPT ![m[node + 4]] = m[node], ![m[node] + 4] = m[node + 4]]
  IN  [unlinked EXCEPT ![node] = NULL, ![node + 4] = NULL]

list_replace(m, old, new) ==
  LET copied   == [m EXCEPT ![new + 4] = m[old + 4], ![new] = m[old]]
      relinked == [copied EXCEPT ![copied[old + 4]] = new, ![copied[old] + 4] = new]
  IN  [relinked EXCEPT ![old] = NULL, ![old + 4] = NULL]

(* The k-th node of the list; the head follows the last one.               *)
MaxBlocks == HEAP_SIZE \div (HEADER + FOOTER)

Node ==
  LET walk[k \in 0 .. MaxBlocks] == IF k = 0 THEN mem[kheap_free_list] ELSE mem[walk[k - 1]]
  IN  walk

-----------------------------------------------------------------------------
ALIGN_UP(size) == (((size + 3) \div 4) * 4) % SIZE_MAX

BlockSize(size) == (HEADER + ALIGN_UP(size) + FOOTER) % SIZE_MAX

HeaderOf(node) == node - 8
NodeOf(hdr)    == hdr + 8
IsFree(hdr)    == mem[hdr + 4] = 0

(* Variant: the tags are forgotten when the sizes are compared.            *)
FirstFit_NoTags(size) ==
  LET hit(k) == Node[k] = kheap_free_list \/ mem[HeaderOf(Node[k])] >= ALIGN_UP(size)
  IN  Node[Min({k \in 0 .. MaxBlocks : hit(k)})]

(* The first node whose block is large enough, or the head.                *)
FirstFit(size) ==
  LET hit(k) == Node[k] = kheap_free_list \/ mem[HeaderOf(Node[k])] >= BlockSize(size)
  IN  Node[Min({k \in 0 .. MaxBlocks : hit(k)})]

(* Header and footer of a block.                                           *)
Tag(m, hdr, size, flags) ==
  [m EXCEPT ![hdr] = size, ![hdr + 4] = flags, ![hdr + size - FOOTER] = size]

(* The allocated block is cut from the front of the free one; the rest     *)
(* takes its place in the free list.                                       *)
Split(hdr, size) ==
  LET rest == hdr + BlockSize(size)
      cut  == Tag(mem, hdr, BlockSize(size), 1)
  IN  list_replace(Tag(cut, rest, mem[hdr] - BlockSize(size), 0),
                   NodeOf(hdr), NodeOf(rest))

(* Variant: the block stays in the list.                                   *)
TakeWhole_StaysListed(hdr) == [mem EXCEPT ![hdr + 4] = 1]

TakeWhole(hdr) == [list_remove(mem, NodeOf(hdr)) EXCEPT ![hdr + 4] = 1]

(* The words the owner of an allocation writes.                            *)
Payload(b) == {a \in HeapWords : b.ptr <= a /\ a < b.ptr + b.size}

Written(m, b) == [a \in Words |-> IF a \in Payload(b) THEN JUNK ELSE m[a]]

-----------------------------------------------------------------------------
Init ==
  /\ mem = [a \in Words |-> JUNK]
  /\ ready = FALSE
  /\ live = {}

(* kheap_init makes one free block of the frames it got.  If the PMM has   *)
(* none, mm_init fails and the kernel stops: nothing calls the heap.       *)
kheap_init ==
  /\ ~ready
  /\ LET empty == [Tag(mem, kheap_start, HEAP_SIZE, 0)
                     EXCEPT ![kheap_free_list] = kheap_free_list,
                            ![kheap_free_list + 4] = kheap_free_list]
     IN  mem' = list_insert_front(empty, NodeOf(kheap_start))
  /\ ready' = TRUE
  /\ UNCHANGED live

kmalloc(size) ==
  /\ ready
  /\ size # 0
  /\ FirstFit(size) # kheap_free_list
  /\ LET hdr  == HeaderOf(FirstFit(size))
         b    == [ptr |-> hdr + HEADER, size |-> size]
         fits == mem[hdr] - BlockSize(size) >= KHEAP_MIN_BLOCK_SIZE
     IN  /\ mem' = Written(IF fits THEN Split(hdr, size) ELSE TakeWhole(hdr), b)
         /\ live' = live \cup {b}
  /\ UNCHANGED ready

(* KERR_INVAL for no bytes, KERR_NOMEM when no free block is large enough. *)
kmalloc_fails(size) ==
  /\ ready
  /\ size = 0 \/ FirstFit(size) = kheap_free_list
  /\ UNCHANGED vars

(* The early returns of kfree.                                             *)
FreeAccepted(ptr) ==
  /\ ptr >= kheap_start + HEADER
  /\ ptr < kheap_end - KHEAP_MIN_BLOCK_SIZE
  /\ ptr % 4 = 0
  /\ ~IsFree(ptr - HEADER)

(* Variant: the footer of the merged block keeps the old size.             *)
kheap_merge_OldFooter(m, left, right) == [m EXCEPT ![left] = m[left] + m[right]]

kheap_merge(m, left, right) ==
  LET sum == m[left] + m[right]
  IN  [m EXCEPT ![left] = sum, ![right + m[right] - FOOTER] = sum]

(* Variant: the next block stays in the list when it is merged.            *)
kfree_NextStaysListed(b) ==
  LET hdr == b.ptr - HEADER
      next == hdr + mem[hdr]
      prev == hdr - mem[hdr - FOOTER]
      next_free == next < kheap_end /\ IsFree(next)
      prev_free == hdr # kheap_start /\ IsFree(prev)
      cleared == [mem EXCEPT ![hdr + 4] = 0]
      first == IF prev_free THEN prev ELSE hdr
      left == IF prev_free THEN kheap_merge(cleared, prev, hdr) ELSE cleared
      both == IF next_free THEN kheap_merge(left, first, next) ELSE left
  IN  /\ FreeAccepted(b.ptr)
      /\ mem' = IF prev_free THEN both ELSE list_insert_front(both, NodeOf(first))
      /\ live' = live \ {b}
      /\ UNCHANGED ready

(* kfree of a live allocation: clear the flag, merge with the previous and *)
(* then with the next block where these are free.                          *)
kfree(b) ==
  LET hdr == b.ptr - HEADER
      next == hdr + mem[hdr]
      prev == hdr - mem[hdr - FOOTER]
      next_free == next < kheap_end /\ IsFree(next)
      prev_free == hdr # kheap_start /\ IsFree(prev)
      cleared == [mem EXCEPT ![hdr + 4] = 0]
      first == IF prev_free THEN prev ELSE hdr
      left == IF prev_free THEN kheap_merge(cleared, prev, hdr) ELSE cleared
      both == IF next_free
                THEN kheap_merge(list_remove(left, NodeOf(next)), first, next)
                ELSE left
  IN  /\ FreeAccepted(b.ptr)
      /\ mem' = IF prev_free THEN both ELSE list_insert_front(both, NodeOf(first))
      /\ live' = live \ {b}
      /\ UNCHANGED ready

(* kfree returns -KERR_INVAL: NULL, a pointer outside the heap or not word *)
(* aligned, or (the caller's loss) a live one that the bounds turn away.   *)
kfree_fails(ptr) ==
  /\ ready
  /\ ~FreeAccepted(ptr)
  /\ UNCHANGED vars

Next ==
  \/ kheap_init
  \/ \E size \in Sizes : kmalloc(size) \/ kmalloc_fails(size)
  \/ \E b \in live : kfree(b)
  \/ \E ptr \in {NULL, kheap_start, kheap_start + HEADER + 1, kheap_end} \cup
                {b.ptr : b \in live} : kfree_fails(ptr)

Spec == Init /\ [][Next]_vars

-----------------------------------------------------------------------------
(* The block starts: the addresses that adding up the size tags from the   *)
(* start of the heap leads to (the walk of kheap_dump).                    *)
Blocks ==
  LET walk[k \in 0 .. MaxBlocks] ==
        IF k = 0 THEN kheap_start
        ELSE LET hdr == walk[k - 1]
             IN  IF hdr \in HeapWords THEN hdr + mem[hdr] ELSE kheap_end
  IN  {walk[k] : k \in 0 .. MaxBlocks} \cap HeapWords

ListNodes == {Node[k] : k \in 0 .. MaxBlocks}

(* Shapes of the state.                                                    *)
TypeOK ==
  /\ mem \in [Words -> JUNK .. SIZE_MAX]
  /\ ready \in BOOLEAN
  /\ live \subseteq [ptr : HeapWords, size : Sizes \ {0}]

(* The boundary tags are right: the blocks tile the heap from start to     *)
(* end, and the footer of each holds the size its header holds, so that    *)
(* the next kfree finds the previous block.  No two neighbours are both    *)
(* free, and the allocated blocks are exactly the live allocations, so     *)
(* with everything given back the heap is again the single block that      *)
(* kheap_init made.                                                        *)
BlocksSound ==
  /\ TypeOK
  /\ ready =>
       /\ \A a \in Blocks : /\ mem[a] >= HEADER + FOOTER /\ mem[a] % 4 = 0
                            /\ a + mem[a] <= kheap_end
                            /\ mem[a + mem[a] - FOOTER] = mem[a]
                            /\ (a + mem[a]) \in Blocks => ~(IsFree(a) /\ IsFree(a + mem[a]))
       /\ \E a \in Blocks : a + mem[a] = kheap_end
       /\ {a \in Blocks : ~IsFree(a)} = {b.ptr - HEADER : b \in live}
       /\ live = {} => mem[kheap_start] = HEAP_SIZE

(* The free list, read forwards, is exactly the free blocks, and every     *)
(* prev pointer undoes the next pointer, whatever order the blocks were    *)
(* split, merged and freed in.                                             *)
FreeListIsFreeBlocks ==
  ready =>
    /\ ListNodes \ {kheap_free_list} = {NodeOf(a) : a \in {h \in Blocks : IsFree(h)}}
    /\ \A n \in ListNodes \cup {kheap_free_list} : mem[mem[n] + 4] = n

(* The heap never writes into memory it has handed out: what the owner     *)
(* wrote is still there after any number of later calls.                   *)
PayloadUntouched ==
  \A b \in live : \A a \in Payload(b) : mem[a] = JUNK

(* kmalloc and kfree implement the abstract heap.                          *)
Contract == INSTANCE Heap WITH
  Arena <- kheap_start .. (kheap_end - 1), Size <- Sizes

ImplementsHeap == Contract!HSpec
=============================================================================
