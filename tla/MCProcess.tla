------------------------------ MODULE MCProcess -------------------------------
EXTENDS Process

Seg(virt, pages, file_off, file_size, flags) ==
  [vaddr |-> virt * PAGE_UNITS, mem_size |-> pages * PAGE_UNITS,
   file_off |-> file_off, file_size |-> file_size, flags |-> flags]
Code == {VM_READ, VM_EXEC}
Vars == {VM_READ, VM_WRITE}

Image(id, size, count, headers) ==
  [id |-> id, size |-> size, magic |-> TRUE, type |-> TRUE, arch |-> TRUE,
   entry |-> headers[1].vaddr + 1, segment_count |-> count, table |-> headers]

(* From less than a process needs to enough for one to start, some with a gap.      *)
MCBootFrames ==
  {2 .. k : k \in {6, 8, 9, 14}} \cup {(2 .. 16) \ {11}}

(* Two segments; one across two tables, its data to the image's last unit; *)
(* a good segment, then one that overlaps it, and one whose header lies    *)
(* behind the image; misaligned, truncated and empty segments; a           *)
(* segment_count whose low 16 bits are zero.                               *)
MCImages ==
  {Image(1, 6, 2, <<Seg(1, 1, 3, 2, Code), Seg(2, 1, 5, 1, Vars)>>),
   Image(2, 5, 1, <<Seg(7, 2, 2, 3, Vars)>>),
   Image(3, 6, 2, <<Seg(0, 1, 3, 1, Code), Seg(0, 2, 3, 0, Vars)>>),
   Image(4, 2, 3, <<Seg(3, 1, 1, 1, Code), Seg(4, 1, 1, 1, Code), Seg(5, 1, 1, 1, Vars)>>),
   Image(5, 6, 1, <<[Seg(4, 1, 3, 1, Vars) EXCEPT !.vaddr = @ + 1]>>),
   Image(6, 6, 1, <<Seg(4, 1, 5, 2, Vars)>>),
   Image(7, 6, 1, <<[Seg(4, 1, 3, 1, Code) EXCEPT !.mem_size = 1]>>),
   Image(8, 6, UINT16, <<Seg(4, 1, 3, 1, Code)>>)}

(* One segment more than 16 bits count, each with its data behind the      *)
(* table.                                                                  *)
MCWideImages ==
  {Image(9, UINT16 + 3, UINT16 + 1, [i \in 1 .. (UINT16 + 1) |-> Seg(i, 1, UINT16 + 2, 1, Code)])}

MCTss == [hi |-> 49153, lo |-> 8224]
=============================================================================
