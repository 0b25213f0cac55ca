------------------------------- MODULE MCVMM ---------------------------------
(* Five entries per table: fifteen user pages, ten kernel pages, all of    *)
(* which are the direct map.  The kernel's tables take three of the seven  *)
(* low frames, or more than the PMM has.                                   *)
EXTENDS VMM, TLC

MCBootFrames == {{3, 7, 11}, {2, 3, 5, 6, 7, 8, 9, 11}}
(* None of these ranges ends where the addresses wrap.                     *)
MCRanges == {<<0, 1>>, <<3, 4>>, <<6, 2>>, <<14, 2>>}
(* A range that ends where the addresses wrap, next to one that does not.  *)
MCTopRanges == {<<0, 1>>, <<14, PAGES - 14>>}
MCFlags == {{VM_READ, VM_USER}, {VM_READ, VM_WRITE, VM_USER}}
MCCached == {3}

Symmetry == Permutations(Space)
==============================================================================
