---------------------------- MODULE AddressSpace ------------------------------
(***************************************************************************)
(* The user address spaces of kernel/mm/vmm.c, as operators on a machine   *)
(* state s that has, besides the fields of Paging,                         *)
(*   s.vmas  the space's list of VMAs, in list order                       *)
(*   s.heap  how many more objects kmalloc can give out                    *)
(* The physical range a caller gives never wraps a 64-bit address, which   *)
(* is all that vm_phys_range_valid refuses besides the size zero.          *)
(***************************************************************************)
EXTENDS Paging

VM_USER_END == KERNEL_PAGE

(* Addresses are machine words: an end of exactly 2^32 is stored as 0.     *)
vm_user_range_valid(virt, n) ==
  /\ n # 0
  /\ virt < VM_USER_END
  /\ n - 1 <= PAGES - 1 - virt
  /\ (virt + n) % PAGES <= VM_USER_END

(* The first VMA on the list that starts at or before virt and does not    *)
(* end before end, 0 if there is none: the walk ends at a VMA that starts  *)
(* after virt.                                                             *)
FindVma(vmas, virt, end) ==
  LET k == SelectInSeq(vmas, LAMBDA vma : vma.start > virt \/ end <= vma.end)
  IN  IF k # 0 /\ vmas[k].start > virt THEN 0 ELSE k

vm_find_vma(vmas, virt) ==
  IF virt >= VM_USER_END THEN 0 ELSE FindVma(vmas, virt, virt + 1)

vm_find_vma_range(vmas, virt, n) ==
  IF ~ vm_user_range_valid(virt, n) THEN 0
  ELSE FindVma(vmas, virt, (virt + n) % PAGES)

(* The walk stops at the first VMA that does not end before the new one:   *)
(* either the two overlap, or the new one goes in front of it.             *)
vm_add_vma(s, virt, n, flags) ==
  LET new_end == (virt + n) % PAGES
      k    == SelectInSeq(s.vmas, LAMBDA vma : ~ (vma.end <= virt))
      node == IF k = 0 THEN Len(s.vmas) + 1 ELSE k
  IN  IF ~ vm_user_range_valid(virt, n) THEN Fail(s, "INVAL")
      ELSE IF k # 0 /\ s.vmas[k].start < new_end THEN Fail(s, "EXISTS")
      ELSE IF s.heap = 0 THEN Fail(s, "NOMEM")
      ELSE [s EXCEPT !.heap = @ - 1,
                     !.vmas = InsertAt(@, node,
                        [start |-> virt, end |-> new_end, flags |-> flags])]

(* list_remove and kfree of the k-th VMA.                                  *)
DropVma(s, k) == [s EXCEPT !.vmas = RemoveAt(@, k), !.heap = @ + 1]

vm_remove_vma(s, virt) ==
  LET k == vm_find_vma(s.vmas, virt)
  IN  IF k = 0 THEN s ELSE DropVma(s, k)

(* On an error of arch_vm_map the VMA goes again; the pages that were      *)
(* mapped before the error stay mapped.                                    *)
vm_map(s, root, virt, phys, n, flags) ==
  LET pages(t) ==
        LET u == arch_vm_map(t, root, virt, phys, n, flags)
        IN  IF u.err = OK THEN u ELSE vm_remove_vma(u, virt)
  IN  IF vm_user_range_valid(virt, n)
        THEN Then(vm_add_vma(s, virt, n, flags), pages)
        ELSE Fail(s, "INVAL")

(* Only a whole VMA can be unmapped or protected.                          *)
WholeVma(s, virt, n) ==
  LET k == vm_find_vma_range(s.vmas, virt, n)
  IN  IF ~ vm_user_range_valid(virt, n) THEN Fail(s, "INVAL")
      ELSE IF k = 0 THEN Fail(s, "NOENT")
      ELSE IF s.vmas[k].start # virt \/ s.vmas[k].end # (virt + n) % PAGES
        THEN Fail(s, "INVAL")
      ELSE s

vm_unmap(s, root, virt, n) ==
  LET unmap(t) == arch_vm_unmap(t, root, virt, n)
      drop(t)  == DropVma(t, vm_find_vma_range(t.vmas, virt, n))
  IN  Then(Then(WholeVma(s, virt, n), unmap), drop)

vm_protect(s, root, virt, n, flags) ==
  LET protect(t) == arch_vm_protect(t, root, virt, n, flags)
      keep(t) == [t EXCEPT !.vmas[vm_find_vma_range(t.vmas, virt, n)].flags = flags]
  IN  Then(Then(WholeVma(s, virt, n), protect), keep)

(* The new space's directory is the lowest of LowFree(s).                  *)
vm_space_init(s, kernel_root) ==
  LET attach(t) == arch_vm_space_attach_kernel(t, Min(LowFree(s)), kernel_root)
  IN  Then(arch_vm_space_init([s EXCEPT !.vmas = <<>>]), attach)

vm_space_destroy(s, root) ==
  arch_vm_space_destroy([s EXCEPT !.heap = @ + Len(s.vmas), !.vmas = <<>>], root)
=============================================================================
