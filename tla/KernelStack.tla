---------------------------- MODULE KernelStack -------------------------------
(***************************************************************************)
(* The kernel stacks of kernel/mm/kernel_stack.c, as operators on a        *)
(* machine state s that has, besides the fields of Paging,                 *)
(*   s.slots  the slots marked in kernel_stack_bm                          *)
(*   s.base   the base page of the descriptor passed in, 0 if it has none  *)
(* The region of the stacks begins where the direct map ends.              *)
(***************************************************************************)
EXTENDS Paging

CONSTANTS
  KERNEL_STACK_MAX,    \* slots
  KERNEL_STACK_PAGES   \* pages of a stack

ASSUME KernelStackAssumption ==
  /\ KERNEL_STACK_MAX \in Nat /\ KERNEL_STACK_PAGES \in Nat \ {0}
  /\ KERNEL_PAGE + LOW_FRAMES + KERNEL_STACK_MAX * KERNEL_STACK_PAGES <= PAGES

KERNEL_STACK_BASE == KERNEL_PAGE + LOW_FRAMES

SlotBase(pos) == KERNEL_STACK_BASE + KERNEL_STACK_PAGES * pos
SlotOf(base)  == (base - KERNEL_STACK_BASE) \div KERNEL_STACK_PAGES
StackPages(base) == base .. (base + KERNEL_STACK_PAGES - 1)

(* Frame by frame, PMM_ALLOC_ANY and vm_kern_map; the slot is marked only  *)
(* at the end, so that a call that fails keeps the frames it has taken     *)
(* and leaves their pages mapped.                                          *)
kstack_alloc(s, kroot) ==
  LET unused == (0 .. (KERNEL_STACK_MAX - 1)) \ s.slots
      pos    == Min(unused)
      page(t, i) ==
        LET f == Min(t.free)
        IN  IF t.free = {} THEN Fail(t, "NOMEM")
            ELSE vm_kern_map([t EXCEPT !.free = @ \ {f}], kroot, SlotBase(pos) + i,
                             f, 1, {VM_GROWSDOWN, VM_READ, VM_WRITE})
      mark(t) == [t EXCEPT !.slots = @ \cup {pos}, !.base = SlotBase(pos)]
  IN  IF s.base # 0 THEN Fail(s, "EXISTS")
      ELSE IF unused = {} THEN Fail(s, "NOSPC")
      ELSE Then(ForEach(s, KERNEL_STACK_PAGES, page), mark)

(* Page by page: find the frame, unmap it, give it back; then the slot and *)
(* the descriptor are cleared.                                             *)
kstack_free(s, kroot) ==
  LET page(t, i) ==
        LET pte == arch_vm_translate(t.mem, kroot, s.base + i)
            release(u) == FreeFrame(u, pte.frame)
        IN  IF ~ pte.present THEN Fail(t, "NOENT")
            ELSE Then(vm_kern_unmap(t, kroot, s.base + i, 1), release)
      clear(t) == [t EXCEPT !.slots = @ \ {SlotOf(s.base)}, !.base = 0]
  IN  IF s.base = 0 THEN Fail(s, "NOENT")
      ELSE Then(ForEach(s, KERNEL_STACK_PAGES, page), clear)
=============================================================================
