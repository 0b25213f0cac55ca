------------------------------- MODULE Paging --------------------------------
(***************************************************************************)
(* The two-level page tables of kernel/arch/x86/mm.c and the kernel's own  *)
(* mappings of kernel/mm/kernel_vm.c, as operators on a machine state s:   *)
(*   s.mem   what each frame holds when it is read as a table of entries   *)
(*   s.free  the frames the PMM has free                                   *)
(*   s.tlb   the translations the CPU has cached, as <<page, entry>>       *)
(*   s.err   the error of the call so far, OK if there is none             *)
(* A call stops where the code returns, with what it has changed by then.  *)
(*                                                                         *)
(* Addresses are page numbers: a call whose address or size is not a       *)
(* multiple of the page size is refused before it changes anything.  No    *)
(* entry has the page-size bit, the kernel never sets it.                  *)
(***************************************************************************)
EXTENDS Integers, FiniteSets, FiniteSetsExt, Sequences, SequencesExt

CONSTANTS
  PTE_COUNT,        \* entries of a page directory or page table (1024)
  KERNEL_PDE_BASE,  \* first directory entry of the kernel half (768)
  LOW_FRAMES,       \* frames below KERNEL_LOWMEM_LIMIT, all direct mapped
  FRAMES,           \* frames of RAM
  TEXT_FRAMES,      \* the kernel's code is in frames 0 .. TEXT_FRAMES - 1,
  RODATA_FRAMES,    \* its read-only data in the RODATA_FRAMES after them,
  KERNEL_FRAMES     \* all of it below KERNEL_FRAMES, never in the PMM

ASSUME PagingAssumption ==
  /\ PTE_COUNT \in Nat /\ KERNEL_PDE_BASE \in 1 .. (PTE_COUNT - 1)
  /\ LOW_FRAMES \in Nat /\ FRAMES \in Nat /\ LOW_FRAMES <= FRAMES
  /\ TEXT_FRAMES \in Nat \ {0} /\ RODATA_FRAMES \in Nat \ {0}
  /\ KERNEL_FRAMES \in Nat
  /\ TEXT_FRAMES + RODATA_FRAMES <= KERNEL_FRAMES /\ KERNEL_FRAMES <= LOW_FRAMES
  /\ LOW_FRAMES <= PTE_COUNT * (PTE_COUNT - KERNEL_PDE_BASE)

Frame == 0 .. (FRAMES - 1)
Pool  == KERNEL_FRAMES .. (FRAMES - 1)
Index == 0 .. (PTE_COUNT - 1)

PAGES == PTE_COUNT * PTE_COUNT            \* pages of the address space
KERNEL_PAGE == KERNEL_PDE_BASE * PTE_COUNT  \* KERNEL_VIRT_OFFSET
UserPdes   == 0 .. (KERNEL_PDE_BASE - 1)
KernelPdes == KERNEL_PDE_BASE .. (PTE_COUNT - 1)

OK == "OK"

VM_READ == "R"
VM_WRITE == "W"
VM_EXEC == "X"
VM_USER == "U"
VM_GROWSDOWN == "G"
VmFlags == {VM_READ, VM_WRITE, VM_EXEC, VM_USER, VM_GROWSDOWN}

Entry == [present : BOOLEAN, frame : Nat, write : BOOLEAN, user : BOOLEAN]

NotPresent == [present |-> FALSE, frame |-> 0, write |-> FALSE, user |-> FALSE]
EmptyTable == [k \in Index |-> NotPresent]

x86_vm_flags_to_pte(frame, flags) ==
  [present |-> TRUE, frame |-> frame,
   write |-> VM_WRITE \in flags, user |-> VM_USER \in flags]

x86_vm_flags_to_pde(frame, flags) ==
  [present |-> TRUE, frame |-> frame, write |-> TRUE, user |-> VM_USER \in flags]

-----------------------------------------------------------------------------
Fail(s, code) == [s EXCEPT !.err = code]

(* KERR_TRY: go on with op unless the call before it failed.               *)
Then(s, op(_)) == IF s.err = OK THEN op(s) ELSE s

(* Run op on the numbers 0 .. n - 1 until one of them fails.               *)
ForEach(s, n, op(_, _)) ==
  FoldLeft(LAMBDA t, k : IF t.err = OK THEN op(t, k) ELSE t,
           s, [k \in 1 .. n |-> k - 1])

(* The PMM, as its callers here use it: one frame, the lowest free one.    *)
(* PMM_ALLOC_LOWMEM takes it below the direct-map limit.                   *)
LowFree(s) == s.free \cap (0 .. (LOW_FRAMES - 1))

Pde(va) == (va \div PTE_COUNT) % PTE_COUNT
Pte(va) == va % PTE_COUNT

x86_invlpg(s, va) == [s EXCEPT !.tlb = {c \in @ : c[1] # va}]

(* A zeroed table in a new frame.                                          *)
NewTable(s, frame) == [s EXCEPT !.free = @ \ {frame}, !.mem[frame] = EmptyTable]

arch_vm_translate(mem, root, va) ==
  LET pde == mem[root][Pde(va)]
  IN  IF pde.present THEN mem[pde.frame][Pte(va)] ELSE NotPresent

(* Make sure that the directory has a table for va.                        *)
WithTable(s, root, va, flags) ==
  IF s.mem[root][Pde(va)].present THEN s
  ELSE IF LowFree(s) = {} THEN Fail(s, "NOMEM")
  ELSE LET pt == Min(LowFree(s))
       IN  [NewTable(s, pt) EXCEPT
              !.mem[root][Pde(va)] = x86_vm_flags_to_pde(pt, flags)]

SetPte_NoInvlpg(s, root, va, pte) ==
  [s EXCEPT !.mem[s.mem[root][Pde(va)].frame][Pte(va)] = pte]

SetPte(s, root, va, pte) ==
  x86_invlpg([s EXCEPT !.mem[s.mem[root][Pde(va)].frame][Pte(va)] = pte], va)

arch_vm_map(s, root, virt, phys, n, flags) ==
  LET map(t, off) ==
        LET va == (virt + off) % PAGES
            enter(u) == IF arch_vm_translate(u.mem, root, va).present
                          THEN Fail(u, "EXISTS")
                          ELSE SetPte(u, root, va, x86_vm_flags_to_pte(phys + off, flags))
        IN  Then(WithTable(t, root, va, flags), enter)
  IN  ForEach(s, n, map)

arch_vm_unmap_OneLess(s, root, virt, n) ==
  LET unmap(t, off) == SetPte(t, root, virt + off, NotPresent)
  IN  ForEach(s, n - 1, unmap)

arch_vm_unmap(s, root, virt, n) ==
  LET unmap(t, off) ==
        IF arch_vm_translate(t.mem, root, virt + off).present
          THEN SetPte(t, root, virt + off, NotPresent)
          ELSE Fail(t, "NOENT")
  IN  ForEach(s, n, unmap)

arch_vm_protect(s, root, virt, n, flags) ==
  LET protect(t, off) ==
        LET pte == arch_vm_translate(t.mem, root, virt + off)
        IN  IF pte.present
              THEN SetPte(t, root, virt + off, x86_vm_flags_to_pte(pte.frame, flags))
              ELSE Fail(t, "NOENT")
  IN  ForEach(s, n, protect)

-----------------------------------------------------------------------------
(* A new, empty directory; its frame is the lowest of LowFree(s).          *)
arch_vm_space_init(s) ==
  IF LowFree(s) = {} THEN Fail(s, "NOMEM") ELSE NewTable(s, Min(LowFree(s)))

arch_vm_kernel_prepare_OneLess(s, root) ==
  LET prepare(t, k) ==
        WithTable(t, root, (KERNEL_PDE_BASE + k) * PTE_COUNT, {})
  IN  ForEach(s, PTE_COUNT - KERNEL_PDE_BASE - 1, prepare)

(* Every directory entry of the kernel half gets its table now: the copies *)
(* of the directory that processes hold are never updated.                 *)
arch_vm_kernel_prepare(s, root) ==
  LET prepare(t, k) ==
        WithTable(t, root, (KERNEL_PDE_BASE + k) * PTE_COUNT, {})
  IN  ForEach(s, PTE_COUNT - KERNEL_PDE_BASE, prepare)

arch_vm_space_attach_kernel_OneLess(s, root, kernel_root) ==
  [s EXCEPT !.mem[root] =
     [k \in Index |-> IF k \in KernelPdes \ {PTE_COUNT - 1}
                       THEN s.mem[kernel_root][k] ELSE @[k]]]

arch_vm_space_attach_kernel(s, root, kernel_root) ==
  [s EXCEPT !.mem[root] =
     [k \in Index |-> IF k \in KernelPdes THEN s.mem[kernel_root][k] ELSE @[k]]]

(* pmm_free of one frame.                                                  *)
FreeFrame(s, frame) ==
  IF frame \in s.free \/ frame \notin Frame
    THEN Fail(s, "INVAL") ELSE [s EXCEPT !.free = @ \cup {frame}]

arch_vm_space_destroy_DirectoryOnly(s, root) == FreeFrame(s, root)

(* The tables of the user half, then the directory.                        *)
arch_vm_space_destroy(s, root) ==
  LET release(t, k) ==
        LET pde == t.mem[root][k]
        IN  IF pde.present THEN FreeFrame(t, pde.frame) ELSE t
      directory(t) == FreeFrame(t, root)
  IN  Then(ForEach(s, KERNEL_PDE_BASE, release), directory)

-----------------------------------------------------------------------------
(* kernel/mm/kernel_vm.c: the kernel's mappings, in the directory root.    *)
vm_kern_range_valid(virt, n) ==
  /\ n # 0
  /\ virt >= KERNEL_PAGE
  /\ n - 1 <= PAGES - 1 - virt

vm_kern_map(s, root, virt, phys, n, flags) ==
  IF vm_kern_range_valid(virt, n)
    THEN arch_vm_map(s, root, virt, phys, n, flags) ELSE Fail(s, "INVAL")

vm_kern_unmap(s, root, virt, n) ==
  IF vm_kern_range_valid(virt, n)
    THEN arch_vm_unmap(s, root, virt, n) ELSE Fail(s, "INVAL")

vm_kern_protect(s, root, virt, n, flags) ==
  IF vm_kern_range_valid(virt, n)
    THEN arch_vm_protect(s, root, virt, n, flags) ELSE Fail(s, "INVAL")

(* The directory, all kernel tables, the direct map of low memory, then    *)
(* the code and the constants read-only.  A step is taken only when the    *)
(* one before it succeeded.                                                *)
vm_kern_init(s) ==
  LET root     == Min(LowFree(s))
      prepare(t) == arch_vm_kernel_prepare(t, root)
      direct(t)  == vm_kern_map(t, root, KERNEL_PAGE, 0, LOW_FRAMES,
                                {VM_READ, VM_WRITE})
      text(t)    == vm_kern_protect(t, root, KERNEL_PAGE, TEXT_FRAMES,
                                    {VM_READ, VM_EXEC})
      rodata(t)  == vm_kern_protect(t, root, KERNEL_PAGE + TEXT_FRAMES,
                                    RODATA_FRAMES, {VM_READ})
  IN  Then(Then(Then(Then(arch_vm_space_init(s), prepare), direct), text), rodata)
=============================================================================
