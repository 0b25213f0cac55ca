-------------------------------- MODULE VMM -----------------------------------
(***************************************************************************)
(* The address spaces at work: spaces are created, get ranges of pages     *)
(* mapped, unmapped and protected, are loaded into CR3 and destroyed,      *)
(* while the CPU caches translations of the loaded space.  The frames that *)
(* callers map are device memory or their own and never table frames.      *)
(***************************************************************************)
EXTENDS AddressSpace

CONSTANTS
  Space,        \* the address spaces (struct vm_space objects)
  HEAP,         \* VMAs that kmalloc can give out
  BootFrames,   \* the sets of frames the PMM may have free at vmm_init
  Ranges,       \* the user ranges of the calls, as <<first page, pages>>
  PHYS,         \* the first frame of what callers map
  Flags,        \* the flags of the calls
  CachedPages   \* the pages whose cached translation is tracked

ASSUME VmmAssumption == BootFrames \subseteq SUBSET Pool

VARIABLES
  phase,   \* "boot", "up", or "halted" after a failed initialization
  pool,    \* ghost: the frames free at vmm_init
  mem,     \* contents of the table frames
  free,    \* free frames
  heap,    \* VMAs left
  kroot,   \* kernel_vm.pd_phys
  root,    \* pd_phys of each space, 0 if it has none
  vmas,    \* the VMA list of each space
  cr3,     \* the loaded directory
  tlb,     \* cached translations
  torn     \* ghost: the spaces in which an arch_vm_map stopped half way

vars == <<phase, pool, mem, free, heap, kroot, root, vmas, cr3, tlb, torn>>

Live(v) == root[v] # 0

(* The machine as a call on space v sees it, and as the call leaves it.    *)
Machine(v) == [mem |-> mem, free |-> free, heap |-> heap, tlb |-> tlb,
               vmas |-> vmas[v], err |-> OK]

Becomes(v, s) ==
  /\ mem' = s.mem /\ free' = s.free /\ heap' = s.heap /\ tlb' = s.tlb
  /\ vmas' = [vmas EXCEPT ![v] = s.vmas]

Init ==
  /\ phase = "boot"
  /\ mem = [f \in Frame |-> EmptyTable]
  /\ pool \in BootFrames /\ free = pool
  /\ heap = HEAP
  /\ kroot = 0 /\ cr3 = 0
  /\ root = [v \in Space |-> 0]
  /\ vmas = [v \in Space |-> <<>>]
  /\ tlb = {} /\ torn = {}

(* vmm_init; when it fails, mm_init's caller panics.                       *)
vmm_init ==
  LET s == vm_kern_init([mem |-> mem, free |-> free, tlb |-> tlb, err |-> OK])
  IN  /\ phase = "boot"
      /\ mem' = s.mem /\ free' = s.free
      /\ IF s.err = OK
           THEN /\ phase' = "up"
                /\ kroot' = Min(LowFree([free |-> free]))
                /\ cr3' = kroot'
           ELSE /\ phase' = "halted"
                /\ UNCHANGED <<kroot, cr3>>
      /\ tlb' = {}
      /\ UNCHANGED <<pool, heap, root, vmas, torn>>

Create(v) ==
  LET s == vm_space_init(Machine(v), kroot)
  IN  /\ phase = "up" /\ ~ Live(v)
      /\ Becomes(v, s)
      /\ root' = [root EXCEPT ![v] =
                    IF s.err = OK THEN Min(LowFree(Machine(v))) ELSE 0]
      /\ UNCHANGED <<phase, pool, kroot, cr3, torn>>

Map(v, virt, n, flags) ==
  LET s == vm_map(Machine(v), root[v], virt, PHYS, n, flags)
  IN  /\ phase = "up" /\ Live(v)
      /\ Becomes(v, s)
      /\ torn' = IF s.err # OK /\ s.mem # mem THEN torn \cup {v} ELSE torn
      /\ UNCHANGED <<phase, pool, kroot, root, cr3>>

Unmap(v, virt, n) ==
  /\ phase = "up" /\ Live(v)
  /\ Becomes(v, vm_unmap(Machine(v), root[v], virt, n))
  /\ UNCHANGED <<phase, pool, kroot, root, cr3, torn>>

Protect(v, virt, n, flags) ==
  /\ phase = "up" /\ Live(v)
  /\ Becomes(v, vm_protect(Machine(v), root[v], virt, n, flags))
  /\ UNCHANGED <<phase, pool, kroot, root, cr3, torn>>

(* The only caller destroys a space it has just created, never a loaded    *)
(* one.                                                                    *)
Destroy(v) ==
  LET s == vm_space_destroy(Machine(v), root[v])
  IN  /\ phase = "up" /\ Live(v) /\ cr3 # root[v]
      /\ Becomes(v, s)
      /\ root' = IF s.err = OK THEN [root EXCEPT ![v] = 0] ELSE root
      /\ torn' = torn \ {v}
      /\ UNCHANGED <<phase, pool, kroot, cr3>>

(* arch_vm_space_load: writing CR3 empties the TLB (no page is global).    *)
vm_space_load(v) ==
  /\ phase = "up" /\ Live(v)
  /\ cr3' = root[v] /\ tlb' = {}
  /\ UNCHANGED <<phase, pool, mem, free, heap, kroot, root, vmas, torn>>

(* The CPU walks the loaded tables and keeps a translation it finds.       *)
CpuCaches(va) ==
  LET pte == arch_vm_translate(mem, cr3, va)
  IN  /\ phase = "up" /\ pte.present
      /\ tlb' = tlb \cup {<<va, pte>>}
      /\ UNCHANGED <<phase, pool, mem, free, heap, kroot, root, vmas, cr3, torn>>

Next ==
  \/ vmm_init
  \/ \E v \in Space : Create(v) \/ Destroy(v) \/ vm_space_load(v)
  \/ \E v \in Space, r \in Ranges : Unmap(v, r[1], r[2])
  \/ \E v \in Space, r \in Ranges, flags \in Flags :
       Map(v, r[1], r[2], flags) \/ Protect(v, r[1], r[2], flags)
  \/ \E va \in CachedPages : CpuCaches(va)

Spec == Init /\ [][Next]_vars
-----------------------------------------------------------------------------
(* The state has its types.                                                *)
TypeOK ==
  /\ phase \in {"boot", "up", "halted"}
  /\ mem \in [Frame -> [Index -> Entry]]
  /\ pool \in BootFrames /\ free \subseteq pool
  /\ heap \in 0 .. HEAP
  /\ kroot \in Frame /\ cr3 \in Frame /\ root \in [Space -> Frame]
  /\ \A v \in Space : vmas[v] \in Seq([start : Nat, end : Nat, flags : SUBSET VmFlags])
  /\ \A c \in tlb : c[1] \in CachedPages /\ c[2] \in Entry
  /\ torn \subseteq Space

(* What vmm.c says of its ranges: user addresses remain entirely below the *)
(* kernel's.  vm_user_range_valid compares the end of a range after it has *)
(* wrapped, so a range that ends at 2^32 passes and leaves a VMA whose end *)
(* is 0.                                                                   *)
VmasBelowKernel ==
  \A v \in Space : \A k \in DOMAIN vmas[v] :
    vmas[v][k].start < vmas[v][k].end /\ vmas[v][k].end <= VM_USER_END

(* What vmm.c records and what arch/x86/mm.c maps agree.  The VMAs of a    *)
(* space are sorted, not empty, disjoint and below the kernel half, which  *)
(* vm_add_vma's walk and vm_find_vma's early exit rely on; each of their   *)
(* pages is mapped, to its frame of the range, with the permissions of the *)
(* VMA; and nothing else is mapped in the user half, as long as none of    *)
(* the space's vm_map calls stopped half way.  This is for callers whose   *)
(* ranges do not end at 2^32, where VmasBelowKernel fails.                 *)
SpacesFollowVmas ==
  /\ TypeOK /\ VmasBelowKernel
  /\ \A v \in Space : \A k \in 1 .. Len(vmas[v]) :
       LET vma == vmas[v][k]
       IN  /\ k > 1 => vmas[v][k - 1].end <= vma.start
           /\ \A va \in vma.start .. (vma.end - 1) :
                arch_vm_translate(mem, root[v], va) =
                  x86_vm_flags_to_pte(PHYS + va - vma.start, vma.flags)
  /\ \A v \in Space \ torn : Live(v) =>
       \A va \in 0 .. (VM_USER_END - 1) :
         arch_vm_translate(mem, root[v], va).present => vm_find_vma(vmas[v], va) # 0

(* Every space has the kernel half of kernel_vm, whatever the kernel and   *)
(* the other spaces did since it was created; no user mapping makes a page *)
(* of it accessible to user mode or the kernel's code writable.            *)
KernelHalfShared ==
  /\ \A v \in Space : Live(v) =>
       \A k \in KernelPdes : mem[root[v]][k] = mem[kroot][k]
  /\ phase = "up" =>
       \A va \in KERNEL_PAGE .. (PAGES - 1) :
         LET pte == arch_vm_translate(mem, kroot, va)
         IN  /\ ~ pte.user
             /\ va < KERNEL_PAGE + TEXT_FRAMES + RODATA_FRAMES => ~ pte.write

(* The table frames of a directory: its own frame and its user tables.     *)
UserTables(v) == {mem[root[v]][k].frame : k \in {i \in UserPdes : mem[root[v]][i].present}}
KernelTables == {mem[kroot][k].frame : k \in KernelPdes}
PresentUserPdes == {<<v, k>> \in Space \X UserPdes : Live(v) /\ mem[root[v]][k].present}

(* Every frame the PMM handed out is exactly one table of one live space   *)
(* or of the kernel: no frame is two tables, none is free while in use,    *)
(* and destroying a space, or failing to create or to map, loses none.     *)
(* Each of them can be written through PHYS_TO_VIRT in the loaded space.   *)
TablesOwnedOnce ==
  phase = "up" =>
    LET live == {v \in Space : Live(v)}
        used == {kroot} \cup KernelTables \cup {root[v] : v \in live}
                  \cup UNION {UserTables(v) : v \in live}
    IN  /\ used = pool \ free
        /\ Cardinality(used) = 1 + Cardinality(KernelPdes) + Cardinality(live)
                                 + Cardinality(PresentUserPdes)
        /\ \A f \in used :
             LET pte == arch_vm_translate(mem, cr3, KERNEL_PAGE + f)
             IN  pte.present /\ pte.frame = f /\ pte.write

(* No cached translation outlives a change of the tables it was read       *)
(* from: each changed page of the loaded space is invalidated.             *)
TlbCoherent == \A c \in tlb : c[2] = arch_vm_translate(mem, cr3, c[1])
=============================================================================
