------------------------------- MODULE Process --------------------------------
(***************************************************************************)
(* Processes (kernel/process): PIDs, creation with its rollback, loading   *)
(* of an executable image, the stacks, the switch to user mode, and the    *)
(* interrupts that come from there, on the address spaces, kernel stacks,  *)
(* page tables and frames below them.                                      *)
(*                                                                         *)
(* A caller may go on after an error, as the functions allow it; kmain,    *)
(* their only caller, panics instead.  One more kernel stack, of no        *)
(* process, is allocated and freed meanwhile.                              *)
(***************************************************************************)
EXTENDS AddressSpace, KernelStack, Iwbf, Trap

CONSTANTS
  PID_MAX,          \* PIDs are below this
  HEAP,             \* objects (processes and VMAs) that kmalloc can give out
  BootFrames,       \* the sets of frames that may be free at vmm_init
  Images,           \* the executable images
  USER_STACK_TOP,   \* page after the user stack
  USER_STACK_PAGES

PID_FIRST == 1
Pids == PID_FIRST .. (PID_MAX - 1)

ASSUME ProcessAssumption ==
  /\ PID_MAX \in Nat /\ PID_MAX > PID_FIRST
  /\ \A b \in BootFrames : b \subseteq Pool
  /\ \A image \in Images : IsImage(image)

VARIABLES
  phase,   \* "boot", "up", or "user" once a process runs
  pool,    \* ghost: the frames free at vmm_init
  mem, free, heap, slots,
  pid_bm,  \* the PIDs marked in use
  state,   \* state of each process, "NONE" if the table has no such process
  root, vmas, base,  \* its directory, VMAs and kernel stack
  entry,   \* its entry point, 0 until process_load sets it
  sp,      \* the frame arch_process_stack_prepare has put on its kernel stack
  ready,   \* it was loaded, and prepared after that
  contents,  \* the units of the frames that process_load has filled
  segs,    \* ghost: the segments it was loaded with, <<image id, index>>
  spare,   \* base page of the kernel stack that belongs to no process
  cr3,
  data,    \* ghost: the frames allocated for its segments and user stack
  torn,    \* ghost: some call failed and left mappings or frames behind
  ret      \* result of the last call

vars == <<phase, pool, mem, free, heap, slots, pid_bm, state, root, vmas, base,
          entry, sp, ready, contents, segs, spare, cr3, data, torn, ret, trap_vars>>
memory == <<mem, free, heap, slots, contents>>
table  == <<state, root, vmas, base, entry, sp, ready, segs, data>>

kroot == Min(pool)

Machine == [mem |-> mem, free |-> free, heap |-> heap, slots |-> slots,
            contents |-> contents, pids |-> pid_bm, vmas |-> <<>>, base |-> 0,
            data |-> {}, segs |-> {}, torn |-> torn, tlb |-> {}, err |-> OK]

MachineOf(p) == [Machine EXCEPT !.vmas = vmas[p], !.base = base[p], !.data = data[p],
                                !.segs = segs[p]]

Becomes(s, call) ==
  /\ mem' = s.mem /\ free' = s.free /\ heap' = s.heap /\ slots' = s.slots
  /\ pid_bm' = s.pids /\ contents' = s.contents /\ torn' = s.torn
  /\ ret' = [call |-> call, err |-> s.err]
  /\ UNCHANGED trap_vars

Boot(b) == vm_kern_init([mem |-> [f \in Frame |-> EmptyTable], free |-> b,
                         tlb |-> {}, err |-> OK])

Zero == <<0, 0>>

(* After a successful mm_init.                                             *)
Init ==
  /\ phase = "boot"
  /\ pool \in {b \in BootFrames : Boot(b).err = OK}
  /\ mem = Boot(pool).mem /\ free = Boot(pool).free
  /\ heap = HEAP /\ slots = {} /\ pid_bm = {}
  /\ state = [p \in Pids |-> "NONE"]
  /\ root = [p \in Pids |-> 0]
  /\ vmas = [p \in Pids |-> <<>>]
  /\ base = [p \in Pids |-> 0]
  /\ entry = [p \in Pids |-> 0] /\ sp = [p \in Pids |-> <<>>]
  /\ ready = [p \in Pids |-> FALSE] /\ segs = [p \in Pids |-> {}]
  /\ contents = <<>>
  /\ spare = 0 /\ cr3 = Min(pool)
  /\ data = [p \in Pids |-> {}] /\ torn = FALSE
  /\ ret = [call |-> "none", err |-> OK]
  /\ cpu = Kmain /\ stack = <<>> /\ reported = NoReport /\ saved = <<>>

(* PID 0 is taken before any other.                                        *)
pid_init ==
  /\ phase = "boot"
  /\ phase' = "up"
  /\ pid_bm' = pid_bm \cup {0}
  /\ UNCHANGED <<pool, memory, table, spare, cr3, torn, ret, trap_vars>>

-----------------------------------------------------------------------------
FreePids == (0 .. (PID_MAX - 1)) \ pid_bm

pid_free(s, p) == [s EXCEPT !.pids = IF p \in Pids THEN @ \ {p} ELSE @]

kmalloc(s) == IF s.heap = 0 THEN Fail(s, "NOMEM") ELSE [s EXCEPT !.heap = @ - 1]
kfree(s) == [s EXCEPT !.heap = @ + 1]

(* kstack_alloc that fails after it has taken a frame loses it.            *)
Kstack(s) ==
  LET u == kstack_alloc(s, kroot)
  IN  IF u.err # OK /\ u.free # s.free THEN [u EXCEPT !.torn = TRUE] ELSE u

(* The failures of process_create after the process object was allocated:  *)
(* each undoes the steps before it and keeps the error.                    *)
AbortSpace(s, p) == kfree(pid_free(s, p))

AbortStack_KeepsSpace(s, p, pd) == kfree(pid_free(s, p))

AbortStack(s, p, pd) ==
  kfree(pid_free([vm_space_destroy([s EXCEPT !.err = OK], pd) EXCEPT !.err = s.err], p))

(* What process_create does with the PID p.                                *)
CreateWith(s, p, pd) ==
  LET proc  == kmalloc([s EXCEPT !.pids = @ \cup {p}])
      space == vm_space_init(proc, kroot)
      kstack == Kstack(space)
  IN  IF proc.err # OK THEN pid_free(proc, p)
      ELSE IF space.err # OK THEN AbortSpace(space, p)
      ELSE IF kstack.err # OK THEN AbortStack(kstack, p, pd)
      ELSE kstack

process_create ==
  LET p  == Min(FreePids)
      pd == Min(LowFree(Machine))
      s  == CreateWith(Machine, p, pd)
  IN  /\ phase = "up"
      /\ IF FreePids = {} THEN Becomes(Fail(Machine, "NOSPC"), "create")
                          ELSE Becomes(s, "create")
      /\ IF FreePids # {} /\ s.err = OK
           THEN /\ state' = [state EXCEPT ![p] = "CREATED"]
                /\ root'  = [root EXCEPT ![p] = pd]
                /\ base'  = [base EXCEPT ![p] = s.base]
           ELSE UNCHANGED <<state, root, base>>
      /\ UNCHANGED <<phase, pool, vmas, entry, sp, ready, segs, spare, cr3, data>>

-----------------------------------------------------------------------------
(* PMM_ALLOC_LOWMEM of a run of frames: the starts it may choose from.     *)
LowRuns(s, n) == {f \in LowFree(s) : f .. (f + n - 1) \subseteq LowFree(s)}

Take(s, f, n) == [s EXCEPT !.free = @ \ (f .. (f + n - 1)),
                           !.data = @ \cup (f .. (f + n - 1))]

Give_Nothing(s, f, n) == s

Give(s, f, n) == [s EXCEPT !.free = @ \cup (f .. (f + n - 1)),
                           !.data = @ \ (f .. (f + n - 1))]

SegFlags(seg) == {VM_USER} \cup seg.flags

(* memcpy of the file's part through the direct map, memset of the rest.   *)
Copied(s, f, image, seg) ==
  LET unit(off) == IF off < seg.file_size THEN Unit(image, seg.file_off + off) ELSE Zero
      page(k)   == [u \in 0 .. (PAGE_UNITS - 1) |-> unit(k * PAGE_UNITS + u)]
      frames    == f .. (f + seg.mem_size \div PAGE_UNITS - 1)
  IN  [s EXCEPT !.contents = [g \in DOMAIN @ \cup frames |->
                                IF g \in frames THEN page(g - f) ELSE @[g]]]

(* What process_load asks of a segment header, besides the parser.         *)
InsideFile(seg, image) ==
  /\ seg.file_off <= image.size
  /\ seg.file_size <= image.size - seg.file_off

(* One segment: frames, then the mapping, for which a failure gives the    *)
(* frames back.  Pages mapped before the failure stay mapped.              *)
LoadSegment(s, pd, image, i) ==
  LET seg_off == IWBF32_HDR_SIZE + IWBF32_SEGMENT_HDR_SIZE * i
      seg == image.table[i + 1]
      n == seg.mem_size \div PAGE_UNITS
      f == Min(LowRuns(s, n))
      t == Take(s, f, n)
      u == IF seg.vaddr % PAGE_UNITS = 0 /\ seg.mem_size % PAGE_UNITS = 0
             THEN vm_map(t, pd, seg.vaddr \div PAGE_UNITS, f, n, SegFlags(seg))
             ELSE Fail(t, "INVAL")
  IN  IF \/ ~ iwbf_parse_segment_hdr(seg, (image.size - seg_off) % (PAGES * PAGE_UNITS))
         \/ ~ InsideFile(seg, image)
         \/ n = 0
        THEN Fail(s, "INVAL")
      ELSE IF LowRuns(s, n) = {} THEN Fail(s, "NOMEM")
      ELSE IF u.err # OK THEN [Give(u, f, n) EXCEPT !.torn = @ \/ u.mem # t.mem]
      ELSE [Copied(u, f, image, seg) EXCEPT !.segs = @ \cup {<<image.id, i>>}]

(* Segments loaded before one that fails stay.                             *)
process_load(p, image) ==
  LET load(t, k) == LoadSegment(t, root[p], image, k)
      s == IF state[p] # "CREATED" \/ image.size = 0 \/ ~ iwbf_parse_hdr(image)
             THEN Fail(MachineOf(p), "INVAL")
             ELSE ForEach(MachineOf(p), SegmentCount(image), load)
  IN  /\ phase = "up" /\ state[p] # "NONE"
      /\ Becomes(s, "load")
      /\ vmas' = [vmas EXCEPT ![p] = s.vmas]
      /\ data' = [data EXCEPT ![p] = s.data]
      /\ segs' = [segs EXCEPT ![p] = s.segs]
      /\ entry' = [entry EXCEPT ![p] = IF s.err = OK THEN image.entry ELSE @]
      /\ ready' = [ready EXCEPT ![p] = @ /\ s.err # OK]
      /\ UNCHANGED <<phase, pool, state, root, base, sp, spare, cr3>>

(* The user stack, and the frame on the kernel stack that iret will take.  *)
(* A failing vm_map loses the frames of the user stack.                    *)
process_prepare(p) ==
  LET m == MachineOf(p)
      f == Min(LowRuns(m, USER_STACK_PAGES))
      u == vm_map(Take(m, f, USER_STACK_PAGES), root[p],
                  USER_STACK_TOP - USER_STACK_PAGES, f, USER_STACK_PAGES,
                  {VM_USER, VM_READ, VM_WRITE, VM_GROWSDOWN})
      s == IF state[p] # "CREATED" THEN Fail(m, "INVAL")
           ELSE IF LowRuns(m, USER_STACK_PAGES) = {} THEN Fail(m, "NOMEM")
           ELSE IF u.err # OK THEN [u EXCEPT !.torn = TRUE, !.data = m.data]
           ELSE u
  IN  /\ phase = "up" /\ state[p] # "NONE"
      /\ Becomes(s, "prepare")
      /\ vmas' = [vmas EXCEPT ![p] = s.vmas]
      /\ data' = [data EXCEPT ![p] = s.data]
      /\ sp' = [sp EXCEPT ![p] = IF s.err = OK
                                  THEN FirstFrame(entry[p], USER_STACK_TOP * PAGE_UNITS) ELSE @]
      /\ ready' = [ready EXCEPT ![p] = @ \/ (s.err = OK /\ entry[p] # 0)]
      /\ UNCHANGED <<phase, pool, state, root, base, entry, segs, spare, cr3>>

(* esp becomes the stack pointer that was prepared, then iret.             *)
arch_process_start(p) ==
  LET r == Iret(Kmain, sp[p])
  IN  cpu' = r.cpu /\ stack' = r.stack /\ UNCHANGED <<reported, saved>>

(* The end of kmain, which gets here only when loading and then preparing  *)
(* the process succeeded: vm_space_load, RUNNING, process_start.  The CPU  *)
(* does not return to kmain.                                               *)
process_start(p) ==
  /\ phase = "up" /\ ready[p]
  /\ phase' = "user"
  /\ cr3' = root[p]
  /\ state' = [state EXCEPT ![p] = "RUNNING"]
  /\ arch_process_start(p)
  /\ UNCHANGED <<pool, memory, pid_bm, root, vmas, base, entry, sp, ready, segs, spare,
                 data, torn, ret>>

(* x86_tss_set_kernel_stack: the end of the running process's stack.       *)
esp0(p) == base[p] + KERNEL_STACK_PAGES

(* In user mode, where the CPU pushes below esp0.                          *)
Interrupted(p) ==
  /\ phase = "user" /\ state[p] = "RUNNING"
  /\ LET pte == arch_vm_translate(mem, cr3, esp0(p) - 1)
     IN  Trap(pte.present /\ pte.write)
  /\ UNCHANGED <<phase, pool, memory, pid_bm, table, spare, cr3, torn, ret>>

(* The kernel stack outside of processes.                                  *)
SpareStack(s, call) ==
  /\ phase = "up"
  /\ Becomes(s, call)
  /\ spare' = s.base
  /\ UNCHANGED <<phase, pool, table, cr3>>

StackAlloc == SpareStack(Kstack([Machine EXCEPT !.base = spare]), "kstack_alloc")
StackFree  == SpareStack(kstack_free([Machine EXCEPT !.base = spare], kroot), "kstack_free")

Next ==
  \/ pid_init
  \/ process_create
  \/ StackAlloc \/ StackFree
  \/ \E p \in Pids : process_prepare(p) \/ process_start(p) \/ Interrupted(p)
  \/ \E p \in Pids, image \in Images : process_load(p, image)

Spec == Init /\ [][Next]_vars
-----------------------------------------------------------------------------
Live == {p \in Pids : state[p] # "NONE"}

(* The state has its types.                                                *)
TypeOK ==
  /\ phase \in {"boot", "up", "user"}
  /\ mem \in [Frame -> [Index -> Entry]]
  /\ free \subseteq pool /\ heap \in 0 .. HEAP
  /\ slots \subseteq 0 .. (KERNEL_STACK_MAX - 1)
  /\ pid_bm \subseteq 0 .. (PID_MAX - 1)
  /\ state \in [Pids -> {"NONE", "CREATED", "RUNNING"}]
  /\ root \in [Pids -> Frame] /\ data \in [Pids -> SUBSET pool]
  /\ \A p \in Pids : vmas[p] \in Seq([start : Nat, end : Nat, flags : SUBSET VmFlags])

(* A PID is in use exactly when a process has it, and PID 0 never is one;  *)
(* the heap's objects are one for each process and one for each VMA: every *)
(* failure of process_create gives both back.                              *)
ObjectsOwned ==
  /\ TypeOK
  /\ phase # "boot" => pid_bm = {0} \cup Live
  /\ HEAP - heap = FoldSet(LAMBDA p, n : n + 1 + Len(vmas[p]), 0, Live)

(* A failing process_create undoes what it did: the PIDs, the heap and the *)
(* kernel stacks are as before, no page of the user half is left, and no   *)
(* frame is lost, except in kstack_alloc, and then less than a stack.      *)
FailedCreateUndone ==
  [][(ret'.call = "create" /\ ret'.err # OK /\ phase = "up") =>
       /\ pid_bm' = pid_bm /\ heap' = heap /\ slots' = slots
       /\ free' \subseteq free
       /\ Cardinality(free \ free') <
            IF torn' THEN Max({2, KERNEL_STACK_PAGES}) ELSE 1]_vars

-----------------------------------------------------------------------------
TablesOf(p) == {root[p]} \cup
  {mem[root[p]][k].frame : k \in {i \in UserPdes : mem[root[p]][i].present}}
StackFrames(b) == {arch_vm_translate(mem, kroot, va).frame : va \in StackPages(b)}
KstackOf(p) == StackFrames(base[p])
SpareFrames == IF spare = 0 THEN {} ELSE StackFrames(spare)
KernelTables == {kroot} \cup {mem[kroot][k].frame : k \in KernelPdes}
FramesOf(p) == TablesOf(p) \cup KstackOf(p) \cup data[p]
UserPages(p) == {va \in 0 .. (VM_USER_END - 1) : arch_vm_translate(mem, root[p], va).present}

(* A process's tables, kernel stack, segments and user stack are different *)
(* frames, not free, not another process's and not the kernel's: also      *)
(* after calls that failed.  Until one fails and leaves something behind,  *)
(* a process can reach its own data frames in the user half and nothing    *)
(* else, each at one page, and every frame is free or somebody's.          *)
FramesHaveOneOwner ==
  /\ \A p \in Live :
       /\ TablesOf(p) \cap KstackOf(p) = {}
       /\ data[p] \cap (TablesOf(p) \cup KstackOf(p)) = {}
       /\ FramesOf(p) \cap (free \cup KernelTables \cup SpareFrames) = {}
       /\ Cardinality(KstackOf(p)) = KERNEL_STACK_PAGES
  /\ \A p, q \in Live : p # q => FramesOf(p) \cap FramesOf(q) = {}
  /\ SpareFrames \cap (free \cup KernelTables) = {}
  /\ ~ torn =>
       /\ \A p \in Live :
            /\ {arch_vm_translate(mem, root[p], va).frame : va \in UserPages(p)} = data[p]
            /\ Cardinality(UserPages(p)) = Cardinality(data[p])
       /\ pool = free \cup KernelTables \cup SpareFrames \cup UNION {FramesOf(p) : p \in Live}

(* No failing step of process_create and process_load leaves a PID, a heap *)
(* object, a table, a stack or a data frame without its owner or with two. *)
EverythingOwnedOnce == ObjectsOwned /\ FramesHaveOneOwner

ImageOf(id) == CHOOSE image \in Images : image.id = id

(* What iwbf.h says of segment_count, the number of segments the segment   *)
(* table describes: a process has an entry point only when that many       *)
(* segments of the image it came from are loaded.  iwbf_parse_hdr reads 16 *)
(* of the field's 32 bits, so an image with more segments is cut short.    *)
EntryNeedsAllSegments ==
  \A p \in Live : entry[p] # 0 =>
    \E image \in Images :
      /\ image.entry = entry[p]
      /\ \A i \in 0 .. (image.segment_count - 1) : <<image.id, i>> \in segs[p]

(* A segment that was loaded is where its header says, with the file's     *)
(* part from the file and zeros after it, in pages with the header's       *)
(* permissions; it still is after later calls, failed ones included, and   *)
(* the other process's.  Its header and its data lay inside the image:     *)
(* "size - seg_off" does not wrap, because the header before fitted.  A    *)
(* process has an entry point only when all segments of that image are     *)
(* loaded, for images whose segment_count fits the 16 bits that are read.  *)
SegmentsAsInFile ==
  /\ EntryNeedsAllSegments
  /\ \A p \in Live : \A x \in segs[p] :
     LET image == ImageOf(x[1])
         seg   == image.table[x[2] + 1]
         holds(va, off) ==
           LET pte == arch_vm_translate(mem, root[p], va \div PAGE_UNITS)
           IN  /\ pte.present /\ pte.user
               /\ pte.write <=> IWBF_SEG_FLAG_WRITE \in seg.flags
               /\ pte.frame \in DOMAIN contents
               /\ contents[pte.frame][va % PAGE_UNITS] =
                    IF off < seg.file_size THEN Unit(image, seg.file_off + off) ELSE Zero
     IN  /\ IWBF32_HDR_SIZE + IWBF32_SEGMENT_HDR_SIZE * (x[2] + 1) <= image.size
         /\ seg.file_off + seg.file_size <= image.size
         /\ \A off \in 0 .. (seg.mem_size - 1) : holds(seg.vaddr + off, off)

(* When a process starts, the tables that CR3 points to have its user      *)
(* stack, open to user mode and writable, and its kernel stack, which was  *)
(* mapped in kernel_vm after the process's directory was made.             *)
RunningHasStacks ==
  \A p \in Pids : state[p] = "RUNNING" =>
    /\ cr3 = root[p]
    /\ \A va \in (USER_STACK_TOP - USER_STACK_PAGES) .. (USER_STACK_TOP - 1) :
         LET pte == arch_vm_translate(mem, cr3, va)
         IN  pte.present /\ pte.write /\ pte.user /\ mem[cr3][Pde(va)].user
    /\ \A va \in StackPages(base[p]) :
         LET pte == arch_vm_translate(mem, cr3, va)
         IN  pte.present /\ pte.write /\ ~ pte.user
    /\ cpu.eip # SHUTDOWN

(* The process starts at its entry point with interrupts on.  From then on *)
(* an interrupt, nested or not, shows its handler the frame of what it     *)
(* interrupted, and returns to exactly that; panic is the only other end.  *)
InterruptsTransparent ==
  [][/\ (FrameOfInterrupted)' /\ ReturnsToInterrupted
     /\ \A p \in Pids : state[p] # "RUNNING" /\ state'[p] = "RUNNING" =>
          Level(cpu') = 3 /\ cpu'.eip = entry[p] /\ IfSet(cpu') /\ stack' = <<>>]_vars
=============================================================================
