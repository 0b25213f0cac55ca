# A TLA+ model of ItWorksOS

ItWorksOS is a 32-bit x86 kernel with its own boot loader and disk-image
builder. This directory holds TLA+ modules that model its parts, TLC runs that
check them on small instances, and TLAPS proofs about the physical memory
manager, the kernel heap, the interrupt layer with its timer, the device model, the
log and the linked lists. `PROJECT.json` lists the components, the runs, the source lines
behind every definition, the hazards and the theorems.

Contents: 1 the system · 2 the modules · 3 the runs · 4 bounds and fairness ·
5 the proofs · 6 where the code differs from its own words · 7 what is not
modelled · 8 plan

## 1. The system

`tools/mkimage` writes a FAT32 image from `config/disk.files`. The BIOS runs the
MBR, which loads the VBR, which loads stage 2, which loads the kernel and the
first user program and fills `boot_info`. `kmain` then sets up memory, the IRQ
layer, the devices (through initcalls), creates one process and starts it in
user mode. There is one CPU and no scheduler; concurrency comes from interrupts
and exceptions that cut into the main thread.

| Part (source) | State | Operations | What is hard about it |
|---|---|---|---|
| Physical memory (`kernel/mm/pmm.c`) | bitmap, `free_frames`, `total_frames` | `pmm_init`, `pmm_alloc`, `pmm_free` | scan with a window and a fallback; counter and bitmap kept apart; rounding around the kernel and the bitmap |
| Kernel heap (`kernel/mm/kheap.c`) | boundary tags, free list in the blocks | `kheap_init`, `kmalloc`, `kfree` | split, two-sided merge and relinking in any order |
| Page tables (`kernel/arch/x86/mm.c`, `kernel/mm/kernel_vm.c`) | directories and tables in frames, TLB | map, unmap, protect, translate, space init, attach, destroy, load | failures half way; copies of kernel entries; stale translations |
| Address spaces (`kernel/mm/vmm.c`) | sorted VMA lists | `vm_map`, `vm_unmap`, `vm_protect`, `vm_space_*` | agreement of list and tables after failures |
| Kernel stacks (`kernel/mm/kernel_stack.c`) | slot bitmap | `kstack_alloc`, `kstack_free` | no rollback |
| Processes, PIDs (`kernel/process`) | PID bitmap, process table | `process_create`, `process_load`, `process_prepare`, start | rollback at each of four steps; memory running out |
| IRQ layer (`kernel/irq`) | number bitmap, descriptors, maps | set up and destroy a map, request, free, dispatch | number ranges reused after maps are destroyed |
| 8259 and 8254 (`kernel/drivers/irqchip`, `.../timer`) | mask, request and in-service registers; timer mode, counter | mask, unmask, end of interrupt, start and stop of the timer | spurious interrupts; callbacks that restart their timer; read-modify-write of masks; intervals at the counter's limits |
| Interrupt entry (`kernel/arch/x86/interrupt`, `.../cpu`) | gates, descriptors, the kernel stack's words | stubs, dispatch, `iretd`, the first entry to user mode | error codes on some vectors only; a user stack only from user mode; nesting through the gate of `int 0x80` |
| Device model (`kernel/device`, `kernel/core/initcall.c`) | lists of the bus, bindings | `bus_add_device`, `bus_add_driver`, probes | link order decides the order of registration; probes fail half way |
| Console (`kernel/console`, `kernel/drivers/video/vga`) | cells, cursor, CRTC | write, clear, set cursor | wrap, tab, backspace and scroll in one text |
| Log and panic (`kernel/log`, `kernel/klib/ringbuf.c`) | byte ring | `printk`, `panic`, `syslog_read` | indices that wrap; exceptions in the middle of an append |
| klib (`klib/list.h`, `klib/printf.c`) | links of nodes; buffer position and total | insert, remove, replace, pop, walk; `vsnprintf` | nodes that are their own neighbours; removal during a walk; texts that end at the buffer's end |
| mkimage (`tools/mkimage`) | tree, FAT, clusters | parse, prepare, write, flush | first clusters are needed before the data; empty and vanishing files |
| Boot loader (`bootloader/x86`) | memory below 1 MiB, registers | look up and load files, E820, jump | 16-bit offsets; loads over what is still needed; failing reads |
| Kernel start (`kernel.asm`, `kernel/core`) | memory map, `kernel_boot_state` | paging, `.bss`, `boot_init`, the initialisers of `kmain` | what stage 2 left is read long after its memory may be given away |

How the parts meet: processes use address spaces, kernel stacks, the heap and
frames; address spaces and stacks use the page tables, which take frames from the
PMM; drivers use the device model, the heap and the IRQ layer, and the IRQ layer
drives the 8259; the log writes to the ring and the console; the boot loader reads
what mkimage wrote and the kernel what the loader left in memory; a process is
started and interrupted through the frames on its kernel stack.

The properties that make the system correct: a frame, block, cluster, IRQ number
or PID has one owner; records and what they describe (VMAs and tables, counter and
bitmap, tags and list, tree and image) agree after every sequence of calls; a call
that fails leaves nothing behind, or what it leaves is known and harmless;
interrupts are ended once and masks say what drivers asked for; the log's end and
the boot's end are reached.

## 2. The modules

An operation of the code is an action, or an operator on a machine-state record
where one operation calls another (page tables, stacks, address spaces), so that
a composed module runs the whole call in one step, as the kernel does with no
other thread to see the middle. Where something can see the middle (interrupt
handlers, exceptions, the scan whose loop is the subject) the steps are those of the code.

| Module | Models | Correspondence |
|---|---|---|
| `PmmFrames` | rounding, windows and runs of frames | `StartFrame`, `MaxFrame`, `Fits`: the window and the runs of `pmm_alloc` |
| `PMM` | the PMM, one step per call | `bm`, `free_frames`, `total_frames`; ghost: the memory map and the runs held by callers |
| `PmmScan` | one call of `pmm_alloc`, one step per loop iteration | `i`, `consecutive`, the recursive fallback as a second activation |
| `FrameAllocator` | abstract: what a frame allocator promises | implemented by `PMM` |
| `KHeap` | the heap, word by word | `mem` holds tags, list pointers and callers' data in the same words |
| `Heap` | abstract: disjoint live ranges in an arena | implemented by `KHeap` |
| `Paging` | `arch/x86/mm.c` and `kernel_vm.c` as operators | `mem`: frame to table; `err` stops the rest of a call; `tlb` loses what `invlpg` names |
| `AddressSpace` | `vmm.c` as operators | `vmas`: the list, `heap`: VMAs left to `kmalloc` |
| `VMM` | spaces at work: create, map, unmap, protect, load, destroy | the CPU caches translations at any time |
| `KernelStack` | `kernel_stack.c` as operators | `slots`, and `base` of the descriptor passed in |
| `Iwbf` | the parsers of the executable format as operators | an image is its fields; offsets and counts keep their width |
| `Trap` | GDT, TSS, IDT, the interrupt stubs, the register frame and `iretd` | encodings as the C code writes them, decoded again by the CPU; the kernel stack is a sequence of words; ghost: what each interrupt in progress cut into |
| `Process` | PIDs, creation, loading, preparing, starting and interrupting processes | composed of `AddressSpace`, `KernelStack`, `Paging`, `Iwbf` and `Trap`; one more stack of no process is taken and freed meanwhile |
| `Irq` | the IRQ layer: numbers, maps, descriptors | one action per function |
| `I8259` | the pair of controllers | registers as sets of lines; the choice of the next vector is the hardware's |
| `I8254` | the conversion of an interval to the counter's bytes | operators on numbers with the clock and the byte as parameters |
| `TimerIrq` | `irq_dispatch`, the i8254 driver, drivers that mask lines and request and free their handlers | the CPU is in the main thread or at one point of the handler; a mask update is a read and a write; ghost: lines left in service because they had no handler |
| `Devices` | the bus and the probes of i8254 and vga_text | the next initcall is any that is left; `TryEach` is the loop of `bus_add_device` or `bus_add_driver` over the pairs it matches; ghost: who was tried, and how many devices each driver found on the bus |
| `Console` / `Terminal` | vga_text / abstract sheet of rows | cells as a flat buffer |
| `Printf` | `vsnprintf`, one character or conversion per step | `pb` is `struct printf_buffer`; ghost: the call's items |
| `LinkedList` | `list.h`, write by write | `links`; `walk` holds the two variables of `list_for_each_safe` |
| `Library` | composition of `Console`, `Printf`, `LinkedList` and `Log` | they share no state; a behaviour uses one of them |
| `Log` / `BoundedLog` | printk, panic, ring / abstract log of the newest bytes | an append is three accesses with an exception possible between any two |
| `FsTree`, `Fat32Image` | tree of `disk.files`, both passes of mkimage and the flush | a disk unit is one value; `wr` is the file being written |
| `BootLoader` | MBR, VBR and stage 2 on mkimage's image | memory and addresses in units; a read may fail at any step; a jump to what is not the program that was built goes to the stage "lost" |
| `KernelMain` | `kernel.asm`, `boot_init`, `kmain` behind mkimage and the loader | extends `BootLoader`: the same memory from the disk's image to the first process |
| `MC…` | instances for TLC | constants; `MCPMM` and `MCDrivers` also put `PmmScan` beside `PMM` and `Irq` beside `Devices`, which share no state, into one state space |
| `BasicFacts` | lemmas about division, least elements, set sizes, induction and loops | used by the proofs |
| `PMMProofs` (`PMM`, `PmmScan`), `KHeapProofs`, `TimerIrqProofs` (`TimerIrq`, `I8254`), `IrqProofs`, `DevicesProofs`, `LogProofs`, `LinkedListProofs` | theorems | section 5 |

Definitions whose name ends in `_` and a word (`pmm_free_ClearsOneLess`) are
variants of the definition that follows, with a plausible mistake. No
specification uses them; each shows that some property would notice the mistake.

## 3. The runs

Each run is `tlc -config <cfg> <module>`.

| Run | Module, cfg | Distinct states | What it shows |
|---|---|---|---|
| `pmm` | `MCPMM`, `PMM.cfg` | 65 064 | For five memory maps and every sequence of calls: the counter equals the clear bits, no frame has two holders, the first MiB, the kernel and the bitmap are never handed out, nothing but usable RAM is, no frame is lost, and the PMM implements `FrameAllocator`; for every bitmap of six frames and a grid of requests the loop and its fallback return the lowest run that fits, stay in the window and terminate |
| `kheap` | `KHeap`, `KHeap.cfg` | 26 624 | Blocks tile the heap with equal tags, no free neighbours and no lost block; the list is the free blocks, in both directions; callers' words are never written; the heap implements `Heap` |
| `vmm` | `MCVMM`, `VMM.cfg` | 114 301 | VMAs and tables agree; the kernel half is shared and closed; every table frame has one owner; the TLB is coherent |
| `vmm_top` | `MCVMM`, `VmmTop.cfg` | violation | A user mapping that ends at the top of the address space is accepted (section 6) |
| `process` | `MCProcess`, `Process.cfg` | 57 868 | PIDs, heap objects and frames have one owner at every point where memory runs out; a failed `process_create` is undone; memory holds the segments as the file describes them; a started process has both its stacks in the loaded tables; a handler sees the frame of what its interrupt cut into, and device interrupts and `int n`, nested too, return to exactly that, while exceptions and NMIs end in the panic |
| `process_count` | `MCProcess`, `ProcessCount.cfg` | violation | A file with a segment count of more than 16 bits is prepared without all its segments (section 6) |
| `timer` | `TimerIrq`, `TimerIrq.cfg` | 392 120 | Each interrupt of a line with a handler is ended once, spurious ones leave nothing, and only lines that had no handler stay in service; masks and the timer's line are as drivers asked; the counter runs for the interval asked for; a stopped timer calls nobody; a periodic timer keeps ticking |
| `timer_rearm` | `TimerIrq`, `TimerRearm.cfg` | violation | A one-shot timer restarted from its own callback is turned off by the handler (section 6) |
| `devices` | `MCDrivers`, `Devices.cfg` | 782 842 | Probes take all they need or nothing; a registered device is tried by each matching driver, except behind the one at which `bus_add_driver` ends its loop; the IRQ maps partition the allocated numbers; a line's descriptor leads back to it and calls the handler requested for it |
| `devices_each` | `MCDevices`, `DevicesEach.cfg` | violation | Two devices wait for one driver and only the first is tried (section 6) |
| `library` | `MCLibrary`, `Library.cfg` | 50 942 | The flat cell buffer implements `Terminal`; `vsnprintf` writes the text a format stands for, cut at the buffer's end, and returns its length; lists behave as sequences in both directions, and a walk that removes nodes sees each node once; readers of the log see the newest bytes in order; a panic halts, and a halted machine's log ends in its last message |
| `boot` | `MCKernelMain`, `KernelMain.cfg` | 209 444 | From the lines of `disk.files` to user mode: clusters have one owner, the image holds the tree, what runs is what was built, `kmain` has the BIOS's memory map and the system image when it needs them, and booting ends, halting only for a reason |

Each property has a variant of some definition (listed in `PROJECT.json`) under
which TLC finds it violated, so none holds by the shape of the model.

Deadlock is checked where the system never stops. It is not checked where it
does: after a failed initialization or the jump to user mode (`vmm`, `process`),
after a panic (`process`, `boot`), when all initcalls have run (`devices`) and when the loader has halted or the first process runs (`boot`).

## 4. Bounds and fairness

Sizes are those at which every case of the code occurs, small enough for all states.

- `pmm`: 12 frames of 4 bytes; maps with holes, unaligned ends, no RAM above the
  kernel and none at all; requests of 0 to 8 pages with each policy and unaligned
  windows; frees of held runs, and refused frees of any address. Frames are few because every
  rounding case occurs within two neighbours.
  The loop of `pmm_alloc` runs by itself on 6 frames, all 64 bitmaps, with windows that
  are empty, unaligned and beyond the end.
- `kheap`: 112 bytes, which hold up to four blocks, so that a block can have free
  neighbours on both sides, one or none; sizes that round, that split and that do not fit.
- `vmm`: 5 entries per table (15 user pages, 10 kernel pages), 2 spaces, 2 VMAs on
  the heap, and either too few frames to boot or enough for four more tables. Ranges
  overlap, cross tables and reach the kernel half; those of `vmm_top` end at the top.
  One page's translation is cached.
- `process`: 2 PIDs, 6 heap objects, 3 stack slots of 2 pages, five sets of boot
  frames from too few for one process to enough to start one beside another, one with
  a gap; eight images, good and bad, of pages of two units; one vector of each kind
  (fault without and with an error code, NMI, device, system call), two interrupts at a time.
  A 16-bit field has 4 values, and an image of `process_count` has 5 segments.
- `timer`: lines 0, 7 and 15: the timer and both lines with a spurious vector, 15 behind the
  cascade and before 7, with a handler that comes and goes.
  A clock of 3 ticks in 10 ns and bytes of 4 values, with the two intervals at each end of
  the range; the proofs have no such bound.
- `devices`: 2 timers on one line, 2 text consoles, 3 drivers, heaps with room for 0, 1, 2 and 4;
  beside it 4 IRQ numbers, 2 controllers of 1 to 3 lines, 2 handlers. Maps and handlers are
  only compared, so their permutations are symmetries.
- `library`: 3 x 3 cells, tabs of 2, texts that wrap, scroll and go back over a row's
  start; words of 7 bits, all of them in each numeric conversion, buffers of 0, 1, 3, 4
  and 12 characters; two lists of three nodes, the least with a middle node;
  a ring of 4 bytes with indices modulo 8, a buffer of 3, at most 2 exceptions.
- `boot`: clusters of 2 units, tables of 18 and of 6 entries (the latter fill up), directories
  of four entries, up to four lines of six, six sets of host files (stage 2 of one to three
  clusters, the longest over the MBR), four volumes (no active partition, one of another type,
  one that is not the first), two BIOS maps, one of more
  entries than `boot_init` has room for; the kernel's load crosses a 64 KiB boundary.

Fairness is that of a CPU that goes on executing.

- `PmmScan` (in `MCPMM`), `Log` (in `Library`), `KernelMain`: weak fairness of the running code's next step.
- `TimerIrq`: weak fairness of the handler's steps, of the second half of a mask
  update and of the counter, which is hardware. Strong fairness of turning
  interrupts on and of taking an interrupt: the kernel's sections with interrupts
  off end, and a CPU with interrupts on takes what the controller asks for.
  `PeriodicKeepsTicking` is claimed only for timers left in periodic mode.
- The other specifications state no liveness and have no fairness.

## 5. The proofs

TLAPS proves, for every value of the constants (frame sizes, memory maps, requests,
lines, controllers, clocks, devices, drivers, heaps, messages, nodes and lists):

| Theorem | Statement |
|---|---|
| `PMMProofs!FramesAccounted` | after every call each frame is free, reserved or held by one caller, and `free_frames` is the number of clear bits |
| `PMMProofs!OnlySpareMemory` | only usable RAM is handed out, and nothing of low memory, kernel or bitmap (from `CriticalMemorySafe` and `OnlyUsable`) |
| `PMMProofs!Implements` | `PMM` implements `FrameAllocator` |
| `PMMProofs!AllocationAsAsked` | loop and fallback return the lowest run that fits, or fail when there is none, and a strict allocation lies inside the byte window (from `ScanIsLowestFit` and `StrictWindow`) |
| `PMMProofs!FreeCount` | the call keeps the counter |
| `KHeapProofs!HeapBlocksSound` | the tags tile the heap and agree at both ends of each block, no two neighbours are free, the allocated blocks are the live allocations, and with all given back there is one block |
| `KHeapProofs!HeapFreeList` | the free list is exactly the free blocks, linked both ways |
| `KHeapProofs!HeapPayloadUntouched` | the heap writes nothing into what it has handed out |
| `KHeapProofs!HeapImplementsContract` | `KHeap` implements `Heap` |
| `TimerIrqProofs!CountLasts` | the bytes written for an interval in range make a counter that runs for it, less than a tick short, and does not wrap |
| `TimerIrqProofs!EveryInterruptEnded` | whenever handlers are requested and freed, nothing stays in service but lines whose own interrupt found no handler: each other interrupt is ended by its own command, and spurious ones leave nothing |
| `TimerIrqProofs!MasksFollowCalls` | with interrupts off around mask updates, masks are as asked and the timer's line follows its mode |
| `TimerIrqProofs!CounterAsAsked` | a running counter has the ticks of its interval |
| `TimerIrqProofs!EventsOnlyWhenOwed` | no event without a start |
| `IrqProofs!MapsPartition` | the live maps are disjoint and together the numbers taken |
| `IrqProofs!HandlersServe` | a handler sits on a descriptor that leads to the line it was requested for, on a live map of a controller that is ready |
| `DevicesProofs!ProbesOwn` | a bound device has all its probe takes and an unbound one nothing, and bindings match and are listed |
| `DevicesProofs!NobodyPassedOver` | a registered device without a driver was tried by each matching registered driver, unless it was registered behind a device that the driver bound (`TriedUntilFirstBound`) |
| `LogProofs!RingIsBoundedLog` | `Log` implements `BoundedLog` |
| `LogProofs!HaltSaid` | a halted machine has its last message at the end of the log and at the start of what the console got last |
| `LinkedListProofs!LinksStayMutual` | every link has its counterpart |
| `LinkedListProofs!WalkStaysInList` | in a walk that removes nodes, the current and the next node are reached from the list's head, and are neighbours (`WalkOnList`) |

Assumptions (TLC evaluates them in the runs): the frame size is not 0
(`FrameSizeAssumption`); bounds are natural numbers, the first MiB is frame
aligned, map entries are well typed and give no more than `MaxFrames` frames
(`PmmAssumption`); requests are well typed (`ScanAssumption`); the heap is made of
words, holds a block and ends below the top of the address space, and the sizes asked
for do not wrap when the tags are added, as the callers' `sizeof`s do not
(`HeapAssumption`); the counter's clock is
no faster than one tick per nanosecond, and the shortest interval has two ticks
(`ClockAssumption`); lines are those of two 8259s, without the cascade's
(`LinesAssumption`), the timer's among them (`TimerAssumption`); ranges of lines are pairs of naturals (`IrqAssumption`), and the null pointer is no
map or handler (`NoneAssumption`); device and driver kinds are disjoint, null is none of
them, and a timer's line is a natural (`DevicesAssumption`); the ring has room, and the
range of its indices is a multiple of its capacity and larger, as 2^32 is of 4096
(`LogAssumption`); messages are sequences of characters (`MessageAssumption`); nodes,
lists and `NULL` are different things (`ListAssumption`). Addresses are
unbounded naturals: 64-bit wrap-around is outside the model, since 32-bit physical
memory stays far below it.

The argument for `PMM`. None of the safety invariants is inductive alone: that no
frame is handed out twice needs every held frame's bit to be set, the counter needs
held runs to be disjoint, and what `pmm_init` reserved stays reserved only because
callers give back what they hold: `pmm_free` itself clears any run of set bits.
That contract of the callers is the guard of the action `pmm_free`; calls that the
code refuses may have any arguments. `PInv` is the conjunction of types, counter,
disjointness, no loss and `ReservedNotHeld` (before `pmm_init` nothing is held,
and afterwards nothing of the initial bitmap is). `CriticalMemorySafe` and
`OnlyUsable` follow from `PInv` and the rounding in `InitBitmap` (`DivFacts`). The
refinement uses the same invariant: each call is a step of the allocator or a
stutter.

The argument for `PmmScan`. `ScanInv` says that until the call returns the bitmap
is the one it found, that the activation is the first or a fallback after a window
without a run (`Activation`), and in the loop that the last `consecutive` frames are
clear, that the run before them is as long as it can be, and that no run that fits
ends before the current frame (`LoopInv`). At `ScanFound` the run is then the least.
`RunCount`, with `MarkRun` and `ClearRun` of `BasicFacts`, counts what marking and
clearing a run changes.

The argument for `KHeap`. The properties compute the blocks by a walk along the tags
and the list by following its pointers, from which nothing can be said about a heap
whose tags have just changed. `HeapInv` names both instead: there is a set `B` of
block starts that tiles the heap (`Tiles`), a sequence that runs through the free
blocks from the list's head back to it (`Ring`), the live allocations are the other
blocks, with room for what was asked and with what their owners wrote (`Held`), and no
two free blocks are neighbours. `State` is that without the last clause and for a list that
holds only some of the free blocks, because between the writes of one `kfree` a block is
free and not yet listed, or listed and about to be merged. Each function of the code
takes a `State` to a `State`: `InsertLinks`, `RemoveLinks` and `ReplaceLinks` for the
pointers, whose neighbours may be the head itself; `Enlist`, `Unlist`, `ClearFlag`,
`Merge`, `Take` and `Cut` for the blocks. `kfree` is then composed of them for each
combination of free neighbours (`Widened` after the previous block, `Settled` after the
next one). That the walks find what the invariant names is
`BlocksAre`, `NodesMet` and `FirstFitIs`, by induction along the walk; the walk along
the list ends in time because its nodes lie 20 bytes apart (`ListLength`).

The argument for `TimerIrq`. `TimerInv` says at each point of `irq_dispatch` which
lines are in service (`InService`: lines left without a handler, and while a vector is
being dispatched its own, or for a spurious one nothing or the cascade), that a timer that is on owes an event
except while that of a one-shot is being delivered (`EventOwed`), and, for drivers
that hold interrupts off, what the mask updates still to come will make of the masks
(`MasksOnTheWay`) with nobody between the read and the write (`UpdatesAlone`). The
mask property alone is not inductive: in the middle of an update of two registers
neither the old nor the new masks hold. That the count is right rests on two facts
about rounding: the range's lower end is at least one tick, because
`I8254_MIN_DELTA_NS` has two and loses less than one to rounding, and its upper end
at most 65535.

The argument for `Irq`. `MapsPartitionIrqs` is inductive with the types of maps;
the work is in `irq_alloc_range`, whose lowest free run touches no live map because
the bitmap is exactly their union. `HandlersServeTheirLine` is not inductive: set-up is
refused half way when a number's descriptor is left from a destroyed map, so `IrqInv`
also says which descriptors lead where while a controller is not ready
(`Unconfigured`, `LinesServed`) and that a requested handler's controller is ready
(`OwnersReady`). What the loop of `i8259_init` has done when it is stopped at any line
is `ConfigureResult`.

The argument for `Devices`. `DevInv` adds to the two properties that the lists of the
bus are what is registered, without repetition (`Listed`), and that the heap's objects,
lines, list of timers and console have bound owners (`Owned`): an unbound device owns
nothing only if nothing else can own in its name. `ProbeOwned` shows that each early return of a
probe restores `Owned`; `LoopResult` is what the loop over the pairs has tried and
bound when it ends or is stopped, from `TryStep` for one turn. A device added later is
tried by its own loop and not by a driver's, so that who was tried is carried over
registrations by `TriedBefore`.

The argument for `Log`. `LogInv` relates the three accesses of an append: what of the
current message is written is at the end of the log but for the character that gives
way (`Progress`, `Written`), and once the messages of a panic are out the last one is
there (`Said`). Neither property holds at the next step from itself alone, because a
message is in the ring character by character and a nested exception replaces the
messages still to come. The refinement maps the ring to the characters from `tail` to
`head` (`View`); `RoomView`, `StoreView` and `AdvanceView` say what each access does to
them while both indices wrap.

The argument for `LinkedList`. Mutual links are not enough: a node removed from
between two others could be its own neighbour in a ring without a head, and a walk
could leave its list. `ListInv` gives each linked node the list that owns it and a
rank that rises along `next` up to the head; both are found anew for each function
(an inserted node gets the rank behind its predecessor's, and higher ranks move up by one).
That a node is reached from the head of the list that owns it (`OwnerReaches`) is by
the least rank of a node that is not: its predecessor has a lower one.

Loops are recursive functions (`Configure`, `TryEach`, the walks of `KHeap`), and what they compute for every
number of turns is proved by induction in the form that a set with 0 and with every
successor holds all naturals (`SetInduction`, `LoopExists` in `BasicFacts`); the
library's induction rules take a predicate as parameter, which the provers cannot
instantiate.

Only model-checked: the page tables, address spaces, processes, interrupt
entry, console, `vsnprintf`, image and boot; that lists act as sequences
(`ActsOnSequences`); and liveness (`Terminates`, `PeriodicKeepsTicking`, `PanicHalts`,
`BootEnds`), which the prover does not do. Page tables, spaces and processes are operators that take
operators (`ForEach`, `Then`), which the provers do not expand under a fold.

## 6. Where the code differs from its own words

Four disagreements are runs that end in a violation.

- `timer_rearm`: `i8254_irq_handler` calls the event and then, in one-shot mode,
  disables the timer (`i8254.c:154`). A callback that starts the next one-shot is
  turned off with it, although `timer_device.h:83` promises the event for each start.
- `devices_each`: `bus_add_driver` ends its loop at the first device that it binds
  (`bus.c:90`), although `bus.h:102` says that it goes over each device and tries
  those that match. What is true is `TriedUntilFirstBound`, in run `devices`.
- `vmm_top`: a user range that ends at 2^32 passes `vm_user_range_valid`, because its
  end wraps to 0 (`vmm.c:33`); line 21 says that user addresses remain "entirely below"
  the kernel half. Run `vmm` has `VmasBelowKernel` as a part of `SpacesFollowVmas`, for ranges
  that end below.
- `process_count`: `iwbf.c:26` reads 16 bits of `segment_count`, which `iwbf.h:67`
  declares with 32 as the number of segments of the file. A file with more is loaded
  without the rest, and gets its entry point. Run `process` has `EntryNeedsAllSegments`
  as a part of `SegmentsAsInFile`, for counts of 16 bits.

Others were met while modelling. The modules have the behaviour where it matters to
a property; each note gives the line and what the repository says elsewhere.

| Where | What the code does |
|---|---|
| `kernel/mm/kheap.c:214` | `kfree` turns away a live pointer of at most 20 bytes in the heap's last block; `kheap.h:27` says that it frees a block of `kmalloc`. `KHeap` has it: the block stays allocated |
| `kernel/mm/kheap.c:111` | rounding up a size within three bytes of 2^32 gives 0, and adding the tags wraps for one within 23; `HeapAssumption` leaves these sizes out, no caller passes one |
| `kernel/arch/x86/mm.c:225` | the user bit of a directory entry is that of the first page mapped in its table; line 77 leaves permissions to the page entries |
| `kernel/irq/map.c:39` | `irq_map_destroy` frees numbers and keeps their descriptors, so the next map of those numbers gets `KERR_BUSY`; `Irq` has it |
| `kernel/drivers/irqchip/i8259.c:142` | a mask update is a read and a write; with interrupts on, a handler's change in between is undone. `TimerIrq` has it; the mask properties are claimed for callers with interrupts off |
| `kernel/core/boot.c:21` | copies as many memory-map entries as the loader found into an array of `BOOT_MEMORY_MAP_MAX`; `KernelMain` has it (stage "lost") |
| `kernel/drivers/video/vga/vga_text.c:270` | a probe that fails leaves the freed structure in `driver_data` |
| `kernel/klib/ringbuf.c:19` | `ringbuf_overwrite` is not atomic for handlers that log; none does today |
| `kernel/log/printk.c:31` | the console is given the length before truncation, so more than the message that line 8 says is printed; the log gets the truncated text. `Log` has it |
| `tools/mkimage/fat32.c:136` | an empty file writes the end mark to the reserved entry 0; `Fat32Image` has it |
| `tools/mkimage/fat32.c:133`, `:57` | a full table gives cluster 0, unnoticed; the table has more entries than the partition has clusters. `Fat32Image` has the first; the second is left out (section 7) |
| `tools/mkimage/tree.c:51` | names that differ only in case become two entries of one 8.3 name |
| `bootloader/x86/vbr/fat32_vbr.asm:66` | a stage 2 longer than 29 952 bytes is loaded over the MBR, which `boot_process.md:73` wants kept until stage 2 has read it; a longer one runs into the buffer for the table. `BootLoader` has both |
| `kernel/irq/irq.c:144` | `irq_dispatch` ends no interrupt of a line without a handler, and `irq_free` does not mask the line; `TimerIrq` has it |
| `bootloader/x86/stage2/e820.asm:31` | entries are stored without a bound; `stage2.asm:770` sets room for 64 aside |

## 7. What is not modelled

- CPUID, control registers, flags and port I/O: single instructions. Their effects
  are in the modules of their callers.
- The halves of a gate's address (`idt.c`): a gate names its stub.
- `memory.c` and `string.c`, of which `memset`, `memcpy` and `strcmp` have callers:
  these have the effect of the call. The bitmap's words: a bitmap is a set of bits.
- `conv.c`, `ringbuf_push`, `ringbuf_pop`, `pmm_reserve`: no caller.
- The little-endian reading of IWBF's fields; an image is its fields.
- The insides of the initialisers in `KernelMain`, which are the subjects of `PMM`,
  `VMM`, `Irq`, `Devices` and `Process`; there each may succeed or fail.
- Colours and the other CRTC registers; 4 MiB pages, which the code creates only in
  the boot directory; the real-mode stack.
- The end of the partition: a table of `Fat32Image` has as many entries as there are clusters.
- A directory of more entries than its cluster holds, where `fat32.c:238` writes behind its
  buffer: `DirectoryContents` stops at `DIR_CAPACITY`, which the trees of the instance fill and do not exceed.
- The BPB of a partition other than the first, on which mkimage puts nothing.
- Build rules and scripts; the sample user program.

## 8. Plan

Order so far: the PMM and its proofs; heap; page tables, address spaces, stacks
and processes on top of each other; IRQ layer, controllers and timer; devices;
console and log; image and boot loader; then the executable format and interrupt
entry in `Process`, the kernel's start behind the loader, the counter's arithmetic,
`vsnprintf` and the lists, and the proofs about timer, IRQ numbers, lists, devices, log and heap. What is
left, in order:

1. Proofs: ownership of clusters in `Fat32Image`; the page tables of `VMM`, whose loops first become recursive functions.
2. A directory of more entries than a cluster in `Fat32Image`.
3. `KernelMain` with the initialisers' own modules in place of success or failure.
