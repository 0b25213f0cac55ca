------------------------------ MODULE KernelMain ------------------------------
(***************************************************************************)
(* From the kernel's entry to the first process: kernel.asm turns paging   *)
(* on and clears .bss, boot_init takes over what stage 2 left in its own   *)
(* memory, and kmain runs the initialisers one after the other; the last   *)
(* of them load and start BIN/SYSTEM.BIN from where stage 2 put it.        *)
(*                                                                         *)
(* The module follows what these steps do to memory.  An initialiser whose *)
(* inside is the subject of another module may succeed or fail.  A unit is *)
(* also a frame; behind the units of kernel.bin come the boot page         *)
(* directory (one unit), .bss and the bitmap of the frames.                *)
(***************************************************************************)
EXTENDS BootLoader

CONSTANTS
  BSS_UNITS,       \* units of .bss
  FIRST_MIB,       \* units of the first MiB
  BITMAP_FRAMES    \* frames whose bits fill one unit of the bitmap

VARIABLES
  call,            \* what kmain calls next, an index of Initialisers
  boot_state       \* kernel_boot_state, with the entries it points to

kernelVars == <<call, boot_state>>
vars == <<mkimageVars, bootVars, kernelVars>>

DIRECTORY == <<"boot_page_directory", 0>>
BITMAP == <<"bitmap", 0>>
KERNEL_DATA == <<"kernel data", 0>>     \* tables, heap, frames of processes

NoBootState == [memory_map |-> <<>>, system_image |-> 0, system_image_size |-> 0]

Initialisers ==
  << "mm_init", "arch_init", "irq_init", "arch_irqchip_init", "platform_init",
     "initcalls_invoke_devdrv", "process_create", "process_load", "process_prepare",
     "vm_space_load", "process_start" >>

Calling(f) == stage = "kmain" /\ Initialisers[call] = f

-----------------------------------------------------------------------------
(* linker.ld: the sections that kernel.bin has no bytes for.               *)
init_bss_start == KERNEL_AT + nodes[Kernel].size
bss_start == init_bss_start + 1
kernel_end == bss_start + BSS_UNITS

KernelInPlace == InPlace(KERNEL_AT, Kernel)

Panic(why) ==
  /\ stage' = "panic"
  /\ fault' = (fault \/ why = "failed")

(* Without page size extensions the kernel stops.  "lost": the processor   *)
(* executes something else than the kernel, or with variables overwritten. *)
_start ==
  /\ stage = "kernel"
  /\ IF ~KernelInPlace THEN stage' = "lost" /\ UNCHANGED <<mem, fault>>
     ELSE \/ /\ Place(init_bss_start, <<DIRECTORY>>)
             /\ stage' = "higher_half"
             /\ UNCHANGED fault
          \/ Halt("bios") /\ UNCHANGED mem
  /\ UNCHANGED <<call, boot_state>>

higher_half ==
  /\ stage = "higher_half"
  /\ mem' = [u \in bss_start .. (kernel_end - 1) |-> ZERO] @@ mem
  /\ stage' = "boot_init"
  /\ UNCHANGED <<fault, call, boot_state>>

(* boot_init, then kmain's look at the magic value.  The entries are       *)
(* copied into an array of BOOT_MEMORY_MAP_MAX, however many there are.    *)
boot_init ==
  /\ stage = "boot_init"
  /\ IF boot_info.memory_map_count > BOOT_MEMORY_MAP_MAX
     THEN stage' = "lost" /\ UNCHANGED <<fault, boot_state>>
     ELSE /\ boot_state' = [memory_map |-> SubSeq(e820_buffer, 1, boot_info.memory_map_count),
                            system_image |-> boot_info.system_image,
                            system_image_size |-> boot_info.system_image_size]
          /\ IF boot_info.magic = BOOT_MAGIC THEN stage' = "kmain" /\ UNCHANGED fault
             ELSE Panic("magic")
  /\ UNCHANGED <<mem, call>>

-----------------------------------------------------------------------------
(* mm_init: pmm_init writes the bitmap behind the kernel; what it leaves   *)
(* free the kernel may write from then on.  With no frame free vmm_init    *)
(* fails.                                                                  *)
UsableEntries == {e \in ToSet(boot_state.memory_map) : e.type = 1}
Top == Max({0} \cup {e.end : e \in UsableEntries})
bitmap_end == kernel_end + ((Top + BITMAP_FRAMES - 1) \div BITMAP_FRAMES)

(* Variant: without the reservation of the first MiB.                      *)
FreeFrames_LowMemory ==
  UNION {e.base .. (e.end - 1) : e \in UsableEntries} \ (KERNEL_AT .. (bitmap_end - 1))

FreeFrames ==
  UNION {e.base .. (e.end - 1) : e \in UsableEntries}
    \ (0 .. (FIRST_MIB - 1) \cup KERNEL_AT .. (bitmap_end - 1))

mm_init ==
  /\ Calling("mm_init")
  /\ mem' = [u \in kernel_end .. (bitmap_end - 1) |-> BITMAP]
              @@ [u \in FreeFrames |-> KERNEL_DATA] @@ mem
  /\ \/ /\ FreeFrames # {}
        /\ call' = call + 1
        /\ UNCHANGED <<stage, fault>>
     \/ /\ Panic(IF FreeFrames = {} THEN "memory" ELSE "failed")
        /\ UNCHANGED call
  /\ UNCHANGED boot_state

(* The others write only frames that pmm_init left free.  The result of    *)
(* the drivers' initcalls is ignored; process_load needs an image.         *)
Initialise ==
  /\ stage = "kmain"
  /\ ~Calling("mm_init")
  /\ \/ /\ Calling("process_load") => boot_state.system_image_size > 0
        /\ IF call = Len(Initialisers) THEN stage' = "user" /\ UNCHANGED call
           ELSE call' = call + 1 /\ UNCHANGED stage
        /\ UNCHANGED fault
     \/ /\ ~Calling("initcalls_invoke_devdrv")
        /\ Panic(IF Calling("process_load") /\ boot_state.system_image_size = 0
                 THEN "empty" ELSE "failed")
        /\ UNCHANGED call
  /\ UNCHANGED <<mem, boot_state>>

-----------------------------------------------------------------------------
Init ==
  /\ MkimageInit
  /\ BootInit
  /\ call = 1
  /\ boot_state = NoBootState

KernelNext ==
  /\ _start \/ higher_half \/ boot_init \/ mm_init \/ Initialise
  /\ UNCHANGED <<volume, job, step, cluster, es, si, size, e820_buffer, boot_info>>

Processor ==
  \/ BootNext /\ UNCHANGED <<mkimageVars, kernelVars>>
  \/ KernelNext /\ UNCHANGED mkimageVars

Next ==
  \/ MkimageNext /\ UNCHANGED <<bootVars, kernelVars>>
  \/ Processor

(* The processor keeps executing the boot code.                            *)
Spec == Init /\ [][Next]_vars /\ WF_vars(Processor)

-----------------------------------------------------------------------------
(* Properties.                                                             *)

(* The kernel reaches its first process on what was built.  The processor  *)
(* gets lost only when the active partition is not where mkimage put the   *)
(* volume, stage2.bin does not fit below the FAT sector's buffer,          *)
(* kernel.bin does not fit or the BIOS has more than BOOT_MEMORY_MAP_MAX   *)
(* entries.  The directory that CR3 points to outlives the clearing of     *)
(* .bss.  kmain has the BIOS's memory map, entry for entry, after the      *)
(* memory of stage 2 may have been given away, and its own code; and when  *)
(* process_load reads the system image, it is all of system.bin, provided  *)
(* that the bitmap, which grows with the memory of the machine, ends below *)
(* it.                                                                     *)
KernelStartsAsBuilt ==
  /\ stage = "lost" =>
       \/ volume.entries[find_active_partition].lba_start # volume.entries[1].lba_start
       \/ ~Fits(Stage2, FAT_SEC_AT - STAGE2_AT)
       \/ ~Fits(Kernel, SYSTEM_AT - KERNEL_AT)
       \/ Len(e820_buffer) > BOOT_MEMORY_MAP_MAX
  /\ stage = "boot_init" \/ Calling("mm_init") => mem[init_bss_start] = DIRECTORY
  /\ stage \in {"kmain", "user"} => KernelInPlace /\ boot_state.memory_map = e820_buffer
  /\ /\ Calling("process_load")
     /\ Fits(System, FIRST_MIB - SYSTEM_AT)
     /\ bitmap_end <= SYSTEM_AT
     => /\ HoldsFile(boot_state.system_image, System)
        /\ boot_state.system_image_size = nodes[System].size

(* A loader or a kernel that gives up has a reason: the BIOS or a device   *)
(* failed it, the volume is not a valid one or was too small for its tree, *)
(* a file is not on the image, stage 2 is too long, the system image is    *)
(* empty, or no memory is usable.                                          *)
HaltsForCause ==
  /\ stage = "halted" =>
       \/ fault
       \/ find_active_partition = 0
       \/ ~stage2_validate(volume, volume.entries[find_active_partition])
       \/ 0 \in {Stage2, Kernel, System}
       \/ ~Fits(Stage2, MBR_AT - STAGE2_AT)
       \/ ~TreeFits
  /\ stage = "panic" => fault \/ nodes[System].size = 0 \/ FreeFrames = {}

(* Booting comes to an end: no chain of mkimage sends the loader round,    *)
(* and no initialiser of the kernel is called twice.                       *)
BootEnds == (phase = "done") ~> (stage \in {"user", "panic", "halted", "lost"})
=============================================================================
