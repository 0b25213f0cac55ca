------------------------------ MODULE BootLoader ------------------------------
(***************************************************************************)
(* From power-on to the kernel's first instruction, on an image that       *)
(* mkimage made: the MBR loads the VBR, the VBR finds BOOT/STAGE2.BIN and  *)
(* loads it, and stage 2 checks the volume, loads BOOT/KERNEL.BIN and      *)
(* BIN/SYSTEM.BIN, asks the BIOS for the memory map and enters the kernel. *)
(*                                                                         *)
(* Memory holds units as the image does; an address counts units.  Every   *)
(* read of the disk may fail.                                              *)
(***************************************************************************)
EXTENDS Fat32Image

CONSTANTS
  Volumes,         \* partition entries and BPBs: the fields stage 2 checks
  VBR_AT, STAGE2_AT, MBR_AT, FAT_SEC_AT, KERNEL_AT, SYSTEM_AT,
  OFF_LIMIT,       \* units in 64 KiB, the range of a 16-bit offset
  BiosMaps,        \* memory maps of BIOSes; each may also end earlier
  BOOT_MEMORY_MAP_MAX, \* entries that e820_buffer has room for
  BOOT_MAGIC

ASSUME LayoutAssumption ==
  /\ VBR_AT < STAGE2_AT /\ STAGE2_AT < MBR_AT /\ MBR_AT < FAT_SEC_AT
  /\ FAT_SEC_AT < OFF_LIMIT /\ OFF_LIMIT <= KERNEL_AT /\ KERNEL_AT < SYSTEM_AT

VARIABLES
  volume,        \* what the MBR and the VBR on the image say
  stage,         \* "mbr", "vbr", "stage2", "e820", "video", "protected",
                 \* "kernel", "halted" or "lost"; those of the kernel follow
  job, step,     \* the stage's current job and its next step
  cluster,       \* current cluster of a directory or a file
  es, si,        \* where the next cluster goes; es counts units too
  mem,           \* units of memory that the loader has written
  size,          \* ECX: the size of the system image
  e820_buffer,   \* the entries read so far; BP is their number
  boot_info,     \* with EAX, the magic value
  fault          \* whether the BIOS has reported an error or a lack

bootVars == <<volume, stage, job, step, cluster, es, si, mem, size, e820_buffer, boot_info, fault>>

MBR == <<"mbr", 0>>
VBR == <<"vbr", 0>>
FATSECTOR == <<"fat", 0>>
GARBAGE == <<"garbage", 0>>

-----------------------------------------------------------------------------
(* Reading the image.  Cluster numbers below 2 lie in front of the data.   *)
UnitsRead(c) == IF c < 2 THEN [i \in 1 .. CLUSTER_SIZE |-> GARBAGE] ELSE UnitsOf(c)
EntriesRead(c) == IF c >= 2 /\ c \in DOMAIN data THEN data[c].entries ELSE <<>>

fat32_read_fat_entry(c) == tables[1][c]

MatchIn_ButLast(c, name) ==
  LET Named(e) == e.name = name IN SelectInSubSeq(EntriesRead(c), 1, Len(EntriesRead(c)) - 1, Named)

(* The first entry of that name in one cluster, or 0.                      *)
MatchIn(c, name) ==
  LET Named(e) == e.name = name IN SelectInSeq(EntriesRead(c), Named)

Place(at, units) == mem' = [a \in at .. (at + Len(units) - 1) |-> units[a - at + 1]] @@ mem

Halt(why) ==
  /\ stage' = "halted"
  /\ fault' = (fault \/ why = "bios")

(* disk_read_lba with its carry set: every caller gives up.                *)
disk_read_fails ==
  /\ phase = "done"
  /\ \/ stage \in {"mbr", "vbr"}
     \/ stage = "stage2" /\ step \in {"read", "next"}
  /\ Halt("bios")
  /\ UNCHANGED <<volume, job, step, cluster, es, si, mem, size, e820_buffer, boot_info>>

-----------------------------------------------------------------------------
(* The tree's node of a path of 8.3 names, or 0.                           *)
NodeOf(dir, name) ==
  LET In(d, u) == {n \in DOMAIN nodes : nodes[n].parent = d /\ Upper[nodes[n].name] = u}
      found == UNION {In(d, name) : d \in In(Root, dir)}
  IN  IF found = {} THEN 0 ELSE CHOOSE n \in found : TRUE

Stage2 == NodeOf("BOOT", "STAGE2.BIN")
Kernel == NodeOf("BOOT", "KERNEL.BIN")
System == NodeOf("BIN", "SYSTEM.BIN")

HoldsFile(at, n) ==
  \A i \in 1 .. nodes[n].size :
    at + i - 1 \in DOMAIN mem /\ mem[at + i - 1] = ContentUnit(nodes[n].host, i)

(* The processor executes what lies at that address.                       *)
InPlace(at, n) == nodes[n].type = "file" /\ nodes[n].size > 0 /\ HoldsFile(at, n)

-----------------------------------------------------------------------------
(* MBR.                                                                    *)
find_active_partition ==
  LET Active(e) == e.boot_indicator = 128 IN SelectInSeq(volume.entries, Active)

(* mkimage puts the volume where the first entry says; on an entry that    *)
(* leads elsewhere the MBR jumps into whatever the image has there.        *)
mbr_stage ==
  /\ phase = "done"
  /\ stage = "mbr"
  /\ LET active == find_active_partition
     IN  IF active = 0 THEN Halt("volume") /\ UNCHANGED mem
         ELSE /\ IF volume.entries[active].lba_start = volume.entries[1].lba_start
                 THEN stage' = "vbr" /\ Place(VBR_AT, <<VBR>>)
                 ELSE stage' = "lost" /\ Place(VBR_AT, <<GARBAGE>>)
              /\ UNCHANGED fault
  /\ UNCHANGED <<volume, job, step, cluster, es, si, size, e820_buffer, boot_info>>

(* The BIOS has no LBA extensions.                                         *)
disk_check_lba_extensions_fails ==
  /\ phase = "done"
  /\ stage = "mbr"
  /\ find_active_partition # 0
  /\ Halt("bios")
  /\ UNCHANGED <<volume, job, step, cluster, es, si, mem, size, e820_buffer, boot_info>>

-----------------------------------------------------------------------------
(* VBR: jobs 1 and 2 look up BOOT and STAGE2.BIN, each in one cluster that *)
(* is loaded to STAGE2_AT first; job 3 loads the file there.  The pointer  *)
(* si moves by its high byte, which drops carries.                         *)
VbrName == <<"BOOT", "STAGE2.BIN">>

vbr_find_entry ==
  /\ stage = "vbr"
  /\ job \in {1, 2}
  /\ Place(si, UnitsRead(cluster))
  /\ LET i == MatchIn(cluster, VbrName[job])
     IN  IF i = 0
         THEN Halt("missing") /\ UNCHANGED <<job, cluster>>
         ELSE /\ job' = job + 1
              /\ cluster' = EntriesRead(cluster)[i].cluster
              /\ UNCHANGED <<stage, fault>>
  /\ UNCHANGED <<volume, step, es, si, size, e820_buffer, boot_info>>

LoadPtrAfter(p) == (p + CLUSTER_SIZE) % OFF_LIMIT

load_stage2 ==
  /\ stage = "vbr"
  /\ job = 3
  /\ step = "read"
  /\ Place(si, UnitsRead(cluster))
  /\ si' = LoadPtrAfter(si)
  /\ step' = "next"
  /\ UNCHANGED <<volume, stage, job, cluster, es, size, e820_buffer, boot_info, fault>>

FollowChain_Stuck(next) == cluster

FollowChain(next) == next

get_next_cluster ==
  /\ stage = "vbr"
  /\ job = 3
  /\ step = "next"
  /\ Place(FAT_SEC_AT, <<FATSECTOR>>)
  /\ LET next == fat32_read_fat_entry(cluster)
     IN  IF next < FAT_EOF
         THEN /\ cluster' = FollowChain(next)
              /\ step' = "read"
              /\ UNCHANGED <<stage, job>>
         ELSE /\ stage' = "stage2"
              /\ step' = "init"
              /\ UNCHANGED <<cluster, job>>
  /\ UNCHANGED <<volume, es, si, size, e820_buffer, boot_info, fault>>

-----------------------------------------------------------------------------
(* Stage 2: six jobs, each a lookup in a directory (the root or the one    *)
(* found before) or the load of a file found before.                       *)
Jobs == << [op |-> "find", root |-> TRUE,  name |-> "BOOT",       at |-> 0],
           [op |-> "find", root |-> FALSE, name |-> "KERNEL.BIN", at |-> 0],
           [op |-> "load", root |-> FALSE, name |-> "",           at |-> KERNEL_AT],
           [op |-> "find", root |-> TRUE,  name |-> "BIN",        at |-> 0],
           [op |-> "find", root |-> FALSE, name |-> "SYSTEM.BIN", at |-> 0],
           [op |-> "load", root |-> FALSE, name |-> "",           at |-> SYSTEM_AT] >>

(* With entry e of the partition table.                                    *)
stage2_validate(v, e) ==
  /\ e.boot_indicator = 128
  /\ e.type = 12
  /\ e.lba_start = v.hidden_sectors
  /\ e.lba_start # 0
  /\ v.bytes_per_sector = 512
  /\ v.sectors_per_cluster # 0
  /\ v.number_fats # 0
  /\ v.root_cluster >= 2
  /\ v.total_sectors_16 = 0
  /\ v.total_sectors_32 > 0
  /\ v.fat_size_32 > 0

OffsetFor_Kept(j) == si

OffsetFor(j) == IF Jobs[j].op = "load" THEN 0 ELSE si

(* Job j with the cluster of the entry found last.                         *)
Start(j, c) ==
  IF j > Len(Jobs)
  THEN /\ stage' = "e820"
       /\ boot_info' = [boot_info EXCEPT !.system_image = SYSTEM_AT, !.system_image_size = size]
       /\ UNCHANGED <<job, step, cluster, es, si>>
  ELSE /\ job' = j
       /\ step' = "read"
       /\ cluster' = IF Jobs[j].root THEN ROOT_CLUSTER ELSE c
       /\ es' = IF Jobs[j].op = "load" THEN Jobs[j].at ELSE es
       /\ si' = OffsetFor(j)
       /\ UNCHANGED <<stage, boot_info>>

(* The VBR jumps to STAGE2_AT; unless stage 2 is there the processor is    *)
(* lost.  stage2_init copies the BPB and the partition entry that the MBR  *)
(* selected from where VBR and MBR were loaded; if they are gone it copies *)
(* anything.                                                               *)
Validated ==
  IF mem[MBR_AT] = MBR /\ mem[VBR_AT] = VBR
  THEN {stage2_validate(volume, volume.entries[find_active_partition])}
  ELSE BOOLEAN

stage2_init ==
  /\ stage = "stage2"
  /\ step = "init"
  /\ InPlace(STAGE2_AT, Stage2)
  /\ \E valid \in Validated :
       IF valid THEN Start(1, 0) /\ UNCHANGED fault
       ELSE Halt("volume") /\ UNCHANGED <<job, step, cluster, es, si, boot_info>>
  /\ UNCHANGED <<volume, mem, size, e820_buffer>>

Stage2NotInPlace ==
  /\ stage = "stage2"
  /\ step = "init"
  /\ ~InPlace(STAGE2_AT, Stage2)
  /\ stage' = "lost"
  /\ UNCHANGED <<volume, job, step, cluster, es, si, mem, size, e820_buffer, boot_info, fault>>

InJob(op, s) == stage = "stage2" /\ step = s /\ Jobs[job].op = op

(* An entry that was never written ends the search: not every place of     *)
(* the cluster is taken.                                                   *)
EndsIn(c) == c >= 2 /\ Len(EntriesRead(c)) < DIR_CAPACITY

fat32_find_entry ==
  /\ InJob("find", "read")
  /\ LET i == MatchIn(cluster, Jobs[job].name)
         e == EntriesRead(cluster)[i]
     IN  CASE i # 0 ->
                Start(job + 1, e.cluster) /\ size' = e.size /\ UNCHANGED fault
           [] i = 0 /\ EndsIn(cluster) ->
                Halt("missing") /\ UNCHANGED <<job, step, cluster, es, si, size, boot_info>>
           [] OTHER ->
                step' = "next" /\ UNCHANGED <<stage, job, cluster, es, si, size, boot_info, fault>>
  /\ UNCHANGED <<volume, mem, e820_buffer>>

FindInNextCluster ==
  /\ InJob("find", "next")
  /\ LET next == fat32_read_fat_entry(cluster)
     IN  IF next >= FAT_BAD_CLUSTER
         THEN Halt("missing") /\ UNCHANGED <<step, cluster>>
         ELSE /\ cluster' = next
              /\ step' = "read"
              /\ UNCHANGED <<stage, fault>>
  /\ UNCHANGED <<volume, job, es, si, mem, size, e820_buffer, boot_info>>

(* The segment moves on by 64 KiB when the 16-bit offset o overflows.      *)
Segment(s, o) == IF o + (CLUSTER_SIZE % OFF_LIMIT) >= OFF_LIMIT THEN s + OFF_LIMIT ELSE s

fat32_load_file ==
  /\ InJob("load", "read")
  /\ Place(es + si, UnitsRead(cluster))
  /\ si' = (si + CLUSTER_SIZE) % OFF_LIMIT
  /\ es' = Segment(es, si)
  /\ step' = "next"
  /\ UNCHANGED <<volume, stage, job, cluster, size, e820_buffer, boot_info, fault>>

LoadNextCluster ==
  /\ InJob("load", "next")
  /\ LET next == fat32_read_fat_entry(cluster)
     IN  CASE next = FAT_BAD_CLUSTER ->
                Halt("missing") /\ UNCHANGED <<job, step, cluster, es, si, boot_info>>
           [] next >= FAT_EOF ->
                Start(job + 1, cluster) /\ UNCHANGED fault
           [] OTHER ->
                /\ cluster' = next
                /\ step' = "read"
                /\ UNCHANGED <<stage, job, es, si, boot_info, fault>>
  /\ UNCHANGED <<volume, mem, size, e820_buffer>>

-----------------------------------------------------------------------------
(* e820_get_memory_map: an entry per call of the BIOS, until the BIOS has  *)
(* none left (EBX = 0 with the last entry, or CF after it).  Nothing       *)
(* compares their number with the room: the entry after the last that fits *)
(* falls on fields that are set later, the next one on the place and the   *)
(* size of the system image.                                               *)
stage2_boot_info_init(info, count) ==
  /\ stage' = "video"
  /\ boot_info' = [info EXCEPT !.memory_map_count = count]

E820Entry ==
  /\ stage = "e820"
  /\ \E m \in BiosMaps :
       /\ IsStrictPrefix(e820_buffer, m)
       /\ e820_buffer' = Append(e820_buffer, m[Len(e820_buffer) + 1])
  /\ LET info == IF Len(e820_buffer') > BOOT_MEMORY_MAP_MAX + 1
                 THEN [boot_info EXCEPT !.system_image = 0, !.system_image_size = 0]
                 ELSE boot_info
     IN  \/ boot_info' = info /\ UNCHANGED stage
         \/ stage2_boot_info_init(info, Len(e820_buffer'))
  /\ UNCHANGED <<volume, job, step, cluster, es, si, mem, size, fault>>

E820CarrySet ==
  /\ stage = "e820"
  /\ IF e820_buffer = <<>> THEN Halt("bios") /\ UNCHANGED boot_info
     ELSE stage2_boot_info_init(boot_info, Len(e820_buffer)) /\ UNCHANGED fault
  /\ UNCHANGED <<volume, job, step, cluster, es, si, mem, size, e820_buffer>>

E820Unsupported ==
  /\ stage = "e820"
  /\ Halt("bios")
  /\ UNCHANGED <<volume, job, step, cluster, es, si, mem, size, e820_buffer, boot_info>>

(* Only VGA text mode 3 goes on.                                           *)
video_detect_mode ==
  /\ stage = "video"
  /\ \/ stage' = "protected" /\ UNCHANGED fault
     \/ Halt("bios")
  /\ UNCHANGED <<volume, job, step, cluster, es, si, mem, size, e820_buffer, boot_info>>

stage2_enter_protected_mode ==
  /\ stage = "protected"
  /\ stage' = "kernel"
  /\ boot_info' = [boot_info EXCEPT !.magic = BOOT_MAGIC]
  /\ UNCHANGED <<volume, job, step, cluster, es, si, mem, size, e820_buffer, fault>>

-----------------------------------------------------------------------------
BootInit ==
  /\ volume \in Volumes
  /\ stage = "mbr"
  /\ job = 1
  /\ step = "read"
  /\ cluster = ROOT_CLUSTER
  /\ es = 0
  /\ si = STAGE2_AT
  /\ mem = MBR_AT :> MBR
  /\ size = 0
  /\ e820_buffer = <<>>
  /\ boot_info = [magic |-> 0, memory_map_count |-> 0, system_image |-> 0, system_image_size |-> 0]
  /\ fault = FALSE

BootNext ==
  \/ disk_read_fails \/ mbr_stage \/ disk_check_lba_extensions_fails
  \/ vbr_find_entry \/ load_stage2 \/ get_next_cluster
  \/ stage2_init \/ Stage2NotInPlace \/ fat32_find_entry \/ FindInNextCluster
  \/ fat32_load_file \/ LoadNextCluster
  \/ E820Entry \/ E820CarrySet \/ E820Unsupported
  \/ video_detect_mode \/ stage2_enter_protected_mode

-----------------------------------------------------------------------------
(* Properties.                                                             *)

(* A file of the image, in room for that many units.                       *)
Fits(n, room) ==
  /\ TreeFits
  /\ n # 0 /\ nodes[n].type = "file" /\ host[nodes[n].host].stays
  /\ nodes[n].size > 0 /\ Blocks(nodes[n].size) * CLUSTER_SIZE <= room

(* From the host's files to the kernel's entry.  Stage 2 starts on an      *)
(* intact copy of its file and still finds the MBR and the VBR in memory,  *)
(* if the file ends below the MBR.  When the kernel is entered, what lies  *)
(* at KERNEL_AT is kernel.bin, if it ends below SYSTEM_AT, and what lies   *)
(* at SYSTEM_AT is system.bin; boot_info has its size and counts the       *)
(* entries of a memory map that is not empty.                              *)
ImagesAsBuilt ==
  /\ stage = "stage2" /\ step = "init" /\ Fits(Stage2, MBR_AT - STAGE2_AT) =>
       /\ HoldsFile(STAGE2_AT, Stage2)
       /\ mem[MBR_AT] = MBR /\ mem[VBR_AT] = VBR
  /\ stage = "kernel" =>
       /\ Fits(Kernel, SYSTEM_AT - KERNEL_AT) => HoldsFile(KERNEL_AT, Kernel)
       /\ Fits(System, nodes[System].size + CLUSTER_SIZE) =>
            /\ HoldsFile(SYSTEM_AT, System)
            /\ Len(e820_buffer) <= BOOT_MEMORY_MAP_MAX + 1 =>
                 /\ boot_info.system_image = SYSTEM_AT
                 /\ boot_info.system_image_size = nodes[System].size
       /\ boot_info.memory_map_count = Len(e820_buffer) /\ e820_buffer # <<>>
=============================================================================
