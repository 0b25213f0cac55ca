----------------------------- MODULE MCKernelMain -----------------------------
EXTENDS KernelMain

FileLine(h, p) == [sep |-> TRUE, host |-> h, path |-> p, dir |-> FALSE]
DirLine(p) == [sep |-> TRUE, host |-> "", path |-> p, dir |-> TRUE]

(* The files that booting needs; a file where they need a directory; a     *)
(* path of too many components; and a line without a separator.            *)
MCLines == { FileLine("stage2", <<"boot", "stage2.bin">>),
             FileLine("kernel", <<"boot", "kernel.bin">>),
             FileLine("system", <<"bin", "system.bin">>),
             FileLine("system", <<"boot">>),
             DirLine(<<"bin", "boot", "bin", "boot">>),
             [sep |-> FALSE, host |-> "", path |-> <<>>, dir |-> FALSE] }

MCUpper == ("boot" :> "BOOT") @@ ("bin" :> "BIN") @@ ("stage2.bin" :> "STAGE2.BIN")
        @@ ("kernel.bin" :> "KERNEL.BIN") @@ ("system.bin" :> "SYSTEM.BIN")

HostFile(n, r, s) == [size |-> n, readable |-> r, stays |-> s]
Good(n) == HostFile(n, TRUE, TRUE)
HostFiles(s2, k, s) == ("stage2" :> s2) @@ ("kernel" :> k) @@ ("system" :> s)

(* Files of one cluster and of several, full and not, up to the places of  *)
(* what lies behind them and beyond; an empty one, one that cannot be      *)
(* opened, and one that is gone when it is written.                        *)
MCHosts == { HostFiles(Good(3), Good(10), Good(2)), HostFiles(Good(4), Good(9), Good(3)),
             HostFiles(Good(5), Good(1), Good(3)), HostFiles(Good(4), Good(5), Good(0)),
             HostFiles(Good(6), HostFile(5, FALSE, FALSE), Good(2)),
             HostFiles(Good(2), Good(2), HostFile(3, TRUE, FALSE)) }

PartitionEntry(b, t, l) == [boot_indicator |-> b, type |-> t, lba_start |-> l]
Unused == PartitionEntry(0, 0, 0)

GoodVolume ==
  [entries |-> <<PartitionEntry(128, 12, 4), Unused, Unused, Unused>>, hidden_sectors |-> 4,
   bytes_per_sector |-> 512, sectors_per_cluster |-> CLUSTER_SIZE, number_fats |-> FAT_COUNT,
   root_cluster |-> ROOT_CLUSTER, total_sectors_16 |-> 0, total_sectors_32 |-> 100,
   fat_size_32 |-> 1]

(* The first entry of the partition table and the active one.              *)
WithEntries(first, active) == [GoodVolume EXCEPT !.entries = <<first, active, Unused, Unused>>]

(* No active entry; one that is not of the volume's type; one that leads   *)
(* elsewhere.                                                              *)
MCVolumes == { GoodVolume,
               WithEntries(PartitionEntry(0, 12, 4), Unused),
               WithEntries(PartitionEntry(0, 12, 4), PartitionEntry(128, 11, 4)),
               WithEntries(PartitionEntry(0, 12, 4), PartitionEntry(128, 12, 8)) }

(* Low memory, which the system image lies in, memory above the first MiB, *)
(* and memory that is not usable; a map may have more entries than there   *)
(* is room for.                                                            *)
MapEntry(base, end, type) == [base |-> base, end |-> end, type |-> type]
Low == MapEntry(0, 22, 1)
High == MapEntry(24, 40, 1)
Hole == MapEntry(22, 24, 2)
MCBiosMaps == { <<Low, High, Hole, Hole>>, <<Hole>> }
=============================================================================
