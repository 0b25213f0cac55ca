------------------------------ MODULE Fat32Image ------------------------------
(***************************************************************************)
(* mkimage: the lines of disk.files become a tree; one pass over the tree  *)
(* gives every node its first cluster, a second one writes directories and *)
(* files and links the clusters, and the table is written last.            *)
(*                                                                         *)
(* Sizes count units of which CLUSTER_SIZE make a cluster.  The recursive  *)
(* passes keep the nodes they have still to visit in todo.                 *)
(***************************************************************************)
EXTENDS FsTree, FiniteSets, TLC

CONSTANTS
  Lines,           \* lines of disk.files: sep, host, path, dir
  MAX_LINES,       \* bound on the lines of one disk.files
  Hosts,           \* host file systems: file |-> size, readable, stays
  Upper,           \* the 8.3 name of a node's name
  CLUSTER_SIZE, DIR_CAPACITY, FAT_COUNT, ROOT_CLUSTER,
  FatSizes,        \* entries that the fat_size_32 sectors of a volume hold
  FAT_ENTRIES      \* bound on them; the marks of a table lie above it

ASSUME Fat32Assumption ==
  /\ CLUSTER_SIZE > 0 /\ FAT_COUNT > 0 /\ DIR_CAPACITY > 2
  /\ ROOT_CLUSTER >= 2 /\ FatSizes \subseteq (ROOT_CLUSTER + 1) .. FAT_ENTRIES

VARIABLES
  host,       \* the host's files
  total_entries, \* of the volume's table
  lines,      \* lines parsed
  nodes,      \* the tree
  phase,      \* "parse", "prepare", "write" or "done"
  todo,       \* nodes that the pass has still to visit, in order
  fat, next_free_cluster,
  wr,         \* locals of fat32_write_file; node 0 outside of it
  data,       \* contents of the clusters written
  tables      \* the copies of the table on the image

mkimageVars == <<host, total_entries, lines, nodes, phase, todo, fat, next_free_cluster, wr, data, tables>>

FAT_FREE == 0
FAT_BAD_CLUSTER == FAT_ENTRIES
FAT_EOF == FAT_ENTRIES + 1
MEDIA == FAT_ENTRIES + 2        \* 0xFFFFFF00 | media_descriptor
Cluster == 2 .. (total_entries - 1)

ZERO == <<"zero", 0>>
ContentUnit(h, i) == <<h, i>>      \* unit i of host file h

NoFile == [node |-> 0, cluster |-> 0, previous |-> 0, remaining |-> 0]

-----------------------------------------------------------------------------
(* The table.                                                              *)
fat32_table_init ==
  [c \in 0 .. (total_entries - 1) |->
     CASE c = 0 -> MEDIA
       [] c = 1 \/ c = ROOT_CLUSTER -> FAT_EOF
       [] OTHER -> FAT_FREE]

fat32_cluster_alloc_Unmarked(f, next) ==
  LET free == {i \in next .. (total_entries - 1) : f[i] = FAT_FREE}
      i == CHOOSE c \in free : \A d \in free : c <= d
  IN  IF free = {} THEN [fat |-> f, next |-> next, cluster |-> 0]
      ELSE [fat |-> f, next |-> i + 1, cluster |-> i]

(* The first free cluster from next on, or 0.                              *)
fat32_cluster_alloc(f, next) ==
  LET free == {i \in next .. (total_entries - 1) : f[i] = FAT_FREE}
      i == CHOOSE c \in free : \A d \in free : c <= d
  IN  IF free = {} THEN [fat |-> f, next |-> next, cluster |-> 0]
      ELSE [fat |-> [f EXCEPT ![i] = FAT_EOF], next |-> i + 1, cluster |-> i]

(* Cluster 0 stands for the offset far behind the image that cluster - 2   *)
(* gives in 32 bits.                                                       *)
fat32_write_cluster(c, contents) == data' = (c :> contents) @@ data

-----------------------------------------------------------------------------
(* Contents of a cluster.                                                  *)
Entry(name, attr, cluster, size) ==
  [name |-> name, attr |-> attr, cluster |-> cluster, size |-> size]

fat32_create_entry(n) ==
  Entry(Upper[nodes[n].name], nodes[n].type, nodes[n].first_cluster, nodes[n].size)

(* "." and ".." of a directory other than the root, then its children, as  *)
(* many as the cluster has room for.                                       *)
DirectoryContents(n) ==
  LET dots == IF n = Root THEN <<>>
              ELSE << Entry(".", "dir", nodes[n].first_cluster, 0),
                      Entry("..", "dir", nodes[nodes[n].parent].first_cluster, 0) >>
      children == [i \in 1 .. Len(nodes[n].children) |-> fat32_create_entry(nodes[n].children[i])]
      entries == dots \o children
  IN  [entries |-> SubSeq(entries, 1, IF Len(entries) < DIR_CAPACITY THEN Len(entries)
                                                                     ELSE DIR_CAPACITY),
       units |-> [i \in 1 .. CLUSTER_SIZE |-> <<"dir", n>>]]

(* A cluster's worth of the file from unit pos on, and zeros behind it.    *)
FileContents(h, pos, size) ==
  [entries |-> <<>>,
   units |-> [i \in 1 .. CLUSTER_SIZE |-> IF pos + i <= size THEN ContentUnit(h, pos + i) ELSE ZERO]]

-----------------------------------------------------------------------------
(* parse_disk_files.                                                       *)
Insert(l) ==
  IF ~l.sep THEN nodes
  ELSE IF l.dir THEN tree_insert_directory(nodes, l.path)
  ELSE tree_insert_node(nodes, l.path, l.host, host[l.host].size, host[l.host].readable)

ParseLine ==
  /\ phase = "parse"
  /\ lines < MAX_LINES
  /\ \E l \in Lines : nodes' = Insert(l)
  /\ lines' = lines + 1
  /\ UNCHANGED <<host, total_entries, phase, todo, fat, next_free_cluster, wr, data, tables>>

EndOfFile ==
  /\ phase = "parse"
  /\ phase' = "prepare"
  /\ fat' = fat32_table_init
  /\ next_free_cluster' = ROOT_CLUSTER + 1
  /\ todo' = <<Root>>
  /\ UNCHANGED <<host, total_entries, lines, nodes, wr, data, tables>>

-----------------------------------------------------------------------------
(* fat32_prepare_tree, a node at a time.                                   *)
NeedsCluster(n) == nodes[n].first_cluster = 0

PrepareNode ==
  /\ phase = "prepare"
  /\ todo # <<>>
  /\ LET n == Head(todo)
         a == fat32_cluster_alloc(fat, next_free_cluster)
     IN  /\ IF n = Root
            THEN /\ nodes' = [nodes EXCEPT ![n].first_cluster = ROOT_CLUSTER]
                 /\ UNCHANGED <<fat, next_free_cluster>>
            ELSE IF NeedsCluster(n)
            THEN /\ nodes' = [nodes EXCEPT ![n].first_cluster = a.cluster]
                 /\ fat' = a.fat
                 /\ next_free_cluster' = a.next
            ELSE UNCHANGED <<nodes, fat, next_free_cluster>>
         /\ todo' = nodes[n].children \o Tail(todo)
  /\ UNCHANGED <<host, total_entries, lines, phase, wr, data, tables>>

Prepared ==
  /\ phase = "prepare"
  /\ todo = <<>>
  /\ phase' = "write"
  /\ todo' = <<Root>>
  /\ UNCHANGED <<host, total_entries, lines, nodes, fat, next_free_cluster, wr, data, tables>>

-----------------------------------------------------------------------------
(* fat32_write_tree, a directory or a cluster of a file at a time.         *)
Visiting(type) == phase = "write" /\ wr.node = 0 /\ todo # <<>> /\ nodes[Head(todo)].type = type

WriteDirectory ==
  /\ Visiting("dir")
  /\ LET n == Head(todo)
     IN  /\ fat32_write_cluster(nodes[n].first_cluster, DirectoryContents(n))
         /\ todo' = nodes[n].children \o Tail(todo)
  /\ UNCHANGED <<host, total_entries, lines, nodes, phase, fat, next_free_cluster, wr, tables>>

(* fat32_write_file returns at once when the file no longer opens.         *)
OpenFails ==
  /\ Visiting("file")
  /\ ~host[nodes[Head(todo)].host].stays
  /\ todo' = Tail(todo)
  /\ UNCHANGED <<host, total_entries, lines, nodes, phase, fat, next_free_cluster, wr, data, tables>>

OpenFile ==
  /\ Visiting("file")
  /\ LET n == Head(todo)
     IN  /\ host[nodes[n].host].stays
         /\ wr' = [node |-> n, cluster |-> nodes[n].first_cluster, previous |-> 0,
                   remaining |-> nodes[n].size]
  /\ UNCHANGED <<host, total_entries, lines, nodes, phase, todo, fat, next_free_cluster, data, tables>>

RemainingAfter(r) == r - (IF r > CLUSTER_SIZE THEN CLUSTER_SIZE ELSE r)

LinkPrevious_Skipped(f, w) == f

LinkPrevious(f, w) == IF w.previous # 0 THEN [f EXCEPT ![w.previous] = w.cluster] ELSE f

WriteBlock ==
  /\ wr.node # 0
  /\ wr.remaining > 0
  /\ LET n      == nodes[wr.node]
         linked == LinkPrevious(fat, wr)
         left   == RemainingAfter(wr.remaining)
         a      == IF left > 0 THEN fat32_cluster_alloc(linked, next_free_cluster)
                   ELSE [fat |-> linked, next |-> next_free_cluster, cluster |-> wr.cluster]
     IN  /\ fat32_write_cluster(wr.cluster, FileContents(n.host, n.size - wr.remaining, n.size))
         /\ fat' = a.fat
         /\ next_free_cluster' = a.next
         /\ wr' = [wr EXCEPT !.remaining = left, !.previous = wr.cluster, !.cluster = a.cluster]
  /\ UNCHANGED <<host, total_entries, lines, nodes, phase, todo, tables>>

CloseFile ==
  /\ wr.node # 0
  /\ wr.remaining = 0
  /\ fat' = [fat EXCEPT ![wr.previous] = FAT_EOF]
  /\ wr' = NoFile
  /\ todo' = Tail(todo)
  /\ UNCHANGED <<host, total_entries, lines, nodes, phase, next_free_cluster, data, tables>>

fat32_table_flush ==
  /\ phase = "write"
  /\ todo = <<>>
  /\ tables' = [i \in 1 .. FAT_COUNT |-> fat]
  /\ phase' = "done"
  /\ UNCHANGED <<host, total_entries, lines, nodes, todo, fat, next_free_cluster, wr, data>>

-----------------------------------------------------------------------------
MkimageInit ==
  /\ host \in Hosts
  /\ total_entries \in FatSizes
  /\ lines = 0
  /\ nodes = EmptyTree
  /\ phase = "parse"
  /\ todo = <<>>
  /\ fat = <<>>
  /\ next_free_cluster = 0
  /\ wr = NoFile
  /\ data = <<>>
  /\ tables = <<>>

MkimageNext ==
  \/ ParseLine \/ EndOfFile \/ PrepareNode \/ Prepared
  \/ WriteDirectory \/ OpenFails \/ OpenFile \/ WriteBlock \/ CloseFile \/ fat32_table_flush

-----------------------------------------------------------------------------
(* Properties.                                                             *)
(* mkimage's variables keep their types; in particular the rest of a file, *)
(* an unsigned number, never falls below zero.                             *)
TypeOK ==
  /\ phase \in {"parse", "prepare", "write", "done"}
  /\ phase # "parse" =>
       /\ DOMAIN fat = 0 .. (total_entries - 1)
       /\ \A c \in DOMAIN fat : fat[c] \in Cluster \cup {FAT_FREE, FAT_EOF, MEDIA}
       /\ next_free_cluster \in (ROOT_CLUSTER + 1) .. total_entries
  /\ wr.node \in {0} \cup Files(nodes)
  /\ wr.remaining \in Nat
  /\ \A i \in DOMAIN todo : todo[i] \in DOMAIN nodes
  /\ \A n \in DOMAIN nodes : n # Root => nodes[n].parent \in 1 .. (n - 1)

(* The clusters of the chain of table f that starts at c, in order.        *)
Chain(f, c) ==
  LET Extend(s, k) == IF f[Last(s)] \in Cluster THEN Append(s, f[Last(s)]) ELSE s
  IN  FoldLeft(Extend, <<c>>, [k \in 1 .. FAT_ENTRIES |-> k])

(* Where the number of cluster c is kept: as a node's first cluster, as    *)
(* the link of another cluster, or as the cluster that fat32_write_file    *)
(* has allocated and not linked yet.                                       *)
References(c) ==
  {<<"node", n>> : n \in {m \in DOMAIN nodes : nodes[m].first_cluster = c}}
  \cup {<<"link", a>> : a \in {b \in Cluster : fat[b] = c}}
  \cup {<<"fresh", w.node>> : w \in {v \in {wr} : v.cluster = c /\ v.previous \notin {0, c}}}

(* What the tree takes: a cluster for a directory, one at least for a file *)
(* and, when the file can still be opened, as many as it fills.            *)
Blocks(size) == (size + CLUSTER_SIZE - 1) \div CLUSTER_SIZE
ClustersOf(n) ==
  IF nodes[n].type = "file" /\ nodes[n].size > 0 /\ host[nodes[n].host].stays
  THEN Blocks(nodes[n].size) ELSE 1

TreeFits == FoldFunction(+, 0, [n \in DOMAIN nodes |-> ClustersOf(n)]) <= total_entries - 2

(* No cluster belongs to two chains, whether or not the table has room for *)
(* the tree.  If it has, a cluster that is marked used belongs to one      *)
(* chain and a free one to none.  Links lead to later clusters, so no      *)
(* chain comes round to itself.                                            *)
ClustersOwnedOnce ==
  /\ TypeOK
  /\ phase # "parse" =>
       \A c \in Cluster :
         /\ c # ROOT_CLUSTER =>
              /\ Cardinality(References(c)) <= 1
              /\ TreeFits => (fat[c] = FAT_FREE <=> References(c) = {})
         /\ fat[c] \in Cluster => fat[c] > c

Zeros == [i \in 1 .. CLUSTER_SIZE |-> ZERO]

(* What a reader of the image finds in cluster c.                          *)
UnitsOf(c) == IF c \in DOMAIN data THEN data[c].units ELSE Zeros

(* Every file that mkimage could open has in each table a chain of just    *)
(* the clusters it needs, closed by the end mark, and the chain's clusters *)
(* hold the host's file padded with zeros.                                 *)
FilesOnDisk ==
    \A n \in Files(nodes), t \in 1 .. FAT_COUNT :
      LET h     == nodes[n].host
          size  == nodes[n].size
          chain == Chain(tables[t], nodes[n].first_cluster)
          text  == FlattenSeq([i \in DOMAIN chain |-> UnitsOf(chain[i])])
      IN  host[h].stays =>
            /\ Len(chain) = IF size = 0 THEN 1 ELSE Blocks(size)
            /\ tables[t][Last(chain)] = FAT_EOF
            /\ \A i \in DOMAIN text : text[i] = IF i <= size THEN ContentUnit(h, i) ELSE ZERO

(* The directories describe the tree: every node has one entry of its 8.3  *)
(* name in its parent's cluster, with the cluster and the size of the      *)
(* node, and ".." of a directory leads to the parent.                      *)
TreeOnDisk ==
    \A n \in DOMAIN nodes \ {Root} :
      LET parent == nodes[nodes[n].parent].first_cluster
          Entries(c) == ToSet(data[c].entries)
      IN  /\ {e \in Entries(parent) : e.name = Upper[nodes[n].name]} = {fat32_create_entry(n)}
          /\ nodes[n].first_cluster # 0
          /\ nodes[n].type = "dir" =>
               Entry("..", "dir", parent, 0) \in Entries(nodes[n].first_cluster)

(* mkimage's promise: the finished image holds the tree of disk.files, its *)
(* directories and the contents of its files, if the table has room for    *)
(* it: fat32_cluster_alloc reports a full table as cluster 0, which no     *)
(* caller looks at.                                                        *)
ImageHoldsTree == phase = "done" /\ TreeFits => FilesOnDisk /\ TreeOnDisk
=============================================================================
