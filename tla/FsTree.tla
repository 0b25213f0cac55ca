-------------------------------- MODULE FsTree --------------------------------
(***************************************************************************)
(* The tree of files and directories that mkimage builds from the lines of *)
(* disk.files.  The nodes are a sequence, a node is its index, and the     *)
(* root directory is node 1.  Memory of the host never runs out.           *)
(***************************************************************************)
EXTENDS Integers, Sequences, SequencesExt

CONSTANT MAX_PATH_COMPONENTS

Root == 1

fs_node_create_directory(name) ==
  [name |-> name, type |-> "dir", parent |-> 0, children |-> <<>>,
   first_cluster |-> 0, host |-> "", size |-> 0]

fs_node_create_file(name, host, size) ==
  [fs_node_create_directory(name) EXCEPT !.type = "file", !.host = host, !.size = size]

EmptyTree == <<fs_node_create_directory("")>>

(* The new node becomes the last child of dir.                             *)
fs_node_add_child(nodes, dir, child) ==
  Append([nodes EXCEPT ![dir].children = Append(@, Len(nodes) + 1)],
         [child EXCEPT !.parent = dir])

(* The child of that very name (case included), or 0.                      *)
fs_node_find_child(nodes, dir, name) ==
  LET Named(c) == nodes[c].name = name
      i == SelectInSeq(nodes[dir].children, Named)
  IN  IF i = 0 THEN 0 ELSE nodes[dir].children[i]

split_path(path) ==
  SubSeq(path, 1, IF Len(path) < MAX_PATH_COMPONENTS THEN Len(path) ELSE MAX_PATH_COMPONENTS)

(* One directory further down; missing ones are created, and stay when the *)
(* walk ends at a file.                                                    *)
Descend(walk, name) ==
  LET child == fs_node_find_child(walk.nodes, walk.at, name)
  IN  CASE ~walk.ok   -> walk
        [] walk.ok /\ child = 0 ->
             [walk EXCEPT !.nodes = fs_node_add_child(@, walk.at, fs_node_create_directory(name)),
                          !.at = Len(walk.nodes) + 1]
        [] walk.ok /\ child # 0 ->
             IF walk.nodes[child].type = "dir" THEN [walk EXCEPT !.at = child]
                                               ELSE [walk EXCEPT !.ok = FALSE]

Walk(nodes, parts) == FoldLeft(Descend, [nodes |-> nodes, at |-> Root, ok |-> TRUE], parts)

tree_insert_directory(nodes, path) == Walk(nodes, split_path(path)).nodes

(* readable: whether the host file can be opened to learn its size.        *)
tree_insert_node(nodes, path, host, size, readable) ==
  IF split_path(path) = <<>> THEN nodes ELSE
  LET parts == split_path(path)
      walk  == Walk(nodes, Front(parts))
  IN  IF /\ walk.ok
         /\ fs_node_find_child(walk.nodes, walk.at, Last(parts)) = 0
         /\ readable
      THEN fs_node_add_child(walk.nodes, walk.at, fs_node_create_file(Last(parts), host, size))
      ELSE walk.nodes

Files(nodes) == {n \in DOMAIN nodes : nodes[n].type = "file"}
=============================================================================
