------------------------------ MODULE LinkedList ------------------------------
(***************************************************************************)
(* The intrusive circular lists of kernel/include/klib/list.h: nodes that  *)
(* live in the structures they link, and lists that are a sentinel node.   *)
(* A caller may break off or run through list_for_each_safe, whose body    *)
(* may remove the node that it is given.                                   *)
(***************************************************************************)
EXTENDS Integers, Sequences, SequencesExt, FiniteSets

CONSTANTS
  Node,        \* the nodes of structures
  ListHead,    \* the sentinels
  NULL

ASSUME ListAssumption == Node \cap ListHead = {} /\ NULL \notin Node \cup ListHead

VARIABLES
  links,   \* next and prev of every node
  walk,    \* list_for_each_safe: its list (NULL outside of one), node and next
  seen     \* ghost: what the list held at the start, and the nodes visited

list_vars == <<links, walk, seen>>

Unlinked == [next |-> NULL, prev |-> NULL]
Linked(l, n) == l[n] # Unlinked
NoWalk == [list |-> NULL, node |-> NULL, next |-> NULL]

-----------------------------------------------------------------------------
(* The functions, write by write: two of the nodes may be the same.        *)
list_insert_after_Swapped(l, node, new) ==
  LET m == [l EXCEPT ![new] = [next |-> l[node].next, prev |-> node]]
      k == [m EXCEPT ![node].next = new]
  IN  [k EXCEPT ![k[node].next].prev = new]

list_insert_after(l, node, new) ==
  LET m == [l EXCEPT ![new] = [next |-> l[node].next, prev |-> node]]
      k == [m EXCEPT ![m[node].next].prev = new]
  IN  [k EXCEPT ![node].next = new]

list_insert_before(l, node, new) ==
  LET m == [l EXCEPT ![new] = [next |-> node, prev |-> l[node].prev]]
      k == [m EXCEPT ![m[node].prev].next = new]
  IN  [k EXCEPT ![node].prev = new]

list_remove_OneSided(l, node) ==
  LET m == [l EXCEPT ![l[node].prev].next = l[node].next]
  IN  [m EXCEPT ![node] = Unlinked]

list_remove(l, node) ==
  LET m == [l EXCEPT ![l[node].prev].next = l[node].next]
      k == [m EXCEPT ![m[node].next].prev = m[node].prev]
  IN  [k EXCEPT ![node] = Unlinked]

list_replace(l, old_node, new_node) ==
  LET m == [l EXCEPT ![new_node] = l[old_node]]
      k == [m EXCEPT ![m[old_node].prev].next = new_node]
      j == [k EXCEPT ![k[old_node].next].prev = new_node]
  IN  [j EXCEPT ![old_node] = Unlinked]

list_empty(h) == links[h].next = h

-----------------------------------------------------------------------------
(* list_init of every list; the nodes are in none.                         *)
ListInit ==
  /\ links = [n \in Node \cup ListHead |-> IF n \in ListHead THEN [next |-> n, prev |-> n]
                                                             ELSE Unlinked]
  /\ walk = NoWalk /\ seen = <<<<>>, <<>>>>

(* Calls with the preconditions of their comments, between two walks.      *)
Idling == walk.list = NULL
Becomes(l) == links' = l /\ UNCHANGED <<walk, seen>>

InsertNodeAfter(node, new) ==
  /\ Idling /\ Linked(links, node) /\ ~ Linked(links, new)
  /\ Becomes(list_insert_after(links, node, new))
InsertNodeBefore(node, new) ==
  /\ Idling /\ Linked(links, node) /\ ~ Linked(links, new)
  /\ Becomes(list_insert_before(links, node, new))
RemoveNode(node) ==
  /\ Idling /\ Linked(links, node)
  /\ Becomes(list_remove(links, node))
ReplaceNode(old_node, new_node) ==
  /\ Idling /\ Linked(links, old_node) /\ ~ Linked(links, new_node)
  /\ Becomes(list_replace(links, old_node, new_node))

list_pop_front(h) == Idling /\ ~ list_empty(h) /\ Becomes(list_remove(links, links[h].next))
list_pop_back(h)  == Idling /\ ~ list_empty(h) /\ Becomes(list_remove(links, links[h].prev))

-----------------------------------------------------------------------------
(* The nodes of a list, first to last, and last to first.                  *)
Walked(l, h, Step(_)) ==
  LET at[k \in 0 .. (Cardinality(Node) + 1)] ==
        IF k = 0 THEN Step(l[h]) ELSE IF at[k - 1] \in Node THEN Step(l[at[k - 1]]) ELSE at[k - 1]
      n == Cardinality({k \in 0 .. Cardinality(Node) : at[k] \in Node})
  IN  [k \in 1 .. n |-> at[k - 1]]
Forward(l, h)  == Walked(l, h, LAMBDA r : r.next)
Backward(l, h) == Walked(l, h, LAMBDA r : r.prev)

(* list_for_each_safe: the head, the body and the step of the loop.        *)
BeginWalk(h) ==
  /\ Idling
  /\ walk' = [list |-> h, node |-> links[h].next, next |-> links[links[h].next].next]
  /\ seen' = <<Forward(links, h), <<>>>>
  /\ UNCHANGED links

Body ==
  /\ walk.list # NULL /\ walk.node # walk.list
  /\ links' = links \/ links' = list_remove(links, walk.node)
  /\ seen' = <<seen[1], Append(seen[2], walk.node)>>
  /\ walk' = [walk EXCEPT !.node = walk.next, !.next = links'[walk.next].next]

EndWalk ==
  /\ walk.list # NULL
  /\ walk' = NoWalk /\ seen' = <<<<>>, <<>>>> /\ UNCHANGED links

ListNext ==
  \/ \E node \in Node \cup ListHead, new \in Node : InsertNodeAfter(node, new) \/ InsertNodeBefore(node, new)
  \/ \E node \in Node : RemoveNode(node) \/ \E new \in Node : ReplaceNode(node, new)
  \/ \E h \in ListHead : list_pop_front(h) \/ list_pop_back(h) \/ BeginWalk(h)
  \/ Body \/ EndWalk

ListSpec == ListInit /\ [][ListNext]_list_vars
-----------------------------------------------------------------------------
(* Each link has its counterpart; a node outside of every list has none.   *)
Mutual(l) ==
  \A n \in Node \cup ListHead :
    \/ n \in Node /\ ~ Linked(l, n)
    \/ /\ {l[n].next, l[n].prev} \subseteq Node \cup ListHead
       /\ l[l[n].next].prev = n /\ l[l[n].prev].next = n

(* Whatever a list and the nodes are linked to is linked back to them: no  *)
(* function leaves half a link behind, at either end of a list, in an      *)
(* empty one or in one of a single node.                                   *)
LinksMutual == Mutual(links)

(* The functions do to the sequence of a list's nodes what their names     *)
(* say, in either direction of reading and with no effect on another list; *)
(* list_for_each_safe visits what the list held, each node once, while its *)
(* body removes nodes.                                                     *)
Same(h) == Forward(links, h)' = Forward(links, h)
Pos(h, n) == CHOOSE i \in DOMAIN Forward(links, h) : Forward(links, h)[i] = n
InList(h, n) == n = h \/ n \in Range(Forward(links, h))

BothWays == \A h \in ListHead : Backward(links, h) = Reverse(Forward(links, h))

StepsOnSequences ==
  \A h \in ListHead :
    LET s == Forward(links, h)
        t == Forward(links, h)'
        After(n) == IF n = h THEN 0 ELSE Pos(h, n)
        Before(n) == IF n = h THEN Len(s) ELSE Pos(h, n) - 1
    IN  /\ \A n \in Node \cup ListHead, new \in Node :
             /\ InsertNodeAfter(n, new) => t = IF InList(h, n) THEN InsertAt(s, After(n) + 1, new) ELSE s
             /\ InsertNodeBefore(n, new) => t = IF InList(h, n) THEN InsertAt(s, Before(n) + 1, new) ELSE s
        /\ \A n \in Node : RemoveNode(n) => t = SelectSeq(s, LAMBDA x : x # n)
        /\ \A n, new \in Node :
             ReplaceNode(n, new) => t = [i \in DOMAIN s |-> IF s[i] = n THEN new ELSE s[i]]
        /\ list_pop_front(h) => t = Tail(s)
        /\ list_pop_back(h) => t = Front(s)

WalkSeesAll ==
  walk.list # NULL => /\ IsPrefix(seen[2], seen[1])
                      /\ walk.node = walk.list => seen[2] = seen[1]

ActsOnSequences == [](BothWays /\ WalkSeesAll) /\ [][StepsOnSequences]_list_vars
=============================================================================
