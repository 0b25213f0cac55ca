----------------------------- MODULE KHeapProofs -----------------------------
(***************************************************************************)
(* Proofs about the kernel heap: its tags, its free list and the contents  *)
(* of the allocations are right after every sequence of calls, and it      *)
(* implements the abstract heap.                                           *)
(*                                                                         *)
(* The invariant HeapInv names the blocks by a set B, where the properties *)
(* compute them by a walk along the tags, and the list by a sequence c,    *)
(* where they follow its pointers.  The lemmas say what each write of the  *)
(* code does to B and c; that the walks find B and c comes last.           *)
(***************************************************************************)
EXTENDS KHeap, BasicFacts

Memory == [Words -> JUNK .. SIZE_MAX]

(* Blocks that start at the addresses of B cover the heap from its start   *)
(* to its end, with the size of each at both of its ends.                  *)
Tiles(m, B) ==
  /\ B \subseteq HeapWords /\ kheap_start \in B
  /\ \A a \in B : /\ m[a] >= HEADER + FOOTER
                  /\ a + m[a] \in B \cup {kheap_end}
                  /\ m[a + m[a] - FOOTER] = m[a]
  /\ \A a, b \in B : a < b => a + m[a] <= b

(* c[1] to c[n] are the nodes of N, each once, linked in both directions   *)
(* in this order between the list's head and the head again.               *)
Ring(m, N, c, n) ==
  /\ n \in Nat /\ c \in [0 .. n + 1 -> Words]
  /\ c[0] = kheap_free_list /\ c[n + 1] = kheap_free_list
  /\ \A i \in 0 .. n : m[c[i]] = c[i + 1] /\ m[c[i + 1] + 4] = c[i]
  /\ \A i, j \in 1 .. n : c[i] = c[j] => i = j
  /\ \A i \in 1 .. n : c[i] \in N
  /\ \A x \in N : \E i \in 1 .. n : c[i] = x

Linked(m, N) == \E n, c : Ring(m, N, c, n)

Nodes(F) == {NodeOf(a) : a \in F}

FreeOf(m, B) == {a \in B : m[a + 4] = 0}

NoFreeNeighbours(m, B) == \A a \in FreeOf(m, B) : a + m[a] \notin FreeOf(m, B)

(* The allocated blocks are those of the allocations of L, one for each,   *)
(* with room for them and with what their owners wrote.                    *)
Held(m, B, L) ==
  /\ L \subseteq [ptr : HeapWords, size : Sizes \ {0}]
  /\ \A b \in L : /\ b.ptr - HEADER \in B \ FreeOf(m, B)
                  /\ HEADER + b.size + FOOTER <= m[b.ptr - HEADER]
                  /\ \A w \in Payload(b) : m[w] = JUNK
  /\ \A a \in B \ FreeOf(m, B) : \E b \in L : b.ptr = a + HEADER
  /\ \A b, d \in L : b.ptr = d.ptr => b = d

(* A heap at a point where the free blocks of F are in the list.           *)
State(m, B, F, L) ==
  /\ m \in Memory /\ Tiles(m, B)
  /\ F \subseteq FreeOf(m, B) /\ Linked(m, Nodes(F))
  /\ Held(m, B, L)

(* A heap between two calls: every free block is in the list, and no two   *)
(* of them are neighbours.                                                 *)
Sound(m, L) == \E B : State(m, B, FreeOf(m, B), L) /\ NoFreeNeighbours(m, B)

HeapInv ==
  /\ TypeOK
  /\ ~ready => live = {}
  /\ ready => Sound(mem, live)

-----------------------------------------------------------------------------
(* The list.  Each node has two words of its own.                          *)
NodesApart(N) ==
  /\ kheap_free_list \notin N
  /\ \A x, y \in N \cup {kheap_free_list} : x \in Words /\ x + 4 \in Words /\ x + 4 # y

(* What a function of the list leaves alone.                               *)
OutsideNodes(m, q, N) ==
  \A w \in Words : (\A x \in N \cup {kheap_free_list} : w # x /\ w # x + 4) => q[w] = m[w]

(* Addresses of words are values that a word can hold.                     *)
LEMMA WordsAreValues ==
  /\ Words \subseteq JUNK .. SIZE_MAX /\ NULL \in JUNK .. SIZE_MAX
  /\ kheap_free_list \in Words /\ kheap_free_list + 4 \in Words
  <1> USE HeapAssumption DEF Words, JUNK, NULL, kheap_free_list, kheap_end, kheap_start
  <1>1. Words \subseteq JUNK .. SIZE_MAX
    OBVIOUS
  <1>2. NULL \in JUNK .. SIZE_MAX
    OBVIOUS
  <1>3. kheap_free_list \in Words /\ kheap_free_list + 4 \in Words
    OBVIOUS
  <1> QED
    BY <1>1, <1>2, <1>3

(* Addresses are numbers.                                                  *)
LEMMA WordsAreInt == Words \subseteq Int
  BY DEF Words

(* The sequence of a list's nodes, and how many there are.                 *)
LEMMA LinkedRing ==
  ASSUME NEW m, NEW N, Linked(m, N)
  PROVE  \E n \in Nat : \E c \in [0 .. n + 1 -> Words] : Ring(m, N, c, n)
  <1>1. \E n, c : Ring(m, N, c, n)
    BY DEF Linked
  <1>2. PICK n, c : Ring(m, N, c, n)
    BY <1>1
  <1>3. n \in Nat /\ c \in [0 .. n + 1 -> Words]
    BY <1>2 DEF Ring
  <1> QED
    BY <1>2, <1>3, Zenon

(* list_insert_front of a node that is not in the list.                    *)
LEMMA InsertLinks ==
  ASSUME NEW m \in Memory, NEW N, NEW x, x \notin N, NodesApart(N \cup {x}),
         Linked(m, N)
  PROVE  LET q == list_insert_front(m, x)
         IN  q \in Memory /\ Linked(q, N \cup {x}) /\ OutsideNodes(m, q, N \cup {x})
  <1> DEFINE linked == [m EXCEPT ![x + 4] = kheap_free_list, ![x] = m[kheap_free_list]]
             q == [linked EXCEPT ![linked[kheap_free_list] + 4] = x, ![kheap_free_list] = x]
  <1>0. PICK n \in Nat : \E c \in [0 .. n + 1 -> Words] : Ring(m, N, c, n)
    BY LinkedRing
  <1>1. PICK c \in [0 .. n + 1 -> Words] : Ring(m, N, c, n)
    BY <1>0
  <1>2. /\ x \in Words /\ x + 4 \in Words /\ x + 4 # kheap_free_list
        /\ kheap_free_list + 4 # x /\ x + 4 # x /\ x # kheap_free_list
        /\ x \in JUNK .. SIZE_MAX /\ kheap_free_list \in JUNK .. SIZE_MAX
        /\ kheap_free_list \in Words
    BY WordsAreValues DEF NodesApart
  <1>3. m[kheap_free_list] = c[1] /\ c[1] \in N \cup {kheap_free_list} /\ c[1] \in JUNK .. SIZE_MAX
        /\ c[1] \in Words /\ c[1] + 4 \in Words
    <2>1. 0 \in 0 .. n /\ 0 + 1 = 1 /\ (n # 0 => 1 \in 1 .. n)
      OBVIOUS
    <2>2. m[kheap_free_list] = c[1] /\ c[1] \in N \cup {kheap_free_list}
      BY <1>1, <2>1 DEF Ring
    <2> QED
      BY <2>2, WordsAreValues DEF NodesApart
  <1>4. linked = [m EXCEPT ![x + 4] = kheap_free_list, ![x] = c[1]]
    BY <1>3
  <1>8. q = list_insert_front(m, x)
    BY DEF list_insert_front, list_insert_after
  <1> HIDE DEF linked
  <1>5. /\ linked \in Memory /\ linked[kheap_free_list] = c[1]
        /\ \A w \in Words : linked[w] = IF w = x THEN c[1]
                                     ELSE IF w = x + 4 THEN kheap_free_list ELSE m[w]
    BY <1>2, <1>3, <1>4 DEF Memory
  <1>6. q = [linked EXCEPT ![c[1] + 4] = x, ![kheap_free_list] = x]
    BY <1>5
  <1> HIDE DEF q
  <1>13. /\ q \in Memory
         /\ \A w \in Words : q[w] = IF w = kheap_free_list THEN x
                                 ELSE IF w = c[1] + 4 THEN x ELSE linked[w]
    BY <1>2, <1>3, <1>5, <1>6 DEF Memory
  <1>7. \A w \in Words :
          q[w] = IF w = kheap_free_list \/ w = c[1] + 4 THEN x
                 ELSE IF w = x THEN c[1] ELSE IF w = x + 4 THEN kheap_free_list ELSE m[w]
    BY <1>5, <1>13
  <1>9. OutsideNodes(m, q, N \cup {x})
    BY <1>3, <1>7 DEF OutsideNodes
  <1> DEFINE d == [i \in 0 .. (n + 1) + 1 |->
                     IF i = 0 THEN kheap_free_list ELSE IF i = 1 THEN x ELSE c[i - 1]]
  <1>10. d \in [0 .. (n + 1) + 1 -> Words]
    BY <1>2
  <1>11. /\ d[0] = kheap_free_list /\ d[1] = x
         /\ \A i \in 1 .. n + 1 : d[i + 1] = c[i]
         /\ \A i \in 2 .. n + 1 : d[i] = c[i - 1] /\ i - 1 \in 1 .. n
    OBVIOUS
  <1> HIDE DEF d
  <1>12. Ring(q, N \cup {x}, d, n + 1)
    <2>1. d[0] = kheap_free_list /\ d[(n + 1) + 1] = kheap_free_list
      BY <1>1, <1>11 DEF Ring
    <2>2. ASSUME NEW i \in 0 .. n + 1
          PROVE  q[d[i]] = d[i + 1] /\ q[d[i + 1] + 4] = d[i]
      <3>1. CASE i = 0
        <4>1. x + 4 # c[1] + 4
          BY <1>2, <1>3, WordsAreInt
        <4> QED
          BY <1>2, <1>7, <1>11, <3>1, <4>1
      <3>2. CASE i = 1
        <4>1. d[i] = x /\ d[i + 1] = c[1]
          BY <1>11, <3>2
        <4>2. c[1] + 4 # x /\ c[1] + 4 # kheap_free_list
          BY <1>3 DEF NodesApart
        <4>3. x # c[1] + 4
          BY <4>2
        <4> QED
          BY <1>2, <1>3, <1>7, <4>1, <4>2, <4>3
      <3>3. CASE i \in 2 .. n + 1
        <4> DEFINE j == i - 1
        <4>1. j \in 1 .. n /\ j + 1 = i /\ d[i] = c[j] /\ d[i + 1] = c[j + 1]
          BY <1>11, <3>3
        <4>2. /\ m[c[j]] = c[j + 1] /\ m[c[j + 1] + 4] = c[j] /\ c[j] \in N
              /\ c[j + 1] \in N \cup {kheap_free_list} /\ c[j + 1] # c[1]
          <5>1. CASE j = n
            BY <1>1, <4>1, <5>1 DEF Ring, NodesApart
          <5>2. CASE j # n
            <6>1. j + 1 \in 1 .. n /\ 1 \in 1 .. n /\ j + 1 # 1
              BY <4>1, <5>2
            <6> QED
              BY <1>1, <4>1, <6>1 DEF Ring
          <5> QED
            BY <5>1, <5>2
        <4>3. /\ c[j] # kheap_free_list /\ c[j] # x /\ c[j] # x + 4 /\ c[j] # c[1] + 4
              /\ c[j + 1] + 4 # x + 4 /\ c[j + 1] + 4 # x /\ c[j + 1] + 4 # kheap_free_list
              /\ c[j + 1] + 4 # c[1] + 4
              /\ c[j] \in Words /\ c[j + 1] + 4 \in Words
          <5>1. c[j] \in Int /\ c[j + 1] \in Int /\ c[1] \in Int /\ x \in Int
            BY <1>2, <1>3, <4>2, WordsAreInt DEF NodesApart
          <5>2. c[j + 1] # x
            BY <1>2, <4>2
          <5> QED
            BY <1>3, <4>2, <5>1, <5>2 DEF NodesApart
        <4> QED
          BY <1>7, <4>1, <4>2, <4>3
      <3> QED
        BY <3>1, <3>2, <3>3
    <2>3. ASSUME NEW i \in 1 .. n + 1, NEW j \in 1 .. n + 1, d[i] = d[j]
          PROVE  i = j
      <3>1. \A k \in 1 .. n + 1 : k = 1 \/ k \in 2 .. n + 1
        OBVIOUS
      <3>2. \A k \in 2 .. n + 1 : d[k] \in N /\ d[k] # x
        BY <1>1, <1>11 DEF Ring
      <3>3. CASE i = 1 \/ j = 1
        BY <1>11, <2>3, <3>1, <3>2, <3>3
      <3>4. CASE i # 1 /\ j # 1
        <4>1. i - 1 \in 1 .. n /\ j - 1 \in 1 .. n /\ c[i - 1] = c[j - 1]
          BY <1>11, <2>3, <3>1, <3>4
        <4>2. i - 1 = j - 1
          BY <1>1, <4>1 DEF Ring
        <4> QED
          BY <4>2
      <3> QED
        BY <3>3, <3>4
    <2>4. \A i \in 1 .. n + 1 : d[i] \in N \cup {x}
      <3>1. \A k \in 1 .. n + 1 : k = 1 \/ k \in 2 .. n + 1
        OBVIOUS
      <3> QED
        BY <1>1, <1>11, <3>1 DEF Ring
    <2>5. ASSUME NEW y \in N \cup {x} PROVE \E i \in 1 .. n + 1 : d[i] = y
      <3>1. CASE y = x
        BY <1>11, <3>1
      <3>2. CASE y \in N
        <4>1. PICK i \in 1 .. n : c[i] = y
          BY <1>1, <3>2 DEF Ring
        <4>2. i + 1 \in 1 .. n + 1 /\ d[i + 1] = y
          BY <1>11, <4>1
        <4> QED
          BY <4>2
      <3> QED
        BY <3>1, <3>2
    <2>6. n + 1 \in Nat
      OBVIOUS
    <2> QED
      BY <1>10, <2>1, <2>2, <2>3, <2>4, <2>5, <2>6 DEF Ring
  <1> QED
    <2>1. Linked(q, N \cup {x})
      <3>1. n + 1 \in Nat
        OBVIOUS
      <3> QED
        BY <1>10, <1>12, <3>1 DEF Linked
    <2> QED
      BY <1>8, <1>9, <1>13, <2>1

(* Going round the list meets each node and the head once.                 *)
LEMMA RingMembers ==
  ASSUME NEW m, NEW N, NEW n \in Nat, NEW c, Ring(m, N, c, n)
  PROVE  \A i \in 0 .. n + 1 : c[i] \in N \cup {kheap_free_list}
  <1> n \in Nat /\ c \in [0 .. n + 1 -> Words]
    BY DEF Ring
  <1>1. \A i \in 0 .. n + 1 : i = 0 \/ i = n + 1 \/ i \in 1 .. n
    OBVIOUS
  <1> QED
    BY <1>1 DEF Ring

(* No address comes twice before the head comes again.                     *)
LEMMA RingOnce ==
  ASSUME NEW m, NEW N, NodesApart(N), NEW n \in Nat, NEW c, Ring(m, N, c, n)
  PROVE  \A i, j \in 0 .. n : c[i] = c[j] => i = j
  <1> n \in Nat /\ c \in [0 .. n + 1 -> Words]
    BY DEF Ring
  <1>1. \A i \in 0 .. n : i = 0 \/ i \in 1 .. n
    OBVIOUS
  <1>2. \A i \in 1 .. n : c[i] # kheap_free_list
    BY DEF Ring, NodesApart
  <1> QED
    BY <1>1, <1>2 DEF Ring

(* The same, without the head at the start and with the one at the end.    *)
LEMMA RingOnceBack ==
  ASSUME NEW m, NEW N, NodesApart(N), NEW n \in Nat, NEW c, Ring(m, N, c, n)
  PROVE  \A i, j \in 1 .. n + 1 : c[i] = c[j] => i = j
  <1> n \in Nat /\ c \in [0 .. n + 1 -> Words]
    BY DEF Ring
  <1>1. \A i \in 1 .. n + 1 : i = n + 1 \/ i \in 1 .. n
    OBVIOUS
  <1>2. \A i \in 1 .. n : c[i] # kheap_free_list
    BY DEF Ring, NodesApart
  <1> QED
    BY <1>1, <1>2 DEF Ring

(* A node and its neighbours.                                              *)
LEMMA Neighbours ==
  ASSUME NEW m, NEW N, NodesApart(N), NEW n \in Nat, NEW c, Ring(m, N, c, n), NEW k \in 1 .. n
  PROVE  /\ c[k - 1] \in (N \cup {kheap_free_list}) \ {c[k]}
         /\ c[k + 1] \in (N \cup {kheap_free_list}) \ {c[k]}
  <1>1. k \in 0 .. n /\ k - 1 \in 0 .. n /\ k + 1 \in 1 .. n + 1 /\ k # k - 1 /\ k # k + 1
    OBVIOUS
  <1>2. c[k - 1] \in N \cup {kheap_free_list} /\ c[k + 1] \in N \cup {kheap_free_list}
    <2>1. k - 1 \in 0 .. n + 1 /\ k + 1 \in 0 .. n + 1
      OBVIOUS
    <2>2. \A i \in 0 .. n + 1 : c[i] \in N \cup {kheap_free_list}
      BY RingMembers
    <2> QED
      BY <2>1, <2>2
  <1>3. c[k - 1] # c[k]
    BY <1>1, RingOnce
  <1>4. c[k + 1] # c[k]
    BY <1>1, RingOnceBack
  <1> QED
    BY <1>2, <1>3, <1>4

(* Following a pointer forwards and the next one back.                     *)
LEMMA ForthAndBack ==
  ASSUME NEW m, NEW N, Linked(m, N), NEW x \in N \cup {kheap_free_list}
  PROVE  m[x] \in N \cup {kheap_free_list} /\ m[m[x] + 4] = x
  <1>1. PICK n \in Nat : \E c \in [0 .. n + 1 -> Words] : Ring(m, N, c, n)
    BY LinkedRing
  <1>2. PICK c \in [0 .. n + 1 -> Words] : Ring(m, N, c, n)
    BY <1>1
  <1>3. \A i \in 0 .. n + 1 : c[i] \in N \cup {kheap_free_list}
    BY <1>2, RingMembers
  <1>4. PICK i \in 0 .. n : c[i] = x
    <2>1. 0 \in 0 .. n /\ \A i \in 1 .. n : i \in 0 .. n
      OBVIOUS
    <2> QED
      BY <1>2, <2>1 DEF Ring
  <1>5. m[x] = c[i + 1] /\ m[c[i + 1] + 4] = x /\ i + 1 \in 0 .. n + 1
    BY <1>2, <1>4 DEF Ring
  <1> QED
    BY <1>3, <1>5

(* Words of different nodes are different words.                           *)
LEMMA NodeWords ==
  ASSUME NEW N, NodesApart(N), NEW x \in N \cup {kheap_free_list},
         NEW y \in N \cup {kheap_free_list}
  PROVE  /\ x \in Words /\ x + 4 \in Words /\ x \in JUNK .. SIZE_MAX
         /\ x + 4 # y /\ (x # y => x + 4 # y + 4)
  <1>1. x \in Words /\ x + 4 \in Words /\ y \in Words /\ x + 4 # y
    BY DEF NodesApart
  <1>2. x \in Int /\ y \in Int /\ x \in JUNK .. SIZE_MAX
    BY <1>1, WordsAreInt, WordsAreValues
  <1> QED
    BY <1>1, <1>2

(* list_remove of a node of the list.                                      *)
LEMMA RemoveLinks ==
  ASSUME NEW m \in Memory, NEW N, NodesApart(N), NEW x \in N, Linked(m, N)
  PROVE  LET q == list_remove(m, x)
         IN  q \in Memory /\ Linked(q, N \ {x}) /\ OutsideNodes(m, q, N)
  <1> DEFINE unlinked == [m EXCEPT ![m[x + 4]] = m[x], ![m[x] + 4] = m[x + 4]]
             q == [unlinked EXCEPT ![x] = NULL, ![x + 4] = NULL]
  <1>1. PICK n \in Nat : \E c \in [0 .. n + 1 -> Words] : Ring(m, N, c, n)
    BY LinkedRing
  <1>2. PICK c \in [0 .. n + 1 -> Words] : Ring(m, N, c, n)
    BY <1>1
  <1>3. PICK k \in 1 .. n : c[k] = x
    BY <1>2 DEF Ring
  <1> DEFINE l == c[k - 1]
             r == c[k + 1]
  <1>4. /\ m[x] = r /\ m[x + 4] = l
        /\ l \in (N \cup {kheap_free_list}) \ {x} /\ r \in (N \cup {kheap_free_list}) \ {x}
    <2>1. m[c[k]] = c[k + 1]
      BY <1>2 DEF Ring
    <2>2. m[c[k] + 4] = c[k - 1]
      <3>1. PICK j \in 0 .. n : j = k - 1 /\ k = j + 1
        OBVIOUS
      <3>2. m[c[j + 1] + 4] = c[j]
        BY <1>2 DEF Ring
      <3> QED
        BY <3>1, <3>2
    <2>3. c[k - 1] \in (N \cup {kheap_free_list}) \ {c[k]}
      BY <1>2, Neighbours
    <2>4. c[k + 1] \in (N \cup {kheap_free_list}) \ {c[k]}
      BY <1>2, Neighbours
    <2> QED
      BY <1>3, <2>1, <2>2, <2>3, <2>4
  <1> HIDE DEF l, r
  <1>5. /\ x \in Words /\ x + 4 \in Words /\ l \in Words /\ r + 4 \in Words
        /\ l \in JUNK .. SIZE_MAX /\ r \in JUNK .. SIZE_MAX /\ NULL \in JUNK .. SIZE_MAX
    BY <1>4, NodeWords, WordsAreValues
  <1>6. unlinked = [m EXCEPT ![l] = r, ![r + 4] = l]
    BY <1>4
  <1>7. q = list_remove(m, x)
    BY DEF list_remove
  <1> HIDE DEF unlinked
  <1>8. /\ unlinked \in Memory
        /\ \A w \in Words : unlinked[w] = IF w = r + 4 THEN l ELSE IF w = l THEN r ELSE m[w]
    BY <1>5, <1>6 DEF Memory
  <1>9. /\ q \in Memory
        /\ \A w \in Words : q[w] = IF w = x \/ w = x + 4 THEN NULL
                                ELSE IF w = r + 4 THEN l ELSE IF w = l THEN r ELSE m[w]
    BY <1>5, <1>8 DEF Memory
  <1> HIDE DEF q
  <1>10. OutsideNodes(m, q, N)
    BY <1>4, <1>9 DEF OutsideNodes
  <1> DEFINE d == [i \in 0 .. (n - 1) + 1 |-> IF i < k THEN c[i] ELSE c[i + 1]]
  <1>11. d \in [0 .. (n - 1) + 1 -> Words] /\ n - 1 \in Nat
    OBVIOUS
  <1>12. /\ \A i \in 0 .. k - 1 : d[i] = c[i]
         /\ \A i \in k .. n : d[i] = c[i + 1]
    OBVIOUS
  <1> HIDE DEF d
  <1>13. Ring(q, N \ {x}, d, n - 1)
    <2>1. d[0] = kheap_free_list /\ d[(n - 1) + 1] = kheap_free_list
      <3>1. 0 \in 0 .. k - 1 /\ n \in k .. n /\ (n - 1) + 1 = n
        OBVIOUS
      <3> QED
        BY <1>2, <1>12, <3>1 DEF Ring
    <2>2. ASSUME NEW i \in 0 .. n - 1
          PROVE  q[d[i]] = d[i + 1] /\ q[d[i + 1] + 4] = d[i]
      <3>1. CASE i = k - 1
        <4>1. d[i] = l /\ d[i + 1] = r
          BY <1>12, <3>1 DEF l, r
        <4>2. l # x /\ l # x + 4 /\ l # r + 4 /\ r + 4 # x /\ r + 4 # x + 4
          BY <1>4, NodeWords
        <4> QED
          BY <1>5, <1>9, <4>1, <4>2
      <3>2. CASE i # k - 1
        <4>1. PICK j \in 0 .. n : /\ j # k - 1 /\ j # k /\ d[i] = c[j] /\ d[i + 1] = c[j + 1]
          <5>1. CASE i < k - 1
            BY <1>12, <5>1
          <5>2. CASE i > k - 1
            <6>1. i \in k .. n /\ i + 1 \in k .. n /\ i + 1 \in 0 .. n
              BY <5>2
            <6>2. d[i] = c[i + 1] /\ d[i + 1] = c[(i + 1) + 1]
              BY <1>12, <6>1
            <6> QED
              BY <5>2, <6>1, <6>2
          <5> QED
            BY <3>2, <5>1, <5>2
        <4> DEFINE u == c[j]
                   v == c[j + 1]
        <4>2. u # x /\ u # l /\ v # x /\ v # r
          <5>1. /\ j \in 0 .. n /\ k \in 0 .. n /\ k - 1 \in 0 .. n
                /\ j + 1 \in 1 .. n + 1 /\ k \in 1 .. n + 1 /\ k + 1 \in 1 .. n + 1
                /\ j + 1 # k /\ j + 1 # k + 1
            BY <4>1
          <5>2. \A a, b \in 0 .. n : c[a] = c[b] => a = b
            BY <1>2, RingOnce
          <5>4. \A a, b \in 1 .. n + 1 : c[a] = c[b] => a = b
            BY <1>2, RingOnceBack
          <5>3. c[j] # c[k] /\ c[j] # c[k - 1] /\ c[j + 1] # c[k] /\ c[j + 1] # c[k + 1]
            BY <4>1, <5>1, <5>2, <5>4
          <5> QED
            BY <1>3, <5>3 DEF l, r
        <4>3. /\ m[u] = v /\ m[v + 4] = u
              /\ u \in N \cup {kheap_free_list} /\ v \in N \cup {kheap_free_list}
          <5>1. j \in 0 .. n + 1 /\ j + 1 \in 0 .. n + 1
            OBVIOUS
          <5>2. m[u] = v /\ m[v + 4] = u
            BY <1>2 DEF Ring
          <5> QED
            BY <1>2, <5>1, <5>2, RingMembers
        <4> HIDE DEF u, v
        <4>4. /\ u # x + 4 /\ u # r + 4 /\ v + 4 # x /\ v + 4 # x + 4 /\ v + 4 # r + 4 /\ v + 4 # l
              /\ u \in Words /\ v + 4 \in Words
          BY <1>4, <4>2, <4>3, NodeWords
        <4>5. q[u] = v /\ q[v + 4] = u
          BY <1>9, <4>2, <4>3, <4>4
        <4> QED
          BY <4>1, <4>5 DEF u, v
      <3> QED
        BY <3>1, <3>2
    <2>3. \A i \in 1 .. n - 1 :
            LET j == IF i < k THEN i ELSE i + 1 IN j \in 1 .. n /\ j # k /\ d[i] = c[j]
      BY <1>12
    <2>4. ASSUME NEW i \in 1 .. n - 1, NEW j \in 1 .. n - 1, d[i] = d[j] PROVE i = j
      <3>1. PICK a \in 1 .. n : a = (IF i < k THEN i ELSE i + 1) /\ d[i] = c[a]
        BY <2>3
      <3>2. PICK b \in 1 .. n : b = (IF j < k THEN j ELSE j + 1) /\ d[j] = c[b]
        BY <2>3
      <3>3. c[a] = c[b]
        BY <2>4, <3>1, <3>2
      <3>4. a = b
        BY <1>2, <3>3 DEF Ring
      <3> QED
        BY <3>1, <3>2, <3>4
    <2>5. ASSUME NEW i \in 1 .. n - 1 PROVE d[i] \in N \ {x}
      <3>1. PICK j \in 1 .. n : j # k /\ d[i] = c[j]
        BY <2>3
      <3> QED
        BY <1>2, <1>3, <3>1 DEF Ring
    <2>6. ASSUME NEW y \in N \ {x} PROVE \E i \in 1 .. n - 1 : d[i] = y
      <3>1. PICK j \in 1 .. n : c[j] = y
        BY <1>2 DEF Ring
      <3>2. CASE j < k
        BY <1>12, <3>1, <3>2
      <3>3. CASE j > k
        <4>1. j - 1 \in 1 .. n - 1 /\ j - 1 \in k .. n /\ (j - 1) + 1 = j
          BY <3>3
        <4> QED
          BY <1>12, <3>1, <4>1
      <3> QED
        BY <1>3, <3>1, <3>2, <3>3
    <2> QED
      BY <1>11, <2>1, <2>2, <2>4, <2>5, <2>6 DEF Ring
  <1>14. Linked(q, N \ {x})
    BY <1>11, <1>13 DEF Linked
  <1> QED
    BY <1>7, <1>9, <1>10, <1>14

(* list_replace of a node of the list by one that is not in it.            *)
LEMMA ReplaceLinks ==
  ASSUME NEW m \in Memory, NEW N, NEW y, y \notin N, NodesApart(N \cup {y}),
         NEW x \in N, Linked(m, N)
  PROVE  LET q == list_replace(m, x, y)
         IN  /\ q \in Memory /\ Linked(q, (N \ {x}) \cup {y})
             /\ OutsideNodes(m, q, N \cup {y})
  <1> DEFINE copied   == [m EXCEPT ![y + 4] = m[x + 4], ![y] = m[x]]
             relinked == [copied EXCEPT ![copied[x + 4]] = y, ![copied[x] + 4] = y]
             q        == [relinked EXCEPT ![x] = NULL, ![x + 4] = NULL]
             M        == N \cup {y}
  <1>0. NodesApart(N)
    BY DEF NodesApart
  <1>1. PICK n \in Nat : \E c \in [0 .. n + 1 -> Words] : Ring(m, N, c, n)
    BY LinkedRing
  <1>2. PICK c \in [0 .. n + 1 -> Words] : Ring(m, N, c, n)
    BY <1>1
  <1>3. PICK k \in 1 .. n : c[k] = x
    BY <1>2 DEF Ring
  <1> DEFINE l == c[k - 1]
             r == c[k + 1]
  <1>4. /\ m[x] = r /\ m[x + 4] = l
        /\ l \in (N \cup {kheap_free_list}) \ {x} /\ r \in (N \cup {kheap_free_list}) \ {x}
    <2>1. m[c[k]] = c[k + 1]
      BY <1>2 DEF Ring
    <2>2. m[c[k] + 4] = c[k - 1]
      <3>1. PICK j \in 0 .. n : j = k - 1 /\ k = j + 1
        OBVIOUS
      <3>2. m[c[j + 1] + 4] = c[j]
        BY <1>2 DEF Ring
      <3> QED
        BY <3>1, <3>2
    <2>3. c[k - 1] \in (N \cup {kheap_free_list}) \ {c[k]}
      BY <1>0, <1>2, Neighbours
    <2>4. c[k + 1] \in (N \cup {kheap_free_list}) \ {c[k]}
      BY <1>0, <1>2, Neighbours
    <2> QED
      BY <1>3, <2>1, <2>2, <2>3, <2>4
  <1> HIDE DEF l, r
  <1>5. /\ x \in M /\ y \in M /\ l \in M \cup {kheap_free_list} /\ r \in M \cup {kheap_free_list}
        /\ l # y /\ r # y /\ y # kheap_free_list
    BY <1>4 DEF NodesApart
  <1>6. /\ x \in Words /\ x + 4 \in Words /\ y \in Words /\ y + 4 \in Words
        /\ l \in Words /\ r + 4 \in Words
        /\ l \in JUNK .. SIZE_MAX /\ r \in JUNK .. SIZE_MAX
    BY <1>5, NodeWords
  <1>7. y \in JUNK .. SIZE_MAX /\ NULL \in JUNK .. SIZE_MAX
    BY <1>5, NodeWords, WordsAreValues
  <1>8. /\ x # y /\ x # y + 4 /\ x + 4 # y /\ x + 4 # y + 4
        /\ l # x + 4 /\ l # r + 4 /\ r + 4 # x /\ r + 4 # x + 4 /\ l # y + 4
        /\ r + 4 # y /\ r + 4 # y + 4
    <2>1. x # y /\ x # y + 4 /\ x + 4 # y /\ x + 4 # y + 4
      BY <1>5, NodeWords
    <2>2. l # x + 4 /\ l # r + 4 /\ l # y + 4
      BY <1>5, NodeWords
    <2>3. r + 4 # x /\ r + 4 # x + 4 /\ r + 4 # y /\ r + 4 # y + 4
      BY <1>4, <1>5, NodeWords
    <2> QED
      BY <2>1, <2>2, <2>3
  <1>9. q = list_replace(m, x, y)
    BY DEF list_replace
  <1>10. copied = [m EXCEPT ![y + 4] = l, ![y] = r]
    BY <1>4
  <1> HIDE DEF copied
  <1>11. /\ copied \in Memory /\ copied[x + 4] = l /\ copied[x] = r
         /\ \A w \in Words : copied[w] = IF w = y THEN r ELSE IF w = y + 4 THEN l ELSE m[w]
    BY <1>4, <1>6, <1>8, <1>10 DEF Memory
  <1>12. relinked = [copied EXCEPT ![l] = y, ![r + 4] = y]
    BY <1>11
  <1> HIDE DEF relinked
  <1>13. /\ relinked \in Memory
         /\ \A w \in Words : relinked[w] = IF w = r + 4 \/ w = l THEN y ELSE copied[w]
    BY <1>6, <1>7, <1>11, <1>12 DEF Memory
  <1>14. /\ q \in Memory
         /\ \A w \in Words :
              q[w] = IF w = x \/ w = x + 4 THEN NULL
                     ELSE IF w = r + 4 \/ w = l THEN y
                     ELSE IF w = y THEN r ELSE IF w = y + 4 THEN l ELSE m[w]
    <2>1. /\ q \in Memory
          /\ \A w \in Words : q[w] = IF w = x \/ w = x + 4 THEN NULL ELSE relinked[w]
      BY <1>6, <1>7, <1>13 DEF Memory
    <2> HIDE DEF q
    <2> QED
      BY <1>11, <1>13, <2>1
  <1> HIDE DEF q
  <1>15. OutsideNodes(m, q, N \cup {y})
    BY <1>5, <1>14 DEF OutsideNodes
  <1> DEFINE d == [c EXCEPT ![k] = y]
  <1>16. /\ d \in [0 .. n + 1 -> Words] /\ d[k] = y
         /\ \A i \in 0 .. n + 1 : i # k => d[i] = c[i]
    BY <1>6
  <1> HIDE DEF d
  <1>17. Ring(q, (N \ {x}) \cup {y}, d, n)
    <2>1. d[0] = kheap_free_list /\ d[n + 1] = kheap_free_list
      BY <1>2, <1>16 DEF Ring
    <2>2. ASSUME NEW j \in 0 .. n
          PROVE  q[d[j]] = d[j + 1] /\ q[d[j + 1] + 4] = d[j]
      <3>1. CASE j = k - 1
        <4>1. d[j] = l /\ d[j + 1] = y
          BY <1>16, <3>1 DEF l
        <4>2. q[l] = y /\ q[y + 4] = l
          BY <1>4, <1>5, <1>6, <1>8, <1>14
        <4> QED
          BY <4>1, <4>2
      <3>2. CASE j = k
        <4>1. d[j] = y /\ d[j + 1] = r
          BY <1>16, <3>2 DEF r
        <4>2. q[y] = r /\ q[r + 4] = y
          BY <1>5, <1>6, <1>8, <1>14
        <4> QED
          BY <4>1, <4>2
      <3>3. CASE j # k - 1 /\ j # k
        <4> DEFINE u == c[j]
                   v == c[j + 1]
        <4>2. u # x /\ u # l /\ v # x /\ v # r
          <5>1. /\ j \in 0 .. n /\ k \in 0 .. n /\ k - 1 \in 0 .. n
                /\ j + 1 \in 1 .. n + 1 /\ k \in 1 .. n + 1 /\ k + 1 \in 1 .. n + 1
                /\ j + 1 # k /\ j + 1 # k + 1
            BY <3>3
          <5>2. \A a, b \in 0 .. n : c[a] = c[b] => a = b
            BY <1>0, <1>2, RingOnce
          <5>4. \A a, b \in 1 .. n + 1 : c[a] = c[b] => a = b
            BY <1>0, <1>2, RingOnceBack
          <5>3. c[j] # c[k] /\ c[j] # c[k - 1] /\ c[j + 1] # c[k] /\ c[j + 1] # c[k + 1]
            BY <3>3, <5>1, <5>2, <5>4
          <5> QED
            BY <1>3, <5>3 DEF l, r
        <4>3. /\ m[u] = v /\ m[v + 4] = u
              /\ u \in N \cup {kheap_free_list} /\ v \in N \cup {kheap_free_list}
          <5>1. j \in 0 .. n + 1 /\ j + 1 \in 0 .. n + 1
            OBVIOUS
          <5>2. m[u] = v /\ m[v + 4] = u
            BY <1>2 DEF Ring
          <5> QED
            BY <1>2, <5>1, <5>2, RingMembers
        <4> HIDE DEF u, v
        <4>1. d[j] = u /\ d[j + 1] = v
          <5>1. j \in 0 .. n + 1 /\ j + 1 \in 0 .. n + 1 /\ j + 1 # k
            BY <3>3
          <5> QED
            BY <1>16, <3>3, <5>1 DEF u, v
        <4>4. u \in M \cup {kheap_free_list} /\ v \in M \cup {kheap_free_list} /\ u # y /\ v # y
          BY <1>5, <4>3
        <4>5. u # x + 4 /\ u # r + 4 /\ u # y + 4 /\ u \in Words
          BY <1>5, <4>4, NodeWords
        <4>6. /\ v + 4 # x /\ v + 4 # x + 4 /\ v + 4 # r + 4 /\ v + 4 # l /\ v + 4 # y
              /\ v + 4 # y + 4 /\ v + 4 \in Words
          BY <1>5, <4>2, <4>4, NodeWords
        <4>7. q[u] = v /\ q[v + 4] = u
          BY <1>14, <4>2, <4>3, <4>4, <4>5, <4>6
        <4> QED
          BY <4>1, <4>7
      <3> QED
        BY <3>1, <3>2, <3>3
    <2>3. \A i \in 1 .. n : i # k => d[i] = c[i] /\ c[i] \in N /\ c[i] # y /\ c[i] # x
      BY <1>2, <1>3, <1>16 DEF Ring
    <2>4. ASSUME NEW i \in 1 .. n, NEW j \in 1 .. n, d[i] = d[j] PROVE i = j
      <3>1. CASE i = k \/ j = k
        BY <1>16, <2>3, <2>4, <3>1
      <3>2. CASE i # k /\ j # k
        <4>1. c[i] = c[j]
          BY <2>3, <2>4, <3>2
        <4> QED
          BY <1>2, <4>1 DEF Ring
      <3> QED
        BY <3>1, <3>2
    <2>5. \A i \in 1 .. n : d[i] \in (N \ {x}) \cup {y}
      BY <1>16, <2>3
    <2>6. ASSUME NEW z \in (N \ {x}) \cup {y} PROVE \E i \in 1 .. n : d[i] = z
      <3>1. CASE z = y
        BY <1>16, <3>1
      <3>2. CASE z \in N \ {x}
        <4>1. PICK i \in 1 .. n : c[i] = z
          BY <1>2, <3>2 DEF Ring
        <4>2. i # k
          BY <1>3, <3>2, <4>1
        <4> QED
          BY <2>3, <4>1, <4>2
      <3> QED
        BY <3>1, <3>2
    <2> QED
      BY <1>16, <2>1, <2>2, <2>4, <2>5, <2>6 DEF Ring
  <1>18. Linked(q, (N \ {x}) \cup {y})
    BY <1>17 DEF Linked
  <1> QED
    BY <1>9, <1>14, <1>15, <1>18
(* A list whose words are not written stays as it is.                      *)
LEMMA SameLinks ==
  ASSUME NEW m, NEW q, NEW N, Linked(m, N),
         \A x \in N \cup {kheap_free_list} : q[x] = m[x] /\ q[x + 4] = m[x + 4]
  PROVE  Linked(q, N)
  <1>1. PICK n \in Nat : \E c \in [0 .. n + 1 -> Words] : Ring(m, N, c, n)
    BY LinkedRing
  <1>2. PICK c \in [0 .. n + 1 -> Words] : Ring(m, N, c, n)
    BY <1>1
  <1>3. ASSUME NEW i \in 0 .. n PROVE q[c[i]] = c[i + 1] /\ q[c[i + 1] + 4] = c[i]
    <2>1. \A j \in 0 .. n + 1 : c[j] \in N \cup {kheap_free_list}
      BY <1>2, RingMembers
    <2>2. c[i] \in N \cup {kheap_free_list} /\ c[i + 1] \in N \cup {kheap_free_list}
      BY <2>1
    <2>3. m[c[i]] = c[i + 1] /\ m[c[i + 1] + 4] = c[i]
      BY <1>2 DEF Ring
    <2> QED
      BY <2>2, <2>3
  <1>4. Ring(q, N, c, n)
    BY <1>2, <1>3 DEF Ring
  <1> QED
    BY <1>4 DEF Linked

-----------------------------------------------------------------------------
(* The blocks.                                                             *)
USE DEF HEADER, FOOTER, KHEAP_MIN_BLOCK_SIZE, kheap_start, kheap_free_list, NodeOf, HeaderOf

(* The heap ends at a word boundary that a word can hold.                  *)
LEMMA EndOfHeap == kheap_end \in Nat /\ kheap_end % 4 = 0 /\ kheap_end >= 36
                   /\ kheap_end <= SIZE_MAX /\ SIZE_MAX \in Nat
  BY HeapAssumption DEF kheap_end

(* The sizes passed to kmalloc are numbers.                                *)
LEMMA SizesAre ==
  ASSUME NEW s \in Sizes
  PROVE  s \in Int /\ 0 <= s /\ s <= SIZE_MAX - 24
  BY HeapAssumption

(* The words of the heap, by their addresses.                              *)
LEMMA HeapWordsAre ==
  ASSUME NEW a
  PROVE  a \in HeapWords <=> a \in Int /\ 12 <= a /\ a < kheap_end /\ a % 4 = 0
  BY EndOfHeap DEF HeapWords, Words

(* A block starts and ends at a word boundary inside the heap.             *)
LEMMA BlockFacts ==
  ASSUME NEW m \in Memory, NEW B, Tiles(m, B), NEW a \in B
  PROVE  /\ a \in Int /\ 12 <= a /\ a % 4 = 0
         /\ m[a] \in Int /\ 20 <= m[a] /\ m[a] % 4 = 0
         /\ a + m[a] <= kheap_end
         /\ m[a + m[a] - 4] = m[a]
  <1>1. a \in HeapWords /\ m[a] >= 20 /\ a + m[a] \in B \cup {kheap_end} /\ m[a + m[a] - 4] = m[a]
    BY DEF Tiles
  <1>2. a \in Int /\ 12 <= a /\ a % 4 = 0 /\ a \in Words
    BY <1>1 DEF HeapWords, Words
  <1>3. m[a] \in Int
    BY <1>2 DEF Memory
  <1>4. /\ a + m[a] \in Int /\ (a + m[a]) % 4 = 0 /\ a + m[a] <= kheap_end
    <2>1. CASE a + m[a] \in B
      <3>1. a + m[a] \in HeapWords
        BY <2>1 DEF Tiles
      <3> QED
        BY <3>1, HeapWordsAre, EndOfHeap
    <2>2. CASE a + m[a] = kheap_end
      BY <2>2, EndOfHeap
    <2> QED
      BY <1>1, <2>1, <2>2
  <1>5. m[a] % 4 = 0
    BY <1>2, <1>3, <1>4
  <1> QED
    BY <1>1, <1>2, <1>3, <1>4, <1>5

(* The words of a block, and of two different blocks.                      *)
LEMMA BlockWords ==
  ASSUME NEW m \in Memory, NEW B, Tiles(m, B), NEW a \in B, NEW w \in Int,
         a <= w, w < a + m[a], w % 4 = 0
  PROVE  w \in HeapWords /\ w \in Words
  <1>1. 12 <= a /\ a \in Int /\ m[a] \in Int /\ a + m[a] <= kheap_end
    BY BlockFacts
  <1>2. w \in HeapWords
    BY <1>1, EndOfHeap, HeapWordsAre
  <1> QED
    BY <1>2 DEF HeapWords

(* Different blocks share no word.                                         *)
LEMMA BlocksApart ==
  ASSUME NEW m \in Memory, NEW B, Tiles(m, B), NEW a \in B, NEW b \in B, a # b
  PROVE  a + m[a] <= b \/ b + m[b] <= a
  <1>1. a \in Int /\ b \in Int
    BY BlockFacts
  <1>2. a < b \/ b < a
    BY <1>1
  <1> QED
    BY <1>2 DEF Tiles

(* The list's nodes in the blocks.                                         *)
LEMMA NodesOfBlocks ==
  ASSUME NEW m \in Memory, NEW B, Tiles(m, B), NEW F \in SUBSET B
  PROVE  NodesApart(Nodes(F))
  <1>1. ASSUME NEW x \in Nodes(F) PROVE x \in Int /\ x >= 20 /\ x \in Words /\ x + 4 \in Words
    <2>1. PICK a \in F : x = a + 8
      BY DEF Nodes
    <2>2. a \in B /\ a \in Int /\ 12 <= a /\ a % 4 = 0 /\ m[a] \in Int /\ 20 <= m[a]
      BY BlockFacts
    <2>3. a + 8 \in Words /\ a + 12 \in Words
      BY <2>2, BlockWords
    <2>4. x + 4 = a + 12
      BY <2>1, <2>2
    <2> QED
      BY <2>1, <2>2, <2>3, <2>4
  <1>2. ASSUME NEW x \in Nodes(F), NEW y \in Nodes(F) PROVE x + 4 # y
    <2>1. PICK a \in F : x = a + 8
      BY DEF Nodes
    <2>2. PICK b \in F : y = b + 8
      BY DEF Nodes
    <2>3. a \in B /\ a \in Int /\ m[a] \in Int /\ 20 <= m[a]
      BY BlockFacts
    <2>4. b \in B /\ b \in Int /\ m[b] \in Int /\ 20 <= m[b]
      BY BlockFacts
    <2>5. a = b \/ a + m[a] <= b \/ b + m[b] <= a
      BY <2>3, <2>4, BlocksApart
    <2> QED
      BY <2>1, <2>2, <2>3, <2>4, <2>5
  <1>3. kheap_free_list \in Words /\ kheap_free_list + 4 \in Words
    BY WordsAreValues
  <1> QED
    BY <1>1, <1>2, <1>3 DEF NodesApart

(* Words of a block other than its list node.                              *)
Plain(m, a, w) == (a <= w /\ w < a + 8) \/ (a + 16 <= w /\ w < a + m[a])

SameBlocks(m, q, B) == \A a \in B : \A w \in Words : Plain(m, a, w) => q[w] = m[w]

(* They are no words of the list.                                          *)
LEMMA PlainWords ==
  ASSUME NEW m \in Memory, NEW B, Tiles(m, B), NEW a \in B, NEW w \in Int, Plain(m, a, w),
         NEW f \in B
  PROVE  w # f + 8 /\ w # f + 12 /\ w # 4 /\ w # 8
  <1>1. a \in Int /\ 12 <= a /\ m[a] \in Int /\ 20 <= m[a]
    BY BlockFacts
  <1>2. f \in Int /\ m[f] \in Int /\ 20 <= m[f]
    BY BlockFacts
  <1>3. a = f \/ a + m[a] <= f \/ f + m[f] <= a
    BY BlocksApart
  <1> QED
    BY <1>1, <1>2, <1>3 DEF Plain

(* A function of the list leaves them alone.                               *)
LEMMA ListKeepsBlocks ==
  ASSUME NEW m \in Memory, NEW B, Tiles(m, B), NEW F \in SUBSET B, NEW q,
         OutsideNodes(m, q, Nodes(F))
  PROVE  SameBlocks(m, q, B)
  <1> SUFFICES ASSUME NEW a \in B, NEW w \in Words, Plain(m, a, w) PROVE q[w] = m[w]
    BY DEF SameBlocks
  <1>1. w \in Int
    BY WordsAreInt
  <1>2. ASSUME NEW x \in Nodes(F) PROVE w # x /\ w # x + 4
    <2>1. PICK f \in F : x = f + 8
      BY DEF Nodes
    <2>2. f \in B /\ f \in Int
      BY BlockFacts
    <2>3. w # f + 8 /\ w # f + 12
      BY <1>1, <2>2, PlainWords
    <2> QED
      BY <2>1, <2>2, <2>3
  <1>3. w # kheap_free_list /\ w # kheap_free_list + 4
    BY <1>1, PlainWords
  <1> QED
    BY <1>2, <1>3 DEF OutsideNodes

(* Then the blocks and their flags are as they were ...                    *)
LEMMA SameTags ==
  ASSUME NEW m \in Memory, NEW q \in Memory, NEW B, Tiles(m, B), SameBlocks(m, q, B)
  PROVE  /\ \A a \in B : q[a] = m[a] /\ q[a + 4] = m[a + 4] /\ q[a + m[a] - 4] = m[a + m[a] - 4]
         /\ FreeOf(q, B) = FreeOf(m, B)
         /\ Tiles(q, B)
  <1>1. ASSUME NEW a \in B
        PROVE  q[a] = m[a] /\ q[a + 4] = m[a + 4] /\ q[a + m[a] - 4] = m[a + m[a] - 4]
    <2>1. a \in Int /\ a % 4 = 0 /\ m[a] \in Int /\ 20 <= m[a] /\ m[a] % 4 = 0
      BY BlockFacts
    <2>2. a \in Words /\ Plain(m, a, a)
      BY <2>1, BlockWords DEF Plain
    <2>3. a + 4 \in Words /\ Plain(m, a, a + 4)
      BY <2>1, BlockWords DEF Plain
    <2>4. a + m[a] - 4 \in Words /\ Plain(m, a, a + m[a] - 4)
      BY <2>1, BlockWords DEF Plain
    <2> QED
      BY <2>2, <2>3, <2>4 DEF SameBlocks
  <1>2. FreeOf(q, B) = FreeOf(m, B)
    BY <1>1 DEF FreeOf
  <1>3. Tiles(q, B)
    BY <1>1 DEF Tiles
  <1> QED
    BY <1>1, <1>2, <1>3

(* The words of an allocation lie inside its block.                        *)
LEMMA PayloadInside ==
  ASSUME NEW m \in Memory, NEW B, Tiles(m, B), NEW b \in [ptr : HeapWords, size : Sizes \ {0}],
         b.ptr - HEADER \in B, HEADER + b.size + FOOTER <= m[b.ptr - HEADER],
         NEW w \in Payload(b)
  PROVE  LET a == b.ptr - HEADER
         IN  /\ w \in Words /\ w \in Int /\ Plain(m, a, w)
             /\ a + 16 <= w /\ w < a + m[a] - 4 /\ b.ptr = a + 16 /\ a \in Int
  <1> DEFINE a == b.ptr - HEADER
  <1>1. w \in HeapWords /\ b.ptr <= w /\ w < b.ptr + b.size
    BY DEF Payload
  <1>2. w \in Words /\ w \in Int /\ b.ptr \in Int /\ b.size \in Int
    <2>1. b.ptr \in HeapWords /\ b.size \in Sizes
      OBVIOUS
    <2>2. w \in Words /\ w \in Int /\ b.ptr \in Int
      BY <1>1, <2>1, HeapWordsAre DEF HeapWords
    <2>3. b.size \in Int
      BY <2>1, SizesAre
    <2> QED
      BY <2>2, <2>3
  <1>3. a \in Int /\ m[a] \in Int /\ 16 + b.size + 4 <= m[a] /\ b.ptr = a + 16
    BY <1>2, BlockFacts
  <1> HIDE DEF a
  <1>4. a + 16 <= w /\ w < a + m[a] - 4
    BY <1>1, <1>2, <1>3
  <1>5. Plain(m, a, w)
    BY <1>2, <1>3, <1>4 DEF Plain
  <1> QED
    BY <1>2, <1>3, <1>4, <1>5 DEF a

(* ... and so are the allocations.                                         *)
LEMMA SameHeld ==
  ASSUME NEW m \in Memory, NEW q \in Memory, NEW B, Tiles(m, B), SameBlocks(m, q, B),
         NEW L, Held(m, B, L)
  PROVE  Held(q, B, L)
  <1>1. FreeOf(q, B) = FreeOf(m, B) /\ \A a \in B : q[a] = m[a]
    BY SameTags
  <1>2. ASSUME NEW b \in L, NEW w \in Payload(b) PROVE q[w] = JUNK
    <2>1. /\ b \in [ptr : HeapWords, size : Sizes \ {0}] /\ b.ptr - HEADER \in B
          /\ HEADER + b.size + FOOTER <= m[b.ptr - HEADER] /\ m[w] = JUNK
      BY DEF Held
    <2>2. w \in Words /\ Plain(m, b.ptr - HEADER, w)
      BY <2>1, PayloadInside
    <2> QED
      BY <2>1, <2>2 DEF SameBlocks
  <1> QED
    BY <1>1, <1>2 DEF Held

(* The sizes of the blocks that start at the addresses of S are the same.  *)
SameSizes(m, q, S) == \A x \in S : q[x] = m[x]

(* q is m after the flag of a block was cleared, after an allocated block  *)
(* was flagged and written to, and after a block was cut in two.           *)
Cleared(m, h, q) == q = [m EXCEPT ![h + 4] = 0]

Taken(m, h, b, q) == q = Written([m EXCEPT ![h + 4] = 1], b)

CutOff(m, h, s, b, q) ==
  q = Written(list_replace(Tag(Tag(m, h, s, 1), h + s, m[h] - s, 0),
                           NodeOf(h), NodeOf(h + s)), b)

(* The block at r lies behind the one at l.                                *)
Behind(m, l, r) == r = l + m[l]

(* The block at l has taken in the one at r.                               *)
Joined(m, q, l, r) == q[l] = m[l] + m[r]

(* The header in front of an allocation.                                   *)
HeaderAt(b, h) == h = b.ptr - HEADER

(* An allocation in the block at h, with room for n bytes.                 *)
FitsIn(b, h, n) == b.ptr = h + HEADER /\ HEADER + b.size + FOOTER <= n

(* q is m with another list, that of the free blocks of F.                 *)
ListedState(m, B, F, L, q) ==
  State(q, B, F, L) /\ FreeOf(q, B) = FreeOf(m, B) /\ SameSizes(m, q, B)

(* list_insert_front of a free block that is not in the list.              *)
LEMMA Enlist ==
  ASSUME NEW m, NEW B, NEW F, NEW L, State(m, B, F, L), NEW a \in FreeOf(m, B) \ F,
         NEW q, q = list_insert_front(m, NodeOf(a))
  PROVE  ListedState(m, B, F \cup {a}, L, q)
  <1>1. m \in Memory /\ Tiles(m, B) /\ F \cup {a} \in SUBSET B /\ F \in SUBSET B /\ a \in B
    BY DEF State, FreeOf
  <1>2. Nodes(F \cup {a}) = Nodes(F) \cup {NodeOf(a)}
    BY DEF Nodes
  <1>3. NodeOf(a) \notin Nodes(F)
    <2>1. \A x \in F \cup {a} : x \in Int
      BY <1>1, BlockFacts
    <2> QED
      BY <2>1 DEF Nodes
  <1>4. NodesApart(Nodes(F) \cup {NodeOf(a)})
    BY <1>1, <1>2, NodesOfBlocks
  <1>5. /\ q \in Memory /\ Linked(q, Nodes(F) \cup {NodeOf(a)})
        /\ OutsideNodes(m, q, Nodes(F) \cup {NodeOf(a)})
    BY <1>1, <1>3, <1>4, InsertLinks DEF State
  <1>6. SameBlocks(m, q, B)
    BY <1>1, <1>2, <1>5, ListKeepsBlocks
  <1>7. Tiles(q, B) /\ FreeOf(q, B) = FreeOf(m, B) /\ \A x \in B : q[x] = m[x]
    BY <1>1, <1>5, <1>6, SameTags
  <1>8. Held(q, B, L)
    BY <1>1, <1>5, <1>6, SameHeld DEF State
  <1> QED
    BY <1>2, <1>5, <1>7, <1>8 DEF State, SameSizes, ListedState

(* list_remove of a free block that is in the list.                        *)
LEMMA Unlist ==
  ASSUME NEW m, NEW B, NEW F, NEW L, State(m, B, F, L), NEW a \in F,
         NEW q, q = list_remove(m, NodeOf(a))
  PROVE  ListedState(m, B, F \ {a}, L, q)
  <1>1. m \in Memory /\ Tiles(m, B) /\ F \in SUBSET B /\ NodeOf(a) \in Nodes(F)
    BY DEF State, FreeOf, Nodes
  <1>2. Nodes(F \ {a}) = Nodes(F) \ {NodeOf(a)}
    <2>1. \A x \in F : x \in Int
      BY <1>1, BlockFacts
    <2> QED
      BY <2>1 DEF Nodes
  <1>3. NodesApart(Nodes(F))
    BY <1>1, NodesOfBlocks
  <1>4. /\ q \in Memory /\ Linked(q, Nodes(F) \ {NodeOf(a)}) /\ OutsideNodes(m, q, Nodes(F))
    BY <1>1, <1>3, RemoveLinks DEF State
  <1>5. SameBlocks(m, q, B)
    BY <1>1, <1>4, ListKeepsBlocks
  <1>6. Tiles(q, B) /\ FreeOf(q, B) = FreeOf(m, B) /\ \A x \in B : q[x] = m[x]
    BY <1>1, <1>4, <1>5, SameTags
  <1>7. Held(q, B, L)
    BY <1>1, <1>4, <1>5, SameHeld DEF State
  <1> QED
    BY <1>2, <1>4, <1>6, <1>7 DEF State, SameSizes, ListedState

(* kfree clears the flag of a block before it looks at the neighbours.     *)
ClearedState(m, B, L, b, h, q) ==
  /\ h \in B \ FreeOf(m, B)
  /\ State(q, B, FreeOf(m, B), L \ {b})
  /\ FreeOf(q, B) = FreeOf(m, B) \cup {h} /\ SameSizes(m, q, B)

(* Clearing the flag makes the block free, and it is in no list yet.       *)
LEMMA ClearFlag ==
  ASSUME NEW m, NEW B, NEW L, State(m, B, FreeOf(m, B), L), NEW b \in L,
         NEW h, HeaderAt(b, h), NEW q, Cleared(m, h, q)
  PROVE  ClearedState(m, B, L, b, h, q)
  <1> h = b.ptr - HEADER
    BY DEF HeaderAt
  <1>1. m \in Memory /\ Tiles(m, B) /\ Held(m, B, L) /\ Linked(m, Nodes(FreeOf(m, B)))
    BY DEF State
  <1>2. h \in B /\ h \notin FreeOf(m, B)
    BY <1>1 DEF Held
  <1>3. h \in Int /\ 12 <= h /\ h % 4 = 0 /\ m[h] \in Int /\ 20 <= m[h]
    BY <1>1, <1>2, BlockFacts
  <1>4. h + 4 \in Words
    BY <1>1, <1>2, <1>3, BlockWords
  <1>5. /\ q \in Memory
        /\ \A w \in Words : q[w] = IF w = h + 4 THEN 0 ELSE m[w]
    BY <1>1, <1>4, WordsAreValues DEF Memory, NULL, Cleared
  <1>6. ASSUME NEW x \in B
        PROVE  /\ q[x] = m[x] /\ q[x + m[x] - 4] = m[x + m[x] - 4]
               /\ q[x + 4] = IF x = h THEN 0 ELSE m[x + 4]
               /\ q[x + 8] = m[x + 8] /\ q[x + 12] = m[x + 12]
               /\ \A w \in Words : x # h /\ x <= w /\ w < x + m[x] => q[w] = m[w]
    <2>1. x \in Int /\ x % 4 = 0 /\ m[x] \in Int /\ 20 <= m[x] /\ m[x] % 4 = 0
      BY <1>1, BlockFacts
    <2>2. /\ x \in Words /\ x + 4 \in Words /\ x + 8 \in Words /\ x + 12 \in Words
          /\ x + m[x] - 4 \in Words
      BY <1>1, <2>1, BlockWords
    <2>3. x = h \/ x + m[x] <= h \/ h + m[h] <= x
      BY <1>1, <1>2, BlocksApart
    <2>4. \A w \in Words : w \in Int
      BY WordsAreInt
    <2> QED
      BY <1>3, <1>5, <2>1, <2>2, <2>3, <2>4
  <1>7. Tiles(q, B)
    BY <1>1, <1>6 DEF Tiles
  <1>8. FreeOf(q, B) = FreeOf(m, B) \cup {h}
    <2>1. \A x \in B : q[x + 4] = 0 <=> m[x + 4] = 0 \/ x = h
      BY <1>6
    <2> QED
      BY <1>2, <2>1 DEF FreeOf
  <1>9. Linked(q, Nodes(FreeOf(m, B)))
    <2>1. ASSUME NEW x \in Nodes(FreeOf(m, B)) PROVE q[x] = m[x] /\ q[x + 4] = m[x + 4]
      <3>1. PICK f \in B : x = f + 8
        BY DEF Nodes, FreeOf
      <3>2. f \in Int /\ x + 4 = f + 12
        BY <1>1, <3>1, BlockFacts
      <3> QED
        BY <1>6, <3>1, <3>2
    <2>2. q[kheap_free_list] = m[kheap_free_list] /\ q[kheap_free_list + 4] = m[kheap_free_list + 4]
      BY <1>3, <1>5, WordsAreValues
    <2> QED
      BY <1>1, <2>1, <2>2, SameLinks
  <1>10. Held(q, B, L \ {b})
    <2>1. ASSUME NEW d \in L \ {b}
          PROVE  /\ d.ptr - HEADER \in B \ FreeOf(q, B)
                 /\ HEADER + d.size + FOOTER <= q[d.ptr - HEADER]
                 /\ \A w \in Payload(d) : q[w] = JUNK
      <3> DEFINE a == d.ptr - HEADER
      <3>1. /\ d \in [ptr : HeapWords, size : Sizes \ {0}] /\ a \in B \ FreeOf(m, B)
            /\ HEADER + d.size + FOOTER <= m[a] /\ \A w \in Payload(d) : m[w] = JUNK
            /\ d.ptr # b.ptr /\ b.ptr \in HeapWords
        BY <1>1 DEF Held
      <3>2. a # h
        <4>1. d.ptr \in Int /\ b.ptr \in Int
          BY <3>1, HeapWordsAre
        <4> QED
          BY <3>1, <4>1
      <3>3. ASSUME NEW w \in Payload(d) PROVE q[w] = JUNK
        <4>1. w \in Words /\ w \in Int /\ a + 16 <= w /\ w < a + m[a] - 4 /\ a \in Int
          BY <1>1, <3>1, PayloadInside
        <4>2. m[a] \in Int
          BY <1>1, <3>1, BlockFacts
        <4>3. a <= w /\ w < a + m[a]
          BY <4>1, <4>2
        <4> QED
          BY <1>6, <3>1, <3>2, <4>1, <4>3
      <3> QED
        BY <1>6, <1>8, <3>1, <3>2, <3>3
    <2>2. ASSUME NEW a \in B \ FreeOf(q, B) PROVE \E d \in L \ {b} : d.ptr = a + HEADER
      <3>1. a # h /\ a \in B \ FreeOf(m, B)
        BY <1>8
      <3>2. PICK d \in L : d.ptr = a + HEADER
        BY <1>1, <3>1 DEF Held
      <3>3. a \in Int
        BY <1>1, BlockFacts
      <3>4. d # b
        BY <3>1, <3>2, <3>3
      <3> QED
        BY <3>2, <3>4
    <2> QED
      BY <1>1, <2>1, <2>2 DEF Held
  <1> QED
    BY <1>2, <1>5, <1>6, <1>7, <1>8, <1>9, <1>10 DEF State, SameSizes, ClearedState

(* kheap_merge on a block of the list, or one that is about to be, and the *)
(* block behind it, which is in no list.                                   *)
MergedState(m, B, F, L, l, r, q) ==
  /\ State(q, B \ {r}, F, L)
  /\ FreeOf(q, B \ {r}) = FreeOf(m, B) \ {r}
  /\ Joined(m, q, l, r) /\ SameSizes(m, q, B \ {l, r})

(* kheap_merge leaves one block that ends where the second one ended.      *)
LEMMA Merge ==
  ASSUME NEW m, NEW B, NEW F, NEW L, State(m, B, F, L),
         NEW l \in FreeOf(m, B), NEW r \in FreeOf(m, B) \ F, Behind(m, l, r),
         NEW q, q = kheap_merge(m, l, r)
  PROVE  MergedState(m, B, F, L, l, r, q)
  <1> DEFINE C == B \ {r}
             sum == m[l] + m[r]
  <1>1. /\ m \in Memory /\ Tiles(m, B) /\ Held(m, B, L) /\ Linked(m, Nodes(F))
        /\ l \in B /\ r \in B /\ F \subseteq B /\ F \subseteq C
    BY DEF State, FreeOf
  <1> r = l + m[l]
    BY DEF Behind
  <1>2. l \in Int /\ 12 <= l /\ l % 4 = 0 /\ m[l] \in Int /\ 20 <= m[l] /\ m[l] % 4 = 0
    BY <1>1, BlockFacts
  <1>3. /\ r \in Int /\ 12 <= r /\ r % 4 = 0 /\ m[r] \in Int /\ 20 <= m[r] /\ m[r] % 4 = 0
        /\ r + m[r] <= kheap_end
    BY <1>1, BlockFacts
  <1>4. l \in Words /\ r + m[r] - 4 \in Words
    BY <1>1, <1>2, <1>3, BlockWords
  <1>5. sum \in JUNK .. SIZE_MAX /\ l + sum = r + m[r]
    BY <1>2, <1>3, EndOfHeap DEF JUNK
  <1>6. /\ q \in Memory
        /\ \A w \in Words : q[w] = IF w = l \/ w = r + m[r] - 4 THEN sum ELSE m[w]
    <2>1. q = [m EXCEPT ![l] = sum, ![r + m[r] - 4] = sum]
      BY DEF kheap_merge
    <2> HIDE DEF sum
    <2> QED
      BY <1>1, <1>4, <1>5, <2>1 DEF Memory
  <1> HIDE DEF sum
  <1>7. ASSUME NEW x \in B, NEW w \in Words, w \in Int, x <= w, w < x + m[x], x # l, x # r
        PROVE  q[w] = m[w]
    <2>1. x \in Int /\ m[x] \in Int
      BY <1>1, BlockFacts
    <2>2. (x + m[x] <= l \/ l + m[l] <= x) /\ (x + m[x] <= r \/ r + m[r] <= x)
      BY <1>1, <1>7, BlocksApart
    <2> QED
      BY <1>2, <1>3, <1>6, <1>7, <2>1, <2>2
  <1>8. ASSUME NEW x \in B
        PROVE  /\ q[x + 4] = m[x + 4] /\ q[x + 8] = m[x + 8] /\ q[x + 12] = m[x + 12]
               /\ x # l /\ x # r => q[x] = m[x] /\ q[x + m[x] - 4] = m[x + m[x] - 4]
    <2>1. x \in Int /\ x % 4 = 0 /\ m[x] \in Int /\ 20 <= m[x] /\ m[x] % 4 = 0
      BY <1>1, BlockFacts
    <2>2. /\ x \in Words /\ x + 4 \in Words /\ x + 8 \in Words /\ x + 12 \in Words
          /\ x + m[x] - 4 \in Words
      BY <1>1, <2>1, BlockWords
    <2>3. CASE x # l /\ x # r
      BY <1>7, <2>1, <2>2, <2>3
    <2>4. CASE x = l \/ x = r
      BY <1>2, <1>3, <1>6, <2>1, <2>2, <2>4
    <2> QED
      BY <2>3, <2>4
  <1>9. q[l] = sum /\ q[r + m[r] - 4] = sum
    BY <1>4, <1>6
  <1>10. Tiles(q, C)
    <2>1. C \subseteq HeapWords /\ kheap_start \in C
      <3>1. r # kheap_start
        BY <1>2, <1>3
      <3> QED
        BY <1>1, <3>1 DEF Tiles
    <2>2. ASSUME NEW a \in C
          PROVE  /\ q[a] >= HEADER + FOOTER /\ a + q[a] \in C \cup {kheap_end}
                 /\ q[a + q[a] - FOOTER] = q[a]
      <3>1. CASE a = l
        <4>1. r + m[r] \in B \cup {kheap_end} /\ r + m[r] # r
          BY <1>1, <1>3 DEF Tiles
        <4> QED
          BY <1>2, <1>3, <1>5, <1>9, <3>1, <4>1 DEF sum
      <3>2. CASE a # l
        <4>1. /\ a \in Int /\ m[a] \in Int /\ 20 <= m[a]
              /\ a + m[a] \in B \cup {kheap_end} /\ m[a + m[a] - 4] = m[a]
          BY <1>1, BlockFacts DEF Tiles
        <4>2. a + m[a] # r
          <5>1. a + m[a] <= l \/ l + m[l] <= a
            BY <1>1, <3>2, BlocksApart
          <5> QED
            BY <1>2, <4>1, <5>1
        <4>3. q[a] = m[a] /\ q[a + m[a] - 4] = m[a + m[a] - 4]
          BY <1>8, <3>2
        <4> QED
          BY <4>1, <4>2, <4>3
      <3> QED
        BY <3>1, <3>2
    <2>3. ASSUME NEW a \in C, NEW b \in C, a < b PROVE a + q[a] <= b
      <3>1. a + m[a] <= b /\ b \in Int
        BY <1>1, <2>3, BlockFacts DEF Tiles
      <3>2. CASE a = l
        <4>1. b + m[b] <= r \/ r + m[r] <= b
          BY <1>1, BlocksApart
        <4>2. m[b] \in Int /\ 20 <= m[b]
          BY <1>1, BlockFacts
        <4> QED
          BY <1>2, <1>3, <1>5, <1>9, <3>1, <3>2, <4>1, <4>2
      <3>3. CASE a # l
        BY <1>8, <3>1, <3>3
      <3> QED
        BY <3>2, <3>3
    <2> QED
      BY <2>1, <2>2, <2>3 DEF Tiles
  <1>11. FreeOf(q, C) = FreeOf(m, B) \ {r}
    BY <1>8 DEF FreeOf
  <1>12. Linked(q, Nodes(F))
    <2>1. ASSUME NEW x \in Nodes(F) PROVE q[x] = m[x] /\ q[x + 4] = m[x + 4]
      <3>1. PICK f \in F : x = f + 8
        BY DEF Nodes
      <3>2. f \in B /\ f \in Int /\ x + 4 = f + 12
        BY <1>1, <3>1, BlockFacts
      <3> QED
        BY <1>8, <3>1, <3>2
    <2>2. q[kheap_free_list] = m[kheap_free_list] /\ q[kheap_free_list + 4] = m[kheap_free_list + 4]
      BY <1>2, <1>3, <1>6, WordsAreValues
    <2> QED
      BY <1>1, <2>1, <2>2, SameLinks
  <1>13. Held(q, C, L)
    <2>1. C \ FreeOf(q, C) = B \ FreeOf(m, B)
      BY <1>11
    <2>2. ASSUME NEW d \in L
          PROVE  HEADER + d.size + FOOTER <= q[d.ptr - HEADER] /\ \A w \in Payload(d) : q[w] = JUNK
      <3> DEFINE a == d.ptr - HEADER
      <3>1. /\ d \in [ptr : HeapWords, size : Sizes \ {0}] /\ a \in B \ FreeOf(m, B)
            /\ HEADER + d.size + FOOTER <= m[a] /\ \A w \in Payload(d) : m[w] = JUNK
        BY <1>1 DEF Held
      <3>2. a # l /\ a # r
        BY <3>1
      <3>3. ASSUME NEW w \in Payload(d) PROVE q[w] = JUNK
        <4>1. w \in Words /\ w \in Int /\ a + 16 <= w /\ w < a + m[a] - 4 /\ a \in Int
          BY <1>1, <3>1, PayloadInside
        <4>2. m[a] \in Int
          BY <1>1, <3>1, BlockFacts
        <4>3. a <= w /\ w < a + m[a]
          BY <4>1, <4>2
        <4> QED
          BY <1>7, <3>1, <3>2, <4>1, <4>3
      <3> QED
        BY <1>8, <3>1, <3>2, <3>3
    <2> QED
      BY <1>1, <2>1, <2>2 DEF Held
  <1>14. F \subseteq FreeOf(q, C)
    BY <1>11 DEF State
  <1> QED
    BY <1>6, <1>8, <1>9, <1>10, <1>11, <1>12, <1>13, <1>14
       DEF State, sum, SameSizes, Joined, MergedState

(* The owner of an allocation writes to the inside of its block only.      *)
LEMMA OwnerWrites ==
  ASSUME NEW m \in Memory, NEW B, Tiles(m, B), NEW F \in SUBSET B, Linked(m, Nodes(F)),
         NEW h \in B, NEW b \in [ptr : HeapWords, size : Sizes \ {0}], b.ptr = h + HEADER,
         HEADER + b.size + FOOTER <= m[h], NEW q, q = Written(m, b)
  PROVE  /\ q \in Memory
         /\ \A w \in Payload(b) : q[w] = JUNK
         /\ \A x \in B : q[x] = m[x]
         /\ \A x \in B : \A w \in Words : x # h /\ x + 16 <= w /\ w < x + m[x] => q[w] = m[w]
         /\ FreeOf(q, B) = FreeOf(m, B) /\ Tiles(q, B) /\ Linked(q, Nodes(F))
  <1>1. /\ h \in Int /\ 12 <= h /\ h % 4 = 0 /\ m[h] \in Int /\ 20 <= m[h] /\ m[h] % 4 = 0
    BY BlockFacts
  <1>2. b.size \in Int
    BY SizesAre
  <1>3. /\ q \in Memory
        /\ \A w \in Words : q[w] = IF w \in Payload(b) THEN JUNK ELSE m[w]
    <2>1. JUNK \in JUNK .. SIZE_MAX
      BY EndOfHeap DEF JUNK
    <2> QED
      BY <2>1 DEF Written, Memory
  <1>4. /\ Payload(b) \subseteq Words
        /\ \A w \in Payload(b) : w \in Int /\ h + 16 <= w /\ w < h + m[h] - 4
    <2>1. \A w \in Payload(b) : w \in HeapWords /\ h + 16 <= w /\ w < h + 16 + b.size
      BY DEF Payload
    <2>2. \A w \in Payload(b) : w \in Int /\ w \in Words
      BY <2>1, WordsAreInt DEF HeapWords
    <2> QED
      BY <1>1, <1>2, <2>1, <2>2
  <1>5. \A w \in Words : ~ (h + 16 <= w /\ w < h + m[h] - 4) => q[w] = m[w]
    BY <1>3, <1>4
  <1>6. ASSUME NEW x \in B
        PROVE  /\ q[x] = m[x] /\ q[x + 4] = m[x + 4] /\ q[x + 8] = m[x + 8]
               /\ q[x + 12] = m[x + 12] /\ q[x + m[x] - 4] = m[x + m[x] - 4]
               /\ \A w \in Words : x # h /\ x + 16 <= w /\ w < x + m[x] => q[w] = m[w]
    <2>1. x \in Int /\ x % 4 = 0 /\ m[x] \in Int /\ 20 <= m[x] /\ m[x] % 4 = 0
      BY BlockFacts
    <2>2. /\ x \in Words /\ x + 4 \in Words /\ x + 8 \in Words /\ x + 12 \in Words
          /\ x + m[x] - 4 \in Words
      BY <2>1, BlockWords
    <2>3. x = h \/ x + m[x] <= h \/ h + m[h] <= x
      BY BlocksApart
    <2>4. \A w \in Words : w \in Int
      BY WordsAreInt
    <2> QED
      BY <1>1, <1>5, <2>1, <2>2, <2>3, <2>4
  <1>7. Tiles(q, B)
    BY <1>6 DEF Tiles
  <1>8. FreeOf(q, B) = FreeOf(m, B)
    BY <1>6 DEF FreeOf
  <1>9. Linked(q, Nodes(F))
    <2>1. ASSUME NEW x \in Nodes(F) PROVE q[x] = m[x] /\ q[x + 4] = m[x + 4]
      <3>1. PICK f \in F : x = f + 8
        BY DEF Nodes
      <3>2. f \in B /\ f \in Int /\ x + 4 = f + 12
        BY <3>1, BlockFacts
      <3> QED
        BY <1>6, <3>1, <3>2
    <2>2. q[kheap_free_list] = m[kheap_free_list] /\ q[kheap_free_list + 4] = m[kheap_free_list + 4]
      BY <1>1, <1>5, WordsAreValues
    <2> QED
      BY <2>1, <2>2, SameLinks
  <1> QED
    BY <1>3, <1>4, <1>6, <1>7, <1>8, <1>9

(* The allocated blocks and their contents are left alone.                 *)
AllocatedKept(m, q, B) ==
  \A a \in B \ FreeOf(m, B) :
    q[a] = m[a] /\ \A w \in Words : a + 16 <= w /\ w < a + m[a] => q[w] = m[w]

(* A free block becomes the block of a new allocation.                     *)
LEMMA HeldMore ==
  ASSUME NEW m \in Memory, NEW B, Tiles(m, B), NEW L, Held(m, B, L), NEW q, NEW C,
         NEW h \in FreeOf(m, B), NEW b \in [ptr : HeapWords, size : Sizes \ {0}],
         b.ptr = h + HEADER, HEADER + b.size + FOOTER <= q[h],
         \A w \in Payload(b) : q[w] = JUNK,
         C \ FreeOf(q, C) = (B \ FreeOf(m, B)) \cup {h}, AllocatedKept(m, q, B)
  PROVE  Held(q, C, L \cup {b})
  <1>1. h \in B /\ h \in Int /\ b.ptr - HEADER = h
    <2>1. h \in B
      BY DEF FreeOf
    <2>2. h \in Int
      BY <2>1, BlockFacts
    <2> QED
      BY <2>1, <2>2
  <1>2. ASSUME NEW d \in L
        PROVE  /\ d.ptr - HEADER \in C \ FreeOf(q, C)
               /\ HEADER + d.size + FOOTER <= q[d.ptr - HEADER]
               /\ \A w \in Payload(d) : q[w] = JUNK
               /\ d.ptr # b.ptr
    <2> DEFINE a == d.ptr - HEADER
    <2>1. /\ d \in [ptr : HeapWords, size : Sizes \ {0}] /\ a \in B \ FreeOf(m, B)
          /\ HEADER + d.size + FOOTER <= m[a] /\ \A w \in Payload(d) : m[w] = JUNK
      BY DEF Held
    <2>2. ASSUME NEW w \in Payload(d) PROVE q[w] = JUNK
      <3>1. w \in Words /\ w \in Int /\ a + 16 <= w /\ w < a + m[a] - 4 /\ a \in Int
        BY <2>1, PayloadInside
      <3>2. m[a] \in Int
        BY <2>1, BlockFacts
      <3>3. w < a + m[a]
        BY <3>1, <3>2
      <3> QED
        BY <2>1, <3>1, <3>3 DEF AllocatedKept
    <2>3. d.ptr # b.ptr
      BY <1>1, <2>1
    <2> QED
      BY <2>1, <2>2, <2>3 DEF AllocatedKept
  <1>3. ASSUME NEW a \in C \ FreeOf(q, C) PROVE \E d \in L \cup {b} : d.ptr = a + HEADER
    BY DEF Held
  <1>4. L \cup {b} \subseteq [ptr : HeapWords, size : Sizes \ {0}]
    BY DEF Held
  <1>5. \A d, e \in L \cup {b} : d.ptr = e.ptr => d = e
    BY <1>2 DEF Held
  <1> QED
    BY <1>1, <1>2, <1>3, <1>4, <1>5 DEF Held

(* kmalloc with a block that is taken whole, after it left the list.       *)
LEMMA Take ==
  ASSUME NEW m, NEW B, NEW F, NEW L, State(m, B, F, L), NEW h \in FreeOf(m, B) \ F,
         NEW b \in [ptr : HeapWords, size : Sizes \ {0}], FitsIn(b, h, m[h]),
         NEW q, Taken(m, h, b, q)
  PROVE  /\ State(q, B, F, L \cup {b})
         /\ FreeOf(q, B) = FreeOf(m, B) \ {h} /\ SameSizes(m, q, B)
  <1> DEFINE t == [m EXCEPT ![h + 4] = 1]
  <1>1. /\ m \in Memory /\ Tiles(m, B) /\ Held(m, B, L) /\ Linked(m, Nodes(F)) /\ h \in B
        /\ F \in SUBSET B
    BY DEF State, FreeOf
  <1>2. h \in Int /\ 12 <= h /\ h % 4 = 0 /\ m[h] \in Int /\ 20 <= m[h]
    BY <1>1, BlockFacts
  <1>3. h + 4 \in Words
    BY <1>1, <1>2, BlockWords
  <1>4. /\ t \in Memory
        /\ \A w \in Words : t[w] = IF w = h + 4 THEN 1 ELSE m[w]
    <2>1. 1 \in JUNK .. SIZE_MAX
      BY EndOfHeap DEF JUNK
    <2> QED
      BY <1>1, <1>3, <2>1 DEF Memory
  <1>5. q = Written(t, b) /\ b.ptr = h + HEADER /\ HEADER + b.size + FOOTER <= m[h]
    BY DEF Taken, FitsIn
  <1> HIDE DEF t
  <1>6. ASSUME NEW x \in B
        PROVE  /\ t[x] = m[x] /\ t[x + m[x] - 4] = m[x + m[x] - 4]
               /\ t[x + 4] = IF x = h THEN 1 ELSE m[x + 4]
               /\ t[x + 8] = m[x + 8] /\ t[x + 12] = m[x + 12]
               /\ \A w \in Words : x + 16 <= w /\ w < x + m[x] => t[w] = m[w]
    <2>1. x \in Int /\ x % 4 = 0 /\ m[x] \in Int /\ 20 <= m[x] /\ m[x] % 4 = 0
      BY <1>1, BlockFacts
    <2>2. /\ x \in Words /\ x + 4 \in Words /\ x + 8 \in Words /\ x + 12 \in Words
          /\ x + m[x] - 4 \in Words
      BY <1>1, <2>1, BlockWords
    <2>3. x = h \/ x + m[x] <= h \/ h + m[h] <= x
      BY <1>1, BlocksApart
    <2>4. \A w \in Words : w \in Int
      BY WordsAreInt
    <2> QED
      BY <1>2, <1>4, <2>1, <2>2, <2>3, <2>4
  <1>7. Tiles(t, B)
    BY <1>1, <1>6 DEF Tiles
  <1>8. FreeOf(t, B) = FreeOf(m, B) \ {h}
    <2>1. \A x \in B : t[x + 4] = 0 <=> m[x + 4] = 0 /\ x # h
      BY <1>6
    <2> QED
      BY <2>1 DEF FreeOf
  <1>9. Linked(t, Nodes(F))
    <2>1. ASSUME NEW x \in Nodes(F) PROVE t[x] = m[x] /\ t[x + 4] = m[x + 4]
      <3>1. PICK f \in F : x = f + 8
        BY DEF Nodes
      <3>2. f \in B /\ f \in Int /\ x + 4 = f + 12
        BY <1>1, <3>1, BlockFacts
      <3> QED
        BY <1>6, <3>1, <3>2
    <2>2. t[kheap_free_list] = m[kheap_free_list] /\ t[kheap_free_list + 4] = m[kheap_free_list + 4]
      BY <1>2, <1>4, WordsAreValues
    <2> QED
      BY <1>1, <2>1, <2>2, SameLinks
  <1>10. HEADER + b.size + FOOTER <= t[h]
    BY <1>1, <1>5, <1>6
  <1>11. /\ q \in Memory
         /\ FreeOf(q, B) = FreeOf(t, B) /\ Tiles(q, B) /\ Linked(q, Nodes(F))
    BY <1>1, <1>4, <1>5, <1>7, <1>9, <1>10, OwnerWrites
  <1>12. \A w \in Payload(b) : q[w] = JUNK
    BY <1>1, <1>4, <1>5, <1>7, <1>9, <1>10, OwnerWrites
  <1>16. \A x \in B : q[x] = t[x]
    BY <1>1, <1>4, <1>5, <1>7, <1>9, <1>10, OwnerWrites
  <1>13. \A x \in B : \A w \in Words : x # h /\ x + 16 <= w /\ w < x + t[x] => q[w] = t[w]
    BY <1>1, <1>4, <1>5, <1>7, <1>9, <1>10, OwnerWrites
  <1>14. Held(q, B, L \cup {b})
    <2>1. B \ FreeOf(q, B) = (B \ FreeOf(m, B)) \cup {h}
      BY <1>1, <1>8, <1>11
    <2>2. ASSUME NEW a \in B \ FreeOf(m, B)
          PROVE  q[a] = m[a] /\ \A w \in Words : a + 16 <= w /\ w < a + m[a] => q[w] = m[w]
      BY <1>6, <1>13, <1>16
    <2>3. HEADER + b.size + FOOTER <= q[h]
      BY <1>1, <1>5, <1>6, <1>16
    <2>4. AllocatedKept(m, q, B)
      BY <2>2 DEF AllocatedKept
    <2>5. h \in FreeOf(m, B)
      OBVIOUS
    <2> QED
      BY <1>1, <1>5, <1>11, <1>12, <2>1, <2>3, <2>4, <2>5, HeldMore
  <1>15. F \subseteq FreeOf(q, B)
    BY <1>8, <1>11 DEF State
  <1> QED
    BY <1>6, <1>8, <1>11, <1>14, <1>15, <1>16 DEF State, SameSizes

(* What kmalloc asks of the free list for a size.                          *)
LEMMA BlockSizes ==
  ASSUME NEW size \in Sizes, size # 0
  PROVE  /\ BlockSize(size) \in Int /\ BlockSize(size) % 4 = 0 /\ BlockSize(size) >= 24
         /\ HEADER + size + FOOTER <= BlockSize(size)
  BY HeapAssumption DEF ALIGN_UP, BlockSize

(* The tags of a block that is cut in two.                                 *)
CutTags(m, t, h, s) ==
  LET rest == h + s
      r    == m[h] - s
  IN  \A w \in Words :
        t[w] = IF w = rest + r - 4 THEN r
               ELSE IF w = rest + 4 THEN 0 ELSE IF w = rest THEN r
               ELSE IF w = rest - 4 THEN s
               ELSE IF w = h + 4 THEN 1 ELSE IF w = h THEN s ELSE m[w]

OthersKept(m, t, B, h) ==
  \A x \in B \ {h} : \A w \in Words : x <= w /\ w < x + m[x] => t[w] = m[w]

(* Writing the tags of both parts, as kmalloc does.                        *)
LEMMA CutBlock ==
  ASSUME NEW m \in Memory, NEW B, Tiles(m, B), NEW h \in B, NEW s \in Int, s % 4 = 0, 24 <= s,
         m[h] - s >= 24, NEW t,
         t = Tag(Tag(m, h, s, 1), h + s, m[h] - s, 0)
  PROVE  t \in Memory /\ CutTags(m, t, h, s)
  <1> DEFINE cut == Tag(m, h, s, 1)
             rest == h + s
             r == m[h] - s
  <1>1. /\ h \in Int /\ 12 <= h /\ h % 4 = 0 /\ m[h] \in Int /\ 20 <= m[h] /\ m[h] % 4 = 0
        /\ h + m[h] <= kheap_end
    BY BlockFacts
  <1>2. /\ h \in Words /\ h + 4 \in Words /\ h + s - 4 \in Words
        /\ rest \in Words /\ rest + 4 \in Words /\ rest + r - 4 \in Words
    BY <1>1, BlockWords
  <1>3. /\ s \in JUNK .. SIZE_MAX /\ r \in JUNK .. SIZE_MAX /\ rest \in Int
        /\ 0 \in JUNK .. SIZE_MAX /\ 1 \in JUNK .. SIZE_MAX
    BY <1>1, EndOfHeap DEF JUNK
  <1>4. /\ cut \in Memory
        /\ \A w \in Words : cut[w] = IF w = h + s - 4 THEN s ELSE IF w = h + 4 THEN 1
                                  ELSE IF w = h THEN s ELSE m[w]
    <2>1. cut = [m EXCEPT ![h] = s, ![h + 4] = 1, ![h + s - 4] = s]
      BY DEF Tag
    <2> HIDE DEF cut
    <2> QED
      BY <1>2, <1>3, <2>1 DEF Memory
  <1>5. t = [cut EXCEPT ![rest] = r, ![rest + 4] = 0, ![rest + r - 4] = r] /\ r \in Int
    BY <1>1 DEF Tag
  <1> HIDE DEF cut, r, rest
  <1>6. /\ t \in Memory
        /\ \A w \in Words : t[w] = IF w = rest + r - 4 THEN r ELSE IF w = rest + 4 THEN 0
                                ELSE IF w = rest THEN r ELSE cut[w]
    BY <1>2, <1>3, <1>4, <1>5 DEF Memory
  <1>7. rest - 4 = h + s - 4
    BY <1>1 DEF rest
  <1> QED
    BY <1>4, <1>6, <1>7 DEF CutTags, rest, r

(* Both parts are blocks, and the other blocks are as they were.           *)
LEMMA CutTiles ==
  ASSUME NEW m \in Memory, NEW B, Tiles(m, B), NEW h \in B, NEW s \in Int, s % 4 = 0, 24 <= s,
         m[h] - s >= 24, NEW t \in Memory, CutTags(m, t, h, s)
  PROVE  /\ Tiles(t, B \cup {h + s}) /\ h + s \notin B
         /\ t[h] = s /\ t[h + s] = m[h] - s /\ t[h + 4] = 1 /\ t[h + s + 4] = 0
         /\ t[h + 8] = m[h + 8] /\ t[h + 12] = m[h + 12]
         /\ OthersKept(m, t, B, h)
  <1> DEFINE rest == h + s
             r == m[h] - s
  <1>1. /\ h \in Int /\ 12 <= h /\ h % 4 = 0 /\ m[h] \in Int /\ 20 <= m[h] /\ m[h] % 4 = 0
        /\ h + m[h] <= kheap_end /\ h + m[h] \in B \cup {kheap_end}
    BY BlockFacts DEF Tiles
  <1>2. /\ h \in Words /\ h + 4 \in Words /\ h + s - 4 \in Words
        /\ h + 8 \in Words /\ h + 12 \in Words
        /\ rest \in Words /\ rest + 4 \in Words /\ rest + r - 4 \in Words /\ rest \in HeapWords
    BY <1>1, BlockWords
  <1>3. /\ t[h] = s /\ t[rest] = r /\ t[h + 4] = 1 /\ t[rest + 4] = 0
        /\ t[h + s - 4] = s /\ t[rest + r - 4] = r
        /\ t[h + 8] = m[h + 8] /\ t[h + 12] = m[h + 12]
    BY <1>1, <1>2 DEF CutTags
  <1>4. ASSUME NEW x \in B \ {h}, NEW w \in Words, x <= w, w < x + m[x]
        PROVE  t[w] = m[w]
    <2>1. x \in Int /\ m[x] \in Int /\ w \in Int
      BY BlockFacts, WordsAreInt
    <2>2. x + m[x] <= h \/ h + m[h] <= x
      BY BlocksApart
    <2> QED
      BY <1>1, <1>4, <2>1, <2>2 DEF CutTags
  <1>5. ASSUME NEW x \in B \ {h}
        PROVE  /\ x \in Int /\ m[x] \in Int /\ 20 <= m[x] /\ (x + m[x] <= h \/ h + m[h] <= x)
               /\ t[x] = m[x] /\ t[x + m[x] - 4] = m[x + m[x] - 4]
               /\ m[x + m[x] - 4] = m[x] /\ x + m[x] \in B \cup {kheap_end}
    <2>1. x \in Int /\ x % 4 = 0 /\ m[x] \in Int /\ 20 <= m[x] /\ m[x] % 4 = 0
          /\ x + m[x] \in B \cup {kheap_end} /\ m[x + m[x] - 4] = m[x]
      BY BlockFacts DEF Tiles
    <2>2. x \in Words /\ x + m[x] - 4 \in Words
      BY <2>1, BlockWords
    <2>3. t[x] = m[x] /\ t[x + m[x] - 4] = m[x + m[x] - 4]
      BY <1>4, <2>1, <2>2
    <2>4. x + m[x] <= h \/ h + m[h] <= x
      BY BlocksApart
    <2> QED
      BY <2>1, <2>3, <2>4
  <1>6. rest \notin B
    BY <1>1, <1>5
  <1>7. rest + r = h + m[h] /\ rest \in Int /\ r \in Int /\ rest = h + s
    BY <1>1
  <1> HIDE DEF rest, r
  <1>8. Tiles(t, B \cup {rest})
    <2>1. B \cup {rest} \subseteq HeapWords /\ kheap_start \in B \cup {rest}
      BY <1>2 DEF Tiles
    <2>2. ASSUME NEW a \in B \cup {rest}
          PROVE  /\ t[a] >= HEADER + FOOTER /\ a + t[a] \in (B \cup {rest}) \cup {kheap_end}
                 /\ t[a + t[a] - FOOTER] = t[a]
      <3>1. CASE a = h
        BY <1>1, <1>3, <1>7, <3>1
      <3>2. CASE a = rest
        BY <1>1, <1>3, <1>7, <3>2 DEF r
      <3>3. CASE a \in B \ {h}
        BY <1>5, <3>3
      <3> QED
        BY <3>1, <3>2, <3>3
    <2>3. ASSUME NEW a \in B \cup {rest}, NEW b \in B \cup {rest}, a < b
          PROVE  a + t[a] <= b
      <3>1. CASE a \in {h, rest} /\ b \in {h, rest}
        BY <1>1, <1>3, <1>7, <2>3, <3>1
      <3>2. CASE a \in {h, rest} /\ b \in B \ {h}
        <4>1. b \in Int /\ m[b] \in Int /\ 20 <= m[b] /\ (b + m[b] <= h \/ h + m[h] <= b)
          BY <1>5, <3>2
        <4> QED
          BY <1>1, <1>3, <1>7, <2>3, <3>2, <4>1
      <3>3. CASE a \in B \ {h} /\ b \in {h, rest}
        <4>1. /\ a \in Int /\ m[a] \in Int /\ 20 <= m[a] /\ t[a] = m[a]
              /\ (a + m[a] <= h \/ h + m[h] <= a)
          BY <1>5, <3>3
        <4> QED
          BY <1>1, <1>7, <2>3, <3>3, <4>1 DEF r
      <3>4. CASE a \in B \ {h} /\ b \in B \ {h}
        <4>1. t[a] = m[a]
          BY <1>5, <3>4
        <4> QED
          BY <2>3, <3>4, <4>1 DEF Tiles
      <3> QED
        BY <3>1, <3>2, <3>3, <3>4
    <2> QED
      BY <2>1, <2>2, <2>3 DEF Tiles
  <1> QED
    BY <1>3, <1>4, <1>6, <1>8 DEF rest, r, OthersKept
(* kmalloc with a block that is cut in two: the rest takes the place of    *)
(* the block in the list.                                                  *)
LEMMA Cut ==
  ASSUME NEW m, NEW B, NEW L, State(m, B, FreeOf(m, B), L), NEW h \in FreeOf(m, B),
         NEW s \in Int, s % 4 = 0, 24 <= s, m[h] - s >= 24,
         NEW b \in [ptr : HeapWords, size : Sizes \ {0}], FitsIn(b, h, s),
         NEW q, CutOff(m, h, s, b, q)
  PROVE  LET C == B \cup {h + s}
             F == (FreeOf(m, B) \ {h}) \cup {h + s}
         IN  /\ State(q, C, F, L \cup {b}) /\ FreeOf(q, C) = F /\ h + s \notin B
             /\ q[h] = s /\ q[h + s] = m[h] - s /\ SameSizes(m, q, B \ {h})
  <1> DEFINE X == FreeOf(m, B)
             rest == h + s
             C == B \cup {rest}
             F == (X \ {h}) \cup {rest}
             t == Tag(Tag(m, h, s, 1), h + s, m[h] - s, 0)
             q1 == list_replace(t, NodeOf(h), NodeOf(rest))
  <1>1. /\ m \in Memory /\ Tiles(m, B) /\ Held(m, B, L) /\ Linked(m, Nodes(X)) /\ h \in B
        /\ X \in SUBSET B
    BY DEF State, FreeOf
  <1>2. h \in Int /\ 12 <= h /\ h % 4 = 0 /\ m[h] \in Int /\ m[h] % 4 = 0
    BY <1>1, BlockFacts
  <1>3. t \in Memory /\ CutTags(m, t, h, s)
    BY <1>1, CutBlock
  <1>4. /\ q = Written(q1, b) /\ rest \in Int
        /\ b.ptr = h + HEADER /\ HEADER + b.size + FOOTER <= s
    BY <1>2 DEF CutOff, FitsIn
  <1> HIDE DEF t
  <1>5. /\ Tiles(t, C) /\ rest \notin B
        /\ t[h] = s /\ t[rest] = m[h] - s /\ t[h + 4] = 1 /\ t[rest + 4] = 0
        /\ t[h + 8] = m[h + 8] /\ t[h + 12] = m[h + 12]
        /\ OthersKept(m, t, B, h)
    BY <1>1, <1>3, CutTiles
  <1>6. \A x \in B \ {h} : \A w \in Words : x <= w /\ w < x + m[x] => t[w] = m[w]
    BY <1>5 DEF OthersKept
  <1>7. ASSUME NEW x \in B \ {h}
        PROVE  /\ x \in Int /\ t[x] = m[x] /\ t[x + 4] = m[x + 4]
               /\ t[x + 8] = m[x + 8] /\ t[x + 12] = m[x + 12]
    <2>1. x \in Int /\ x % 4 = 0 /\ m[x] \in Int /\ 20 <= m[x]
      BY <1>1, BlockFacts
    <2>2. x \in Words /\ x + 4 \in Words /\ x + 8 \in Words /\ x + 12 \in Words
      BY <1>1, <2>1, BlockWords
    <2> QED
      BY <1>6, <2>1, <2>2
  <1>8. FreeOf(t, C) = F
    <2>1. \A x \in C : t[x + 4] = 0 <=> x \in F
      BY <1>1, <1>5, <1>7 DEF FreeOf
    <2> QED
      BY <1>1, <2>1 DEF FreeOf
  <1> HIDE DEF rest
  <1>9. Linked(t, Nodes(X))
    <2>1. ASSUME NEW x \in Nodes(X) PROVE t[x] = m[x] /\ t[x + 4] = m[x + 4]
      <3>1. PICK f \in X : x = f + 8
        BY DEF Nodes
      <3>2. f \in B /\ f \in Int /\ x + 4 = f + 12
        BY <1>1, <3>1, BlockFacts
      <3> QED
        BY <1>5, <1>7, <3>1, <3>2
    <2>2. t[kheap_free_list] = m[kheap_free_list] /\ t[kheap_free_list + 4] = m[kheap_free_list + 4]
      BY <1>2, <1>3, WordsAreValues DEF CutTags
    <2> QED
      BY <1>1, <2>1, <2>2, SameLinks
  <1>10. /\ Nodes(X \cup {rest}) = Nodes(X) \cup {NodeOf(rest)}
         /\ Nodes(F) = (Nodes(X) \ {NodeOf(h)}) \cup {NodeOf(rest)}
         /\ NodeOf(rest) \notin Nodes(X) /\ NodeOf(h) \in Nodes(X)
    <2>1. \A x \in X \cup {rest} : x \in Int
      BY <1>1, <1>4, BlockFacts
    <2>2. rest \notin X /\ h \in X
      BY <1>1, <1>5
    <2> QED
      BY <2>1, <2>2 DEF Nodes
  <1>11. X \cup {rest} \in SUBSET C /\ F \in SUBSET C /\ h \in C
    BY <1>1
  <1> HIDE DEF X, F, C
  <1>12. NodesApart(Nodes(X) \cup {NodeOf(rest)})
    <2>1. NodesApart(Nodes(X \cup {rest}))
      BY <1>3, <1>5, <1>11, NodesOfBlocks
    <2> QED
      BY <1>10, <2>1
  <1>13. /\ q1 \in Memory /\ Linked(q1, Nodes(F))
         /\ OutsideNodes(t, q1, Nodes(X \cup {rest}))
    <2> DEFINE N == Nodes(X)
               x == NodeOf(h)
               y == NodeOf(rest)
    <2>1. y \notin N /\ NodesApart(N \cup {y}) /\ x \in N /\ Linked(t, N)
      BY <1>9, <1>10, <1>12
    <2>2. q1 = list_replace(t, x, y)
      OBVIOUS
    <2> HIDE DEF N, x, y, q1
    <2>3. q1 \in Memory /\ Linked(q1, (N \ {x}) \cup {y}) /\ OutsideNodes(t, q1, N \cup {y})
      BY <1>3, <2>1, <2>2, ReplaceLinks
    <2> QED
      BY <1>10, <2>3 DEF N, x, y
  <1> HIDE DEF q1
  <1>14. SameBlocks(t, q1, C)
    BY <1>3, <1>5, <1>11, <1>13, ListKeepsBlocks
  <1>15. Tiles(q1, C) /\ FreeOf(q1, C) = F /\ \A x \in C : q1[x] = t[x]
    BY <1>3, <1>5, <1>8, <1>13, <1>14, SameTags
  <1>16. HEADER + b.size + FOOTER <= q1[h]
    BY <1>4, <1>5, <1>11, <1>15
  <1>17. /\ q \in Memory
         /\ FreeOf(q, C) = F /\ Tiles(q, C) /\ Linked(q, Nodes(F))
    BY <1>4, <1>11, <1>13, <1>15, <1>16, OwnerWrites
  <1>18. \A w \in Payload(b) : q[w] = JUNK
    BY <1>4, <1>11, <1>13, <1>15, <1>16, OwnerWrites
  <1>19. \A x \in C : q[x] = q1[x]
    BY <1>4, <1>11, <1>13, <1>15, <1>16, OwnerWrites
  <1>20. \A x \in C : \A w \in Words : x # h /\ x + 16 <= w /\ w < x + q1[x] => q[w] = q1[w]
    BY <1>4, <1>11, <1>13, <1>15, <1>16, OwnerWrites
  <1>21. q[h] = s /\ q[rest] = m[h] - s /\ \A x \in B \ {h} : q[x] = m[x]
    BY <1>1, <1>5, <1>7, <1>15, <1>19 DEF C
  <1>22. AllocatedKept(m, q, B)
    <2> SUFFICES ASSUME NEW a \in B \ FreeOf(m, B)
                 PROVE  q[a] = m[a] /\ \A w \in Words : a + 16 <= w /\ w < a + m[a] => q[w] = m[w]
      BY DEF AllocatedKept
    <2>1. a \in B \ {h} /\ a \in C /\ a \in Int /\ q1[a] = m[a] /\ t[a] = m[a] /\ m[a] \in Int
      BY <1>1, <1>7, <1>15, BlockFacts DEF C
    <2>2. ASSUME NEW w \in Words, a + 16 <= w, w < a + m[a] PROVE q[w] = m[w]
      <3>1. w \in Int /\ a <= w
        BY <2>1, <2>2, WordsAreInt
      <3>2. Plain(t, a, w)
        BY <2>1, <2>2 DEF Plain
      <3>3. q1[w] = t[w]
        BY <1>14, <2>1, <3>2 DEF SameBlocks
      <3>4. q[w] = q1[w]
        BY <1>20, <2>1, <2>2
      <3> QED
        BY <1>6, <2>1, <2>2, <3>1, <3>3, <3>4
    <2> QED
      BY <1>21, <2>1, <2>2
  <1>23. C \ FreeOf(q, C) = (B \ FreeOf(m, B)) \cup {h}
    BY <1>1, <1>5, <1>17 DEF C, F, X
  <1>24. Held(q, C, L \cup {b})
    <2>1. HEADER + b.size + FOOTER <= q[h] /\ h \in FreeOf(m, B)
      BY <1>4, <1>21
    <2> QED
      BY <1>1, <1>4, <1>17, <1>18, <1>22, <1>23, <2>1, HeldMore
  <1>25. State(q, C, F, L \cup {b})
    BY <1>17, <1>24 DEF State
  <1> QED
    BY <1>5, <1>17, <1>21, <1>25 DEF C, F, X, rest, SameSizes

-----------------------------------------------------------------------------
(* The block that ends where a block starts, or where the heap ends.       *)
LEMMA EndsAt ==
  ASSUME NEW m \in Memory, NEW B, Tiles(m, B), NEW e \in B \cup {kheap_end}, e # kheap_start
  PROVE  \E a \in B : a + m[a] = e
  <1> DEFINE below == {a \in B : a < e}
             S == {e - a : a \in below}
  <1>1. \A a \in B : a \in Int /\ 12 <= a /\ m[a] \in Int /\ 20 <= m[a] /\ a + m[a] <= kheap_end
    BY BlockFacts
  <1>2. e \in Int /\ 12 < e /\ e <= kheap_end
    BY <1>1, EndOfHeap
  <1>3. S \in SUBSET Nat /\ S # {}
    <2>1. kheap_start \in below
      BY <1>2 DEF Tiles
    <2>2. \A a \in below : e - a \in Nat
      BY <1>1, <1>2
    <2> QED
      BY <2>1, <2>2
  <1>4. Min(S) \in S /\ \A y \in S : Min(S) <= y
    BY <1>3, MinIsLeast
  <1>5. PICK a \in below : Min(S) = e - a
    BY <1>4
  <1>6. ASSUME NEW x \in below PROVE x <= a
    <2>1. e - x \in S /\ a \in B /\ x \in B
      OBVIOUS
    <2>2. e - a <= e - x
      BY <1>4, <1>5, <2>1
    <2> HIDE DEF below
    <2> QED
      BY <1>1, <1>2, <2>1, <2>2
  <1>7. a + m[a] <= e
    BY <1>1, <1>5 DEF Tiles
  <1>8. a + m[a] \in B \cup {kheap_end}
    BY DEF Tiles
  <1> QED
    BY <1>1, <1>2, <1>6, <1>7, <1>8

BlockBefore(m, h) == h - m[h - FOOTER]

(* kfree finds the previous block by the footer in front of its header.    *)
LEMMA PreviousBlock ==
  ASSUME NEW m \in Memory, NEW B, Tiles(m, B), NEW h \in B, h # kheap_start
  PROVE  BlockBefore(m, h) \in B /\ BlockBefore(m, h) + m[BlockBefore(m, h)] = h
  <1>1. PICK a \in B : a + m[a] = h
    BY EndsAt
  <1>2. a \in Int /\ m[a] \in Int /\ m[a + m[a] - 4] = m[a]
    BY BlockFacts
  <1> QED
    BY <1>1, <1>2 DEF BlockBefore

-----------------------------------------------------------------------------
(* The walk along the tags meets exactly the blocks.                       *)
LEMMA MostBlocks ==
  MaxBlocks \in Nat /\ 20 * MaxBlocks <= HEAP_SIZE /\ HEAP_SIZE < 20 * MaxBlocks + 20
  BY HeapAssumption DEF MaxBlocks

(* From the start of the heap, tag by tag, to its end.                     *)
LEMMA BlocksAre ==
  ASSUME NEW B, mem \in Memory, Tiles(mem, B)
  PROVE  Blocks = B
  <1> DEFINE n == MaxBlocks
             A == B \cup {kheap_end}
             Step(x) == IF x \in HeapWords THEN x + mem[x] ELSE kheap_end
             Turn(f, k) == IF k = 0 THEN kheap_start ELSE Step(f[k - 1])
             it == CHOOSE f : f = [k \in 0 .. n |-> Turn(f, k)]
             F == [x \in (1 .. n) \X A |-> Step(x[2])]
  <1>1. n \in Nat /\ 20 * n <= HEAP_SIZE /\ HEAP_SIZE < 20 * n + 20
    BY MostBlocks
  <1>2. kheap_start \in A /\ B \subseteq HeapWords /\ kheap_end \notin HeapWords
    BY HeapWordsAre, EndOfHeap DEF Tiles
  <1>3. \A x \in A : Step(x) \in A
    BY <1>2 DEF Tiles
  <1> HIDE DEF Step
  <1>4. F \in [(1 .. n) \X A -> A]
    BY <1>3
  <1>5. \E f : f = [k \in 0 .. n |-> Turn(f, k)]
    <2>1. PICK h : IsLoop(h, A, kheap_start, F, n)
      <3> HIDE DEF n, F, A
      <3> QED
        BY <1>1, <1>2, <1>4, LoopExists
    <2>2. ASSUME NEW k \in 0 .. n PROVE h[k] = Turn(h, k)
      <3>1. k # 0 => k \in 1 .. n /\ h[k - 1] \in A
        BY <1>1, <2>1 DEF IsLoop
      <3> QED
        BY <2>1, <3>1 DEF IsLoop
    <2> HIDE DEF Turn
    <2>3. h = [k \in 0 .. n |-> Turn(h, k)]
      BY <2>1, <2>2 DEF IsLoop
    <2> QED
      BY <2>3
  <1>6. it = [k \in 0 .. n |-> Turn(it, k)]
    <2> HIDE DEF Turn
    <2> QED
      BY <1>5, Zenon
  <1>7. Blocks = {it[k] : k \in 0 .. n} \cap HeapWords
    BY SMT DEF Blocks, Step
  <1> HIDE DEF it, F
  <1>8. it[0] = kheap_start /\ \A k \in 0 .. n : k + 1 \in 0 .. n => it[k + 1] = Step(it[k])
    <2>1. it[0] = kheap_start
      BY <1>1, <1>6
    <2>2. ASSUME NEW k \in 0 .. n, k + 1 \in 0 .. n PROVE it[k + 1] = Step(it[k])
      <3>1. it[k + 1] = Turn(it, k + 1)
        <4> HIDE DEF Turn
        <4> QED
          BY <1>6, <2>2
      <3> QED
        BY <3>1
    <2> QED
      BY <2>1, <2>2
  <1>9. \A a \in B : /\ a \in Int /\ 12 <= a /\ mem[a] \in Int /\ 20 <= mem[a]
                    /\ a + mem[a] <= kheap_end
    BY BlockFacts
  <1> DEFINE Met(k) == /\ it[k] \in A
                       /\ it[k] = kheap_end \/ it[k] >= 12 + 20 * k
                       /\ \A b \in B : b < it[k] => \E j \in 0 .. n : it[j] = b
             G == {k \in Nat : k \in 0 .. n => Met(k)}
  <1> HIDE DEF n, A
  <1>10. Met(0)
    BY <1>2, <1>8, <1>9
  <1>11. ASSUME NEW k \in Nat, k + 1 \in 0 .. n, Met(k) PROVE Met(k + 1)
    <2>1. k \in 0 .. n /\ it[k + 1] = Step(it[k])
      BY <1>1, <1>8, <1>11
    <2>2. it[k + 1] \in A
      BY <1>3, <1>11, <2>1
    <2>3. CASE it[k] \in B
      <3>1. it[k + 1] = it[k] + mem[it[k]]
        BY <1>2, <2>1, <2>3 DEF Step
      <3>2. it[k] # kheap_end
        BY <1>2, <2>3
      <3>3. it[k + 1] >= 12 + 20 * (k + 1)
        BY <1>9, <1>11, <2>3, <3>1, <3>2
      <3>4. ASSUME NEW b \in B, b < it[k + 1] PROVE \E j \in 0 .. n : it[j] = b
        <4>1. CASE b < it[k]
          BY <1>11, <4>1
        <4>2. CASE b = it[k]
          BY <2>1, <4>2
        <4>3. CASE it[k] < b
          BY <1>9, <2>3, <3>1, <3>4, <4>3 DEF Tiles
        <4> QED
          BY <1>9, <2>3, <4>1, <4>2, <4>3
      <3> QED
        BY <2>2, <3>3, <3>4
    <2>4. CASE it[k] = kheap_end
      <3>1. it[k + 1] = kheap_end
        BY <1>2, <2>1, <2>4 DEF Step
      <3> QED
        BY <1>11, <2>2, <2>4, <3>1
    <2> QED
      BY <1>11, <2>3, <2>4 DEF A
  <1> HIDE DEF Met
  <1>12. \A k \in Nat : k \in G
    <2>1. 0 \in G
      BY <1>10
    <2>2. ASSUME NEW k \in G PROVE k + 1 \in G
      BY <1>1, <1>11
    <2> HIDE DEF G
    <2> QED
      BY <2>1, <2>2, SetInduction
  <1>13. \A k \in 0 .. n : Met(k)
    BY <1>1, <1>12
  <1>14. it[n] = kheap_end
    <2>1. n \in 0 .. n
      BY <1>1
    <2>2. it[n] \in A /\ (it[n] = kheap_end \/ it[n] >= 12 + 20 * n)
      BY <1>13, <2>1 DEF Met
    <2>3. it[n] \in B => it[n] + 20 <= 12 + HEAP_SIZE
      BY <1>9, HeapAssumption DEF kheap_end
    <2> QED
      BY <1>1, <1>9, <2>2, <2>3, HeapAssumption DEF A
  <1>15. \A b \in B : \E j \in 0 .. n : it[j] = b
    <2>1. n \in 0 .. n
      BY <1>1
    <2>2. \A b \in B : b < kheap_end
      BY <1>9, EndOfHeap
    <2> QED
      BY <1>13, <1>14, <2>1, <2>2 DEF Met
  <1>16. \A k \in 0 .. n : it[k] \in HeapWords => it[k] \in B
    BY <1>2, <1>13 DEF Met, A
  <1>17. Blocks = {it[k] : k \in 0 .. n} \cap HeapWords
    BY <1>7 DEF n
  <1> QED
    BY <1>2, <1>15, <1>16, <1>17
(* The list has no more nodes than the heap has room for blocks.           *)
LEMMA ListLength ==
  ASSUME NEW m \in Memory, NEW B, Tiles(m, B), NEW F \in SUBSET B,
         NEW n \in Nat, NEW c, Ring(m, Nodes(F), c, n)
  PROVE  n <= MaxBlocks
  <1> DEFINE f == [i \in 1 .. n |-> (c[i] - 20) \div 20]
  <1>1. MaxBlocks \in Nat /\ HEAP_SIZE < 20 * MaxBlocks + 20 /\ HEAP_SIZE \in Nat
    BY MostBlocks, HeapAssumption
  <1>2. ASSUME NEW i \in 1 .. n
        PROVE  \E a \in B : /\ c[i] = a + 8 /\ a \in Int /\ 12 <= a
                            /\ m[a] \in Int /\ 20 <= m[a] /\ a + m[a] <= 12 + HEAP_SIZE
    <2>1. c[i] \in Nodes(F)
      BY DEF Ring
    <2>2. PICK a \in F : c[i] = a + 8
      BY <2>1 DEF Nodes
    <2>3. a \in B
      OBVIOUS
    <2> QED
      BY <2>2, <2>3, BlockFacts DEF kheap_end
  <1>3. f \in [1 .. n -> 0 .. (MaxBlocks - 1)]
    <2> SUFFICES ASSUME NEW i \in 1 .. n PROVE (c[i] - 20) \div 20 \in 0 .. (MaxBlocks - 1)
      OBVIOUS
    <2>1. c[i] \in Int /\ 20 <= c[i] /\ c[i] <= HEAP_SIZE
      BY <1>1, <1>2
    <2> QED
      BY <1>1, <2>1
  <1>4. ASSUME NEW i \in 1 .. n, NEW j \in 1 .. n, i # j PROVE f[i] # f[j]
    <2>1. PICK a \in B : c[i] = a + 8 /\ a \in Int /\ 12 <= a /\ m[a] \in Int /\ 20 <= m[a]
      BY <1>2
    <2>2. PICK b \in B : c[j] = b + 8 /\ b \in Int /\ 12 <= b /\ m[b] \in Int /\ 20 <= m[b]
      BY <1>2
    <2>3. c[i] # c[j]
      BY <1>4 DEF Ring
    <2>4. a + m[a] <= b \/ b + m[b] <= a
      BY <2>1, <2>2, <2>3, BlocksApart
    <2>5. (c[i] - 20) \div 20 # (c[j] - 20) \div 20
      BY <2>1, <2>2, <2>4
    <2> QED
      BY <2>5
  <1> HIDE DEF f
  <1>5. /\ IsFiniteSet(1 .. n) /\ Cardinality(1 .. n) = n
        /\ IsFiniteSet(0 .. (MaxBlocks - 1)) /\ Cardinality(0 .. (MaxBlocks - 1)) = MaxBlocks
    <2>1. IsFiniteSet(1 .. n) /\ Cardinality(1 .. n) = IF 1 > n THEN 0 ELSE n - 1 + 1
      BY FS_Interval
    <2>2. 0 \in Int /\ MaxBlocks - 1 \in Int
      BY <1>1
    <2>3. /\ IsFiniteSet(0 .. (MaxBlocks - 1))
          /\ Cardinality(0 .. (MaxBlocks - 1)) = IF 0 > MaxBlocks - 1 THEN 0 ELSE MaxBlocks - 1 - 0 + 1
      BY <2>2, FS_Interval, Zenon
    <2> QED
      BY <1>1, <2>1, <2>3
  <1>6. ~ (Cardinality(0 .. (MaxBlocks - 1)) < Cardinality(1 .. n))
    BY <1>3, <1>4, <1>5, FS_PigeonHole
  <1> QED
    BY <1>1, <1>5, <1>6

(* The walk along the list meets its nodes and then the head.              *)
LEMMA NodesMet ==
  ASSUME NEW B, mem \in Memory, Tiles(mem, B), NEW F \in SUBSET B, Linked(mem, Nodes(F))
  PROVE  /\ \A k \in 0 .. MaxBlocks : Node[k] \in Nodes(F) \cup {kheap_free_list}
         /\ \A x \in Nodes(F) \cup {kheap_free_list} : \E k \in 0 .. MaxBlocks : Node[k] = x
  <1> DEFINE max == MaxBlocks
             A == Nodes(F) \cup {kheap_free_list}
             Turn(f, k) == IF k = 0 THEN mem[kheap_free_list] ELSE mem[f[k - 1]]
             it == CHOOSE f : f = [k \in 0 .. max |-> Turn(f, k)]
             G == [x \in (1 .. max) \X A |-> mem[x[2]]]
             base == mem[kheap_free_list]
  <1>1. max \in Nat
    BY MostBlocks
  <1>2. \A x \in A : mem[x] \in A
    BY ForthAndBack
  <1>3. G \in [(1 .. max) \X A -> A] /\ base \in A
    BY <1>2
  <1>4. \E f : f = [k \in 0 .. max |-> Turn(f, k)]
    <2>1. PICK h : IsLoop(h, A, base, G, max)
      <3> HIDE DEF max, G, A, base
      <3> QED
        BY <1>1, <1>3, LoopExists
    <2>2. ASSUME NEW k \in 0 .. max PROVE h[k] = Turn(h, k)
      <3>1. k # 0 => k \in 1 .. max /\ h[k - 1] \in A
        BY <1>1, <2>1 DEF IsLoop
      <3> QED
        BY <2>1, <3>1 DEF IsLoop
    <2> HIDE DEF Turn
    <2>3. h = [k \in 0 .. max |-> Turn(h, k)]
      BY <2>1, <2>2 DEF IsLoop
    <2> QED
      BY <2>3
  <1>5. it = [k \in 0 .. max |-> Turn(it, k)]
    <2> HIDE DEF Turn
    <2> QED
      BY <1>4, Zenon
  <1>6. Node = it
    BY SMT DEF Node
  <1> HIDE DEF it, G, max
  <1>7. Node[0] = base /\ \A k \in 0 .. max : k + 1 \in 0 .. max => Node[k + 1] = mem[Node[k]]
    <2>1. it[0] = base
      BY <1>1, <1>5
    <2>2. ASSUME NEW k \in 0 .. max, k + 1 \in 0 .. max PROVE it[k + 1] = mem[it[k]]
      <3>1. it[k + 1] = Turn(it, k + 1)
        <4> HIDE DEF Turn
        <4> QED
          BY <1>5, <2>2
      <3> QED
        BY <3>1
    <2> QED
      BY <1>6, <2>1, <2>2
  <1>8. PICK n \in Nat : \E c \in [0 .. n + 1 -> Words] : Ring(mem, Nodes(F), c, n)
    BY LinkedRing
  <1>9. PICK c \in [0 .. n + 1 -> Words] : Ring(mem, Nodes(F), c, n)
    BY <1>8
  <1>10. n <= max
    BY <1>9, ListLength DEF max
  <1> DEFINE Met(k) == Node[k] \in A /\ (k <= n => Node[k] = c[k + 1])
             S == {k \in Nat : k \in 0 .. max => Met(k)}
  <1> HIDE DEF A
  <1>11. Met(0)
    BY <1>3, <1>7, <1>9 DEF Ring
  <1>12. ASSUME NEW k \in Nat, k + 1 \in 0 .. max, Met(k) PROVE Met(k + 1)
    <2>1. k \in 0 .. max /\ Node[k + 1] = mem[Node[k]]
      BY <1>1, <1>7, <1>12
    <2>2. Node[k + 1] \in A
      BY <1>2, <1>12, <2>1
    <2>3. ASSUME k + 1 <= n PROVE Node[k + 1] = c[k + 2]
      <3>1. k + 1 \in 0 .. n /\ k + 1 + 1 = k + 2 /\ Node[k] = c[k + 1]
        BY <1>12, <2>3
      <3> QED
        BY <1>9, <2>1, <3>1 DEF Ring
    <2>4. k + 1 + 1 = k + 2
      OBVIOUS
    <2> QED
      BY <2>2, <2>3, <2>4
  <1> HIDE DEF Met
  <1>13. \A k \in Nat : k \in S
    <2>1. 0 \in S
      BY <1>11
    <2>2. ASSUME NEW k \in S PROVE k + 1 \in S
      BY <1>1, <1>12
    <2> HIDE DEF S
    <2> QED
      BY <2>1, <2>2, SetInduction
  <1>14. \A k \in 0 .. max : Met(k)
    BY <1>1, <1>13
  <1>15. ASSUME NEW x \in A PROVE \E k \in 0 .. max : Node[k] = x
    <2>1. PICK i \in 1 .. n + 1 : c[i] = x
      <3>1. n + 1 \in 1 .. n + 1 /\ \A i \in 1 .. n : i \in 1 .. n + 1
        OBVIOUS
      <3> QED
        BY <1>9, <3>1 DEF Ring, A
    <2>2. i - 1 \in 0 .. max /\ i - 1 <= n /\ i - 1 + 1 = i
      BY <1>1, <1>10
    <2>3. Node[i - 1] = x
      BY <1>14, <2>1, <2>2 DEF Met
    <2> QED
      BY <2>2, <2>3
  <1> QED
    BY <1>14, <1>15 DEF Met, A, max

(* The search for a block ends at the head or at a free block that is      *)
(* large enough.                                                           *)
LEMMA FirstFitIs ==
  ASSUME NEW B, mem \in Memory, Tiles(mem, B), NEW F \in SUBSET B, Linked(mem, Nodes(F)),
         NEW size, FirstFit(size) # kheap_free_list
  PROVE  \E a \in F : FirstFit(size) = NodeOf(a) /\ mem[a] >= BlockSize(size)
  <1> DEFINE hit(k) == Node[k] = kheap_free_list \/ mem[HeaderOf(Node[k])] >= BlockSize(size)
             S == {k \in 0 .. MaxBlocks : hit(k)}
             k == Min(S)
  <1>1. /\ \A j \in 0 .. MaxBlocks : Node[j] \in Nodes(F) \cup {kheap_free_list}
        /\ \E j \in 0 .. MaxBlocks : Node[j] = kheap_free_list
    BY NodesMet
  <1>2. S \in SUBSET Nat /\ S # {}
    BY <1>1, MostBlocks
  <1>3. k \in S
    <2> HIDE DEF S
    <2> QED
      BY <1>2, MinIsLeast
  <1>4. FirstFit(size) = Node[k]
    BY DEF FirstFit
  <1> HIDE DEF k
  <1>5. PICK a \in F : Node[k] = a + 8
    BY <1>1, <1>3, <1>4 DEF Nodes
  <1>6. a \in B /\ a \in Int
    BY BlockFacts
  <1>7. HeaderOf(Node[k]) = a
    BY <1>5, <1>6
  <1>8. mem[a] >= BlockSize(size)
    BY <1>3, <1>4, <1>7
  <1> QED
    BY <1>4, <1>5, <1>8
-----------------------------------------------------------------------------
(* kmalloc keeps free blocks apart.                                        *)
LEMMA WholeBlock ==
  ASSUME NEW m, NEW B, NEW L, State(m, B, FreeOf(m, B), L), NoFreeNeighbours(m, B),
         NEW h \in FreeOf(m, B), NEW b \in [ptr : HeapWords, size : Sizes \ {0}],
         FitsIn(b, h, m[h]), NEW q, Taken(list_remove(m, NodeOf(h)), h, b, q)
  PROVE  State(q, B, FreeOf(q, B), L \cup {b}) /\ NoFreeNeighbours(q, B)
  <1> DEFINE X == FreeOf(m, B)
             F == X \ {h}
             m1 == list_remove(m, NodeOf(h))
  <1>1. State(m1, B, F, L) /\ FreeOf(m1, B) = X /\ SameSizes(m, m1, B)
    <2>1. ListedState(m, B, F, L, m1)
      BY Unlist
    <2> QED
      BY <2>1 DEF ListedState
  <1>2. Taken(m1, h, b, q)
    OBVIOUS
  <1>3. h \in B /\ X \subseteq B /\ h \in FreeOf(m1, B) \ F /\ FitsIn(b, h, m1[h])
    BY <1>1 DEF FreeOf, SameSizes
  <1> HIDE DEF m1, F
  <1>4. /\ State(q, B, F, L \cup {b}) /\ FreeOf(q, B) = FreeOf(m1, B) \ {h}
        /\ SameSizes(m1, q, B)
    BY <1>1, <1>2, <1>3, Take
  <1>7. FreeOf(q, B) = F
    BY <1>1, <1>4 DEF F
  <1>8. \A x \in F : x \in X /\ q[x] = m[x]
    BY <1>1, <1>3, <1>4 DEF F, SameSizes
  <1> QED
    BY <1>4, <1>7, <1>8 DEF NoFreeNeighbours, F

(* Cutting a block leaves free blocks apart too.                           *)
LEMMA CutBlockKept ==
  ASSUME NEW m, NEW B, NEW L, State(m, B, FreeOf(m, B), L), NoFreeNeighbours(m, B),
         NEW h \in FreeOf(m, B), NEW s \in Int, s % 4 = 0, 24 <= s, m[h] - s >= 24,
         NEW b \in [ptr : HeapWords, size : Sizes \ {0}], FitsIn(b, h, s),
         NEW q, CutOff(m, h, s, b, q)
  PROVE  \E C : State(q, C, FreeOf(q, C), L \cup {b}) /\ NoFreeNeighbours(q, C)
  <1> DEFINE X == FreeOf(m, B)
             rest == h + s
             C == B \cup {rest}
             F == (X \ {h}) \cup {rest}
  <1>1. /\ State(q, C, F, L \cup {b}) /\ FreeOf(q, C) = F /\ rest \notin B
        /\ q[h] = s /\ q[rest] = m[h] - s /\ SameSizes(m, q, B \ {h})
    BY Cut
  <1>2. \A x \in B \ {h} : q[x] = m[x]
    BY <1>1 DEF SameSizes
  <1>3. m \in Memory /\ Tiles(m, B) /\ h \in B /\ X \subseteq B
    BY DEF State, FreeOf
  <1>4. h \in Int /\ m[h] \in Int
    BY <1>3, BlockFacts
  <1>5. rest \in Int /\ rest = h + s
    BY <1>4
  <1> HIDE DEF rest
  <1>6. ASSUME NEW a \in F PROVE a + q[a] \notin F
    <2>1. CASE a = rest
      <3>1. a + q[a] = h + m[h]
        BY <1>1, <1>4, <1>5, <2>1
      <3>2. h + m[h] \notin X
        BY DEF NoFreeNeighbours
      <3> QED
        BY <1>4, <1>5, <3>1, <3>2
    <2>2. CASE a \in X \ {h}
      <3>1. a \in B \ {h} /\ q[a] = m[a]
        BY <1>2, <1>3, <2>2
      <3>2. a \in Int /\ m[a] \in Int /\ 20 <= m[a]
        BY <1>3, <3>1, BlockFacts
      <3>3. a + m[a] <= h \/ h + m[h] <= a
        BY <1>3, <3>1, BlocksApart
      <3>4. a + m[a] \notin X
        BY <2>2 DEF NoFreeNeighbours
      <3> QED
        BY <1>4, <1>5, <3>1, <3>2, <3>3, <3>4
    <2> QED
      BY <2>1, <2>2
  <1>7. NoFreeNeighbours(q, C)
    <2> HIDE DEF F, C
    <2> QED
      BY <1>1, <1>6 DEF NoFreeNeighbours
  <1> QED
    BY <1>1, <1>7

-----------------------------------------------------------------------------
(* kfree after the block was merged with the previous one, or was not:     *)
(* first is the block that the freed one is now part of, and the only free *)
(* block that may have a free one behind it.                               *)
Widened(m, X, q, C, first, next, L) ==
  /\ State(q, C, X, L) /\ first \in C
  /\ FreeOf(q, C) = X \cup {first}
  /\ first + q[first] = next
  /\ \A x \in X \ {first} : q[x] = m[x] /\ x + m[x] \notin X \cup {first}

(* The previous block is not free: nothing is merged yet.                  *)
LEMMA FreeAlone ==
  ASSUME NEW m, NEW B, NEW L, State(m, B, FreeOf(m, B), L), NoFreeNeighbours(m, B),
         NEW b \in L, NEW h, HeaderAt(b, h),
         ~ (h # kheap_start /\ m[BlockBefore(m, h) + 4] = 0),
         NEW q, Cleared(m, h, q)
  PROVE  Widened(m, FreeOf(m, B), q, B, h, h + m[h], L \ {b}) /\ h \in B \ FreeOf(m, B)
  <1> DEFINE X == FreeOf(m, B)
  <1>1. h \in B \ X /\ State(q, B, X, L \ {b}) /\ FreeOf(q, B) = X \cup {h}
        /\ SameSizes(m, q, B)
    <2>1. ClearedState(m, B, L, b, h, q)
      BY ClearFlag
    <2> QED
      BY <2>1 DEF ClearedState
  <1>2. \A x \in B : q[x] = m[x]
    BY <1>1 DEF SameSizes
  <1>3. ASSUME NEW x \in X \ {h} PROVE q[x] = m[x] /\ x + m[x] \notin X \cup {h}
    <2>1. m \in Memory /\ Tiles(m, B) /\ x \in B /\ m[x + 4] = 0
      BY DEF State, FreeOf
    <2>2. x \in Int /\ 12 <= x /\ m[x] \in Int /\ 20 <= m[x] /\ m[x + m[x] - 4] = m[x]
      BY <2>1, BlockFacts
    <2>3. x + m[x] \notin X
      BY DEF NoFreeNeighbours
    <2>4. x + m[x] # h
      <3> SUFFICES ASSUME x + m[x] = h PROVE FALSE
        OBVIOUS
      <3>1. h # kheap_start /\ BlockBefore(m, h) = x
        BY <2>2 DEF BlockBefore
      <3> QED
        BY <2>1, <3>1
    <2> QED
      BY <1>2, <2>1, <2>3, <2>4
  <1>4. q[h] = m[h]
    BY <1>1, <1>2
  <1> HIDE DEF X
  <1>5. Widened(m, X, q, B, h, h + m[h], L \ {b})
    BY <1>1, <1>3, <1>4 DEF Widened
  <1> QED
    BY <1>1, <1>5 DEF X

(* The previous block is free: it takes the freed one in.                  *)
LEMMA FreeIntoPrevious ==
  ASSUME NEW m, NEW B, NEW L, State(m, B, FreeOf(m, B), L), NoFreeNeighbours(m, B),
         NEW b \in L, NEW h, HeaderAt(b, h), NEW p, p = BlockBefore(m, h),
         h # kheap_start, m[p + 4] = 0, NEW c, Cleared(m, h, c),
         NEW q, q = kheap_merge(c, p, h)
  PROVE  /\ Widened(m, FreeOf(m, B), q, B \ {h}, p, h + m[h], L \ {b})
         /\ p \in FreeOf(m, B)
  <1> DEFINE X == FreeOf(m, B)
  <1>1. h \in B \ X /\ State(c, B, X, L \ {b}) /\ FreeOf(c, B) = X \cup {h}
        /\ SameSizes(m, c, B)
    <2>1. ClearedState(m, B, L, b, h, c)
      BY ClearFlag
    <2> QED
      BY <2>1 DEF ClearedState
  <1>2. \A x \in B : c[x] = m[x]
    BY <1>1 DEF SameSizes
  <1>3. m \in Memory /\ Tiles(m, B) /\ h \in B /\ X \subseteq B
    BY <1>1 DEF State, FreeOf
  <1>4. p \in B /\ p + m[p] = h
    BY <1>3, PreviousBlock
  <1>5. p \in X
    BY <1>4 DEF FreeOf
  <1>7. p \in Int /\ m[p] \in Int /\ h \in Int /\ m[h] \in Int /\ 20 <= m[p]
    BY <1>3, <1>4, BlockFacts
  <1>8. p \in FreeOf(c, B) /\ h \in FreeOf(c, B) \ X /\ Behind(c, p, h)
    BY <1>1, <1>2, <1>4, <1>5 DEF Behind
  <1>9. /\ State(q, B \ {h}, X, L \ {b}) /\ FreeOf(q, B \ {h}) = FreeOf(c, B) \ {h}
        /\ Joined(c, q, p, h) /\ SameSizes(c, q, B \ {p, h})
    <2>1. MergedState(c, B, X, L \ {b}, p, h, q)
      BY <1>1, <1>8, Merge
    <2> QED
      BY <2>1 DEF MergedState
  <1>10. \A x \in B \ {p, h} : q[x] = c[x]
    BY <1>9 DEF SameSizes
  <1>11. FreeOf(q, B \ {h}) = X \cup {p}
    BY <1>1, <1>5, <1>9
  <1>12. p + q[p] = h + m[h]
    BY <1>2, <1>3, <1>4, <1>7, <1>9 DEF Joined
  <1>13. ASSUME NEW x \in X \ {p} PROVE q[x] = m[x] /\ x + m[x] \notin X \cup {p}
    <2>1. x \in B \ {p, h}
      BY <1>1, <1>3
    <2>2. x + m[x] \notin X
      BY DEF NoFreeNeighbours
    <2> QED
      BY <1>2, <1>5, <1>10, <2>1, <2>2
  <1>14. p \in B \ {h}
    BY <1>1, <1>4, <1>5
  <1> HIDE DEF X
  <1>15. Widened(m, X, q, B \ {h}, p, h + m[h], L \ {b})
    BY <1>9, <1>11, <1>12, <1>13, <1>14 DEF Widened
  <1> QED
    BY <1>5, <1>15 DEF X

(* ... and then with the next one.  Y is what the list holds afterwards.   *)
Settled(q, D, Y, first, L) ==
  /\ State(q, D, Y, L) /\ first \in D
  /\ FreeOf(q, D) = Y \cup {first} /\ NoFreeNeighbours(q, D)

(* The next block is not free: nothing more is merged.                     *)
LEMMA NextNotFree ==
  ASSUME NEW m, NEW X, NEW q, NEW C, NEW first, NEW next, NEW L,
         Widened(m, X, q, C, first, next, L), next \notin X
  PROVE  Settled(q, C, X, first, L)
  <1>1. q \in Memory /\ Tiles(q, C) /\ first \in C
    BY DEF Widened, State
  <1>2. first \in Int /\ q[first] \in Int /\ 20 <= q[first]
    BY <1>1, BlockFacts
  <1>3. first + q[first] \notin X \cup {first}
    BY <1>2 DEF Widened
  <1>4. NoFreeNeighbours(q, C)
    BY <1>3 DEF NoFreeNeighbours, Widened
  <1> QED
    BY <1>4 DEF Settled, Widened

(* The next block is free: it leaves the list and is taken in.             *)
LEMMA NextMerged ==
  ASSUME NEW m, NEW X, NEW p, NEW C, NEW first, NEW next, NEW L,
         Widened(m, X, p, C, first, next, L), next \in X, next # first, next + m[next] \notin X,
         NEW q, q = kheap_merge(list_remove(p, NodeOf(next)), first, next)
  PROVE  Settled(q, C \ {next}, X \ {next}, first, L)
  <1> DEFINE l == list_remove(p, NodeOf(next))
             Y == X \ {next}
             D == C \ {next}
  <1>1. /\ p \in Memory /\ Tiles(p, C) /\ first \in C /\ X \subseteq C
        /\ State(p, C, X, L) /\ FreeOf(p, C) = X \cup {first} /\ first + p[first] = next
    BY DEF Widened, State, FreeOf
  <1>2. p[next] = m[next]
    BY DEF Widened
  <1>3. State(l, C, Y, L) /\ FreeOf(l, C) = FreeOf(p, C) /\ SameSizes(p, l, C)
    <2>1. ListedState(p, C, Y, L, l)
      BY <1>1, Unlist
    <2> QED
      BY <2>1 DEF ListedState
  <1>4. \A x \in C : l[x] = p[x]
    BY <1>3 DEF SameSizes
  <1>5. q = kheap_merge(l, first, next)
    OBVIOUS
  <1> HIDE DEF l
  <1>6. first \in FreeOf(l, C) /\ next \in FreeOf(l, C) \ Y /\ Behind(l, first, next)
    BY <1>1, <1>3, <1>4 DEF Behind
  <1> HIDE DEF Y
  <1>7. /\ State(q, D, Y, L) /\ FreeOf(q, D) = FreeOf(l, C) \ {next}
        /\ Joined(l, q, first, next) /\ SameSizes(l, q, C \ {first, next})
    <2>1. MergedState(l, C, Y, L, first, next, q)
      BY <1>3, <1>5, <1>6, Merge
    <2> QED
      BY <2>1 DEF MergedState
  <1>8. \A x \in C \ {first, next} : q[x] = l[x]
    BY <1>7 DEF SameSizes
  <1>9. FreeOf(q, D) = Y \cup {first} /\ first \in D
    BY <1>1, <1>3, <1>7 DEF Y
  <1>10. first \in Int /\ p[first] \in Int /\ 20 <= p[first]
    BY <1>1, BlockFacts
  <1>11. next \in Int /\ p[next] \in Int /\ 20 <= p[next]
    BY <1>1, BlockFacts
  <1>12. first + q[first] = next + m[next]
    BY <1>1, <1>2, <1>4, <1>7, <1>10, <1>11 DEF Joined
  <1>13. ASSUME NEW x \in Y \cup {first} PROVE x + q[x] \notin Y \cup {first}
    <2>1. CASE x = first
      BY <1>1, <1>2, <1>10, <1>11, <1>12, <2>1 DEF Y
    <2>2. CASE x # first
      <3>1. x \in X \ {first} /\ x \in C \ {first, next}
        BY <1>1, <2>2 DEF Y
      <3>2. q[x] = m[x] /\ x + m[x] \notin X \cup {first}
        BY <1>4, <1>8, <3>1 DEF Widened
      <3> QED
        BY <3>2 DEF Y
    <2> QED
      BY <2>1, <2>2
  <1> HIDE DEF D
  <1>14. NoFreeNeighbours(q, D)
    BY <1>9, <1>13 DEF NoFreeNeighbours
  <1>15. Settled(q, D, Y, first, L)
    BY <1>7, <1>9, <1>14 DEF Settled
  <1> QED
    BY <1>15 DEF D, Y
-----------------------------------------------------------------------------
(* A heap between two calls has the types that TypeOK states.              *)
LEMMA SoundTypes ==
  ASSUME NEW m, NEW L, Sound(m, L)
  PROVE  m \in Memory /\ L \subseteq [ptr : HeapWords, size : Sizes \ {0}]
  BY DEF Sound, State, Held

(* kheap_init makes one free block of the whole heap.                      *)
LEMMA InitSound ==
  ASSUME HeapInv, kheap_init
  PROVE  Sound(mem', {})
  <1> DEFINE tagged == Tag(mem, kheap_start, HEAP_SIZE, 0)
             empty == [tagged EXCEPT ![kheap_free_list] = kheap_free_list,
                                     ![kheap_free_list + 4] = kheap_free_list]
             B == {kheap_start}
  <1>1. /\ HEAP_SIZE \in Int /\ HEAP_SIZE % 4 = 0 /\ 24 <= HEAP_SIZE
        /\ kheap_end = 12 + HEAP_SIZE /\ HEAP_SIZE \in JUNK .. SIZE_MAX
    BY HeapAssumption DEF kheap_end, JUNK
  <1>2. /\ 4 \in Words /\ 8 \in Words /\ 12 \in Words /\ 16 \in Words
        /\ 12 + HEAP_SIZE - 4 \in Words /\ 12 \in HeapWords
    BY <1>1 DEF Words, HeapWords
  <1>3. mem \in Memory /\ 0 \in JUNK .. SIZE_MAX /\ 4 \in JUNK .. SIZE_MAX
    BY <1>1, WordsAreValues DEF HeapInv, TypeOK, Memory, NULL
  <1>4. /\ tagged \in Memory
        /\ tagged[12] = HEAP_SIZE /\ tagged[16] = 0 /\ tagged[12 + HEAP_SIZE - 4] = HEAP_SIZE
    <2>1. tagged = [mem EXCEPT ![12] = HEAP_SIZE, ![16] = 0, ![12 + HEAP_SIZE - 4] = HEAP_SIZE]
      BY DEF Tag
    <2> HIDE DEF tagged
    <2> QED
      BY <1>1, <1>2, <1>3, <2>1 DEF Memory
  <1>5. mem' = list_insert_front(empty, NodeOf(kheap_start))
    BY DEF kheap_init
  <1>6. empty = [tagged EXCEPT ![4] = 4, ![8] = 4]
    OBVIOUS
  <1> HIDE DEF tagged, empty
  <1>7. /\ empty \in Memory /\ empty[4] = 4 /\ empty[8] = 4
        /\ empty[12] = HEAP_SIZE /\ empty[16] = 0 /\ empty[12 + HEAP_SIZE - 4] = HEAP_SIZE
    BY <1>1, <1>2, <1>3, <1>4, <1>6 DEF Memory
  <1>8. Tiles(empty, B)
    BY <1>1, <1>2, <1>7 DEF Tiles
  <1>9. FreeOf(empty, B) = B
    BY <1>7 DEF FreeOf
  <1>10. Linked(empty, {})
    <2> DEFINE c == [i \in 0 .. 1 |-> 4]
    <2>1. c \in [0 .. 0 + 1 -> Words] /\ c[0] = 4 /\ c[0 + 1] = 4
      BY <1>2
    <2>2. \A i \in 0 .. 0 : empty[c[i]] = c[i + 1] /\ empty[c[i + 1] + 4] = c[i]
      BY <1>7, <2>1
    <2> HIDE DEF c
    <2>3. Ring(empty, {}, c, 0)
      BY <2>1, <2>2 DEF Ring
    <2> QED
      BY <2>3 DEF Linked
  <1>11. Nodes({}) = {} /\ Held(empty, B, {})
    BY <1>9 DEF Nodes, Held
  <1>12. State(empty, B, {}, {})
    BY <1>7, <1>8, <1>10, <1>11 DEF State
  <1>13. kheap_start \in FreeOf(empty, B) \ {}
    BY <1>9
  <1>14. State(mem', B, {} \cup {kheap_start}, {}) /\ FreeOf(mem', B) = B /\ SameSizes(empty, mem', B)
    <2>1. ListedState(empty, B, {} \cup {kheap_start}, {}, mem')
      BY <1>5, <1>12, <1>13, Enlist
    <2> QED
      BY <1>9, <2>1 DEF ListedState
  <1>15. {} \cup {kheap_start} = FreeOf(mem', B) /\ mem'[12] = HEAP_SIZE
    BY <1>7, <1>14 DEF SameSizes
  <1>16. NoFreeNeighbours(mem', B)
    BY <1>1, <1>14, <1>15 DEF NoFreeNeighbours
  <1> QED
    BY <1>14, <1>15, <1>16 DEF Sound

(* kmalloc, whether it cuts the block it found or takes it whole.          *)
LEMMA MallocSound ==
  ASSUME HeapInv, NEW size \in Sizes, kmalloc(size)
  PROVE  Sound(mem', live')
  <1>1. PICK B : State(mem, B, FreeOf(mem, B), live) /\ NoFreeNeighbours(mem, B)
    BY DEF HeapInv, kmalloc, Sound
  <1> DEFINE X == FreeOf(mem, B)
  <1>2. mem \in Memory /\ Tiles(mem, B) /\ X \in SUBSET B /\ Linked(mem, Nodes(X))
    BY <1>1 DEF State, FreeOf
  <1>3. PICK h \in X : FirstFit(size) = h + 8 /\ mem[h] >= BlockSize(size)
    BY <1>2, FirstFitIs DEF kmalloc
  <1>4. /\ h \in B /\ h \in Int /\ 12 <= h /\ h % 4 = 0
        /\ mem[h] \in Int /\ 20 <= mem[h] /\ mem[h] % 4 = 0
    BY <1>2, BlockFacts
  <1>5. HeaderOf(FirstFit(size)) = h
    BY <1>3, <1>4
  <1> DEFINE b == [ptr |-> h + HEADER, size |-> size]
             s == BlockSize(size)
  <1>6. /\ s \in Int /\ s % 4 = 0 /\ 24 <= s /\ HEADER + size + FOOTER <= s /\ size # 0
    BY BlockSizes DEF kmalloc
  <1>7. b \in [ptr : HeapWords, size : Sizes \ {0}] /\ b.ptr = h + HEADER /\ b.size = size
    <2>1. h + 16 \in HeapWords
      BY <1>2, <1>4, BlockWords
    <2> QED
      BY <1>6, <2>1
  <1>8. /\ mem' = Written(IF mem[h] - s >= 24 THEN Split(h, size) ELSE TakeWhole(h), b)
        /\ live' = live \cup {b}
    BY <1>5 DEF kmalloc
  <1>9. size \in Int /\ mem[h] >= s
    BY <1>3, SizesAre
  <1> HIDE DEF b, s
  <1>10. CASE mem[h] - s >= 24
    <2>1. CutOff(mem, h, s, b, mem')
      BY <1>8, <1>10 DEF CutOff, Split, s
    <2>2. FitsIn(b, h, s)
      BY <1>6, <1>7 DEF FitsIn
    <2>3. \E C : State(mem', C, FreeOf(mem', C), live \cup {b}) /\ NoFreeNeighbours(mem', C)
      BY <1>1, <1>6, <1>7, <1>10, <2>1, <2>2, CutBlockKept
    <2> QED
      BY <1>8, <2>3 DEF Sound
  <1>11. CASE ~ (mem[h] - s >= 24)
    <2>1. Taken(list_remove(mem, NodeOf(h)), h, b, mem')
      BY <1>8, <1>11 DEF Taken, TakeWhole
    <2>2. FitsIn(b, h, mem[h])
      BY <1>4, <1>6, <1>7, <1>9 DEF FitsIn
    <2>3. State(mem', B, FreeOf(mem', B), live \cup {b}) /\ NoFreeNeighbours(mem', B)
      BY <1>1, <1>7, <2>1, <2>2, WholeBlock
    <2> QED
      BY <1>8, <2>3 DEF Sound
  <1> QED
    BY <1>10, <1>11

(* kfree, with each combination of free and allocated neighbours.          *)
LEMMA FreeSound ==
  ASSUME HeapInv, NEW b \in live, kfree(b)
  PROVE  Sound(mem', live')
  <1>1. PICK B : State(mem, B, FreeOf(mem, B), live) /\ NoFreeNeighbours(mem, B)
    BY DEF HeapInv, Sound
  <1> DEFINE X == FreeOf(mem, B)
             L == live \ {b}
             hdr == b.ptr - HEADER
             next == hdr + mem[hdr]
             prev == hdr - mem[hdr - FOOTER]
             next_free == next < kheap_end /\ IsFree(next)
             prev_free == hdr # kheap_start /\ IsFree(prev)
             cleared == [mem EXCEPT ![hdr + 4] = 0]
             first == IF prev_free THEN prev ELSE hdr
             left == IF prev_free THEN kheap_merge(cleared, prev, hdr) ELSE cleared
             both == IF next_free
                       THEN kheap_merge(list_remove(left, NodeOf(next)), first, next)
                       ELSE left
  <1>2. /\ mem' = IF prev_free THEN both ELSE list_insert_front(both, NodeOf(first))
        /\ live' = L
    BY DEF kfree
  <1>3. mem \in Memory /\ Tiles(mem, B) /\ X \in SUBSET B /\ Held(mem, B, live)
    BY <1>1 DEF State, FreeOf
  <1>4. HeaderAt(b, hdr) /\ Cleared(mem, hdr, cleared) /\ prev = BlockBefore(mem, hdr)
    BY DEF HeaderAt, Cleared, BlockBefore
  <1>5. hdr \in B \ X
    BY <1>3 DEF Held
  <1>6. hdr \in Int /\ mem[hdr] \in Int /\ next \in B \cup {kheap_end}
    BY <1>3, <1>5, BlockFacts DEF Tiles
  <1>7. next \in X <=> next_free
    <2>1. \A x \in B : x \in HeapWords
      BY <1>3 DEF Tiles
    <2>2. next \in B => next < kheap_end
      BY <2>1, HeapWordsAre
    <2>3. next = kheap_end => ~ (next < kheap_end) /\ next \notin B
      BY <2>1, HeapWordsAre, EndOfHeap
    <2> HIDE DEF next
    <2> QED
      BY <1>6, <2>2, <2>3 DEF FreeOf, IsFree
  <1>8. next \in X => next + mem[next] \notin X
    BY <1>1 DEF NoFreeNeighbours
  <1>9. \E C : Widened(mem, X, left, C, first, next, L) /\ (first \in X <=> prev_free)
    <2>1. CASE prev_free
      <3>1. first = prev /\ left = kheap_merge(cleared, prev, hdr)
        BY <2>1
      <3>2. hdr # kheap_start /\ mem[prev + 4] = 0
        BY <2>1 DEF IsFree
      <3> HIDE DEF cleared, hdr, prev
      <3>3. Widened(mem, X, kheap_merge(cleared, prev, hdr), B \ {hdr}, prev, next, L) /\ prev \in X
        BY <1>1, <1>4, <3>2, FreeIntoPrevious
      <3> QED
        BY <2>1, <3>1, <3>3
    <2>2. CASE ~prev_free
      <3>1. first = hdr /\ left = cleared
        BY <2>2
      <3>2. ~ (hdr # kheap_start /\ mem[prev + 4] = 0)
        BY <2>2 DEF IsFree
      <3> HIDE DEF cleared, hdr, prev
      <3>3. Widened(mem, X, cleared, B, hdr, next, L)
        BY <1>1, <1>4, <3>2, FreeAlone
      <3> QED
        BY <1>5, <2>2, <3>1, <3>3
    <2> QED
      BY <2>1, <2>2
  <1> HIDE DEF left, prev_free, first
  <1>10. PICK C : Widened(mem, X, left, C, first, next, L) /\ (first \in X <=> prev_free)
    BY <1>9
  <1>11. next # first
    <2>1. left \in Memory /\ Tiles(left, C) /\ first \in C /\ first + left[first] = next
      BY <1>10 DEF Widened, State
    <2>2. first \in Int /\ left[first] \in Int /\ 20 <= left[first]
      BY <2>1, BlockFacts
    <2> HIDE DEF next
    <2> QED
      BY <2>1, <2>2
  <1> HIDE DEF next, hdr
  <1>12. \E D, Y : Settled(both, D, Y, first, L) /\ (first \in Y <=> prev_free)
    <2>1. CASE next_free
      <3>1. both = kheap_merge(list_remove(left, NodeOf(next)), first, next) /\ next \in X
        BY <1>7, <2>1
      <3> HIDE DEF both, next_free
      <3>2. Settled(both, C \ {next}, X \ {next}, first, L)
        BY <1>8, <1>10, <1>11, <3>1, NextMerged
      <3>3. first \in X \ {next} <=> prev_free
        BY <1>10, <1>11
      <3> QED
        BY <3>2, <3>3
    <2>2. CASE ~next_free
      <3>1. both = left /\ next \notin X
        BY <1>7, <2>2
      <3>2. Settled(left, C, X, first, L)
        BY <1>10, <3>1, NextNotFree
      <3> QED
        BY <1>10, <3>1, <3>2
    <2> QED
      BY <2>1, <2>2
  <1> HIDE DEF both
  <1>13. PICK D, Y : Settled(both, D, Y, first, L) /\ (first \in Y <=> prev_free)
    BY <1>12
  <1>14. /\ State(both, D, Y, L) /\ FreeOf(both, D) = Y \cup {first}
         /\ NoFreeNeighbours(both, D)
    BY <1>13 DEF Settled
  <1>15. CASE prev_free
    <2>1. mem' = both /\ FreeOf(both, D) = Y
      BY <1>2, <1>13, <1>14, <1>15
    <2> QED
      BY <1>2, <1>14, <2>1 DEF Sound
  <1>16. CASE ~prev_free
    <2>1. mem' = list_insert_front(both, NodeOf(first)) /\ first \in FreeOf(both, D) \ Y
      BY <1>2, <1>13, <1>14, <1>16
    <2>2. /\ State(mem', D, Y \cup {first}, L) /\ FreeOf(mem', D) = FreeOf(both, D)
          /\ SameSizes(both, mem', D)
      <3>1. ListedState(both, D, Y \cup {first}, L, mem')
        BY <1>14, <2>1, Enlist
      <3> QED
        BY <3>1 DEF ListedState
    <2>3. FreeOf(mem', D) \subseteq D
      BY DEF FreeOf
    <2>4. NoFreeNeighbours(mem', D)
      BY <1>14, <2>2, <2>3 DEF NoFreeNeighbours, SameSizes
    <2>5. FreeOf(mem', D) = Y \cup {first}
      BY <1>14, <2>2
    <2>6. State(mem', D, FreeOf(mem', D), L)
      BY <2>2, <2>5
    <2> QED
      BY <1>2, <2>4, <2>6 DEF Sound
  <1> QED
    BY <1>15, <1>16

-----------------------------------------------------------------------------
(* Before kheap_init there is no heap and no allocation.                   *)
LEMMA InitHeapInv == Init => HeapInv
  <1> SUFFICES ASSUME Init PROVE HeapInv
    OBVIOUS
  <1>1. JUNK \in JUNK .. SIZE_MAX
    BY EndOfHeap DEF JUNK
  <1> QED
    BY <1>1 DEF Init, HeapInv, TypeOK

(* Every call keeps the invariant.                                         *)
LEMMA NextHeapInv == HeapInv /\ [Next]_vars => HeapInv'
  <1> SUFFICES ASSUME HeapInv, [Next]_vars PROVE HeapInv'
    OBVIOUS
  <1>1. ASSUME Sound(mem', live'), ready' = TRUE PROVE HeapInv'
    <2>1. mem' \in Memory /\ live' \subseteq [ptr : HeapWords, size : Sizes \ {0}]
      BY <1>1, SoundTypes
    <2> QED
      BY <1>1, <2>1 DEF HeapInv, TypeOK, Memory
  <1>2. CASE kheap_init
    <2>1. Sound(mem', {}) /\ live' = {} /\ ready' = TRUE
      BY <1>2, InitSound DEF kheap_init, HeapInv
    <2> QED
      BY <1>1, <2>1
  <1>3. ASSUME NEW size \in Sizes, kmalloc(size) PROVE HeapInv'
    <2>1. Sound(mem', live')
      BY <1>3, MallocSound
    <2>2. ready' = TRUE
      BY <1>3 DEF kmalloc, HeapInv, TypeOK
    <2> QED
      BY <1>1, <2>1, <2>2
  <1>4. ASSUME NEW b \in live, kfree(b) PROVE HeapInv'
    <2>1. Sound(mem', live')
      BY <1>4, FreeSound
    <2>2. ready' = TRUE
      BY <1>4 DEF kfree, HeapInv, TypeOK
    <2> QED
      BY <1>1, <2>1, <2>2
  <1>5. CASE UNCHANGED vars
    BY <1>5 DEF vars, HeapInv, TypeOK
  <1>6. ASSUME NEW size \in Sizes, kmalloc_fails(size) PROVE HeapInv'
    BY <1>5, <1>6 DEF kmalloc_fails
  <1>7. ASSUME NEW ptr, kfree_fails(ptr) PROVE HeapInv'
    BY <1>5, <1>7 DEF kfree_fails
  <1> QED
    BY <1>2, <1>3, <1>4, <1>5, <1>6, <1>7 DEF Next

(* The invariant holds after every sequence of calls of kheap_init, kmalloc*)
(* and kfree.                                                              *)
THEOREM HeapInvHolds == Spec => []HeapInv
  BY InitHeapInv, NextHeapInv, PTL DEF Spec
(* The boundary tags are right after every sequence of calls: the blocks   *)
(* tile the heap, both tags of each agree, no two neighbours are free, and *)
(* the allocated blocks are the live allocations.                          *)
THEOREM HeapBlocksSound == Spec => []BlocksSound
  <1>1. HeapInv => BlocksSound
    <2> SUFFICES ASSUME HeapInv, ready
                 PROVE  /\ \A a \in Blocks : /\ mem[a] >= 20 /\ mem[a] % 4 = 0
                                             /\ a + mem[a] <= kheap_end
                                             /\ mem[a + mem[a] - 4] = mem[a]
                                             /\ (a + mem[a]) \in Blocks =>
                                                  ~(IsFree(a) /\ IsFree(a + mem[a]))
                        /\ \E a \in Blocks : a + mem[a] = kheap_end
                        /\ {a \in Blocks : ~IsFree(a)} = {b.ptr - 16 : b \in live}
                        /\ live = {} => mem[kheap_start] = HEAP_SIZE
      BY DEF BlocksSound, HeapInv
    <2>1. PICK B : State(mem, B, FreeOf(mem, B), live) /\ NoFreeNeighbours(mem, B)
      BY DEF HeapInv, Sound
    <2>2. mem \in Memory /\ Tiles(mem, B) /\ Held(mem, B, live)
      BY <2>1 DEF State
    <2>3. Blocks = B
      BY <2>2, BlocksAre
    <2> HIDE DEF Blocks
    <2>4. ASSUME NEW a \in B
          PROVE  /\ mem[a] >= 20 /\ mem[a] % 4 = 0 /\ a + mem[a] <= kheap_end
                 /\ mem[a + mem[a] - 4] = mem[a]
                 /\ (a + mem[a]) \in B => ~(IsFree(a) /\ IsFree(a + mem[a]))
      <3>1. mem[a] >= 20 /\ mem[a] % 4 = 0 /\ a + mem[a] <= kheap_end /\ mem[a + mem[a] - 4] = mem[a]
        BY <2>2, BlockFacts
      <3>2. a + mem[a] \in B => ~(IsFree(a) /\ IsFree(a + mem[a]))
        BY <2>1 DEF NoFreeNeighbours, FreeOf, IsFree
      <3> QED
        BY <3>1, <3>2
    <2>5. \E a \in B : a + mem[a] = kheap_end
      BY <2>2, EndsAt, EndOfHeap
    <2>6. {a \in B : ~IsFree(a)} = {b.ptr - 16 : b \in live}
      <3>1. ASSUME NEW a \in B, ~IsFree(a) PROVE \E b \in live : a = b.ptr - 16
        <4>1. a \in B \ FreeOf(mem, B)
          BY <3>1 DEF FreeOf, IsFree
        <4>2. PICK b \in live : b.ptr = a + 16
          BY <2>2, <4>1 DEF Held
        <4>3. a \in Int
          BY <2>2, BlockFacts
        <4> QED
          BY <4>2, <4>3
      <3>2. ASSUME NEW b \in live PROVE b.ptr - 16 \in B /\ ~IsFree(b.ptr - 16)
        BY <2>2 DEF Held, FreeOf, IsFree
      <3> QED
        BY <3>1, <3>2
    <2>7. ASSUME live = {} PROVE mem[kheap_start] = HEAP_SIZE
      <3>1. kheap_start \in B /\ kheap_start + mem[kheap_start] \in B \cup {kheap_end}
        BY <2>2 DEF Tiles
      <3>2. B \subseteq FreeOf(mem, B)
        BY <2>2, <2>7 DEF Held
      <3>3. kheap_start + mem[kheap_start] = kheap_end
        BY <2>1, <3>1, <3>2 DEF NoFreeNeighbours
      <3>4. mem[kheap_start] \in Int
        BY <2>2, <3>1, BlockFacts
      <3> QED
        BY <3>3, <3>4, HeapAssumption DEF kheap_end
    <2> QED
      BY <2>3, <2>4, <2>5, <2>6, <2>7
  <1> QED
    BY <1>1, HeapInvHolds, PTL

(* The free list is exactly the free blocks and is linked both ways, in    *)
(* whatever order the blocks were split, merged and freed.                 *)
THEOREM HeapFreeList == Spec => []FreeListIsFreeBlocks
  <1>1. HeapInv => FreeListIsFreeBlocks
    <2> SUFFICES ASSUME HeapInv, ready
                 PROVE  /\ ListNodes \ {kheap_free_list} = {a + 8 : a \in {h \in Blocks : IsFree(h)}}
                        /\ \A n \in ListNodes \cup {kheap_free_list} : mem[mem[n] + 4] = n
      BY DEF FreeListIsFreeBlocks
    <2>1. PICK B : State(mem, B, FreeOf(mem, B), live)
      BY DEF HeapInv, Sound
    <2> DEFINE X == FreeOf(mem, B)
               N == Nodes(X)
    <2>2. mem \in Memory /\ Tiles(mem, B) /\ X \in SUBSET B /\ Linked(mem, N)
      BY <2>1 DEF State, FreeOf
    <2>3. kheap_free_list \notin N
      BY <2>2, NodesOfBlocks DEF NodesApart
    <2>4. Blocks = B
      BY <2>2, BlocksAre
    <2> HIDE DEF Blocks
    <2>5. N = {a + 8 : a \in {h \in Blocks : IsFree(h)}}
      BY <2>4 DEF Nodes, FreeOf, IsFree
    <2>6. \A k \in 0 .. MaxBlocks : Node[k] \in N \cup {kheap_free_list}
      BY <2>2, NodesMet
    <2>7. \A x \in N \cup {kheap_free_list} : \E k \in 0 .. MaxBlocks : Node[k] = x
      BY <2>2, NodesMet
    <2> HIDE DEF N
    <2>8. ListNodes = N \cup {kheap_free_list}
      BY <2>6, <2>7 DEF ListNodes
    <2>9. \A n \in N \cup {kheap_free_list} : mem[mem[n] + 4] = n
      BY <2>2, ForthAndBack
    <2> QED
      BY <2>3, <2>5, <2>8, <2>9
  <1> QED
    BY <1>1, HeapInvHolds, PTL

(* What the owner of an allocation wrote stays as it is until kfree.       *)
THEOREM HeapPayloadUntouched == Spec => []PayloadUntouched
  <1>1. HeapInv => PayloadUntouched
    <2> SUFFICES ASSUME HeapInv, NEW b \in live, NEW a \in Payload(b) PROVE mem[a] = JUNK
      BY DEF PayloadUntouched
    <2> QED
      BY DEF HeapInv, Sound, State, Held
  <1> QED
    BY <1>1, HeapInvHolds, PTL

(* Allocations lie in the heap and share no byte.                          *)
LEMMA RangesApart ==
  ASSUME NEW m, NEW L, Sound(m, L)
  PROVE  /\ \A b \in L : Contract!Range(b) \subseteq kheap_start .. (kheap_end - 1)
         /\ \A b, d \in L : b # d => Contract!Range(b) \cap Contract!Range(d) = {}
  <1>1. PICK B : State(m, B, FreeOf(m, B), L)
    BY DEF Sound
  <1>2. m \in Memory /\ Tiles(m, B) /\ Held(m, B, L)
    BY <1>1 DEF State
  <1>3. ASSUME NEW b \in L
        PROVE  \E a \in B : /\ a \in Int /\ m[a] \in Int /\ 12 <= a /\ a + m[a] <= kheap_end
                            /\ b.ptr = a + 16 /\ b.size \in Int /\ 16 + b.size + 4 <= m[a]
    <2> DEFINE a == b.ptr - 16
    <2>1. /\ b \in [ptr : HeapWords, size : Sizes \ {0}] /\ a \in B
          /\ 16 + b.size + 4 <= m[a]
      BY <1>2 DEF Held
    <2>2. b.ptr \in Int /\ b.size \in Int
      BY <2>1, HeapWordsAre, SizesAre
    <2>3. a \in Int /\ m[a] \in Int /\ 12 <= a /\ a + m[a] <= kheap_end
      BY <1>2, <2>1, BlockFacts
    <2> QED
      BY <2>1, <2>2, <2>3
  <1>4. ASSUME NEW b \in L PROVE Contract!Range(b) \subseteq kheap_start .. (kheap_end - 1)
    BY <1>3, EndOfHeap DEF Contract!Range
  <1>5. ASSUME NEW b \in L, NEW d \in L, b # d
        PROVE  Contract!Range(b) \cap Contract!Range(d) = {}
    <2>1. PICK a \in B : /\ a \in Int /\ m[a] \in Int
                         /\ b.ptr = a + 16 /\ b.size \in Int /\ 16 + b.size + 4 <= m[a]
      BY <1>3
    <2>2. PICK e \in B : /\ e \in Int /\ m[e] \in Int
                         /\ d.ptr = e + 16 /\ d.size \in Int /\ 16 + d.size + 4 <= m[e]
      BY <1>3
    <2>3. a # e
      BY <1>2, <1>5, <2>1, <2>2 DEF Held
    <2>4. a + m[a] <= e \/ e + m[e] <= a
      BY <1>2, <2>3, BlocksApart
    <2> QED
      BY <2>1, <2>2, <2>4 DEF Contract!Range
  <1> QED
    BY <1>4, <1>5

(* kmalloc and kfree do what the abstract heap does: each step of the      *)
(* detailed heap allocates a range of its own, gives one back, or changes  *)
(* nothing a caller sees.                                                  *)
THEOREM HeapImplementsContract == Spec => ImplementsHeap
  <1>1. Init => Contract!HInit
    BY DEF Init, Contract!HInit
  <1>2. HeapInv /\ HeapInv' /\ [Next]_vars => [Contract!HNext]_live
    <2> SUFFICES ASSUME HeapInv, HeapInv', Next PROVE Contract!HNext \/ live' = live
      BY DEF vars
    <2>1. ASSUME NEW size \in Sizes, kmalloc(size) PROVE Contract!HNext \/ live' = live
      <3> DEFINE b == [ptr |-> HeaderOf(FirstFit(size)) + 16, size |-> size]
      <3>1. live' = live \cup {b} /\ ready' = TRUE /\ size # 0
        BY <2>1 DEF kmalloc, HeapInv, TypeOK
      <3>2. b.size = size
        OBVIOUS
      <3> HIDE DEF b
      <3>3. Sound(mem', live')
        BY <3>1 DEF HeapInv
      <3>4. /\ \A d \in live' : Contract!Range(d) \subseteq kheap_start .. (kheap_end - 1)
            /\ \A d, e \in live' : d # e => Contract!Range(d) \cap Contract!Range(e) = {}
        BY <3>3, RangesApart
      <3>5. CASE b \in live
        BY <3>1, <3>5
      <3>6. CASE b \notin live
        <4>1. Contract!Allocate(b)
          BY <3>1, <3>2, <3>4, <3>6 DEF Contract!Allocate
        <4> QED
          BY <3>1, <3>6, <4>1 DEF Contract!HNext
      <3> QED
        BY <3>5, <3>6
    <2>2. ASSUME NEW b \in live, kfree(b) PROVE Contract!HNext
      <3>1. live' = live \ {b}
        BY <2>2 DEF kfree
      <3> QED
        BY <3>1 DEF Contract!HNext, Contract!Free
    <2>3. ASSUME kheap_init PROVE live' = live
      BY <2>3 DEF kheap_init
    <2>4. ASSUME NEW size, kmalloc_fails(size) PROVE live' = live
      BY <2>4 DEF kmalloc_fails, vars
    <2>5. ASSUME NEW ptr, kfree_fails(ptr) PROVE live' = live
      BY <2>5 DEF kfree_fails, vars
    <2> QED
      BY <2>1, <2>2, <2>3, <2>4, <2>5 DEF Next
  <1> QED
    BY <1>1, <1>2, HeapInvHolds, PTL DEF Spec, ImplementsHeap, Contract!HSpec
=============================================================================
