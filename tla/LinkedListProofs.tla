--------------------------- MODULE LinkedListProofs ---------------------------
(***************************************************************************)
(* The links of any number of nodes and lists stay mutual.  On their own   *)
(* they need not: a ring of nodes without a sentinel would shrink to a     *)
(* node linked to itself, which list_replace leaves half linked.  So the   *)
(* invariant gives every node the list it is in, and a rank that rises     *)
(* along the list until its sentinel comes again.                          *)
(***************************************************************************)
EXTENDS LinkedList, WellFoundedInduction, TLAPS

All == Node \cup ListHead
Links == [All -> [next : All \cup {NULL}, prev : All \cup {NULL}]]

Owned(l, own) ==
  /\ \A h \in ListHead : own[h] = h
  /\ \A n \in All : Linked(l, n) => own[l[n].next] = own[n]

Rising(l, rank) ==
  \A n \in All : Linked(l, n) => l[n].next \in ListHead \/ rank[n] < rank[l[n].next]

(* A walk is at two neighbours of its list.                                *)
WalkInside(own) ==
  /\ walk \in [list : ListHead \cup {NULL}, node : All \cup {NULL}, next : All \cup {NULL}]
  /\ walk.list # NULL =>
       /\ walk.node \in All /\ Linked(links, walk.node)
       /\ walk.next = links[walk.node].next /\ own[walk.node] = walk.list

Sound(l, own, rank) == l \in Links /\ Mutual(l) /\ Owned(l, own) /\ Rising(l, rank)

Owners == [All -> All \cup {NULL}]
Ranks == [All -> Nat]

ListInv ==
  \E own \in Owners, rank \in Ranks : Sound(links, own, rank) /\ WalkInside(own)

-----------------------------------------------------------------------------
(* A node that is linked has its neighbours, and they are linked.          *)
LEMMA Neighbours ==
  ASSUME NEW l \in Links, Mutual(l), NEW n \in All, n \in ListHead \/ Linked(l, n)
  PROVE  /\ l[n].next \in All /\ l[n].prev \in All /\ Linked(l, n)
         /\ l[l[n].next].prev = n /\ l[l[n].prev].next = n
         /\ Linked(l, l[n].next) /\ Linked(l, l[n].prev)
  <1>1. /\ l[n].next \in All /\ l[n].prev \in All
        /\ l[l[n].next].prev = n /\ l[l[n].prev].next = n
    BY ListAssumption DEF Mutual, All
  <1>2. n # NULL /\ l[n].next # NULL
    BY <1>1, ListAssumption DEF All
  <1> QED
    BY <1>1, <1>2 DEF Linked, Unlinked

(* Which fields a function changes, whichever of the nodes are the same.   *)
LEMMA InsertAfterFields ==
  ASSUME NEW l \in Links, NEW node \in All, NEW new \in Node,
         node # new, l[node].next \in All, l[node].next # new
  PROVE  LET r == list_insert_after(l, node, new)
         IN  /\ r \in Links
             /\ \A n \in All :
                  /\ r[n].next = IF n = node THEN new ELSE IF n = new THEN l[node].next ELSE l[n].next
                  /\ r[n].prev = IF n = new THEN node ELSE IF n = l[node].next THEN new ELSE l[n].prev
  <1> DEFINE m == [l EXCEPT ![new] = [next |-> l[node].next, prev |-> node]]
             k == [m EXCEPT ![m[node].next].prev = new]
             r == [k EXCEPT ![node].next = new]
  <1>1. m \in Links /\ m[node].next = l[node].next
    BY DEF Links, All
  <1>2. k \in Links
    BY <1>1 DEF Links, All
  <1>3. r \in Links
    BY <1>2 DEF Links, All
  <1>4. \A n \in All :
           /\ r[n].next = IF n = node THEN new ELSE IF n = new THEN l[node].next ELSE l[n].next
           /\ r[n].prev = IF n = new THEN node ELSE IF n = l[node].next THEN new ELSE l[n].prev
    BY <1>1 DEF Links, All
  <1>5. list_insert_after(l, node, new) = r
    BY DEF list_insert_after
  <1> HIDE DEF r
  <1> QED
    BY <1>3, <1>4, <1>5

LEMMA InsertBeforeFields ==
  ASSUME NEW l \in Links, NEW node \in All, NEW new \in Node,
         node # new, l[node].prev \in All, l[node].prev # new
  PROVE  LET r == list_insert_before(l, node, new)
         IN  /\ r \in Links
             /\ \A n \in All :
                  /\ r[n].next = IF n = new THEN node ELSE IF n = l[node].prev THEN new ELSE l[n].next
                  /\ r[n].prev = IF n = node THEN new ELSE IF n = new THEN l[node].prev ELSE l[n].prev
  <1> DEFINE m == [l EXCEPT ![new] = [next |-> node, prev |-> l[node].prev]]
             k == [m EXCEPT ![m[node].prev].next = new]
             r == [k EXCEPT ![node].prev = new]
  <1>1. m \in Links /\ m[node].prev = l[node].prev
    BY DEF Links, All
  <1>2. k \in Links
    BY <1>1 DEF Links, All
  <1>3. r \in Links
    BY <1>2 DEF Links, All
  <1>4. \A n \in All :
           /\ r[n].next = IF n = new THEN node ELSE IF n = l[node].prev THEN new ELSE l[n].next
           /\ r[n].prev = IF n = node THEN new ELSE IF n = new THEN l[node].prev ELSE l[n].prev
    BY <1>1 DEF Links, All
  <1>5. list_insert_before(l, node, new) = r
    BY DEF list_insert_before
  <1> HIDE DEF r
  <1> QED
    BY <1>3, <1>4, <1>5

LEMMA RemoveFields ==
  ASSUME NEW l \in Links, NEW node \in Node, l[node].next \in All, l[node].prev \in All
  PROVE  LET r == list_remove(l, node)
         IN  /\ r \in Links
             /\ \A n \in All :
                  /\ r[n].next = IF n = node THEN NULL
                                 ELSE IF n = l[node].prev THEN l[node].next ELSE l[n].next
                  /\ r[n].prev = IF n = node THEN NULL
                                 ELSE IF n = l[node].next THEN l[node].prev ELSE l[n].prev
  <1> DEFINE m == [l EXCEPT ![l[node].prev].next = l[node].next]
             k == [m EXCEPT ![m[node].next].prev = m[node].prev]
             r == [k EXCEPT ![node] = Unlinked]
  <1>1. m \in Links /\ m[node].next = l[node].next /\ m[node].prev = l[node].prev
    BY DEF Links, All
  <1>2. k \in Links
    BY <1>1 DEF Links, All
  <1>3. r \in Links
    BY <1>2 DEF Links, All, Unlinked
  <1>4. \A n \in All :
          /\ r[n].next = IF n = node THEN NULL
                         ELSE IF n = l[node].prev THEN l[node].next ELSE l[n].next
          /\ r[n].prev = IF n = node THEN NULL
                         ELSE IF n = l[node].next THEN l[node].prev ELSE l[n].prev
    BY <1>1 DEF Links, All, Unlinked
  <1>5. list_remove(l, node) = r
    BY DEF list_remove
  <1> HIDE DEF r
  <1> QED
    BY <1>3, <1>4, <1>5

LEMMA ReplaceFields ==
  ASSUME NEW l \in Links, NEW old \in Node, NEW new \in Node, old # new,
         l[old].next \in All \ {old, new}, l[old].prev \in All \ {old, new}
  PROVE  LET r == list_replace(l, old, new)
         IN  /\ r \in Links
             /\ \A n \in All :
                  /\ r[n].next = IF n = old THEN NULL ELSE IF n = l[old].prev THEN new
                                 ELSE IF n = new THEN l[old].next ELSE l[n].next
                  /\ r[n].prev = IF n = old THEN NULL ELSE IF n = l[old].next THEN new
                                 ELSE IF n = new THEN l[old].prev ELSE l[n].prev
  <1> DEFINE m == [l EXCEPT ![new] = l[old]]
             k == [m EXCEPT ![m[old].prev].next = new]
             j == [k EXCEPT ![k[old].next].prev = new]
             r == [j EXCEPT ![old] = Unlinked]
  <1>1. m \in Links /\ m[old] = l[old]
    BY DEF Links, All
  <1>2. k \in Links /\ k[old].next = l[old].next
    BY <1>1 DEF Links, All
  <1>3. j \in Links
    BY <1>2 DEF Links, All
  <1>4. r \in Links
    BY <1>3 DEF Links, All, Unlinked
  <1>5. \A n \in All :
          /\ r[n].next = IF n = old THEN NULL ELSE IF n = l[old].prev THEN new
                         ELSE IF n = new THEN l[old].next ELSE l[n].next
          /\ r[n].prev = IF n = old THEN NULL ELSE IF n = l[old].next THEN new
                         ELSE IF n = new THEN l[old].prev ELSE l[n].prev
    BY <1>1, <1>2 DEF Links, All, Unlinked
  <1>6. list_replace(l, old, new) = r
    BY DEF list_replace
  <1> HIDE DEF r
  <1> QED
    BY <1>4, <1>5, <1>6

-----------------------------------------------------------------------------
(* Each function keeps the links sound, with the owner and the rank that   *)
(* it gives the new node.                                                  *)
LEMMA RemoveSound ==
  ASSUME NEW l \in Links, NEW own \in Owners, NEW rank \in Ranks, Sound(l, own, rank),
         NEW node \in Node, Linked(l, node)
  PROVE  LET r == list_remove(l, node)
         IN  /\ Sound(r, own, rank)
             /\ \A n \in All : Linked(r, n) <=> Linked(l, n) /\ n # node
  <1> DEFINE r == list_remove(l, node)
             nx == l[node].next
             pv == l[node].prev
  <1> USE ListAssumption DEF All
  <1>1. /\ nx \in All /\ pv \in All /\ l[nx].prev = node /\ l[pv].next = node
        /\ Linked(l, nx) /\ Linked(l, pv)
    BY Neighbours DEF Sound
  <1>2. nx # node /\ pv # node
    BY <1>1 DEF Sound, Rising, Ranks
  <1>3. /\ r \in Links
        /\ \A n \in All :
             /\ r[n].next = IF n = node THEN NULL ELSE IF n = pv THEN nx ELSE l[n].next
             /\ r[n].prev = IF n = node THEN NULL ELSE IF n = nx THEN pv ELSE l[n].prev
    BY <1>1, RemoveFields
  <1> HIDE DEF r
  <1>4. \A n \in All : Linked(l, n) => /\ l[n].next \in All /\ l[n].prev \in All
                                       /\ l[l[n].next].prev = n /\ l[l[n].prev].next = n
    BY Neighbours DEF Sound
  <1>5. \A n \in All : Linked(r, n) <=> Linked(l, n) /\ n # node
    <2> TAKE n \in All
    <2>1. CASE n = node
      BY <1>3, <2>1 DEF Linked, Unlinked, Links
    <2>2. CASE n # node /\ Linked(l, n)
      BY <1>1, <1>3, <1>4, <2>2 DEF Linked, Unlinked, Links
    <2>3. CASE n # node /\ ~Linked(l, n)
      <3>1. n # nx /\ n # pv
        BY <1>1, <2>3
      <3> QED
        BY <1>3, <2>3, <3>1 DEF Linked, Unlinked, Links
    <2> QED
      BY <2>1, <2>2, <2>3
  <1>6. Mutual(r)
    <2> SUFFICES ASSUME NEW n \in All, n \in ListHead \/ Linked(r, n)
                 PROVE  /\ r[n].next \in All /\ r[n].prev \in All
                        /\ r[r[n].next].prev = n /\ r[r[n].prev].next = n
      BY DEF Mutual
    <2>1. Linked(l, n) /\ n # node
      BY <1>5, Neighbours DEF Sound
    <2>2. /\ l[n].next \in All /\ l[n].prev \in All
          /\ l[l[n].next].prev = n /\ l[l[n].prev].next = n
      BY <1>4, <2>1
    <2>3. r[n].next \in All /\ r[r[n].next].prev = n
      BY <1>1, <1>2, <1>3, <2>1, <2>2
    <2>4. r[n].prev \in All /\ r[r[n].prev].next = n
      BY <1>1, <1>2, <1>3, <2>1, <2>2
    <2> QED
      BY <2>3, <2>4
  <1>7. Owned(r, own)
    BY <1>1, <1>2, <1>3, <1>5 DEF Sound, Owned
  <1>8. Rising(r, rank)
    <2> SUFFICES ASSUME NEW n \in All, Linked(r, n), r[n].next \notin ListHead
                 PROVE  rank[n] < rank[r[n].next]
      BY DEF Rising
    <2>1. Linked(l, n) /\ n # node
      BY <1>5
    <2>2. CASE n = pv
      <3>1. rank[pv] < rank[node] /\ rank[node] < rank[nx]
        BY <1>1, <1>3, <2>1, <2>2 DEF Sound, Rising
      <3> QED
        BY <1>1, <1>3, <2>1, <2>2, <3>1 DEF Ranks
    <2>3. CASE n # pv
      BY <1>3, <2>1, <2>3 DEF Sound, Rising
    <2> QED
      BY <2>2, <2>3
  <1> QED
    BY <1>3, <1>5, <1>6, <1>7, <1>8 DEF Sound, r

(* A new node between two neighbours: the ranks behind it make room.       *)
LEMMA InsertedSound ==
  ASSUME NEW l \in Links, NEW own \in Owners, NEW rank \in Ranks, Sound(l, own, rank),
         NEW p \in All, NEW q \in All, Linked(l, p), l[p].next = q,
         NEW new \in Node, ~Linked(l, new), NEW r \in Links,
         \A n \in All :
           /\ r[n].next = IF n = p THEN new ELSE IF n = new THEN q ELSE l[n].next
           /\ r[n].prev = IF n = q THEN new ELSE IF n = new THEN p ELSE l[n].prev
  PROVE  \E own2 \in Owners, rank2 \in Ranks : Sound(r, own2, rank2)
  <1> USE ListAssumption DEF All
  <1> DEFINE own2 == [own EXCEPT ![new] = own[p]]
             rank2 == [n \in All |-> IF n = new THEN rank[p] + 1
                                     ELSE IF rank[n] > rank[p] THEN rank[n] + 1 ELSE rank[n]]
  <1>1. \A n \in All : Linked(l, n) => /\ l[n].next \in All /\ l[n].prev \in All
                                       /\ l[l[n].next].prev = n /\ l[l[n].prev].next = n
                                       /\ Linked(l, l[n].next) /\ Linked(l, l[n].prev)
    BY Neighbours DEF Sound
  <1>2. l[q].prev = p /\ Linked(l, q) /\ p # new /\ q # new
    BY <1>1
  <1>3. \A n \in All : Linked(r, n) => Linked(l, n) \/ n = new
    BY <1>2 DEF Linked, Unlinked, Links
  <1>4. \A h \in ListHead : Linked(l, h) /\ h # new
    BY Neighbours DEF Sound
  <1>5. Mutual(r)
    <2> SUFFICES ASSUME NEW n \in All, n \in ListHead \/ Linked(r, n)
                 PROVE  /\ r[n].next \in All /\ r[n].prev \in All
                        /\ r[r[n].next].prev = n /\ r[r[n].prev].next = n
      BY DEF Mutual
    <2>1. CASE n = new
      BY <1>2, <2>1
    <2>2. CASE n # new
      <3>1. /\ l[n].next \in All /\ l[n].prev \in All
            /\ l[l[n].next].prev = n /\ l[l[n].prev].next = n
            /\ l[n].next # new /\ l[n].prev # new
        BY <1>1, <1>3, <1>4, <2>2
      <3>2. r[n].next \in All /\ r[r[n].next].prev = n
        BY <1>2, <2>2, <3>1
      <3>3. r[n].prev \in All /\ r[r[n].prev].next = n
        BY <1>2, <2>2, <3>1
      <3> QED
        BY <3>2, <3>3
    <2> QED
      BY <2>1, <2>2
  <1>6. own2 \in Owners /\ Owned(r, own2)
    <2>1. own2 \in Owners /\ \A h \in ListHead : own2[h] = h
      BY <1>4 DEF Owners, Sound, Owned
    <2>2. ASSUME NEW n \in All, Linked(r, n) PROVE own2[r[n].next] = own2[n]
      <3>1. own[q] = own[p]
        BY DEF Sound, Owned
      <3>2. CASE n = new \/ n = p
        BY <1>2, <3>1, <3>2 DEF Owners
      <3>3. CASE n # new /\ n # p
        <4>1. l[n].next \in All /\ l[n].next # new /\ own[l[n].next] = own[n]
          BY <1>1, <1>3, <2>2, <3>3 DEF Sound, Owned
        <4> QED
          BY <3>3, <4>1 DEF Owners
      <3> QED
        BY <3>2, <3>3
    <2> QED
      BY <2>1, <2>2 DEF Owned
  <1>7. rank2 \in Ranks /\ Rising(r, rank2)
    <2>1. rank2 \in Ranks
      BY DEF Ranks
    <2>2. ASSUME NEW n \in All, Linked(r, n), r[n].next \notin ListHead
          PROVE  rank2[n] < rank2[r[n].next]
      <3>1. CASE n = new
        <4>1. r[n].next = q /\ rank[p] < rank[q]
          BY <1>2, <2>2, <3>1 DEF Sound, Rising
        <4> QED
          BY <1>2, <3>1, <4>1 DEF Ranks
      <3>2. CASE n = p
        BY <1>2, <3>2 DEF Ranks
      <3>3. CASE n # new /\ n # p
        <4>1. /\ r[n].next = l[n].next /\ l[n].next \in All /\ l[n].next # new
              /\ rank[n] < rank[l[n].next]
          BY <1>1, <1>3, <2>2, <3>3 DEF Sound, Rising
        <4> QED
          BY <3>3, <4>1 DEF Ranks
      <3> QED
        BY <3>1, <3>2, <3>3
    <2> QED
      BY <2>1, <2>2 DEF Rising
  <1> QED
    BY <1>5, <1>6, <1>7 DEF Sound

LEMMA InsertAfterSound ==
  ASSUME NEW l \in Links, NEW own \in Owners, NEW rank \in Ranks, Sound(l, own, rank),
         NEW node \in All, Linked(l, node), NEW new \in Node, ~Linked(l, new)
  PROVE  \E own2 \in Owners, rank2 \in Ranks : Sound(list_insert_after(l, node, new), own2, rank2)
  <1> DEFINE r == list_insert_after(l, node, new)
             q == l[node].next
  <1>1. q \in All /\ l[q].prev = node /\ Linked(l, q) /\ node # new /\ q # new
    BY Neighbours DEF Sound
  <1>2. /\ r \in Links
        /\ \A n \in All :
             /\ r[n].next = IF n = node THEN new ELSE IF n = new THEN q ELSE l[n].next
             /\ r[n].prev = IF n = new THEN node ELSE IF n = q THEN new ELSE l[n].prev
    BY <1>1, InsertAfterFields
  <1> HIDE DEF r
  <1>3. \A n \in All : r[n].prev = IF n = q THEN new ELSE IF n = new THEN node ELSE l[n].prev
    BY <1>1, <1>2
  <1>4. \E own2 \in Owners, rank2 \in Ranks : Sound(r, own2, rank2)
    BY <1>1, <1>2, <1>3, InsertedSound
  <1> QED
    BY <1>4 DEF r

LEMMA InsertBeforeSound ==
  ASSUME NEW l \in Links, NEW own \in Owners, NEW rank \in Ranks, Sound(l, own, rank),
         NEW node \in All, Linked(l, node), NEW new \in Node, ~Linked(l, new)
  PROVE  \E own2 \in Owners, rank2 \in Ranks : Sound(list_insert_before(l, node, new), own2, rank2)
  <1> DEFINE r == list_insert_before(l, node, new)
             p == l[node].prev
  <1>1. p \in All /\ l[p].next = node /\ Linked(l, p) /\ node # new /\ p # new
    BY Neighbours DEF Sound
  <1>2. /\ r \in Links
        /\ \A n \in All :
             /\ r[n].next = IF n = new THEN node ELSE IF n = p THEN new ELSE l[n].next
             /\ r[n].prev = IF n = node THEN new ELSE IF n = new THEN p ELSE l[n].prev
    BY <1>1, InsertBeforeFields
  <1> HIDE DEF r
  <1>3. \A n \in All : r[n].next = IF n = p THEN new ELSE IF n = new THEN node ELSE l[n].next
    BY <1>1, <1>2
  <1>4. \E own2 \in Owners, rank2 \in Ranks : Sound(r, own2, rank2)
    BY <1>1, <1>2, <1>3, InsertedSound
  <1> QED
    BY <1>4 DEF r

LEMMA ReplaceSound ==
  ASSUME NEW l \in Links, NEW own \in Owners, NEW rank \in Ranks, Sound(l, own, rank),
         NEW old \in Node, Linked(l, old), NEW new \in Node, ~Linked(l, new)
  PROVE  \E own2 \in Owners, rank2 \in Ranks : Sound(list_replace(l, old, new), own2, rank2)
  <1> USE ListAssumption DEF All
  <1> DEFINE r == list_replace(l, old, new)
             nx == l[old].next
             pv == l[old].prev
             own2 == [own EXCEPT ![new] = own[old]]
             rank2 == [rank EXCEPT ![new] = rank[old]]
  <1>1. \A n \in All : Linked(l, n) => /\ l[n].next \in All /\ l[n].prev \in All
                                       /\ l[l[n].next].prev = n /\ l[l[n].prev].next = n
                                       /\ Linked(l, l[n].next) /\ Linked(l, l[n].prev)
    BY Neighbours DEF Sound
  <1>2. /\ nx \in All /\ pv \in All /\ l[nx].prev = old /\ l[pv].next = old
        /\ Linked(l, nx) /\ Linked(l, pv) /\ old # new /\ nx # new /\ pv # new
    BY <1>1
  <1>3. nx # old /\ pv # old
    BY <1>2 DEF Sound, Rising, Ranks
  <1>4. /\ r \in Links
        /\ \A n \in All :
             /\ r[n].next = IF n = old THEN NULL ELSE IF n = pv THEN new
                            ELSE IF n = new THEN nx ELSE l[n].next
             /\ r[n].prev = IF n = old THEN NULL ELSE IF n = nx THEN new
                            ELSE IF n = new THEN pv ELSE l[n].prev
    BY <1>2, <1>3, ReplaceFields
  <1> HIDE DEF r
  <1>5. \A n \in All : Linked(r, n) => n # old /\ (Linked(l, n) \/ n = new)
    BY <1>2, <1>4 DEF Linked, Unlinked, Links
  <1>6. \A h \in ListHead : Linked(l, h) /\ h # new /\ h # old
    BY Neighbours DEF Sound
  <1>7. \A n \in All : n # pv /\ n # old /\ Linked(l, n) => l[n].next # old /\ l[n].next # new
    BY <1>1
  <1>8. \A n \in All : n # nx /\ n # old /\ Linked(l, n) => l[n].prev # old /\ l[n].prev # new
    BY <1>1
  <1>9. Mutual(r)
    <2> SUFFICES ASSUME NEW n \in All, n \in ListHead \/ Linked(r, n)
                 PROVE  /\ r[n].next \in All /\ r[n].prev \in All
                        /\ r[r[n].next].prev = n /\ r[r[n].prev].next = n
      BY DEF Mutual
    <2>1. CASE n = new
      BY <1>2, <1>3, <1>4, <2>1
    <2>2. CASE n # new
      <3>1. /\ l[n].next \in All /\ l[n].prev \in All /\ Linked(l, n) /\ n # old
            /\ l[l[n].next].prev = n /\ l[l[n].prev].next = n
        BY <1>1, <1>5, <1>6, <2>2
      <3>2. r[n].next \in All /\ r[r[n].next].prev = n
        BY <1>2, <1>3, <1>4, <1>7, <2>2, <3>1
      <3>3. r[n].prev \in All /\ r[r[n].prev].next = n
        BY <1>2, <1>3, <1>4, <1>8, <2>2, <3>1
      <3> QED
        BY <3>2, <3>3
    <2> QED
      BY <2>1, <2>2
  <1>10. own2 \in Owners /\ Owned(r, own2)
    <2>1. own2 \in Owners /\ \A h \in ListHead : own2[h] = h
      BY <1>6 DEF Owners, Sound, Owned
    <2>2. ASSUME NEW n \in All, Linked(r, n) PROVE own2[r[n].next] = own2[n]
      <3>1. own[nx] = own[old] /\ own[old] = own[pv]
        BY <1>2 DEF Sound, Owned
      <3>2. CASE n = new \/ n = pv
        BY <1>2, <1>3, <1>4, <3>1, <3>2 DEF Owners
      <3>3. CASE n # new /\ n # pv
        <4>1. /\ r[n].next = l[n].next /\ l[n].next \in All /\ l[n].next # new
              /\ own[l[n].next] = own[n]
          BY <1>1, <1>4, <1>5, <1>7, <2>2, <3>3 DEF Sound, Owned
        <4> QED
          BY <3>3, <4>1 DEF Owners
      <3> QED
        BY <3>2, <3>3
    <2> QED
      BY <2>1, <2>2 DEF Owned
  <1>11. rank2 \in Ranks /\ Rising(r, rank2)
    <2>1. rank2 \in Ranks
      BY DEF Ranks
    <2>2. ASSUME NEW n \in All, Linked(r, n), r[n].next \notin ListHead
          PROVE  rank2[n] < rank2[r[n].next]
      <3>1. CASE n = new
        <4>1. r[n].next = nx /\ rank[old] < rank[nx]
          BY <1>2, <1>4, <2>2, <3>1 DEF Sound, Rising
        <4> QED
          BY <1>2, <3>1, <4>1 DEF Ranks
      <3>2. CASE n = pv
        <4>1. r[n].next = new /\ rank[pv] < rank[old]
          BY <1>2, <1>3, <1>4, <3>2 DEF Sound, Rising
        <4> QED
          BY <1>2, <3>2, <4>1 DEF Ranks
      <3>3. CASE n # new /\ n # pv
        <4>1. /\ r[n].next = l[n].next /\ l[n].next \in All /\ l[n].next # new
              /\ rank[n] < rank[l[n].next]
          BY <1>1, <1>4, <1>5, <1>7, <2>2, <3>3 DEF Sound, Rising
        <4> QED
          BY <3>3, <4>1 DEF Ranks
      <3> QED
        BY <3>1, <3>2, <3>3
    <2> QED
      BY <2>1, <2>2 DEF Rising
  <1>12. Sound(r, own2, rank2)
    BY <1>4, <1>9, <1>10, <1>11 DEF Sound
  <1> QED
    BY <1>10, <1>11, <1>12 DEF r

-----------------------------------------------------------------------------
(* The steps.  Outside of a walk any witnesses will do.                    *)
LEMMA CallKeeps ==
  ASSUME ListInv, Idling, UNCHANGED walk,
         \E own \in Owners, rank \in Ranks : Sound(links', own, rank)
  PROVE  ListInv'
  BY DEF Idling, ListInv, WalkInside

LEMMA BodyKeeps ==
  ASSUME NEW own \in Owners, NEW rank \in Ranks, Sound(links, own, rank), WalkInside(own), Body
  PROVE  ListInv'
  <1> USE ListAssumption
  <1> DEFINE next == walk.next
  <1>1. /\ walk.list \in ListHead /\ walk.node \in All /\ Linked(links, walk.node)
        /\ next = links[walk.node].next /\ own[walk.node] = walk.list
    BY DEF Body, WalkInside
  <1>2. walk.node \in Node
    BY <1>1 DEF Body, Sound, Owned, All
  <1>3. next \in All /\ Linked(links, next) /\ own[next] = walk.list /\ next # walk.node
    <2>1. next \in All /\ Linked(links, next)
      BY <1>1, Neighbours DEF Sound
    <2>2. own[next] = walk.list
      BY <1>1 DEF Sound, Owned
    <2>3. next # walk.node
      BY <1>1, <1>2, <2>1 DEF Sound, Rising, Ranks
    <2> QED
      BY <2>1, <2>2, <2>3
  <1>4. Sound(links', own, rank) /\ Linked(links', next)
    <2>1. CASE links' = links
      BY <1>3, <2>1
    <2>2. CASE links' = list_remove(links, walk.node)
      BY <1>1, <1>2, <1>3, <2>2, RemoveSound DEF Sound
    <2> QED
      BY <2>1, <2>2 DEF Body
  <1>5. walk' = [walk EXCEPT !.node = next, !.next = links'[next].next]
    BY DEF Body
  <1>6. links'[next].next \in All
    BY <1>3, <1>4, Neighbours DEF Sound
  <1>7. WalkInside(own)'
    BY <1>1, <1>3, <1>4, <1>5, <1>6 DEF WalkInside
  <1> QED
    BY <1>4, <1>7 DEF ListInv

LEMMA InitListInv == ListInit => ListInv
  <1> SUFFICES ASSUME ListInit PROVE ListInv
    OBVIOUS
  <1> USE ListAssumption DEF All
  <1> DEFINE own == [n \in All |-> IF n \in ListHead THEN n ELSE NULL]
             rank == [n \in All |-> 0]
  <1>1. /\ links \in Links
        /\ \A h \in ListHead : links[h].next = h /\ links[h].prev = h
        /\ \A n \in Node : ~Linked(links, n)
    BY DEF ListInit, Links, Unlinked, Linked
  <1>2. Mutual(links)
    BY <1>1 DEF Mutual
  <1>3. Owned(links, own) /\ Rising(links, rank)
    BY <1>1 DEF Owned, Rising
  <1>4. own \in Owners /\ rank \in Ranks
    BY DEF Owners, Ranks
  <1>5. WalkInside(own)
    BY DEF ListInit, NoWalk, WalkInside
  <1> HIDE DEF own, rank
  <1> QED
    BY <1>1, <1>2, <1>3, <1>4, <1>5 DEF ListInv, Sound

LEMMA NextListInv == ListInv /\ [ListNext]_list_vars => ListInv'
  <1> SUFFICES ASSUME ListInv, [ListNext]_list_vars PROVE ListInv'
    OBVIOUS
  <1> USE ListAssumption
  <1>1. PICK own \in Owners, rank \in Ranks : Sound(links, own, rank) /\ WalkInside(own)
    BY DEF ListInv
  <1>2. links \in Links /\ \A h \in ListHead : h \in All /\ Linked(links, h)
    BY <1>1, Neighbours DEF Sound, All
  <1>3. ASSUME NEW node \in All, NEW new \in Node, InsertNodeAfter(node, new) PROVE ListInv'
    BY <1>1, <1>2, <1>3, InsertAfterSound, CallKeeps DEF InsertNodeAfter, Becomes
  <1>4. ASSUME NEW node \in All, NEW new \in Node, InsertNodeBefore(node, new) PROVE ListInv'
    BY <1>1, <1>2, <1>4, InsertBeforeSound, CallKeeps DEF InsertNodeBefore, Becomes
  <1>5. ASSUME NEW node \in Node, RemoveNode(node) PROVE ListInv'
    BY <1>1, <1>2, <1>5, RemoveSound, CallKeeps DEF RemoveNode, Becomes
  <1>6. ASSUME NEW node \in Node, NEW new \in Node, ReplaceNode(node, new) PROVE ListInv'
    BY <1>1, <1>2, <1>6, ReplaceSound, CallKeeps DEF ReplaceNode, Becomes
  <1>7. ASSUME NEW h \in ListHead, ~list_empty(h)
        PROVE  /\ links[h].next \in Node /\ Linked(links, links[h].next)
               /\ links[h].prev \in Node /\ Linked(links, links[h].prev)
    <2>1. /\ links[h].next \in All /\ Linked(links, links[h].next)
          /\ links[h].prev \in All /\ Linked(links, links[h].prev)
          /\ links[links[h].prev].next = h
      BY <1>1, <1>2, Neighbours DEF Sound
    <2>2. own[h] = h /\ own[links[h].next] = h /\ own[links[h].prev] = h
      BY <1>1, <1>2, <2>1 DEF Sound, Owned
    <2>3. links[h].next # h /\ links[h].prev # h
      BY <1>7, <2>1 DEF list_empty
    <2> QED
      BY <1>1, <2>1, <2>2, <2>3 DEF Sound, Owned, All
  <1>8. ASSUME NEW h \in ListHead, list_pop_front(h) \/ list_pop_back(h) PROVE ListInv'
    <2>1. PICK node \in Node : Linked(links, node) /\ links' = list_remove(links, node)
      BY <1>7, <1>8 DEF list_pop_front, list_pop_back, Becomes
    <2> QED
      BY <1>1, <1>2, <1>8, <2>1, RemoveSound, CallKeeps DEF list_pop_front, list_pop_back, Becomes
  <1>9. ASSUME NEW h \in ListHead, BeginWalk(h) PROVE ListInv'
    <2> DEFINE node == links[h].next
    <2>1. node \in All /\ Linked(links, node) /\ own[node] = h
      BY <1>1, <1>2, Neighbours DEF Sound, Owned
    <2>2. links[node].next \in All
      BY <1>1, <1>2, <2>1, Neighbours DEF Sound
    <2>3. walk' = [list |-> h, node |-> node, next |-> links[node].next] /\ links' = links
      BY <1>9 DEF BeginWalk
    <2>4. WalkInside(own)'
      BY <2>1, <2>2, <2>3 DEF WalkInside
    <2> QED
      BY <1>1, <2>3, <2>4 DEF ListInv
  <1>10. CASE Body
    BY <1>1, <1>10, BodyKeeps
  <1>11. CASE EndWalk
    <2>1. WalkInside(own)'
      BY <1>11 DEF EndWalk, NoWalk, WalkInside
    <2> QED
      BY <1>1, <1>11, <2>1 DEF EndWalk, ListInv
  <1>12. CASE UNCHANGED list_vars
    BY <1>1, <1>12 DEF list_vars, ListInv, WalkInside
  <1> QED
    BY <1>3, <1>4, <1>5, <1>6, <1>8, <1>9, <1>10, <1>11, <1>12 DEF ListNext, All

(* The functions of list.h keep every link mutual, for any number of lists *)
(* and nodes, walks that remove nodes included.                            *)
THEOREM LinksStayMutual == ListSpec => []LinksMutual
  <1>1. ListInv => LinksMutual
    BY DEF ListInv, Sound, LinksMutual
  <1> QED
    BY <1>1, InitListInv, NextListInv, PTL DEF ListSpec

(* What is reached from the sentinel h along next, as the members of every *)
(* set that has h and goes along.                                          *)
OnList(h, n) ==
  \A S \in SUBSET All : (h \in S /\ \A m \in S : links[m].next \in S) => n \in S

(* The node that list_for_each_safe gives to its body and the one it goes  *)
(* on with are neighbours in the list that it walks.                       *)
WalkOnList ==
  walk.list # NULL =>
    /\ OnList(walk.list, walk.node) /\ OnList(walk.list, walk.next)
    /\ walk.next = links[walk.node].next /\ links[walk.next].prev = walk.node

(* A node with an owner is reached from it: otherwise the nodes before it  *)
(* would not be either, with ever lower ranks.                             *)
LEMMA OwnerReaches ==
  ASSUME NEW own \in Owners, NEW rank \in Ranks, Sound(links, own, rank),
         NEW h \in ListHead, NEW n \in All, Linked(links, n), own[n] = h
  PROVE  OnList(h, n)
  <1> SUFFICES ASSUME NEW S \in SUBSET All, h \in S, \A m \in S : links[m].next \in S,
                      n \notin S
               PROVE  FALSE
    BY DEF OnList
  <1> DEFINE T == {m \in All : Linked(links, m) /\ own[m] = h /\ m \notin S}
             R == {rank[m] : m \in T}
  <1>1. R \subseteq Nat /\ R # {}
    BY DEF Ranks
  <1>2. PICK low \in R : \A q \in R : ~(<<q, low>> \in OpToRel(<, Nat))
    <2> HIDE DEF R
    <2> QED
      BY <1>1, NatLessThanWellFounded, WFMin
  <1>3. PICK m \in T : rank[m] = low
    BY <1>2
  <1> DEFINE p == links[m].prev
  <1>4. p \in All /\ Linked(links, p) /\ links[p].next = m
    BY <1>3, Neighbours DEF Sound
  <1>5. own[p] = h /\ p \notin S
    BY <1>3, <1>4 DEF Sound, Owned
  <1>6. m \notin ListHead
    BY <1>3 DEF Sound, Owned
  <1>7. rank[p] < rank[m] /\ rank[p] \in R
    BY <1>4, <1>5, <1>6 DEF Sound, Rising
  <1>8. <<rank[p], low>> \in OpToRel(<, Nat)
    BY <1>1, <1>3, <1>7 DEF OpToRel
  <1> QED
    BY <1>2, <1>7, <1>8

(* A walk never leaves its list, whichever of its nodes the body removes:  *)
(* the node that list_for_each_safe has come to and the one after it are   *)
(* linked in it, one after the other.                                      *)
THEOREM WalkStaysInList == ListSpec => []WalkOnList
  <1>1. ListInv => WalkOnList
    <2> SUFFICES ASSUME ListInv, walk.list # NULL
                 PROVE  /\ OnList(walk.list, walk.node) /\ OnList(walk.list, walk.next)
                        /\ walk.next = links[walk.node].next /\ links[walk.next].prev = walk.node
      BY DEF WalkOnList
    <2>1. PICK own \in Owners, rank \in Ranks : Sound(links, own, rank) /\ WalkInside(own)
      BY DEF ListInv
    <2>2. /\ walk.list \in ListHead /\ walk.node \in All /\ Linked(links, walk.node)
          /\ walk.next = links[walk.node].next /\ own[walk.node] = walk.list
      BY <2>1 DEF WalkInside
    <2>3. /\ walk.next \in All /\ Linked(links, walk.next) /\ links[walk.next].prev = walk.node
          /\ own[walk.next] = walk.list
      BY <2>1, <2>2, Neighbours DEF Sound, Owned
    <2> QED
      BY <2>1, <2>2, <2>3, OwnerReaches
  <1> QED
    BY <1>1, InitListInv, NextListInv, PTL DEF ListSpec
=============================================================================
