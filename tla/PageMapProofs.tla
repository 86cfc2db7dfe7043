--------------------------- MODULE PageMapProofs ----------------------------
(***************************************************************************)
(* Proofs about PageMap for every number of dies, blocks, pages and        *)
(* logical pages.  The plan: the victim lists; row addresses; one lemma per*)
(* function of page_map.c saying that it keeps DieInv; then the steps and  *)
(* the theorems about the specification.                                   *)
(***************************************************************************)
EXTENDS PageMapInv, FiniteSetTheorems, WellFoundedInduction, TLAPS

(***************************************************************************)
(* The victim lists: the pointer updates of LinkedList keep a family of    *)
(* lists well formed and move exactly one node, whatever the sets of nodes *)
(* and of lists, and a walk of a well-formed list meets its nodes.         *)
(***************************************************************************)

\* an update of node b leaves the links of nodes on no list alone
SparesOthers(L, U, Nodes, list, b) ==
    \A c \in Nodes : c # b /\ list[c] = NONE
        => U.prev[c] = L.prev[c] /\ U.next[c] = L.next[c]

\* Taking a node off the list it is on leaves a well-formed family in which
\* the node is on no list, and keeps the shape of the tables (the four cases
\* of the unlink code of page_map.c and lru_buffer.c).
THEOREM UnlinkKeepsWellFormed ==
    ASSUME NEW Nodes, NEW Lists, NONE \notin Nodes, NONE \notin Lists,
           NEW L \in ListFamily(Nodes, Lists),
           NEW list \in [Nodes -> Lists \cup {NONE}],
           NEW b \in Nodes, NEW k \in Lists, list[b] = k,
           WellFormed(L, Nodes, Lists, list)
    PROVE  /\ Unlink(L, b, k) \in ListFamily(Nodes, Lists)
           /\ WellFormed(Unlink(L, b, k), Nodes, Lists, [list EXCEPT ![b] = NONE])
           /\ SparesOthers(L, Unlink(L, b, k), Nodes, list, b)
<1> DEFINE U == Unlink(L, b, k)
           p == L.prev[b]
           n == L.next[b]
           new == [list EXCEPT ![b] = NONE]
<1>0. /\ L.prev \in [Nodes -> Nodes \cup {NONE}] /\ L.next \in [Nodes -> Nodes \cup {NONE}]
      /\ L.head \in [Lists -> Nodes \cup {NONE}] /\ L.tail \in [Lists -> Nodes \cup {NONE}]
      /\ p \in Nodes \cup {NONE} /\ n \in Nodes \cup {NONE}
  BY DEF ListFamily
<1>1. /\ U.prev = IF n # NONE THEN [L.prev EXCEPT ![n] = p] ELSE L.prev
      /\ U.next = IF p # NONE THEN [L.next EXCEPT ![p] = n] ELSE L.next
      /\ U.head = IF p = NONE THEN [L.head EXCEPT ![k] = n] ELSE L.head
      /\ U.tail = IF n = NONE THEN [L.tail EXCEPT ![k] = p] ELSE L.tail
  BY DEF Unlink
<1>2. U \in ListFamily(Nodes, Lists)
  BY <1>0 DEF Unlink, ListFamily
<1>3. EndsWellFormed(L, Lists, list) /\ LinksWellFormed(L, Nodes, list)
  BY DEF WellFormed
<1>4. /\ IF p = NONE THEN L.head[k] = b ELSE list[p] = k /\ L.next[p] = b
      /\ IF n = NONE THEN L.tail[k] = b ELSE list[n] = k /\ L.prev[n] = b
  BY <1>3 DEF LinksWellFormed
<1>5. EndsWellFormed(U, Lists, new)
  <2> SUFFICES ASSUME NEW j \in Lists
               PROVE  /\ U.head[j] # NONE => new[U.head[j]] = j /\ U.prev[U.head[j]] = NONE
                      /\ U.tail[j] # NONE => new[U.tail[j]] = j /\ U.next[U.tail[j]] = NONE
                      /\ U.head[j] = NONE <=> U.tail[j] = NONE
    BY DEF EndsWellFormed
  <2>1. /\ L.head[j] # NONE => list[L.head[j]] = j /\ L.prev[L.head[j]] = NONE
        /\ L.tail[j] # NONE => list[L.tail[j]] = j /\ L.next[L.tail[j]] = NONE
    BY <1>3 DEF EndsWellFormed
  <2>2. U.head[j] # NONE => new[U.head[j]] = j /\ U.prev[U.head[j]] = NONE
    BY <1>0, <1>1, <1>4, <2>1, <1>3 DEF LinksWellFormed
  <2>3. U.tail[j] # NONE => new[U.tail[j]] = j /\ U.next[U.tail[j]] = NONE
    BY <1>0, <1>1, <1>4, <2>1, <1>3 DEF LinksWellFormed
  <2>4. U.head[j] = NONE <=> U.tail[j] = NONE
    BY <1>0, <1>1, <1>4, <1>3 DEF EndsWellFormed
  <2> QED BY <2>2, <2>3, <2>4
<1>6. LinksWellFormed(U, Nodes, new)
  <2> SUFFICES ASSUME NEW c \in Nodes, new[c] # NONE
               PROVE  /\ IF U.prev[c] = NONE THEN U.head[new[c]] = c
                         ELSE new[U.prev[c]] = new[c] /\ U.next[U.prev[c]] = c
                      /\ IF U.next[c] = NONE THEN U.tail[new[c]] = c
                         ELSE new[U.next[c]] = new[c] /\ U.prev[U.next[c]] = c
    BY DEF LinksWellFormed
  <2>1. c # b /\ new[c] = list[c]
    OBVIOUS
  <2>2. /\ IF L.prev[c] = NONE THEN L.head[list[c]] = c
           ELSE list[L.prev[c]] = list[c] /\ L.next[L.prev[c]] = c
        /\ IF L.next[c] = NONE THEN L.tail[list[c]] = c
           ELSE list[L.next[c]] = list[c] /\ L.prev[L.next[c]] = c
    BY <1>3, <2>1 DEF LinksWellFormed
  <2>3. IF U.prev[c] = NONE THEN U.head[new[c]] = c
        ELSE new[U.prev[c]] = new[c] /\ U.next[U.prev[c]] = c
    BY <1>0, <1>1, <1>4, <2>1, <2>2
  <2>4. IF U.next[c] = NONE THEN U.tail[new[c]] = c
        ELSE new[U.next[c]] = new[c] /\ U.prev[U.next[c]] = c
    BY <1>0, <1>1, <1>4, <2>1, <2>2
  <2> QED BY <2>3, <2>4
<1>7. SparesOthers(L, U, Nodes, list, b)
  BY <1>0, <1>1, <1>4 DEF SparesOthers
<1>8. NoRing(U, Nodes, new)
  <2> SUFFICES ASSUME NEW S \in SUBSET {c \in Nodes : new[c] # NONE}, S # {}
               PROVE  \E c \in S : U.prev[c] \notin S
    BY DEF NoRing
  <2> DEFINE T == IF p \in S /\ n \in S THEN S \cup {b} ELSE S
  <2>1. b \notin S /\ \A c \in S : c \in Nodes /\ list[c] # NONE
    OBVIOUS
  <2>2. T \in SUBSET {c \in Nodes : list[c] # NONE} /\ T # {}
    BY <2>1, NONE \notin Lists
  <2>3. PICK c \in T : L.prev[c] \notin T
    BY <2>2 DEF WellFormed, NoRing
  <2>4. c # b
    BY <2>1, <2>3
  <2>5. c \in S /\ L.prev[c] \notin S
    BY <2>3, <2>4
  <2>6. U.prev[c] = IF c = n THEN p ELSE L.prev[c]
    BY <1>0, <1>1, <2>1, <2>5
  <2>7. c = n => p \notin S
    BY <1>4, <2>1, <2>3, <2>5
  <2> QED BY <2>5, <2>6, <2>7
<1> QED BY <1>2, <1>5, <1>6, <1>7, <1>8 DEF WellFormed

\* Appending a node that is on no list puts it, and nothing else, on the list
\* (the insertion code of UpdateMetaForInvalidate).
THEOREM LinkTailKeepsWellFormed ==
    ASSUME NEW Nodes, NEW Lists, NONE \notin Nodes, NONE \notin Lists,
           NEW L \in ListFamily(Nodes, Lists),
           NEW list \in [Nodes -> Lists \cup {NONE}],
           NEW b \in Nodes, NEW k \in Lists, list[b] = NONE,
           WellFormed(L, Nodes, Lists, list)
    PROVE  /\ LinkTail(L, b, k) \in ListFamily(Nodes, Lists)
           /\ WellFormed(LinkTail(L, b, k), Nodes, Lists, [list EXCEPT ![b] = k])
           /\ SparesOthers(L, LinkTail(L, b, k), Nodes, list, b)
<1> DEFINE U == LinkTail(L, b, k)
           e == L.tail[k]
           new == [list EXCEPT ![b] = k]
<1>0. /\ L.prev \in [Nodes -> Nodes \cup {NONE}] /\ L.next \in [Nodes -> Nodes \cup {NONE}]
      /\ L.head \in [Lists -> Nodes \cup {NONE}] /\ L.tail \in [Lists -> Nodes \cup {NONE}]
      /\ e \in Nodes \cup {NONE}
  BY DEF ListFamily
<1>1. /\ U.prev = [L.prev EXCEPT ![b] = e]
      /\ U.next = IF e # NONE THEN [L.next EXCEPT ![b] = NONE, ![e] = b]
                              ELSE [L.next EXCEPT ![b] = NONE]
      /\ U.head = IF e = NONE THEN [L.head EXCEPT ![k] = b] ELSE L.head
      /\ U.tail = [L.tail EXCEPT ![k] = b]
  BY DEF LinkTail
<1>2. U \in ListFamily(Nodes, Lists)
  BY <1>0 DEF LinkTail, ListFamily
<1>3. EndsWellFormed(L, Lists, list) /\ LinksWellFormed(L, Nodes, list)
  BY DEF WellFormed
<1>4. e # NONE => e # b /\ list[e] = k /\ L.next[e] = NONE
  BY <1>3 DEF EndsWellFormed
<1>5. ASSUME NEW c \in Nodes, list[c] # NONE
      PROVE  /\ L.prev[c] # b /\ L.next[c] # b
             /\ IF L.prev[c] = NONE THEN L.head[list[c]] = c
                ELSE list[L.prev[c]] = list[c] /\ L.next[L.prev[c]] = c
             /\ IF L.next[c] = NONE THEN L.tail[list[c]] = c
                ELSE list[L.next[c]] = list[c] /\ L.prev[L.next[c]] = c
  BY <1>0, <1>3, <1>5 DEF LinksWellFormed
<1>6. EndsWellFormed(U, Lists, new)
  <2> SUFFICES ASSUME NEW j \in Lists
               PROVE  /\ U.head[j] # NONE => new[U.head[j]] = j /\ U.prev[U.head[j]] = NONE
                      /\ U.tail[j] # NONE => new[U.tail[j]] = j /\ U.next[U.tail[j]] = NONE
                      /\ U.head[j] = NONE <=> U.tail[j] = NONE
    BY DEF EndsWellFormed
  <2>1. /\ L.head[j] # NONE => L.head[j] # b /\ list[L.head[j]] = j /\ L.prev[L.head[j]] = NONE
        /\ L.tail[j] # NONE => L.tail[j] # b /\ list[L.tail[j]] = j /\ L.next[L.tail[j]] = NONE
    BY <1>3 DEF EndsWellFormed
  <2>2. U.head[j] # NONE => new[U.head[j]] = j /\ U.prev[U.head[j]] = NONE
    BY <1>0, <1>1, <1>4, <1>5, <2>1
  <2>3. U.tail[j] # NONE => new[U.tail[j]] = j /\ U.next[U.tail[j]] = NONE
    BY <1>0, <1>1, <1>4, <1>5, <2>1
  <2>4. U.head[j] = NONE <=> U.tail[j] = NONE
    BY <1>0, <1>1, <1>3 DEF EndsWellFormed
  <2> QED BY <2>2, <2>3, <2>4
<1>7. LinksWellFormed(U, Nodes, new)
  <2> SUFFICES ASSUME NEW c \in Nodes, new[c] # NONE
               PROVE  /\ IF U.prev[c] = NONE THEN U.head[new[c]] = c
                         ELSE new[U.prev[c]] = new[c] /\ U.next[U.prev[c]] = c
                      /\ IF U.next[c] = NONE THEN U.tail[new[c]] = c
                         ELSE new[U.next[c]] = new[c] /\ U.prev[U.next[c]] = c
    BY DEF LinksWellFormed
  <2>1. CASE c = b
    BY <1>0, <1>1, <1>4, <1>5, <2>1
  <2>2. CASE c # b
    <3>1. new[c] = list[c] /\ list[c] # NONE
      BY <2>2
    <3>4. L.head[k] = NONE <=> e = NONE
      BY <1>3 DEF EndsWellFormed
    <3>5. e # NONE => L.prev[c] # e
      BY <1>4, <1>5, <2>2, <3>1
    <3>2. IF U.prev[c] = NONE THEN U.head[new[c]] = c
          ELSE new[U.prev[c]] = new[c] /\ U.next[U.prev[c]] = c
      BY <1>0, <1>1, <1>4, <1>5, <2>2, <3>1, <3>4, <3>5
    <3>3. IF U.next[c] = NONE THEN U.tail[new[c]] = c
          ELSE new[U.next[c]] = new[c] /\ U.prev[U.next[c]] = c
      BY <1>0, <1>1, <1>4, <1>5, <2>2, <3>1, <3>4, <3>5
    <3> QED BY <3>2, <3>3
  <2> QED BY <2>1, <2>2
<1>8. SparesOthers(L, U, Nodes, list, b)
  BY <1>0, <1>1, <1>4 DEF SparesOthers
<1>9. NoRing(U, Nodes, new)
  <2> SUFFICES ASSUME NEW S \in SUBSET {c \in Nodes : new[c] # NONE}, S # {}
               PROVE  \E c \in S : U.prev[c] \notin S
    BY DEF NoRing
  <2>1. \A c \in S : c \in Nodes /\ (c # b => list[c] # NONE /\ U.prev[c] = L.prev[c])
    BY <1>0, <1>1
  <2>2. CASE S = {b}
    BY <1>0, <1>1, <1>4, <2>2
  <2>3. CASE S # {b}
    <3>1. S \ {b} \in SUBSET {c \in Nodes : list[c] # NONE} /\ S \ {b} # {}
      BY <2>1, <2>3
    <3>2. PICK c \in S \ {b} : L.prev[c] \notin S \ {b}
      BY <3>1 DEF WellFormed, NoRing
    <3>3. L.prev[c] # b
      BY <1>5, <2>1, <3>2
    <3> QED BY <2>1, <3>2, <3>3
  <2> QED BY <2>2, <2>3
<1> QED BY <1>2, <1>6, <1>7, <1>8, <1>9 DEF WellFormed

\* Prepending a node that is on no list puts it, and nothing else, on the list
\* (the insertion code of lru_buffer.c).
THEOREM LinkHeadKeepsWellFormed ==
    ASSUME NEW Nodes, NEW Lists, NONE \notin Nodes, NONE \notin Lists,
           NEW L \in ListFamily(Nodes, Lists),
           NEW list \in [Nodes -> Lists \cup {NONE}],
           NEW b \in Nodes, NEW k \in Lists, list[b] = NONE,
           WellFormed(L, Nodes, Lists, list)
    PROVE  /\ LinkHead(L, b, k) \in ListFamily(Nodes, Lists)
           /\ WellFormed(LinkHead(L, b, k), Nodes, Lists, [list EXCEPT ![b] = k])
           /\ SparesOthers(L, LinkHead(L, b, k), Nodes, list, b)
<1> DEFINE U == LinkHead(L, b, k)
           e == L.head[k]
           new == [list EXCEPT ![b] = k]
<1>0. /\ L.prev \in [Nodes -> Nodes \cup {NONE}] /\ L.next \in [Nodes -> Nodes \cup {NONE}]
      /\ L.head \in [Lists -> Nodes \cup {NONE}] /\ L.tail \in [Lists -> Nodes \cup {NONE}]
      /\ e \in Nodes \cup {NONE}
  BY DEF ListFamily
<1>1. /\ U.prev = IF e # NONE THEN [L.prev EXCEPT ![b] = NONE, ![e] = b]
                              ELSE [L.prev EXCEPT ![b] = NONE]
      /\ U.next = [L.next EXCEPT ![b] = e]
      /\ U.head = [L.head EXCEPT ![k] = b]
      /\ U.tail = IF e = NONE THEN [L.tail EXCEPT ![k] = b] ELSE L.tail
  BY DEF LinkHead
<1>2. U \in ListFamily(Nodes, Lists)
  BY <1>0 DEF LinkHead, ListFamily
<1>3. EndsWellFormed(L, Lists, list) /\ LinksWellFormed(L, Nodes, list)
  BY DEF WellFormed
<1>4. e # NONE => e # b /\ list[e] = k /\ L.prev[e] = NONE
  BY <1>3 DEF EndsWellFormed
<1>5. ASSUME NEW c \in Nodes, list[c] # NONE
      PROVE  /\ L.prev[c] # b /\ L.next[c] # b
             /\ IF L.prev[c] = NONE THEN L.head[list[c]] = c
                ELSE list[L.prev[c]] = list[c] /\ L.next[L.prev[c]] = c
             /\ IF L.next[c] = NONE THEN L.tail[list[c]] = c
                ELSE list[L.next[c]] = list[c] /\ L.prev[L.next[c]] = c
  BY <1>0, <1>3, <1>5 DEF LinksWellFormed
<1>6. EndsWellFormed(U, Lists, new)
  <2> SUFFICES ASSUME NEW j \in Lists
               PROVE  /\ U.head[j] # NONE => new[U.head[j]] = j /\ U.prev[U.head[j]] = NONE
                      /\ U.tail[j] # NONE => new[U.tail[j]] = j /\ U.next[U.tail[j]] = NONE
                      /\ U.head[j] = NONE <=> U.tail[j] = NONE
    BY DEF EndsWellFormed
  <2>1. /\ L.head[j] # NONE => L.head[j] # b /\ list[L.head[j]] = j /\ L.prev[L.head[j]] = NONE
        /\ L.tail[j] # NONE => L.tail[j] # b /\ list[L.tail[j]] = j /\ L.next[L.tail[j]] = NONE
    BY <1>3 DEF EndsWellFormed
  <2>2. U.head[j] # NONE => new[U.head[j]] = j /\ U.prev[U.head[j]] = NONE
    BY <1>0, <1>1, <1>4, <1>5, <2>1
  <2>3. U.tail[j] # NONE => new[U.tail[j]] = j /\ U.next[U.tail[j]] = NONE
    BY <1>0, <1>1, <1>4, <1>5, <2>1
  <2>4. U.head[j] = NONE <=> U.tail[j] = NONE
    BY <1>0, <1>1, <1>3 DEF EndsWellFormed
  <2> QED BY <2>2, <2>3, <2>4
<1>7. LinksWellFormed(U, Nodes, new)
  <2> SUFFICES ASSUME NEW c \in Nodes, new[c] # NONE
               PROVE  /\ IF U.prev[c] = NONE THEN U.head[new[c]] = c
                         ELSE new[U.prev[c]] = new[c] /\ U.next[U.prev[c]] = c
                      /\ IF U.next[c] = NONE THEN U.tail[new[c]] = c
                         ELSE new[U.next[c]] = new[c] /\ U.prev[U.next[c]] = c
    BY DEF LinksWellFormed
  <2>1. CASE c = b
    BY <1>0, <1>1, <1>4, <1>5, <2>1
  <2>2. CASE c # b
    <3>1. new[c] = list[c] /\ list[c] # NONE
      BY <2>2
    <3>4. L.tail[k] = NONE <=> e = NONE
      BY <1>3 DEF EndsWellFormed
    <3>5. e # NONE => L.next[c] # e
      BY <1>4, <1>5, <2>2, <3>1
    <3>2. IF U.prev[c] = NONE THEN U.head[new[c]] = c
          ELSE new[U.prev[c]] = new[c] /\ U.next[U.prev[c]] = c
      BY <1>0, <1>1, <1>4, <1>5, <2>2, <3>1, <3>4, <3>5
    <3>3. IF U.next[c] = NONE THEN U.tail[new[c]] = c
          ELSE new[U.next[c]] = new[c] /\ U.prev[U.next[c]] = c
      BY <1>0, <1>1, <1>4, <1>5, <2>2, <3>1, <3>4, <3>5
    <3> QED BY <3>2, <3>3
  <2> QED BY <2>1, <2>2
<1>8. SparesOthers(L, U, Nodes, list, b)
  BY <1>0, <1>1, <1>4 DEF SparesOthers
<1>9. NoRing(U, Nodes, new)
  <2> SUFFICES ASSUME NEW S \in SUBSET {c \in Nodes : new[c] # NONE}, S # {}
               PROVE  \E c \in S : U.prev[c] \notin S
    BY DEF NoRing
  <2>1. CASE b \in S
    <3>1. U.prev[b] = NONE /\ NONE \notin S
      BY <1>0, <1>1, <1>4
    <3> QED BY <2>1, <3>1
  <2>2. CASE b \notin S
    <3>1. S \in SUBSET {c \in Nodes : list[c] # NONE}
      BY <2>2
    <3>2. PICK c \in S : L.prev[c] \notin S
      BY <3>1 DEF WellFormed, NoRing
    <3>3. c \in Nodes /\ U.prev[c] = IF c = e THEN b ELSE L.prev[c]
      BY <1>0, <1>1, <2>2, <3>1, <3>2
    <3> QED BY <2>2, <3>2, <3>3
  <2> QED BY <2>1, <2>2
<1> QED BY <1>2, <1>6, <1>7, <1>8, <1>9 DEF WellFormed

\* Dropping the head of a list is taking that node off it, although the code
\* of GarbageCollection does not look at the node's prev link.
THEOREM PopHeadIsUnlink ==
    ASSUME NEW Nodes, NEW Lists, NONE \notin Nodes, NONE \notin Lists,
           NEW L \in ListFamily(Nodes, Lists),
           NEW list \in [Nodes -> Lists \cup {NONE}],
           NEW k \in Lists, L.head[k] # NONE,
           WellFormed(L, Nodes, Lists, list)
    PROVE  PopHead(L, k) = Unlink(L, L.head[k], k)
<1>1. L.prev[L.head[k]] = NONE
  BY DEF WellFormed, EndsWellFormed
<1>2. L = [prev |-> L.prev, next |-> L.next, head |-> L.head, tail |-> L.tail]
  BY DEF ListFamily
<1>3. L.head \in [Lists -> Nodes \cup {NONE}] /\ L.tail \in [Lists -> Nodes \cup {NONE}]
  BY DEF ListFamily
<1> QED BY <1>1, <1>2, <1>3 DEF PopHead, Unlink

\* A nonempty set of numbers has a least one.
LEMMA LeastNumber ==
    ASSUME NEW N \in SUBSET Nat, N # {}
    PROVE  \E m \in N : \A n \in N : m <= n
<1> DEFINE R == OpToRel(<, Nat)
<1>1. R = {pair \in Nat \X Nat : pair[1] < pair[2]}
  BY DEF OpToRel
<1>2. IsWellFoundedOn(R, Nat)
  BY NatLessThanWellFounded
<1> HIDE DEF R
<1>3. PICK m \in N : \A n \in N : ~ (<<n, m>> \in R)
  BY <1>2, WFMin
<1>4. ASSUME NEW n \in N PROVE m <= n
  <2>1. m \in Nat /\ n \in Nat /\ ~ (<<n, m>> \in R)
    BY <1>3
  <2>2. ~ (n < m)
    BY <1>1, <2>1
  <2> QED BY <2>1, <2>2
<1> QED BY <1>4

\* The walk of Reachable starts at the head and follows the next links until
\* it falls off the list.
LEMMA WalkSteps ==
    ASSUME NEW Nodes, NEW L, NEW k, Cardinality(Nodes) \in Nat
    PROVE  \E node :
              /\ Reachable(L, Nodes, k) = {node[i] : i \in 0 .. Cardinality(Nodes)} \ {NONE}
              /\ node[0] = L.head[k]
              /\ \A i \in 1 .. Cardinality(Nodes) :
                    node[i] = IF node[i - 1] = NONE THEN NONE ELSE L.next[node[i - 1]]
<1> DEFINE last == Cardinality(Nodes)
           Walk(n, g) == g = [i \in 0 .. n |->
                                 IF i = 0 THEN L.head[k]
                                 ELSE IF g[i - 1] = NONE THEN NONE ELSE L.next[g[i - 1]]]
           none == {n \in 0 .. last : ~ \E g : Walk(n, g)}
<1> HIDE DEF last
<1>1. last \in Nat
  BY DEF last
<1>2. none = {}
  <2> SUFFICES ASSUME none # {} PROVE FALSE
    OBVIOUS
  <2>1. none \in SUBSET Nat
    BY <1>1
  <2>2. PICK n \in none : \A m \in none : n <= m
    <3> HIDE DEF none
    <3> QED BY <2>1, LeastNumber
  <2>3. n \in Nat /\ n <= last /\ ~ \E g : Walk(n, g)
    BY <1>1, <2>2
  <2>4. CASE n = 0
    <3> DEFINE g == [i \in 0 .. 0 |-> L.head[k]]
    <3>1. g = [i \in 0 .. 0 |-> IF i = 0 THEN L.head[k]
                                ELSE IF g[i - 1] = NONE THEN NONE ELSE L.next[g[i - 1]]]
      <4>1. \A i \in 0 .. 0 : i = 0
        OBVIOUS
      <4> QED BY <4>1
    <3> QED BY <2>3, <2>4, <3>1
  <2>5. CASE n # 0
    <3>1. n - 1 \in 0 .. last /\ ~ (n <= n - 1) /\ n - 1 \in Nat
      BY <1>1, <2>3, <2>5
    <3>2. n - 1 \notin none
      BY <2>2, <3>1
    <3>3. PICK g : Walk(n - 1, g)
      BY <3>1, <3>2
    <3> DEFINE h == [i \in 0 .. n |->
                        IF i = n THEN IF g[n - 1] = NONE THEN NONE ELSE L.next[g[n - 1]]
                        ELSE g[i]]
    <3>4. ASSUME NEW i \in 0 .. n
          PROVE  h[i] = IF i = 0 THEN L.head[k]
                        ELSE IF h[i - 1] = NONE THEN NONE ELSE L.next[h[i - 1]]
      <4>1. CASE i = n
        <5>1. n - 1 \in 0 .. n /\ n - 1 # n /\ n \in 0 .. n
          BY <2>3, <3>1
        <5>2. h[n - 1] = g[n - 1]
              /\ h[n] = IF g[n - 1] = NONE THEN NONE ELSE L.next[g[n - 1]]
          BY <5>1
        <5> HIDE DEF h
        <5> QED BY <2>5, <4>1, <5>2
      <4>2. CASE i # n
        <5>1. i \in 0 .. n - 1 /\ (i # 0 => i - 1 \in 0 .. n /\ i - 1 # n)
          BY <2>3, <4>2
        <5>2. h[i] = g[i] /\ (i # 0 => h[i - 1] = g[i - 1])
          BY <4>2, <5>1
        <5>3. g[i] = IF i = 0 THEN L.head[k]
                     ELSE IF g[i - 1] = NONE THEN NONE ELSE L.next[g[i - 1]]
          BY <3>3, <5>1
        <5> HIDE DEF h
        <5> QED BY <5>2, <5>3
      <4> QED BY <4>1, <4>2
    <3>5. h = [i \in 0 .. n |-> h[i]]
      OBVIOUS
    <3>6. Walk(n, h)
      <4> HIDE DEF h
      <4> QED BY <3>4, <3>5
    <3> QED BY <2>3, <3>6
  <2> QED BY <2>4, <2>5
<1>3. \E g : Walk(last, g)
  <2>1. last \in 0 .. last
    BY <1>1
  <2> QED BY <1>2, <2>1
<1> DEFINE node == CHOOSE g : Walk(last, g)
<1>4. Walk(last, node)
  BY <1>3
<1>5. Reachable(L, Nodes, k) = {node[i] : i \in 0 .. last} \ {NONE}
  BY DEF Reachable, last
<1> HIDE DEF node
<1>6. node[0] = L.head[k]
  <2>1. 0 \in 0 .. last
    BY <1>1
  <2> QED BY <1>4, <2>1
<1>7. ASSUME NEW i \in 1 .. last
      PROVE  node[i] = IF node[i - 1] = NONE THEN NONE ELSE L.next[node[i - 1]]
  <2>1. i \in 0 .. last /\ i # 0
    BY <1>1
  <2> QED BY <1>4, <2>1
<1> QED BY <1>5, <1>6, <1>7 DEF last

\* Walking a well-formed list from its head meets its nodes, all of them and
\* no others.
THEOREM WalkMeetsList ==
    ASSUME NEW Nodes, NEW Lists, NONE \notin Nodes, NONE \notin Lists, IsFiniteSet(Nodes),
           NEW L \in ListFamily(Nodes, Lists),
           NEW list \in [Nodes -> Lists \cup {NONE}],
           NEW k \in Lists,
           WellFormed(L, Nodes, Lists, list)
    PROVE  Reachable(L, Nodes, k) = {b \in Nodes : list[b] = k}
<1> DEFINE N == Cardinality(Nodes)
           On == {b \in Nodes : list[b] = k}
<1>0. /\ L.prev \in [Nodes -> Nodes \cup {NONE}] /\ L.next \in [Nodes -> Nodes \cup {NONE}]
      /\ L.head \in [Lists -> Nodes \cup {NONE}]
      /\ EndsWellFormed(L, Lists, list) /\ LinksWellFormed(L, Nodes, list)
      /\ NoRing(L, Nodes, list)
  BY DEF ListFamily, WellFormed
<1>1. N \in Nat
  BY FS_CardinalityType
<1>2. PICK node : /\ Reachable(L, Nodes, k) = {node[i] : i \in 0 .. N} \ {NONE}
                  /\ node[0] = L.head[k]
                  /\ \A i \in 1 .. N :
                        node[i] = IF node[i - 1] = NONE THEN NONE ELSE L.next[node[i - 1]]
  BY <1>1, WalkSteps
<1> HIDE DEF N
<1>3. ASSUME NEW b \in On
      PROVE  /\ b # NONE /\ b \in Nodes /\ list[b] = k /\ k # NONE
             /\ IF L.prev[b] = NONE THEN L.head[k] = b
                ELSE L.prev[b] \in On /\ L.next[L.prev[b]] = b
             /\ L.next[b] # NONE => L.next[b] \in On /\ L.prev[L.next[b]] = b
  BY <1>0 DEF LinksWellFormed
\* the walk stays on the list, and goes back along the prev links
<1>4. ASSUME NEW i \in 0 .. N
      PROVE  /\ node[i] # NONE => node[i] \in On
             /\ node[i] # NONE /\ i = 0 => L.prev[node[i]] = NONE
             /\ node[i] # NONE /\ i # 0 => node[i - 1] \in On /\ L.prev[node[i]] = node[i - 1]
  <2> DEFINE off == {n \in 0 .. N : node[n] # NONE /\ node[n] \notin On}
  <2>1. off = {}
    <3> SUFFICES ASSUME off # {} PROVE FALSE
      OBVIOUS
    <3>1. off \in SUBSET Nat
      BY <1>1
    <3>2. PICK n \in off : \A m \in off : n <= m
      <4> HIDE DEF off
      <4> QED BY <3>1, LeastNumber
    <3>3. n # 0
      BY <1>0, <1>2, <3>2 DEF EndsWellFormed
    <3>4. n \in 1 .. N /\ n - 1 \in 0 .. N /\ ~ (n <= n - 1)
      BY <1>1, <3>2, <3>3
    <3>5. n - 1 \notin off
      BY <3>2, <3>4
    <3>6. node[n - 1] # NONE /\ node[n] = L.next[node[n - 1]]
      BY <1>2, <3>2, <3>4
    <3>7. node[n - 1] \in On
      BY <3>4, <3>5, <3>6
    <3> QED BY <1>3, <3>2, <3>6, <3>7
  <2>2. node[i] # NONE => node[i] \in On
    BY <2>1
  <2>3. node[i] # NONE /\ i = 0 => L.prev[node[i]] = NONE
    BY <1>0, <1>2 DEF EndsWellFormed
  <2>4. ASSUME node[i] # NONE, i # 0 PROVE node[i - 1] \in On /\ L.prev[node[i]] = node[i - 1]
    <3>1. i \in 1 .. N /\ i - 1 \in 0 .. N
      BY <1>1, <2>4
    <3>2. node[i - 1] # NONE /\ node[i] = L.next[node[i - 1]]
      BY <1>2, <2>4, <3>1
    <3>3. node[i - 1] \in On
      BY <2>1, <3>1, <3>2
    <3> QED BY <1>3, <2>4, <3>2, <3>3
  <2> QED BY <2>2, <2>3, <2>4
\* the nodes it meets are different, or they would lie on a ring
<1>5. ASSUME NEW i \in 0 .. N, NEW j \in 0 .. N, i < j, node[j] # NONE
      PROVE  node[i] # node[j]
  <2> SUFFICES ASSUME node[i] = node[j] PROVE FALSE
    OBVIOUS
  <2> DEFINE S == {c \in On : \E m \in 0 .. N : i < m /\ m <= j /\ c = node[m]}
  <2>1. node[j] \in S
    BY <1>1, <1>4, <1>5
  <2>2. S \in SUBSET {b \in Nodes : list[b] # NONE} /\ S # {}
    BY <1>3, <2>1
  <2>3. PICK c \in S : L.prev[c] \notin S
    BY <1>0, <2>2 DEF NoRing
  <2>4. PICK m \in 0 .. N : i < m /\ m <= j /\ c = node[m] /\ c \in On
    BY <2>3
  <2>5. m # 0 /\ node[m] # NONE /\ m - 1 \in 0 .. N /\ i <= m - 1 /\ m - 1 <= j
    BY <1>1, <1>3, <2>4
  <2>6. L.prev[c] = node[m - 1] /\ node[m - 1] \in On
    BY <1>4, <2>4, <2>5
  <2>7. CASE m - 1 = i
    BY <2>1, <2>3, <2>6, <2>7
  <2>8. CASE m - 1 # i
    <3>1. i < m - 1
      BY <1>1, <2>5, <2>8
    <3> QED BY <2>3, <2>5, <2>6, <3>1
  <2> QED BY <2>7, <2>8
\* so it has fallen off the list after as many steps as there are nodes
<1>6. node[N] = NONE
  <2> SUFFICES ASSUME node[N] # NONE PROVE FALSE
    OBVIOUS
  <2> DEFINE off == {n \in 0 .. N : node[N - n] = NONE}
  <2>1. off = {}
    <3> SUFFICES ASSUME off # {} PROVE FALSE
      OBVIOUS
    <3>1. off \in SUBSET Nat
      BY <1>1
    <3>2. PICK n \in off : \A m \in off : n <= m
      <4> HIDE DEF off
      <4> QED BY <3>1, LeastNumber
    <3>3. n # 0
      BY <1>1, <3>2
    <3>4. n - 1 \in 0 .. N /\ ~ (n <= n - 1) /\ N - (n - 1) \in 1 .. N
          /\ (N - (n - 1)) - 1 = N - n
      BY <1>1, <3>2, <3>3
    <3> DEFINE q == N - (n - 1)
    <3>5. q \in 1 .. N /\ node[q - 1] = NONE
      BY <3>2, <3>4
    <3>6. node[q] = NONE
      <4> HIDE DEF q
      <4> QED BY <1>2, <3>5
    <3>7. n - 1 \in off
      BY <3>4, <3>6
    <3> QED BY <3>2, <3>4, <3>7
  <2>2. \A i \in 0 .. N : node[i] # NONE
    <3> SUFFICES ASSUME NEW i \in 0 .. N, node[i] = NONE PROVE FALSE
      OBVIOUS
    <3>1. N - i \in 0 .. N /\ N - (N - i) = i
      BY <1>1
    <3>2. N - i \in off
      BY <3>1
    <3> QED BY <2>1, <3>2
  <2> DEFINE f == [i \in 0 .. N |-> node[i]]
  <2>3. f \in [0 .. N -> Nodes]
    BY <1>3, <1>4, <2>2
  <2>4. f \in Injection(0 .. N, Nodes)
    <3>1. \A i \in 0 .. N, j \in 0 .. N : i < j => f[i] # f[j]
      BY <1>5, <2>2
    <3>2. \A i \in 0 .. N, j \in 0 .. N : i = j \/ i < j \/ j < i
      BY <1>1
    <3>3. \A i \in 0 .. N, j \in 0 .. N : f[i] = f[j] => i = j
      BY <3>1, <3>2
    <3> HIDE DEF f
    <3> QED BY <2>3, <3>3 DEF Injection, IsInjective
  <2>5. IsFiniteSet(0 .. N) /\ Cardinality(0 .. N) = N + 1
    BY <1>1, FS_Interval
  <2>6. Cardinality(0 .. N) <= Cardinality(Nodes)
    BY <2>4, FS_Injection
  <2> QED BY <1>1, <2>5, <2>6 DEF N
\* and nothing on the list is left out
<1>7. ASSUME NEW b \in On PROVE \E i \in 0 .. N : node[i] = b
  <2> DEFINE S == {c \in On : \A i \in 0 .. N : node[i] # c}
  <2> SUFFICES ASSUME S # {} PROVE FALSE
    OBVIOUS
  <2>1. S \in SUBSET {c \in Nodes : list[c] # NONE}
    BY <1>3
  <2>2. PICK c \in S : L.prev[c] \notin S
    BY <1>0, <2>1 DEF NoRing
  <2>3. c \in On /\ \A i \in 0 .. N : node[i] # c
    BY <2>2
  <2>4. CASE L.prev[c] = NONE
    BY <1>1, <1>2, <1>3, <2>3, <2>4
  <2>5. CASE L.prev[c] # NONE
    <3>1. L.prev[c] \in On /\ L.next[L.prev[c]] = c
      BY <1>3, <2>3, <2>5
    <3>2. PICK i \in 0 .. N : node[i] = L.prev[c]
      BY <2>2, <3>1
    <3>3. i # N
      BY <1>6, <2>5, <3>2
    <3>4. i + 1 \in 1 .. N /\ (i + 1) - 1 = i /\ i + 1 \in 0 .. N
      BY <1>1, <3>3
    <3> DEFINE m == i + 1
    <3>5. m \in 1 .. N /\ node[m - 1] = L.prev[c] /\ m \in 0 .. N
      BY <3>2, <3>4
    <3> HIDE DEF m
    <3>6. node[m] = c
      BY <1>2, <2>5, <3>1, <3>5
    <3> QED BY <2>3, <3>5, <3>6
  <2> QED BY <2>4, <2>5
<1> QED BY <1>2, <1>3, <1>4, <1>7

(***************************************************************************)
(* Row addresses and the 16-bit page counter.                              *)
(***************************************************************************)

\* A row address determines its block and its offset.
LEMMA RowInjective ==
    ASSUME NEW b \in Blocks, NEW c \in Blocks, NEW i \in Offsets, NEW j \in Offsets,
           Row(b, i) = Row(c, j)
    PROVE  b = c /\ i = j
<1> DEFINE P == PAGE_NUM_PER_BLOCK
<1>0. /\ P \in Nat /\ P >= 1 /\ b \in Nat /\ c \in Nat /\ i \in Nat /\ j \in Nat
      /\ i < P /\ j < P /\ b * P + i = c * P + j
  BY GeometryAssumption DEF Blocks, Offsets, Row
<1> HIDE DEF P
<1>1. ~(b < c)
  <2>1. ASSUME b + 1 <= c PROVE (b + 1) * P <= c * P
    BY <1>0, <2>1
  <2>2. (b + 1) * P = b * P + P
    BY <1>0
  <2>3. b * P \in Nat /\ c * P \in Nat
    BY <1>0
  <2> QED BY <1>0, <2>1, <2>2, <2>3
<1>2. ~(c < b)
  <2>1. ASSUME c + 1 <= b PROVE (c + 1) * P <= b * P
    BY <1>0, <2>1
  <2>2. (c + 1) * P = c * P + P
    BY <1>0
  <2>3. b * P \in Nat /\ c * P \in Nat
    BY <1>0
  <2> QED BY <1>0, <2>1, <2>2, <2>3
<1>3. b = c
  BY <1>0, <1>1, <1>2
<1>4. b * P \in Nat
  BY <1>0
<1> QED BY <1>0, <1>3, <1>4

\* Rows and pairs of a block and an offset are the same thing.
LEMMA RowFacts ==
    /\ \A b \in Blocks, i \in Offsets : Row(b, i) \in Rows /\ BlockOf(Row(b, i)) = b
    /\ \A p \in Rows : BlockOf(p) \in Blocks /\ \E i \in Offsets : p = Row(BlockOf(p), i)
    /\ \A b \in Blocks, i \in Offsets, j \in Counts : Row(b, i) < Row(b, j) <=> i < j
<1> DEFINE P == PAGE_NUM_PER_BLOCK
           N == BLOCK_NUM_PER_DIE
<1>0. P \in Nat /\ P >= 1 /\ N \in Nat /\ N >= 1
  BY GeometryAssumption
<1>1. ASSUME NEW b \in Blocks, NEW i \in Offsets
      PROVE  Row(b, i) \in Rows /\ BlockOf(Row(b, i)) = b
  <2>0. b \in Nat /\ b + 1 <= N /\ i \in Nat /\ i < P
    BY <1>0 DEF Blocks, Offsets
  <2> HIDE DEF P, N
  <2>1. (b + 1) * P <= N * P
    BY <1>0, <2>0
  <2>2. (b + 1) * P = b * P + P /\ b * P \in Nat /\ N * P \in Nat
    BY <1>0, <2>0
  <2>3. b * P + i \in 0 .. N * P - 1
    BY <1>0, <2>0, <2>1, <2>2
  <2>4. (b * P + i) \div P = b
    BY <1>0, <2>0, <2>2
  <2> QED BY <2>3, <2>4 DEF Row, Rows, BlockOf, P, N
<1>2. ASSUME NEW p \in Rows
      PROVE  BlockOf(p) \in Blocks /\ \E i \in Offsets : p = Row(BlockOf(p), i)
  <2>0. p \in Nat /\ p < N * P
    BY <1>0 DEF Rows
  <2> DEFINE q == p \div P
             r == p % P
  <2> HIDE DEF P, N
  <2>1. q \in Nat /\ r \in Nat /\ r < P /\ p = q * P + r
    BY <1>0, <2>0
  <2> HIDE DEF q, r
  <2>2. q < N
    <3>1. ASSUME N <= q PROVE N * P <= q * P
      BY <1>0, <2>1, <3>1
    <3>2. q * P \in Nat
      BY <1>0, <2>1
    <3> QED BY <1>0, <2>0, <2>1, <3>1, <3>2
  <2>3. q \in Blocks /\ r \in Offsets
    BY <1>0, <2>1, <2>2 DEF Blocks, Offsets, P, N
  <2>4. BlockOf(p) = q /\ p = Row(q, r)
    BY <2>1 DEF BlockOf, Row, q, P
  <2> QED BY <2>3, <2>4
<1>3. ASSUME NEW b \in Blocks, NEW i \in Offsets, NEW j \in Counts
      PROVE  Row(b, i) < Row(b, j) <=> i < j
  <2>1. b * P \in Nat /\ i \in Nat /\ j \in Nat
    BY <1>0 DEF Blocks, Offsets, Counts
  <2> QED BY <2>1 DEF Row
<1> QED BY <1>1, <1>2, <1>3

\* currentPage++ wraps from "no page written" to the first page, and moves
\* to the next page otherwise.
LEMMA BumpFacts ==
    ASSUME NEW x \in PageCounters
    PROVE  /\ Bump(x) \in Counts
           /\ x = 65535 => Bump(x) = 0
           /\ x # 65535 => Bump(x) = x + 1
           /\ x # PAGE_NUM_PER_BLOCK - 1 => Bump(x) \in Offsets
           /\ x = PAGE_NUM_PER_BLOCK - 1 => Bump(x) = PAGE_NUM_PER_BLOCK
<1>1. x \in Nat /\ x <= 65535 /\ (x # 65535 => x + 1 <= PAGE_NUM_PER_BLOCK)
  BY GeometryAssumption DEF PageCounters, Offsets
<1>2. (x + 1) % 65536 = IF x = 65535 THEN 0 ELSE x + 1
  BY <1>1
<1> QED BY <1>1, <1>2, GeometryAssumption DEF Bump, Counts, Offsets

\* Replacing one table by a table of the same type.
LEMMA DieUpdate ==
    ASSUME NEW s \in DieType
    PROVE  /\ \A x \in [Lpns -> Rows \cup {NONE}] : [s EXCEPT !.ppn = x] \in DieType
           /\ \A x \in [Rows -> BOOLEAN] : [s EXCEPT !.valid = x] \in DieType
           /\ \A x \in [Rows -> Lpns \cup {NONE}] : [s EXCEPT !.lpn = x] \in DieType
           /\ \A x \in [Blocks -> BOOLEAN] : [s EXCEPT !.free = x] \in DieType
           /\ \A x \in [Blocks -> Counts] : [s EXCEPT !.invalidPageCnt = x] \in DieType
           /\ \A x \in [Blocks -> PageCounters] : [s EXCEPT !.currentPage = x] \in DieType
           /\ \A x \in ListFamily(Blocks, Counts) : [s EXCEPT !.list = x] \in DieType
           /\ \A x \in Blocks : [s EXCEPT !.currentBlock = x] \in DieType
           /\ \A x \in Blocks : [s EXCEPT !.freeBlock = x] \in DieType
           /\ \A x \in [Rows -> Data \cup {Erased}] : [s EXCEPT !.flash = x] \in DieType
<1>1. ASSUME NEW x \in [Lpns -> Rows \cup {NONE}] PROVE [s EXCEPT !.ppn = x] \in DieType
  BY DEF DieType
<1>2. ASSUME NEW x \in [Rows -> BOOLEAN] PROVE [s EXCEPT !.valid = x] \in DieType
  BY DEF DieType
<1>3. ASSUME NEW x \in [Rows -> Lpns \cup {NONE}] PROVE [s EXCEPT !.lpn = x] \in DieType
  BY DEF DieType
<1>4. ASSUME NEW x \in [Blocks -> BOOLEAN] PROVE [s EXCEPT !.free = x] \in DieType
  BY DEF DieType
<1>5. ASSUME NEW x \in [Blocks -> Counts] PROVE [s EXCEPT !.invalidPageCnt = x] \in DieType
  BY DEF DieType
<1>6. ASSUME NEW x \in [Blocks -> PageCounters] PROVE [s EXCEPT !.currentPage = x] \in DieType
  BY DEF DieType
<1>7. ASSUME NEW x \in ListFamily(Blocks, Counts) PROVE [s EXCEPT !.list = x] \in DieType
  BY DEF DieType
<1>8. ASSUME NEW x \in Blocks PROVE [s EXCEPT !.currentBlock = x] \in DieType
  BY DEF DieType
<1>9. ASSUME NEW x \in Blocks PROVE [s EXCEPT !.freeBlock = x] \in DieType
  BY DEF DieType
<1>10. ASSUME NEW x \in [Rows -> Data \cup {Erased}] PROVE [s EXCEPT !.flash = x] \in DieType
  BY DEF DieType
<1> QED BY <1>1, <1>2, <1>3, <1>4, <1>5, <1>6, <1>7, <1>8, <1>9, <1>10

(***************************************************************************)
(* Writing one page.                                                       *)
(***************************************************************************)

\* Outside the full block, the next page of a block is blank and in bounds.
LEMMA FreePageBlank ==
    ASSUME NEW s \in DieType, WrittenPrefix(s), NEW b \in Blocks, ~Full(s, b)
    PROVE  /\ Frontier(s, b) \in Offsets
           /\ FreePage(s, b) = Row(b, Frontier(s, b))
           /\ FreePage(s, b) \in Rows
           /\ s.valid[FreePage(s, b)] /\ s.lpn[FreePage(s, b)] = NONE
           /\ s.flash[FreePage(s, b)] = Erased
<1>1. s.currentPage[b] \in PageCounters
  BY DEF DieType
<1>2. Frontier(s, b) \in Offsets
  BY <1>1, BumpFacts DEF Full, Frontier
<1>3. FreePage(s, b) = Row(b, Frontier(s, b)) /\ FreePage(s, b) \in Rows
  BY <1>2, RowFacts DEF FreePage, Frontier
<1>4. ~(Frontier(s, b) < Frontier(s, b))
  BY <1>2 DEF Offsets
<1>5. s.valid[FreePage(s, b)] \in BOOLEAN
  BY <1>3 DEF DieType
<1> QED BY <1>2, <1>3, <1>4, <1>5 DEF WrittenPrefix

\* Writing the next page of a block keeps the tables in type and advances the
\* frontier of that block.
LEMMA ProgramKeepsType ==
    ASSUME NEW s \in DieType, NEW b \in Blocks, Frontier(s, b) \in Offsets,
           FreePage(s, b) \in Rows, NEW l \in Lpns, NEW v \in Data
    PROVE  LET u == Program(s, b, FreePage(s, b), l, v)
           IN  /\ u \in DieType
               /\ \A c \in Blocks : Frontier(u, c) = IF c = b THEN Frontier(s, b) + 1
                                                             ELSE Frontier(s, c)
<1> DEFINE p == FreePage(s, b)
           u == Program(s, b, p, l, v)
<1>0. Frontier(s, b) \in Offsets /\ p \in Rows
  OBVIOUS
<1>1. /\ u.ppn = [s.ppn EXCEPT ![l] = p]
      /\ u.lpn = [s.lpn EXCEPT ![p] = l]
      /\ u.flash = [s.flash EXCEPT ![p] = v]
      /\ u.currentPage = [s.currentPage EXCEPT ![b] = Bump(@)]
      /\ u.valid = s.valid /\ u.bad = s.bad /\ u.free = s.free
      /\ u.invalidPageCnt = s.invalidPageCnt /\ u.list = s.list
      /\ u.currentBlock = s.currentBlock /\ u.freeBlock = s.freeBlock
  BY DEF DieType, Program
<1>2. /\ s.ppn \in [Lpns -> Rows \cup {NONE}] /\ s.lpn \in [Rows -> Lpns \cup {NONE}]
      /\ s.flash \in [Rows -> Data \cup {Erased}]
      /\ s.currentPage \in [Blocks -> PageCounters]
  BY DEF DieType
<1>3. Bump(s.currentPage[b]) \in PageCounters
  BY <1>0 DEF Frontier, PageCounters
<1>4. u \in DieType
  <2>1. u.currentPage \in [Blocks -> PageCounters]
    BY <1>1, <1>2, <1>3
  <2>2. /\ u.ppn \in [Lpns -> Rows \cup {NONE}] /\ u.lpn \in [Rows -> Lpns \cup {NONE}]
        /\ u.flash \in [Rows -> Data \cup {Erased}]
    BY <1>0, <1>1, <1>2
  <2> DEFINE s1 == [s EXCEPT !.currentPage = u.currentPage]
             s2 == [s1 EXCEPT !.flash = u.flash]
             s3 == [s2 EXCEPT !.ppn = u.ppn]
             s4 == [s3 EXCEPT !.lpn = u.lpn]
  <2>4. u = s4
    BY <1>1 DEF Program
  <2> HIDE DEF u
  <2>5. s1 \in DieType
    BY <2>1, DieUpdate
  <2> HIDE DEF s1
  <2>6. s2 \in DieType
    BY <2>2, <2>5, DieUpdate
  <2> HIDE DEF s2
  <2>7. s3 \in DieType
    BY <2>2, <2>6, DieUpdate
  <2> HIDE DEF s3
  <2> QED BY <2>2, <2>4, <2>7, DieUpdate
<1>5. ASSUME NEW c \in Blocks
      PROVE  Frontier(u, c) = IF c = b THEN Frontier(s, b) + 1 ELSE Frontier(s, c)
  <2>1. CASE c = b
    <3>1. u.currentPage[b] = Frontier(s, b)
      BY <1>1, <1>2 DEF Frontier
    <3>2. Frontier(s, b) \in PageCounters /\ Frontier(s, b) # 65535
      BY <1>0, GeometryAssumption DEF Offsets, PageCounters
    <3>3. Bump(Frontier(s, b)) = Frontier(s, b) + 1
      BY <3>2, BumpFacts
    <3> QED BY <2>1, <3>1, <3>3 DEF Frontier
  <2>2. CASE c # b
    BY <1>1, <1>2, <2>2 DEF Frontier
  <2> QED BY <2>1, <2>2
<1> QED BY <1>4, <1>5

\* It also keeps the written pages a prefix of their block.
LEMMA ProgramKeepsPrefix ==
    ASSUME NEW s \in DieType, WrittenPrefix(s), NEW b \in Blocks, ~Full(s, b),
           NEW l \in Lpns, NEW v \in Data
    PROVE  LET u == Program(s, b, FreePage(s, b), l, v)
           IN  /\ u \in DieType
               /\ WrittenPrefix(u)
               /\ \A c \in Blocks : Frontier(u, c) = IF c = b THEN Frontier(s, b) + 1
                                                             ELSE Frontier(s, c)
<1> DEFINE p == FreePage(s, b)
           u == Program(s, b, p, l, v)
<1>0. /\ Frontier(s, b) \in Offsets /\ p = Row(b, Frontier(s, b)) /\ p \in Rows
      /\ s.valid[p] /\ s.lpn[p] = NONE
  BY FreePageBlank
<1>1. /\ u.lpn = [s.lpn EXCEPT ![p] = l] /\ u.flash = [s.flash EXCEPT ![p] = v]
      /\ u.valid = s.valid
  BY DEF DieType, Program
<1>2. s.lpn \in [Rows -> Lpns \cup {NONE}] /\ s.flash \in [Rows -> Data \cup {Erased}]
  BY DEF DieType
<1>4. u \in DieType
  BY <1>0, ProgramKeepsType
<1>5. \A c \in Blocks : Frontier(u, c) = IF c = b THEN Frontier(s, b) + 1 ELSE Frontier(s, c)
  BY <1>0, ProgramKeepsType
<1>6. WrittenPrefix(u)
  <2> SUFFICES ASSUME NEW c \in Blocks, NEW i \in Offsets
               PROVE  /\ u.lpn[Row(c, i)] # NONE <=> i < Frontier(u, c)
                      /\ u.flash[Row(c, i)] # Erased <=> i < Frontier(u, c)
                      /\ ~u.valid[Row(c, i)] => i < Frontier(u, c)
    BY DEF WrittenPrefix
  <2>1. /\ s.lpn[Row(c, i)] # NONE <=> i < Frontier(s, c)
        /\ s.flash[Row(c, i)] # Erased <=> i < Frontier(s, c)
        /\ ~s.valid[Row(c, i)] => i < Frontier(s, c)
    BY DEF WrittenPrefix
  <2>2. Row(c, i) \in Rows
    BY RowFacts
  <2>3. CASE Row(c, i) = p
    <3>1. c = b /\ i = Frontier(s, b)
      BY <1>0, <2>3, RowInjective
    <3>2. i < Frontier(u, c)
      BY <1>0, <1>5, <3>1 DEF Offsets
    <3>3. u.lpn[Row(c, i)] = l /\ u.flash[Row(c, i)] = v
      BY <1>1, <1>2, <2>2, <2>3
    <3>4. l # NONE /\ v # Erased
      BY SentinelAssumption DEF Lpns
    <3> QED BY <3>2, <3>3, <3>4
  <2>4. CASE Row(c, i) # p
    <3>1. /\ u.lpn[Row(c, i)] = s.lpn[Row(c, i)] /\ u.flash[Row(c, i)] = s.flash[Row(c, i)]
          /\ u.valid[Row(c, i)] = s.valid[Row(c, i)]
      BY <1>1, <1>2, <2>2, <2>4
    <3>2. i < Frontier(u, c) <=> i < Frontier(s, c)
      <4>1. CASE c = b
        <5>1. i # Frontier(s, b)
          BY <1>0, <2>4, <4>1
        <5> QED BY <1>0, <1>5, <4>1, <5>1 DEF Offsets
      <4>2. CASE c # b
        BY <1>5, <4>2
      <4> QED BY <4>1, <4>2
    <3> QED BY <2>1, <3>1, <3>2
  <2> QED BY <2>3, <2>4
<1> QED BY <1>4, <1>5, <1>6

\* Writing logical page l to a fresh page keeps the two directions of the map
\* in agreement provided the old copy of l, if any, is invalid or moved.
LEMMA ProgramKeepsMap ==
    ASSUME NEW s \in DieType, NEW b \in Blocks, FreePage(s, b) \in Rows,
           s.valid[FreePage(s, b)], s.lpn[FreePage(s, b)] = NONE,
           NEW l \in Lpns, NEW v \in Data, NEW x, NEW c,
           \A m \in Lpns \ {l} :
               s.ppn[m] # NONE => s.valid[s.ppn[m]] /\ s.lpn[s.ppn[m]] = m,
           \A h \in Blocks, i \in Offsets :
               s.valid[Row(h, i)] /\ s.lpn[Row(h, i)] # NONE /\ ~(h = x /\ i < c)
                   => s.lpn[Row(h, i)] # l /\ s.ppn[s.lpn[Row(h, i)]] = Row(h, i)
    PROVE  LET u == Program(s, b, FreePage(s, b), l, v)
           IN  MapForward(u) /\ MapBackward(u, x, c)
<1> DEFINE p == FreePage(s, b)
           u == Program(s, b, p, l, v)
<1>0. p \in Rows /\ s.valid[p] /\ s.lpn[p] = NONE
  OBVIOUS
<1>1. u.ppn = [s.ppn EXCEPT ![l] = p] /\ u.lpn = [s.lpn EXCEPT ![p] = l] /\ u.valid = s.valid
  BY DEF DieType, Program
<1>2. /\ s.ppn \in [Lpns -> Rows \cup {NONE}] /\ s.lpn \in [Rows -> Lpns \cup {NONE}]
      /\ NONE \notin Lpns /\ NONE \notin Rows
  BY SentinelAssumption DEF DieType, Lpns, Rows
<1> HIDE DEF u, p
<1>3. MapForward(u)
  BY <1>0, <1>1, <1>2 DEF MapForward
<1>4. MapBackward(u, x, c)
  <2> SUFFICES ASSUME NEW h \in Blocks, NEW i \in Offsets,
                      u.valid[Row(h, i)], u.lpn[Row(h, i)] # NONE, ~(h = x /\ i < c)
               PROVE  u.ppn[u.lpn[Row(h, i)]] = Row(h, i)
    BY DEF MapBackward
  <2>1. Row(h, i) \in Rows
    BY RowFacts
  <2>2. CASE Row(h, i) = p
    BY <1>1, <1>2, <2>1, <2>2
  <2>3. CASE Row(h, i) # p
    <3>1. u.lpn[Row(h, i)] = s.lpn[Row(h, i)] /\ s.lpn[Row(h, i)] \in Lpns
      BY <1>1, <1>2, <2>1, <2>3
    <3>2. s.lpn[Row(h, i)] # l /\ s.ppn[s.lpn[Row(h, i)]] = Row(h, i)
      BY <1>1, <3>1
    <3> QED BY <1>1, <1>2, <3>1, <3>2
  <2> QED BY <2>2, <2>3
<1> QED BY <1>3, <1>4 DEF u, p


(***************************************************************************)
(* Invalidating the old copy of a logical page.                            *)
(***************************************************************************)

\* The C code uses 0xffffffff for "none": it is no index of any table.
LEMMA NoneIsNoIndex ==
    /\ NONE \notin Blocks /\ NONE \notin Counts /\ NONE \notin Lpns /\ NONE \notin Rows
    /\ NONE \notin Offsets
BY SentinelAssumption, GeometryAssumption DEF Blocks, Counts, Lpns, Rows, Offsets

\* The pages of a block are finitely many, so sets of them have a count.
LEMMA OffsetsFinite ==
    /\ IsFiniteSet(Offsets) /\ Cardinality(Offsets) = PAGE_NUM_PER_BLOCK
    /\ \A S : S \subseteq Offsets => /\ IsFiniteSet(S)
                                     /\ Cardinality(S) \in Counts
                                     /\ Cardinality(S) = 0 <=> S = {}
<1>1. PAGE_NUM_PER_BLOCK \in Nat /\ PAGE_NUM_PER_BLOCK >= 1
  BY GeometryAssumption
<1>2. IsFiniteSet(Offsets) /\ Cardinality(Offsets) = PAGE_NUM_PER_BLOCK
  BY <1>1, FS_Interval DEF Offsets
<1>3. ASSUME NEW S, S \subseteq Offsets
      PROVE  IsFiniteSet(S) /\ Cardinality(S) \in Counts /\ (Cardinality(S) = 0 <=> S = {})
  <2>1. IsFiniteSet(S) /\ Cardinality(S) <= Cardinality(Offsets)
    BY <1>2, <1>3, FS_Subset
  <2>2. Cardinality(S) \in Nat /\ (Cardinality(S) = 0 <=> S = {})
    BY <2>1, FS_CardinalityType, FS_EmptySet
  <2> QED BY <1>1, <1>2, <2>1, <2>2 DEF Counts
<1> QED BY <1>2, <1>3

\* Marking one more page of a block invalid adds one to the number of its
\* invalid pages, which stays within the lists of gcMap.
LEMMA OneMoreInvalid ==
    ASSUME NEW s \in DieType, CountsExact(s), NEW b \in Blocks, NEW i \in Offsets,
           s.valid[Row(b, i)],
           NEW t, t.valid = [s.valid EXCEPT ![Row(b, i)] = FALSE]
    PROVE  /\ s.invalidPageCnt[b] + 1 \in Counts
           /\ Cardinality(InvalidOf(t, b)) = s.invalidPageCnt[b] + 1
           /\ \A c \in Blocks \ {b} : InvalidOf(t, c) = InvalidOf(s, c)
<1>0. s.valid \in [Rows -> BOOLEAN] /\ Row(b, i) \in Rows
  BY RowFacts DEF DieType
<1>1. \A c \in Blocks, j \in Offsets :
         t.valid[Row(c, j)] = IF c = b /\ j = i THEN FALSE ELSE s.valid[Row(c, j)]
  <2> SUFFICES ASSUME NEW c \in Blocks, NEW j \in Offsets
               PROVE  t.valid[Row(c, j)] = IF c = b /\ j = i THEN FALSE ELSE s.valid[Row(c, j)]
    OBVIOUS
  <2>1. Row(c, j) \in Rows
    BY RowFacts
  <2>2. Row(c, j) = Row(b, i) => c = b /\ j = i
    BY RowInjective
  <2> QED BY <1>0, <2>1, <2>2
<1>2. InvalidOf(t, b) = InvalidOf(s, b) \cup {i} /\ i \notin InvalidOf(s, b)
  BY <1>1 DEF InvalidOf
<1>3. \A c \in Blocks \ {b} : InvalidOf(t, c) = InvalidOf(s, c)
  BY <1>1 DEF InvalidOf
<1>4. InvalidOf(s, b) \subseteq Offsets /\ InvalidOf(t, b) \subseteq Offsets
  BY DEF InvalidOf
<1>5. IsFiniteSet(InvalidOf(s, b)) /\ Cardinality(InvalidOf(t, b)) \in Counts
  BY <1>4, OffsetsFinite
<1>6. Cardinality(InvalidOf(t, b)) = Cardinality(InvalidOf(s, b)) + 1
  BY <1>2, <1>5, FS_AddElement
<1>7. Cardinality(InvalidOf(s, b)) = s.invalidPageCnt[b]
  BY DEF CountsExact
<1> QED BY <1>3, <1>5, <1>6, <1>7

\* Unlinking a block from the list of its count, where being on list 0 means
\* being on none, takes it and no other block off its list.
LEMMA UnlinkKeepsLists ==
    ASSUME NEW s \in DieType, ListsWellFormed(s, NONE), NEW b \in Blocks,
           NEW k, k = s.invalidPageCnt[b]
    PROVE  /\ Unlink(s.list, b, k) \in ListFamily(Blocks, Counts)
           /\ WellFormed(Unlink(s.list, b, k), Blocks, Counts, [ListOf(s, NONE) EXCEPT ![b] = NONE])
           /\ SparesOthers(s.list, Unlink(s.list, b, k), Blocks, ListOf(s, NONE), b)
<1> DEFINE L == s.list
           in == ListOf(s, NONE)
           U == Unlink(L, b, k)
           out == [in EXCEPT ![b] = NONE]
<1>0. /\ L \in ListFamily(Blocks, Counts) /\ s.invalidPageCnt \in [Blocks -> Counts]
      /\ NONE \notin Blocks /\ NONE \notin Counts /\ k \in Counts
      /\ WellFormed(L, Blocks, Counts, in)
      /\ \A c \in Blocks : s.invalidPageCnt[c] = 0 => L.prev[c] = NONE /\ L.next[c] = NONE
  <2>1. NONE \notin Blocks /\ NONE \notin Counts
    BY NoneIsNoIndex
  <2>2. L \in ListFamily(Blocks, Counts) /\ s.invalidPageCnt \in [Blocks -> Counts]
    BY DEF DieType
  <2> QED BY <2>1, <2>2 DEF ListsWellFormed
<1>1. in \in [Blocks -> Counts \cup {NONE}]
  BY <1>0 DEF ListOf
<1>2. in[b] = IF k = 0 THEN NONE ELSE k
  BY <1>0 DEF ListOf
<1>3. /\ U \in ListFamily(Blocks, Counts)
      /\ WellFormed(U, Blocks, Counts, out)
      /\ SparesOthers(L, U, Blocks, in, b)
  <2>1. CASE k # 0
    BY <1>0, <1>1, <1>2, <2>1, UnlinkKeepsWellFormed
  <2>2. CASE k = 0
    <3>1. L.prev[b] = NONE /\ L.next[b] = NONE /\ out = in
      BY <1>0, <1>1, <1>2, <2>2
    <3>2. L.head[0] = NONE /\ L.tail[0] = NONE
      <4>1. \A c \in Blocks : in[c] # 0
        BY <1>0 DEF ListOf
      <4>2. 0 \in Counts /\ L.head[0] \in Blocks \cup {NONE}
        BY <1>0, <2>2 DEF ListFamily
      <4> QED BY <1>0, <4>1, <4>2 DEF WellFormed, EndsWellFormed
    <3>3. U = L
      <4>1. U = [prev |-> L.prev, next |-> L.next, head |-> [L.head EXCEPT ![0] = NONE],
                 tail |-> [L.tail EXCEPT ![0] = NONE]]
        BY <2>2, <3>1 DEF Unlink
      <4>2. L = [prev |-> L.prev, next |-> L.next, head |-> L.head, tail |-> L.tail]
            /\ L.head \in [Counts -> Blocks \cup {NONE}] /\ L.tail \in [Counts -> Blocks \cup {NONE}]
        BY <1>0 DEF ListFamily
      <4>3. [L.head EXCEPT ![0] = NONE] = L.head /\ [L.tail EXCEPT ![0] = NONE] = L.tail
        BY <3>2, <4>2
      <4> QED BY <4>1, <4>2, <4>3
    <3> QED BY <1>0, <3>1, <3>3 DEF SparesOthers
  <2> QED BY <2>1, <2>2
<1> QED BY <1>3

\* Moving block b from the list of k invalid pages to the list of k + 1,
\* where being on list 0 means being on none.
LEMMA RelinkKeepsLists ==
    ASSUME NEW s \in DieType, ListsWellFormed(s, NONE), NEW b \in Blocks,
           NEW k, k = s.invalidPageCnt[b], k + 1 \in Counts,
           NEW t, t.list = LinkTail(Unlink(s.list, b, k), b, k + 1),
           t.invalidPageCnt = [s.invalidPageCnt EXCEPT ![b] = k + 1]
    PROVE  t.list \in ListFamily(Blocks, Counts) /\ ListsWellFormed(t, NONE)
<1> DEFINE L == s.list
           in == ListOf(s, NONE)
           U == Unlink(L, b, k)
           out == [in EXCEPT ![b] = NONE]
<1>0. /\ L \in ListFamily(Blocks, Counts) /\ s.invalidPageCnt \in [Blocks -> Counts]
      /\ NONE \notin Blocks /\ NONE \notin Counts /\ k \in Counts
      /\ WellFormed(L, Blocks, Counts, in)
      /\ \A c \in Blocks : s.invalidPageCnt[c] = 0 => L.prev[c] = NONE /\ L.next[c] = NONE
  <2>1. NONE \notin Blocks /\ NONE \notin Counts
    BY NoneIsNoIndex
  <2>2. L \in ListFamily(Blocks, Counts) /\ s.invalidPageCnt \in [Blocks -> Counts]
    BY DEF DieType
  <2> QED BY <2>1, <2>2 DEF ListsWellFormed
<1>1. in \in [Blocks -> Counts \cup {NONE}]
  BY <1>0 DEF ListOf
<1>3. /\ U \in ListFamily(Blocks, Counts)
      /\ WellFormed(U, Blocks, Counts, out)
      /\ SparesOthers(L, U, Blocks, in, b)
  BY UnlinkKeepsLists
<1>4. out \in [Blocks -> Counts \cup {NONE}] /\ out[b] = NONE
  BY <1>1
<1> HIDE DEF U, in, out
<1>5. /\ t.list \in ListFamily(Blocks, Counts)
      /\ WellFormed(t.list, Blocks, Counts, [out EXCEPT ![b] = k + 1])
      /\ SparesOthers(U, t.list, Blocks, out, b)
  <2> DEFINE m == k + 1
  <2>1. t.list = LinkTail(U, b, m) /\ m \in Counts
    BY DEF U
  <2> HIDE DEF m
  <2> HIDE DEF L
  <2>2. /\ LinkTail(U, b, m) \in ListFamily(Blocks, Counts)
        /\ WellFormed(LinkTail(U, b, m), Blocks, Counts, [out EXCEPT ![b] = m])
        /\ SparesOthers(U, LinkTail(U, b, m), Blocks, out, b)
    BY <1>0, <1>3, <1>4, <2>1, LinkTailKeepsWellFormed
  <2> QED BY <2>1, <2>2 DEF m
<1>6. ListOf(t, NONE) = [out EXCEPT ![b] = k + 1]
  <2>1. k + 1 # 0 /\ b # NONE
    BY <1>0 DEF Counts
  <2> QED BY <1>0, <1>1, <2>1 DEF ListOf, out, in
<1>7. ASSUME NEW c \in Blocks, t.invalidPageCnt[c] = 0
      PROVE  t.list.prev[c] = NONE /\ t.list.next[c] = NONE
  <2>1. c # b /\ s.invalidPageCnt[c] = 0
    BY <1>0, <1>7 DEF Counts
  <2>2. in[c] = NONE /\ out[c] = NONE
    BY <1>0, <1>1, <2>1 DEF in, out, ListOf
  <2> QED BY <1>0, <1>3, <1>5, <2>1, <2>2 DEF SparesOthers
<1> QED BY <1>5, <1>6, <1>7 DEF ListsWellFormed


\* UpdateMetaForInvalidate marks exactly the old copy of l invalid, with
\* counts and lists following, and changes nothing else.
LEMMA InvalidateOldCopy ==
    ASSUME NEW s \in DieType, MapForward(s), CountsExact(s), ListsWellFormed(s, NONE),
           NEW l \in Lpns
    PROVE  LET t == UpdateMetaForInvalidate(s, l)
           IN  /\ t \in DieType /\ CountsExact(t) /\ ListsWellFormed(t, NONE)
               /\ t.ppn = s.ppn /\ t.lpn = s.lpn /\ t.flash = s.flash
               /\ t.currentPage = s.currentPage /\ t.free = s.free /\ t.bad = s.bad
               /\ t.currentBlock = s.currentBlock /\ t.freeBlock = s.freeBlock
               /\ \A p \in Rows : t.valid[p] <=> s.valid[p] /\ p # s.ppn[l]
<1> DEFINE t == UpdateMetaForInvalidate(s, l)
           q == s.ppn[l]
           b == BlockOf(q)
           k == s.invalidPageCnt[b]
<1>0. /\ s \in DieType /\ MapForward(s) /\ CountsExact(s)
      /\ ListsWellFormed(s, NONE)
  OBVIOUS
<1>1. /\ s.ppn \in [Lpns -> Rows \cup {NONE}] /\ s.valid \in [Rows -> BOOLEAN]
      /\ s.invalidPageCnt \in [Blocks -> Counts] /\ s.list \in ListFamily(Blocks, Counts)
  BY <1>0 DEF DieType
<1>2. q \in Rows \cup {NONE} /\ (q # NONE => s.valid[q] /\ s.lpn[q] = l)
  BY <1>0, <1>1 DEF MapForward
<1>3. CASE q = NONE
  <2>1. t = s
    BY <1>3 DEF UpdateMetaForInvalidate
  <2>2. \A p \in Rows : p # q
    BY <1>3, NoneIsNoIndex
  <2> QED BY <1>0, <2>1, <2>2
<1>4. CASE q # NONE
  <2> DEFINE u1 == [s EXCEPT !.valid = [s.valid EXCEPT ![q] = FALSE]]
             u2 == [u1 EXCEPT !.invalidPageCnt = [s.invalidPageCnt EXCEPT ![b] = k + 1]]
             u3 == [u2 EXCEPT !.list = LinkTail(Unlink(s.list, b, k), b, k + 1)]
  <2>1. t = u3
    BY <1>2, <1>4 DEF UpdateMetaForInvalidate
  <2>2. /\ t.ppn = s.ppn /\ t.lpn = s.lpn /\ t.flash = s.flash
        /\ t.currentPage = s.currentPage /\ t.free = s.free /\ t.bad = s.bad
        /\ t.currentBlock = s.currentBlock /\ t.freeBlock = s.freeBlock
    BY <1>0, <1>2, <1>4 DEF UpdateMetaForInvalidate, DieType
  <2>3. /\ t.valid = [s.valid EXCEPT ![q] = FALSE]
        /\ t.invalidPageCnt = [s.invalidPageCnt EXCEPT ![b] = k + 1]
        /\ t.list = LinkTail(Unlink(s.list, b, k), b, k + 1)
    BY <1>0, <1>2, <1>4 DEF UpdateMetaForInvalidate, DieType
  <2> HIDE DEF t
  <2>4. PICK i \in Offsets : q = Row(b, i)
    BY <1>2, <1>4, RowFacts
  <2>5. b \in Blocks /\ q \in Rows /\ s.valid[q]
    BY <1>2, <1>4, RowFacts
  <2> HIDE DEF q, b
  <2>6. /\ k + 1 \in Counts
        /\ Cardinality(InvalidOf(t, b)) = k + 1
        /\ \A c \in Blocks \ {b} : InvalidOf(t, c) = InvalidOf(s, c)
    BY <1>0, <2>3, <2>4, <2>5, OneMoreInvalid
  <2>7. t.list \in ListFamily(Blocks, Counts) /\ ListsWellFormed(t, NONE)
    BY <1>0, <2>3, <2>5, <2>6, RelinkKeepsLists
  <2>8. t \in DieType
    <3>1. u1 \in DieType
      BY <1>0, <1>1, <2>5, DieUpdate
    <3>2. [s.invalidPageCnt EXCEPT ![b] = k + 1] \in [Blocks -> Counts]
      BY <1>1, <2>5, <2>6
    <3> HIDE DEF u1
    <3>3. u2 \in DieType
      BY <3>1, <3>2, DieUpdate
    <3> HIDE DEF u2
    <3> QED BY <2>1, <2>3, <2>7, <3>3, DieUpdate
  <2>9. CountsExact(t)
    BY <1>0, <1>1, <2>3, <2>5, <2>6 DEF CountsExact
  <2>10. \A p \in Rows : t.valid[p] <=> s.valid[p] /\ p # q
    BY <1>1, <2>3, <2>5
  <2> QED BY <2>2, <2>7, <2>8, <2>9, <2>10 DEF t, q
<1> QED BY <1>3, <1>4

\* A page marked invalid is one that was written.
LEMMA InvalidateKeepsPrefix ==
    ASSUME NEW s \in DieType, MapForward(s), WrittenPrefix(s), NEW l \in Lpns,
           NEW t, t.lpn = s.lpn, t.flash = s.flash, t.currentPage = s.currentPage,
           \A p \in Rows : t.valid[p] <=> s.valid[p] /\ p # s.ppn[l]
    PROVE  WrittenPrefix(t)
<1> SUFFICES ASSUME NEW c \in Blocks, NEW j \in Offsets
             PROVE  /\ t.lpn[Row(c, j)] # NONE <=> j < Frontier(t, c)
                    /\ t.flash[Row(c, j)] # Erased <=> j < Frontier(t, c)
                    /\ ~t.valid[Row(c, j)] => j < Frontier(t, c)
  BY DEF WrittenPrefix
<1>1. Frontier(t, c) = Frontier(s, c)
  BY DEF Frontier
<1>2. /\ s.lpn[Row(c, j)] # NONE <=> j < Frontier(s, c)
      /\ s.flash[Row(c, j)] # Erased <=> j < Frontier(s, c)
      /\ ~s.valid[Row(c, j)] => j < Frontier(s, c)
  BY DEF WrittenPrefix
<1>3. Row(c, j) \in Rows
  BY RowFacts
<1>4. Row(c, j) = s.ppn[l] => s.lpn[Row(c, j)] # NONE
  BY <1>3, NoneIsNoIndex DEF MapForward
<1> QED BY <1>1, <1>2, <1>3, <1>4

\* The parts of DieInv that writing a page leaves alone, when the page goes to
\* the current or to the spare block.
LEMMA ProgramKeepsRest ==
    ASSUME NEW s \in DieType, NEW b \in {s.currentBlock, s.freeBlock}, NEW l, NEW v,
           NEW x, Pools(s), CountsExact(s), ListsWellFormed(s, x),
           LET u == Program(s, b, FreePage(s, b), l, v)
           IN  \A c \in Blocks : Frontier(u, c) = IF c = b THEN Frontier(s, b) + 1
                                                           ELSE Frontier(s, c)
    PROVE  LET u == Program(s, b, FreePage(s, b), l, v)
           IN  Pools(u) /\ CountsExact(u) /\ ListsWellFormed(u, x)
<1> DEFINE u == Program(s, b, FreePage(s, b), l, v)
<1>1. /\ u.valid = s.valid /\ u.bad = s.bad /\ u.free = s.free
      /\ u.invalidPageCnt = s.invalidPageCnt /\ u.list = s.list
      /\ u.currentBlock = s.currentBlock /\ u.freeBlock = s.freeBlock
  BY DEF DieType, Program
<1>2. \A c \in Blocks : Frontier(u, c) = IF c = b THEN Frontier(s, b) + 1 ELSE Frontier(s, c)
  OBVIOUS
<1> HIDE DEF u
<1>3. Pools(u)
  <2>1. b \in Usable(s.bad) /\ ~s.free[b]
    BY DEF Pools
  <2> QED BY <1>1, <1>2, <2>1 DEF Pools, Usable
<1>4. CountsExact(u)
  BY <1>1 DEF CountsExact, InvalidOf
<1>5. ListsWellFormed(u, x)
  BY <1>1 DEF ListsWellFormed, ListOf
<1> QED BY <1>3, <1>4, <1>5 DEF u

\* PmWrite into a current block with room keeps the invariant of the die, and
\* a read of any logical page afterwards finds the last data written to it.
LEMMA WriteKeepsDieInv ==
    ASSUME NEW s, NEW k0, NEW f0, DieInv(s, NONE, k0, f0),
           ~Full(s, s.currentBlock), NEW l \in Lpns, NEW v \in Data
    PROVE  LET u == WritePage(s, l, v)
           IN  /\ DieInv(u, NONE, k0, f0)
               /\ \A m \in Lpns : PmRead(u, m) = IF m = l THEN v ELSE PmRead(s, m)
<1> DEFINE t == UpdateMetaForInvalidate(s, l)
           b == s.currentBlock
           p == FreePage(s, b)
           u == Program(t, b, p, l, v)
<1>0. /\ s \in DieType /\ MapForward(s) /\ MapBackward(s, NONE, k0) /\ WrittenPrefix(s)
      /\ Pools(s) /\ VictimInHand(s, NONE, k0, f0)
  BY DEF DieInv
<1>10. /\ t \in DieType /\ CountsExact(t) /\ ListsWellFormed(t, NONE)
       /\ t.ppn = s.ppn /\ t.lpn = s.lpn /\ t.flash = s.flash
       /\ t.currentPage = s.currentPage /\ t.free = s.free /\ t.bad = s.bad
       /\ t.currentBlock = s.currentBlock /\ t.freeBlock = s.freeBlock
       /\ \A q \in Rows : t.valid[q] <=> s.valid[q] /\ q # s.ppn[l]
  BY InvalidateOldCopy DEF DieInv
<1>11. WrittenPrefix(t)
  BY <1>0, <1>10, InvalidateKeepsPrefix
<1>1. /\ t \in DieType
      /\ WrittenPrefix(t) /\ CountsExact(t) /\ ListsWellFormed(t, NONE)
      /\ t.ppn = s.ppn /\ t.lpn = s.lpn /\ t.flash = s.flash
      /\ t.currentPage = s.currentPage /\ t.free = s.free /\ t.bad = s.bad
      /\ t.currentBlock = s.currentBlock /\ t.freeBlock = s.freeBlock
      /\ \A q \in Rows : t.valid[q] <=> s.valid[q] /\ q # s.ppn[l]
  BY <1>10, <1>11
<1>2. WritePage(s, l, v) = u
  BY DEF WritePage
<1> HIDE DEF t
<1>3. b \in Blocks /\ b = t.currentBlock /\ ~Full(t, b) /\ p = FreePage(t, b)
  BY <1>0, <1>1 DEF DieType, Full, FreePage
<1>4. /\ u \in DieType /\ WrittenPrefix(u)
      /\ \A c \in Blocks : Frontier(u, c) = IF c = b THEN Frontier(t, b) + 1
                                                     ELSE Frontier(t, c)
  BY <1>1, <1>3, ProgramKeepsPrefix
<1>5. MapForward(u) /\ MapBackward(u, NONE, k0)
  <2>1. \A m \in Lpns \ {l} :
           t.ppn[m] # NONE => t.valid[t.ppn[m]] /\ t.lpn[t.ppn[m]] = m
    <3>1. s.ppn \in [Lpns -> Rows \cup {NONE}]
      BY <1>0 DEF DieType
    <3> QED BY <1>0, <1>1, <3>1 DEF MapForward
  <2>2. \A h \in Blocks, i \in Offsets :
           t.valid[Row(h, i)] /\ t.lpn[Row(h, i)] # NONE /\ ~(h = NONE /\ i < k0)
               => t.lpn[Row(h, i)] # l /\ t.ppn[t.lpn[Row(h, i)]] = Row(h, i)
    BY <1>0, <1>1, RowFacts DEF MapBackward
  <2> QED BY <1>1, <1>3, <2>1, <2>2, FreePageBlank, ProgramKeepsMap
<1>6. Pools(t)
  BY <1>0, <1>1 DEF Pools, Frontier
<1>7. Pools(u) /\ CountsExact(u) /\ ListsWellFormed(u, NONE)
  BY <1>1, <1>3, <1>4, <1>6, ProgramKeepsRest
<1>8. VictimInHand(u, NONE, k0, f0)
  <2>1. u.freeBlock = s.freeBlock /\ s.freeBlock \in Blocks /\ s.freeBlock # b
    <3>1. u.freeBlock = t.freeBlock
      BY <1>1 DEF DieType, Program
    <3> QED BY <1>0, <1>1, <3>1 DEF Pools, DieType
  <2>2. Frontier(u, s.freeBlock) = Frontier(s, s.freeBlock)
    BY <1>1, <1>4, <2>1 DEF Frontier
  <2> QED BY <1>0, <2>1, <2>2 DEF VictimInHand
<1>9. \A m \in Lpns : PmRead(u, m) = IF m = l THEN v ELSE PmRead(s, m)
  <2>1. u.ppn = [t.ppn EXCEPT ![l] = p] /\ u.flash = [t.flash EXCEPT ![p] = v]
    BY <1>1 DEF DieType, Program
  <2>2. p \in Rows /\ t.lpn[p] = NONE
    BY <1>1, <1>3, FreePageBlank
  <2>3. s.ppn \in [Lpns -> Rows \cup {NONE}] /\ s.flash \in [Rows -> Data \cup {Erased}]
    BY <1>0 DEF DieType
  <2>4. \A m \in Lpns : s.ppn[m] # p
    BY <1>0, <1>1, <2>2, NoneIsNoIndex DEF MapForward
  <2> HIDE DEF u, p
  <2> QED BY <1>1, <2>1, <2>2, <2>3, <2>4, NoneIsNoIndex DEF PmRead
<1> QED BY <1>2, <1>4, <1>5, <1>7, <1>8, <1>9 DEF DieInv


(***************************************************************************)
(* Opening a block, and the collector.                                     *)
(***************************************************************************)

\* A block from the free pool is blank: making it current gives room and
\* touches no data.
LEMMA OpenKeepsDieInv ==
    ASSUME NEW s, NEW k0, NEW f0, DieInv(s, NONE, k0, f0), NEW b \in FreeBlocks(s)
    PROVE  LET u == OpenBlock(s, b)
           IN  /\ DieInv(u, NONE, k0, f0)
               /\ ~Full(u, u.currentBlock)
               /\ \A m \in Lpns : PmRead(u, m) = PmRead(s, m)
<1> DEFINE u == OpenBlock(s, b)
<1>0. /\ s \in DieType /\ MapForward(s) /\ MapBackward(s, NONE, k0) /\ WrittenPrefix(s)
      /\ Pools(s) /\ CountsExact(s) /\ ListsWellFormed(s, NONE)
      /\ VictimInHand(s, NONE, k0, f0)
      /\ b \in Blocks /\ s.free[b] /\ ~s.bad[b]
  BY DEF DieInv, FreeBlocks
<1>1. /\ u.free = [s.free EXCEPT ![b] = FALSE] /\ u.currentBlock = b
      /\ u.ppn = s.ppn /\ u.valid = s.valid /\ u.lpn = s.lpn /\ u.bad = s.bad
      /\ u.invalidPageCnt = s.invalidPageCnt /\ u.currentPage = s.currentPage
      /\ u.list = s.list /\ u.freeBlock = s.freeBlock /\ u.flash = s.flash
  BY <1>0 DEF OpenBlock, DieType
<1>2. s.free \in [Blocks -> BOOLEAN] /\ s.currentPage \in [Blocks -> PageCounters]
  BY <1>0 DEF DieType
<1>3. u \in DieType
  <2> DEFINE u1 == [s EXCEPT !.free = [s.free EXCEPT ![b] = FALSE]]
  <2>1. u1 \in DieType
    BY <1>0, <1>2, DieUpdate
  <2>2. u = [u1 EXCEPT !.currentBlock = b]
    BY DEF OpenBlock
  <2> HIDE DEF u1, u
  <2> QED BY <1>0, <2>1, <2>2, DieUpdate
<1> HIDE DEF u
<1>4. \A c \in Blocks : Frontier(u, c) = Frontier(s, c)
  BY <1>1 DEF Frontier
<1>5. b # metadataBlockNo /\ b # s.freeBlock /\ Frontier(s, b) = 0
  BY <1>0 DEF Pools
<1>6. Pools(u)
  <2>1. metadataBlockNo \in Blocks => ~u.free[metadataBlockNo]
    BY <1>0, <1>1, <1>2 DEF Pools
  <2>2. \A c \in {b, s.freeBlock} : c \in Usable(s.bad) /\ ~u.free[c]
    BY <1>0, <1>1, <1>2, <1>5 DEF Pools, Usable
  <2>3. \A c \in Blocks : u.free[c] => s.free[c]
    BY <1>1, <1>2
  <2> QED BY <1>0, <1>1, <1>4, <1>5, <2>1, <2>2, <2>3 DEF Pools
<1>7. VictimInHand(u, NONE, k0, f0)
  <2>1. s.freeBlock \in Blocks
    BY <1>0 DEF DieType
  <2> QED BY <1>0, <1>1, <1>4, <2>1 DEF VictimInHand
<1>8. ~Full(u, u.currentBlock)
  <2>1. s.currentPage[b] \in PageCounters
    BY <1>0, <1>2
  <2>2. s.currentPage[b] = PAGE_NUM_PER_BLOCK - 1 => Frontier(s, b) = PAGE_NUM_PER_BLOCK
    BY <2>1, BumpFacts DEF Frontier
  <2> QED BY <1>1, <1>5, <2>2, GeometryAssumption, SMTT(30) DEF Full
<1>9. MapForward(u) /\ MapBackward(u, NONE, k0) /\ WrittenPrefix(u)
  BY <1>0, <1>1, <1>4 DEF MapForward, MapBackward, WrittenPrefix
<1>10. CountsExact(u) /\ ListsWellFormed(u, NONE)
  BY <1>0, <1>1 DEF CountsExact, InvalidOf, ListsWellFormed, ListOf
<1>11. \A m \in Lpns : PmRead(u, m) = PmRead(s, m)
  BY <1>1 DEF PmRead
<1> QED BY <1>3, <1>6, <1>7, <1>8, <1>9, <1>10, <1>11 DEF DieInv, u

\* The victim the collector takes off the head of a list is a block with
\* invalid pages that is not being written to; the lists of the others stay
\* well formed.
LEMMA SelectKeepsDieInv ==
    ASSUME NEW s, NEW k0, NEW f0, DieInv(s, NONE, k0, f0), NEW k \in VictimCounts(s),
           NEW c, c = IF k = PAGE_NUM_PER_BLOCK THEN PAGE_NUM_PER_BLOCK ELSE 0
    PROVE  LET u == [s EXCEPT !.list = PopHead(@, k)]
               v == s.list.head[k]
           IN  /\ v \in Blocks /\ c \in Counts
               /\ DieInv(u, v, c, Full(s, s.currentBlock))
               /\ \A m \in Lpns : PmRead(u, m) = PmRead(s, m)
<1> DEFINE L == s.list
           v == L.head[k]
           in == ListOf(s, NONE)
           full == Full(s, s.currentBlock)
           u == [s EXCEPT !.list = PopHead(@, k)]
<1>0. /\ s \in DieType /\ MapForward(s) /\ MapBackward(s, NONE, k0) /\ WrittenPrefix(s)
      /\ Pools(s) /\ CountsExact(s) /\ VictimInHand(s, NONE, k0, f0)
      /\ WellFormed(L, Blocks, Counts, in)
      /\ \A b \in Blocks : s.invalidPageCnt[b] = 0 => L.prev[b] = NONE /\ L.next[b] = NONE
  BY DEF DieInv, ListsWellFormed
<1>1. /\ L \in ListFamily(Blocks, Counts) /\ s.invalidPageCnt \in [Blocks -> Counts]
      /\ s.freeBlock \in Blocks
  BY <1>0 DEF DieType
<1>2. k \in 1 .. PAGE_NUM_PER_BLOCK /\ k \in Counts /\ v \notin {NONE, s.currentBlock}
  BY DEF VictimCounts, Counts
<1>3. c \in Counts
  BY GeometryAssumption, SMTT(30) DEF Counts
<1>4. v \in Blocks
  BY <1>1, <1>2 DEF ListFamily
<1>5. in \in [Blocks -> Counts \cup {NONE}]
  BY <1>1 DEF ListOf
<1>6. in[v] = k
  BY <1>0, <1>2 DEF WellFormed, EndsWellFormed
<1>7. s.invalidPageCnt[v] = k /\ k > 0
  BY <1>1, <1>2, <1>4, <1>6, NoneIsNoIndex DEF ListOf
<1> HIDE DEF in
<1>8. /\ PopHead(L, k) \in ListFamily(Blocks, Counts)
      /\ WellFormed(PopHead(L, k), Blocks, Counts, [in EXCEPT ![v] = NONE])
      /\ SparesOthers(L, PopHead(L, k), Blocks, in, v)
  <2>1. PopHead(L, k) = Unlink(L, v, k)
    BY <1>0, <1>1, <1>2, <1>5, NoneIsNoIndex, PopHeadIsUnlink
  <2>2. /\ L \in ListFamily(Blocks, Counts) /\ k \in Counts /\ v \in Blocks
        /\ in \in [Blocks -> Counts \cup {NONE}] /\ in[v] = k
        /\ WellFormed(L, Blocks, Counts, in)
    BY <1>0, <1>1, <1>2, <1>4, <1>5, <1>6
  <2> HIDE DEF L, v, u, full
  <2>3. /\ Unlink(L, v, k) \in ListFamily(Blocks, Counts)
        /\ WellFormed(Unlink(L, v, k), Blocks, Counts, [in EXCEPT ![v] = NONE])
        /\ SparesOthers(L, Unlink(L, v, k), Blocks, in, v)
    BY <2>2, NoneIsNoIndex, UnlinkKeepsWellFormed
  <2> QED BY <2>1, <2>3
<1>9. /\ u.list = PopHead(L, k) /\ u.free = s.free /\ u.currentBlock = s.currentBlock
      /\ u.ppn = s.ppn /\ u.valid = s.valid /\ u.lpn = s.lpn /\ u.bad = s.bad
      /\ u.invalidPageCnt = s.invalidPageCnt /\ u.currentPage = s.currentPage
      /\ u.freeBlock = s.freeBlock /\ u.flash = s.flash
  BY <1>0 DEF DieType
<1>10. u \in DieType
  BY <1>0, <1>8, DieUpdate
<1> HIDE DEF u, full
<1>11. ListsWellFormed(u, v)
  <2>1. ListOf(u, v) = [in EXCEPT ![v] = NONE]
    BY <1>4, <1>9, <1>1, NoneIsNoIndex DEF ListOf, in
  <2>2. ASSUME NEW b \in Blocks, u.invalidPageCnt[b] = 0
        PROVE  u.list.prev[b] = NONE /\ u.list.next[b] = NONE
    <3>1. b # v /\ in[b] = NONE
      BY <1>1, <1>7, <1>9, <2>2 DEF in, ListOf
    <3> QED BY <1>0, <1>8, <1>9, <2>2, <3>1 DEF SparesOthers
  <2> QED BY <1>8, <1>9, <2>1, <2>2 DEF ListsWellFormed
<1>12. \A b \in Blocks : Frontier(u, b) = Frontier(s, b)
  BY <1>9 DEF Frontier
<1>13. Frontier(s, s.freeBlock) = 0
  BY <1>0 DEF VictimInHand
<1>14. InvalidOf(s, v) # {}
  <2>1. InvalidOf(s, v) \subseteq Offsets
    BY DEF InvalidOf
  <2>2. Cardinality(InvalidOf(s, v)) = k
    BY <1>0, <1>4, <1>7 DEF CountsExact
  <2>3. k # 0
    BY <1>2
  <2> QED BY <2>1, <2>2, <2>3, OffsetsFinite
<1>15. v # s.freeBlock
  <2>1. PICK i \in Offsets : ~s.valid[Row(v, i)]
    BY <1>14 DEF InvalidOf
  <2>2. i < Frontier(s, v)
    BY <1>0, <1>4, <2>1 DEF WrittenPrefix
  <2> QED BY <1>13, <2>2 DEF Offsets
<1>16. VictimInHand(u, v, c, full)
  <2>1. v \in Blocks \ {u.currentBlock, u.freeBlock} /\ u.invalidPageCnt[v] > 0 /\ v # NONE
    BY <1>2, <1>4, <1>7, <1>9, <1>15
  <2>2. Frontier(u, u.freeBlock) = 0
    BY <1>1, <1>9, <1>12, <1>13
  <2>3. full => Full(u, u.currentBlock)
    BY <1>9 DEF full, Full
  <2>4. c \in Nat /\ c >= 0 /\ (c = 0 => c < PAGE_NUM_PER_BLOCK)
    BY <1>3, GeometryAssumption DEF Counts
  <2>5. c = 0 => \A i \in 0 .. c - 1 : u.valid[Row(v, i)]
    OBVIOUS
  <2>6. ASSUME NEW m \in Lpns, NEW i \in 0 .. c - 1, u.ppn[m] = Row(v, i) PROVE FALSE
    <3>1. c = PAGE_NUM_PER_BLOCK /\ k = c
      BY <2>6
    <3>2. Cardinality(InvalidOf(s, v)) = Cardinality(Offsets)
      BY <1>0, <1>4, <1>7, <3>1, OffsetsFinite DEF CountsExact
    <3>3. InvalidOf(s, v) = Offsets
      BY <3>2, OffsetsFinite, FS_Subset DEF InvalidOf
    <3>4. i \in Offsets
      BY <3>1 DEF Offsets
    <3>5. ~s.valid[Row(v, i)]
      BY <3>3, <3>4 DEF InvalidOf
    <3>6. Row(v, i) # NONE
      BY <1>4, <3>4, RowFacts, NoneIsNoIndex
    <3> QED BY <1>0, <1>9, <2>6, <3>5, <3>6 DEF MapForward
  <2> QED BY <2>1, <2>2, <2>3, <2>4, <2>5, <2>6 DEF VictimInHand
<1>17. Pools(u) /\ CountsExact(u)
  BY <1>0, <1>9, <1>12 DEF Pools, CountsExact, InvalidOf
<1>18. MapForward(u) /\ WrittenPrefix(u)
  BY <1>0, <1>9, <1>12 DEF MapForward, WrittenPrefix
<1>19. MapBackward(u, v, c)
  <2>1. \A b \in Blocks, i \in Offsets :
           s.valid[Row(b, i)] /\ s.lpn[Row(b, i)] # NONE => s.ppn[s.lpn[Row(b, i)]] = Row(b, i)
    BY <1>0, NoneIsNoIndex DEF MapBackward
  <2> QED BY <1>9, <2>1 DEF MapBackward
<1>20. \A m \in Lpns : PmRead(u, m) = PmRead(s, m)
  BY <1>9 DEF PmRead
<1> QED BY <1>3, <1>4, <1>10, <1>11, <1>16, <1>17, <1>18, <1>19, <1>20 DEF DieInv, u, full


(***************************************************************************)
(* The copy loop.                                                          *)
(***************************************************************************)

\* The page counters of the collector and the frontier of a block are
\* counts of pages, and a block is full when its frontier is its last page
\* plus one.
LEMMA CountFacts ==
    /\ \A c \in Offsets : c \in Counts /\ c + 1 \in Counts /\ c < PAGE_NUM_PER_BLOCK
    /\ \A c \in Counts : c < PAGE_NUM_PER_BLOCK => c \in Offsets
    /\ \A s \in DieType, b \in Blocks : Frontier(s, b) \in Counts
    /\ \A s \in DieType, b \in Blocks :
          Full(s, b) <=> Frontier(s, b) = PAGE_NUM_PER_BLOCK
<1>1. \A c \in Offsets : c \in Counts /\ c + 1 \in Counts /\ c < PAGE_NUM_PER_BLOCK
  BY GeometryAssumption DEF Offsets, Counts
<1>2. \A c \in Counts : c < PAGE_NUM_PER_BLOCK => c \in Offsets
  BY GeometryAssumption DEF Offsets, Counts
<1>3. ASSUME NEW s \in DieType, NEW b \in Blocks
      PROVE  /\ Frontier(s, b) \in Counts
             /\ Full(s, b) <=> Frontier(s, b) = PAGE_NUM_PER_BLOCK
  <2>1. s.currentPage[b] \in PageCounters
    BY DEF DieType
  <2>2. PAGE_NUM_PER_BLOCK \notin Offsets
    BY GeometryAssumption DEF Offsets
  <2> QED BY <2>1, <2>2, BumpFacts DEF Frontier, Full
<1> QED BY <1>1, <1>2, <1>3

\* The collector may pass a page of the victim without touching the tables
\* when no logical page is mapped to it.
LEMMA PassKeepsDieInv ==
    ASSUME NEW s, NEW v \in Blocks, NEW c \in Offsets, NEW closed \in BOOLEAN,
           DieInv(s, v, c, closed),
           \A m \in Lpns : s.ppn[m] # Row(v, c)
    PROVE  DieInv(s, v, c + 1, closed)
<1>0. c \in Nat
  BY DEF Offsets
<1>1. v # NONE
  BY NoneIsNoIndex
<1>2. MapBackward(s, v, c + 1)
  BY <1>0 DEF DieInv, MapBackward, Offsets
<1>3. Frontier(s, s.freeBlock) \in Counts /\ Frontier(s, s.freeBlock) <= c
  BY <1>1, CountFacts DEF DieInv, VictimInHand, DieType
<1>4. Frontier(s, s.freeBlock) <= c + 1 /\ Frontier(s, s.freeBlock) # c + 1
  BY <1>0, <1>3 DEF Counts
<1>5. \A m \in Lpns, i \in 0 .. (c + 1) - 1 : s.ppn[m] # Row(v, i)
  <2>1. \A i \in 0 .. (c + 1) - 1 : i = c \/ i \in 0 .. c - 1
    BY <1>0
  <2>2. \A m \in Lpns, i \in 0 .. c - 1 : s.ppn[m] # Row(v, i)
    BY <1>1 DEF DieInv, VictimInHand
  <2> QED BY <2>1, <2>2
<1>6. VictimInHand(s, v, c + 1, closed)
  BY <1>1, <1>4, <1>5 DEF DieInv, VictimInHand
<1> QED BY <1>2, <1>6 DEF DieInv

\* One iteration of the copy loop keeps the invariant of the die and what
\* every read finds.
LEMMA CopyKeepsDieInv ==
    ASSUME NEW s, NEW v \in Blocks, NEW c \in Offsets, NEW closed \in BOOLEAN,
           DieInv(s, v, c, closed)
    PROVE  LET u == CopyPage(s, Row(v, c), closed)
           IN  /\ DieInv(u, v, c + 1, CopyCloses(s, Row(v, c), closed))
               /\ CopyCloses(s, Row(v, c), closed) \in BOOLEAN
               /\ \A m \in Lpns : PmRead(u, m) = PmRead(s, m)
<1> DEFINE p == Row(v, c)
           l == s.lpn[p]
           u == CopyPage(s, p, closed)
           cl == CopyCloses(s, p, closed)
<1>0. /\ s \in DieType /\ MapForward(s) /\ MapBackward(s, v, c) /\ WrittenPrefix(s)
      /\ Pools(s) /\ CountsExact(s) /\ ListsWellFormed(s, v)
      /\ VictimInHand(s, v, c, closed) /\ v # NONE
  BY NoneIsNoIndex DEF DieInv
<1>1. /\ s.ppn \in [Lpns -> Rows \cup {NONE}] /\ s.lpn \in [Rows -> Lpns \cup {NONE}]
      /\ s.flash \in [Rows -> Data \cup {Erased}] /\ s.valid \in [Rows -> BOOLEAN]
      /\ s.currentBlock \in Blocks /\ s.freeBlock \in Blocks
      /\ s.invalidPageCnt \in [Blocks -> Counts]
  BY <1>0 DEF DieType
<1>2. p \in Rows /\ p # NONE /\ l \in Lpns \cup {NONE} /\ s.valid[p] \in BOOLEAN
  BY <1>1, RowFacts, NoneIsNoIndex
<1>3. cl \in BOOLEAN
  BY <1>2 DEF CopyCloses, Full
<1>4. CASE ~s.valid[p] \/ l = NONE
  <2>1. \A m \in Lpns : s.ppn[m] # p
    BY <1>0, <1>2, <1>4, NoneIsNoIndex DEF MapForward
  <2>2. l # NONE => s.ppn[l] # p
    BY <1>2, <2>1
  <2>3. ~s.valid[p] => l # NONE
    BY <1>0 DEF WrittenPrefix
  <2>4. u = s
    BY <1>4, <2>2, <2>3 DEF CopyPage
  <2>5. cl = closed
    BY <1>4 DEF CopyCloses
  <2>6. DieInv(s, v, c + 1, closed)
    BY <2>1, PassKeepsDieInv
  <2> QED BY <1>3, <2>4, <2>5, <2>6
<1>5. CASE s.valid[p] /\ l # NONE
  <2> DEFINE b == CopyTarget(s, closed)
             q == FreePage(s, b)
             d == s.flash[p]
             w == Program(s, b, q, l, d)
  <2>0. u = w /\ (cl <=> closed \/ Full(s, s.currentBlock))
    BY <1>5 DEF CopyPage, CopyCloses
  <2>1. l \in Lpns /\ ~(c < c)
    BY <1>2, <1>5 DEF Offsets
  <2>2. s.ppn[l] = p
    BY <1>0, <1>5, <2>1 DEF MapBackward
  <2>3. d \in Data
    <3>1. c < Frontier(s, v)
      BY <1>0, <1>5 DEF WrittenPrefix
    <3>2. d # Erased
      BY <1>0, <3>1 DEF WrittenPrefix
    <3> QED BY <1>1, <1>2, <3>2
  <2>4. /\ Frontier(s, s.freeBlock) \in Counts /\ Frontier(s, s.freeBlock) <= c
        /\ c \in Nat /\ c < PAGE_NUM_PER_BLOCK /\ PAGE_NUM_PER_BLOCK \in Nat
    BY <1>0, <1>1, CountFacts, GeometryAssumption, SMTT(30) DEF VictimInHand, Offsets
  <2>5. ~Full(s, s.freeBlock)
    BY <1>0, <1>1, <2>4, CountFacts DEF Counts
  <2>6. /\ b \in {s.currentBlock, s.freeBlock} /\ ~Full(s, b) /\ b \in Blocks
        /\ b = IF cl THEN s.freeBlock ELSE s.currentBlock
    BY <1>1, <2>0, <2>5 DEF CopyTarget
  <2>7. /\ w.valid = s.valid /\ w.invalidPageCnt = s.invalidPageCnt
        /\ w.currentBlock = s.currentBlock /\ w.freeBlock = s.freeBlock
        /\ w.ppn = [s.ppn EXCEPT ![l] = q] /\ w.flash = [s.flash EXCEPT ![q] = d]
    BY <1>0 DEF Program, DieType
  <2>8. q \in Rows /\ s.lpn[q] = NONE
    BY <1>0, <2>6, FreePageBlank
  <2> HIDE DEF p, l, b, u, cl, d
  <2>9. /\ w \in DieType /\ WrittenPrefix(w)
        /\ \A x \in Blocks : Frontier(w, x) = IF x = b THEN Frontier(s, b) + 1
                                                       ELSE Frontier(s, x)
    BY <1>0, <2>1, <2>3, <2>6, ProgramKeepsPrefix
  <2>10. Pools(w) /\ CountsExact(w) /\ ListsWellFormed(w, v)
    BY <1>0, <2>6, <2>9, ProgramKeepsRest
  <2>11. MapForward(w) /\ MapBackward(w, v, c + 1)
    <3> DEFINE n == c + 1
    <3>1. \A m \in Lpns \ {l} :
             s.ppn[m] # NONE => s.valid[s.ppn[m]] /\ s.lpn[s.ppn[m]] = m
      BY <1>0 DEF MapForward
    <3>2. ASSUME NEW h \in Blocks, NEW i \in Offsets,
                 s.valid[Row(h, i)], s.lpn[Row(h, i)] # NONE, ~(h = v /\ i < n)
          PROVE  s.lpn[Row(h, i)] # l /\ s.ppn[s.lpn[Row(h, i)]] = Row(h, i)
      <4>1. ~(h = v /\ i < c) /\ ~(h = v /\ i = c)
        BY <2>4, <3>2 DEF Offsets
      <4>2. s.ppn[s.lpn[Row(h, i)]] = Row(h, i)
        BY <1>0, <3>2, <4>1 DEF MapBackward
      <4>3. Row(h, i) # p
        BY <4>1, RowInjective DEF p
      <4> QED BY <2>2, <4>2, <4>3
    <3> HIDE DEF n, w, q
    <3>3. MapForward(Program(s, b, FreePage(s, b), l, d))
          /\ MapBackward(Program(s, b, FreePage(s, b), l, d), v, n)
      BY <1>0, <2>1, <2>3, <2>6, <3>1, <3>2, FreePageBlank, ProgramKeepsMap
    <3> QED BY <3>3 DEF n, w, q
  <2> HIDE DEF w, q
  <2>12. VictimInHand(w, v, c + 1, cl)
    <3>1. v \in Blocks \ {w.currentBlock, w.freeBlock} /\ w.invalidPageCnt[v] > 0
      BY <1>0, <2>7 DEF VictimInHand
    <3>2. s.currentBlock # s.freeBlock
      BY <1>0 DEF Pools
    <3>3. ~cl => Frontier(w, w.freeBlock) = 0
      BY <1>0, <1>1, <2>0, <2>6, <2>7, <2>9, <3>2 DEF VictimInHand
    <3>4. cl => Full(w, w.currentBlock)
      <4>1. cl => Full(s, s.currentBlock)
        BY <1>0, <2>0 DEF VictimInHand
      <4>2. cl => Frontier(w, s.currentBlock) = Frontier(s, s.currentBlock)
        BY <1>1, <2>6, <2>9, <3>2
      <4> QED BY <1>0, <1>1, <2>7, <2>9, <4>1, <4>2, CountFacts
    <3>5. Frontier(w, w.freeBlock) =
             IF cl THEN Frontier(s, s.freeBlock) + 1 ELSE Frontier(s, s.freeBlock)
      BY <1>1, <2>6, <2>7, <2>9, <3>2
    <3>6. Frontier(w, w.freeBlock) <= c + 1
      BY <2>4, <3>5 DEF Counts
    <3>7. ASSUME Frontier(w, w.freeBlock) = c + 1
          PROVE  c + 1 < PAGE_NUM_PER_BLOCK /\ \A i \in 0 .. (c + 1) - 1 : w.valid[Row(v, i)]
      <4>1. Frontier(s, s.freeBlock) = c
        BY <2>4, <3>5, <3>7 DEF Counts
      <4>2. \A i \in 0 .. c - 1 : s.valid[Row(v, i)]
        BY <1>0, <4>1 DEF VictimInHand
      <4>3. s.valid[Row(v, c)]
        BY <1>5 DEF p
      <4>4. \A i \in 0 .. (c + 1) - 1 : i = c \/ i \in 0 .. c - 1
        BY <2>4
      <4>5. \A i \in 0 .. (c + 1) - 1 : w.valid[Row(v, i)]
        BY <2>7, <4>2, <4>3, <4>4
      <4>6. c + 1 # PAGE_NUM_PER_BLOCK
        <5>1. SUFFICES ASSUME c + 1 = PAGE_NUM_PER_BLOCK PROVE FALSE
          OBVIOUS
        <5>2. Offsets = 0 .. (c + 1) - 1
          BY <5>1 DEF Offsets
        <5>3. InvalidOf(s, v) = {}
          BY <2>7, <4>5, <5>2 DEF InvalidOf
        <5>4. s.invalidPageCnt[v] = 0
          BY <1>0, <5>3, OffsetsFinite DEF CountsExact
        <5>5. s.invalidPageCnt[v] > 0
          BY <1>0 DEF VictimInHand
        <5> QED BY <5>4, <5>5
      <4> QED BY <2>4, <4>5, <4>6
    <3>8. ASSUME NEW m \in Lpns, NEW i \in 0 .. (c + 1) - 1, w.ppn[m] = Row(v, i)
          PROVE  FALSE
      <4>1. i \in Offsets /\ (i = c \/ i \in 0 .. c - 1)
        BY <2>4 DEF Offsets
      <4>2. CASE m = l
        <5>1. q = Row(v, i)
          BY <1>1, <2>1, <2>7, <3>8, <4>2
        <5>2. Frontier(s, b) \in Offsets /\ q = Row(b, Frontier(s, b))
          BY <1>0, <2>6, FreePageBlank DEF q
        <5>3. v = b
          <6> DEFINE f == Frontier(s, b)
          <6>1. f \in Offsets /\ Row(v, i) = Row(b, f) /\ i \in Offsets /\ b \in Blocks
            BY <2>6, <4>1, <5>1, <5>2
          <6> HIDE DEF f
          <6> QED BY <6>1, RowInjective
        <5> QED BY <2>6, <2>7, <3>1, <5>3
      <4>3. CASE m # l
        <5>1. s.ppn[m] = Row(v, i)
          BY <1>1, <2>7, <3>8, <4>3
        <5>2. i # c
          BY <1>0, <1>2, <4>3, <5>1 DEF MapForward, p, l
        <5> QED BY <1>0, <4>1, <5>1, <5>2 DEF VictimInHand
      <4> QED BY <4>2, <4>3
    <3> QED BY <1>0, <3>1, <3>3, <3>4, <3>6, <3>7, <3>8 DEF VictimInHand
  <2>13. \A m \in Lpns : PmRead(w, m) = PmRead(s, m)
    <3>1. \A m \in Lpns : s.ppn[m] # q
      BY <1>0, <2>8, NoneIsNoIndex DEF MapForward
    <3>2. ASSUME NEW m \in Lpns, m # l PROVE PmRead(w, m) = PmRead(s, m)
      <4>1. w.ppn[m] = s.ppn[m]
        BY <1>1, <2>7, <3>2
      <4>2. s.ppn[m] # NONE => w.flash[s.ppn[m]] = s.flash[s.ppn[m]]
        BY <1>1, <2>7, <3>1
      <4> QED BY <4>1, <4>2 DEF PmRead
    <3>3. PmRead(w, l) = d /\ PmRead(s, l) = d
      <4>1. w.ppn[l] = q /\ w.flash[q] = d
        BY <1>1, <2>1, <2>7, <2>8
      <4> QED BY <1>2, <2>2, <2>8, <4>1, NoneIsNoIndex DEF PmRead, d
    <3> QED BY <3>2, <3>3
  <2>14. DieInv(u, v, c + 1, cl) /\ \A m \in Lpns : PmRead(u, m) = PmRead(s, m)
    BY <2>0, <2>9, <2>10, <2>11, <2>12, <2>13 DEF DieInv
  <2> QED BY <1>3, <2>14 DEF u, cl, p
<1> QED BY <1>2, <1>4, <1>5

(***************************************************************************)
(* Erasing the victim.                                                     *)
(***************************************************************************)

\* A block that is on no list can have its links cleared.
LEMMA ClearLinksKeepsWellFormed ==
    ASSUME NEW Nodes, NEW Lists, NONE \notin Nodes, NONE \notin Lists,
           NEW L \in ListFamily(Nodes, Lists),
           NEW list \in [Nodes -> Lists \cup {NONE}],
           NEW b \in Nodes, list[b] = NONE,
           WellFormed(L, Nodes, Lists, list),
           NEW M, M = ClearLinks(L, b)
    PROVE  M \in ListFamily(Nodes, Lists) /\ WellFormed(M, Nodes, Lists, list)
<1>0. /\ L.prev \in [Nodes -> Nodes \cup {NONE}] /\ L.next \in [Nodes -> Nodes \cup {NONE}]
      /\ L.head \in [Lists -> Nodes \cup {NONE}] /\ L.tail \in [Lists -> Nodes \cup {NONE}]
  BY DEF ListFamily
<1>1. M = [prev |-> [L.prev EXCEPT ![b] = NONE], next |-> [L.next EXCEPT ![b] = NONE],
           head |-> L.head, tail |-> L.tail]
  BY DEF ListFamily, ClearLinks
<1>2. M \in ListFamily(Nodes, Lists)
  BY <1>0, <1>1 DEF ListFamily
<1>3. /\ M.prev = [L.prev EXCEPT ![b] = NONE] /\ M.next = [L.next EXCEPT ![b] = NONE]
      /\ M.head = L.head /\ M.tail = L.tail
  BY <1>1
<1>4. EndsWellFormed(M, Lists, list)
  BY <1>0, <1>3 DEF WellFormed, EndsWellFormed
<1>5. LinksWellFormed(M, Nodes, list)
  BY <1>0, <1>3 DEF WellFormed, LinksWellFormed
<1>6. NoRing(M, Nodes, list)
  BY <1>0, <1>3 DEF WellFormed, NoRing
<1> QED BY <1>2, <1>4, <1>5, <1>6 DEF WellFormed

\* What EraseBlock leaves in the tables.
LEMMA EraseFacts ==
    ASSUME NEW s \in DieType, NEW v \in Blocks, NEW e, e = EraseBlock(s, v)
    PROVE  /\ e \in DieType
           /\ e.free = [s.free EXCEPT ![v] = TRUE]
           /\ e.invalidPageCnt = [s.invalidPageCnt EXCEPT ![v] = 0]
           /\ e.currentPage = [s.currentPage EXCEPT ![v] = 65535]
           /\ e.list = ClearLinks(s.list, v)
           /\ e.ppn = s.ppn /\ e.bad = s.bad
           /\ e.currentBlock = s.currentBlock /\ e.freeBlock = s.freeBlock
           /\ \A p \in Rows :
                 /\ BlockOf(p) = v => e.valid[p] /\ e.lpn[p] = NONE /\ e.flash[p] = Erased
                 /\ BlockOf(p) # v => /\ e.valid[p] = s.valid[p] /\ e.lpn[p] = s.lpn[p]
                                      /\ e.flash[p] = s.flash[p]
<1> DEFINE lists == ClearLinks(s.list, v)
           valid == Wiped(s.valid, v, TRUE)
           lpn   == Wiped(s.lpn, v, NONE)
           flash == Wiped(s.flash, v, Erased)
           free  == [s.free EXCEPT ![v] = TRUE]
           cnt   == [s.invalidPageCnt EXCEPT ![v] = 0]
           cp    == [s.currentPage EXCEPT ![v] = 65535]
<1>0. /\ s.list \in ListFamily(Blocks, Counts) /\ s.free \in [Blocks -> BOOLEAN]
      /\ s.invalidPageCnt \in [Blocks -> Counts] /\ s.currentPage \in [Blocks -> PageCounters]
      /\ s.valid \in [Rows -> BOOLEAN] /\ s.lpn \in [Rows -> Lpns \cup {NONE}]
      /\ s.flash \in [Rows -> Data \cup {Erased}]
  BY DEF DieType
<1>1. /\ e.free = free /\ e.invalidPageCnt = cnt /\ e.currentPage = cp
      /\ e.ppn = s.ppn /\ e.bad = s.bad
      /\ e.currentBlock = s.currentBlock /\ e.freeBlock = s.freeBlock
      /\ e.valid = valid /\ e.lpn = lpn /\ e.flash = flash
  BY DEF EraseBlock, DieType
<1>2. e.list = lists
  BY DEF EraseBlock, DieType
<1>3. /\ free \in [Blocks -> BOOLEAN]
      /\ valid \in [Rows -> BOOLEAN] /\ lpn \in [Rows -> Lpns \cup {NONE}]
      /\ flash \in [Rows -> Data \cup {Erased}]
  BY <1>0 DEF Wiped
<1>16. cp \in [Blocks -> PageCounters]
  BY <1>0 DEF PageCounters
<1>4. cnt \in [Blocks -> Counts]
  <2>1. 0 \in Counts
    BY GeometryAssumption DEF Counts
  <2> QED BY <1>0, <2>1
<1>5. lists \in ListFamily(Blocks, Counts)
  BY <1>0 DEF ListFamily, ClearLinks
<1> DEFINE s1 == [s EXCEPT !.free = free]
           s2 == [s1 EXCEPT !.invalidPageCnt = cnt]
           s3 == [s2 EXCEPT !.currentPage = cp]
           s4 == [s3 EXCEPT !.list = lists]
           s5 == [s4 EXCEPT !.valid = valid]
           s6 == [s5 EXCEPT !.lpn = lpn]
           s7 == [s6 EXCEPT !.flash = flash]
<1>6. e = s7
  <2>1. e = [s EXCEPT !.free = free, !.invalidPageCnt = cnt, !.currentPage = cp,
                      !.list = lists, !.valid = valid, !.lpn = lpn, !.flash = flash]
    BY DEF EraseBlock
  <2> HIDE DEF valid, lpn, flash, free, cnt, cp, lists
  <2> QED BY <2>1
<1>7. \A p \in Rows :
        /\ BlockOf(p) = v => valid[p] /\ lpn[p] = NONE /\ flash[p] = Erased
        /\ BlockOf(p) # v => /\ valid[p] = s.valid[p] /\ lpn[p] = s.lpn[p]
                             /\ flash[p] = s.flash[p]
  BY DEF Wiped
<1> HIDE DEF valid, lpn, flash, free, cnt, cp, lists
<1>8. s1 \in DieType
  BY <1>3, DieUpdate
<1> HIDE DEF s1
<1>9. s2 \in DieType
  BY <1>4, <1>8, DieUpdate
<1> HIDE DEF s2
<1>10. s3 \in DieType
  BY <1>16, <1>9, DieUpdate
<1> HIDE DEF s3
<1>11. s4 \in DieType
  BY <1>5, <1>10, DieUpdate
<1> HIDE DEF s4
<1>12. s5 \in DieType
  BY <1>3, <1>11, DieUpdate
<1> HIDE DEF s5
<1>13. s6 \in DieType
  BY <1>3, <1>12, DieUpdate
<1> HIDE DEF s6
<1>14. e \in DieType
  BY <1>3, <1>6, <1>13, DieUpdate
<1>15. \A p \in Rows :
        /\ BlockOf(p) = v => e.valid[p] /\ e.lpn[p] = NONE /\ e.flash[p] = Erased
        /\ BlockOf(p) # v => /\ e.valid[p] = s.valid[p] /\ e.lpn[p] = s.lpn[p]
                             /\ e.flash[p] = s.flash[p]
  BY <1>1, <1>7
<1> QED BY <1>1, <1>2, <1>14, <1>15 DEF free, cnt, cp, lists

\* Erasing the victim once all its pages are handled, and swapping it with the
\* spare block when the current block is full, keeps the invariant of the die
\* and what every read finds, and leaves room in the current block.
LEMMA RetireKeepsDieInv ==
    ASSUME NEW s, NEW v \in Blocks, NEW closed \in BOOLEAN,
           DieInv(s, v, PAGE_NUM_PER_BLOCK, closed), NEW k0, NEW f0
    PROVE  LET u == RetireVictim(s, v, closed)
           IN  /\ DieInv(u, NONE, k0, f0)
               /\ closed => ~Full(u, u.currentBlock)
               /\ \A m \in Lpns : PmRead(u, m) = PmRead(s, m)
<1> DEFINE e == EraseBlock(s, v)
           u == RetireVictim(s, v, closed)
           P == PAGE_NUM_PER_BLOCK
<1>0. /\ s \in DieType /\ MapForward(s) /\ MapBackward(s, v, P) /\ WrittenPrefix(s)
      /\ Pools(s) /\ CountsExact(s) /\ ListsWellFormed(s, v)
      /\ VictimInHand(s, v, P, closed) /\ v # NONE
      /\ P \in Nat /\ P > 0
  BY NoneIsNoIndex, GeometryAssumption, SMTT(30) DEF DieInv
<1>1. /\ s.ppn \in [Lpns -> Rows \cup {NONE}] /\ s.lpn \in [Rows -> Lpns \cup {NONE}]
      /\ s.flash \in [Rows -> Data \cup {Erased}] /\ s.valid \in [Rows -> BOOLEAN]
      /\ s.currentBlock \in Blocks /\ s.freeBlock \in Blocks
      /\ s.invalidPageCnt \in [Blocks -> Counts] /\ s.free \in [Blocks -> BOOLEAN]
      /\ s.currentPage \in [Blocks -> PageCounters]
      /\ s.list \in ListFamily(Blocks, Counts)
  BY <1>0 DEF DieType
<1>2. /\ e \in DieType
      /\ e.free = [s.free EXCEPT ![v] = TRUE]
      /\ e.invalidPageCnt = [s.invalidPageCnt EXCEPT ![v] = 0]
      /\ e.currentPage = [s.currentPage EXCEPT ![v] = 65535]
      /\ e.list = ClearLinks(s.list, v)
      /\ e.ppn = s.ppn /\ e.bad = s.bad
      /\ e.currentBlock = s.currentBlock /\ e.freeBlock = s.freeBlock
      /\ \A p \in Rows :
            /\ BlockOf(p) = v => e.valid[p] /\ e.lpn[p] = NONE /\ e.flash[p] = Erased
            /\ BlockOf(p) # v => /\ e.valid[p] = s.valid[p] /\ e.lpn[p] = s.lpn[p]
                                 /\ e.flash[p] = s.flash[p]
  <2>1. s \in DieType
    BY <1>0
  <2>2. e = EraseBlock(s, v)
    OBVIOUS
  <2> HIDE DEF e, u
  <2> QED BY <2>1, <2>2, EraseFacts
<1> HIDE DEF e
<1>3. /\ u.invalidPageCnt = e.invalidPageCnt /\ u.currentPage = e.currentPage
      /\ u.list = e.list /\ u.ppn = e.ppn /\ u.bad = e.bad
      /\ u.valid = e.valid /\ u.lpn = e.lpn /\ u.flash = e.flash
      /\ u.free = IF closed THEN [e.free EXCEPT ![v] = FALSE] ELSE e.free
      /\ u.currentBlock = IF closed THEN s.freeBlock ELSE s.currentBlock
      /\ u.freeBlock = IF closed THEN v ELSE s.freeBlock
  <2> DEFINE x == [e.free EXCEPT ![v] = FALSE]
  <2>1. u = IF closed THEN [e EXCEPT !.free = x, !.currentBlock = s.freeBlock, !.freeBlock = v]
            ELSE e
    BY DEF RetireVictim, e
  <2> HIDE DEF u, x
  <2>2. /\ u.invalidPageCnt = e.invalidPageCnt /\ u.currentPage = e.currentPage
        /\ u.list = e.list /\ u.ppn = e.ppn /\ u.bad = e.bad
        /\ u.valid = e.valid /\ u.lpn = e.lpn /\ u.flash = e.flash
        /\ u.free = IF closed THEN x ELSE e.free
        /\ u.currentBlock = IF closed THEN s.freeBlock ELSE e.currentBlock
        /\ u.freeBlock = IF closed THEN v ELSE e.freeBlock
    <3>1. e \in DieType
      BY <1>2
    <3>2. CASE closed
      <4>1. u = [e EXCEPT !.free = x, !.currentBlock = s.freeBlock, !.freeBlock = v]
        BY <2>1, <3>2
      <4> QED BY <3>1, <3>2, <4>1 DEF DieType
    <3>3. CASE ~closed
      BY <2>1, <3>3
    <3> QED BY <3>2, <3>3
  <2> QED BY <1>2, <2>2 DEF x
<1>4. u \in DieType
  <2>1. CASE ~closed
    BY <1>2, <2>1 DEF RetireVictim, e
  <2>2. CASE closed
    <3> DEFINE x == [e.free EXCEPT ![v] = FALSE]
               s1 == [e EXCEPT !.free = x]
               s2 == [s1 EXCEPT !.currentBlock = s.freeBlock]
               s3 == [s2 EXCEPT !.freeBlock = v]
    <3>1. u = s3
      BY <2>2 DEF RetireVictim, e
    <3>2. x \in [Blocks -> BOOLEAN]
      BY <1>1, <1>2
    <3> HIDE DEF u, x
    <3>3. s1 \in DieType
      BY <1>2, <3>2, DieUpdate
    <3> HIDE DEF s1
    <3>4. s2 \in DieType
      BY <1>1, <3>3, DieUpdate
    <3> HIDE DEF s2
    <3> QED BY <3>1, <3>4, DieUpdate
  <2> QED BY <2>1, <2>2
<1> HIDE DEF u
<1>5. v \notin {s.currentBlock, s.freeBlock} /\ s.invalidPageCnt[v] > 0
  BY <1>0 DEF VictimInHand
<1>6. Frontier(s, v) # 0
  <2>1. InvalidOf(s, v) \subseteq Offsets
    BY DEF InvalidOf
  <2>2. InvalidOf(s, v) # {}
    BY <1>0, <1>5, <2>1, OffsetsFinite DEF CountsExact
  <2>3. PICK i \in Offsets : ~s.valid[Row(v, i)]
    BY <2>2 DEF InvalidOf
  <2>4. i < Frontier(s, v) /\ i \in Nat
    BY <1>0, <2>3 DEF WrittenPrefix, Offsets
  <2> QED BY <2>4
<1>7. ~s.free[v] /\ ~s.bad[v] /\ v # metadataBlockNo
  BY <1>0, <1>6 DEF Pools
<1>8. Frontier(s, s.freeBlock) \in Counts /\ Frontier(s, s.freeBlock) < P
  <2>1. Frontier(s, s.freeBlock) \in Counts /\ Frontier(s, s.freeBlock) <= P
    BY <1>0, <1>1, CountFacts DEF VictimInHand
  <2>2. Frontier(s, s.freeBlock) # P
    BY <1>0 DEF VictimInHand
  <2> QED BY <1>0, <2>1, <2>2 DEF Counts
<1>9. \A b \in Blocks : Frontier(u, b) = IF b = v THEN 0 ELSE Frontier(s, b)
  <2>1. Bump(65535) = 0
    BY BumpFacts DEF PageCounters
  <2> QED BY <1>1, <1>2, <1>3, <2>1 DEF Frontier
<1>10. \A m \in Lpns : s.ppn[m] # NONE => s.ppn[m] \in Rows /\ BlockOf(s.ppn[m]) # v
  <2> SUFFICES ASSUME NEW m \in Lpns, s.ppn[m] # NONE, BlockOf(s.ppn[m]) = v PROVE FALSE
    BY <1>1
  <2>1. PICK i \in Offsets : s.ppn[m] = Row(v, i)
    BY <1>1, RowFacts
  <2>2. i \in 0 .. P - 1
    BY DEF Offsets
  <2> QED BY <1>0, <2>1, <2>2 DEF VictimInHand
<1>11. \A b \in Blocks, i \in Offsets :
          /\ Row(b, i) \in Rows
          /\ b = v => u.valid[Row(b, i)] /\ u.lpn[Row(b, i)] = NONE
                      /\ u.flash[Row(b, i)] = Erased
          /\ b # v => /\ u.valid[Row(b, i)] = s.valid[Row(b, i)]
                      /\ u.lpn[Row(b, i)] = s.lpn[Row(b, i)]
                      /\ u.flash[Row(b, i)] = s.flash[Row(b, i)]
  BY <1>2, <1>3, RowFacts
<1>12. MapForward(u)
  BY <1>0, <1>2, <1>3, <1>10 DEF MapForward
<1>13. MapBackward(u, NONE, k0)
  BY <1>0, <1>2, <1>3, <1>11 DEF MapBackward
<1>14. WrittenPrefix(u)
  <2>1. \A i \in Offsets : ~(i < 0)
    BY DEF Offsets
  <2> QED BY <1>0, <1>9, <1>11, <2>1 DEF WrittenPrefix
<1>15. Pools(u)
  <2>1. \A b \in Blocks : u.free[b] \/ u.bad[b] \/ b = metadataBlockNo => Frontier(u, b) = 0
    BY <1>0, <1>1, <1>2, <1>3, <1>9 DEF Pools
  <2>2. u.currentBlock # u.freeBlock
    BY <1>0, <1>3, <1>5 DEF Pools
  <2>3. \A b \in {s.currentBlock, s.freeBlock} : b \in Usable(u.bad) /\ ~u.free[b]
    BY <1>0, <1>1, <1>2, <1>3, <1>5 DEF Pools
  <2>4. closed => v \in Usable(u.bad) /\ ~u.free[v]
    BY <1>1, <1>2, <1>3, <1>7 DEF Usable
  <2>5. metadataBlockNo \in Blocks => ~u.free[metadataBlockNo]
    BY <1>0, <1>1, <1>2, <1>3, <1>7 DEF Pools
  <2> QED BY <1>3, <2>1, <2>2, <2>3, <2>4, <2>5 DEF Pools
<1>16. CountsExact(u)
  <2>1. InvalidOf(u, v) = {}
    BY <1>11 DEF InvalidOf
  <2>2. \A b \in Blocks \ {v} : InvalidOf(u, b) = InvalidOf(s, b)
    BY <1>11 DEF InvalidOf
  <2>3. Cardinality(InvalidOf(u, v)) = 0
    BY <2>1, OffsetsFinite
  <2> QED BY <1>0, <1>1, <1>2, <1>3, <2>2, <2>3 DEF CountsExact
<1>17. ListsWellFormed(u, NONE)
  <2> DEFINE in == ListOf(s, v)
  <2>1. ListOf(u, NONE) = in
    BY <1>0, <1>1, <1>2, <1>3, NoneIsNoIndex DEF ListOf
  <2>2. in \in [Blocks -> Counts \cup {NONE}] /\ in[v] = NONE
    BY <1>1 DEF ListOf
  <2>3. WellFormed(s.list, Blocks, Counts, in)
    BY <1>0 DEF ListsWellFormed
  <2> HIDE DEF in
  <2>4. WellFormed(u.list, Blocks, Counts, in)
    BY <1>1, <1>2, <1>3, <2>2, <2>3, NoneIsNoIndex, ClearLinksKeepsWellFormed
  <2>5. /\ u.list.prev = [s.list.prev EXCEPT ![v] = NONE]
        /\ u.list.next = [s.list.next EXCEPT ![v] = NONE]
    BY <1>1, <1>2, <1>3 DEF ClearLinks, ListFamily
  <2>6. \A b \in Blocks : u.invalidPageCnt[b] = 0
           => u.list.prev[b] = NONE /\ u.list.next[b] = NONE
    <3>1. s.list.prev \in [Blocks -> Blocks \cup {NONE}]
          /\ s.list.next \in [Blocks -> Blocks \cup {NONE}]
      BY <1>1 DEF ListFamily
    <3> QED BY <1>0, <1>1, <1>2, <1>3, <2>5, <3>1 DEF ListsWellFormed
  <2> QED BY <2>1, <2>4, <2>6 DEF ListsWellFormed
<1>18. VictimInHand(u, NONE, k0, f0)
  <2>1. closed => Frontier(u, u.freeBlock) = 0
    BY <1>3, <1>9
  <2>2. ~closed => Frontier(u, u.freeBlock) = 0
    BY <1>0, <1>1, <1>3, <1>5, <1>9 DEF VictimInHand
  <2> QED BY <2>1, <2>2 DEF VictimInHand
<1>19. closed => ~Full(u, u.currentBlock)
  <2>1. closed => Frontier(u, u.currentBlock) < P
    BY <1>1, <1>3, <1>5, <1>8, <1>9
  <2> QED BY <1>0, <1>1, <1>3, <1>4, <2>1, CountFacts
<1>20. \A m \in Lpns : PmRead(u, m) = PmRead(s, m)
  BY <1>2, <1>3, <1>10 DEF PmRead
<1> QED BY <1>4, <1>12, <1>13, <1>14, <1>15, <1>16, <1>17, <1>18, <1>19, <1>20
        DEF DieInv, u

(***************************************************************************)
(* The initial state.                                                      *)
(***************************************************************************)

\* A die as the Init functions of page_map.c leave it satisfies the
\* invariant, and every logical page of it reads as erased.
LEMMA FreshDieInv ==
    ASSUME NEW s \in FreshDies, InitDieBlock(s), NEW c, NEW f
    PROVE  DieInv(s, NONE, c, f) /\ \A m \in Lpns : PmRead(s, m) = Erased
<1>1. PICK bad \in BadBlockTables, a \in Blocks, z \in Blocks : s = FreshDie(bad, a, z)
  BY DEF FreshDies
<1>2. /\ s.ppn = [l \in Lpns |-> NONE] /\ s.valid = [p \in Rows |-> TRUE]
      /\ s.lpn = [p \in Rows |-> NONE] /\ s.bad = bad
      /\ s.free = [b \in Blocks |-> b \notin {metadataBlockNo, a, z}]
      /\ s.invalidPageCnt = [b \in Blocks |-> 0]
      /\ s.currentPage = [b \in Blocks |-> 65535]
      /\ s.list = EmptyLists(Blocks, Counts)
      /\ s.currentBlock = a /\ s.freeBlock = z
      /\ s.flash = [p \in Rows |-> Erased]
  BY <1>1 DEF FreshDie
<1>3. s.list \in ListFamily(Blocks, Counts)
  BY <1>2 DEF EmptyLists, ListFamily
<1>4. s \in DieType
  <2>1. 0 \in Counts /\ 65535 \in PageCounters /\ bad \in [Blocks -> BOOLEAN]
    BY GeometryAssumption, SMTT(30) DEF Counts, PageCounters, BadBlockTables
  <2> QED BY <1>1, <1>3, <2>1 DEF DieType, FreshDie
<1>5. \A b \in Blocks : Frontier(s, b) = 0
  <2>1. Bump(65535) = 0
    BY BumpFacts DEF PageCounters
  <2> QED BY <1>2, <2>1 DEF Frontier
<1>6. \A b \in Blocks, i \in Offsets : Row(b, i) \in Rows /\ ~(i < 0)
  BY RowFacts DEF Offsets
<1>7. WrittenPrefix(s)
  BY <1>2, <1>5, <1>6 DEF WrittenPrefix
<1>8. MapForward(s) /\ MapBackward(s, NONE, c)
  BY <1>2, <1>6 DEF MapForward, MapBackward
<1>9. Pools(s)
  <2>1. a \in Usable(bad) /\ z \in Usable(bad)
        /\ \A b \in Usable(bad) : a <= b /\ b <= z
    BY <1>2 DEF InitDieBlock
  <2>2. PICK x, y \in Usable(bad) : x # y
    BY DEF BadBlockTables
  <2>3. x \in Nat /\ y \in Nat /\ a \in Nat /\ z \in Nat
    BY GeometryAssumption DEF Usable, Blocks
  <2>4. a # z
    BY <2>1, <2>2, <2>3
  <2>6. \A b \in Blocks : s.free[b] = (b \notin {metadataBlockNo, a, z})
    BY <1>2
  <2>5. ~s.free[a] /\ ~s.free[z] /\ (metadataBlockNo \in Blocks => ~s.free[metadataBlockNo])
    BY <2>6
  <2> QED BY <1>2, <1>5, <2>1, <2>4, <2>5 DEF Pools
<1>10. CountsExact(s)
  <2>1. \A b \in Blocks : InvalidOf(s, b) = {}
    BY <1>2, <1>6 DEF InvalidOf
  <2> QED BY <1>2, <2>1, OffsetsFinite DEF CountsExact
<1>11. ListsWellFormed(s, NONE)
  BY <1>2 DEF ListsWellFormed, WellFormed, EndsWellFormed, LinksWellFormed, NoRing, ListOf,
             EmptyLists
<1>12. VictimInHand(s, NONE, c, f)
  BY <1>2, <1>5 DEF VictimInHand
<1>13. \A m \in Lpns : PmRead(s, m) = Erased
  BY <1>2 DEF PmRead
<1> QED BY <1>4, <1>7, <1>8, <1>9, <1>10, <1>11, <1>12, <1>13 DEF DieInv

\* The invariant holds when the firmware enters its main loop.
LEMMA InitIInv == Init => IInv
<1> SUFFICES ASSUME Init PROVE IInv
  OBVIOUS
<1>0. 0 \in Dies /\ 0 \in Counts
  BY GeometryAssumption DEF Dies, Counts
<1>1. \A d \in Dies : die[d] \in FreshDies /\ InitDieBlock(die[d])
  BY DEF Init
<1>2. \A d \in Dies : Victim(d) = NONE
  BY DEF Init, NoVictim, Victim
<1>3. \A d \in Dies : DieInv(die[d], NONE, gc.pageCount, gc.closedFlag)
  BY <1>1, FreshDieInv
<1>4. die \in [Dies -> DieType]
  BY <1>3 DEF DieInv, Init
<1>5. ControlOK
  BY <1>0 DEF Init, ControlOK, NoVictim, NoWrite, GcType
<1>6. WriterHasRoom
  BY DEF Init, WriterHasRoom
<1> QED BY <1>2, <1>3, <1>4, <1>5, <1>6 DEF IInv

(***************************************************************************)
(* The steps.  What a step does to one die is said by the lemmas above;    *)
(* what it does to the others is nothing.                                  *)
(***************************************************************************)

\* Without a victim, the place of the collector is irrelevant.
LEMMA IdleDieInv ==
    ASSUME NEW s, NEW c, NEW f, DieInv(s, NONE, c, f), NEW c1, NEW f1
    PROVE  DieInv(s, NONE, c1, f1)
<1>1. NONE \notin Blocks
  BY NoneIsNoIndex
<1>2. MapBackward(s, NONE, c) => MapBackward(s, NONE, c1)
  BY <1>1 DEF MapBackward
<1>3. VictimInHand(s, NONE, c, f) => VictimInHand(s, NONE, c1, f1)
  BY DEF VictimInHand
<1> QED BY <1>2, <1>3 DEF DieInv

\* table D of dies with record u for die d
Put(D, d, u) == [D EXCEPT ![d] = u]

\* the victim of die e when that of die d is v and no other die has one
VictimOf(e, d, v) == IF e = d THEN v ELSE NONE

\* the dies other than d are not being collected
OthersIdle(D, d, c, f) == \A e \in Dies \ {d} : DieInv(D[e], NONE, c, f)

\* what a write and what a step of the collector do to the reads of one die
WriteSeen(u, s, l, v) == \A m \in Lpns : PmRead(u, m) = IF m = l THEN v ELSE PmRead(s, m)
NothingSeen(u, s) == \A m \in Lpns : PmRead(u, m) = PmRead(s, m)

\* A step that rewrites the tables of one die, and no table of another,
\* needs the invariant of that die only.
LEMMA OneDieChanges ==
    ASSUME NEW D \in [Dies -> DieType], NEW d \in Dies, NEW u, NEW v1, NEW c, NEW f,
           NEW c1, NEW f1, DieInv(u, v1, c1, f1),
           OthersIdle(D, d, c, f),
           NEW E, E = Put(D, d, u)
    PROVE  /\ E \in [Dies -> DieType]
           /\ \A e \in Dies : DieInv(E[e], VictimOf(e, d, v1), c1, f1)
<1>1. u \in DieType
  BY DEF DieInv
<1>2. E \in [Dies -> DieType]
  BY <1>1 DEF Put
<1>3. ASSUME NEW e \in Dies
      PROVE  DieInv(E[e], VictimOf(e, d, v1), c1, f1)
  <2>1. CASE e = d
    BY <2>1 DEF VictimOf, Put
  <2>2. CASE e # d
    <3>1. DieInv(D[e], NONE, c, f)
      BY <2>2 DEF OthersIdle
    <3>2. DieInv(D[e], NONE, c1, f1)
      BY <3>1, IdleDieInv
    <3> QED BY <2>2, <3>2 DEF VictimOf, Put
  <2> QED BY <2>1, <2>2
<1> QED BY <1>2, <1>3

\* what the reads of all logical pages find, in a table D of dies
ReadsOf(D) == [d \in Dies |-> [l \in Lpns |-> PmRead(D[d], l)]]

Written(R, d, l, v) == [R EXCEPT ![d][l] = v]

\* A host page write changes what one logical page of one die reads as.
LEMMA ReadsAfterWrite ==
    ASSUME NEW D \in [Dies -> DieType], NEW d \in Dies, NEW l \in Lpns, NEW v, NEW u,
           WriteSeen(u, D[d], l, v),
           NEW E, E = Put(D, d, u)
    PROVE  ReadsOf(E) = Written(ReadsOf(D), d, l, v)
<1>1. \A e \in Dies : E[e] = IF e = d THEN u ELSE D[e]
  BY DEF Put
<1> QED BY <1>1 DEF ReadsOf, WriteSeen, Written

\* A step that no read of its die notices is noticed by no read at all.
LEMMA ReadsUnchanged ==
    ASSUME NEW D \in [Dies -> DieType], NEW d \in Dies, NEW u,
           NothingSeen(u, D[d]),
           NEW E, E = Put(D, d, u)
    PROVE  ReadsOf(E) = ReadsOf(D)
<1>1. \A e \in Dies : E[e] = IF e = d THEN u ELSE D[e]
  BY DEF Put
<1> QED BY <1>1 DEF ReadsOf, NothingSeen

\* PmWrite without a collection keeps the invariant and is a write of the
\* abstract store.
LEMMA PmWriteStep ==
    ASSUME IInv, NEW d \in Dies, NEW l \in Lpns, NEW v \in Data, PmWrite(d, l, v)
    PROVE  IInv' /\ ReadsOf(die') = Written(ReadsOf(die), d, l, v)
<1> DEFINE s == die[d]
<1>0. /\ pc = "idle" /\ gc.victimBlock = NONE
      /\ pc' = pc /\ req' = [dieNo |-> d, dieLpn |-> l, data |-> v] /\ gc' = gc
      /\ \A e \in Dies : DieInv(die[e], NONE, gc.pageCount, gc.closedFlag)
      /\ die \in [Dies -> DieType]
  BY DEF IInv, ControlOK, PmWrite, Victim
<1>1. \E u : /\ DieInv(u, NONE, gc.pageCount, gc.closedFlag)
             /\ \A m \in Lpns : PmRead(u, m) = IF m = l THEN v ELSE PmRead(s, m)
             /\ die' = [die EXCEPT ![d] = u]
  <2>1. CASE ~Full(s, s.currentBlock)
    <3>1. die' = [die EXCEPT ![d] = WritePage(s, l, v)]
      BY <2>1 DEF PmWrite
    <3>2. /\ DieInv(WritePage(s, l, v), NONE, gc.pageCount, gc.closedFlag)
          /\ \A m \in Lpns : PmRead(WritePage(s, l, v), m) = IF m = l THEN v ELSE PmRead(s, m)
      BY <1>0, <2>1, WriteKeepsDieInv
    <3> QED BY <3>1, <3>2
  <2>2. CASE Full(s, s.currentBlock)
    <3>1. PICK b \in FreeBlocks(s) : die' = [die EXCEPT ![d] = WritePage(OpenBlock(s, b), l, v)]
      BY <2>2 DEF PmWrite, NextFreeBlock
    <3> DEFINE o == OpenBlock(s, b)
    <3>2. /\ DieInv(o, NONE, gc.pageCount, gc.closedFlag)
          /\ ~Full(o, o.currentBlock)
          /\ \A m \in Lpns : PmRead(o, m) = PmRead(s, m)
      BY <1>0, OpenKeepsDieInv
    <3>3. die' = [die EXCEPT ![d] = WritePage(o, l, v)]
      BY <3>1
    <3> HIDE DEF o, s
    <3>4. /\ DieInv(WritePage(o, l, v), NONE, gc.pageCount, gc.closedFlag)
          /\ \A m \in Lpns : PmRead(WritePage(o, l, v), m) = IF m = l THEN v ELSE PmRead(o, m)
      BY <3>2, WriteKeepsDieInv
    <3> QED BY <3>2, <3>3, <3>4
  <2> QED BY <2>1, <2>2
<1>2. PICK u : /\ DieInv(u, NONE, gc.pageCount, gc.closedFlag)
               /\ \A m \in Lpns : PmRead(u, m) = IF m = l THEN v ELSE PmRead(s, m)
               /\ die' = [die EXCEPT ![d] = u]
  BY <1>1
<1>3. /\ die' \in [Dies -> DieType]
      /\ \A e \in Dies : DieInv(die'[e], NONE, gc.pageCount, gc.closedFlag)
  <2>1. /\ die' \in [Dies -> DieType]
        /\ \A e \in Dies : DieInv(die'[e], VictimOf(e, d, NONE),
                                  gc.pageCount, gc.closedFlag)
    <3> DEFINE E == die'
    <3>1. E = Put(die, d, u) /\ DieInv(u, NONE, gc.pageCount, gc.closedFlag)
          /\ OthersIdle(die, d, gc.pageCount, gc.closedFlag)
      BY <1>0, <1>2 DEF OthersIdle, Put
    <3> HIDE DEF E
    <3> QED BY <1>0, <3>1, OneDieChanges DEF E
  <2> QED BY <2>1 DEF VictimOf
<1>4. ReadsOf(die') = Written(ReadsOf(die), d, l, v)
  <2> DEFINE E == die'
  <2>1. E = Put(die, d, u) /\ die \in [Dies -> DieType]
        /\ WriteSeen(u, die[d], l, v)
    BY <1>0, <1>2 DEF WriteSeen, Put
  <2> HIDE DEF E, s
  <2>2. ReadsOf(E) = Written(ReadsOf(die), d, l, v)
    BY <2>1, ReadsAfterWrite
  <2> QED BY <2>2 DEF E
<1>5. ControlOK'
  BY <1>0 DEF IInv, ControlOK
<1>6. WriterHasRoom'
  BY <1>0 DEF WriterHasRoom
<1>7. \A e \in Dies : Victim(e)' = NONE
  BY <1>0 DEF Victim
<1> QED BY <1>0, <1>3, <1>4, <1>5, <1>6, <1>7 DEF IInv

\* Entering GarbageCollection keeps the invariant and is not seen by a
\* read.
LEMMA PmWriteNeedsGCStep ==
    ASSUME IInv, NEW d \in Dies, NEW l \in Lpns, NEW v \in Data, PmWriteNeedsGC(d, l, v)
    PROVE  IInv' /\ ReadsOf(die') = ReadsOf(die)
<1>0. /\ pc = "idle" /\ gc.victimBlock = NONE /\ pc' = "gc" /\ die' = die
      /\ req' = [dieNo |-> d, dieLpn |-> l, data |-> v] /\ gc' = NoVictim(0)
      /\ Full(die[d], die[d].currentBlock)
      /\ \A e \in Dies : DieInv(die[e], NONE, gc.pageCount, gc.closedFlag)
      /\ die \in [Dies -> DieType]
  BY DEF IInv, ControlOK, PmWriteNeedsGC, Victim
<1>1. 0 \in Dies /\ 0 \in Counts
  BY GeometryAssumption DEF Dies, Counts
<1>2. ControlOK'
  BY <1>0, <1>1 DEF ControlOK, NoVictim, GcType
<1>3. \A e \in Dies : Victim(e)' = NONE
  BY <1>0 DEF Victim, NoVictim
<1>4. \A e \in Dies : DieInv(die'[e], NONE, gc'.pageCount, gc'.closedFlag)
  BY <1>0, IdleDieInv
<1>5. WriterHasRoom'
  <2>1. ~(d < 0)
    BY DEF Dies
  <2> QED BY <1>0, <2>1 DEF WriterHasRoom, NoVictim, Full
<1>6. ReadsOf(die') = ReadsOf(die)
  BY <1>0
<1> QED BY <1>0, <1>2, <1>3, <1>4, <1>5, <1>6 DEF IInv

\* Taking a victim off its list keeps the invariant and is not seen by a
\* read.
LEMMA GcSelectVictimStep ==
    ASSUME IInv, GcSelectVictim
    PROVE  IInv' /\ ReadsOf(die') = ReadsOf(die)
<1> DEFINE d == gc.dieNo
           s == die[d]
           full == Full(s, s.currentBlock)
<1>0. /\ pc = "gc" /\ gc.victimBlock = NONE /\ d \in Dies
      /\ pc' = pc /\ req' = req
      /\ \A e \in Dies : DieInv(die[e], NONE, gc.pageCount, gc.closedFlag)
      /\ die \in [Dies -> DieType]
      /\ req \in [dieNo : Dies, dieLpn : Lpns \cup {0}, data : Data \cup {Erased}]
  BY DEF IInv, ControlOK, GcSelectVictim, Collecting, Victim, GcType
<1>1. PICK k \in VictimCounts(s) :
        /\ gc' = [dieNo       |-> d,
                  victimBlock |-> s.list.head[k],
                  pageCount   |-> IF k = PAGE_NUM_PER_BLOCK THEN k ELSE 0,
                  closedFlag  |-> full]
        /\ die' = [die EXCEPT ![d].list = PopHead(@, k)]
  BY DEF GcSelectVictim
<1> DEFINE u == [s EXCEPT !.list = PopHead(@, k)]
           v == s.list.head[k]
           c == IF k = PAGE_NUM_PER_BLOCK THEN PAGE_NUM_PER_BLOCK ELSE 0
<1>2. /\ v \in Blocks /\ c \in Counts /\ DieInv(u, v, c, full)
      /\ \A m \in Lpns : PmRead(u, m) = PmRead(s, m)
  BY <1>0, <1>1, SelectKeepsDieInv
<1>3. die' = [die EXCEPT ![d] = u]
  BY <1>1
<1>4. gc'.dieNo = d /\ gc'.victimBlock = v /\ gc'.pageCount = c /\ gc'.closedFlag = full
  BY <1>1
<1>5. full \in BOOLEAN
  BY DEF Full
<1>6. gc' \in GcType
  BY <1>0, <1>1, <1>2, <1>5 DEF GcType
<1> HIDE DEF u, v, c, full
<1>7. /\ die' \in [Dies -> DieType]
      /\ \A e \in Dies : DieInv(die'[e], VictimOf(e, d, v), c, full)
  <2> DEFINE E == die'
  <2>1. E = Put(die, d, u)
    BY <1>3 DEF Put
  <2> DEFINE c0 == gc.pageCount
             f0 == gc.closedFlag
  <2>2. /\ die \in [Dies -> DieType] /\ d \in Dies /\ DieInv(u, v, c, full)
        /\ OthersIdle(die, d, c0, f0)
    BY <1>0, <1>2 DEF OthersIdle
  <2> HIDE DEF E, s, d, c0, f0
  <2>3. /\ E \in [Dies -> DieType]
        /\ \A e \in Dies : DieInv(E[e], VictimOf(e, d, v), c, full)
    BY <2>1, <2>2, OneDieChanges
  <2> QED BY <2>3 DEF E
<1>8. \A e \in Dies : Victim(e)' = VictimOf(e, d, v)
  BY <1>4 DEF Victim, VictimOf
<1>9. ReadsOf(die') = ReadsOf(die)
  <2> DEFINE E == die'
  <2>1. E = Put(die, d, u)
    BY <1>3 DEF Put
  <2>2. die \in [Dies -> DieType] /\ d \in Dies
        /\ NothingSeen(u, die[d])
    BY <1>0, <1>2 DEF NothingSeen
  <2> HIDE DEF E, s, d
  <2>3. ReadsOf(E) = ReadsOf(die)
    BY <2>1, <2>2, ReadsUnchanged
  <2> QED BY <2>3 DEF E
<1>10. ControlOK'
  BY <1>0, <1>6 DEF IInv, ControlOK
<1>11. WriterHasRoom'
  <2>1. WriterHasRoom
    BY DEF IInv
  <2>2. req.dieNo \in Dies
    BY <1>0
  <2>3. CASE req.dieNo = d
    <3>1. full
      BY <1>0, <2>1, <2>3 DEF WriterHasRoom, full
    <3>2. v # NONE /\ ~(d < d)
      BY <1>0, <1>2, NoneIsNoIndex DEF Dies
    <3> QED BY <1>0, <1>4, <2>1, <2>3, <3>1, <3>2 DEF WriterHasRoom
  <2>4. CASE req.dieNo # d
    <3>1. die'[req.dieNo] = die[req.dieNo]
      BY <1>0, <1>3, <2>2, <2>4
    <3> QED BY <1>0, <1>4, <2>1, <2>4, <3>1 DEF WriterHasRoom, Full
  <2> QED BY <2>3, <2>4
<1> QED BY <1>0, <1>4, <1>7, <1>8, <1>9, <1>10, <1>11 DEF IInv

\* The failing assertion of GarbageCollection leaves the tables as they
\* are.
LEMMA GcAbortStep ==
    ASSUME IInv, GcAbort
    PROVE  IInv' /\ ReadsOf(die') = ReadsOf(die)
<1>0. pc = "gc" /\ gc.victimBlock = NONE /\ pc' = "halted" /\ die' = die /\ req' = req /\ gc' = gc
  BY DEF GcAbort, Collecting
<1>1. ControlOK'
  BY <1>0 DEF IInv, ControlOK
<1>2. WriterHasRoom'
  BY <1>0 DEF WriterHasRoom
<1>3. \A e \in Dies : Victim(e)' = Victim(e)
  BY <1>0 DEF Victim
<1> QED BY <1>0, <1>1, <1>2, <1>3 DEF IInv

\* An iteration of the copy loop keeps the invariant and is not seen by a
\* read.
LEMMA GcCopyPageStep ==
    ASSUME IInv, GcCopyPage
    PROVE  IInv' /\ ReadsOf(die') = ReadsOf(die)
<1> DEFINE d == gc.dieNo
           s == die[d]
           v == gc.victimBlock
           c == gc.pageCount
           f == gc.closedFlag
           u == CopyPage(s, Row(v, c), f)
           cl == CopyCloses(s, Row(v, c), f)
           n == c + 1
<1>0. /\ pc = "gc" /\ v # NONE /\ d \in Dies /\ c \in Counts /\ c < PAGE_NUM_PER_BLOCK
      /\ f \in BOOLEAN /\ v \in Blocks
      /\ pc' = pc /\ req' = req
      /\ gc' = [gc EXCEPT !.pageCount = n, !.closedFlag = cl]
      /\ die' = [die EXCEPT ![d] = u]
      /\ die \in [Dies -> DieType]
      /\ req \in [dieNo : Dies, dieLpn : Lpns \cup {0}, data : Data \cup {Erased}]
      /\ gc \in GcType
  BY DEF IInv, ControlOK, GcCopyPage, Collecting, GcType
<1>1. DieInv(s, v, c, f) /\ \A e \in Dies \ {d} : DieInv(die[e], NONE, c, f)
  BY <1>0 DEF IInv, Victim
<1>2. c \in Offsets /\ n \in Counts
  BY <1>0, CountFacts
<1>3. DieInv(u, v, n, cl) /\ cl \in BOOLEAN /\ \A m \in Lpns : PmRead(u, m) = PmRead(s, m)
  BY <1>0, <1>1, <1>2, CopyKeepsDieInv
<1>4. f => cl
  BY DEF CopyCloses
<1> HIDE DEF u, cl, n
<1>5. gc'.dieNo = d /\ gc'.victimBlock = v /\ gc'.pageCount = n /\ gc'.closedFlag = cl
      /\ gc' \in GcType
  BY <1>0, <1>2, <1>3 DEF GcType
<1>6. /\ die' \in [Dies -> DieType]
      /\ \A e \in Dies : DieInv(die'[e], VictimOf(e, d, v), n, cl)
  <2> DEFINE E == die'
  <2>1. E = Put(die, d, u)
    BY <1>0 DEF Put
  <2>2. /\ die \in [Dies -> DieType] /\ d \in Dies /\ DieInv(u, v, n, cl)
        /\ OthersIdle(die, d, c, f)
    BY <1>0, <1>1, <1>3 DEF OthersIdle
  <2> HIDE DEF E, s, d, v, c, f
  <2>3. /\ E \in [Dies -> DieType]
        /\ \A e \in Dies : DieInv(E[e], VictimOf(e, d, v), n, cl)
    BY <2>1, <2>2, OneDieChanges
  <2> QED BY <2>3 DEF E
<1>7. \A e \in Dies : Victim(e)' = VictimOf(e, d, v)
  BY <1>5 DEF Victim, VictimOf
<1>8. ReadsOf(die') = ReadsOf(die)
  <2> DEFINE E == die'
  <2>1. E = Put(die, d, u)
    BY <1>0 DEF Put
  <2>2. die \in [Dies -> DieType] /\ d \in Dies
        /\ NothingSeen(u, die[d])
    BY <1>0, <1>3 DEF NothingSeen
  <2> HIDE DEF E, s, d
  <2>3. ReadsOf(E) = ReadsOf(die)
    BY <2>1, <2>2, ReadsUnchanged
  <2> QED BY <2>3 DEF E
<1>9. ControlOK'
  BY <1>0, <1>5 DEF IInv, ControlOK
<1>10. WriterHasRoom'
  <2>1. WriterHasRoom
    BY DEF IInv
  <2>2. req.dieNo \in Dies
    BY <1>0
  <2>3. CASE req.dieNo = d
    <3>1. ~(d < d)
      BY <1>0 DEF Dies
    <3>2. cl
      BY <1>0, <1>4, <2>1, <2>3 DEF WriterHasRoom
    <3> QED BY <1>0, <1>5, <2>1, <2>3, <3>1, <3>2 DEF WriterHasRoom
  <2>4. CASE req.dieNo # d
    <3>1. die'[req.dieNo] = die[req.dieNo]
      BY <1>0, <2>2, <2>4
    <3> QED BY <1>0, <1>5, <2>1, <2>4, <3>1 DEF WriterHasRoom, Full
  <2> QED BY <2>3, <2>4
<1> QED BY <1>0, <1>5, <1>6, <1>7, <1>8, <1>9, <1>10 DEF IInv

\* Erasing the victim, with the exchange of the spare block, keeps the
\* invariant and is not seen by a read.
LEMMA GcEraseVictimStep ==
    ASSUME IInv, GcEraseVictim
    PROVE  IInv' /\ ReadsOf(die') = ReadsOf(die)
<1> DEFINE d == gc.dieNo
           s == die[d]
           v == gc.victimBlock
           f == gc.closedFlag
           c0 == gc.pageCount
           u == RetireVictim(s, v, f)
           c1 == gc'.pageCount
           f1 == gc'.closedFlag
           last == d = DIE_NUM - 1
           l == req.dieLpn
           v1 == req.data
<1>0. /\ pc = "gc" /\ v # NONE /\ d \in Dies /\ c0 = PAGE_NUM_PER_BLOCK
      /\ f \in BOOLEAN /\ v \in Blocks
      /\ req' = req
      /\ die' = [die EXCEPT ![d] = u]
      /\ die \in [Dies -> DieType]
      /\ req \in [dieNo : Dies, dieLpn : Lpns \cup {0}, data : Data \cup {Erased}]
  BY DEF IInv, ControlOK, GcEraseVictim, Collecting, GcType
<1>1. DieInv(s, v, c0, f) /\ \A e \in Dies \ {d} : DieInv(die[e], NONE, c0, f)
  BY <1>0 DEF IInv, Victim
<1>2. /\ DieInv(u, NONE, c1, f1)
      /\ f => ~Full(u, u.currentBlock)
      /\ \A m \in Lpns : PmRead(u, m) = PmRead(s, m)
  BY <1>0, <1>1, RetireKeepsDieInv
<1>3. /\ last => pc' = "resume" /\ gc' = NoVictim(0)
      /\ ~last => pc' = "gc" /\ gc' = NoVictim(d + 1)
  BY DEF GcEraseVictim
<1>4. 0 \in Dies /\ 0 \in Counts /\ (~last => d + 1 \in Dies) /\ d \in Nat
  BY <1>0, GeometryAssumption, SMTT(30) DEF Dies, Counts
<1>5. gc' \in GcType /\ gc'.victimBlock = NONE /\ (~last => gc'.dieNo = d + 1)
  <2>1. CASE last
    <3>1. gc' = [dieNo |-> 0, victimBlock |-> NONE, pageCount |-> 0, closedFlag |-> FALSE]
      BY <1>3, <2>1 DEF NoVictim
    <3> QED BY <1>4, <2>1, <3>1 DEF GcType
  <2>2. CASE ~last
    <3>1. gc' = [dieNo |-> d + 1, victimBlock |-> NONE, pageCount |-> 0, closedFlag |-> FALSE]
      BY <1>3, <2>2 DEF NoVictim
    <3> HIDE DEF last
    <3> QED BY <1>4, <2>2, <3>1 DEF GcType
  <2> QED BY <2>1, <2>2
<1>11. OthersIdle(die, d, c0, f)
  BY <1>1 DEF OthersIdle
<1> HIDE DEF u, c1, f1, last
<1>6. /\ die' \in [Dies -> DieType]
      /\ \A e \in Dies : DieInv(die'[e], VictimOf(e, d, NONE), c1, f1)
  <2> DEFINE E == die'
  <2>1. E = Put(die, d, u)
    BY <1>0 DEF Put
  <2>2. /\ die \in [Dies -> DieType] /\ d \in Dies /\ DieInv(u, NONE, c1, f1)
        /\ OthersIdle(die, d, c0, f)
    BY <1>0, <1>2, <1>11
  <2> HIDE DEF E, s, d, v, c0, f
  <2>3. /\ E \in [Dies -> DieType]
        /\ \A e \in Dies : DieInv(E[e], VictimOf(e, d, NONE), c1, f1)
    BY <2>1, <2>2, OneDieChanges
  <2> QED BY <2>3 DEF E
<1>7. \A e \in Dies : Victim(e)' = VictimOf(e, d, NONE)
  BY <1>5 DEF Victim, VictimOf
<1>8. ReadsOf(die') = ReadsOf(die)
  <2> DEFINE E == die'
  <2>1. E = Put(die, d, u)
    BY <1>0 DEF Put
  <2>2. die \in [Dies -> DieType] /\ d \in Dies
        /\ NothingSeen(u, die[d])
    BY <1>0, <1>2 DEF NothingSeen
  <2> HIDE DEF E, s, d
  <2>3. ReadsOf(E) = ReadsOf(die)
    BY <2>1, <2>2, ReadsUnchanged
  <2> QED BY <2>3 DEF E
<1>9. ControlOK'
  BY <1>0, <1>3, <1>5 DEF IInv, ControlOK
<1>10. WriterHasRoom'
  <2>1. WriterHasRoom
    BY DEF IInv
  <2>2. req.dieNo \in Dies /\ req.dieNo \in Nat
    BY <1>0, GeometryAssumption, SMTT(30) DEF Dies
  <2>3. CASE req.dieNo = d
    <3>1. f /\ ~(d < d)
      BY <1>0, <1>4, <2>1, <2>3 DEF WriterHasRoom
    <3>2. die'[req.dieNo] = u
      BY <1>0, <2>3
    <3>3. d < d + 1 /\ d # d + 1 /\ ~(d > d + 1)
      BY <1>4
    <3>4. ~Full(die'[req.dieNo], die'[req.dieNo].currentBlock)
      BY <1>2, <3>1, <3>2
    <3>5. l \in Lpns /\ v1 \in Data
      BY <1>0, <2>1 DEF WriterHasRoom
    <3>6. /\ last => pc' = "resume"
          /\ ~last => pc' = "gc" /\ gc'.dieNo = d + 1
      BY <1>3, <1>5
    <3> HIDE DEF d, last
    <3> QED BY <1>0, <2>3, <3>3, <3>4, <3>5, <3>6 DEF WriterHasRoom, Full
  <2>4. CASE req.dieNo # d
    <3>1. die'[req.dieNo] = die[req.dieNo]
      BY <1>0, <2>2, <2>4
    <3>2. CASE last
      <4>1. req.dieNo < d
        BY <1>4, <2>2, <2>4, <3>2, GeometryAssumption DEF last, Dies
      <4> QED BY <1>0, <1>3, <2>1, <3>1, <3>2, <4>1 DEF WriterHasRoom, Full
    <3>3. CASE ~last
      <4>1. /\ req.dieNo < d + 1 => req.dieNo < d
            /\ req.dieNo >= d + 1 => req.dieNo > d
        BY <1>4, <2>2, <2>4
      <4>2. \/ req.dieNo < d + 1 /\ req.dieNo # d + 1 /\ ~(req.dieNo > d + 1)
            \/ req.dieNo = d + 1 /\ ~(req.dieNo < d + 1) /\ ~(req.dieNo > d + 1)
               /\ req.dieNo >= d + 1
            \/ req.dieNo > d + 1 /\ ~(req.dieNo < d + 1) /\ req.dieNo # d + 1
               /\ req.dieNo >= d + 1
        BY <1>4, <2>2
      <4> QED BY <1>0, <1>3, <1>5, <2>1, <3>1, <3>3, <4>1, <4>2 DEF WriterHasRoom, Full
    <3> QED BY <3>2, <3>3
  <2> QED BY <2>3, <2>4
<1> QED BY <1>0, <1>5, <1>6, <1>7, <1>8, <1>9, <1>10 DEF IInv, c1, f1

\* The write that waited for the collection keeps the invariant and is a
\* write of the abstract store.
LEMMA PmWriteResumeStep ==
    ASSUME IInv, PmWriteResume
    PROVE  /\ IInv'
           /\ req.dieNo \in Dies /\ req.dieLpn \in Lpns /\ req.data \in Data
           /\ ReadsOf(die') = Written(ReadsOf(die), req.dieNo, req.dieLpn, req.data)
<1> DEFINE d == req.dieNo
           l == req.dieLpn
           v == req.data
           s == die[d]
           u == WritePage(s, l, v)
           c0 == gc.pageCount
           f0 == gc.closedFlag
<1>0. /\ pc = "resume" /\ gc.victimBlock = NONE /\ d \in Dies /\ l \in Lpns /\ v \in Data
      /\ pc' = "idle" /\ req' = req /\ gc' = gc
      /\ \A e \in Dies : DieInv(die[e], NONE, c0, f0)
      /\ die \in [Dies -> DieType] /\ ~Full(s, s.currentBlock)
      /\ die' = [die EXCEPT ![d] = u]
  BY DEF IInv, ControlOK, PmWriteResume, Victim, WriterHasRoom
<1>1. /\ DieInv(u, NONE, c0, f0)
      /\ \A m \in Lpns : PmRead(u, m) = IF m = l THEN v ELSE PmRead(s, m)
  BY <1>0, WriteKeepsDieInv
<1> HIDE DEF u
<1>2. /\ die' \in [Dies -> DieType]
      /\ \A e \in Dies : DieInv(die'[e], VictimOf(e, d, NONE), c0, f0)
  <2> DEFINE E == die'
  <2>1. E = Put(die, d, u)
    BY <1>0 DEF Put
  <2>2. /\ die \in [Dies -> DieType] /\ d \in Dies /\ DieInv(u, NONE, c0, f0)
        /\ OthersIdle(die, d, c0, f0)
    BY <1>0, <1>1 DEF OthersIdle
  <2> HIDE DEF E, s, d, c0, f0
  <2>3. /\ E \in [Dies -> DieType]
        /\ \A e \in Dies : DieInv(E[e], VictimOf(e, d, NONE), c0, f0)
    BY <2>1, <2>2, OneDieChanges
  <2> QED BY <2>3 DEF E
<1>3. ReadsOf(die') = Written(ReadsOf(die), d, l, v)
  <2> DEFINE E == die'
  <2>1. /\ E = Put(die, d, u) /\ die \in [Dies -> DieType] /\ d \in Dies /\ l \in Lpns
        /\ WriteSeen(u, die[d], l, v)
    BY <1>0, <1>1 DEF WriteSeen, Put
  <2> HIDE DEF E, s, d, l, v
  <2>2. ReadsOf(E) = Written(ReadsOf(die), d, l, v)
    BY <2>1, ReadsAfterWrite
  <2> QED BY <2>2 DEF E
<1>4. ControlOK'
  BY <1>0 DEF IInv, ControlOK
<1>5. WriterHasRoom'
  BY <1>0 DEF WriterHasRoom
<1>6. \A e \in Dies : Victim(e)' = VictimOf(e, d, NONE)
  BY <1>0 DEF Victim, VictimOf
<1> QED BY <1>0, <1>2, <1>3, <1>4, <1>5, <1>6 DEF IInv

(***************************************************************************)
(* The theorems.                                                           *)
(***************************************************************************)

\* A stuttering step keeps the invariant.
LEMMA StutterStep ==
    ASSUME IInv, UNCHANGED vars
    PROVE  IInv' /\ ReadsOf(die') = ReadsOf(die)
<1>1. die' = die /\ pc' = pc /\ req' = req /\ gc' = gc
  BY DEF vars
<1> QED BY <1>1 DEF IInv, ControlOK, WriterHasRoom, Victim

\* The inductive invariant holds in every reachable state: the tables of every
\* die agree with each other and with the NAND array, in the middle of a
\* collection too.
THEOREM InductiveInvariant == Spec => []IInv
<1>1. IInv /\ [Next]_vars => IInv'
  <2> SUFFICES ASSUME IInv, [Next]_vars PROVE IInv'
    OBVIOUS
  <2>1. ASSUME NEW d \in Dies, NEW l \in Lpns, NEW v \in Data, PmWrite(d, l, v) PROVE IInv'
    BY <2>1, PmWriteStep
  <2>2. ASSUME NEW d \in Dies, NEW l \in Lpns, NEW v \in Data, PmWriteNeedsGC(d, l, v)
        PROVE  IInv'
    BY <2>2, PmWriteNeedsGCStep
  <2>3. CASE Collect
    BY <2>3, GcSelectVictimStep, GcAbortStep, GcCopyPageStep, GcEraseVictimStep,
       PmWriteResumeStep DEF Collect
  <2>4. CASE Halted \/ UNCHANGED vars
    BY <2>4, StutterStep DEF Halted
  <2> QED BY <2>1, <2>2, <2>3, <2>4 DEF Next
<1> QED BY InitIInv, <1>1, PTL DEF Spec

\* Every row address, page counter and list index stays in its range.
THEOREM TypeCorrect == Spec => []TypeOK
<1>1. IInv => TypeOK
  BY DEF IInv, ControlOK, TypeOK
<1> QED BY <1>1, InductiveInvariant, PTL

\* The two maps of one die agree, also while it has a victim in hand.
LEMMA MapOfDieAgrees ==
    ASSUME NEW d \in Dies, gc.pageCount \in Counts,
           MapForward(die[d]), MapBackward(die[d], Victim(d), gc.pageCount)
    PROVE  LET s == die[d] IN
           /\ \A l \in Lpns : s.ppn[l] # NONE => s.valid[s.ppn[l]] /\ s.lpn[s.ppn[l]] = l
           /\ \A p \in Rows : s.valid[p] /\ s.lpn[p] # NONE /\ ~Moved(d, p)
                                  => s.ppn[s.lpn[p]] = p
<1> DEFINE s == die[d]
           v == Victim(d)
           c == gc.pageCount
<1>1. ASSUME NEW p \in Rows, s.valid[p], s.lpn[p] # NONE, ~Moved(d, p)
      PROVE  s.ppn[s.lpn[p]] = p
  <2>1. PICK i \in Offsets : p = Row(BlockOf(p), i)
    BY RowFacts
  <2> DEFINE b == BlockOf(p)
  <2>2. b \in Blocks
    BY RowFacts
  <2>3. ~(b = v /\ i < c)
    BY <1>1, <2>1, <2>2, RowFacts DEF Moved
  <2> QED BY <1>1, <2>1, <2>2, <2>3 DEF MapBackward
<1> QED BY <1>1 DEF MapForward

\* The logical-to-physical and the physical-to-logical map agree.
THEOREM MapAgrees == Spec => []MapConsistent
<1>1. ASSUME IInv PROVE MapConsistent
  <2>1. gc.pageCount \in Counts
    BY <1>1 DEF IInv, ControlOK, GcType
  <2>2. \A d \in Dies : MapForward(die[d]) /\ MapBackward(die[d], Victim(d), gc.pageCount)
    BY <1>1 DEF IInv, DieInv
  <2> QED BY <2>1, <2>2, MapOfDieAgrees DEF MapConsistent
<1> QED BY <1>1, InductiveInvariant, PTL

\* On one die with v in hand, a walk of a victim list meets the blocks with
\* its count of invalid pages.
LEMMA ListsOfDieExact ==
    ASSUME NEW s, NEW v, s \in DieType, CountsExact(s), ListsWellFormed(s, v)
    PROVE  /\ \A k \in 1 .. PAGE_NUM_PER_BLOCK :
                 Reachable(s.list, Blocks, k) = {b \in Blocks : s.invalidPageCnt[b] = k /\ b # v}
           /\ \A b \in Blocks :
                 s.invalidPageCnt[b] = Cardinality({i \in Offsets : ~s.valid[Row(b, i)]})
<1> DEFINE in == ListOf(s, v)
<1>1. ASSUME NEW k \in 1 .. PAGE_NUM_PER_BLOCK
      PROVE  Reachable(s.list, Blocks, k) = {b \in Blocks : s.invalidPageCnt[b] = k /\ b # v}
  <2>1. k \in Counts /\ k # 0 /\ k # NONE
    BY GeometryAssumption, NoneIsNoIndex DEF Counts
  <2>2. s.invalidPageCnt \in [Blocks -> Counts] /\ s.list \in ListFamily(Blocks, Counts)
    BY DEF DieType
  <2>3. in \in [Blocks -> Counts \cup {NONE}]
    BY <2>2 DEF ListOf
  <2>4. IsFiniteSet(Blocks)
    BY GeometryAssumption, FS_Interval, SMTT(30) DEF Blocks
  <2>5. WellFormed(s.list, Blocks, Counts, in)
    BY DEF ListsWellFormed
  <2>6. {b \in Blocks : in[b] = k} = {b \in Blocks : s.invalidPageCnt[b] = k /\ b # v}
    BY <2>1, <2>2 DEF ListOf
  <2> HIDE DEF in
  <2>7. Reachable(s.list, Blocks, k) = {b \in Blocks : in[b] = k}
    BY <2>1, <2>2, <2>3, <2>4, <2>5, NoneIsNoIndex, WalkMeetsList
  <2> QED BY <2>6, <2>7
<1> QED BY <1>1 DEF CountsExact, InvalidOf

\* A walk of a victim list meets the blocks with its count of invalid pages.
THEOREM ListsAreExact == Spec => []GcListsExact
<1>1. ASSUME IInv PROVE GcListsExact
  <2>1. \A d \in Dies : /\ die[d] \in DieType /\ CountsExact(die[d])
                        /\ ListsWellFormed(die[d], Victim(d))
    BY <1>1 DEF IInv, DieInv
  <2> QED BY <2>1, ListsOfDieExact DEF GcListsExact
<1> QED BY <1>1, InductiveInvariant, PTL

\* A block that can still be handed out is blank.
THEOREM FreeIsBlank == Spec => []AllocatableBlank
<1>1. ASSUME IInv PROVE AllocatableBlank
  <2> SUFFICES ASSUME NEW d \in Dies, NEW b \in Blocks,
                      \/ b \in FreeBlocks(die[d])
                      \/ b = die[d].freeBlock /\ gc.victimBlock = NONE,
                      NEW i \in Offsets
               PROVE  /\ die[d].flash[Row(b, i)] = Erased
                      /\ die[d].lpn[Row(b, i)] = NONE
                      /\ die[d].valid[Row(b, i)]
    BY DEF AllocatableBlank
  <2> DEFINE s == die[d]
  <2>1. /\ s \in DieType /\ WrittenPrefix(s) /\ Pools(s)
        /\ VictimInHand(s, Victim(d), gc.pageCount, gc.closedFlag)
    BY <1>1 DEF IInv, DieInv
  <2>2. Frontier(s, b) = 0
    <3>1. CASE b \in FreeBlocks(s)
      BY <2>1, <3>1 DEF Pools, FreeBlocks
    <3>2. CASE b = s.freeBlock /\ gc.victimBlock = NONE
      BY <2>1, <3>2 DEF VictimInHand, Victim
    <3> QED BY <3>1, <3>2
  <2>3. ~(i < 0)
    BY DEF Offsets
  <2>4. s.valid[Row(b, i)] \in BOOLEAN
    BY <2>1, RowFacts DEF DieType
  <2> QED BY <2>1, <2>2, <2>3, <2>4 DEF WrittenPrefix
<1> QED BY <1>1, InductiveInvariant, PTL

\* The current block, the spare block and the victim never coincide, are good,
\* and are not in the free pool.
THEOREM BlocksStayApart == Spec => []BlocksApart
<1>1. ASSUME IInv PROVE BlocksApart
  <2> SUFFICES ASSUME NEW d \in Dies
               PROVE  /\ die[d].currentBlock # die[d].freeBlock
                      /\ Victim(d) \notin {die[d].currentBlock, die[d].freeBlock}
                      /\ \A b \in {die[d].currentBlock, die[d].freeBlock, Victim(d)} \ {NONE} :
                            ~die[d].free[b] /\ ~die[d].bad[b] /\ b # metadataBlockNo
    BY DEF BlocksApart
  <2> DEFINE s == die[d]
             v == Victim(d)
  <2>1. /\ s \in DieType /\ WrittenPrefix(s) /\ Pools(s) /\ CountsExact(s)
        /\ VictimInHand(s, v, gc.pageCount, gc.closedFlag)
    BY <1>1 DEF IInv, DieInv
  <2>2. s.currentBlock \in Blocks /\ s.freeBlock \in Blocks
    BY <2>1 DEF DieType
  <2>3. \A b \in {s.currentBlock, s.freeBlock} : ~s.free[b] /\ ~s.bad[b] /\ b # metadataBlockNo
    BY <2>1 DEF Pools, Usable
  <2>4. v \notin {s.currentBlock, s.freeBlock}
    BY <2>1, <2>2, NoneIsNoIndex DEF VictimInHand
  <2>5. ASSUME v # NONE PROVE ~s.free[v] /\ ~s.bad[v] /\ v # metadataBlockNo
    <3>1. v \in Blocks /\ s.invalidPageCnt[v] > 0
      BY <2>1, <2>5 DEF VictimInHand
    <3>2. InvalidOf(s, v) \subseteq Offsets
      BY DEF InvalidOf
    <3>3. InvalidOf(s, v) # {}
      BY <2>1, <3>1, <3>2, OffsetsFinite DEF CountsExact
    <3>4. PICK i \in Offsets : ~s.valid[Row(v, i)]
      BY <3>3 DEF InvalidOf
    <3>5. i < Frontier(s, v) /\ i \in Nat
      BY <2>1, <3>1, <3>4 DEF WrittenPrefix, Offsets
    <3> QED BY <2>1, <3>1, <3>5 DEF Pools
  <2>6. s.currentBlock # s.freeBlock
    BY <2>1 DEF Pools
  <2> QED BY <2>3, <2>4, <2>5, <2>6
<1> QED BY <1>1, InductiveInvariant, PTL

\* A write that waited for a collection finds room in the current block.
THEOREM CollectionMakesRoom == Spec => []GcMakesRoom
<1>1. IInv => GcMakesRoom
  BY DEF IInv, WriterHasRoom, GcMakesRoom
<1> QED BY <1>1, InductiveInvariant, PTL

\* What the abstract store sees of pc.
LEMMA Modes ==
    /\ pc = "idle" => modeBar = "ready"
    /\ pc = "halted" => modeBar = "stopped"
    /\ pc \notin {"idle", "halted"} => modeBar = "busy"
BY DEF modeBar

\* A step that serves a write between commands is one of the abstract store.
LEMMA ServedAtOnce ==
    ASSUME NEW d \in Dies, NEW l \in Lpns, NEW v \in Data,
           pc = "idle", pc' = "idle",
           req' = [dieNo |-> d, dieLpn |-> l, data |-> v],
           ReadsOf(die') = Written(ReadsOf(die), d, l, v)
    PROVE  Store!StoreNext
<1>1. modeBar = "ready" /\ modeBar' = "ready"
  BY Modes, Modes' DEF modeBar
<1>2. storeBar' = [storeBar EXCEPT ![d][l] = v]
  BY DEF ReadsOf, Written, storeBar
<1>3. Store!StoreWrite(d, l, v)
  BY <1>1, <1>2 DEF Store!StoreWrite, Store!Ask
<1> QED BY <1>3 DEF Store!StoreNext

\* A step that takes a write and keeps it pending changes no page.
LEMMA Accepted ==
    ASSUME NEW d \in Dies, NEW l \in Lpns, NEW v \in Data,
           pc = "idle", pc' \notin {"idle", "halted"},
           req' = [dieNo |-> d, dieLpn |-> l, data |-> v],
           ReadsOf(die') = ReadsOf(die)
    PROVE  Store!StoreNext
<1>1. modeBar = "ready" /\ modeBar' = "busy"
  BY Modes DEF modeBar
<1>2. storeBar' = storeBar
  BY DEF ReadsOf, storeBar
<1>3. Store!StoreAccept(d, l, v)
  BY <1>1, <1>2 DEF Store!StoreAccept, Store!Ask
<1> QED BY <1>3 DEF Store!StoreNext

\* The step that finishes the pending write changes the page it named.
LEMMA Finished ==
    ASSUME pc \notin {"idle", "halted"}, pc' = "idle", req' = req,
           ReadsOf(die') = Written(ReadsOf(die), req.dieNo, req.dieLpn, req.data)
    PROVE  Store!StoreNext
<1>1. modeBar = "busy" /\ modeBar' = "ready"
  BY Modes DEF modeBar
<1>2. storeBar' = [storeBar EXCEPT ![req.dieNo][req.dieLpn] = req.data]
  BY DEF ReadsOf, Written, storeBar
<1>3. Store!StoreFinish
  BY <1>1, <1>2 DEF Store!StoreFinish
<1> QED BY <1>3 DEF Store!StoreNext

\* A step that only gives up, or that does not show, changes no page.
LEMMA Unseen ==
    ASSUME req' = req, ReadsOf(die') = ReadsOf(die),
           \/ pc' = pc
           \/ pc # "halted" /\ pc' = "halted"
           \/ pc \notin {"idle", "halted"} /\ pc' \notin {"idle", "halted"}
    PROVE  [Store!StoreNext]_(Store!storeVars)
<1>1. storeBar' = storeBar
  BY DEF ReadsOf, storeBar
<1>2. CASE pc # "halted" /\ pc' = "halted"
  <2>1. modeBar # "stopped" /\ modeBar' = "stopped"
    BY <1>2, Modes DEF modeBar
  <2> QED BY <1>1, <2>1 DEF Store!StoreStop, Store!StoreNext
<1>3. CASE \/ pc' = pc
           \/ pc \notin {"idle", "halted"} /\ pc' \notin {"idle", "halted"}
  <2>1. modeBar' = modeBar
    BY <1>3 DEF modeBar
  <2> QED BY <1>1, <2>1 DEF Store!storeVars
<1> QED BY <1>2, <1>3

\* A step of the page map is a step of the abstract store or does not show.
LEMMA StepRefinesStore ==
    ASSUME IInv, [Next]_vars
    PROVE  [Store!StoreNext]_(Store!storeVars)
<1>1. ASSUME NEW d \in Dies, NEW l \in Lpns, NEW v \in Data, PmWrite(d, l, v)
      PROVE  Store!StoreNext
  <2>1. /\ pc = "idle" /\ pc' = "idle"
        /\ req' = [dieNo |-> d, dieLpn |-> l, data |-> v]
    BY <1>1 DEF PmWrite
  <2>2. ReadsOf(die') = Written(ReadsOf(die), d, l, v)
    BY <1>1, PmWriteStep
  <2> QED BY <2>1, <2>2, ServedAtOnce
<1>2. ASSUME NEW d \in Dies, NEW l \in Lpns, NEW v \in Data, PmWriteNeedsGC(d, l, v)
      PROVE  Store!StoreNext
  <2>1. /\ pc = "idle" /\ pc' = "gc"
        /\ req' = [dieNo |-> d, dieLpn |-> l, data |-> v]
    BY <1>2 DEF PmWriteNeedsGC
  <2>2. ReadsOf(die') = ReadsOf(die)
    BY <1>2, PmWriteNeedsGCStep
  <2> QED BY <2>1, <2>2, Accepted
<1>3. CASE GcSelectVictim \/ GcAbort \/ GcCopyPage \/ GcEraseVictim
  <2>1. req' = req /\ pc = "gc" /\ pc' \in {"gc", "halted", "resume"}
    BY <1>3 DEF GcSelectVictim, GcAbort, GcCopyPage, GcEraseVictim, Collecting
  <2>2. ReadsOf(die') = ReadsOf(die)
    BY <1>3, GcSelectVictimStep, GcAbortStep, GcCopyPageStep, GcEraseVictimStep
  <2> QED BY <2>1, <2>2, Unseen
<1>4. CASE PmWriteResume
  <2>1. pc = "resume" /\ pc' = "idle" /\ req' = req
    BY <1>4 DEF PmWriteResume
  <2>2. ReadsOf(die') = Written(ReadsOf(die), req.dieNo, req.dieLpn, req.data)
    BY <1>4, PmWriteResumeStep
  <2> QED BY <2>1, <2>2, Finished
<1>5. CASE Halted \/ UNCHANGED vars
  <2>1. pc' = pc /\ req' = req /\ ReadsOf(die') = ReadsOf(die)
    BY <1>5, StutterStep DEF Halted, vars
  <2> QED BY <2>1, Unseen
<1> QED BY <1>1, <1>2, <1>3, <1>4, <1>5 DEF Next, Collect

\* The page map implements the abstract store, for every number of dies,
\* blocks, pages and logical pages: a read of a page finds the data of the
\* last PmWrite of that page that was finished, and a collection, in each of
\* its steps, changes what no read finds.
THEOREM PageMapImplementsStore == Spec => ImplementsStore
<1>1. Init => Store!StoreInit
  <2> SUFFICES ASSUME Init PROVE Store!StoreInit
    OBVIOUS
  <2>1. ASSUME NEW d \in Dies, NEW l \in Lpns PROVE PmRead(die[d], l) = Erased
    <3>1. die[d] \in FreshDies /\ InitDieBlock(die[d])
      BY DEF Init
    <3> QED BY <3>1, FreshDieInv
  <2> QED BY <2>1 DEF Store!StoreInit, storeBar, modeBar, Init
<1>2. IInv /\ [Next]_vars => [Store!StoreNext]_(Store!storeVars)
  BY StepRefinesStore
<1> QED BY <1>1, <1>2, InductiveInvariant, PTL DEF Spec, ImplementsStore, Store!StoreSpec

(***************************************************************************)
(* NAND discipline.                                                        *)
(***************************************************************************)

\* between records s and u of one die, data was only written to the next page
\* of a block or erased
InOrder(s, u) ==
    \A b \in Blocks, i \in Offsets :
        s.flash[Row(b, i)] # u.flash[Row(b, i)]
            => \/ u.flash[Row(b, i)] = Erased
               \/ /\ s.flash[Row(b, i)] = Erased
                  /\ \A j \in 0 .. i - 1 : s.flash[Row(b, j)] # Erased

\* Programming the next page of a block with room respects the order of the
\* NAND.
LEMMA ProgramInOrderOnDie ==
    ASSUME NEW s \in DieType, WrittenPrefix(s), NEW b \in Blocks, ~Full(s, b), NEW l, NEW v
    PROVE  InOrder(s, Program(s, b, FreePage(s, b), l, v))
<1> DEFINE p == FreePage(s, b)
           u == Program(s, b, p, l, v)
<1>1. /\ Frontier(s, b) \in Offsets /\ p = Row(b, Frontier(s, b))
      /\ p \in Rows /\ s.flash[p] = Erased
  BY FreePageBlank
<1>2. u.flash = [s.flash EXCEPT ![p] = v] /\ s.flash \in [Rows -> Data \cup {Erased}]
  BY DEF Program, DieType
<1> HIDE DEF p, u
<1>3. ASSUME NEW c \in Blocks, NEW i \in Offsets, s.flash[Row(c, i)] # u.flash[Row(c, i)]
      PROVE  s.flash[Row(c, i)] = Erased /\ \A j \in 0 .. i - 1 : s.flash[Row(c, j)] # Erased
  <2>1. Row(c, i) = p
    BY <1>2, <1>3, RowFacts
  <2> DEFINE f == Frontier(s, b)
  <2>2. f \in Offsets /\ Row(c, i) = Row(b, f)
    BY <1>1, <2>1
  <2> HIDE DEF f
  <2>3. c = b /\ i = f
    BY <2>2, RowInjective
  <2>4. \A j \in 0 .. i - 1 : j \in Offsets /\ j < f
    BY <2>3, GeometryAssumption, SMTT(30) DEF Offsets
  <2> QED BY <1>1, <2>1, <2>3, <2>4 DEF WrittenPrefix, f
<1> QED BY <1>3 DEF InOrder, u, p

\* A host page write into a current block with room respects the order of
\* the NAND.
LEMMA WriteInOrder ==
    ASSUME NEW s, NEW k0, NEW f0, DieInv(s, NONE, k0, f0), ~Full(s, s.currentBlock),
           NEW l \in Lpns, NEW v
    PROVE  InOrder(s, WritePage(s, l, v))
<1> DEFINE t == UpdateMetaForInvalidate(s, l)
           b == s.currentBlock
<1>0. /\ s \in DieType /\ MapForward(s) /\ WrittenPrefix(s) /\ CountsExact(s)
      /\ ListsWellFormed(s, NONE)
  BY DEF DieInv
<1>6. /\ t \in DieType /\ t.lpn = s.lpn /\ t.flash = s.flash
      /\ t.currentPage = s.currentPage
      /\ \A q \in Rows : t.valid[q] <=> s.valid[q] /\ q # s.ppn[l]
  BY <1>0, InvalidateOldCopy
<1>1. WrittenPrefix(t)
  BY <1>0, <1>6, InvalidateKeepsPrefix
<1>2. b \in Blocks
  BY DEF DieInv, DieType
<1>3. ~Full(t, b) /\ FreePage(t, b) = FreePage(s, b)
  BY <1>6 DEF Full, FreePage
<1> HIDE DEF t, b
<1>4. InOrder(t, Program(t, b, FreePage(t, b), l, v))
  BY <1>1, <1>2, <1>3, <1>6, ProgramInOrderOnDie
<1>5. WritePage(s, l, v) = Program(t, b, FreePage(t, b), l, v)
  BY <1>3 DEF WritePage, t, b
<1> QED BY <1>4, <1>5, <1>6 DEF InOrder

\* An iteration of the copy loop respects the order of the NAND.
LEMMA CopyInOrder ==
    ASSUME NEW s, NEW v \in Blocks, NEW c \in Offsets, NEW closed \in BOOLEAN,
           DieInv(s, v, c, closed)
    PROVE  InOrder(s, CopyPage(s, Row(v, c), closed))
<1> DEFINE p == Row(v, c)
           u == CopyPage(s, p, closed)
           b == CopyTarget(s, closed)
<1>0. s \in DieType /\ WrittenPrefix(s) /\ VictimInHand(s, v, c, closed) /\ v # NONE
  BY NoneIsNoIndex DEF DieInv
<1>1. s.currentBlock \in Blocks /\ s.freeBlock \in Blocks
  BY <1>0 DEF DieType
<1>2. CASE s.valid[p] /\ s.lpn[p] # NONE
  <2>1. /\ Frontier(s, s.freeBlock) \in Counts /\ Frontier(s, s.freeBlock) <= c
        /\ c \in Nat /\ c < PAGE_NUM_PER_BLOCK
    BY <1>0, <1>1, CountFacts DEF VictimInHand, Offsets
  <2>2. ~Full(s, s.freeBlock)
    BY <1>0, <1>1, <2>1, CountFacts DEF Counts
  <2>3. b \in Blocks /\ ~Full(s, b)
    BY <1>1, <2>2 DEF CopyTarget
  <2>4. u = Program(s, b, FreePage(s, b), s.lpn[p], s.flash[p])
    BY <1>2 DEF CopyPage
  <2> HIDE DEF b, u, p
  <2> QED BY <1>0, <2>3, <2>4, ProgramInOrderOnDie DEF u, p
<1>3. CASE ~(s.valid[p] /\ s.lpn[p] # NONE)
  <2>1. u.flash = s.flash
    BY <1>0, <1>3 DEF CopyPage, DieType
  <2> QED BY <2>1 DEF InOrder
<1> QED BY <1>2, <1>3

\* Erasing the victim only removes data.
LEMMA RetireInOrder ==
    ASSUME NEW s \in DieType, NEW v \in Blocks, NEW closed
    PROVE  InOrder(s, RetireVictim(s, v, closed))
<1> DEFINE e == EraseBlock(s, v)
           u == RetireVictim(s, v, closed)
<1>1. u.flash = e.flash
  BY DEF RetireVictim, EraseBlock, DieType
<1>2. e.flash = Wiped(s.flash, v, Erased)
  BY DEF EraseBlock, DieType
<1> HIDE DEF e, u
<1>3. \A p \in Rows : e.flash[p] = IF BlockOf(p) = v THEN Erased ELSE s.flash[p]
  BY <1>2 DEF Wiped
<1> QED BY <1>1, <1>3, RowFacts DEF InOrder, u

\* Every step programs erased pages only, each block from its first page up,
\* and only an erase takes data away.
THEOREM NandDiscipline == Spec => ProgramInOrder
<1> DEFINE A == \A d \in Dies : InOrder(die[d], die'[d])
<1>0. ASSUME NEW D \in [Dies -> DieType], NEW d \in Dies, NEW u, InOrder(D[d], u)
      PROVE  \A e \in Dies : InOrder(D[e], [D EXCEPT ![d] = u][e])
  BY <1>0 DEF InOrder
<1>1. ASSUME IInv, [Next]_vars PROVE A \/ UNCHANGED vars
  <2>0. die \in [Dies -> DieType] /\ gc \in GcType /\ req.dieNo \in Dies
    BY <1>1 DEF IInv, ControlOK
  <2>1. ASSUME NEW d \in Dies, NEW l \in Lpns, NEW v \in Data, PmWrite(d, l, v) PROVE A
    <3> DEFINE s == die[d]
               k == gc.pageCount
               f == gc.closedFlag
    <3>1. DieInv(s, NONE, k, f)
      BY <1>1, <2>1 DEF IInv, ControlOK, PmWrite, Victim
    <3>2. CASE ~Full(s, s.currentBlock)
      <4>1. die' = [die EXCEPT ![d] = WritePage(s, l, v)]
        BY <2>1, <3>2 DEF PmWrite
      <4>2. InOrder(s, WritePage(s, l, v))
        BY <3>1, <3>2, WriteInOrder
      <4> QED BY <1>0, <2>0, <4>1, <4>2
    <3>3. CASE Full(s, s.currentBlock)
      <4>1. PICK b \in FreeBlocks(s) :
               die' = [die EXCEPT ![d] = WritePage(OpenBlock(s, b), l, v)]
        BY <2>1, <3>3 DEF PmWrite, NextFreeBlock
      <4> DEFINE o == OpenBlock(s, b)
      <4>2. DieInv(o, NONE, k, f) /\ ~Full(o, o.currentBlock)
        BY <3>1, OpenKeepsDieInv
      <4>3. o.flash = s.flash
        BY <3>1 DEF OpenBlock, DieInv, DieType
      <4>4. die' = [die EXCEPT ![d] = WritePage(o, l, v)]
        BY <4>1
      <4> HIDE DEF o, s, k, f
      <4>5. InOrder(o, WritePage(o, l, v))
        BY <4>2, WriteInOrder
      <4>6. InOrder(s, WritePage(o, l, v))
        BY <4>3, <4>5 DEF InOrder
      <4> QED BY <1>0, <2>0, <4>4, <4>6 DEF s
    <3> QED BY <3>2, <3>3
  <2>2. CASE GcCopyPage
    <3> DEFINE d == gc.dieNo
               u == CopyPage(die[d], Row(gc.victimBlock, gc.pageCount), gc.closedFlag)
    <3>1. /\ d \in Dies /\ die' = [die EXCEPT ![d] = u]
          /\ gc.victimBlock \in Blocks /\ gc.pageCount \in Offsets /\ gc.closedFlag \in BOOLEAN
          /\ DieInv(die[d], gc.victimBlock, gc.pageCount, gc.closedFlag)
      BY <1>1, <2>0, <2>2, CountFacts DEF GcCopyPage, GcType, IInv, Victim
    <3>2. InOrder(die[d], u)
      BY <3>1, CopyInOrder
    <3> HIDE DEF u, d
    <3> QED BY <1>0, <2>0, <3>1, <3>2
  <2>3. CASE GcEraseVictim
    <3> DEFINE d == gc.dieNo
               u == RetireVictim(die[d], gc.victimBlock, gc.closedFlag)
    <3>1. /\ d \in Dies /\ die' = [die EXCEPT ![d] = u]
          /\ gc.victimBlock \in Blocks /\ die[d] \in DieType
      BY <2>0, <2>3 DEF GcEraseVictim, GcType
    <3>2. InOrder(die[d], u)
      BY <3>1, RetireInOrder
    <3> HIDE DEF u, d
    <3> QED BY <1>0, <2>0, <3>1, <3>2
  <2>4. CASE PmWriteResume
    <3> DEFINE d == req.dieNo
               u == WritePage(die[d], req.dieLpn, req.data)
    <3>1. /\ d \in Dies /\ die' = [die EXCEPT ![d] = u] /\ req.dieLpn \in Lpns
          /\ ~Full(die[d], die[d].currentBlock)
          /\ DieInv(die[d], NONE, gc.pageCount, gc.closedFlag)
      BY <1>1, <2>0, <2>4 DEF PmWriteResume, IInv, ControlOK, Victim, WriterHasRoom
    <3>2. InOrder(die[d], u)
      BY <3>1, WriteInOrder
    <3> HIDE DEF u, d
    <3> QED BY <1>0, <2>0, <3>1, <3>2
  <2>5. CASE GcSelectVictim
    <3>1. PICK k \in VictimCounts(die[gc.dieNo]) :
             die' = [die EXCEPT ![gc.dieNo].list = PopHead(@, k)]
      BY <2>5 DEF GcSelectVictim
    <3>2. \A d \in Dies : die'[d].flash = die[d].flash
      BY <2>0, <3>1 DEF DieType
    <3> QED BY <3>2 DEF InOrder
  <2>6. CASE GcAbort \/ \E d \in Dies, l \in Lpns, v \in Data : PmWriteNeedsGC(d, l, v)
    <3>1. die' = die
      BY <2>6 DEF GcAbort, PmWriteNeedsGC
    <3> QED BY <3>1 DEF InOrder
  <2>7. CASE Halted \/ UNCHANGED vars
    BY <2>7 DEF Halted
  <2> QED BY <1>1, <2>1, <2>2, <2>3, <2>4, <2>5, <2>6, <2>7 DEF Next, Collect
<1>2. IInv /\ [Next]_vars =>
         [\A d \in Dies : \A b \in Blocks, i \in Offsets :
             LET old == die[d].flash[Row(b, i)]
                 new == die'[d].flash[Row(b, i)]
             IN  old # new => \/ new = Erased
                              \/ /\ old = Erased
                                 /\ \A j \in 0 .. i - 1 :
                                       die[d].flash[Row(b, j)] # Erased]_vars
  <2> SUFFICES ASSUME IInv, [Next]_vars, ~UNCHANGED vars,
                      NEW d \in Dies, NEW b \in Blocks, NEW i \in Offsets,
                      die[d].flash[Row(b, i)] # die'[d].flash[Row(b, i)]
               PROVE  \/ die'[d].flash[Row(b, i)] = Erased
                      \/ /\ die[d].flash[Row(b, i)] = Erased
                         /\ \A j \in 0 .. i - 1 : die[d].flash[Row(b, j)] # Erased
    OBVIOUS
  <2>1. InOrder(die[d], die'[d])
    BY <1>1
  <2> QED BY <2>1 DEF InOrder
<1> QED BY <1>2, InductiveInvariant, PTL DEF Spec, ProgramInOrder

=============================================================================
