----------------------------- MODULE LinkedList -----------------------------
(***************************************************************************)
(* The intrusive doubly linked lists of the firmware.  The block lists of  *)
(* garbage collection (page_map.c), the recency list and the per-die hash  *)
(* lists of the buffer (lru_buffer.c) all keep a prev and a next index in  *)
(* the node and a head and a tail index in a table indexed by list.  A     *)
(* family of such lists is one record                                      *)
(*     [prev, next : Nodes -> Nodes or NONE,                               *)
(*      head, tail : Lists -> Nodes or NONE]                               *)
(* and the operators below are the pointer updates the C functions do in   *)
(* line.  Nothing here knows which nodes are on a list: the caller does.   *)
(***************************************************************************)
EXTENDS Naturals, FiniteSets

CONSTANT NONE       \* 0xffffffff in block links, 0xffff in buffer links

(***************************************************************************)
(* Unlink(L, b, k): take node b out of list k.  Its own links stay.        *)
(***************************************************************************)
Unlink(L, b, k) ==
    LET p == L.prev[b]
        n == L.next[b]
    IN  [prev |-> IF n # NONE THEN [L.prev EXCEPT ![n] = p] ELSE L.prev,
         next |-> IF p # NONE THEN [L.next EXCEPT ![p] = n] ELSE L.next,
         head |-> IF p = NONE THEN [L.head EXCEPT ![k] = n] ELSE L.head,
         tail |-> IF n = NONE THEN [L.tail EXCEPT ![k] = p] ELSE L.tail]

(***************************************************************************)
(* LinkTail(L, b, k), LinkHead(L, b, k): put node b at an end of list k.   *)
(***************************************************************************)
LinkTail(L, b, k) ==
    LET t == L.tail[k]
    IN  [prev |-> [L.prev EXCEPT ![b] = t],
         next |-> IF t # NONE THEN [L.next EXCEPT ![b] = NONE, ![t] = b]
                              ELSE [L.next EXCEPT ![b] = NONE],
         head |-> IF t = NONE THEN [L.head EXCEPT ![k] = b] ELSE L.head,
         tail |-> [L.tail EXCEPT ![k] = b]]

LinkHead(L, b, k) ==
    LET h == L.head[k]
    IN  [prev |-> IF h # NONE THEN [L.prev EXCEPT ![b] = NONE, ![h] = b]
                              ELSE [L.prev EXCEPT ![b] = NONE],
         next |-> [L.next EXCEPT ![b] = h],
         head |-> [L.head EXCEPT ![k] = b],
         tail |-> IF h = NONE THEN [L.tail EXCEPT ![k] = b] ELSE L.tail]

(***************************************************************************)
(* PopHead(L, k): drop the first node of list k, trusting that it is one.  *)
(***************************************************************************)
PopHead(L, k) ==
    LET n == L.next[L.head[k]]
    IN  [prev |-> IF n # NONE THEN [L.prev EXCEPT ![n] = NONE] ELSE L.prev,
         next |-> L.next,
         head |-> [L.head EXCEPT ![k] = n],
         tail |-> IF n = NONE THEN [L.tail EXCEPT ![k] = NONE] ELSE L.tail]

\* both links of node b are reset; no neighbour and no end is touched
ClearLinks(L, b) == [L EXCEPT !.prev[b] = NONE, !.next[b] = NONE]

EmptyLists(Nodes, Lists) ==
    [prev |-> [b \in Nodes |-> NONE], next |-> [b \in Nodes |-> NONE],
     head |-> [k \in Lists |-> NONE], tail |-> [k \in Lists |-> NONE]]

(***************************************************************************)
(* The shape of a family of lists, and what it means for the family to be  *)
(* well formed when list[b] is the list node b is on (NONE: on no list).   *)
(* The first two clauses talk about one node and its neighbours; they do   *)
(* not exclude a ring that no head leads to, and the third one does: among *)
(* any nodes on lists, one has no predecessor among them.                  *)
(***************************************************************************)
ListFamily(Nodes, Lists) ==
    [prev : [Nodes -> Nodes \cup {NONE}], next : [Nodes -> Nodes \cup {NONE}],
     head : [Lists -> Nodes \cup {NONE}], tail : [Lists -> Nodes \cup {NONE}]]

EndsWellFormed(L, Lists, list) ==
    \A k \in Lists :
        /\ L.head[k] # NONE => list[L.head[k]] = k /\ L.prev[L.head[k]] = NONE
        /\ L.tail[k] # NONE => list[L.tail[k]] = k /\ L.next[L.tail[k]] = NONE
        /\ L.head[k] = NONE <=> L.tail[k] = NONE

LinksWellFormed(L, Nodes, list) ==
    \A b \in Nodes : list[b] # NONE =>
        /\ IF L.prev[b] = NONE
           THEN L.head[list[b]] = b
           ELSE list[L.prev[b]] = list[b] /\ L.next[L.prev[b]] = b
        /\ IF L.next[b] = NONE
           THEN L.tail[list[b]] = b
           ELSE list[L.next[b]] = list[b] /\ L.prev[L.next[b]] = b

NoRing(L, Nodes, list) ==
    \A S \in SUBSET {b \in Nodes : list[b] # NONE} :
        S # {} => \E b \in S : L.prev[b] \notin S

WellFormed(L, Nodes, Lists, list) ==
    /\ EndsWellFormed(L, Lists, list)
    /\ LinksWellFormed(L, Nodes, list)
    /\ NoRing(L, Nodes, list)

(***************************************************************************)
(* The nodes met when list k is walked from its head.                      *)
(***************************************************************************)
Reachable(L, Nodes, k) ==
    LET node[i \in 0 .. Cardinality(Nodes)] ==
            IF i = 0 THEN L.head[k]
            ELSE IF node[i - 1] = NONE THEN NONE ELSE L.next[node[i - 1]]
    IN  { node[i] : i \in 0 .. Cardinality(Nodes) } \ {NONE}

=============================================================================
