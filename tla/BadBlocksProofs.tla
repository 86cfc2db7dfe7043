--------------------------- MODULE BadBlocksProofs --------------------------
(***************************************************************************)
(* Proofs about BadBlocks for every geometry: a block marked bad is out of *)
(* use, wherever a sweep finds it worn, except the one that ends a         *)
(* collection.                                                             *)
(***************************************************************************)
EXTENDS BadBlocksInv, PageMapProofs

(***************************************************************************)
(* The fold over the worn blocks and the copy loop, unfolded.              *)
(***************************************************************************)

\* the dies after the replacement of block b and then of block c
ReplaceBoth(s, b, c) ==
    UNION {UpdateBadBlockTable(t, c) : t \in UpdateBadBlockTable(s, b)}

\* The fold over a table without entries, with one and with two.
LEMMA ReplaceUnfolds ==
    ASSUME NEW s
    PROVE  /\ Replace(s, <<>>) = {s}
           /\ \A b : Replace(s, <<b>>) = UpdateBadBlockTable(s, b)
           /\ \A b, c : Replace(s, <<b, c>>) = ReplaceBoth(s, b, c)
<1> DEFINE op(dies, c) == UNION {UpdateBadBlockTable(t, c) : t \in dies}
<1>1. ASSUME NEW e PROVE Replace(s, e) = FoldLeft(op, {s}, e)
  BY DEF Replace
<1>2. \A b : op({s}, b) = UpdateBadBlockTable(s, b)
  OBVIOUS
<1>3. Max({1}) = 1 /\ Max({2}) = 2 /\ Max({1, 2}) = 2
  <2>1. \A x : x = 1 => x \in {1} /\ \A y \in {1} : x >= y
    OBVIOUS
  <2>2. \A x \in {1} : (\A y \in {1} : x >= y) => x = 1
    OBVIOUS
  <2>3. \A x \in {1, 2} : (\A y \in {1, 2} : x >= y) => x = 2
    OBVIOUS
  <2>4. 2 \in {1, 2} /\ \A y \in {1, 2} : 2 >= y
    OBVIOUS
  <2> QED BY <2>1, <2>2, <2>3, <2>4 DEF Max
<1> HIDE DEF op
<1>4. FoldLeft(op, {s}, <<>>) = {s}
  <2> DEFINE iter[S \in SUBSET {}] ==
          IF S = {} THEN {s} ELSE LET x == Max(S) IN op(iter[S \ {x}], <<>>[x])
  <2>1. FoldLeft(op, {s}, <<>>) = iter[{}]
    BY DEF FoldLeft, MapThenFoldSet
  <2> DEFINE g == [S \in SUBSET {} |-> {s}]
  <2>2. g = [S \in SUBSET {} |->
               IF S = {} THEN {s} ELSE LET x == Max(S) IN op(g[S \ {x}], <<>>[x])]
    OBVIOUS
  <2>3. iter = [S \in SUBSET {} |->
               IF S = {} THEN {s} ELSE LET x == Max(S) IN op(iter[S \ {x}], <<>>[x])]
    <3> HIDE DEF g
    <3> QED BY <2>2
  <2> HIDE DEF iter
  <2>4. iter[{}] = {s}
    BY <2>3
  <2> QED BY <2>1, <2>4 DEF iter
<1>5. ASSUME NEW b PROVE FoldLeft(op, {s}, <<b>>) = op({s}, b)
  <2> DEFINE iter[S \in SUBSET {1}] ==
          IF S = {} THEN {s} ELSE LET x == Max(S) IN op(iter[S \ {x}], <<b>>[x])
             g == [S \in SUBSET {1} |-> IF S = {} THEN {s} ELSE op({s}, b)]
  <2>1. FoldLeft(op, {s}, <<b>>) = iter[{1}]
    BY DEF FoldLeft, MapThenFoldSet
  <2>2. g = [S \in SUBSET {1} |->
               IF S = {} THEN {s} ELSE LET x == Max(S) IN op(g[S \ {x}], <<b>>[x])]
    <3>1. {} \in SUBSET {1} /\ {1} \in SUBSET {1} /\ {1} # {} /\ {1} \ {1} = {}
      OBVIOUS
    <3>2. g[{}] = {s} /\ g[{1}] = op({s}, b)
      BY <3>1
    <3>3. g = [S \in SUBSET {1} |-> g[S]] /\ <<b>>[1] = b
      OBVIOUS
    <3>4. ASSUME NEW S \in SUBSET {1}
          PROVE  g[S] = IF S = {} THEN {s}
                        ELSE LET x == Max(S) IN op(g[S \ {x}], <<b>>[x])
      <4> HIDE DEF g
      <4>1. S = {} \/ S = {1}
        OBVIOUS
      <4>2. CASE S = {1}
        <5>1. Max(S) = 1 /\ S \ {1} = {}
          BY <1>3, <3>1, <4>2
        <5> QED BY <3>1, <3>2, <3>3, <4>2, <5>1
      <4> QED BY <3>2, <4>1, <4>2
    <3> HIDE DEF g
    <3> QED BY <3>3, <3>4
  <2>3. iter = [S \in SUBSET {1} |->
               IF S = {} THEN {s} ELSE LET x == Max(S) IN op(iter[S \ {x}], <<b>>[x])]
    <3> HIDE DEF g
    <3> QED BY <2>2
  <2> HIDE DEF iter
  <2>4. iter[{}] = {s}
    BY <2>3
  <2>5. iter[{1}] = op(iter[{}], b)
    <3>1. {1} \in SUBSET {1} /\ {1} # {} /\ {1} \ {1} = {} /\ <<b>>[1] = b
      OBVIOUS
    <3>2. iter[{1}] = op(iter[{1} \ {Max({1})}], <<b>>[Max({1})])
      BY <2>3, <3>1
    <3> QED BY <1>3, <3>1, <3>2
  <2> QED BY <2>1, <2>4, <2>5
<1>6. ASSUME NEW b, NEW c PROVE FoldLeft(op, {s}, <<b, c>>) = op(op({s}, b), c)
  <2> DEFINE iter[S \in SUBSET {1, 2}] ==
          IF S = {} THEN {s} ELSE LET x == Max(S) IN op(iter[S \ {x}], <<b, c>>[x])
             g == [S \in SUBSET {1, 2} |->
                     IF S = {} THEN {s}
                     ELSE IF S = {1} THEN op({s}, b)
                     ELSE IF S = {2} THEN op({s}, c) ELSE op(op({s}, b), c)]
  <2>1. FoldLeft(op, {s}, <<b, c>>) = iter[{1, 2}]
    BY DEF FoldLeft, MapThenFoldSet
  <2>0. ASSUME NEW S \in SUBSET {1, 2}
        PROVE  S = {} \/ S = {1} \/ S = {2} \/ S = {1, 2}
    OBVIOUS
  <2>2. g = [S \in SUBSET {1, 2} |->
               IF S = {} THEN {s} ELSE LET x == Max(S) IN op(g[S \ {x}], <<b, c>>[x])]
    <3>1. /\ {} \in SUBSET {1, 2} /\ {1} \in SUBSET {1, 2} /\ {2} \in SUBSET {1, 2}
          /\ {1, 2} \in SUBSET {1, 2}
          /\ {1} \ {1} = {} /\ {2} \ {2} = {} /\ {1, 2} \ {2} = {1}
          /\ {1} # {} /\ {2} # {} /\ {1, 2} # {} /\ {1} # {2} /\ {1, 2} # {1} /\ {1, 2} # {2}
      OBVIOUS
    <3>2. /\ g[{}] = {s} /\ g[{1}] = op({s}, b) /\ g[{2}] = op({s}, c)
          /\ g[{1, 2}] = op(op({s}, b), c)
      BY <3>1
    <3>3. <<b, c>>[1] = b /\ <<b, c>>[2] = c
      OBVIOUS
    <3>5. g = [S \in SUBSET {1, 2} |-> g[S]]
      OBVIOUS
    <3>4. ASSUME NEW S \in SUBSET {1, 2}
          PROVE  g[S] = IF S = {} THEN {s}
                        ELSE LET x == Max(S) IN op(g[S \ {x}], <<b, c>>[x])
      <4> HIDE DEF g
      <4>2. CASE S = {1}
        <5>1. Max(S) = 1 /\ S \ {1} = {}
          BY <1>3, <3>1, <4>2
        <5> QED BY <3>1, <3>2, <3>3, <4>2, <5>1
      <4>3. CASE S = {2}
        <5>1. Max(S) = 2 /\ S \ {2} = {}
          BY <1>3, <3>1, <4>3
        <5> QED BY <3>1, <3>2, <3>3, <4>3, <5>1
      <4>4. CASE S = {1, 2}
        <5>1. Max(S) = 2 /\ S \ {2} = {1}
          BY <1>3, <3>1, <4>4
        <5> QED BY <3>1, <3>2, <3>3, <4>4, <5>1
      <4> QED BY <2>0, <3>2, <4>2, <4>3, <4>4
    <3> HIDE DEF g
    <3> QED BY <3>4, <3>5
  <2>3. iter = [S \in SUBSET {1, 2} |->
               IF S = {} THEN {s} ELSE LET x == Max(S) IN op(iter[S \ {x}], <<b, c>>[x])]
    <3> HIDE DEF g
    <3> QED BY <2>2
  <2> HIDE DEF iter
  <2>4. iter[{}] = {s}
    BY <2>3
  <2>5. iter[{1}] = op(iter[{}], b)
    <3>1. {1} \in SUBSET {1, 2} /\ {1} # {} /\ {1} \ {1} = {} /\ <<b, c>>[1] = b
      OBVIOUS
    <3>2. iter[{1}] = op(iter[{1} \ {Max({1})}], <<b, c>>[Max({1})])
      BY <2>3, <3>1
    <3> QED BY <1>3, <3>1, <3>2
  <2>6. iter[{1, 2}] = op(iter[{1}], c)
    <3>1. {1, 2} \in SUBSET {1, 2} /\ {1, 2} # {} /\ {1, 2} \ {2} = {1} /\ <<b, c>>[2] = c
      OBVIOUS
    <3>2. iter[{1, 2}] = op(iter[{1, 2} \ {Max({1, 2})}], <<b, c>>[Max({1, 2})])
      BY <2>3, <3>1
    <3> QED BY <1>3, <3>1, <3>2
  <2> QED BY <2>1, <2>4, <2>5, <2>6
<1>7. \A b, c : op(op({s}, b), c) = UNION {UpdateBadBlockTable(t, c) : t \in UpdateBadBlockTable(s, b)}
  BY <1>2 DEF op
<1>8. Replace(s, <<>>) = {s}
  BY <1>1, <1>4
<1>9. ASSUME NEW b PROVE Replace(s, <<b>>) = op({s}, b)
  BY <1>1, <1>5
<1>10. ASSUME NEW b, NEW c PROVE Replace(s, <<b, c>>) = op(op({s}, b), c)
  BY <1>1, <1>6
<1>11. ASSUME NEW b PROVE Replace(s, <<b>>) = UpdateBadBlockTable(s, b)
  BY <1>2, <1>9
<1>12. ASSUME NEW b, NEW c
       PROVE  Replace(s, <<b, c>>) = ReplaceBoth(s, b, c)
  BY <1>7, <1>10 DEF ReplaceBoth
<1> QED BY <1>8, <1>11, <1>12

\* the state of the copy loop behind page p of the block
Copied(m, p) ==
    [die |-> CopyPage(m.die, p, m.closedFlag), closedFlag |-> CopyCloses(m.die, p, m.closedFlag)]

\* The copy loop of CompulsoryGC goes from page to page.
LEMMA MoveOutSteps ==
    ASSUME NEW s, NEW b, NEW closed
    PROVE  \E after :
              /\ after[0] = [die |-> s, closedFlag |-> closed]
              /\ \A n \in Offsets : after[n + 1] = Copied(after[n], Row(b, n))
              /\ MoveOut(s, b, closed) = after[PAGE_NUM_PER_BLOCK]
<1> DEFINE P == PAGE_NUM_PER_BLOCK
           start == [die |-> s, closedFlag |-> closed]
           Walk(n, g) == g = [i \in 0 .. n |->
                                 IF i = 0 THEN start ELSE Copied(g[i - 1], Row(b, i - 1))]
           none == {n \in 0 .. P : ~ \E g : Walk(n, g)}
<1>0. MoveOut(s, b, closed) = (CHOOSE g : Walk(P, g))[P]
  BY DEF MoveOut, Counts, Copied
<1>1. P \in Nat
  BY GeometryAssumption
<1> HIDE DEF P, start
<1>2. none = {}
  <2> SUFFICES ASSUME none # {} PROVE FALSE
    OBVIOUS
  <2>1. none \in SUBSET Nat
    BY <1>1
  <2>2. PICK n \in none : \A m \in none : n <= m
    <3> HIDE DEF none
    <3> QED BY <2>1, LeastNumber
  <2>3. n \in Nat /\ n <= P /\ ~ \E g : Walk(n, g)
    BY <1>1, <2>2
  <2>4. CASE n = 0
    <3> DEFINE g == [i \in 0 .. 0 |-> start]
    <3>1. g = [i \in 0 .. 0 |-> IF i = 0 THEN start ELSE Copied(g[i - 1], Row(b, i - 1))]
      <4>1. \A i \in 0 .. 0 : i = 0
        OBVIOUS
      <4> QED BY <4>1
    <3> QED BY <2>3, <2>4, <3>1
  <2>5. CASE n # 0
    <3>1. n - 1 \in 0 .. P /\ ~ (n <= n - 1) /\ n - 1 \in Nat
      BY <1>1, <2>3, <2>5
    <3>2. n - 1 \notin none
      BY <2>2, <3>1
    <3>3. PICK g : Walk(n - 1, g)
      BY <3>1, <3>2
    <3> DEFINE h == [i \in 0 .. n |->
                        IF i = n THEN Copied(g[n - 1], Row(b, n - 1)) ELSE g[i]]
    <3>4. ASSUME NEW i \in 0 .. n
          PROVE  h[i] = IF i = 0 THEN start ELSE Copied(h[i - 1], Row(b, i - 1))
      <4>1. CASE i = n
        <5>1. n - 1 \in 0 .. n /\ n - 1 # n /\ n \in 0 .. n
          BY <2>3, <3>1
        <5>2. h[n - 1] = g[n - 1] /\ h[n] = Copied(g[n - 1], Row(b, n - 1))
          BY <5>1
        <5> HIDE DEF h
        <5> QED BY <2>5, <4>1, <5>2
      <4>2. CASE i # n
        <5>1. i \in 0 .. n - 1 /\ (i # 0 => i - 1 \in 0 .. n /\ i - 1 # n)
          BY <2>3, <4>2
        <5>2. h[i] = g[i] /\ (i # 0 => h[i - 1] = g[i - 1])
          BY <4>2, <5>1
        <5>3. g[i] = IF i = 0 THEN start ELSE Copied(g[i - 1], Row(b, i - 1))
          BY <3>3, <5>1
        <5> HIDE DEF h
        <5> QED BY <5>2, <5>3
      <4> QED BY <4>1, <4>2
    <3>5. h = [i \in 0 .. n |-> h[i]]
      OBVIOUS
    <3>6. Walk(n, h)
      <4> HIDE DEF h
      <4> QED BY <3>4, <3>5
    <3> QED BY <2>3, <3>6
  <2> QED BY <2>4, <2>5
<1>3. \E g : Walk(P, g)
  <2>1. P \in 0 .. P
    BY <1>1
  <2> QED BY <1>2, <2>1
<1> DEFINE after == CHOOSE g : Walk(P, g)
<1>4. Walk(P, after)
  BY <1>3
<1>5. MoveOut(s, b, closed) = after[P]
  BY <1>0
<1> HIDE DEF after
<1>6. after[0] = start
  <2>1. 0 \in 0 .. P
    BY <1>1
  <2> QED BY <1>4, <2>1
<1>7. ASSUME NEW n \in Offsets
      PROVE  after[n + 1] = Copied(after[n], Row(b, n))
  <2>1. n + 1 \in 0 .. P /\ n + 1 # 0 /\ (n + 1) - 1 = n
    BY <1>1 DEF Offsets, P
  <2> QED BY <1>4, <2>1
<1> QED BY <1>5, <1>6, <1>7 DEF P, start

(***************************************************************************)
(* Writing a page of a die that has a hole.                                *)
(***************************************************************************)

\* Outside a full block, the next page of a block is blank and not the hole.
LEMMA FreePageButFor ==
    ASSUME NEW s \in DieType, NEW h, PrefixButFor(s, h),
           h # NONE => GivenOut(s, h, Blocks),
           NEW b \in Blocks, ~Full(s, b)
    PROVE  /\ Frontier(s, b) \in Offsets
           /\ FreePage(s, b) = Row(b, Frontier(s, b))
           /\ FreePage(s, b) \in Rows
           /\ s.valid[FreePage(s, b)] /\ s.lpn[FreePage(s, b)] = NONE
           /\ FreePage(s, b) # h
<1>1. s.currentPage[b] \in PageCounters
  BY DEF DieType
<1>2. Frontier(s, b) \in Offsets
  BY <1>1, BumpFacts DEF Full, Frontier
<1>3. FreePage(s, b) = Row(b, Frontier(s, b)) /\ FreePage(s, b) \in Rows
  BY <1>2, RowFacts DEF FreePage, Frontier
<1>4. ~(Frontier(s, b) < Frontier(s, b))
  BY <1>2 DEF Offsets
<1>5. s.valid[FreePage(s, b)] \in BOOLEAN
  BY <1>3 DEF DieType
<1>6. FreePage(s, b) # h
  <2> DEFINE f == Frontier(s, b)
  <2> SUFFICES ASSUME Row(b, f) = h PROVE FALSE
    BY <1>3
  <2>1. h # NONE
    BY <1>3, NoneIsNoIndex
  <2>2. PICK c \in Blocks, i \in Offsets : h = Row(c, i) /\ i < Frontier(s, c)
    BY <2>1 DEF GivenOut
  <2>3. f \in Offsets
    BY <1>2
  <2> HIDE DEF f
  <2>4. b = c /\ f = i
    BY <2>2, <2>3, RowInjective
  <2> QED BY <1>4, <2>2, <2>4 DEF f
<1> QED BY <1>2, <1>3, <1>4, <1>5, <1>6 DEF PrefixButFor

\* Writing the next page of a block leaves the hole as the only page below
\* the frontier of its block that is not written.
LEMMA ProgramKeepsButFor ==
    ASSUME NEW s \in DieType, NEW h, PrefixButFor(s, h),
           h # NONE => GivenOut(s, h, Blocks),
           NEW b \in Blocks, ~Full(s, b), NEW l \in Lpns, NEW v \in Data
    PROVE  LET u == Program(s, b, FreePage(s, b), l, v)
           IN  /\ u \in DieType
               /\ PrefixButFor(u, h)
               /\ \A c \in Blocks : Frontier(u, c) = IF c = b THEN Frontier(s, b) + 1
                                                             ELSE Frontier(s, c)
<1> DEFINE p == FreePage(s, b)
           u == Program(s, b, p, l, v)
<1>0. /\ Frontier(s, b) \in Offsets /\ p = Row(b, Frontier(s, b)) /\ p \in Rows
      /\ s.valid[p] /\ s.lpn[p] = NONE /\ p # h
  BY FreePageButFor
<1>1. /\ u.lpn = [s.lpn EXCEPT ![p] = l] /\ u.flash = [s.flash EXCEPT ![p] = v]
      /\ u.valid = s.valid
  BY DEF DieType, Program
<1>2. s.lpn \in [Rows -> Lpns \cup {NONE}] /\ s.flash \in [Rows -> Data \cup {Erased}]
  BY DEF DieType
<1>3. u \in DieType
  BY <1>0, ProgramKeepsType
<1>4. \A c \in Blocks : Frontier(u, c) = IF c = b THEN Frontier(s, b) + 1 ELSE Frontier(s, c)
  BY <1>0, ProgramKeepsType
<1>5. PrefixButFor(u, h)
  <2> SUFFICES ASSUME NEW c \in Blocks, NEW i \in Offsets
               PROVE  /\ u.lpn[Row(c, i)] # NONE <=> i < Frontier(u, c) /\ Row(c, i) # h
                      /\ u.flash[Row(c, i)] # Erased <=> i < Frontier(u, c) /\ Row(c, i) # h
                      /\ ~u.valid[Row(c, i)] => i < Frontier(u, c) /\ Row(c, i) # h
    BY DEF PrefixButFor
  <2>1. /\ s.lpn[Row(c, i)] # NONE <=> i < Frontier(s, c) /\ Row(c, i) # h
        /\ s.flash[Row(c, i)] # Erased <=> i < Frontier(s, c) /\ Row(c, i) # h
        /\ ~s.valid[Row(c, i)] => i < Frontier(s, c) /\ Row(c, i) # h
    BY DEF PrefixButFor
  <2>2. Row(c, i) \in Rows
    BY RowFacts
  <2>3. CASE Row(c, i) = p
    <3>1. c = b /\ i = Frontier(s, b)
      BY <1>0, <2>3, RowInjective
    <3>2. i < Frontier(u, c)
      BY <1>0, <1>4, <3>1 DEF Offsets
    <3>3. u.lpn[Row(c, i)] = l /\ u.flash[Row(c, i)] = v
      BY <1>1, <1>2, <2>2, <2>3
    <3>4. l # NONE /\ v # Erased
      BY SentinelAssumption DEF Lpns
    <3> QED BY <1>0, <2>3, <3>2, <3>3, <3>4
  <2>4. CASE Row(c, i) # p
    <3>1. /\ u.lpn[Row(c, i)] = s.lpn[Row(c, i)] /\ u.flash[Row(c, i)] = s.flash[Row(c, i)]
          /\ u.valid[Row(c, i)] = s.valid[Row(c, i)]
      BY <1>1, <1>2, <2>2, <2>4
    <3>2. i < Frontier(u, c) <=> i < Frontier(s, c)
      <4>1. CASE c = b
        <5>1. i # Frontier(s, b)
          BY <1>0, <2>4, <4>1
        <5> QED BY <1>0, <1>4, <4>1, <5>1 DEF Offsets
      <4>2. CASE c # b
        BY <1>4, <4>2
      <4> QED BY <4>1, <4>2
    <3> QED BY <2>1, <3>1, <3>2
  <2> QED BY <2>3, <2>4
<1> QED BY <1>3, <1>4, <1>5

(***************************************************************************)
(* CompulsoryGC.                                                           *)
(***************************************************************************)

\* u is s after some copies: the roles of the blocks are the same, no block
\* has been erased, and reads find what they found
MovedOn(s, u) ==
    /\ u.bad = s.bad /\ u.free = s.free
    /\ u.currentBlock = s.currentBlock /\ u.freeBlock = s.freeBlock
    /\ \A c \in Blocks : Frontier(s, c) <= Frontier(u, c)
    /\ \A m \in Lpns : PmRead(u, m) = PmRead(s, m)

\* One iteration of the copy loop keeps its invariant.
LEMMA CopyKeepsMoveInv ==
    ASSUME NEW s, NEW h, NEW b, NEW n \in Offsets, NEW closed \in BOOLEAN,
           MoveInv(s, h, b, n, closed)
    PROVE  LET u == CopyPage(s, Row(b, n), closed)
           IN  /\ MoveInv(u, h, b, n + 1, CopyCloses(s, Row(b, n), closed))
               /\ CopyCloses(s, Row(b, n), closed) \in BOOLEAN
               /\ closed => CopyCloses(s, Row(b, n), closed)
               /\ MovedOn(s, u)
<1> DEFINE p == Row(b, n)
           l == s.lpn[p]
           u == CopyPage(s, p, closed)
           cl == CopyCloses(s, p, closed)
<1>0. /\ s \in DieType /\ MapForward(s) /\ MapBackward(s, b, n) /\ PrefixButFor(s, h)
      /\ Pools(s) /\ CountsExact(s) /\ ListsWellFormed(s, b)
      /\ b \in Blocks /\ b # s.freeBlock /\ n \in Nat
      /\ ~closed => b # s.currentBlock /\ Frontier(s, s.freeBlock) = 0
      /\ closed => b = s.currentBlock \/ Full(s, s.currentBlock)
      /\ Frontier(s, s.freeBlock) <= n
      /\ h # NONE => GivenOut(s, h, Blocks \ {b})
  BY DEF MoveInv, Offsets
<1>1. /\ s.ppn \in [Lpns -> Rows \cup {NONE}] /\ s.lpn \in [Rows -> Lpns \cup {NONE}]
      /\ s.flash \in [Rows -> Data \cup {Erased}] /\ s.valid \in [Rows -> BOOLEAN]
      /\ s.currentBlock \in Blocks /\ s.freeBlock \in Blocks
      /\ \A c \in Blocks : Frontier(s, c) \in Counts
  BY <1>0, CountFacts DEF DieType
<1>2. p \in Rows /\ p # NONE /\ l \in Lpns \cup {NONE} /\ s.valid[p] \in BOOLEAN
  BY <1>0, <1>1, RowFacts, NoneIsNoIndex
<1>3. cl \in BOOLEAN /\ (closed => cl)
  BY <1>2 DEF CopyCloses, Full
<1>4. h # NONE => GivenOut(s, h, Blocks)
  BY <1>0 DEF GivenOut
<1>5. \A m \in Lpns, i \in 0 .. n - 1 : s.ppn[m] # Row(b, i)
  BY DEF MoveInv
<1>6. \A i \in 0 .. (n + 1) - 1 : i \in Offsets /\ (i = n \/ i \in 0 .. n - 1)
  <2>1. n \in Nat /\ n < PAGE_NUM_PER_BLOCK /\ PAGE_NUM_PER_BLOCK \in Nat
    BY GeometryAssumption, SMTT(30) DEF Offsets
  <2>2. \A i \in 0 .. (n + 1) - 1 : i \in Nat /\ i <= n
    BY <2>1
  <2> QED BY <2>1, <2>2, SMTT(30) DEF Offsets
<1>7. CASE ~s.valid[p] \/ l = NONE
  <2>1. \A m \in Lpns : s.ppn[m] # p
    BY <1>0, <1>2, <1>7, NoneIsNoIndex DEF MapForward
  <2>2. l # NONE => s.ppn[l] # p
    BY <1>2, <2>1
  <2>3. ~s.valid[p] => l # NONE
    BY <1>0 DEF PrefixButFor
  <2>4. u = s
    BY <1>7, <2>2, <2>3 DEF CopyPage
  <2>5. cl = closed
    BY <1>7 DEF CopyCloses
  <2>6. MapBackward(s, b, n + 1)
    BY <1>0 DEF MapBackward, Offsets
  <2>7. \A m \in Lpns, i \in 0 .. (n + 1) - 1 : s.ppn[m] # Row(b, i)
    BY <1>5, <1>6, <2>1
  <2>8. Frontier(s, s.freeBlock) <= n + 1
    BY <1>0, <1>1 DEF Counts
  <2>9. MoveInv(s, h, b, n + 1, closed)
    BY <1>0, <2>6, <2>7, <2>8 DEF MoveInv
  <2>10. MovedOn(s, s)
    BY <1>1 DEF MovedOn, Counts
  <2> QED BY <1>3, <2>4, <2>5, <2>9, <2>10
<1>8. CASE s.valid[p] /\ l # NONE
  <2> DEFINE x == CopyTarget(s, closed)
             q == FreePage(s, x)
             d == s.flash[p]
             w == Program(s, x, q, l, d)
  <2>0. u = w /\ (cl <=> closed \/ Full(s, s.currentBlock))
    BY <1>8 DEF CopyPage, CopyCloses
  <2>1. l \in Lpns /\ ~(n < n)
    BY <1>0, <1>2, <1>8
  <2>2. s.ppn[l] = p
    BY <1>0, <1>8, <2>1 DEF MapBackward
  <2>3. d \in Data
    <3>1. n < Frontier(s, b) /\ p # h
      BY <1>0, <1>8 DEF PrefixButFor
    <3>2. d # Erased
      BY <1>0, <3>1 DEF PrefixButFor
    <3> QED BY <1>1, <1>2, <3>2
  <2>4. n < PAGE_NUM_PER_BLOCK /\ PAGE_NUM_PER_BLOCK \in Nat
    BY GeometryAssumption DEF Offsets
  <2>5. ~Full(s, s.freeBlock)
    BY <1>0, <1>1, <2>4, CountFacts DEF Counts
  <2>6. /\ x \in {s.currentBlock, s.freeBlock} /\ ~Full(s, x) /\ x \in Blocks
        /\ x = IF cl THEN s.freeBlock ELSE s.currentBlock
        /\ x # b
    BY <1>0, <1>1, <2>0, <2>5 DEF CopyTarget
  <2>7. /\ w.valid = s.valid /\ w.bad = s.bad /\ w.free = s.free
        /\ w.currentBlock = s.currentBlock /\ w.freeBlock = s.freeBlock
        /\ w.ppn = [s.ppn EXCEPT ![l] = q] /\ w.flash = [s.flash EXCEPT ![q] = d]
    BY <1>0 DEF Program, DieType
  <2> HIDE DEF p, l, x, u, cl, d
  <2>8. q \in Rows /\ s.valid[q] /\ s.lpn[q] = NONE
        /\ Frontier(s, x) \in Offsets /\ q = Row(x, Frontier(s, x))
    BY <1>0, <1>4, <2>6, FreePageButFor
  <2>9. /\ w \in DieType /\ PrefixButFor(w, h)
        /\ \A c \in Blocks : Frontier(w, c) = IF c = x THEN Frontier(s, x) + 1
                                                       ELSE Frontier(s, c)
    BY <1>0, <1>4, <2>1, <2>3, <2>6, ProgramKeepsButFor
  <2>10. Pools(w) /\ CountsExact(w) /\ ListsWellFormed(w, b)
    BY <1>0, <2>6, <2>9, ProgramKeepsRest
  <2>11. MapForward(w) /\ MapBackward(w, b, n + 1)
    <3> DEFINE k == n + 1
    <3>1. \A m \in Lpns \ {l} :
             s.ppn[m] # NONE => s.valid[s.ppn[m]] /\ s.lpn[s.ppn[m]] = m
      BY <1>0 DEF MapForward
    <3>2. ASSUME NEW c \in Blocks, NEW i \in Offsets,
                 s.valid[Row(c, i)], s.lpn[Row(c, i)] # NONE, ~(c = b /\ i < k)
          PROVE  s.lpn[Row(c, i)] # l /\ s.ppn[s.lpn[Row(c, i)]] = Row(c, i)
      <4>1. ~(c = b /\ i < n) /\ ~(c = b /\ i = n)
        BY <1>0, <3>2 DEF Offsets
      <4>2. s.ppn[s.lpn[Row(c, i)]] = Row(c, i)
        BY <1>0, <3>2, <4>1 DEF MapBackward
      <4>3. Row(c, i) # p
        BY <1>0, <4>1, RowInjective DEF p
      <4> QED BY <2>2, <4>2, <4>3
    <3> HIDE DEF k, w
    <3>3. MapForward(Program(s, x, FreePage(s, x), l, d))
          /\ MapBackward(Program(s, x, FreePage(s, x), l, d), b, k)
      BY <1>0, <2>1, <2>3, <2>6, <2>8, <3>1, <3>2, ProgramKeepsMap
    <3> QED BY <3>3 DEF k, w
  <2> HIDE DEF w
  <2>12. s.currentBlock # s.freeBlock
    BY <1>0 DEF Pools
  <2>13. \A c \in Blocks : Frontier(s, c) <= Frontier(w, c)
    BY <1>1, <2>6, <2>9 DEF Counts
  <2>14. h # NONE => GivenOut(w, h, Blocks \ {b})
    <3>1. ASSUME NEW c \in Blocks, NEW i \in Offsets, i < Frontier(s, c)
          PROVE  i < Frontier(w, c)
      BY <1>1, <2>6, <2>9, <3>1 DEF Counts, Offsets
    <3> QED BY <1>0, <3>1 DEF GivenOut
  <2>15. /\ ~cl => b # w.currentBlock /\ Frontier(w, w.freeBlock) = 0
         /\ cl => b = w.currentBlock \/ Full(w, w.currentBlock)
         /\ Frontier(w, w.freeBlock) <= n + 1
    <3>1. ~cl => b # w.currentBlock /\ Frontier(w, w.freeBlock) = 0
      BY <1>0, <1>1, <2>0, <2>6, <2>7, <2>9, <2>12
    <3>2. cl => b = w.currentBlock \/ Full(w, w.currentBlock)
      <4>1. cl => b = s.currentBlock \/ Full(s, s.currentBlock)
        BY <1>0, <2>0
      <4>2. cl => Frontier(w, s.currentBlock) = Frontier(s, s.currentBlock)
        BY <1>1, <2>6, <2>9, <2>12
      <4> QED BY <1>0, <1>1, <2>7, <2>9, <4>1, <4>2, CountFacts
    <3>3. Frontier(w, w.freeBlock) =
             IF cl THEN Frontier(s, s.freeBlock) + 1 ELSE Frontier(s, s.freeBlock)
      BY <1>1, <2>6, <2>7, <2>9, <2>12
    <3>4. Frontier(s, s.freeBlock) \in Nat
      BY <1>1 DEF Counts
    <3>5. Frontier(w, w.freeBlock) <= n + 1
      <4> DEFINE f == Frontier(s, s.freeBlock)
      <4>1. f \in Nat /\ f <= n /\ n \in Nat
        BY <1>0, <3>4
      <4> HIDE DEF f
      <4>2. f + 1 <= n + 1 /\ f <= n + 1
        BY <4>1
      <4> QED BY <3>3, <4>2 DEF f
    <3> QED BY <3>1, <3>2, <3>5
  <2>16. ASSUME NEW m \in Lpns, NEW i \in 0 .. (n + 1) - 1, w.ppn[m] = Row(b, i)
         PROVE  FALSE
    <3>1. i \in Offsets /\ (i = n \/ i \in 0 .. n - 1)
      BY <1>6
    <3>2. CASE m = l
      <4> DEFINE f == Frontier(s, x)
      <4>1. f \in Offsets /\ Row(b, i) = Row(x, f)
        BY <1>1, <2>1, <2>7, <2>8, <2>16, <3>2
      <4> HIDE DEF f
      <4> QED BY <1>0, <2>6, <3>1, <4>1, RowInjective
    <3>3. CASE m # l
      <4>1. s.ppn[m] = Row(b, i)
        BY <1>1, <2>7, <2>16, <3>3
      <4>2. i # n
        BY <1>0, <1>2, <3>3, <4>1 DEF MapForward, p, l
      <4> QED BY <1>5, <3>1, <4>1, <4>2
    <3> QED BY <3>2, <3>3
  <2>17. \A m \in Lpns : PmRead(w, m) = PmRead(s, m)
    <3>1. \A m \in Lpns : s.ppn[m] # q
      BY <1>0, <2>8, NoneIsNoIndex DEF MapForward
    <3> HIDE DEF q
    <3>2. ASSUME NEW m \in Lpns, m # l PROVE PmRead(w, m) = PmRead(s, m)
      <4>1. w.ppn[m] = s.ppn[m]
        BY <1>1, <2>7, <3>2
      <4>2. s.ppn[m] # NONE => w.flash[s.ppn[m]] = s.flash[s.ppn[m]]
        BY <1>1, <2>7, <3>1
      <4> QED BY <4>1, <4>2 DEF PmRead
    <3>3. PmRead(w, l) = d /\ PmRead(s, l) = d
      <4>1. w.ppn[l] = q /\ w.flash[q] = d
        BY <1>1, <2>1, <2>7, <2>8
      <4> QED BY <1>2, <2>2, <2>8, <4>1, NoneIsNoIndex DEF PmRead, d
    <3> QED BY <3>2, <3>3
  <2>18. MovedOn(s, w)
    BY <2>7, <2>13, <2>17 DEF MovedOn
  <2>19. MoveInv(w, h, b, n + 1, cl)
    <3>1. b \in Blocks \ {w.freeBlock}
      BY <1>0, <2>7
    <3> QED BY <2>9, <2>10, <2>11, <2>14, <2>15, <2>16, <3>1 DEF MoveInv
  <2> QED BY <1>3, <2>0, <2>18, <2>19 DEF u, cl, p
<1> QED BY <1>2, <1>7, <1>8

\* The copy loop from its first page to its last.
LEMMA MoveOutKeepsMoveInv ==
    ASSUME NEW s, NEW h, NEW b, NEW closed \in BOOLEAN, MoveInv(s, h, b, 0, closed)
    PROVE  LET m == MoveOut(s, b, closed)
           IN  /\ MoveInv(m.die, h, b, PAGE_NUM_PER_BLOCK, m.closedFlag)
               /\ m.closedFlag \in BOOLEAN
               /\ closed => m.closedFlag
               /\ MovedOn(s, m.die)
<1> DEFINE P == PAGE_NUM_PER_BLOCK
<1>1. PICK after :
         /\ after[0] = [die |-> s, closedFlag |-> closed]
         /\ \A n \in Offsets : after[n + 1] = Copied(after[n], Row(b, n))
         /\ MoveOut(s, b, closed) = after[P]
  BY MoveOutSteps
<1> DEFINE Fine(n) == /\ MoveInv(after[n].die, h, b, n, after[n].closedFlag)
                      /\ after[n].closedFlag \in BOOLEAN
                      /\ closed => after[n].closedFlag
                      /\ MovedOn(s, after[n].die)
           bad == {n \in Counts : ~Fine(n)}
<1>2. P \in Nat
  BY GeometryAssumption
<1>3. Fine(0)
  <2>1. after[0].die = s /\ after[0].closedFlag = closed
    BY <1>1
  <2>2. MovedOn(s, s)
    <3>1. \A c \in Blocks : Frontier(s, c) \in Counts
      BY CountFacts DEF MoveInv
    <3> QED BY <3>1 DEF MovedOn, Counts
  <2> QED BY <2>1, <2>2
<1>4. ASSUME NEW n \in Offsets, Fine(n) PROVE Fine(n + 1)
  <2> DEFINE t == after[n].die
             u == after[n + 1].die
             cl == after[n].closedFlag
  <2>1. u = CopyPage(t, Row(b, n), cl) /\ after[n + 1].closedFlag = CopyCloses(t, Row(b, n), cl)
    <3>1. after[n + 1] = Copied(after[n], Row(b, n))
      BY <1>1
    <3>2. u = CopyPage(t, Row(b, n), cl)
      BY <3>1 DEF Copied
    <3>3. after[n + 1].closedFlag = CopyCloses(t, Row(b, n), cl)
      BY <3>1 DEF Copied
    <3> QED BY <3>2, <3>3
  <2>2. /\ MoveInv(u, h, b, n + 1, after[n + 1].closedFlag)
        /\ after[n + 1].closedFlag \in BOOLEAN
        /\ cl => after[n + 1].closedFlag
        /\ MovedOn(t, u)
    BY <1>4, <2>1, CopyKeepsMoveInv
  <2>3. MovedOn(s, u)
    <3>1. /\ MovedOn(s, t) /\ MovedOn(t, u)
          /\ s \in DieType /\ t \in DieType /\ u \in DieType
      BY <1>4, <2>2 DEF MoveInv
    <3> HIDE DEF t, u
    <3>2. \A c \in Blocks : Frontier(s, c) <= Frontier(u, c)
      <4> TAKE c \in Blocks
      <4> DEFINE f == Frontier(s, c)
                 g == Frontier(t, c)
                 k == Frontier(u, c)
      <4>1. f \in Nat /\ g \in Nat /\ k \in Nat
        BY <3>1, CountFacts DEF Counts
      <4>2. f <= g /\ g <= k
        BY <3>1 DEF MovedOn
      <4> HIDE DEF f, g, k
      <4>3. f <= k
        BY <4>1, <4>2
      <4> QED BY <4>3 DEF f, k
    <3> QED BY <3>1, <3>2 DEF MovedOn
  <2> QED BY <1>4, <2>2, <2>3
<1>5. bad = {}
  <2> SUFFICES ASSUME bad # {} PROVE FALSE
    OBVIOUS
  <2>1. bad \in SUBSET Nat
    BY <1>2 DEF Counts
  <2>2. PICK n \in bad : \A k \in bad : n <= k
    <3> HIDE DEF bad
    <3> QED BY <2>1, LeastNumber
  <2>3. n \in Nat /\ n <= P /\ n # 0 /\ ~Fine(n)
    <3> HIDE DEF Fine
    <3> QED BY <1>2, <1>3, <2>2 DEF Counts
  <2> DEFINE k == n - 1
  <2>4. k \in Offsets /\ k \in Counts /\ k + 1 = n /\ ~ (n <= k)
    BY <1>2, <2>3 DEF Offsets, Counts
  <2> HIDE DEF k, Fine
  <2>5. Fine(k)
    BY <2>2, <2>4
  <2>6. Fine(k + 1)
    BY <1>4, <2>4, <2>5
  <2> QED BY <2>3, <2>4, <2>6
<1>6. Fine(P)
  <2>1. P \in Counts
    BY <1>2 DEF Counts
  <2> HIDE DEF Fine
  <2> QED BY <1>5, <2>1
<1> QED BY <1>1, <1>6

\* CompulsoryGC starts its copy loop with the block off its list.
LEMMA UnlinkStartsMove ==
    ASSUME NEW s, NEW h, WaitInv(s, h), NEW b \in Blocks, Frontier(s, b) > 0,
           h # NONE => BlockOf(h) # b,
           NEW closed, closed = (Full(s, s.currentBlock) \/ b = s.currentBlock),
           NEW u, u = [s EXCEPT !.list = Unlink(@, b, s.invalidPageCnt[b])]
    PROVE  MoveInv(u, h, b, 0, closed) /\ MovedOn(s, u)
<1> DEFINE k == s.invalidPageCnt[b]
           L == Unlink(s.list, b, k)
           in == ListOf(s, NONE)
<1>0. /\ s \in DieType /\ MapForward(s) /\ MapBackward(s, NONE, 0) /\ PrefixButFor(s, h)
      /\ h # NONE => GivenOut(s, h, Blocks)
      /\ Pools(s) /\ CountsExact(s) /\ ListsWellFormed(s, NONE)
      /\ Frontier(s, s.freeBlock) = 0
  BY DEF WaitInv
<1>1. /\ L \in ListFamily(Blocks, Counts)
      /\ WellFormed(L, Blocks, Counts, [in EXCEPT ![b] = NONE])
      /\ SparesOthers(s.list, L, Blocks, in, b)
  BY <1>0, UnlinkKeepsLists
<1>2. u = [s EXCEPT !.list = L]
  OBVIOUS
<1> HIDE DEF L
<1>3. /\ u \in DieType
      /\ u.ppn = s.ppn /\ u.valid = s.valid /\ u.lpn = s.lpn /\ u.bad = s.bad
      /\ u.free = s.free /\ u.invalidPageCnt = s.invalidPageCnt
      /\ u.currentPage = s.currentPage /\ u.list = L
      /\ u.currentBlock = s.currentBlock /\ u.freeBlock = s.freeBlock /\ u.flash = s.flash
  <2>1. u \in DieType
    BY <1>0, <1>1, <1>2, DieUpdate
  <2> QED BY <1>0, <1>2, <2>1 DEF DieType
<1>4. \A c \in Blocks : Frontier(u, c) = Frontier(s, c) /\ Frontier(s, c) \in Counts
  BY <1>0, <1>3, CountFacts DEF Frontier
<1>5. s.freeBlock \in Blocks /\ s.currentBlock \in Blocks
      /\ s.invalidPageCnt \in [Blocks -> Counts]
  BY <1>0 DEF DieType
<1>6. ListsWellFormed(u, b)
  <2>1. ListOf(u, b) = [in EXCEPT ![b] = NONE]
    <3>1. in = [c \in Blocks |-> IF s.invalidPageCnt[c] = 0 THEN NONE ELSE s.invalidPageCnt[c]]
      BY NoneIsNoIndex DEF ListOf
    <3>2. ListOf(u, b) = [c \in Blocks |-> IF c = b THEN NONE ELSE in[c]]
      BY <1>3, <3>1 DEF ListOf
    <3>3. [in EXCEPT ![b] = NONE] = [c \in Blocks |-> IF c = b THEN NONE ELSE in[c]]
      BY <3>1
    <3> QED BY <3>2, <3>3
  <2>2. ASSUME NEW c \in Blocks, s.invalidPageCnt[c] = 0
        PROVE  L.prev[c] = NONE /\ L.next[c] = NONE
    <3>1. s.list.prev[c] = NONE /\ s.list.next[c] = NONE
      BY <1>0, <2>2 DEF ListsWellFormed
    <3>2. CASE c = b
      <4>1. s.list.prev \in [Blocks -> Blocks \cup {NONE}]
            /\ s.list.next \in [Blocks -> Blocks \cup {NONE}]
        BY <1>0 DEF DieType, ListFamily
      <4>2. L.prev[b] = s.list.prev[b] /\ L.next[b] = s.list.next[b]
        BY <3>1, <3>2, <4>1 DEF Unlink, L
      <4> QED BY <3>1, <3>2, <4>2
    <3>3. CASE c # b
      <4>1. in[c] = NONE
        BY <2>2 DEF ListOf
      <4> QED BY <1>1, <3>1, <3>3, <4>1 DEF SparesOthers
    <3> QED BY <3>2, <3>3
  <2> QED BY <1>1, <1>3, <2>1, <2>2 DEF ListsWellFormed
<1>7. MapForward(u) /\ MapBackward(u, b, 0) /\ PrefixButFor(u, h)
  BY <1>0, <1>3, <1>4, NoneIsNoIndex DEF MapForward, MapBackward, PrefixButFor, Offsets
<1>8. Pools(u) /\ CountsExact(u)
  BY <1>0, <1>3, <1>4 DEF Pools, CountsExact, InvalidOf
<1>9. h # NONE => GivenOut(u, h, Blocks \ {b})
  BY <1>0, <1>4, RowFacts DEF GivenOut
<1>10. b \in Blocks \ {u.freeBlock} /\ Frontier(u, u.freeBlock) = 0
  BY <1>0, <1>3, <1>4, <1>5
<1>11. /\ ~closed => b # u.currentBlock
       /\ closed => b = u.currentBlock \/ Full(u, u.currentBlock)
  BY <1>3 DEF Full
<1>12. \A l \in Lpns, i \in 0 .. 0 - 1 : u.ppn[l] # Row(b, i)
  OBVIOUS
<1>13. MoveInv(u, h, b, 0, closed)
  BY <1>3, <1>6, <1>7, <1>8, <1>9, <1>10, <1>11, <1>12 DEF MoveInv
<1>14. MovedOn(s, u)
  BY <1>3, <1>4 DEF MovedOn, Counts, PmRead
<1> QED BY <1>13, <1>14

\* The part of the invariant that the roles of the blocks do not matter for.
DataInv(s, h) ==
    /\ MapForward(s)
    /\ MapBackward(s, NONE, 0)
    /\ PrefixButFor(s, h)
    /\ h # NONE => GivenOut(s, h, Blocks)
    /\ CountsExact(s)
    /\ ListsWellFormed(s, NONE)

\* The block that has been moved is erased: it holds nothing that is mapped.
LEMMA EraseEndsMove ==
    ASSUME NEW s, NEW h, NEW b, NEW closed, MoveInv(s, h, b, PAGE_NUM_PER_BLOCK, closed)
    PROVE  LET e == EraseBlock(s, b)
           IN  /\ e \in DieType /\ DataInv(e, h)
               /\ e.free = [s.free EXCEPT ![b] = TRUE] /\ e.bad = s.bad
               /\ e.currentBlock = s.currentBlock /\ e.freeBlock = s.freeBlock
               /\ \A c \in Blocks : Frontier(e, c) = IF c = b THEN 0 ELSE Frontier(s, c)
               /\ \A m \in Lpns : PmRead(e, m) = PmRead(s, m)
<1> DEFINE e == EraseBlock(s, b)
           P == PAGE_NUM_PER_BLOCK
<1>0. /\ s \in DieType /\ MapForward(s) /\ MapBackward(s, b, P) /\ PrefixButFor(s, h)
      /\ CountsExact(s) /\ ListsWellFormed(s, b) /\ b \in Blocks
      /\ h # NONE => GivenOut(s, h, Blocks \ {b})
      /\ \A l \in Lpns, i \in 0 .. P - 1 : s.ppn[l] # Row(b, i)
  BY DEF MoveInv
<1>1. /\ s.ppn \in [Lpns -> Rows \cup {NONE}]
      /\ s.invalidPageCnt \in [Blocks -> Counts] /\ s.free \in [Blocks -> BOOLEAN]
      /\ s.currentPage \in [Blocks -> PageCounters]
      /\ s.list \in ListFamily(Blocks, Counts)
  BY <1>0 DEF DieType
<1>2. /\ e \in DieType
      /\ e.free = [s.free EXCEPT ![b] = TRUE]
      /\ e.invalidPageCnt = [s.invalidPageCnt EXCEPT ![b] = 0]
      /\ e.currentPage = [s.currentPage EXCEPT ![b] = 65535]
      /\ e.list = ClearLinks(s.list, b)
      /\ e.ppn = s.ppn /\ e.bad = s.bad
      /\ e.currentBlock = s.currentBlock /\ e.freeBlock = s.freeBlock
      /\ \A p \in Rows :
            /\ BlockOf(p) = b => e.valid[p] /\ e.lpn[p] = NONE /\ e.flash[p] = Erased
            /\ BlockOf(p) # b => /\ e.valid[p] = s.valid[p] /\ e.lpn[p] = s.lpn[p]
                                 /\ e.flash[p] = s.flash[p]
  <2>1. e = EraseBlock(s, b)
    OBVIOUS
  <2> HIDE DEF e
  <2> QED BY <1>0, <2>1, EraseFacts
<1> HIDE DEF e
<1>3. \A c \in Blocks : Frontier(e, c) = IF c = b THEN 0 ELSE Frontier(s, c)
  <2>1. Bump(65535) = 0
    BY BumpFacts DEF PageCounters
  <2> QED BY <1>1, <1>2, <2>1 DEF Frontier
<1>4. \A m \in Lpns : s.ppn[m] # NONE => s.ppn[m] \in Rows /\ BlockOf(s.ppn[m]) # b
  <2> SUFFICES ASSUME NEW m \in Lpns, s.ppn[m] # NONE, BlockOf(s.ppn[m]) = b PROVE FALSE
    BY <1>1
  <2>1. PICK i \in Offsets : s.ppn[m] = Row(b, i)
    BY <1>1, RowFacts
  <2> QED BY <1>0, <2>1 DEF Offsets
<1>5. \A c \in Blocks, i \in Offsets :
         /\ Row(c, i) \in Rows
         /\ c = b => e.valid[Row(c, i)] /\ e.lpn[Row(c, i)] = NONE
                     /\ e.flash[Row(c, i)] = Erased
         /\ c # b => /\ e.valid[Row(c, i)] = s.valid[Row(c, i)]
                     /\ e.lpn[Row(c, i)] = s.lpn[Row(c, i)]
                     /\ e.flash[Row(c, i)] = s.flash[Row(c, i)]
  BY <1>2, RowFacts
<1>6. MapForward(e)
  BY <1>0, <1>2, <1>4 DEF MapForward
<1>7. MapBackward(e, NONE, 0)
  BY <1>0, <1>2, <1>5, NoneIsNoIndex DEF MapBackward
<1>8. h # NONE => GivenOut(e, h, Blocks)
  BY <1>0, <1>3 DEF GivenOut
<1>9. PrefixButFor(e, h)
  <2>1. \A i \in Offsets : ~(i < 0)
    BY DEF Offsets
  <2> QED BY <1>0, <1>3, <1>5, <2>1 DEF PrefixButFor
<1>10. CountsExact(e)
  <2>1. InvalidOf(e, b) = {}
    BY <1>0, <1>5 DEF InvalidOf
  <2>2. \A c \in Blocks \ {b} : InvalidOf(e, c) = InvalidOf(s, c)
    BY <1>5 DEF InvalidOf
  <2>3. Cardinality(InvalidOf(e, b)) = 0
    BY <2>1, OffsetsFinite
  <2> QED BY <1>0, <1>1, <1>2, <2>2, <2>3 DEF CountsExact
<1>11. ListsWellFormed(e, NONE)
  <2> DEFINE in == ListOf(s, b)
  <2>1. ListOf(e, NONE) = in
    BY <1>0, <1>1, <1>2, NoneIsNoIndex DEF ListOf
  <2>2. in \in [Blocks -> Counts \cup {NONE}] /\ in[b] = NONE
    BY <1>0, <1>1 DEF ListOf
  <2>3. WellFormed(s.list, Blocks, Counts, in)
    BY <1>0 DEF ListsWellFormed
  <2> HIDE DEF in
  <2>4. WellFormed(e.list, Blocks, Counts, in)
    BY <1>0, <1>1, <1>2, <2>2, <2>3, NoneIsNoIndex, ClearLinksKeepsWellFormed
  <2>5. /\ e.list.prev = [s.list.prev EXCEPT ![b] = NONE]
        /\ e.list.next = [s.list.next EXCEPT ![b] = NONE]
    BY <1>1, <1>2 DEF ClearLinks, ListFamily
  <2>6. \A c \in Blocks : e.invalidPageCnt[c] = 0
           => e.list.prev[c] = NONE /\ e.list.next[c] = NONE
    <3>1. s.list.prev \in [Blocks -> Blocks \cup {NONE}]
          /\ s.list.next \in [Blocks -> Blocks \cup {NONE}]
      BY <1>1 DEF ListFamily
    <3> QED BY <1>0, <1>1, <1>2, <2>5, <3>1 DEF ListsWellFormed
  <2> QED BY <2>1, <2>4, <2>6 DEF ListsWellFormed
<1>12. \A m \in Lpns : PmRead(e, m) = PmRead(s, m)
  BY <1>2, <1>4 DEF PmRead
<1> QED BY <1>2, <1>3, <1>6, <1>7, <1>8, <1>9, <1>10, <1>11, <1>12 DEF DataInv, e

\* Roles and marks of blocks are no part of what DataInv and reads look at.
LEMMA RolesAreNoData ==
    ASSUME NEW s, NEW h, NEW u, DataInv(s, h),
           u.ppn = s.ppn, u.valid = s.valid, u.lpn = s.lpn,
           u.invalidPageCnt = s.invalidPageCnt, u.currentPage = s.currentPage,
           u.list = s.list, u.flash = s.flash
    PROVE  /\ DataInv(u, h)
           /\ \A c \in Blocks : Frontier(u, c) = Frontier(s, c)
           /\ \A m \in Lpns : PmRead(u, m) = PmRead(s, m)
<1>1. \A c \in Blocks : Frontier(u, c) = Frontier(s, c)
  BY DEF Frontier
<1>2. \A m \in Lpns : PmRead(u, m) = PmRead(s, m)
  BY DEF PmRead
<1>3. MapForward(u) /\ MapBackward(u, NONE, 0)
  BY DEF DataInv, MapForward, MapBackward
<1>4. PrefixButFor(u, h) /\ (h # NONE => GivenOut(u, h, Blocks))
  BY <1>1 DEF DataInv, PrefixButFor, GivenOut
<1>5. CountsExact(u) /\ ListsWellFormed(u, NONE)
  BY DEF DataInv, CountsExact, InvalidOf, ListsWellFormed, ListOf
<1> QED BY <1>1, <1>2, <1>3, <1>4, <1>5 DEF DataInv

\* Replacing a block that holds data, but not the hole, keeps the invariant
\* and what every read finds; the block is bad, and no other is erased.
LEMMA ReplacementKeepsWaitInv ==
    ASSUME NEW s, NEW h, WaitInv(s, h), NEW b \in Blocks, Frontier(s, b) > 0,
           h # NONE => BlockOf(h) # b, NEW r \in UpdateBadBlockTable(s, b)
    PROVE  /\ WaitInv(r, h)
           /\ \A c \in Blocks \ {b} : Frontier(s, c) <= Frontier(r, c)
           /\ \A m \in Lpns : PmRead(r, m) = PmRead(s, m)
           /\ ~(Full(s, s.currentBlock) /\ FreeBlocks(s) = {})
<1> DEFINE u == [s EXCEPT !.list = Unlink(@, b, s.invalidPageCnt[b])]
           closed == Full(s, s.currentBlock) \/ b = s.currentBlock
           moved == MoveOut(u, b, closed)
           m == moved.die
           cl == moved.closedFlag
           e == EraseBlock(m, b)
           Swapped(x) == [e EXCEPT !.currentBlock = e.freeBlock, !.freeBlock = x, !.free[x] = FALSE]
<1>0. s \in DieType /\ Pools(s) /\ closed \in BOOLEAN
  BY DEF WaitInv, Full
<1>1. \E t : /\ r = [t EXCEPT !.bad[b] = TRUE]
             /\ \/ ~cl /\ t = e
                \/ cl /\ \E x \in FreeBlocks(e) \ {b} : t = Swapped(x)
  <2>1. PICK t \in CompulsoryGC(s, b) : r = [t EXCEPT !.bad[b] = TRUE]
    BY DEF UpdateBadBlockTable
  <2>2. t \in IF ~cl THEN {e} ELSE {Swapped(x) : x \in {y \in Blocks : NextSpare(e, b, y)}}
    BY <2>1 DEF CompulsoryGC
  <2> HIDE DEF Swapped, cl, e
  <2>3. \A y : NextSpare(e, b, y) => y \in FreeBlocks(e) \ {b}
    BY DEF NextSpare
  <2> QED BY <2>1, <2>2, <2>3
<1> HIDE DEF u, closed
<1>2. MoveInv(u, h, b, 0, closed) /\ MovedOn(s, u)
  BY UnlinkStartsMove DEF u, closed
<1>3. /\ MoveInv(m, h, b, PAGE_NUM_PER_BLOCK, cl) /\ cl \in BOOLEAN
      /\ closed => cl
      /\ MovedOn(u, m)
  BY <1>0, <1>2, MoveOutKeepsMoveInv
<1> HIDE DEF moved
<1>4. /\ e \in DieType /\ DataInv(e, h)
      /\ e.free = [m.free EXCEPT ![b] = TRUE] /\ e.bad = m.bad
      /\ e.currentBlock = m.currentBlock /\ e.freeBlock = m.freeBlock
      /\ \A c \in Blocks : Frontier(e, c) = IF c = b THEN 0 ELSE Frontier(m, c)
      /\ \A l \in Lpns : PmRead(e, l) = PmRead(m, l)
  <2> HIDE DEF m, cl, Swapped
  <2>1. MoveInv(m, h, b, PAGE_NUM_PER_BLOCK, cl)
    BY <1>3
  <2> QED BY <2>1, EraseEndsMove
<1> HIDE DEF e, m, cl
<1>5. /\ e.free = [s.free EXCEPT ![b] = TRUE] /\ e.bad = s.bad
      /\ e.currentBlock = s.currentBlock /\ e.freeBlock = s.freeBlock
      /\ \A l \in Lpns : PmRead(e, l) = PmRead(s, l)
  BY <1>2, <1>3, <1>4 DEF MovedOn
<1>6. \A c \in Blocks : /\ Frontier(s, c) \in Nat /\ Frontier(m, c) \in Nat
                        /\ Frontier(s, c) <= Frontier(m, c)
  <2> TAKE c \in Blocks
  <2> DEFINE f == Frontier(s, c)
             g == Frontier(u, c)
             k == Frontier(m, c)
  <2>1. f \in Nat /\ g \in Nat /\ k \in Nat
    BY <1>0, <1>2, <1>3, CountFacts DEF MoveInv, Counts
  <2>2. f <= g /\ g <= k
    BY <1>2, <1>3 DEF MovedOn
  <2> HIDE DEF f, g, k
  <2>3. f <= k
    BY <2>1, <2>2
  <2> QED BY <2>1, <2>3 DEF f, k
<1>7. /\ s.free \in [Blocks -> BOOLEAN] /\ s.bad \in [Blocks -> BOOLEAN]
      /\ s.currentBlock \in Blocks /\ s.freeBlock \in Blocks
  BY <1>0 DEF DieType
<1>8. ~s.free[b] /\ ~s.bad[b] /\ b # metadataBlockNo /\ b # s.freeBlock
  BY <1>0, <1>7 DEF Pools, WaitInv
<1>9. /\ ~cl => b # s.currentBlock /\ Frontier(m, s.freeBlock) = 0
      /\ Pools(m) /\ m.free = s.free /\ m.bad = s.bad
      /\ m.currentBlock = s.currentBlock /\ m.freeBlock = s.freeBlock
  BY <1>2, <1>3 DEF MoveInv, MovedOn
<1>10. CASE ~cl /\ r = [e EXCEPT !.bad[b] = TRUE]
  <2>1. /\ r.bad = [s.bad EXCEPT ![b] = TRUE] /\ r.free = [s.free EXCEPT ![b] = TRUE]
        /\ r.currentBlock = s.currentBlock /\ r.freeBlock = s.freeBlock
        /\ r.ppn = e.ppn /\ r.valid = e.valid /\ r.lpn = e.lpn
        /\ r.invalidPageCnt = e.invalidPageCnt /\ r.currentPage = e.currentPage
        /\ r.list = e.list /\ r.flash = e.flash
    BY <1>4, <1>5, <1>10 DEF DieType
  <2>2. r \in DieType
    BY <1>4, <1>10 DEF DieType
  <2>3. /\ DataInv(r, h)
        /\ \A c \in Blocks : Frontier(r, c) = IF c = b THEN 0 ELSE Frontier(m, c)
        /\ \A l \in Lpns : PmRead(r, l) = PmRead(s, l)
    BY <1>4, <1>5, <2>1, RolesAreNoData
  <2>4. Pools(r)
    <3>1. \A c \in Blocks : r.free[c] \/ r.bad[c] \/ c = metadataBlockNo => Frontier(r, c) = 0
      BY <1>7, <1>9, <2>1, <2>3 DEF Pools
    <3>2. r.currentBlock # r.freeBlock
      BY <1>9, <2>1 DEF Pools
    <3>3. \A c \in {s.currentBlock, s.freeBlock} : c \in Usable(r.bad) /\ ~r.free[c]
      BY <1>0, <1>7, <1>8, <1>9, <1>10, <2>1 DEF Pools, Usable
    <3>4. metadataBlockNo \in Blocks => ~r.free[metadataBlockNo]
      BY <1>7, <1>8, <1>9, <2>1 DEF Pools
    <3> QED BY <2>1, <3>1, <3>2, <3>3, <3>4 DEF Pools
  <2>5. Frontier(r, r.freeBlock) = 0
    BY <1>7, <1>8, <1>9, <1>10, <2>1, <2>3
  <2>6. ~Full(s, s.currentBlock)
    BY <1>3, <1>10 DEF closed
  <2> QED BY <1>6, <2>2, <2>3, <2>4, <2>5, <2>6 DEF WaitInv, DataInv
<1>11. ASSUME cl, NEW x \in FreeBlocks(e) \ {b}, r = [Swapped(x) EXCEPT !.bad[b] = TRUE]
       PROVE  /\ WaitInv(r, h)
              /\ \A c \in Blocks \ {b} : Frontier(s, c) <= Frontier(r, c)
              /\ \A l \in Lpns : PmRead(r, l) = PmRead(s, l)
              /\ ~(Full(s, s.currentBlock) /\ FreeBlocks(s) = {})
  <2>1. x \in Blocks /\ x # b /\ s.free[x] /\ ~s.bad[x]
    BY <1>5, <1>7 DEF FreeBlocks
  <2>2. /\ r.bad = [s.bad EXCEPT ![b] = TRUE]
        /\ r.free = [[s.free EXCEPT ![b] = TRUE] EXCEPT ![x] = FALSE]
        /\ r.currentBlock = s.freeBlock /\ r.freeBlock = x
        /\ r.ppn = e.ppn /\ r.valid = e.valid /\ r.lpn = e.lpn
        /\ r.invalidPageCnt = e.invalidPageCnt /\ r.currentPage = e.currentPage
        /\ r.list = e.list /\ r.flash = e.flash
    BY <1>4, <1>5, <1>11 DEF DieType
  <2>3. r \in DieType
    BY <1>4, <1>5, <1>7, <1>11, <2>1 DEF DieType
  <2>4. /\ DataInv(r, h)
        /\ \A c \in Blocks : Frontier(r, c) = IF c = b THEN 0 ELSE Frontier(m, c)
        /\ \A l \in Lpns : PmRead(r, l) = PmRead(s, l)
    BY <1>4, <1>5, <2>2, RolesAreNoData
  <2>5. Frontier(m, x) = 0 /\ x # s.freeBlock /\ x # metadataBlockNo
    BY <1>9, <2>1 DEF Pools
  <2>6. Pools(r)
    <3>1. \A c \in Blocks : r.free[c] \/ r.bad[c] \/ c = metadataBlockNo => Frontier(r, c) = 0
      BY <1>7, <1>9, <2>1, <2>2, <2>4 DEF Pools
    <3>2. r.currentBlock # r.freeBlock
      BY <2>2, <2>5
    <3>3. \A c \in {s.freeBlock, x} : c \in Usable(r.bad) /\ ~r.free[c]
      BY <1>7, <1>8, <1>9, <2>1, <2>2, <2>5 DEF Pools, Usable
    <3>4. metadataBlockNo \in Blocks => ~r.free[metadataBlockNo]
      BY <1>7, <1>8, <1>9, <2>1, <2>2, <2>5 DEF Pools
    <3> QED BY <2>2, <3>1, <3>2, <3>3, <3>4 DEF Pools
  <2>7. Frontier(r, r.freeBlock) = 0
    BY <2>1, <2>2, <2>4, <2>5
  <2>8. FreeBlocks(s) # {}
    BY <2>1 DEF FreeBlocks
  <2> QED BY <1>6, <2>3, <2>4, <2>6, <2>7, <2>8 DEF WaitInv, DataInv
<1> QED
  <2> HIDE DEF Swapped
  <2> QED BY <1>1, <1>10, <1>11

\* e is what a sweep notes when one, two or none of the blocks in B are worn
NotedFrom(e, B) ==
    \/ e = <<>>
    \/ \E b \in B : e = <<b>>
    \/ \E b \in B, c \in B : e = <<b, c>>

\* The blocks noted for one die, replaced in turn: the invariant and the reads
\* stay.  A die whose current block is full and that has no free block cannot
\* replace any: the assertion fails.
LEMMA ReplaceKeepsWaitInv ==
    ASSUME NEW s, NEW h, WaitInv(s, h), NEW B \in SUBSET Blocks,
           \A b \in B : Frontier(s, b) > 0,
           NEW e, NotedFrom(e, B),
           Len(e) = 2 => e[1] # e[2],
           h # NONE => BlockOf(h) \notin Range(e)
    PROVE  /\ \A r \in Replace(s, e) :
                 WaitInv(r, h) /\ \A m \in Lpns : PmRead(r, m) = PmRead(s, m)
           /\ Full(s, s.currentBlock) /\ FreeBlocks(s) = {} /\ e # <<>> => Replace(s, e) = {}
<1> DEFINE Fine(r) == WaitInv(r, h) /\ \A m \in Lpns : PmRead(r, m) = PmRead(s, m)
           stuck == Full(s, s.currentBlock) /\ FreeBlocks(s) = {}
<1>1. CASE e = <<>>
  BY <1>1, ReplaceUnfolds
<1>2. ASSUME NEW b \in B, e = <<b>> PROVE (\A r \in Replace(s, e) : Fine(r)) /\ (stuck => Replace(s, e) = {})
  <2>1. h # NONE => BlockOf(h) # b
    <3>1. 1 \in DOMAIN e /\ e[1] = b
      BY <1>2
    <3> QED BY <3>1 DEF Range
  <2>2. Replace(s, e) = UpdateBadBlockTable(s, b)
    <3>1. Replace(s, <<b>>) = UpdateBadBlockTable(s, b)
      BY ReplaceUnfolds
    <3> QED BY <1>2, <3>1
  <2>3. ASSUME NEW r \in UpdateBadBlockTable(s, b) PROVE Fine(r) /\ ~stuck
    BY <2>1, ReplacementKeepsWaitInv
  <2> QED BY <2>2, <2>3
<1>3. ASSUME NEW b \in B, NEW c \in B, e = <<b, c>>
      PROVE  (\A r \in Replace(s, e) : Fine(r)) /\ (stuck => Replace(s, e) = {})
  <2>1. (h # NONE => BlockOf(h) # b /\ BlockOf(h) # c) /\ b # c
    <3>1. /\ 1 \in DOMAIN e /\ e[1] = b /\ 2 \in DOMAIN e /\ e[2] = c /\ Len(e) = 2
      BY <1>3
    <3> QED BY <3>1 DEF Range
  <2>2. Replace(s, e) = ReplaceBoth(s, b, c)
    <3>1. Replace(s, <<b, c>>) = ReplaceBoth(s, b, c)
      BY ReplaceUnfolds
    <3> QED BY <1>3, <3>1
  <2>3. ASSUME NEW t \in UpdateBadBlockTable(s, b), NEW r \in UpdateBadBlockTable(t, c)
        PROVE  Fine(r) /\ ~stuck
    <3>1. /\ WaitInv(t, h) /\ Frontier(s, c) <= Frontier(t, c)
          /\ \A m \in Lpns : PmRead(t, m) = PmRead(s, m)
          /\ ~stuck
      BY <2>1, ReplacementKeepsWaitInv
    <3>2. Frontier(t, c) > 0
      <4>1. Frontier(s, c) \in Nat /\ Frontier(t, c) \in Nat /\ Frontier(s, c) > 0
        BY <3>1, CountFacts DEF WaitInv, Counts
      <4> QED BY <3>1, <4>1
    <3>3. WaitInv(r, h) /\ \A m \in Lpns : PmRead(r, m) = PmRead(t, m)
      BY <2>1, <3>1, <3>2, ReplacementKeepsWaitInv
    <3> QED BY <3>1, <3>3
  <2>4. ASSUME NEW r \in Replace(s, e) PROVE Fine(r) /\ ~stuck
    <3> HIDE DEF Fine, stuck
    <3> QED BY <2>2, <2>3 DEF ReplaceBoth
  <2> QED BY <2>4
<1> HIDE DEF Fine, stuck
<1> QED
  <2>1. (\A r \in Replace(s, e) : Fine(r)) /\ (stuck /\ e # <<>> => Replace(s, e) = {})
    <3>1. CASE e = <<>>
      BY <3>1, <1>1 DEF Fine
    <3>2. CASE e # <<>>
      BY <3>2, <1>2, <1>3 DEF NotedFrom
    <3> QED BY <3>1, <3>2
  <2> QED BY <2>1 DEF Fine, stuck

(***************************************************************************)
(* Writes that wait.                                                       *)
(***************************************************************************)

\* Between commands and without a hole, the two invariants are the same.
LEMMA WaitInvIsDieInv ==
    ASSUME NEW s, NEW c, NEW f
    PROVE  DieInv(s, NONE, c, f) <=> WaitInv(s, NONE)
<1>1. \A b \in Blocks, i \in Offsets : Row(b, i) # NONE /\ b # NONE
  BY RowFacts, NoneIsNoIndex
<1>2. PrefixButFor(s, NONE) <=> WrittenPrefix(s)
  BY <1>1 DEF PrefixButFor, WrittenPrefix
<1>3. MapBackward(s, NONE, c) <=> MapBackward(s, NONE, 0)
  BY <1>1 DEF MapBackward
<1>4. VictimInHand(s, NONE, c, f) <=> Frontier(s, s.freeBlock) = 0
  BY DEF VictimInHand
<1> QED BY <1>2, <1>3, <1>4 DEF DieInv, WaitInv

\* A block from the free pool gives room to a die without a hole.
LEMMA OpenKeepsWaitInv ==
    ASSUME NEW s, WaitInv(s, NONE), NEW b \in FreeBlocks(s)
    PROVE  LET t == OpenBlock(s, b)
           IN  /\ WaitInv(t, NONE) /\ ~Full(t, t.currentBlock)
               /\ \A c \in Blocks : Frontier(t, c) = Frontier(s, c)
<1> DEFINE t == OpenBlock(s, b)
<1>1. DieInv(s, NONE, 0, FALSE) /\ s \in DieType
  BY WaitInvIsDieInv DEF WaitInv
<1>2. t.currentPage = s.currentPage
  BY <1>1 DEF OpenBlock, DieType
<1> HIDE DEF t
<1>3. DieInv(t, NONE, 0, FALSE) /\ ~Full(t, t.currentBlock)
  BY <1>1, OpenKeepsDieInv DEF t
<1>4. WaitInv(t, NONE)
  BY <1>3, WaitInvIsDieInv
<1> QED BY <1>2, <1>3, <1>4 DEF Frontier, t

\* A row is given out: the page counter moves, the row is the hole.
LEMMA GivingOutMakesHole ==
    ASSUME NEW s, WaitInv(s, NONE), ~Full(s, s.currentBlock)
    PROVE  LET u == [s EXCEPT !.currentPage[s.currentBlock] = Bump(@)]
           IN  /\ WaitInv(u, FreePage(s, s.currentBlock))
               /\ FreePage(s, s.currentBlock) # NONE
               /\ \A c \in Blocks : Frontier(s, c) <= Frontier(u, c)
               /\ \A m \in Lpns : PmRead(u, m) = PmRead(s, m)
<1> DEFINE b == s.currentBlock
           p == FreePage(s, b)
           u == [s EXCEPT !.currentPage[b] = Bump(@)]
<1>0. /\ s \in DieType /\ MapForward(s) /\ MapBackward(s, NONE, 0) /\ PrefixButFor(s, NONE)
      /\ Pools(s) /\ CountsExact(s) /\ ListsWellFormed(s, NONE)
      /\ Frontier(s, s.freeBlock) = 0
      /\ b \in Blocks /\ s.freeBlock \in Blocks
      /\ s.currentPage \in [Blocks -> PageCounters]
  BY DEF WaitInv, DieType
<1>1. /\ Frontier(s, b) \in Offsets /\ p = Row(b, Frontier(s, b)) /\ p \in Rows
      /\ s.valid[p] /\ s.lpn[p] = NONE
  BY <1>0, FreePageButFor
<1>2. u \in DieType /\ \A c \in Blocks : Frontier(u, c) = IF c = b THEN Frontier(s, b) + 1
                                                                  ELSE Frontier(s, c)
  <2> DEFINE k == Bump(s.currentPage[b])
             pages == [s.currentPage EXCEPT ![b] = k]
  <2>1. k = Frontier(s, b) /\ k \in Offsets
    BY <1>1 DEF Frontier
  <2>2. u = [s EXCEPT !.currentPage = pages]
    BY <1>0 DEF DieType
  <2>3. k \in PageCounters
    BY <2>1 DEF PageCounters
  <2> HIDE DEF k
  <2>4. pages \in [Blocks -> PageCounters]
    BY <1>0, <2>3
  <2> HIDE DEF pages, u
  <2>5. u \in DieType
    BY <1>0, <2>2, <2>4, DieUpdate
  <2>6. u.currentPage = pages
    BY <1>0, <2>2 DEF DieType
  <2>7. Bump(k) = k + 1
    BY <2>1, <2>3, GeometryAssumption, BumpFacts, SMTT(30) DEF Offsets
  <2> QED BY <1>0, <2>1, <2>5, <2>6, <2>7 DEF Frontier, pages
<1>3. /\ u.ppn = s.ppn /\ u.valid = s.valid /\ u.lpn = s.lpn /\ u.flash = s.flash
      /\ u.bad = s.bad /\ u.free = s.free /\ u.invalidPageCnt = s.invalidPageCnt
      /\ u.list = s.list /\ u.currentBlock = b /\ u.freeBlock = s.freeBlock
  BY <1>0 DEF DieType
<1> HIDE DEF u
<1>4. MapForward(u) /\ MapBackward(u, NONE, 0)
  BY <1>0, <1>3 DEF MapForward, MapBackward
<1>5. CountsExact(u) /\ ListsWellFormed(u, NONE)
  BY <1>0, <1>3 DEF CountsExact, InvalidOf, ListsWellFormed, ListOf
<1>6. Pools(u) /\ Frontier(u, u.freeBlock) = 0
  <2>1. b \in Usable(s.bad) /\ ~s.free[b] /\ b # s.freeBlock
    BY <1>0 DEF Pools
  <2> QED BY <1>0, <1>2, <1>3, <2>1 DEF Pools, Usable
<1>7. GivenOut(u, p, Blocks) /\ p # NONE
  <2> DEFINE f == Frontier(s, b)
  <2>1. f \in Offsets /\ f < f + 1
    BY <1>1 DEF Offsets
  <2> HIDE DEF f
  <2>2. f < Frontier(u, b) /\ p = Row(b, f)
    BY <1>0, <1>1, <1>2, <2>1 DEF f
  <2> QED BY <1>0, <1>1, <2>1, <2>2, NoneIsNoIndex DEF GivenOut
<1>8. PrefixButFor(u, p)
  <2> SUFFICES ASSUME NEW c \in Blocks, NEW i \in Offsets
               PROVE  /\ u.lpn[Row(c, i)] # NONE <=> i < Frontier(u, c) /\ Row(c, i) # p
                      /\ u.flash[Row(c, i)] # Erased <=> i < Frontier(u, c) /\ Row(c, i) # p
                      /\ ~u.valid[Row(c, i)] => i < Frontier(u, c) /\ Row(c, i) # p
    BY DEF PrefixButFor
  <2>1. /\ s.lpn[Row(c, i)] # NONE <=> i < Frontier(s, c)
        /\ s.flash[Row(c, i)] # Erased <=> i < Frontier(s, c)
        /\ ~s.valid[Row(c, i)] => i < Frontier(s, c)
    BY <1>0, RowFacts, NoneIsNoIndex DEF PrefixButFor
  <2>2. CASE Row(c, i) = p
    <3>1. c = b /\ i = Frontier(s, b)
      BY <1>0, <1>1, <2>2, RowInjective
    <3>2. ~(i < Frontier(s, c))
      BY <1>1, <3>1 DEF Offsets
    <3> QED BY <1>1, <1>3, <2>1, <2>2, <3>2
  <2>3. CASE Row(c, i) # p
    <3>1. i < Frontier(u, c) <=> i < Frontier(s, c)
      <4>1. CASE c = b
        <5>1. i # Frontier(s, b)
          BY <1>1, <2>3, <4>1
        <5> QED BY <1>1, <1>2, <4>1, <5>1 DEF Offsets
      <4>2. CASE c # b
        BY <1>2, <4>2
      <4> QED BY <4>1, <4>2
    <3> QED BY <1>3, <2>1, <2>3, <3>1
  <2> QED BY <2>2, <2>3
<1>9. \A m \in Lpns : PmRead(u, m) = PmRead(s, m)
  BY <1>3 DEF PmRead
<1>10. \A c \in Blocks : Frontier(s, c) <= Frontier(u, c)
  <2> TAKE c \in Blocks
  <2> DEFINE f == Frontier(s, c)
  <2>1. f \in Nat
    BY <1>0, CountFacts DEF Counts
  <2>2. Frontier(u, c) = f \/ Frontier(u, c) = f + 1
    BY <1>2
  <2> HIDE DEF f
  <2>3. f <= Frontier(u, c)
    BY <2>1, <2>2
  <2> QED BY <2>3 DEF f
<1> QED BY <1>2, <1>4, <1>5, <1>6, <1>7, <1>8, <1>9, <1>10 DEF WaitInv, u

\* the die after QueueWrite: logical page l is written to the waiting row p
FillHole(s, p, l, v) ==
    [UpdateMetaForInvalidate(s, l) EXCEPT !.flash[p] = v, !.ppn[l] = p, !.lpn[p] = l]

\* The write that waited is queued: it fills the hole, and a read of the
\* logical page finds its data.
LEMMA QueueFillsHole ==
    ASSUME NEW s, NEW p, WaitInv(s, p), p # NONE, NEW l \in Lpns, NEW v \in Data
    PROVE  LET u == FillHole(s, p, l, v)
           IN  /\ WaitInv(u, NONE)
               /\ \A b \in Blocks : Frontier(u, b) = Frontier(s, b)
               /\ \A m \in Lpns : PmRead(u, m) = IF m = l THEN v ELSE PmRead(s, m)
<1> DEFINE t == UpdateMetaForInvalidate(s, l)
           u == [t EXCEPT !.flash[p] = v, !.ppn[l] = p, !.lpn[p] = l]
<1>0. /\ s \in DieType /\ MapForward(s) /\ MapBackward(s, NONE, 0) /\ PrefixButFor(s, p)
      /\ Pools(s) /\ CountsExact(s) /\ ListsWellFormed(s, NONE)
      /\ Frontier(s, s.freeBlock) = 0
  BY DEF WaitInv
<1>1. /\ s.ppn \in [Lpns -> Rows \cup {NONE}] /\ s.lpn \in [Rows -> Lpns \cup {NONE}]
      /\ s.valid \in [Rows -> BOOLEAN] /\ s.flash \in [Rows -> Data \cup {Erased}]
  BY <1>0 DEF DieType
<1>2. PICK c \in Blocks, i \in Offsets : p = Row(c, i) /\ i < Frontier(s, c)
  BY DEF WaitInv, GivenOut
<1>3. p \in Rows /\ s.valid[p] /\ s.lpn[p] = NONE
  BY <1>0, <1>1, <1>2, RowFacts DEF PrefixButFor
<1>4. /\ t \in DieType /\ CountsExact(t) /\ ListsWellFormed(t, NONE)
      /\ t.ppn = s.ppn /\ t.lpn = s.lpn /\ t.flash = s.flash
      /\ t.currentPage = s.currentPage /\ t.free = s.free /\ t.bad = s.bad
      /\ t.currentBlock = s.currentBlock /\ t.freeBlock = s.freeBlock
      /\ \A q \in Rows : t.valid[q] <=> s.valid[q] /\ q # s.ppn[l]
  BY <1>0, InvalidateOldCopy
<1> HIDE DEF t
<1>5. /\ u.ppn = [s.ppn EXCEPT ![l] = p] /\ u.lpn = [s.lpn EXCEPT ![p] = l]
      /\ u.flash = [s.flash EXCEPT ![p] = v] /\ u.valid = t.valid
      /\ u.bad = s.bad /\ u.free = s.free /\ u.invalidPageCnt = t.invalidPageCnt
      /\ u.currentPage = s.currentPage /\ u.list = t.list
      /\ u.currentBlock = s.currentBlock /\ u.freeBlock = s.freeBlock
  BY <1>4 DEF DieType
<1>6. u \in DieType
  <2> DEFINE x == [t.ppn EXCEPT ![l] = p]
             y == [t.lpn EXCEPT ![p] = l]
             z == [t.flash EXCEPT ![p] = v]
             t1 == [t EXCEPT !.flash = z]
             t2 == [t1 EXCEPT !.ppn = x]
  <2>1. /\ x \in [Lpns -> Rows \cup {NONE}] /\ y \in [Rows -> Lpns \cup {NONE}]
        /\ z \in [Rows -> Data \cup {Erased}]
    BY <1>1, <1>3, <1>4
  <2>2. u = [t2 EXCEPT !.lpn = y]
    BY <1>4 DEF DieType
  <2> HIDE DEF x, y, z, u
  <2>3. t1 \in DieType
    BY <1>4, <2>1, DieUpdate
  <2> HIDE DEF t1
  <2>4. t2 \in DieType
    BY <2>1, <2>3, DieUpdate
  <2> HIDE DEF t2
  <2> QED BY <2>1, <2>2, <2>4, DieUpdate
<1> HIDE DEF u
<1>7. \A m \in Lpns : s.ppn[m] # p
  BY <1>0, <1>3, NoneIsNoIndex DEF MapForward
<1>8. MapForward(u)
  BY <1>0, <1>1, <1>3, <1>4, <1>5, <1>7, NoneIsNoIndex DEF MapForward
<1>9. MapBackward(u, NONE, 0)
  <2> SUFFICES ASSUME NEW b \in Blocks, NEW j \in Offsets,
                      u.valid[Row(b, j)], u.lpn[Row(b, j)] # NONE
               PROVE  u.ppn[u.lpn[Row(b, j)]] = Row(b, j)
    BY NoneIsNoIndex DEF MapBackward
  <2>1. Row(b, j) \in Rows
    BY RowFacts
  <2>2. CASE Row(b, j) = p
    BY <1>1, <1>5, <2>1, <2>2
  <2>3. CASE Row(b, j) # p
    <3>1. u.lpn[Row(b, j)] = s.lpn[Row(b, j)] /\ s.lpn[Row(b, j)] \in Lpns
      BY <1>1, <1>5, <2>1, <2>3
    <3>2. s.valid[Row(b, j)] /\ Row(b, j) # s.ppn[l]
      BY <1>4, <1>5, <2>1
    <3>3. s.ppn[s.lpn[Row(b, j)]] = Row(b, j)
      BY <1>0, <3>1, <3>2, NoneIsNoIndex DEF MapBackward
    <3>4. s.lpn[Row(b, j)] # l
      BY <3>2, <3>3
    <3> QED BY <1>1, <1>5, <3>1, <3>3, <3>4
  <2> QED BY <2>2, <2>3
<1>10. \A b \in Blocks : Frontier(u, b) = Frontier(s, b)
  BY <1>5 DEF Frontier
<1>11. PrefixButFor(u, NONE)
  <2> SUFFICES ASSUME NEW b \in Blocks, NEW j \in Offsets
               PROVE  /\ u.lpn[Row(b, j)] # NONE <=> j < Frontier(u, b)
                      /\ u.flash[Row(b, j)] # Erased <=> j < Frontier(u, b)
                      /\ ~u.valid[Row(b, j)] => j < Frontier(u, b)
    BY RowFacts, NoneIsNoIndex DEF PrefixButFor
  <2>1. /\ s.lpn[Row(b, j)] # NONE <=> j < Frontier(s, b) /\ Row(b, j) # p
        /\ s.flash[Row(b, j)] # Erased <=> j < Frontier(s, b) /\ Row(b, j) # p
        /\ ~s.valid[Row(b, j)] => j < Frontier(s, b) /\ Row(b, j) # p
    BY <1>0 DEF PrefixButFor
  <2>2. Row(b, j) \in Rows
    BY RowFacts
  <2>3. CASE Row(b, j) = p
    <3>1. b = c /\ j = i
      BY <1>2, <2>3, RowInjective
    <3>2. u.lpn[Row(b, j)] = l /\ u.flash[Row(b, j)] = v /\ l # NONE /\ v # Erased
      BY <1>1, <1>5, <2>2, <2>3, NoneIsNoIndex, SentinelAssumption
    <3> QED BY <1>2, <1>10, <3>1, <3>2
  <2>4. CASE Row(b, j) # p
    <3>1. u.lpn[Row(b, j)] = s.lpn[Row(b, j)] /\ u.flash[Row(b, j)] = s.flash[Row(b, j)]
      BY <1>1, <1>5, <2>2, <2>4
    <3>2. ~u.valid[Row(b, j)] => ~s.valid[Row(b, j)] \/ Row(b, j) = s.ppn[l]
      BY <1>4, <1>5, <2>2
    <3>3. Row(b, j) = s.ppn[l] => s.lpn[Row(b, j)] # NONE
      BY <1>0, <2>2, NoneIsNoIndex DEF MapForward
    <3> QED BY <1>10, <2>1, <2>4, <3>1, <3>2, <3>3
  <2> QED BY <2>3, <2>4
<1>12. Pools(u) /\ Frontier(u, u.freeBlock) = 0
  <2>1. s.freeBlock \in Blocks
    BY <1>0 DEF DieType
  <2> QED BY <1>0, <1>5, <1>10, <2>1 DEF Pools, Usable
<1>13. CountsExact(u) /\ ListsWellFormed(u, NONE)
  BY <1>4, <1>5 DEF CountsExact, InvalidOf, ListsWellFormed, ListOf
<1>14. \A m \in Lpns : PmRead(u, m) = IF m = l THEN v ELSE PmRead(s, m)
  BY <1>1, <1>3, <1>5, <1>7, NoneIsNoIndex DEF PmRead
<1>15. WaitInv(u, NONE)
  BY <1>6, <1>8, <1>9, <1>11, <1>12, <1>13 DEF WaitInv
<1> QED BY <1>10, <1>14, <1>15 DEF u, t, FillHole

(***************************************************************************)
(* What the invariant of a die says of bad blocks.                         *)
(***************************************************************************)

\* A page that holds data of the map is a written page of its block.
LEMMA MappedIsWritten ==
    ASSUME NEW s \in DieType, NEW h, MapForward(s), PrefixButFor(s, h),
           NEW l \in Lpns, s.ppn[l] # NONE
    PROVE  BlockOf(s.ppn[l]) \in Blocks /\ Frontier(s, BlockOf(s.ppn[l])) > 0
<1>1. s.ppn[l] \in Rows
  BY DEF DieType
<1>2. PICK i \in Offsets : s.ppn[l] = Row(BlockOf(s.ppn[l]), i)
  BY <1>1, RowFacts
<1>3. BlockOf(s.ppn[l]) \in Blocks /\ s.lpn[s.ppn[l]] # NONE
  BY <1>1, RowFacts, NoneIsNoIndex DEF MapForward
<1>4. i < Frontier(s, BlockOf(s.ppn[l]))
  BY <1>2, <1>3 DEF PrefixButFor
<1>5. Frontier(s, BlockOf(s.ppn[l])) \in Nat /\ i \in Nat
  BY <1>3, CountFacts DEF Counts, Offsets
<1> QED BY <1>3, <1>4, <1>5

\* No block in use is bad: none with a mapped page, not the current block,
\* not the spare block, not a victim.
LEMMA UsedIsGood ==
    ASSUME NEW s, NEW v, NEW c, NEW f, NEW h,
           DieInv(s, v, c, f) \/ (WaitInv(s, h) /\ v = NONE)
    PROVE  /\ \A l \in Lpns : s.ppn[l] # NONE => ~s.bad[BlockOf(s.ppn[l])]
           /\ \A b \in {s.currentBlock, s.freeBlock, v} \ {NONE} : ~s.bad[b]
<1>1. s \in DieType /\ MapForward(s) /\ Pools(s)
  BY DEF DieInv, WaitInv
<1>2. \E g : PrefixButFor(s, g)
  <2>1. WrittenPrefix(s) => PrefixButFor(s, NONE)
    BY RowFacts, NoneIsNoIndex DEF WrittenPrefix, PrefixButFor
  <2> QED BY <2>1 DEF DieInv, WaitInv
<1>3. ASSUME NEW b \in Blocks, Frontier(s, b) > 0 PROVE ~s.bad[b]
  BY <1>1, <1>3 DEF Pools
<1>4. ASSUME NEW l \in Lpns, s.ppn[l] # NONE PROVE ~s.bad[BlockOf(s.ppn[l])]
  BY <1>1, <1>2, <1>3, <1>4, MappedIsWritten
<1>5. \A b \in {s.currentBlock, s.freeBlock} : ~s.bad[b]
  BY <1>1 DEF Pools, Usable
<1>6. ASSUME v # NONE PROVE ~s.bad[v]
  <2>1. v \in Blocks /\ s.invalidPageCnt[v] > 0 /\ CountsExact(s) /\ WrittenPrefix(s)
    BY <1>6 DEF DieInv, VictimInHand
  <2>2. InvalidOf(s, v) # {}
    <3>1. InvalidOf(s, v) \subseteq Offsets
      BY DEF InvalidOf
    <3>2. s.invalidPageCnt[v] # 0
      BY <2>1
    <3> QED BY <2>1, <3>1, <3>2, OffsetsFinite DEF CountsExact
  <2>3. PICK i \in Offsets : ~s.valid[Row(v, i)]
    BY <2>2 DEF InvalidOf
  <2>4. i < Frontier(s, v)
    BY <2>1, <2>3 DEF WrittenPrefix
  <2>5. Frontier(s, v) \in Nat /\ i \in Nat
    BY <1>1, <2>1, CountFacts DEF Counts, Offsets
  <2> QED BY <1>3, <2>1, <2>4, <2>5
<1> QED BY <1>4, <1>5, <1>6

\* PmWrite into a current block with room erases nothing.
LEMMA WriteRaisesFrontier ==
    ASSUME NEW s, NEW c, NEW f, DieInv(s, NONE, c, f), ~Full(s, s.currentBlock),
           NEW l \in Lpns, NEW v \in Data
    PROVE  \A b \in Blocks : Frontier(s, b) <= Frontier(WritePage(s, l, v), b)
<1> DEFINE t == UpdateMetaForInvalidate(s, l)
           b0 == s.currentBlock
           p == FreePage(s, b0)
           u == Program(t, b0, p, l, v)
<1>0. s \in DieType /\ MapForward(s) /\ WrittenPrefix(s) /\ CountsExact(s)
      /\ ListsWellFormed(s, NONE) /\ b0 \in Blocks
  BY DEF DieInv, DieType
<1>1. t \in DieType /\ t.currentPage = s.currentPage
  BY <1>0, InvalidateOldCopy
<1>2. WritePage(s, l, v) = u
  BY DEF WritePage
<1> HIDE DEF t
<1>3. FreePage(t, b0) = p /\ (\A b \in Blocks : Frontier(t, b) = Frontier(s, b))
  BY <1>1 DEF FreePage, Frontier
<1>4. Frontier(t, b0) \in Offsets /\ FreePage(t, b0) \in Rows
  BY <1>0, <1>3, FreePageBlank
<1>5. \A b \in Blocks : Frontier(u, b) = IF b = b0 THEN Frontier(t, b0) + 1 ELSE Frontier(t, b)
  BY <1>0, <1>1, <1>3, <1>4, ProgramKeepsType
<1> SUFFICES ASSUME NEW b \in Blocks PROVE Frontier(s, b) <= Frontier(u, b)
  BY <1>2
<1> DEFINE g == Frontier(s, b)
<1>6. g \in Nat
  BY <1>0, CountFacts DEF Counts
<1>7. Frontier(u, b) = g \/ Frontier(u, b) = g + 1
  BY <1>3, <1>5
<1> HIDE DEF g, u
<1>8. g <= Frontier(u, b)
  BY <1>6, <1>7
<1> QED BY <1>8 DEF g

(***************************************************************************)
(* The steps.                                                              *)
(***************************************************************************)

\* On a die without a victim, BadDieInv is WaitInv.
LEMMA BetweenCollections ==
    ASSUME NEW s, NEW h, NEW c, NEW f
    PROVE  (IF h = NONE THEN DieInv(s, NONE, c, f) ELSE WaitInv(s, h)) <=> WaitInv(s, h)
BY WaitInvIsDieInv

\* The same before a step.
LEMMA WaitsBefore ==
    ASSUME NEW e \in Dies, BadDieInv(e), Victim(e) = NONE
    PROVE  WaitInv(die[e], Hole(e))
<1> DEFINE s == die[e]
           h == Hole(e)
           c == gc.pageCount
           f == gc.closedFlag
<1>1. IF h = NONE THEN DieInv(s, NONE, c, f) ELSE WaitInv(s, h)
  BY DEF BadDieInv
<1> HIDE DEF s, h, c, f
<1>2. WaitInv(s, h)
  BY <1>1, BetweenCollections
<1> QED BY <1>2 DEF s, h

\* The same behind a step.
LEMMA WaitsAfter ==
    ASSUME NEW e \in Dies, Victim(e)' = NONE, WaitInv(die'[e], Hole(e)')
    PROVE  BadDieInv(e)'
<1> DEFINE s == die'[e]
           h == Hole(e)'
           c == gc'.pageCount
           f == gc'.closedFlag
<1>1. BadDieInv(e)' <=> IF h = NONE THEN DieInv(s, NONE, c, f) ELSE WaitInv(s, h)
  BY DEF BadDieInv
<1>2. WaitInv(s, h)
  OBVIOUS
<1> HIDE DEF s, h, c, f
<1> QED BY <1>1, <1>2, BetweenCollections

\* A die that a step leaves alone keeps its invariant.
LEMMA UntouchedDie ==
    ASSUME NEW e \in Dies, BadDieInv(e), Victim(e) = NONE, Victim(e)' = NONE,
           die'[e] = die[e], Hole(e)' = Hole(e)
    PROVE  BadDieInv(e)'
BY WaitsBefore, WaitsAfter

\* Outside a push no die has a hole, and outside a collection none a victim.
LEMMA QuietDies ==
    ASSUME BadIInv
    PROVE  /\ pc \notin {"push", "halted"} => row = NONE /\ \A e \in Dies : Hole(e) = NONE
           /\ gc.victimBlock = NONE => \A e \in Dies : Victim(e) = NONE
           /\ pc # "gc" => gc.victimBlock = NONE
           /\ \A e \in Dies \ {gc.dieNo} : Victim(e) = NONE
BY DEF BadIInv, BadControlOK, Hole, Victim

\* Queueing a read of a mapped page keeps the invariant: its block holds data.
LEMMA HostReadStep ==
    ASSUME BadIInv, NEW d \in Dies, NEW l \in Lpns, HostRead(d, l)
    PROVE  BadIInv'
<1>0. /\ pc = "idle" /\ die[d].ppn[l] # NONE
      /\ reads' = [reads EXCEPT ![d] = @ \cup {BlockOf(die[d].ppn[l])}]
      /\ die' = die /\ pc' = pc /\ req' = req /\ gc' = gc
      /\ row' = row /\ overtaken' = overtaken
  BY DEF HostRead, vars
<1>1. BadControlOK'
  BY <1>0 DEF BadIInv, BadControlOK
<1>2. die' = [e \in Dies |-> die'[e]] /\ reads' = [e \in Dies |-> reads'[e]]
  BY <1>0 DEF BadIInv
<1>3. ASSUME NEW e \in Dies \ overtaken PROVE BadDieInv(e)'
  <2>1. BadDieInv(e)' <=> BadDieInv(e)
    BY <1>0 DEF BadDieInv, Hole, Victim
  <2> QED BY <2>1 DEF BadIInv
<1>4. ASSUME NEW e \in Dies \ overtaken PROVE ReadsWritten(e)'
  <2> DEFINE s == die[e]
             b1 == BlockOf(s.ppn[l])
  <2>1. \A b \in reads[e] : b \in Blocks /\ Frontier(s, b) > 0
    BY <1>0 DEF BadIInv, ReadsWritten
  <2>2. WaitInv(s, NONE)
    BY <1>0, QuietDies, WaitsBefore DEF BadIInv
  <2>3. CASE e = d
    <3>1. b1 \in Blocks /\ Frontier(s, b1) > 0
      BY <1>0, <2>2, <2>3, MappedIsWritten DEF WaitInv
    <3>2. reads'[e] = reads[e] \cup {b1}
      BY <1>0, <2>3 DEF BadIInv
    <3> QED BY <1>0, <2>1, <3>1, <3>2 DEF ReadsWritten, Frontier
  <2>4. CASE e # d
    <3>1. reads'[e] = reads[e]
      BY <1>0, <2>4 DEF BadIInv
    <3> QED BY <1>0, <2>1, <3>1 DEF ReadsWritten, Frontier
  <2> QED BY <2>3, <2>4
<1>5. req'.dieNo \notin overtaken' => WriterServed'
  <2>1. WriterServed' <=> WriterServed
    BY <1>0 DEF WriterServed, WriterHasRoom, AtStart, Full, FreeBlocks
  <2> QED BY <1>0, <2>1 DEF BadIInv
<1> QED BY <1>0, <1>1, <1>2, <1>3, <1>4, <1>5 DEF BadIInv

\* A step between collections that rewrites the tables of one die, and sets
\* no frontier back, needs the invariant of that die only.
LEMMA OneDieWaits ==
    ASSUME BadIInv, pc \in {"idle", "push", "resume"}, NEW d \in Dies, NEW u,
           die' = [die EXCEPT ![d] = u], gc' = gc, overtaken' = overtaken,
           \A e \in Dies \ {d} : Hole(e)' = Hole(e),
           d \notin overtaken => WaitInv(u, Hole(d)')
    PROVE  /\ die' = [e \in Dies |-> die'[e]]
           /\ \A e \in Dies \ overtaken' : BadDieInv(e)'
<1>1. /\ die = [e \in Dies |-> die[e]] /\ gc.victimBlock = NONE
      /\ \A e \in Dies \ overtaken : BadDieInv(e)
  BY QuietDies DEF BadIInv
<1>2. die' = [e \in Dies |-> die'[e]]
  BY <1>1
<1>3. \A e \in Dies : die'[e] = IF e = d THEN u ELSE die[e]
  BY <1>1
<1>4. ASSUME NEW e \in Dies \ overtaken PROVE BadDieInv(e)'
  <2>1. Victim(e) = NONE /\ Victim(e)' = NONE
    BY <1>1 DEF Victim
  <2>2. CASE e = d
    <3>1. WaitInv(die'[e], Hole(e)')
      BY <1>3, <2>2
    <3> QED BY <2>1, <3>1, WaitsAfter
  <2>3. CASE e # d
    <3>1. die'[e] = die[e] /\ Hole(e)' = Hole(e)
      BY <1>3, <2>3
    <3> QED BY <1>1, <2>1, <3>1, UntouchedDie
  <2> QED BY <2>2, <2>3
<1> QED BY <1>2, <1>4

\* The same for the blocks with queued reads.
LEMMA ReadsStayWritten ==
    ASSUME BadIInv, pc \in {"idle", "push"}, NEW d \in Dies, NEW u,
           die' = [die EXCEPT ![d] = u], reads' = reads,
           d \notin overtaken => /\ die[d] \in DieType /\ u \in DieType
                                 /\ \A c \in Blocks : Frontier(die[d], c) <= Frontier(u, c)
    PROVE  \A e \in Dies \ overtaken : ReadsWritten(e)'
<1> SUFFICES ASSUME NEW e \in Dies \ overtaken PROVE ReadsWritten(e)'
  OBVIOUS
<1>1. \A b \in reads[e] : b \in Blocks /\ Frontier(die[e], b) > 0
  BY DEF BadIInv, ReadsWritten
<1>2. \A b \in reads[e] : b \in Blocks /\ Frontier(die'[e], b) > 0
  <2>1. CASE e = d
    <3>1. die'[e] = u
      BY <2>1 DEF BadIInv
    <3>2. \A c \in Blocks : /\ Frontier(die[e], c) \in Nat /\ Frontier(u, c) \in Nat
                            /\ Frontier(die[e], c) <= Frontier(u, c)
      BY <2>1, CountFacts DEF Counts
    <3> QED BY <1>1, <3>1, <3>2
  <2>2. CASE e # d
    <3>1. die'[e] = die[e]
      BY <2>2 DEF BadIInv
    <3> QED BY <1>1, <3>1
  <2> QED BY <2>1, <2>2
<1> QED BY <1>2 DEF ReadsWritten, Frontier

\* A write that starts to wait with its row keeps the invariant.
LEMMA WriteWaitsStep ==
    ASSUME BadIInv, NEW d \in Dies, NEW l \in Lpns, NEW v \in Data, WriteWaits(d, l, v)
    PROVE  BadIInv'
<1> DEFINE s == die[d]
<1>0. /\ pc = "idle" /\ pc' = "push" /\ gc' = gc /\ reads' = reads /\ overtaken' = overtaken
      /\ req' = [dieNo |-> d, dieLpn |-> l, data |-> v]
      /\ row = NONE /\ gc.victimBlock = NONE
  BY DEF WriteWaits, BadIInv, BadControlOK
<1>1. PICK t : /\ t = s \/ \E b \in FreeBlocks(s) : t = OpenBlock(s, b)
               /\ (t = s) = ~Full(s, s.currentBlock)
               /\ die' = [die EXCEPT ![d] = [t EXCEPT !.currentPage[t.currentBlock] = Bump(@)]]
               /\ row' = FreePage(t, t.currentBlock)
  BY DEF WriteWaits, NextFreeBlock
<1> DEFINE u == [t EXCEPT !.currentPage[t.currentBlock] = Bump(@)]
           p == FreePage(t, t.currentBlock)
<1>2. ASSUME d \notin overtaken
      PROVE  /\ WaitInv(u, p) /\ p # NONE /\ s \in DieType
             /\ \A c \in Blocks : Frontier(s, c) <= Frontier(u, c)
  <2>1. WaitInv(s, NONE)
    BY <1>0, <1>2, QuietDies, WaitsBefore DEF BadIInv
  <2>2. /\ WaitInv(t, NONE) /\ ~Full(t, t.currentBlock)
        /\ \A c \in Blocks : Frontier(t, c) = Frontier(s, c)
    <3>1. CASE t = s
      BY <1>1, <2>1, <3>1
    <3>2. ASSUME NEW b \in FreeBlocks(s), t = OpenBlock(s, b)
          PROVE  /\ WaitInv(t, NONE) /\ ~Full(t, t.currentBlock)
                 /\ \A c \in Blocks : Frontier(t, c) = Frontier(s, c)
      <4> HIDE DEF s
      <4> QED BY <2>1, <3>2, OpenKeepsWaitInv
    <3> QED BY <1>1, <3>1, <3>2
  <2>3. /\ WaitInv(u, p) /\ p # NONE
        /\ \A c \in Blocks : Frontier(t, c) <= Frontier(u, c)
    BY <2>2, GivingOutMakesHole
  <2>4. s \in DieType
    BY <2>1 DEF WaitInv
  <2> QED BY <2>2, <2>3, <2>4
<1> HIDE DEF u, p
<1>3. die' = [die EXCEPT ![d] = u] /\ row' = p
  BY <1>1 DEF u, p
<1>4. \A e \in Dies \ {d} : Hole(e)' = NONE /\ Hole(e) = NONE
  BY <1>0 DEF Hole
<1>5. d \notin overtaken => Hole(d)' = p
  BY <1>0, <1>2, <1>3 DEF Hole
<1>6. die' = [e \in Dies |-> die'[e]] /\ \A e \in Dies \ overtaken' : BadDieInv(e)'
  BY <1>0, <1>2, <1>3, <1>4, <1>5, OneDieWaits
<1>7. \A e \in Dies \ overtaken : ReadsWritten(e)'
  BY <1>0, <1>2, <1>3, ReadsStayWritten DEF WaitInv
<1>8. BadControlOK'
  BY <1>0 DEF BadIInv, BadControlOK
<1>9. req'.dieNo \notin overtaken' => WriterServed'
  BY <1>0, <1>2, <1>3 DEF WriterServed, WriterHasRoom, AtStart
<1>10. reads' = [e \in Dies |-> reads'[e]]
  BY <1>0 DEF BadIInv
<1> QED BY <1>0, <1>6, <1>7, <1>8, <1>9, <1>10 DEF BadIInv

\* The write that waited keeps the invariant when it is queued.
LEMMA QueueWriteStep ==
    ASSUME BadIInv, QueueWrite
    PROVE  BadIInv'
<1> DEFINE d == req.dieNo
           l == req.dieLpn
           v == req.data
           s == die[d]
           p == row
           u == FillHole(s, p, l, v)
<1>0. /\ pc = "push" /\ pc' = "idle" /\ gc' = gc /\ reads' = reads /\ overtaken' = overtaken
      /\ req' = req /\ row' = NONE /\ gc.victimBlock = NONE
      /\ d \in Dies /\ l \in Lpns /\ v \in Data
      /\ die' = [die EXCEPT ![d] = u]
  BY DEF QueueWrite, FillHole, BadIInv, BadControlOK
<1>1. ASSUME d \notin overtaken
      PROVE  /\ WaitInv(u, NONE) /\ s \in DieType
             /\ \A c \in Blocks : Frontier(s, c) <= Frontier(u, c)
  <2>1. p # NONE
    BY <1>0, <1>1 DEF BadIInv, WriterServed
  <2>2. Hole(d) = p
    BY <2>1 DEF Hole
  <2>3. WaitInv(s, p)
    BY <1>0, <1>1, <2>2, QuietDies, WaitsBefore DEF BadIInv
  <2>4. WaitInv(u, NONE) /\ \A c \in Blocks : Frontier(u, c) = Frontier(s, c)
    <3>1. WaitInv(s, p) /\ p # NONE /\ l \in Lpns /\ v \in Data
      BY <1>0, <2>1, <2>3
    <3> HIDE DEF p, s, l, v
    <3> QED BY <3>1, QueueFillsHole
  <2>5. s \in DieType /\ \A c \in Blocks : Frontier(s, c) \in Nat
    BY <2>3, CountFacts DEF WaitInv, Counts
  <2>6. \A c \in Blocks : Frontier(s, c) <= Frontier(u, c)
    BY <2>4, <2>5
  <2> QED BY <2>4, <2>5, <2>6
<1> HIDE DEF u
<1>2. \A e \in Dies : Hole(e)' = NONE
  BY <1>0 DEF Hole
<1>3. \A e \in Dies \ {d} : Hole(e) = NONE
  BY DEF Hole
<1>4. die' = [e \in Dies |-> die'[e]] /\ \A e \in Dies \ overtaken' : BadDieInv(e)'
  <2> HIDE DEF d
  <2> QED BY <1>0, <1>1, <1>2, <1>3, OneDieWaits
<1>5. \A e \in Dies \ overtaken : ReadsWritten(e)'
  BY <1>0, <1>1, ReadsStayWritten DEF WaitInv
<1>6. BadControlOK'
  BY <1>0 DEF BadIInv, BadControlOK
<1>7. req'.dieNo \notin overtaken' => WriterServed'
  BY <1>0 DEF WriterServed, WriterHasRoom, AtStart
<1>8. reads' = [e \in Dies |-> reads'[e]]
  BY <1>0 DEF BadIInv
<1> QED BY <1>0, <1>4, <1>5, <1>6, <1>7, <1>8 DEF BadIInv

\* PmWrite into a die without a hole.
LEMMA WriteKeepsWaitInv ==
    ASSUME NEW s, WaitInv(s, NONE), ~Full(s, s.currentBlock), NEW l \in Lpns, NEW v \in Data
    PROVE  LET u == WritePage(s, l, v)
           IN  /\ WaitInv(u, NONE) /\ u \in DieType
               /\ \A c \in Blocks : Frontier(s, c) <= Frontier(u, c)
<1> DEFINE u == WritePage(s, l, v)
<1>1. DieInv(s, NONE, 0, FALSE)
  BY WaitInvIsDieInv
<1> HIDE DEF u
<1>2. DieInv(u, NONE, 0, FALSE) /\ \A c \in Blocks : Frontier(s, c) <= Frontier(u, c)
  BY <1>1, WriteKeepsDieInv, WriteRaisesFrontier DEF u
<1>3. WaitInv(u, NONE)
  BY <1>2, WaitInvIsDieInv
<1> QED BY <1>2, <1>3 DEF u, WaitInv

\* PmWrite without a collection keeps the invariant.
LEMMA BadPmWriteStep ==
    ASSUME BadIInv, NEW d \in Dies, NEW l \in Lpns, NEW v \in Data, PmWrite(d, l, v), Stay
    PROVE  BadIInv'
<1> DEFINE s == die[d]
<1>0. /\ pc = "idle" /\ pc' = pc /\ gc' = gc
      /\ req' = [dieNo |-> d, dieLpn |-> l, data |-> v]
      /\ reads' = reads /\ overtaken' = overtaken /\ row' = row
      /\ row = NONE /\ gc.victimBlock = NONE
  BY DEF PmWrite, Stay, BadIInv, BadControlOK
<1>1. PICK t : /\ \/ t = s /\ ~Full(s, s.currentBlock)
                  \/ \E b \in FreeBlocks(s) : t = OpenBlock(s, b)
               /\ die' = [die EXCEPT ![d] = WritePage(t, l, v)]
  <2>1. CASE ~Full(s, s.currentBlock)
    BY <2>1 DEF PmWrite
  <2>2. CASE Full(s, s.currentBlock)
    BY <2>2 DEF PmWrite, NextFreeBlock
  <2> QED BY <2>1, <2>2
<1> DEFINE u == WritePage(t, l, v)
<1>2. ASSUME d \notin overtaken
      PROVE  /\ WaitInv(u, NONE) /\ s \in DieType
             /\ \A c \in Blocks : Frontier(s, c) <= Frontier(u, c)
  <2>1. WaitInv(s, NONE)
    BY <1>0, <1>2, QuietDies, WaitsBefore DEF BadIInv
  <2> HIDE DEF s
  <2>2. /\ WaitInv(t, NONE) /\ ~Full(t, t.currentBlock)
        /\ \A c \in Blocks : Frontier(t, c) = Frontier(s, c)
    BY <1>1, <2>1, OpenKeepsWaitInv
  <2>3. WaitInv(u, NONE) /\ \A c \in Blocks : Frontier(t, c) <= Frontier(u, c)
    BY <2>2, WriteKeepsWaitInv
  <2> QED BY <2>1, <2>2, <2>3 DEF WaitInv
<1> HIDE DEF u
<1>3. die' = [die EXCEPT ![d] = u]
  BY <1>1 DEF u
<1>4. \A e \in Dies : Hole(e)' = NONE /\ Hole(e) = NONE
  BY <1>0 DEF Hole
<1>5. die' = [e \in Dies |-> die'[e]] /\ \A e \in Dies \ overtaken' : BadDieInv(e)'
  BY <1>0, <1>2, <1>3, <1>4, OneDieWaits
<1>6. \A e \in Dies \ overtaken : ReadsWritten(e)'
  BY <1>0, <1>2, <1>3, ReadsStayWritten DEF WaitInv
<1>7. BadControlOK'
  BY <1>0 DEF BadIInv, BadControlOK
<1>8. req'.dieNo \notin overtaken' => WriterServed'
  BY <1>0 DEF WriterServed, WriterHasRoom, AtStart
<1>9. reads' = [e \in Dies |-> reads'[e]]
  BY <1>0 DEF BadIInv
<1> QED BY <1>0, <1>5, <1>6, <1>7, <1>8, <1>9 DEF BadIInv

\* The write that waited for the collection keeps the invariant.
LEMMA BadResumeStep ==
    ASSUME BadIInv, BadResume
    PROVE  BadIInv'
<1> DEFINE d == req.dieNo
           l == req.dieLpn
           v == req.data
           s == die[d]
           u == WritePage(s, l, v)
<1>0. /\ pc = "resume" /\ pc' = "idle" /\ req' = req /\ gc' = gc
      /\ reads' = [e \in Dies |-> {}] /\ overtaken' = overtaken /\ row' = row
      /\ row = NONE /\ gc.victimBlock = NONE /\ d \in Dies
      /\ die' = [die EXCEPT ![d] = u]
  BY DEF BadResume, PmWriteResume, BadIInv, BadControlOK
<1>1. ASSUME d \notin overtaken PROVE WaitInv(u, NONE)
  <2>1. WaitInv(s, NONE)
    BY <1>0, <1>1, QuietDies, WaitsBefore DEF BadIInv
  <2>2. ~Full(s, s.currentBlock) /\ l \in Lpns /\ v \in Data
    BY <1>0, <1>1 DEF BadIInv, WriterServed, WriterHasRoom
  <2> HIDE DEF s, l, v
  <2> QED BY <2>1, <2>2, WriteKeepsWaitInv
<1> HIDE DEF u
<1>2. \A e \in Dies : Hole(e)' = NONE /\ Hole(e) = NONE
  BY <1>0 DEF Hole
<1>3. die' = [e \in Dies |-> die'[e]] /\ \A e \in Dies \ overtaken' : BadDieInv(e)'
  <2> HIDE DEF d
  <2> QED BY <1>0, <1>1, <1>2, OneDieWaits
<1>4. \A e \in Dies : ReadsWritten(e)'
  BY <1>0 DEF ReadsWritten
<1>5. BadControlOK'
  BY <1>0 DEF BadIInv, BadControlOK
<1>6. req'.dieNo \notin overtaken' => WriterServed'
  BY <1>0 DEF WriterServed, WriterHasRoom, AtStart
<1>7. reads' = [e \in Dies |-> reads'[e]]
  BY <1>0
<1> QED BY <1>3, <1>4, <1>5, <1>6, <1>7 DEF BadIInv

\* A write that enters GarbageCollection has found no free block.
LEMMA BadNeedsGCStep ==
    ASSUME BadIInv, NEW d \in Dies, NEW l \in Lpns, NEW v \in Data,
           PmWriteNeedsGC(d, l, v), Stay
    PROVE  BadIInv'
<1>0. /\ pc = "idle" /\ pc' = "gc" /\ die' = die /\ gc' = NoVictim(0)
      /\ req' = [dieNo |-> d, dieLpn |-> l, data |-> v]
      /\ reads' = reads /\ overtaken' = overtaken /\ row' = row
      /\ row = NONE /\ gc.victimBlock = NONE
      /\ Full(die[d], die[d].currentBlock) /\ FreeBlocks(die[d]) = {}
  BY DEF PmWriteNeedsGC, Stay, BadIInv, BadControlOK
<1>1. 0 \in Dies /\ 0 \in Counts /\ ~(d < 0)
  BY GeometryAssumption, SMTT(30) DEF Dies, Counts
<1>2. /\ gc'.dieNo = 0 /\ gc'.victimBlock = NONE /\ gc' \in GcType
      /\ gc' = [dieNo |-> gc'.dieNo, victimBlock |-> gc'.victimBlock,
                pageCount |-> gc'.pageCount, closedFlag |-> gc'.closedFlag]
  BY <1>0, <1>1 DEF NoVictim, GcType
<1>3. BadControlOK'
  BY <1>0, <1>1, <1>2 DEF BadIInv, BadControlOK
<1>4. \A e \in Dies : Hole(e)' = NONE /\ Hole(e) = NONE /\ Victim(e)' = NONE /\ Victim(e) = NONE
  BY <1>0, <1>2 DEF Hole, Victim
<1>5. \A e \in Dies \ overtaken : BadDieInv(e)'
  BY <1>0, <1>4, UntouchedDie DEF BadIInv
<1>6. ASSUME NEW e \in Dies \ overtaken PROVE ReadsWritten(e)'
  <2>1. \A b \in reads[e] : b \in Blocks /\ Frontier(die[e], b) > 0
    BY <1>0 DEF BadIInv, ReadsWritten
  <2> QED BY <1>0, <2>1 DEF ReadsWritten, Frontier
<1>7. WriterServed'
  <2>1. WriterHasRoom'
    BY <1>0, <1>1, <1>2 DEF WriterHasRoom, Full
  <2> QED BY <1>0, <2>1 DEF WriterServed, FreeBlocks
<1> QED BY <1>0, <1>3, <1>5, <1>6, <1>7 DEF BadIInv

\* A step of the collector rewrites the tables of the die it is at.
LEMMA OneDieCollected ==
    ASSUME BadIInv, pc = "gc", NEW u, NEW v,
           die' = [die EXCEPT ![gc.dieNo] = u], Stay,
           \A e \in Dies : Victim(e)' = VictimOf(e, gc.dieNo, v),
           gc.dieNo \notin overtaken => DieInv(u, v, gc'.pageCount, gc'.closedFlag)
    PROVE  /\ die' = [e \in Dies |-> die'[e]]
           /\ \A e \in Dies : die'[e] = IF e = gc.dieNo THEN u ELSE die[e]
           /\ \A e \in Dies \ overtaken' : BadDieInv(e)'
<1>1. /\ die = [e \in Dies |-> die[e]]
      /\ \A e \in Dies \ overtaken : BadDieInv(e)
      /\ row' = row /\ overtaken' = overtaken /\ row = NONE
  BY DEF BadIInv, BadControlOK, Stay
<1>2. die' = [e \in Dies |-> die'[e]]
  BY <1>1
<1>3. \A e \in Dies : die'[e] = IF e = gc.dieNo THEN u ELSE die[e]
  BY <1>1
<1>4. ASSUME NEW e \in Dies \ overtaken PROVE BadDieInv(e)'
  <2>1. Hole(e) = NONE /\ Hole(e)' = NONE
    BY <1>1 DEF Hole
  <2>2. CASE e = gc.dieNo
    <3>1. Victim(e)' = v /\ die'[e] = u
      BY <1>3, <2>2 DEF VictimOf
    <3> QED BY <2>1, <2>2, <3>1 DEF BadDieInv
  <2>3. CASE e # gc.dieNo
    <3>1. Victim(e) = NONE /\ Victim(e)' = NONE /\ die'[e] = die[e]
      BY <1>3, <2>3 DEF Victim, VictimOf
    <3> QED BY <1>1, <2>1, <3>1, UntouchedDie
  <2> QED BY <2>2, <2>3
<1> QED BY <1>1, <1>2, <1>3, <1>4

\* Taking a victim off its list keeps the invariant.
LEMMA BadSelectStep ==
    ASSUME BadIInv, GcSelectVictim, Stay
    PROVE  BadIInv'
<1> DEFINE d == gc.dieNo
           s == die[d]
           full == Full(s, s.currentBlock)
<1>0. /\ pc = "gc" /\ pc' = pc /\ req' = req /\ gc.victimBlock = NONE /\ d \in Dies
      /\ reads' = reads /\ overtaken' = overtaken /\ row' = row /\ row = NONE
      /\ req.dieNo \in Dies
  BY DEF GcSelectVictim, Collecting, Stay, BadIInv, BadControlOK
<1>1. PICK k \in VictimCounts(s) :
        /\ gc' = [dieNo       |-> d,
                  victimBlock |-> s.list.head[k],
                  pageCount   |-> IF k = PAGE_NUM_PER_BLOCK THEN k ELSE 0,
                  closedFlag  |-> full]
        /\ die' = [die EXCEPT ![d].list = PopHead(@, k)]
  BY DEF GcSelectVictim
<1> DEFINE u == [s EXCEPT !.list = PopHead(@, k)]
           v == s.list.head[k]
           c == IF k = PAGE_NUM_PER_BLOCK THEN PAGE_NUM_PER_BLOCK ELSE 0
<1>2. die' = [die EXCEPT ![d] = u]
  BY <1>1
<1>3. gc'.dieNo = d /\ gc'.victimBlock = v /\ gc'.pageCount = c /\ gc'.closedFlag = full
  BY <1>1
<1>4. v # NONE
  BY DEF VictimCounts
<1>5. ASSUME d \notin overtaken
      PROVE  v \in Blocks /\ c \in Counts /\ DieInv(u, v, c, full)
  <2>1. Hole(d) = NONE /\ Victim(d) = NONE /\ BadDieInv(d)
    BY <1>0, <1>5, QuietDies DEF BadIInv
  <2>2. WaitInv(s, NONE)
    BY <1>0, <2>1, WaitsBefore
  <2>3. DieInv(s, NONE, 0, FALSE)
    BY <2>2, WaitInvIsDieInv
  <2> HIDE DEF s, d
  <2> QED BY <2>3, SelectKeepsDieInv
<1>6. full \in BOOLEAN
  BY DEF Full
<1>7. d \notin overtaken => gc' \in GcType
  BY <1>0, <1>1, <1>5, <1>6 DEF GcType
<1> HIDE DEF u, v, c, full
<1>8. \A e \in Dies : Victim(e)' = VictimOf(e, d, v)
  BY <1>3 DEF Victim, VictimOf
<1>9. /\ die' = [e \in Dies |-> die'[e]]
      /\ \A e \in Dies : die'[e] = IF e = d THEN u ELSE die[e]
      /\ \A e \in Dies \ overtaken' : BadDieInv(e)'
  <2>1. d \notin overtaken => DieInv(u, v, gc'.pageCount, gc'.closedFlag)
    BY <1>3, <1>5
  <2> QED BY <1>0, <1>2, <1>8, <2>1, OneDieCollected
<1>10. gc' # NoVictim(0)
  BY <1>3, <1>4 DEF NoVictim
<1>11. \A e \in Dies : ReadsWritten(e)'
  BY <1>0, <1>10 DEF ReadsWritten, AtStart
<1>12. gc' = [dieNo |-> gc'.dieNo, victimBlock |-> gc'.victimBlock,
              pageCount |-> gc'.pageCount, closedFlag |-> gc'.closedFlag]
  BY <1>1
<1>13. BadControlOK'
  BY <1>0, <1>3, <1>7, <1>12 DEF BadIInv, BadControlOK
<1>14. ASSUME req'.dieNo \notin overtaken' PROVE WriterServed'
  <2>1. WriterHasRoom
    BY <1>0, <1>14 DEF BadIInv, WriterServed
  <2>2. WriterHasRoom'
    <3>1. CASE req.dieNo = d
      <4>1. full
        BY <1>0, <2>1, <3>1 DEF WriterHasRoom, full
      <4>2. ~(d < d)
        BY <1>0 DEF Dies
      <4> QED BY <1>0, <1>3, <1>4, <2>1, <3>1, <4>1, <4>2 DEF WriterHasRoom
    <3>2. CASE req.dieNo # d
      <4>1. die'[req.dieNo] = die[req.dieNo]
        BY <1>0, <1>9, <3>2
      <4> QED BY <1>0, <1>3, <2>1, <3>2, <4>1 DEF WriterHasRoom, Full
    <3> QED BY <3>1, <3>2
  <2> QED BY <1>0, <1>10, <2>2 DEF WriterServed, AtStart
<1>15. reads' = [e \in Dies |-> reads'[e]]
  BY <1>0 DEF BadIInv
<1> QED BY <1>9, <1>11, <1>13, <1>14, <1>15 DEF BadIInv

\* An assertion that fails leaves everything as it is.
LEMMA BadAbortStep ==
    ASSUME BadIInv, GcAbort, Stay
    PROVE  BadIInv'
<1>0. /\ pc = "gc" /\ pc' = "halted" /\ die' = die /\ req' = req /\ gc' = gc
      /\ gc.victimBlock = NONE
      /\ reads' = reads /\ overtaken' = overtaken /\ row' = row
  BY DEF GcAbort, Collecting, Stay
<1>1. \A e \in Dies : BadDieInv(e)' <=> BadDieInv(e)
  BY <1>0 DEF BadDieInv, Hole, Victim
<1>2. \A e \in Dies : ReadsWritten(e)'
  BY <1>0 DEF ReadsWritten, AtStart
<1>3. WriterServed'
  BY <1>0 DEF WriterServed, WriterHasRoom, AtStart
<1>4. BadControlOK'
  BY <1>0 DEF BadIInv, BadControlOK
<1> QED BY <1>0, <1>1, <1>2, <1>3, <1>4 DEF BadIInv

\* An iteration of the copy loop keeps the invariant.
LEMMA BadCopyStep ==
    ASSUME BadIInv, GcCopyPage, Stay
    PROVE  BadIInv'
<1> DEFINE d == gc.dieNo
           s == die[d]
           v == gc.victimBlock
           c == gc.pageCount
           f == gc.closedFlag
           u == CopyPage(s, Row(v, c), f)
           cl == CopyCloses(s, Row(v, c), f)
           n == c + 1
<1>0. /\ pc = "gc" /\ pc' = pc /\ req' = req /\ v # NONE /\ d \in Dies
      /\ c < PAGE_NUM_PER_BLOCK
      /\ gc' = [gc EXCEPT !.pageCount = n, !.closedFlag = cl]
      /\ die' = [die EXCEPT ![d] = u]
      /\ reads' = reads /\ overtaken' = overtaken /\ row' = row /\ row = NONE
      /\ req.dieNo \in Dies
      /\ gc = [dieNo |-> d, victimBlock |-> v, pageCount |-> c, closedFlag |-> f]
  BY DEF GcCopyPage, Collecting, Stay, BadIInv, BadControlOK
<1>1. ASSUME d \notin overtaken
      PROVE  v \in Blocks /\ n \in Counts /\ DieInv(u, v, n, cl) /\ cl \in BOOLEAN
  <2>1. gc \in GcType
    BY <1>1 DEF BadIInv, BadControlOK
  <2>2. v \in Blocks /\ c \in Offsets /\ n \in Counts /\ f \in BOOLEAN
    BY <1>0, <2>1, CountFacts DEF GcType
  <2>3. DieInv(s, v, c, f)
    <3>1. Hole(d) = NONE /\ Victim(d) = v /\ BadDieInv(d)
      BY <1>0, <1>1 DEF BadIInv, Hole, Victim
    <3> QED BY <3>1 DEF BadDieInv
  <2> HIDE DEF s, v, c, f, d
  <2> QED BY <2>2, <2>3, CopyKeepsDieInv
<1>2. f => cl
  BY DEF CopyCloses
<1> HIDE DEF u, cl, n
<1>3. gc' = [dieNo |-> d, victimBlock |-> v, pageCount |-> n, closedFlag |-> cl]
  <2> HIDE DEF d, v, c, f
  <2> QED BY <1>0
<1>4. gc'.dieNo = d /\ gc'.victimBlock = v /\ gc'.pageCount = n /\ gc'.closedFlag = cl
  BY <1>3
<1>5. d \notin overtaken => gc' \in GcType
  <2> HIDE DEF d, v
  <2> QED BY <1>0, <1>1, <1>3 DEF GcType
<1>6. \A e \in Dies : Victim(e)' = VictimOf(e, d, v)
  BY <1>4 DEF Victim, VictimOf
<1>7. /\ die' = [e \in Dies |-> die'[e]]
      /\ \A e \in Dies : die'[e] = IF e = d THEN u ELSE die[e]
      /\ \A e \in Dies \ overtaken' : BadDieInv(e)'
  <2>1. d \notin overtaken => DieInv(u, v, gc'.pageCount, gc'.closedFlag)
    BY <1>1, <1>4
  <2> QED BY <1>0, <1>6, <2>1, OneDieCollected
<1>8. gc' # NoVictim(0)
  BY <1>0, <1>4 DEF NoVictim
<1>9. \A e \in Dies : ReadsWritten(e)'
  BY <1>0, <1>8 DEF ReadsWritten, AtStart
<1>10. BadControlOK'
  <2>1. gc' = [dieNo |-> gc'.dieNo, victimBlock |-> gc'.victimBlock,
               pageCount |-> gc'.pageCount, closedFlag |-> gc'.closedFlag]
    BY <1>3
  <2> QED BY <1>0, <1>4, <1>5, <2>1 DEF BadIInv, BadControlOK
<1>11. ASSUME req'.dieNo \notin overtaken' PROVE WriterServed'
  <2>1. WriterHasRoom
    BY <1>0, <1>11 DEF BadIInv, WriterServed
  <2>2. WriterHasRoom'
    <3>1. CASE req.dieNo = d
      <4>1. ~(d < d)
        BY <1>0 DEF Dies
      <4>2. cl
        BY <1>0, <1>2, <2>1, <3>1 DEF WriterHasRoom
      <4> QED BY <1>0, <1>4, <2>1, <3>1, <4>1, <4>2 DEF WriterHasRoom
    <3>2. CASE req.dieNo # d
      <4>1. die'[req.dieNo] = die[req.dieNo]
        BY <1>0, <1>7, <3>2
      <4> QED BY <1>0, <1>4, <2>1, <3>2, <4>1 DEF WriterHasRoom, Full
    <3> QED BY <3>1, <3>2
  <2> QED BY <1>0, <1>8, <2>2 DEF WriterServed, AtStart
<1>12. reads' = [e \in Dies |-> reads'[e]]
  BY <1>0 DEF BadIInv
<1> QED BY <1>7, <1>9, <1>10, <1>11, <1>12 DEF BadIInv

\* Erasing the victim, with the exchange of the spare block, keeps the
\* invariant.
LEMMA BadEraseStep ==
    ASSUME BadIInv, GcEraseVictim, Stay
    PROVE  BadIInv'
<1> DEFINE d == gc.dieNo
           s == die[d]
           v == gc.victimBlock
           f == gc.closedFlag
           c1 == gc'.pageCount
           f1 == gc'.closedFlag
           u == RetireVictim(s, v, f)
           last == d = DIE_NUM - 1
           w == req.dieNo
<1>0. /\ pc = "gc" /\ req' = req /\ v # NONE /\ d \in Dies /\ gc.pageCount = PAGE_NUM_PER_BLOCK
      /\ die' = [die EXCEPT ![d] = u]
      /\ reads' = reads /\ overtaken' = overtaken /\ row' = row /\ row = NONE
      /\ w \in Dies
  BY DEF GcEraseVictim, Collecting, Stay, BadIInv, BadControlOK
<1>1. ASSUME d \notin overtaken
      PROVE  DieInv(u, NONE, c1, f1) /\ (f => ~Full(u, u.currentBlock))
  <2>1. v \in Blocks /\ f \in BOOLEAN
    BY <1>0, <1>1 DEF BadIInv, BadControlOK, GcType
  <2>2. DieInv(s, v, PAGE_NUM_PER_BLOCK, f)
    <3>1. Hole(d) = NONE /\ Victim(d) = v /\ BadDieInv(d)
      BY <1>0, <1>1 DEF BadIInv, Hole, Victim
    <3> QED BY <1>0, <3>1 DEF BadDieInv
  <2> HIDE DEF s, v, f, d, c1, f1
  <2> QED BY <2>1, <2>2, RetireKeepsDieInv
<1>2. /\ last => pc' = "resume" /\ gc' = NoVictim(0)
      /\ ~last => pc' = "gc" /\ gc' = NoVictim(d + 1)
  BY DEF GcEraseVictim
<1>3. 0 \in Dies /\ 0 \in Counts /\ (~last => d + 1 \in Dies) /\ d \in Nat /\ w \in Nat
  BY <1>0, GeometryAssumption, SMTT(30) DEF Dies, Counts
<1>4. /\ gc' \in GcType /\ gc'.victimBlock = NONE /\ (~last => gc'.dieNo = d + 1)
      /\ gc' = [dieNo |-> gc'.dieNo, victimBlock |-> gc'.victimBlock,
                pageCount |-> gc'.pageCount, closedFlag |-> gc'.closedFlag]
  <2>1. CASE last
    <3>1. gc' = [dieNo |-> 0, victimBlock |-> NONE, pageCount |-> 0, closedFlag |-> FALSE]
      BY <1>2, <2>1 DEF NoVictim
    <3> QED BY <1>3, <2>1, <3>1 DEF GcType
  <2>2. CASE ~last
    <3>1. gc' = [dieNo |-> d + 1, victimBlock |-> NONE, pageCount |-> 0, closedFlag |-> FALSE]
      BY <1>2, <2>2 DEF NoVictim
    <3> HIDE DEF last
    <3> QED BY <1>3, <2>2, <3>1 DEF GcType
  <2> QED BY <2>1, <2>2
<1> HIDE DEF u, c1, f1, last
<1>5. \A e \in Dies : Victim(e)' = VictimOf(e, d, NONE)
  BY <1>4 DEF Victim, VictimOf
<1>6. /\ die' = [e \in Dies |-> die'[e]]
      /\ \A e \in Dies : die'[e] = IF e = d THEN u ELSE die[e]
      /\ \A e \in Dies \ overtaken' : BadDieInv(e)'
  <2>1. d \notin overtaken => DieInv(u, NONE, gc'.pageCount, gc'.closedFlag)
    BY <1>1 DEF c1, f1
  <2> QED BY <1>0, <1>5, <2>1, OneDieCollected
<1>7. ~AtStart'
  <2>1. CASE last
    BY <1>2, <2>1 DEF AtStart
  <2>2. CASE ~last
    <3>1. NoVictim(d + 1).dieNo = d + 1 /\ NoVictim(0).dieNo = 0 /\ d + 1 # 0
      BY <1>3 DEF NoVictim
    <3> QED BY <1>2, <2>2, <3>1 DEF AtStart
  <2> QED BY <2>1, <2>2
<1>8. pc' \in {"gc", "resume"}
  BY <1>2
<1>9. \A e \in Dies : ReadsWritten(e)'
  BY <1>7, <1>8 DEF ReadsWritten, AtStart
<1>10. BadControlOK'
  BY <1>0, <1>4, <1>8 DEF BadIInv, BadControlOK, GcType
<1>11. ASSUME w \notin overtaken PROVE WriterHasRoom'
  <2>1. WriterHasRoom
    BY <1>11 DEF BadIInv, WriterServed
  <2>2. req.dieLpn \in Lpns /\ req.data \in Data
    BY <1>0, <2>1 DEF WriterHasRoom
  <2>3. CASE w = d
    <3>1. f /\ ~(d < d)
      BY <1>0, <1>3, <2>1, <2>3 DEF WriterHasRoom
    <3>2. die'[w] = u
      BY <1>0, <1>6, <2>3
    <3>3. d < d + 1 /\ d # d + 1 /\ ~(d > d + 1)
      BY <1>3
    <3>4. ~Full(die'[w], die'[w].currentBlock)
      BY <1>1, <1>11, <2>3, <3>1, <3>2
    <3>5. /\ last => pc' = "resume"
          /\ ~last => pc' = "gc" /\ gc'.dieNo = d + 1
      BY <1>2, <1>4
    <3> HIDE DEF d, last
    <3> QED BY <1>0, <2>2, <2>3, <3>3, <3>4, <3>5 DEF WriterHasRoom, Full
  <2>4. CASE w # d
    <3>1. die'[w] = die[w]
      BY <1>0, <1>6, <2>4
    <3>2. CASE last
      <4>1. w < d
        BY <1>0, <1>3, <2>4, <3>2, GeometryAssumption, SMTT(30) DEF last, Dies
      <4> QED BY <1>0, <1>2, <2>1, <2>2, <3>1, <3>2, <4>1 DEF WriterHasRoom, Full
    <3>3. CASE ~last
      <4>1. /\ w < d + 1 => w < d
            /\ w >= d + 1 => w > d
        BY <1>3, <2>4
      <4>2. \/ w < d + 1 /\ w # d + 1 /\ ~(w > d + 1)
            \/ w = d + 1 /\ ~(w < d + 1) /\ ~(w > d + 1) /\ w >= d + 1
            \/ w > d + 1 /\ ~(w < d + 1) /\ w # d + 1 /\ w >= d + 1
        BY <1>3
      <4> QED BY <1>0, <1>2, <1>4, <2>1, <2>2, <3>1, <3>3, <4>1, <4>2 DEF WriterHasRoom, Full
    <3> QED BY <3>2, <3>3
  <2> QED BY <2>3, <2>4
<1>12. req'.dieNo \notin overtaken' => WriterServed'
  BY <1>0, <1>7, <1>8, <1>11 DEF WriterServed
<1>13. reads' = [e \in Dies |-> reads'[e]]
  BY <1>0 DEF BadIInv
<1> QED BY <1>6, <1>9, <1>10, <1>12, <1>13 DEF BadIInv

\* What a sweep can note for a die: none, one or two of the blocks read.
LEMMA WornShape ==
    ASSUME NEW d, NEW x \in WornBlocks(d)
    PROVE  NotedFrom(x, reads[d])
BY DEF WornBlocks, NotedFrom

\* No die comes before die 0.
LEMMA DieNumbers == \A d \in Dies : ~(d < 0) /\ (d = 0 \/ d > 0)
BY GeometryAssumption DEF Dies

\* The record of a die that is not overtaken, after the replacement of the
\* blocks noted in worn: its invariant holds and its reads find the same; if
\* it was full and had no free block, its replacement fails.
LEMMA ReplacedDie ==
    ASSUME BadIInv, pc \in {"idle", "push"} \/ AtStart,
           NEW e \in Dies \ overtaken, NEW x, x \in WornBlocks(e),
           Len(x) = 2 => x[1] # x[2],
           ~(pc = "push" /\ req.dieNo = e /\ BlockOf(row) \in Range(x))
    PROVE  /\ Victim(e) = NONE /\ WaitInv(die[e], Hole(e))
           /\ \A r \in Replace(die[e], x) : WaitInv(r, Hole(e)) /\ NothingSeen(r, die[e])
           /\ Full(die[e], die[e].currentBlock) /\ FreeBlocks(die[e]) = {} /\ x # <<>>
                  => Replace(die[e], x) = {}
<1>1. gc.victimBlock = NONE /\ (pc # "push" => row = NONE)
  <2>1. NoVictim(0).victimBlock = NONE
    BY DEF NoVictim
  <2> QED BY <2>1 DEF BadIInv, BadControlOK, AtStart
<1>2. Victim(e) = NONE
  BY <1>1 DEF Victim
<1> DEFINE s == die[e]
           h == Hole(e)
           B == reads[e]
<1>3. WaitInv(s, h)
  BY <1>2, WaitsBefore DEF BadIInv
<1>4. B \in SUBSET Blocks /\ \A b \in B : Frontier(s, b) > 0
  BY DEF BadIInv, ReadsWritten
<1>5. NotedFrom(x, B)
  BY WornShape
<1>6. h # NONE => BlockOf(h) \notin Range(x)
  <2>1. h # NONE => pc = "push" /\ req.dieNo = e /\ h = row
    BY <1>1 DEF Hole
  <2> QED BY <2>1
<1> HIDE DEF s, h, B
<1>7. /\ \A r \in Replace(s, x) : WaitInv(r, h) /\ \A m \in Lpns : PmRead(r, m) = PmRead(s, m)
      /\ Full(s, s.currentBlock) /\ FreeBlocks(s) = {} /\ x # <<>> => Replace(s, x) = {}
  BY <1>3, <1>4, <1>5, <1>6, ReplaceKeepsWaitInv
<1> QED BY <1>2, <1>3, <1>7 DEF s, h, NothingSeen

\* A sweep that replaces worn blocks keeps the invariant of every die but one
\* whose waiting write it overtakes.  It is no sweep at the end of a
\* collection: there a write is about to bump a counter without a look.
LEMMA ReplaceStep ==
    ASSUME BadIInv, ReplaceWornBlocks, "gc end" \notin Places
    PROVE  BadIInv'
<1>1. PICK worn \in [Dies -> UNION {WornBlocks(d) : d \in Dies}] :
        /\ \A d \in Dies : worn[d] \in WornBlocks(d) /\ (Len(worn[d]) = 2 => worn[d][1] # worn[d][2])
        /\ IF \E d \in Dies : Replace(die[d], worn[d]) = {}
           THEN pc' = "halted" /\ UNCHANGED die
           ELSE /\ die' \in [Dies -> UNION {Replace(die[d], worn[d]) : d \in Dies}]
                /\ \A d \in Dies : die'[d] \in Replace(die[d], worn[d])
                /\ UNCHANGED pc
        /\ overtaken' = overtaken \cup
              {d \in Dies : pc = "push" /\ req.dieNo = d /\ BlockOf(row) \in Range(worn[d])}
  BY DEF ReplaceWornBlocks
<1>2. /\ reads' = [d \in Dies |-> {}] /\ req' = req /\ gc' = gc /\ row' = row
      /\ pc \in {"idle", "push"} \/ AtStart
  BY DEF ReplaceWornBlocks, Sweeping, AtStart
<1>3. gc.victimBlock = NONE /\ (pc # "push" => row = NONE)
  <2>1. NoVictim(0).victimBlock = NONE /\ NoVictim(0).dieNo = 0
    BY DEF NoVictim
  <2>2. CASE pc \in {"idle", "push"}
    BY <2>2 DEF BadIInv, BadControlOK
  <2>3. CASE AtStart
    BY <2>1, <2>3 DEF BadIInv, BadControlOK, AtStart
  <2> QED BY <1>2, <2>2, <2>3
<1>4. \A e \in Dies : /\ Victim(e) = NONE /\ Victim(e)' = NONE /\ Hole(e)' = Hole(e)
  BY <1>2, <1>3 DEF Victim, Hole
<1>5. ASSUME NEW e \in Dies \ overtaken'
      PROVE  /\ WaitInv(die[e], Hole(e)) /\ e \notin overtaken
             /\ \A r \in Replace(die[e], worn[e]) : WaitInv(r, Hole(e))
             /\ Full(die[e], die[e].currentBlock) /\ FreeBlocks(die[e]) = {} /\ worn[e] # <<>>
                    => Replace(die[e], worn[e]) = {}
  <2> DEFINE x == worn[e]
  <2>1. /\ e \in Dies \ overtaken /\ x \in WornBlocks(e) /\ (Len(x) = 2 => x[1] # x[2])
        /\ ~(pc = "push" /\ req.dieNo = e /\ BlockOf(row) \in Range(x))
    BY <1>1, <1>5
  <2> HIDE DEF x
  <2> QED BY <1>2, <2>1, ReplacedDie DEF x
<1>6. CASE \E d \in Dies : Replace(die[d], worn[d]) = {}
  <2>1. pc' = "halted" /\ die' = die
    BY <1>1, <1>6
  <2>2. \A e \in Dies \ overtaken' : BadDieInv(e)'
    BY <1>4, <1>5, <2>1, WaitsAfter
  <2>3. \A e \in Dies : ReadsWritten(e)'
    BY <2>1 DEF ReadsWritten, AtStart
  <2>4. WriterServed'
    BY <2>1 DEF WriterServed, WriterHasRoom, AtStart
  <2>5. BadControlOK'
    BY <1>1, <1>2, <1>3, <2>1 DEF BadIInv, BadControlOK
  <2> QED BY <1>2, <2>1, <2>2, <2>3, <2>4, <2>5 DEF BadIInv
<1>7. CASE ~ \E d \in Dies : Replace(die[d], worn[d]) = {}
  <2>1. /\ die' \in [Dies -> UNION {Replace(die[d], worn[d]) : d \in Dies}]
        /\ \A d \in Dies : die'[d] \in Replace(die[d], worn[d])
        /\ pc' = pc
    BY <1>1, <1>7
  <2>2. die' = [e \in Dies |-> die'[e]]
    BY <2>1
  <2>3. \A e \in Dies \ overtaken' : BadDieInv(e)'
    BY <1>4, <1>5, <2>1, WaitsAfter
  <2>4. \A e \in Dies : ReadsWritten(e)'
    BY <1>2 DEF ReadsWritten
  <2>5. BadControlOK'
    BY <1>1, <1>2, <2>1 DEF BadIInv, BadControlOK
  <2>6. ASSUME req.dieNo \notin overtaken' PROVE WriterServed'
    <3> DEFINE w == req.dieNo
               s == die[w]
    <3>1. w \in Dies \ overtaken' /\ w \notin overtaken /\ WriterServed
      BY <1>1, <2>6 DEF BadIInv, BadControlOK
    <3>2. CASE pc \in {"idle", "push"}
      BY <1>2, <2>1, <3>1, <3>2 DEF WriterServed, WriterHasRoom, AtStart
    <3>3. CASE AtStart
      <4>1. gc.dieNo = 0 /\ ~(w < 0) /\ (w = 0 \/ w > 0) /\ pc = "gc"
        <5>1. NoVictim(0).dieNo = 0
          BY DEF NoVictim
        <5>2. gc.dieNo = 0 /\ pc = "gc" /\ w \in Dies
          BY <3>1, <3>3, <5>1 DEF AtStart
        <5> HIDE DEF w
        <5> QED BY <5>2, DieNumbers
      <4>2. Full(s, s.currentBlock) /\ FreeBlocks(s) = {}
        BY <1>3, <3>1, <3>3, <4>1 DEF WriterServed, WriterHasRoom
      <4>3. worn[w] = <<>>
        BY <1>5, <1>7, <3>1, <4>2
      <4>4. die'[w] = s
        <5>1. die'[w] \in Replace(s, <<>>)
          BY <2>1, <3>1, <4>3
        <5> HIDE DEF s
        <5>2. Replace(s, <<>>) = {s}
          BY ReplaceUnfolds
        <5> QED BY <5>1, <5>2
      <4> QED BY <1>2, <2>1, <3>1, <3>3, <4>1, <4>4
            DEF WriterServed, WriterHasRoom, AtStart, Full, FreeBlocks
    <3> QED BY <1>2, <3>2, <3>3
  <2> QED BY <1>2, <2>2, <2>3, <2>4, <2>5, <2>6 DEF BadIInv
<1> QED BY <1>6, <1>7

\* The device starts with nothing read, nothing waiting and blank dies.
LEMMA InitBadIInv == BadInit => BadIInv
<1> SUFFICES ASSUME BadInit PROVE BadIInv
  OBVIOUS
<1>1. Init /\ reads = [d \in Dies |-> {}] /\ row = NONE /\ overtaken = {}
  BY DEF BadInit
<1>2. IInv
  BY <1>1, InitIInv
<1>3. pc = "idle" /\ gc = NoVictim(0) /\ die = [d \in Dies |-> die[d]]
  BY <1>1 DEF Init
<1>4. \A d \in Dies : BadDieInv(d) /\ ReadsWritten(d)
  BY <1>1, <1>2 DEF IInv, BadDieInv, Hole, ReadsWritten
<1>5. gc = [dieNo |-> gc.dieNo, victimBlock |-> gc.victimBlock,
            pageCount |-> gc.pageCount, closedFlag |-> gc.closedFlag] /\ gc.dieNo \in Dies
  BY <1>2, <1>3 DEF NoVictim, IInv, ControlOK, GcType
<1>6. BadControlOK
  BY <1>1, <1>2, <1>3, <1>5 DEF IInv, ControlOK, BadControlOK
<1>7. WriterServed
  BY <1>2, <1>3 DEF IInv, WriterServed, AtStart
<1> QED BY <1>1, <1>3, <1>4, <1>6, <1>7 DEF BadIInv

\* A stuttering step keeps the invariant.
LEMMA BadStutterStep ==
    ASSUME BadIInv, UNCHANGED badVars
    PROVE  BadIInv'
<1>1. /\ die' = die /\ pc' = pc /\ req' = req /\ gc' = gc
      /\ reads' = reads /\ row' = row /\ overtaken' = overtaken
  BY DEF badVars, vars
<1>2. \A e \in Dies : /\ BadDieInv(e)' <=> BadDieInv(e)
                      /\ ReadsWritten(e)' <=> ReadsWritten(e)
  BY <1>1 DEF BadDieInv, Hole, Victim, ReadsWritten, AtStart, Frontier
<1>3. BadControlOK' <=> BadControlOK
  BY <1>1 DEF BadControlOK
<1>4. WriterServed' <=> WriterServed
  BY <1>1 DEF WriterServed, WriterHasRoom, AtStart, Full, FreeBlocks
<1> QED BY <1>1, <1>2, <1>3, <1>4 DEF BadIInv

(***************************************************************************)
(* The theorems.                                                           *)
(***************************************************************************)

\* Where no sweep ends a collection, BadIInv is invariant: a die that is not
\* overtaken has the invariant of a device that replaces no blocks, but for
\* the row of a write that waits.
THEOREM ReplacementIsSafe ==
    ASSUME "gc end" \notin Places
    PROVE  BadSpec => []BadIInv
<1>1. BadIInv /\ [BadNext]_badVars => BadIInv'
  <2> SUFFICES ASSUME BadIInv, [BadNext]_badVars PROVE BadIInv'
    OBVIOUS
  <2>1. ASSUME NEW d \in Dies, NEW l \in Lpns, HostRead(d, l) PROVE BadIInv'
    BY <2>1, HostReadStep
  <2>2. ASSUME NEW d \in Dies, NEW l \in Lpns, NEW v \in Data,
               \/ WriteWaits(d, l, v)
               \/ PmWrite(d, l, v) /\ Stay
               \/ PmWriteNeedsGC(d, l, v) /\ Stay
        PROVE  BadIInv'
    BY <2>2, WriteWaitsStep, BadPmWriteStep, BadNeedsGCStep
  <2>3. CASE QueueWrite \/ BadResume \/ ReplaceWornBlocks
    BY <2>3, QueueWriteStep, BadResumeStep, ReplaceStep
  <2>4. CASE (GcSelectVictim \/ GcAbort \/ GcCopyPage \/ GcEraseVictim) /\ Stay
    BY <2>4, BadSelectStep, BadAbortStep, BadCopyStep, BadEraseStep
  <2>5. CASE (Halted /\ Stay) \/ UNCHANGED badVars
    BY <2>5, BadStutterStep DEF Halted, Stay, badVars
  <2> QED BY <2>1, <2>2, <2>3, <2>4, <2>5 DEF BadNext
<1> QED BY InitBadIInv, <1>1, PTL DEF BadSpec

\* A block marked bad is out of use: no logical page is mapped to it, and it
\* is neither the current block nor the spare nor a victim, whatever sweeps
\* find worn between commands, before a collection and in a push; a die where
\* a sweep overtook a write that had its row is the exception.
THEOREM BadBlocksStayUnused ==
    ASSUME "gc end" \notin Places
    PROVE  BadSpec => []BadBlocksUnused
<1>1. BadIInv => BadBlocksUnused
  <2> SUFFICES ASSUME BadIInv, NEW d \in Dies \ overtaken
               PROVE  LET s == die[d] IN
                 /\ \A l \in Lpns : s.ppn[l] # NONE => ~s.bad[BlockOf(s.ppn[l])]
                 /\ \A b \in {s.currentBlock, s.freeBlock, Victim(d)} \ {NONE} : ~s.bad[b]
    BY DEF BadBlocksUnused
  <2>1. BadDieInv(d)
    BY DEF BadIInv
  <2>2. Hole(d) # NONE => Victim(d) = NONE
    BY DEF BadIInv, BadControlOK, Hole, Victim
  <2> DEFINE s == die[d]
             v == Victim(d)
             h == Hole(d)
             c == gc.pageCount
             f == gc.closedFlag
  <2>3. DieInv(s, v, c, f) \/ (WaitInv(s, h) /\ v = NONE)
    BY <2>1, <2>2 DEF BadDieInv
  <2> HIDE DEF s, v, h, c, f
  <2>4. /\ \A l \in Lpns : s.ppn[l] # NONE => ~s.bad[BlockOf(s.ppn[l])]
        /\ \A b \in {s.currentBlock, s.freeBlock, v} \ {NONE} : ~s.bad[b]
    BY <2>3, UsedIsGood
  <2> QED BY <2>4 DEF s, v
<1>2. BadSpec => []BadIInv
  BY ReplacementIsSafe
<1> QED BY <1>1, <1>2, PTL

\* While no die is overtaken and no write waits, replacement has left the
\* device in a state of the invariant of PageMap.
LEMMA BackToIInv ==
    ASSUME BadIInv, overtaken = {}, row = NONE, pc # "push"
    PROVE  IInv
<1>1. \A d \in Dies : DieInv(die[d], Victim(d), gc.pageCount, gc.closedFlag)
  BY DEF BadIInv, BadDieInv, Hole
<1>2. die = [d \in Dies |-> die[d]] /\ \A d \in Dies : die[d] \in DieType
  BY <1>1 DEF BadIInv, DieInv
<1>3. die \in [Dies -> DieType]
  BY <1>2
<1>4. ControlOK /\ WriterHasRoom
  BY DEF BadIInv, BadControlOK, ControlOK, WriterServed
<1> QED BY <1>1, <1>3, <1>4 DEF IInv

\* While no die is overtaken, the maps and the lists of each die are those of
\* a die without replacement, also while a write waits.
LEMMA TablesOfDie ==
    ASSUME BadIInv, overtaken = {}, NEW d \in Dies
    PROVE  /\ gc.pageCount \in Counts
           /\ MapForward(die[d]) /\ MapBackward(die[d], Victim(d), gc.pageCount)
           /\ die[d] \in DieType /\ CountsExact(die[d]) /\ ListsWellFormed(die[d], Victim(d))
<1>1. BadDieInv(d) /\ gc.pageCount \in Counts
  BY DEF BadIInv, BadControlOK, GcType
<1>2. Hole(d) # NONE => Victim(d) = NONE
  BY DEF BadIInv, BadControlOK, Hole, Victim
<1>3. \A b \in Blocks : b # NONE
  BY NoneIsNoIndex
<1> QED BY <1>1, <1>2, <1>3 DEF BadDieInv, DieInv, WaitInv, MapBackward

\* Replacement keeps the two maps in agreement.
THEOREM MapAgreesWithReplacement ==
    ASSUME "gc end" \notin Places
    PROVE  BadSpec => [](overtaken = {} => MapConsistent)
<1>1. BadIInv => (overtaken = {} => MapConsistent)
  BY TablesOfDie, MapOfDieAgrees DEF MapConsistent
<1>2. BadSpec => []BadIInv
  BY ReplacementIsSafe
<1> QED BY <1>1, <1>2, PTL

\* Replacement keeps the victim lists and the counts exact: the block taken
\* out of its list is the one that is marked bad.
THEOREM ListsAreExactWithReplacement ==
    ASSUME "gc end" \notin Places
    PROVE  BadSpec => [](overtaken = {} => GcListsExact)
<1>1. BadIInv => (overtaken = {} => GcListsExact)
  BY TablesOfDie, ListsOfDieExact DEF GcListsExact
<1>2. BadSpec => []BadIInv
  BY ReplacementIsSafe
<1> QED BY <1>1, <1>2, PTL

(***************************************************************************)
(* The abstract store.                                                     *)
(***************************************************************************)

\* A waiting write is not seen by any read before it is queued.
LEMMA WaitingUnseen ==
    ASSUME BadIInv, overtaken = {}, NEW d \in Dies, NEW l \in Lpns, NEW v \in Data,
           WriteWaits(d, l, v)
    PROVE  ReadsOf(die') = ReadsOf(die)
<1> DEFINE s == die[d]
<1>1. PICK t : /\ t = s \/ \E b \in FreeBlocks(s) : t = OpenBlock(s, b)
               /\ die' = [die EXCEPT ![d] = [t EXCEPT !.currentPage[t.currentBlock] = Bump(@)]]
  BY DEF WriteWaits, NextFreeBlock
<1> DEFINE u == [t EXCEPT !.currentPage[t.currentBlock] = Bump(@)]
<1>2. s \in DieType /\ die = [e \in Dies |-> die[e]]
  BY TablesOfDie DEF BadIInv
<1>3. t.ppn = s.ppn /\ t.flash = s.flash /\ t \in DieType
  <2>1. CASE t = s
    BY <1>2, <2>1
  <2>2. ASSUME NEW b \in FreeBlocks(s), t = OpenBlock(s, b)
        PROVE  t.ppn = s.ppn /\ t.flash = s.flash /\ t \in DieType
    BY <1>2, <2>2 DEF OpenBlock, DieType, FreeBlocks
  <2> QED BY <1>1, <2>1, <2>2
<1>4. u.ppn = s.ppn /\ u.flash = s.flash
  BY <1>3 DEF DieType
<1> HIDE DEF u
<1>5. \A e \in Dies : die'[e] = IF e = d THEN u ELSE die[e]
  BY <1>1, <1>2 DEF u
<1>6. \A e \in Dies, m \in Lpns : PmRead(die'[e], m) = PmRead(die[e], m)
  BY <1>4, <1>5 DEF PmRead
<1> QED BY <1>6 DEF ReadsOf

\* A waiting write takes effect when it is queued, and as a whole.
LEMMA QueuedIsWritten ==
    ASSUME BadIInv, overtaken = {}, QueueWrite
    PROVE  ReadsOf(die') = Written(ReadsOf(die), req.dieNo, req.dieLpn, req.data)
<1> DEFINE d == req.dieNo
           l == req.dieLpn
           v == req.data
           p == row
           u == FillHole(die[d], p, l, v)
<1>1. /\ d \in Dies /\ l \in Lpns /\ v \in Data /\ p # NONE /\ Hole(d) = p
      /\ die' = [die EXCEPT ![d] = u] /\ die = [e \in Dies |-> die[e]] /\ Victim(d) = NONE
  BY QuietDies DEF QueueWrite, FillHole, BadIInv, BadControlOK, WriterServed, Hole
<1>2. WaitInv(die[d], p)
  BY <1>1, WaitsBefore DEF BadIInv
<1> HIDE DEF l, v, p
<1>3. \A m \in Lpns : PmRead(u, m) = IF m = l THEN v ELSE PmRead(die[d], m)
  BY <1>1, <1>2, QueueFillsHole
<1> HIDE DEF u, d
<1>4. \A e \in Dies : die'[e] = IF e = d THEN u ELSE die[e]
  BY <1>1
<1>5. ReadsOf(die') = Written(ReadsOf(die), d, l, v)
  BY <1>1, <1>3, <1>4 DEF ReadsOf, Written
<1> QED BY <1>5 DEF d, l, v

\* A replacement is not seen by any read.
LEMMA ReplacementUnseen ==
    ASSUME BadIInv, overtaken' = {}, ReplaceWornBlocks, "gc end" \notin Places
    PROVE  ReadsOf(die') = ReadsOf(die)
<1>1. PICK worn \in [Dies -> UNION {WornBlocks(d) : d \in Dies}] :
        /\ \A d \in Dies : worn[d] \in WornBlocks(d) /\ (Len(worn[d]) = 2 => worn[d][1] # worn[d][2])
        /\ \/ die' = die
           \/ \A d \in Dies : die'[d] \in Replace(die[d], worn[d])
        /\ overtaken' = overtaken \cup
              {d \in Dies : pc = "push" /\ req.dieNo = d /\ BlockOf(row) \in Range(worn[d])}
  BY DEF ReplaceWornBlocks
<1>2. pc \in {"idle", "push"} \/ AtStart
  BY DEF ReplaceWornBlocks, Sweeping, AtStart
<1>3. ASSUME NEW e \in Dies, die'[e] \in Replace(die[e], worn[e])
      PROVE  \A m \in Lpns : PmRead(die'[e], m) = PmRead(die[e], m)
  <2> DEFINE x == worn[e]
  <2>1. /\ e \in Dies \ overtaken /\ x \in WornBlocks(e) /\ (Len(x) = 2 => x[1] # x[2])
        /\ ~(pc = "push" /\ req.dieNo = e /\ BlockOf(row) \in Range(x))
        /\ die'[e] \in Replace(die[e], x)
    BY <1>1, <1>3
  <2> HIDE DEF x
  <2> QED BY <1>2, <2>1, ReplacedDie DEF NothingSeen
<1> QED BY <1>1, <1>3 DEF ReadsOf

\* The device that replaces worn blocks implements the abstract store as long
\* as no die is overtaken: no replacement changes what a read of any page
\* finds, nor does the wait of a write, which makes a read of its own page find
\* its own data when it is queued.
THEOREM StoreKeptWithReplacement ==
    ASSUME "gc end" \notin Places
    PROVE  BadSpec => /\ Store!StoreInit
                      /\ [][overtaken' = {} => [Store!StoreNext]_(Store!storeVars)]_badVars
<1>1. BadInit => Store!StoreInit
  <2> SUFFICES ASSUME Init PROVE Store!StoreInit
    BY DEF BadInit
  <2>1. ASSUME NEW d \in Dies, NEW l \in Lpns PROVE PmRead(die[d], l) = Erased
    <3>1. die[d] \in FreshDies /\ InitDieBlock(die[d])
      BY DEF Init
    <3> QED BY <3>1, FreshDieInv
  <2> QED BY <2>1 DEF Store!StoreInit, storeBar, modeBar, Init
<1>2. BadIInv /\ [BadNext]_badVars => [overtaken' = {} => [Store!StoreNext]_(Store!storeVars)]_badVars
  <2> SUFFICES ASSUME BadIInv, BadNext, overtaken' = {}
               PROVE  [Store!StoreNext]_(Store!storeVars)
    OBVIOUS
  <2>1. overtaken = {}
    BY DEF BadNext, HostRead, WriteWaits, QueueWrite, Stay, BadResume, ReplaceWornBlocks
  <2>2. ASSUME NEW d \in Dies, NEW l \in Lpns, HostRead(d, l)
        PROVE  [Store!StoreNext]_(Store!storeVars)
    <3>1. pc' = pc /\ req' = req /\ ReadsOf(die') = ReadsOf(die)
      BY <2>2 DEF HostRead, vars, ReadsOf
    <3> QED BY <3>1, Unseen
  <2>3. ASSUME NEW d \in Dies, NEW l \in Lpns, NEW v \in Data, WriteWaits(d, l, v)
        PROVE  Store!StoreNext
    <3>1. /\ pc = "idle" /\ pc' = "push"
          /\ req' = [dieNo |-> d, dieLpn |-> l, data |-> v]
      BY <2>3 DEF WriteWaits
    <3>2. ReadsOf(die') = ReadsOf(die)
      BY <2>1, <2>3, WaitingUnseen
    <3> QED BY <3>1, <3>2, Accepted
  <2>4. CASE QueueWrite
    <3>1. pc = "push" /\ pc' = "idle" /\ req' = req
      BY <2>4 DEF QueueWrite
    <3>2. ReadsOf(die') = Written(ReadsOf(die), req.dieNo, req.dieLpn, req.data)
      BY <2>1, <2>4, QueuedIsWritten
    <3> QED BY <3>1, <3>2, Finished
  <2>5. CASE ReplaceWornBlocks
    <3>1. req' = req /\ pc # "halted" /\ (pc' = pc \/ pc' = "halted")
      BY <2>5 DEF ReplaceWornBlocks, Sweeping
    <3>2. ReadsOf(die') = ReadsOf(die)
      BY <2>5, ReplacementUnseen
    <3> QED BY <3>1, <3>2, Unseen
  <2>6. CASE Halted /\ Stay
    <3>1. pc' = pc /\ req' = req /\ ReadsOf(die') = ReadsOf(die)
      BY <2>6 DEF Halted, vars, ReadsOf
    <3> QED BY <3>1, Unseen
  <2>7. CASE \/ \E d \in Dies, l \in Lpns, v \in Data : PmWrite(d, l, v) \/ PmWriteNeedsGC(d, l, v)
             \/ GcSelectVictim \/ GcAbort \/ GcCopyPage \/ GcEraseVictim \/ PmWriteResume
    <3>1. pc \notin {"push", "halted"}
      <4>1. ASSUME NEW d \in Dies, NEW l \in Lpns, NEW v \in Data,
                   PmWrite(d, l, v) \/ PmWriteNeedsGC(d, l, v)
            PROVE  pc = "idle"
        BY <4>1 DEF PmWrite, PmWriteNeedsGC
      <4>2. CASE GcSelectVictim \/ GcAbort \/ GcCopyPage \/ GcEraseVictim
        BY <4>2 DEF GcSelectVictim, GcAbort, GcCopyPage, GcEraseVictim, Collecting
      <4>3. CASE PmWriteResume
        BY <4>3 DEF PmWriteResume
      <4> QED BY <2>7, <4>1, <4>2, <4>3
    <3>2. IInv
      BY <2>1, <3>1, BackToIInv DEF BadIInv, BadControlOK
    <3>3. Next
      BY <2>7 DEF Next, Collect
    <3> QED BY <3>2, <3>3, StepRefinesStore
  <2> QED BY <2>2, <2>3, <2>4, <2>5, <2>6, <2>7 DEF BadNext, BadResume
<1>3. BadSpec => []BadIInv
  BY ReplacementIsSafe
<1> QED BY <1>1, <1>2, <1>3, PTL DEF BadSpec

=============================================================================
