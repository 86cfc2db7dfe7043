---------------------------- MODULE TablesProofs ----------------------------
(***************************************************************************)
(* Tables that are created before the first row, for any number of tables, *)
(* rows, blocks and slots, and whatever sectors are loaded.                *)
(*                                                                         *)
(* Blocks.  A creation gives out the block of the counter, a full page the *)
(* one after it: the counter means "the next free block" until the first   *)
(* row, and "the last block given out" from then on.  The invariant says   *)
(* so, which is also why it fails once creations and rows are mixed.       *)
(*                                                                         *)
(* Index.  A bucket is filled from its front and never emptied, so a key   *)
(* that was once put into it is found by every later search, at the slot   *)
(* it was put into.                                                        *)
(*                                                                         *)
(* Pages.  The page a table fills agrees with the page on the device in    *)
(* the places of the rows inserted, because no other table writes there;   *)
(* so a row that was inserted is on its page.  A loaded sector may cut     *)
(* rows: from then on a row counts as stored when its key is in place.     *)
(*                                                                         *)
(* Joins.  While a join runs nothing is inserted.  The rows the host has   *)
(* received are those of the entries before the iterator, one for each, in *)
(* some order: each fetch meets the next entries in ascending order and    *)
(* leaves the iterator behind the last of them.                            *)
(***************************************************************************)
EXTENDS Tables, FiniteSetTheorems, SequenceTheorems, WellFoundedInduction, TLAPS

(***************************************************************************)
(* Numbers: least elements, quotients, products.                           *)
(***************************************************************************)

\* A nonempty set of numbers has a least one, and Min is it.
LEMMA MinFacts ==
    ASSUME NEW N \in SUBSET Nat, N # {}
    PROVE  Min(N) \in N /\ \A n \in N : Min(N) <= n
<1> DEFINE R == OpToRel(<, Nat)
<1>1. R = {pair \in Nat \X Nat : pair[1] < pair[2]}
  BY DEF OpToRel
<1>2. IsWellFoundedOn(R, Nat)
  BY NatLessThanWellFounded
<1> HIDE DEF R
<1>3. PICK m \in N : \A n \in N : ~ (<<n, m>> \in R)
  BY <1>2, WFMin
<1>4. ASSUME NEW n \in N PROVE m <= n
  <2>1. m \in Nat /\ n \in Nat /\ ~ (<<n, m>> \in R)
    BY <1>3
  <2>2. ~ (n < m)
    BY <1>1, <2>1
  <2> QED BY <2>1, <2>2
<1> QED BY <1>4 DEF Min

\* Products by a number of one or more keep the order, a whole multiple apart.
LEMMA Spread ==
    ASSUME NEW w \in Nat \ {0}, NEW i \in Nat, NEW j \in Nat, i < j
    PROVE  /\ i * w \in Nat /\ j * w \in Nat
           /\ i * w + w <= j * w
<1>1. PICK d \in Nat : j = i + 1 + d
  <2>1. j - i - 1 \in Nat /\ j = i + 1 + (j - i - 1)
    OBVIOUS
  <2> QED BY <2>1
<1>2. d * w \in Nat /\ i * w \in Nat
  OBVIOUS
<1>3. j * w = i * w + w + d * w
  BY <1>1
<1> QED BY <1>2, <1>3

\* ... so a multiple and an offset below the factor are unique.
LEMMA Unique ==
    ASSUME NEW w \in Nat \ {0}, NEW i \in Nat, NEW j \in Nat,
           NEW p \in 0 .. w - 1, NEW q \in 0 .. w - 1, i * w + p = j * w + q
    PROVE  i = j /\ p = q
<1>1. i * w \in Nat /\ j * w \in Nat
  OBVIOUS
<1>2. i < j => i * w + w <= j * w
  BY Spread
<1>3. j < i => j * w + w <= i * w
  BY Spread
<1>4. i = j
  <2> DEFINE a == i * w
             b == j * w
  <2>1. a \in Nat /\ b \in Nat /\ a + p = b + q /\ (i < j => a + w <= b) /\ (j < i => b + w <= a)
    BY <1>1, <1>2, <1>3
  <2> HIDE DEF a, b
  <2> QED BY <2>1
<1>5. p = q
  <2> DEFINE a == i * w
  <2>1. a \in Nat /\ a + p = a + q
    BY <1>1, <1>4
  <2> HIDE DEF a
  <2> QED BY <2>1
<1> QED BY <1>4, <1>5

\* Quotient and remainder.
LEMMA Division ==
    ASSUME NEW n \in Nat, NEW w \in Nat \ {0}
    PROVE  /\ n \div w \in Nat /\ n % w \in 0 .. w - 1
           /\ n = (n \div w) * w + (n % w)
OBVIOUS

(***************************************************************************)
(* The order in which a loop meets the members of a set of numbers.        *)
(***************************************************************************)

\* Ascending enumerates a finite set of numbers, each once, in their order.
LEMMA AscendingFacts ==
    ASSUME NEW N \in SUBSET Nat, IsFiniteSet(N)
    PROVE  /\ Cardinality(N) \in Nat
           /\ Ascending(N) \in [1 .. Cardinality(N) -> N]
           /\ \A n, m \in 1 .. Cardinality(N) :
                 Ascending(N)[n] <= Ascending(N)[m] => n <= m
           /\ \A i \in N : \E n \in 1 .. Cardinality(N) : Ascending(N)[n] = i
<1> DEFINE Below(i) == {j \in N : j < i}
           C == Cardinality(N)
           rank == [i \in N |-> Cardinality(Below(i)) + 1]
<1>1. C \in Nat
  BY FS_CardinalityType
<1>2. ASSUME NEW i \in N
      PROVE  /\ IsFiniteSet(Below(i)) /\ Cardinality(Below(i)) \in Nat
             /\ Cardinality(Below(i)) < C
  <2>1. Below(i) \in SUBSET N /\ i \notin Below(i)
    OBVIOUS
  <2>2. IsFiniteSet(Below(i)) /\ Cardinality(Below(i)) <= C
    BY <2>1, FS_Subset
  <2>3. Cardinality(Below(i)) # C
    <3>1. C = Cardinality(Below(i)) => N = Below(i)
      BY <2>1, FS_Subset
    <3> QED BY <2>1, <3>1
  <2>4. Cardinality(Below(i)) \in Nat
    BY <2>2, FS_CardinalityType
  <2> QED BY <1>1, <2>2, <2>3, <2>4
<1>3. ASSUME NEW i \in N, NEW j \in N, i < j
      PROVE  Cardinality(Below(i)) < Cardinality(Below(j))
  <2>0. N \subseteq Nat /\ i \in Nat /\ j \in Nat
    OBVIOUS
  <2>1. Below(i) \in SUBSET Below(j) /\ i \in Below(j) /\ i \notin Below(i)
    <3>1. ASSUME NEW a \in N, a < i PROVE a < j
      <4>1. a \in Nat
        BY <2>0
      <4> QED BY <1>3, <2>0, <3>1, <4>1
    <3>2. ~ (i < i)
      BY <2>0
    <3> QED BY <1>3, <3>1, <3>2
  <2>2. /\ Cardinality(Below(i)) <= Cardinality(Below(j))
        /\ Cardinality(Below(j)) = Cardinality(Below(i)) => Below(j) = Below(i)
    BY <1>2, <2>1, FS_Subset
  <2> QED BY <1>2, <2>1, <2>2
<1>4. rank \in Injection(N, 1 .. C)
  <2>1. \A i \in N : rank[i] = Cardinality(Below(i)) + 1
    OBVIOUS
  <2>2. rank \in [N -> 1 .. C]
    BY <1>1, <1>2, <2>1
  <2>3. \A i, j \in N : rank[i] = rank[j] => i = j
    <3> SUFFICES ASSUME NEW i \in N, NEW j \in N, rank[i] = rank[j], i # j
                 PROVE  FALSE
      OBVIOUS
    <3>1. i \in Nat /\ j \in Nat
      OBVIOUS
    <3>2. i < j \/ j < i
      BY <3>1
    <3>3. Cardinality(Below(i)) = Cardinality(Below(j))
      BY <1>2, <2>1
    <3> QED BY <1>2, <1>3, <3>2, <3>3
  <2> HIDE DEF rank
  <2> QED BY <2>2, <2>3 DEF Injection, IsInjective
<1>5. rank \in Surjection(N, 1 .. C)
  <2>1. IsFiniteSet(1 .. C) /\ Cardinality(1 .. C) = C
    BY <1>1, FS_Interval
  <2> HIDE DEF rank
  <2> QED BY <1>4, <2>1, FS_Injection
<1>6. ASSUME NEW n \in 1 .. C
      PROVE  Ascending(N)[n] \in N /\ Cardinality(Below(Ascending(N)[n])) = n - 1
  <2>1. PICK i \in N : rank[i] = n
    BY <1>5 DEF Surjection
  <2>2. Cardinality(Below(i)) = n - 1
    BY <1>1, <1>2, <2>1
  <2>3. Ascending(N)[n] = CHOOSE j \in N : Cardinality(Below(j)) = n - 1
    BY DEF Ascending
  <2> QED BY <2>2, <2>3
<1>7. Ascending(N) \in [1 .. C -> N]
  <2> DEFINE g(n) == CHOOSE i \in N : Cardinality(Below(i)) = n - 1
  <2>1. Ascending(N) = [n \in 1 .. C |-> g(n)]
    BY DEF Ascending
  <2> HIDE DEF g, C
  <2>2. ASSUME NEW n \in 1 .. C PROVE g(n) \in N
    BY <1>6, <2>1
  <2> QED BY <2>1, <2>2
<1>8. ASSUME NEW n \in 1 .. C, NEW m \in 1 .. C, Ascending(N)[n] <= Ascending(N)[m]
      PROVE  n <= m
  <2> DEFINE x == Ascending(N)[n]
             y == Ascending(N)[m]
  <2>1. x \in N /\ y \in N /\ Cardinality(Below(x)) = n - 1 /\ Cardinality(Below(y)) = m - 1
    BY <1>6
  <2>2. x = y \/ x < y
    <3>1. x \in Nat /\ y \in Nat /\ x <= y
      BY <1>8, <2>1
    <3> HIDE DEF x, y
    <3> QED BY <3>1
  <2> HIDE DEF x, y
  <2> DEFINE p == Cardinality(Below(x))
             q == Cardinality(Below(y))
  <2>3. p \in Nat /\ q \in Nat /\ p = n - 1 /\ q = m - 1 /\ n \in Nat /\ m \in Nat
    BY <1>1, <1>2, <2>1
  <2>4. x = y => p = q
    OBVIOUS
  <2>5. x < y => p < q
    BY <1>3, <2>1
  <2> HIDE DEF p, q
  <2> QED BY <2>2, <2>3, <2>4, <2>5
<1>9. ASSUME NEW i \in N
      PROVE  \E n \in 1 .. C : Ascending(N)[n] = i
  <2> DEFINE n == Cardinality(Below(i)) + 1
             x == Ascending(N)[n]
  <2>1. n \in 1 .. C
    BY <1>1, <1>2
  <2>2. x \in N /\ Cardinality(Below(x)) = n - 1
    BY <1>6, <2>1
  <2>3. Cardinality(Below(x)) = Cardinality(Below(i))
    BY <1>2, <2>2
  <2>4. x \in Nat /\ i \in Nat
    BY <2>2
  <2> DEFINE p == Cardinality(Below(x))
             q == Cardinality(Below(i))
  <2>5. x < i => p < q
    BY <1>3, <2>2
  <2>6. i < x => q < p
    BY <1>3, <2>2
  <2>7. p = q /\ p \in Nat
    BY <1>2, <2>2, <2>3
  <2> HIDE DEF x, p, q
  <2> QED BY <2>1, <2>4, <2>5, <2>6, <2>7 DEF x
<1> QED BY <1>1, <1>7, <1>8, <1>9

(***************************************************************************)
(* The buckets of the index.                                               *)
(***************************************************************************)

\* A bucket is a run of slots of the array.
LEMMA BucketFacts ==
    ASSUME NEW t \in Nat, NEW k \in Nat
    PROVE  /\ Bucket(t, k) \subseteq Slots
           /\ Bucket(t, k) \subseteq Nat
           /\ \E b \in 0 .. BUCKET_COUNT - 1 :
                 Bucket(t, k) = {b * BUCKET_LENGTH + i : i \in 0 .. BUCKET_LENGTH - 1}
<1> DEFINE b == Hash(t, k) % BUCKET_COUNT
<1>1. Hash(t, k) \in Nat
  BY HashAssumption DEF Hash
<1>2. b \in 0 .. BUCKET_COUNT - 1
  BY <1>1, BucketAssumption
<1>3. Bucket(t, k) = {b * BUCKET_LENGTH + i : i \in 0 .. BUCKET_LENGTH - 1}
  BY DEF Bucket
<1> HIDE DEF b
<1>4. ASSUME NEW i \in 0 .. BUCKET_LENGTH - 1
      PROVE  b * BUCKET_LENGTH + i \in Slots /\ b * BUCKET_LENGTH + i \in Nat
  <2>1. /\ b * BUCKET_LENGTH \in Nat /\ BUCKET_COUNT * BUCKET_LENGTH \in Nat
        /\ b * BUCKET_LENGTH + BUCKET_LENGTH <= BUCKET_COUNT * BUCKET_LENGTH
    BY <1>2, BucketAssumption, Spread
  <2> DEFINE x == b * BUCKET_LENGTH
             y == BUCKET_COUNT * BUCKET_LENGTH
  <2>2. x \in Nat /\ y \in Nat /\ x + BUCKET_LENGTH <= y /\ i \in Nat /\ i < BUCKET_LENGTH
        /\ BUCKET_LENGTH \in Nat
    BY <2>1, BucketAssumption
  <2>3. Slots = 0 .. y - 1
    BY DEF Slots
  <2> HIDE DEF x, y
  <2>4. x + i \in Nat /\ x + i \in 0 .. y - 1
    BY <2>2
  <2> QED BY <2>3, <2>4 DEF x
<1> QED BY <1>2, <1>3, <1>4

\* Buckets that share a slot are one bucket.
LEMMA SharedSlot ==
    ASSUME NEW t \in Nat, NEW k \in Nat, NEW u \in Nat, NEW l \in Nat,
           NEW i \in Bucket(t, k), i \in Bucket(u, l)
    PROVE  Bucket(t, k) = Bucket(u, l)
<1>1. PICK b \in 0 .. BUCKET_COUNT - 1 :
         Bucket(t, k) = {b * BUCKET_LENGTH + p : p \in 0 .. BUCKET_LENGTH - 1}
  BY BucketFacts
<1>2. PICK c \in 0 .. BUCKET_COUNT - 1 :
         Bucket(u, l) = {c * BUCKET_LENGTH + p : p \in 0 .. BUCKET_LENGTH - 1}
  BY BucketFacts
<1>3. PICK p \in 0 .. BUCKET_LENGTH - 1 : i = b * BUCKET_LENGTH + p
  BY <1>1
<1>4. PICK q \in 0 .. BUCKET_LENGTH - 1 : i = c * BUCKET_LENGTH + q
  BY <1>2
<1>5. b = c
  BY <1>3, <1>4, BucketAssumption, Unique
<1> QED BY <1>1, <1>2, <1>5

(***************************************************************************)
(* The blocks of the tables.                                               *)
(***************************************************************************)

\* Blocks given out lie below the counter until the first row, and never
\* above it.
BlocksBehind ==
    /\ inserted = {} => \A t \in Ids : host[t].backingBlock < currBlock
    /\ \A t \in Ids : host[t].backingBlock <= currBlock
    /\ \A row \in inserted : row[3] \in Nat /\ row[3] <= currBlock

BlockInv ==
    /\ currId \in Nat /\ currBlock \in Nat
    /\ \A t \in Ids : host[t].backingBlock \in Nat
    /\ DOMAIN host = Ids
    /\ BlocksBehind
    /\ NoSharedBlock

\* Before the first command there is no table.
LEMMA InitBlocks == Init => BlockInv
<1> SUFFICES ASSUME Init PROVE BlockInv
  OBVIOUS
<1>1. currId = 0 /\ currBlock = 0 /\ host = <<>> /\ inserted = {}
  BY DEF Init
<1>2. Ids = {}
  BY <1>1 DEF Ids
<1>3. DOMAIN host = {}
  BY <1>1
<1>4. QED
  BY <1>1, <1>2, <1>3 DEF BlockInv, BlocksBehind, NoSharedBlock

\* A new table before the first row takes the block of the counter.
LEMMA CreateBlocks ==
    ASSUME Scripted, BlockInv, CreateTable
    PROVE  BlockInv'
<1>1. /\ currId' = currId + 1 /\ currBlock' = currBlock + 1
      /\ inserted = {} /\ inserted' = {}
      /\ host' = [t \in 1 .. currId + 1 |-> IF t \in Ids THEN host[t]
                    ELSE [backingBlock |-> currBlock, currRow |-> 0, data |-> Zeroes]]
  BY DEF CreateTable
<1>2. /\ currId \in Nat /\ currBlock \in Nat
      /\ Ids = 1 .. currId /\ Ids' = 1 .. currId + 1
  BY <1>1 DEF BlockInv, Ids
<1>3. ASSUME NEW t \in Ids'
      PROVE  /\ t \in Ids => host'[t] = host[t] /\ host[t].backingBlock < currBlock
                             /\ host[t].backingBlock \in Nat
             /\ t \notin Ids => t = currId + 1 /\ host'[t].backingBlock = currBlock
  BY <1>1, <1>2 DEF BlockInv, BlocksBehind
<1>4. \A t \in Ids' : host'[t].backingBlock \in Nat /\ host'[t].backingBlock < currBlock'
  BY <1>1, <1>2, <1>3
<1>5. \A t1, t2 \in Ids' : t1 # t2 => host'[t1].backingBlock # host'[t2].backingBlock
  <2> SUFFICES ASSUME NEW t1 \in Ids', NEW t2 \in Ids', t1 # t2
               PROVE  host'[t1].backingBlock # host'[t2].backingBlock
    OBVIOUS
  <2>1. CASE t1 \in Ids /\ t2 \in Ids
    BY <2>1, <1>3 DEF BlockInv, NoSharedBlock
  <2>2. CASE t1 \notin Ids \/ t2 \notin Ids
    BY <2>2, <1>2, <1>3
  <2>3. QED
    BY <2>1, <2>2
<1>6. DOMAIN host' = Ids'
  BY <1>1, <1>2
<1>7. QED
  BY <1>1, <1>2, <1>4, <1>5, <1>6 DEF BlockInv, BlocksBehind, NoSharedBlock

\* A row keeps the block of its table; a full page moves the table to a block
\* that nobody has had.
LEMMA InsertBlocks ==
    ASSUME BlockInv, NEW t \in Ids, NEW k \in Keys, InsertRow(t, k)
    PROVE  BlockInv'
<1> DEFINE full == AfterRow(t).full
           block == host[t].backingBlock
<1>1. CASE BucketFull(t, k)
  <2>1. UNCHANGED <<currId, currBlock, host, inserted>>
    BY <1>1 DEF InsertRow
  <2>2. Ids' = Ids
    BY <2>1 DEF Ids
  <2>3. QED
    BY <2>1, <2>2 DEF BlockInv, BlocksBehind, NoSharedBlock
<1>2. CASE ~ BucketFull(t, k)
  <2>1. /\ currId' = currId
        /\ host' = [host EXCEPT ![t] = [backingBlock |-> IF full THEN NewBlock(t) ELSE block,
                                        currRow |-> AfterRow(t).row,
                                        data |-> WithRow(t, k)]]
        /\ currBlock' = IF full THEN currBlock + 1 ELSE currBlock
        /\ inserted' = inserted \cup {<<t, k, block>>}
    BY <1>2 DEF InsertRow
  <2> HIDE DEF full
  <2>2. Ids' = Ids
    BY <2>1 DEF Ids
  <2>3. /\ currId \in Nat /\ currBlock \in Nat /\ DOMAIN host = Ids
        /\ block \in Nat /\ block <= currBlock
    BY DEF BlockInv, BlocksBehind
  <2>4. currBlock' \in Nat /\ currBlock <= currBlock'
    BY <2>1, <2>3
  <2>5. host'[t].backingBlock = IF full THEN currBlock + 1 ELSE block
    BY <2>1, <2>3 DEF NewBlock
  <2>6. \A u \in Ids : u # t => host'[u] = host[u]
    BY <2>1, <2>3
  <2>7. \A u \in Ids : host'[u].backingBlock \in Nat /\ host'[u].backingBlock <= currBlock'
    BY <2>1, <2>3, <2>4, <2>5, <2>6 DEF BlockInv, BlocksBehind
  <2>8. <<t, k, block>>[1] = t /\ <<t, k, block>>[3] = block
    OBVIOUS
  <2> HIDE DEF block
  <2>9. \A row \in inserted' : row[3] \in Nat /\ row[3] <= currBlock
    BY <2>1, <2>3, <2>8 DEF BlockInv, BlocksBehind
  <2>10. \A row \in inserted' : row[3] <= currBlock'
    BY <2>9, <2>4, <2>3
  <2>11. \A u1, u2 \in Ids : u1 # u2 => host'[u1].backingBlock # host'[u2].backingBlock
    <3> SUFFICES ASSUME NEW u1 \in Ids, NEW u2 \in Ids, u1 # u2
                 PROVE  host'[u1].backingBlock # host'[u2].backingBlock
      OBVIOUS
    <3>1. host[u1].backingBlock # host[u2].backingBlock
      BY DEF BlockInv, NoSharedBlock
    <3>2. /\ host[u1].backingBlock \in Nat /\ host[u1].backingBlock <= currBlock
          /\ host[u2].backingBlock \in Nat /\ host[u2].backingBlock <= currBlock
      BY DEF BlockInv, BlocksBehind
    <3>3. QED
      BY <3>1, <3>2, <2>3, <2>5, <2>6 DEF block
  <2>12. ASSUME NEW row \in inserted', NEW u \in Ids, host'[u].backingBlock = row[3]
         PROVE  row[1] = u
    <3>1. CASE row = <<t, k, block>>
      <4>1. row[1] = t /\ row[3] = block
        BY <3>1, <2>8
      <4>2. CASE u = t
        BY <4>1, <4>2
      <4>3. CASE u # t
        <5>1. host[u].backingBlock = block
          BY <4>1, <4>3, <2>6, <2>12
        <5>2. QED
          BY <5>1, <4>3 DEF BlockInv, NoSharedBlock, block
      <4>4. QED
        BY <4>2, <4>3
    <3>2. CASE row \in inserted
      <4>1. row[3] \in Nat /\ row[3] <= currBlock
        BY <3>2 DEF BlockInv, BlocksBehind
      <4>2. host'[u].backingBlock = host[u].backingBlock
        BY <4>1, <2>3, <2>5, <2>6, <2>12 DEF block
      <4>3. QED
        BY <4>2, <3>2, <2>12 DEF BlockInv, NoSharedBlock
    <3>3. QED
      BY <3>1, <3>2, <2>1
  <2>13. DOMAIN host' = Ids
    BY <2>1, <2>3
  <2>14. inserted' # {}
    BY <2>1
  <2>15. QED
    BY <2>1, <2>2, <2>3, <2>4, <2>7, <2>9, <2>10, <2>11, <2>12, <2>13, <2>14
       DEF BlockInv, BlocksBehind, NoSharedBlock
<1>3. QED
  BY <1>1, <1>2

\* A sector that is loaded changes the page of a table and nothing else.
LEMMA LoadFacts ==
    ASSUME DOMAIN host = Ids, NEW t \in Ids, NEW load \in Loads, LoadTablePage(t, load[2])
    PROVE  /\ loaded' /\ join' = NoJoin
           /\ UNCHANGED <<currId, currBlock, rowWidth, indexMap, disk, inserted, halted>>
           /\ DOMAIN host' = Ids
           /\ \A u \in Ids : /\ host'[u].backingBlock = host[u].backingBlock
                             /\ host'[u].currRow = host[u].currRow
                             /\ u # t => host'[u] = host[u]
           /\ \E b \in DOMAIN disk, sector \in 0 .. SECTOR_NUM_PER_PAGE - 1 :
                 host'[t].data = SectorOver(host[t].data, disk[b], sector)
<1> DEFINE b == load[2] \div SECTOR_NUM_PER_PAGE
           sector == load[2] % SECTOR_NUM_PER_PAGE
           page == SectorOver(host[t].data, disk[b], sector)
<1>1. /\ loaded' = TRUE /\ join' = NoJoin /\ b \in DOMAIN disk
      /\ UNCHANGED <<currId, currBlock, rowWidth, indexMap, disk, inserted, halted>>
      /\ host' = [host EXCEPT ![t].data = page]
  BY DEF LoadTablePage, Forget
<1>2. sector \in 0 .. SECTOR_NUM_PER_PAGE - 1
  BY WidthAssumption, Division
<1> HIDE DEF b, sector
<1>3. host'[t].data = SectorOver(host[t].data, disk[b], sector)
  <2> HIDE DEF page
  <2>1. host'[t].data = page
    BY <1>1
  <2> QED BY <2>1 DEF page
<1> HIDE DEF page
<1>4. \A u \in Ids : /\ host'[u].backingBlock = host[u].backingBlock
                     /\ host'[u].currRow = host[u].currRow
                     /\ u # t => host'[u] = host[u]
  BY <1>1
<1>5. DOMAIN host' = Ids
  BY <1>1
<1> QED BY <1>1, <1>2, <1>3, <1>4, <1>5

\* A loaded sector replaces words a table holds, not the table's block.
LEMMA LoadBlocks ==
    ASSUME BlockInv, NEW t \in Ids, NEW load \in Loads, LoadTablePage(t, load[2])
    PROVE  BlockInv'
<1>1. /\ DOMAIN host' = Ids /\ UNCHANGED <<currId, currBlock, inserted>>
      /\ \A u \in Ids : host'[u].backingBlock = host[u].backingBlock
  BY LoadFacts DEF BlockInv
<1>2. Ids' = Ids
  BY <1>1 DEF Ids
<1> QED BY <1>1, <1>2 DEF BlockInv, BlocksBehind, NoSharedBlock

\* Every step keeps the invariant when tables come first.
LEMMA StepBlocks == Scripted /\ BlockInv /\ [Next]_tvars => BlockInv'
<1> SUFFICES ASSUME Scripted, BlockInv, [Next]_tvars
             PROVE  BlockInv'
  OBVIOUS
<1>1. CASE CreateTable
  BY <1>1, CreateBlocks
<1>2. ASSUME NEW t \in Ids, NEW k \in Keys, InsertRow(t, k)
      PROVE  BlockInv'
  BY <1>2, InsertBlocks
<1>3. ASSUME NEW t \in Ids, NEW load \in Loads, LoadTablePage(t, load[2])
      PROVE  BlockInv'
  BY <1>3, LoadBlocks
<1>4. ASSUME UNCHANGED <<currId, currBlock, host, inserted>>
      PROVE  BlockInv'
  BY <1>4 DEF BlockInv, BlocksBehind, NoSharedBlock, Ids
<1>5. ASSUME NEW t1 \in Ids, NEW t2 \in Ids, StartJoin(t1, t2)
      PROVE  BlockInv'
  BY <1>5, <1>4 DEF StartJoin
<1>6. CASE FetchJoinPage
  BY <1>6, <1>4 DEF FetchJoinPage
<1>7. CASE UNCHANGED tvars
  BY <1>7, <1>4 DEF tvars
<1>8. QED
  BY <1>1, <1>2, <1>3, <1>5, <1>6, <1>7 DEF Next

(***************************************************************************)
(* What the index says.                                                    *)
(***************************************************************************)
Blocks == 0 .. MaxBlocks
Entries == [table : Nat, key : Nat, slb : Blocks \cup {INVALID_HASHMAP_LPN}]

RowsTyped ==
    /\ currId \in 0 .. MaxTables
    /\ inserted \subseteq Ids \X Keys \X Blocks

\* Each entry in use stands for an inserted row and lies in its bucket; the
\* others have key 0.
EntriesAreRows ==
    /\ indexMap \in [Slots -> Entries]
    /\ \A i \in Slots :
          IF Used(i)
          THEN /\ <<indexMap[i].table, indexMap[i].key, indexMap[i].slb>> \in inserted
               /\ i \in Bucket(indexMap[i].table, indexMap[i].key)
          ELSE indexMap[i].key = 0

\* Each row has an entry with its key in its bucket, its own or, when it was
\* not indexed, another table's.
RowsHaveEntries ==
    \A row \in inserted : \E i \in Bucket(row[1], row[2]) : indexMap[i].key = row[2]

\* Buckets fill up from their first slot.
FilledInOrder ==
    \A t \in Nat, k \in Nat : \A i, j \in Bucket(t, k) : i < j /\ Used(j) => Used(i)

\* A bucket has a key once.
KeysOnce ==
    \A t \in Nat, k \in Nat : \A i, j \in Bucket(t, k) :
        Used(i) /\ Used(j) /\ indexMap[i].key = indexMap[j].key => i = j

IndexInv == RowsTyped /\ EntriesAreRows /\ RowsHaveEntries /\ FilledInOrder /\ KeysOnce

\* The keys that have a chance to be indexed: entries have room for them, and
\* they are not the key of a free entry.
KeysFit == Keys \subseteq 1 .. KEY_RANGE - 1

\* The parts of a row.
LEMMA RowParts ==
    ASSUME RowsTyped, KeysFit, NEW row \in inserted
    PROVE  /\ row[1] \in Ids /\ row[2] \in Keys /\ row[3] \in Blocks
           /\ row = <<row[1], row[2], row[3]>>
           /\ row[1] \in Nat /\ row[2] \in Nat /\ row[2] # 0
<1>1. row \in Ids \X Keys \X Blocks
  BY DEF RowsTyped
<1>2. /\ row[1] \in Ids /\ row[2] \in Keys /\ row[3] \in Blocks
      /\ row = <<row[1], row[2], row[3]>>
  BY <1>1
<1>3. row[1] \in Nat
  BY <1>2 DEF Ids, RowsTyped
<1>4. row[2] \in Nat /\ row[2] # 0
  BY <1>2, HashAssumption DEF KeysFit
<1> QED BY <1>2, <1>3, <1>4

\* Initially no entry is in use.
LEMMA InitIndex == Init => IndexInv
<1> SUFFICES ASSUME Init PROVE IndexInv
  OBVIOUS
<1>1. /\ currId = 0 /\ inserted = {}
      /\ indexMap = [i \in Slots |-> [table |-> 0, key |-> 0, slb |-> INVALID_HASHMAP_LPN]]
  BY DEF Init, InitIndexMap
<1>2. RowsTyped
  BY <1>1, WidthAssumption DEF RowsTyped
<1>3. \A i \in Slots : ~ Used(i) /\ indexMap[i].key = 0
  BY <1>1 DEF Used
<1>4. indexMap \in [Slots -> Entries]
  BY <1>1 DEF Entries
<1>5. \A t \in Nat, k \in Nat : \A i \in Bucket(t, k) : ~ Used(i)
  BY <1>3, BucketFacts
<1> QED BY <1>1, <1>2, <1>3, <1>4, <1>5
        DEF IndexInv, EntriesAreRows, RowsHaveEntries, FilledInOrder, KeysOnce

\* Where the search of insertHashMap stops.
LEMMA StopFacts ==
    ASSUME IndexInv, NEW t \in Nat, NEW k \in Nat, ~ BucketFull(t, k)
    PROVE  LET i == Min(Stops(t, k))
           IN  /\ i \in Bucket(t, k) /\ i \in Slots
               /\ indexMap[i].key = k \/ ~ Used(i)
               /\ \A j \in Bucket(t, k) : j < i => Used(j) /\ indexMap[j].key # k
               /\ i \in Nat
<1> DEFINE i == Min(Stops(t, k))
<1>1. Stops(t, k) \in SUBSET Nat /\ Stops(t, k) \subseteq Bucket(t, k) /\ Stops(t, k) # {}
  BY BucketFacts DEF Stops, BucketFull
<1>2. i \in Stops(t, k) /\ \A j \in Stops(t, k) : i <= j
  BY <1>1, MinFacts
<1> HIDE DEF i
<1>3. i \in Bucket(t, k) /\ i \in Slots /\ i \in Nat /\ (indexMap[i].key = k \/ ~ Used(i))
  BY <1>1, <1>2, BucketFacts DEF Stops
<1>4. ASSUME NEW j \in Bucket(t, k), j < i PROVE Used(j) /\ indexMap[j].key # k
  <2>1. j \in Nat
    BY BucketFacts
  <2>2. j \notin Stops(t, k)
    BY <1>2, <1>3, <1>4, <2>1
  <2> QED BY <2>2 DEF Stops
<1> QED BY <1>3, <1>4 DEF i

\* The array after a row was indexed, with the entry that its key has now.
LEMMA NewMapFacts ==
    ASSUME IndexInv, KeysFit, NEW t \in Ids, NEW k \in Keys, NEW slb \in Blocks,
           ~ BucketFull(t, k)
    PROVE  \E i \in Bucket(t, k) :
              /\ i \in Slots /\ i \in Nat
              /\ \/ NewMap(t, k, slb) = indexMap /\ indexMap[i].key = k
                 \/ /\ NewMap(t, k, slb)
                          = [indexMap EXCEPT ![i] = [table |-> t, key |-> k, slb |-> slb]]
                    /\ ~ Used(i)
                    /\ \A j \in Bucket(t, k) : j < i => Used(j) /\ indexMap[j].key # k
<1> DEFINE i == Min(Stops(t, k))
<1>1. t \in Nat /\ k \in Nat /\ k \in 0 .. KEY_RANGE - 1
  BY HashAssumption DEF KeysFit, Ids, IndexInv, RowsTyped
<1>2. k % KEY_RANGE = k
  BY <1>1, HashAssumption
<1>3. /\ i \in Bucket(t, k) /\ i \in Slots /\ i \in Nat
      /\ indexMap[i].key = k \/ ~ Used(i)
      /\ \A j \in Bucket(t, k) : j < i => Used(j) /\ indexMap[j].key # k
  BY <1>1, StopFacts
<1>4. NewMap(t, k, slb) = IF indexMap[i].key = k THEN indexMap
                          ELSE [indexMap EXCEPT ![i] = [table |-> t, key |-> k, slb |-> slb]]
  BY <1>2 DEF NewMap
<1> HIDE DEF i
<1> QED BY <1>3, <1>4

\* Indexing a row keeps what the index says.
LEMMA InsertIndex ==
    ASSUME IndexInv, KeysFit, NEW t \in Ids, NEW k \in Keys, NEW slb \in Blocks,
           ~ BucketFull(t, k), indexMap' = NewMap(t, k, slb),
           inserted' = inserted \cup {<<t, k, slb>>}, currId' = currId
    PROVE  IndexInv'
<1>1. t \in Nat /\ k \in Nat /\ k # 0
  BY DEF KeysFit, Ids, IndexInv, RowsTyped
<1>2. RowsTyped' /\ <<t, k, slb>>[1] = t /\ <<t, k, slb>>[2] = k
  BY DEF IndexInv, RowsTyped, Ids
<1>3. PICK i \in Bucket(t, k) :
              /\ i \in Slots /\ i \in Nat
              /\ \/ NewMap(t, k, slb) = indexMap /\ indexMap[i].key = k
                 \/ /\ NewMap(t, k, slb)
                          = [indexMap EXCEPT ![i] = [table |-> t, key |-> k, slb |-> slb]]
                    /\ ~ Used(i)
                    /\ \A j \in Bucket(t, k) : j < i => Used(j) /\ indexMap[j].key # k
  BY NewMapFacts
<1>4. CASE NewMap(t, k, slb) = indexMap /\ indexMap[i].key = k
  <2>1. indexMap' = indexMap
    BY <1>4
  <2>2. \A j : Used(j)' <=> Used(j)
    BY <2>1 DEF Used
  <2>3. EntriesAreRows'
    BY <2>1, <2>2 DEF IndexInv, EntriesAreRows
  <2>4. RowsHaveEntries'
    BY <1>2, <1>4, <2>1 DEF IndexInv, RowsHaveEntries
  <2>5. FilledInOrder' /\ KeysOnce'
    BY <2>1, <2>2 DEF IndexInv, FilledInOrder, KeysOnce
  <2> QED BY <1>2, <2>3, <2>4, <2>5 DEF IndexInv
<1>5. CASE /\ NewMap(t, k, slb) = [indexMap EXCEPT ![i] = [table |-> t, key |-> k, slb |-> slb]]
           /\ ~ Used(i)
           /\ \A j \in Bucket(t, k) : j < i => Used(j) /\ indexMap[j].key # k
  <2> DEFINE e == [table |-> t, key |-> k, slb |-> slb]
  <2>1. indexMap \in [Slots -> Entries] /\ e \in Entries
    BY <1>1 DEF IndexInv, EntriesAreRows, Entries
  <2>2. /\ indexMap' \in [Slots -> Entries]
        /\ indexMap'[i] = e
        /\ \A j \in Slots : j # i => indexMap'[j] = indexMap[j]
    BY <1>3, <1>5, <2>1
  <2>3. e.table = t /\ e.key = k /\ e.slb = slb /\ slb # INVALID_HASHMAP_LPN
    BY WidthAssumption DEF Blocks
  <2> HIDE DEF e
  <2>4. Used(i)' /\ \A j \in Slots : j # i => (Used(j)' <=> Used(j))
    BY <2>2, <2>3 DEF Used
  <2>5. EntriesAreRows'
    BY <1>3, <2>2, <2>3, <2>4 DEF IndexInv, EntriesAreRows
  <2>6. RowsHaveEntries'
    <3> SUFFICES ASSUME NEW row \in inserted'
                 PROVE  \E j \in Bucket(row[1], row[2]) : indexMap'[j].key = row[2]
      BY DEF RowsHaveEntries
    <3>1. CASE row = <<t, k, slb>>
      BY <1>2, <2>2, <2>3, <3>1
    <3>2. CASE row \in inserted
      <4>1. row[1] \in Nat /\ row[2] \in Nat /\ row[2] # 0
        BY <3>2, RowParts DEF IndexInv
      <4>2. PICK j \in Bucket(row[1], row[2]) : indexMap[j].key = row[2]
        BY <3>2 DEF IndexInv, RowsHaveEntries
      <4>3. j \in Slots
        BY <4>1, BucketFacts
      <4>4. Used(j)
        BY <4>1, <4>2, <4>3 DEF IndexInv, EntriesAreRows
      <4> QED BY <1>5, <2>2, <4>2, <4>3, <4>4
    <3> QED BY <3>1, <3>2
  <2>7. ASSUME NEW u \in Nat, NEW l \in Nat, NEW a \in Bucket(u, l), NEW b \in Bucket(u, l)
        PROVE  /\ a < b /\ Used(b)' => Used(a)'
               /\ Used(a)' /\ Used(b)' /\ indexMap'[a].key = indexMap'[b].key => a = b
    <3>1. /\ a \in Slots /\ b \in Slots /\ a \in Nat /\ b \in Nat
          /\ a < b /\ Used(b) => Used(a)
          /\ Used(a) /\ Used(b) /\ indexMap[a].key = indexMap[b].key => a = b
      BY BucketFacts DEF IndexInv, FilledInOrder, KeysOnce
    <3>2. CASE a # i /\ b # i
      BY <2>2, <2>4, <3>1, <3>2
    <3>3. CASE a = i \/ b = i
      <4>1. Bucket(u, l) = Bucket(t, k)
        BY <1>1, <1>3, <3>3, SharedSlot
      <4>2. ASSUME NEW j \in Bucket(t, k), j # i
            PROVE  /\ j < i => Used(j) /\ indexMap[j].key # k
                   /\ i < j => ~ Used(j)
        BY <1>1, <1>3, <1>5, <4>2 DEF IndexInv, FilledInOrder
      <4> QED BY <1>3, <2>2, <2>3, <2>4, <3>1, <3>3, <4>1, <4>2
    <3> QED BY <3>2, <3>3
  <2>8. FilledInOrder' /\ KeysOnce'
    BY <2>7 DEF FilledInOrder, KeysOnce
  <2> QED BY <1>2, <2>5, <2>6, <2>8 DEF IndexInv
<1> QED BY <1>3, <1>4, <1>5

\* What getHashMap finds for a row: the entry with its key in its bucket.
LEMMA LookupFacts ==
    ASSUME IndexInv, KeysFit, NEW row \in inserted
    PROVE  \E i \in Bucket(row[1], row[2]) :
              /\ i \in Slots /\ Used(i) /\ indexMap[i].key = row[2]
              /\ getHashMap(row[1], row[2]) = indexMap[i].slb
              /\ \A j \in Bucket(row[1], row[2]) : indexMap[j].key = row[2] => j = i
<1> DEFINE hits == {i \in Bucket(row[1], row[2]) : indexMap[i].key = row[2]}
           i == Min(hits)
<1>1. row[1] \in Nat /\ row[2] \in Nat /\ row[2] # 0
  BY RowParts DEF IndexInv
<1>2. hits \in SUBSET Nat /\ hits # {}
  BY <1>1, BucketFacts DEF IndexInv, RowsHaveEntries
<1>3. i \in hits
  BY <1>2, MinFacts
<1>4. getHashMap(row[1], row[2]) = indexMap[i].slb
  BY <1>2 DEF getHashMap
<1>5. ASSUME NEW j \in hits PROVE j \in Slots /\ Used(j)
  BY <1>1, <1>5, BucketFacts DEF IndexInv, EntriesAreRows
<1> HIDE DEF i
<1>6. \A j \in hits : j = i
  BY <1>1, <1>3, <1>5 DEF IndexInv, KeysOnce
<1> QED BY <1>3, <1>4, <1>5, <1>6

(***************************************************************************)
(* What the pages hold, as long as no sector was loaded.                   *)
(***************************************************************************)

\* the places for rows on a page of table t
Places(t) == 0 .. (PAGE_WORDS \div RowWidth[t]) - 1

HoldsRow(page, t, r, k) ==
    \A c \in 0 .. RowWidth[t] - 1 : page[r * RowWidth[t] + c] = Word(t, k, c)

EmptyPlace(page, t, r) ==
    \A c \in 0 .. RowWidth[t] - 1 : page[r * RowWidth[t] + c] = NoWord

\* each place is empty or holds a row of table t
PageOf(page, t) ==
    \A r \in Places(t) : EmptyPlace(page, t, r) \/ \E k \in Keys : HoldsRow(page, t, r, k)

\* Pages hold rows of their own table.  Each row is on the page it was written
\* to; if that is the page the table is at, it is before the next place, and
\* the host has the page as it is on the disk.
Filled ==
    /\ \A t \in Ids : PageOf(host[t].data, t) /\ host[t].currRow \in Places(t)
    /\ \A row \in inserted :
          /\ PageOf(disk[row[3]], row[1])
          /\ row[3] \in DOMAIN disk
          /\ \E r \in Places(row[1]) :
                /\ HoldsRow(disk[row[3]], row[1], r, row[2])
                /\ row[3] = host[row[1]].backingBlock
                      => r < host[row[1]].currRow /\ disk[row[3]] = host[row[1]].data

\* A place for a row lies in the page.
LEMMA PlaceFacts ==
    ASSUME NEW t \in 1 .. MaxTables
    PROVE  /\ RowWidth[t] \in Nat \ {0}
           /\ 0 \in Places(t) /\ Places(t) \subseteq Nat
           /\ \A r \in Places(t), c \in 0 .. RowWidth[t] - 1 : r * RowWidth[t] + c \in Words
<1> DEFINE w == RowWidth[t]
           n == PAGE_WORDS \div w
<1>1. w \in 1 .. PAGE_WORDS /\ PAGE_WORDS \in Nat \ {0}
  BY WidthAssumption
<1> HIDE DEF w
<1>2. n \in Nat /\ n * w \in Nat /\ n * w <= PAGE_WORDS /\ PAGE_WORDS < n * w + w
  <2> DEFINE m == PAGE_WORDS % w
  <2>0. w \in Nat \ {0} /\ PAGE_WORDS \in Nat
    BY <1>1
  <2>1. n \in Nat /\ m \in 0 .. w - 1 /\ PAGE_WORDS = n * w + m
    BY <2>0, Division, Zenon
  <2>2. n * w \in Nat
    BY <1>1, <2>1
  <2> DEFINE a == n * w
  <2>3. a \in Nat /\ PAGE_WORDS = a + m /\ m \in 0 .. w - 1 /\ w \in Nat
    BY <1>1, <2>1, <2>2
  <2> HIDE DEF m, n, a
  <2>4. a <= PAGE_WORDS /\ PAGE_WORDS < a + w
    BY <2>3
  <2> QED BY <2>1, <2>2, <2>4 DEF a, n
<1> HIDE DEF n
<1>3. n # 0
  BY <1>1, <1>2
<1>4. ASSUME NEW r \in 0 .. n - 1, NEW c \in 0 .. w - 1
      PROVE  r * w + c \in Words
  <2>1. r * w \in Nat /\ r * w + w <= n * w
    BY <1>1, <1>2, <1>4, Spread
  <2> DEFINE a == r * w
             b == n * w
  <2>2. a \in Nat /\ b \in Nat /\ a + w <= b /\ b <= PAGE_WORDS
    BY <1>2, <2>1
  <2> HIDE DEF a, b
  <2>3. a + c \in 0 .. PAGE_WORDS - 1
    BY <1>1, <1>4, <2>2
  <2> QED BY <2>3 DEF Words, a
<1>5. 0 \in 0 .. n - 1 /\ 0 .. n - 1 \subseteq Nat
  BY <1>2, <1>3
<1> QED BY <1>1, <1>4, <1>5 DEF Places, w, n

\* A row is written into the next place and leaves the other places alone.
LEMMA WithRowFacts ==
    ASSUME NEW t \in 1 .. MaxTables, NEW k, host[t].currRow \in Places(t)
    PROVE  /\ HoldsRow(WithRow(t, k), t, host[t].currRow, k)
           /\ \A r \in Places(t), c \in 0 .. RowWidth[t] - 1 :
                 r # host[t].currRow
                 => WithRow(t, k)[r * RowWidth[t] + c] = host[t].data[r * RowWidth[t] + c]
<1> DEFINE w == RowWidth[t]
           n == host[t].currRow
           start == w * n
<1>1. w \in Nat \ {0} /\ n \in Nat
  BY PlaceFacts
<1>2. start = n * w /\ start \in Nat
  BY <1>1
<1>3. ASSUME NEW r \in Places(t), NEW c \in 0 .. w - 1
      PROVE  WithRow(t, k)[r * w + c]
                = IF r * w + c \in start .. start + w - 1
                  THEN Word(t, k, (r * w + c) - start) ELSE host[t].data[r * w + c]
  <2>1. r * w + c \in Words
    BY PlaceFacts
  <2> QED BY <2>1 DEF WithRow
<1> HIDE DEF w, n
<1>4. ASSUME NEW c \in 0 .. w - 1 PROVE WithRow(t, k)[n * w + c] = Word(t, k, c)
  <2> HIDE DEF start
  <2>1. n * w + c \in start .. start + w - 1 /\ (n * w + c) - start = c
    BY <1>1, <1>2
  <2> QED BY <1>3, <2>1 DEF n
<1>5. ASSUME NEW r \in Places(t), NEW c \in 0 .. w - 1, r # n
      PROVE  r * w + c \notin start .. start + w - 1
  <2>1. r \in Nat
    BY PlaceFacts
  <2>2. r < n => r * w \in Nat /\ r * w + w <= n * w
    BY <1>1, <2>1, Spread
  <2>3. n < r => r * w \in Nat /\ n * w + w <= r * w
    BY <1>1, <2>1, Spread
  <2> DEFINE a == r * w
  <2> HIDE DEF start
  <2>4. r < n => a \in Nat /\ a + w <= start
    BY <1>2, <2>2
  <2>5. n < r => a \in Nat /\ start + w <= a
    BY <1>2, <2>3
  <2> HIDE DEF a
  <2>6. a + c \notin start .. start + w - 1
    BY <1>1, <1>2, <1>5, <2>1, <2>4, <2>5
  <2> QED BY <2>6 DEF a
<1> QED BY <1>3, <1>4, <1>5 DEF HoldsRow, w, n

\* A row on a page of its table is found, perhaps at an earlier place that
\* holds the same row.
LEMMA FindRowFacts ==
    ASSUME KeysFit, NEW t \in 1 .. MaxTables, NEW k \in Keys, NEW page, PageOf(page, t),
           NEW r \in Places(t), HoldsRow(page, t, r, k)
    PROVE  \E m \in Places(t) : /\ FindRow(RowWidth[t], page, k) = m * RowWidth[t]
                                /\ FindRow(RowWidth[t], page, k) # -1
                                /\ HoldsRow(page, t, m, k)
<1> DEFINE w == RowWidth[t]
           rows == {n \in 0 .. (PAGE_WORDS \div w) - 1 :
                       page[n * w].col = 0 /\ page[n * w].key = k}
           m == Min(rows)
<1>1. w \in Nat \ {0} /\ 0 \in 0 .. w - 1 /\ Places(t) \subseteq Nat /\ k \in Nat /\ k # 0
  BY PlaceFacts, HashAssumption DEF KeysFit
<1>2. \A n \in Places(t) : n * w + 0 = n * w /\ n * w \in Nat
  BY <1>1
<1>3. r \in rows
  <2>1. page[r * w + 0] = Word(t, k, 0)
    BY <1>1 DEF HoldsRow
  <2> QED BY <1>2, <2>1 DEF Places, Word
<1>4. rows \in SUBSET Nat
  BY <1>1 DEF Places
<1>5. m \in rows
  BY <1>3, <1>4, MinFacts
<1>6. FindRow(w, page, k) = m * w
  BY <1>3 DEF FindRow
<1>7. m \in Places(t)
  BY <1>5 DEF Places
<1> HIDE DEF m
<1>8. m * w # -1
  BY <1>2, <1>7
<1>9. HoldsRow(page, t, m, k)
  <2>1. ~ EmptyPlace(page, t, m)
    <3>1. EmptyPlace(page, t, m) => page[m * w + 0] = NoWord
      BY <1>1 DEF EmptyPlace
    <3> QED BY <1>1, <1>2, <1>5, <1>7, <3>1 DEF NoWord
  <2>2. PICK l \in Keys : HoldsRow(page, t, m, l)
    BY <1>7, <2>1 DEF PageOf
  <2>3. page[m * w + 0] = Word(t, l, 0)
    BY <1>1, <2>2 DEF HoldsRow
  <2>4. page[m * w + 0].key = l
    BY <2>3 DEF Word
  <2>5. l = k
    BY <1>2, <1>5, <1>7, <2>4
  <2> QED BY <2>2, <2>5
<1> QED BY <1>6, <1>7, <1>8, <1>9

TableInv ==
    /\ BlockInv /\ currBlock \in Blocks
    /\ IndexInv
    /\ ~ loaded => Filled

\* Initially there are no tables, rows or pages.
LEMMA InitTables == Init => TableInv
<1> SUFFICES ASSUME Init PROVE TableInv
  OBVIOUS
<1>1. BlockInv /\ IndexInv
  BY InitBlocks, InitIndex
<1>2. currId = 0 /\ currBlock = 0 /\ inserted = {}
  BY DEF Init
<1>3. Ids = {}
  BY <1>2 DEF Ids
<1>4. currBlock \in Blocks
  BY <1>2, WidthAssumption DEF Blocks
<1> QED BY <1>1, <1>2, <1>3, <1>4 DEF TableInv, Filled

\* A table starts with an empty page.
LEMMA CreateKeeps == ASSUME Scripted, TableInv, CreateTable PROVE TableInv'
<1>1. /\ currId < MaxTables /\ currBlock < MaxBlocks
      /\ currId' = currId + 1 /\ currBlock' = currBlock + 1
      /\ inserted = {} /\ inserted' = {}
      /\ host' = [t \in 1 .. currId + 1 |-> IF t \in Ids THEN host[t]
                    ELSE [backingBlock |-> currBlock, currRow |-> 0, data |-> Zeroes]]
      /\ UNCHANGED <<indexMap, disk, loaded>>
  BY DEF CreateTable
<1>2. currId \in Nat /\ currId <= MaxTables /\ currBlock \in Nat /\ Ids' = 1 .. currId + 1
  BY <1>1 DEF TableInv, BlockInv, IndexInv, RowsTyped, Ids
<1>3. BlockInv'
  BY CreateBlocks DEF TableInv
<1>4. currBlock' \in Blocks
  BY <1>1, <1>2, WidthAssumption DEF Blocks
<1>5. IndexInv'
  <2>1. RowsTyped'
    BY <1>1, <1>2, WidthAssumption DEF RowsTyped
  <2>2. \A i : Used(i)' <=> Used(i)
    BY <1>1 DEF Used
  <2> QED BY <1>1, <2>1, <2>2
          DEF TableInv, IndexInv, EntriesAreRows, RowsHaveEntries, FilledInOrder, KeysOnce
<1>6. ASSUME ~ loaded PROVE Filled'
  <2> SUFFICES ASSUME NEW t \in Ids'
               PROVE  PageOf(host'[t].data, t) /\ host'[t].currRow \in Places(t)
    BY <1>1 DEF Filled
  <2>1. CASE t \in Ids
    BY <1>1, <1>2, <1>6, <2>1 DEF TableInv, Filled
  <2>2. CASE t \notin Ids
    <3>1. host'[t] = [backingBlock |-> currBlock, currRow |-> 0, data |-> Zeroes]
      BY <1>1, <1>2, <2>2
    <3>2. t \in 1 .. MaxTables
      BY <1>1, <1>2, WidthAssumption
    <3>3. PageOf(Zeroes, t)
      BY <3>2, PlaceFacts DEF PageOf, EmptyPlace, Zeroes
    <3> QED BY <3>1, <3>2, <3>3, PlaceFacts
  <2> QED BY <2>1, <2>2
<1> QED BY <1>1, <1>3, <1>4, <1>5, <1>6 DEF TableInv

\* A row goes to the next place of its table's page.
LEMMA InsertFills ==
    ASSUME TableInv, KeysFit, ~ loaded,
           NEW t \in Ids, NEW k \in Keys, InsertRow(t, k), ~ BucketFull(t, k)
    PROVE  Filled'
<1> DEFINE block == host[t].backingBlock
           n == host[t].currRow
           full == AfterRow(t).full
           page == WithRow(t, k)
           new == [backingBlock |-> IF full THEN NewBlock(t) ELSE block,
                   currRow |-> AfterRow(t).row, data |-> page]
<1>1. /\ currId' = currId
      /\ host' = [host EXCEPT ![t] = new]
      /\ disk' = [b \in DOMAIN disk \cup {block} |-> IF b = block THEN page ELSE disk[b]]
      /\ inserted' = inserted \cup {<<t, k, block>>}
  BY DEF InsertRow
<1>2. /\ Ids' = Ids /\ Ids \subseteq 1 .. MaxTables /\ DOMAIN host = Ids
      /\ t \in 1 .. MaxTables
  BY <1>1, WidthAssumption DEF Ids, TableInv, BlockInv, IndexInv, RowsTyped
<1>3. PageOf(host[t].data, t) /\ n \in Places(t) /\ n \in Nat
  BY <1>2, PlaceFacts DEF TableInv, Filled
<1>4. /\ HoldsRow(page, t, n, k)
      /\ \A r \in Places(t), c \in 0 .. RowWidth[t] - 1 :
            r # n => page[r * RowWidth[t] + c] = host[t].data[r * RowWidth[t] + c]
  BY <1>2, <1>3, WithRowFacts
<1>5. PageOf(page, t)
  <2> SUFFICES ASSUME NEW r \in Places(t)
               PROVE  EmptyPlace(page, t, r) \/ \E l \in Keys : HoldsRow(page, t, r, l)
    BY DEF PageOf
  <2>1. CASE r = n
    BY <1>4, <2>1
  <2>2. CASE r # n
    BY <1>3, <1>4, <2>2 DEF PageOf, EmptyPlace, HoldsRow
  <2> QED BY <2>1, <2>2
<1>6. /\ AfterRow(t).row \in Places(t)
      /\ ~ full => AfterRow(t).row = n + 1
  <2>1. 0 \in Places(t)
    BY <1>2, PlaceFacts
  <2> DEFINE m == PAGE_WORDS \div RowWidth[t]
  <2>2. m \in Nat
    BY <1>2, PlaceFacts, WidthAssumption, Division
  <2>3. /\ Places(t) = 0 .. m - 1
        /\ AfterRow(t).row = (IF n + 1 = m THEN 0 ELSE n + 1)
        /\ full <=> (n + 1 = m)
    BY DEF AfterRow, Places
  <2> HIDE DEF m, full, n
  <2> QED BY <1>3, <2>1, <2>2, <2>3
<1>7. /\ block \in Nat /\ block <= currBlock /\ currBlock \in Nat
      /\ full => new.backingBlock = currBlock + 1
      /\ ~ full => new.backingBlock = block
      /\ new.data = page /\ new.currRow = AfterRow(t).row
  BY DEF TableInv, BlockInv, BlocksBehind, NewBlock
<1>8. host'[t] = new /\ \A u \in Ids : u # t => host'[u] = host[u]
  BY <1>1, <1>2
<1>9. /\ block \in DOMAIN disk' /\ disk'[block] = page
      /\ \A b \in DOMAIN disk : b \in DOMAIN disk' /\ (b # block => disk'[b] = disk[b])
  BY <1>1
<1>10. <<t, k, block>>[1] = t /\ <<t, k, block>>[2] = k /\ <<t, k, block>>[3] = block
  OBVIOUS
<1> HIDE DEF block, n, full, page, new
<1>11. ASSUME NEW u \in Ids
       PROVE  PageOf(host'[u].data, u) /\ host'[u].currRow \in Places(u)
  BY <1>5, <1>6, <1>7, <1>8 DEF TableInv, Filled
<1>12. ASSUME NEW row \in inserted'
       PROVE  /\ PageOf(disk'[row[3]], row[1])
              /\ row[3] \in DOMAIN disk'
              /\ \E r \in Places(row[1]) :
                    /\ HoldsRow(disk'[row[3]], row[1], r, row[2])
                    /\ row[3] = host'[row[1]].backingBlock
                          => r < host'[row[1]].currRow /\ disk'[row[3]] = host'[row[1]].data
  <2>1. CASE row = <<t, k, block>>
    <3>1. row[1] = t /\ row[2] = k /\ row[3] = block
      BY <1>10, <2>1
    <3>2. block = host'[t].backingBlock => n < host'[t].currRow /\ page = host'[t].data
      BY <1>3, <1>6, <1>7, <1>8
    <3> QED BY <1>3, <1>4, <1>5, <1>9, <3>1, <3>2
  <2>2. CASE row \in inserted
    <3>1. /\ row[1] \in Ids /\ row[3] \in Nat /\ row[3] <= currBlock
          /\ PageOf(disk[row[3]], row[1]) /\ row[3] \in DOMAIN disk
      BY <2>2, RowParts DEF TableInv, IndexInv, BlockInv, BlocksBehind, Filled
    <3>2. PICK r \in Places(row[1]) :
             /\ HoldsRow(disk[row[3]], row[1], r, row[2])
             /\ row[3] = host[row[1]].backingBlock
                      => r < host[row[1]].currRow /\ disk[row[3]] = host[row[1]].data
      BY <2>2 DEF TableInv, Filled
    <3>3. CASE row[3] # block
      <4>1. disk'[row[3]] = disk[row[3]] /\ row[3] \in DOMAIN disk'
        BY <1>9, <3>1, <3>3
      <4>2. CASE row[1] = t
        <5>1. row[3] # host'[t].backingBlock
          BY <1>7, <1>8, <3>1, <3>3
        <5> QED BY <3>1, <3>2, <4>1, <4>2, <5>1
      <4>3. CASE row[1] # t
        BY <1>8, <3>1, <3>2, <4>1, <4>3
      <4> QED BY <4>2, <4>3
    <3>4. CASE row[3] = block
      <4>1. row[1] = t
        BY <2>2, <3>4 DEF TableInv, BlockInv, NoSharedBlock, block
      <4>2. r < n /\ disk[block] = host[t].data /\ r \in Places(t) /\ r \in Nat
        BY <1>2, <3>2, <3>4, <4>1, PlaceFacts DEF block, n
      <4>3. HoldsRow(page, t, r, row[2])
        BY <1>3, <1>4, <3>2, <3>4, <4>1, <4>2 DEF HoldsRow
      <4>4. block = host'[t].backingBlock => r < host'[t].currRow /\ page = host'[t].data
        BY <1>3, <1>6, <1>7, <1>8, <4>2
      <4> QED BY <1>5, <1>9, <3>4, <4>1, <4>2, <4>3, <4>4
    <3> QED BY <3>3, <3>4
  <2> QED BY <1>1, <2>1, <2>2
<1> QED BY <1>2, <1>11, <1>12 DEF Filled

\* An insert keeps the invariant, whether or not there is room in the bucket.
LEMMA InsertKeeps ==
    ASSUME TableInv, KeysFit, NEW t \in Ids, NEW k \in Keys, InsertRow(t, k)
    PROVE  TableInv'
<1>1. BlockInv'
  BY InsertBlocks DEF TableInv
<1>2. /\ loaded' = loaded /\ currId' = currId
      /\ currBlock \in Blocks /\ currBlock \in Nat /\ Ids' = Ids
  BY DEF InsertRow, TableInv, BlockInv, Ids
<1>3. CASE BucketFull(t, k)
  <2>1. UNCHANGED <<currBlock, host, indexMap, disk, inserted>>
    BY <1>3 DEF InsertRow
  <2>2. \A i : Used(i)' <=> Used(i)
    BY <2>1 DEF Used
  <2>3. IndexInv'
    BY <1>2, <2>1, <2>2
       DEF TableInv, IndexInv, RowsTyped, EntriesAreRows, RowsHaveEntries, FilledInOrder, KeysOnce
  <2>4. ~ loaded' => Filled'
    BY <1>2, <2>1 DEF TableInv, Filled
  <2> QED BY <1>1, <1>2, <2>1, <2>3, <2>4 DEF TableInv
<1>4. CASE ~ BucketFull(t, k)
  <2> DEFINE block == host[t].backingBlock
  <2>1. /\ indexMap' = NewMap(t, k, block) /\ inserted' = inserted \cup {<<t, k, block>>}
        /\ currBlock' = currBlock \/ (currBlock' = currBlock + 1 /\ currBlock < MaxBlocks)
    BY <1>4 DEF InsertRow
  <2>2. block \in Blocks
    BY <1>2, WidthAssumption DEF TableInv, BlockInv, BlocksBehind, Blocks
  <2>3. currBlock' \in Blocks
    BY <1>2, <2>1, WidthAssumption DEF Blocks
  <2> HIDE DEF block
  <2>4. IndexInv'
    BY <1>2, <1>4, <2>1, <2>2, InsertIndex DEF TableInv
  <2>5. ~ loaded' => Filled'
    BY <1>2, <1>4, InsertFills
  <2> QED BY <1>1, <2>3, <2>4, <2>5 DEF TableInv
<1> QED BY <1>3, <1>4

\* Every step keeps the invariant.
LEMMA TablesStep == Scripted /\ KeysFit /\ TableInv /\ [Next]_tvars => TableInv'
<1> SUFFICES ASSUME Scripted, KeysFit, TableInv, [Next]_tvars
             PROVE  TableInv'
  OBVIOUS
<1>1. CASE CreateTable
  BY <1>1, CreateKeeps
<1>2. ASSUME NEW t \in Ids, NEW k \in Keys, InsertRow(t, k)
      PROVE  TableInv'
  BY <1>2, InsertKeeps
<1>3. ASSUME UNCHANGED <<currId, currBlock, indexMap, inserted>>, BlockInv',
             loaded' \/ UNCHANGED <<host, disk, loaded>>
      PROVE  TableInv'
  <2>1. Ids' = Ids /\ \A i : Used(i)' <=> Used(i)
    BY <1>3 DEF Ids, Used
  <2>2. IndexInv'
    BY <1>3, <2>1
       DEF TableInv, IndexInv, RowsTyped, EntriesAreRows, RowsHaveEntries, FilledInOrder, KeysOnce
  <2>3. ~ loaded' => Filled'
    BY <1>3, <2>1 DEF TableInv, Filled
  <2> QED BY <1>3, <2>2, <2>3 DEF TableInv
<1>4. BlockInv'
  BY StepBlocks DEF TableInv
<1>5. ASSUME NEW t \in Ids, NEW load \in Loads, LoadTablePage(t, load[2])
      PROVE  TableInv'
  BY <1>3, <1>4, <1>5 DEF LoadTablePage
<1>6. ASSUME NEW t1 \in Ids, NEW t2 \in Ids, StartJoin(t1, t2)
      PROVE  TableInv'
  BY <1>3, <1>4, <1>6 DEF StartJoin
<1>7. CASE FetchJoinPage
  BY <1>3, <1>4, <1>7 DEF FetchJoinPage
<1>8. CASE UNCHANGED tvars
  BY <1>3, <1>4, <1>8 DEF tvars
<1> QED BY <1>1, <1>2, <1>5, <1>6, <1>7, <1>8 DEF Next

\* The invariant holds in every reachable state when tables come first and
\* keys fit their entries.
THEOREM TablesInvariant ==
    ASSUME Scripted, KeysFit
    PROVE  Spec => []TableInv
<1>1. Init => TableInv
  BY InitTables
<1>2. TableInv /\ [Next]_tvars => TableInv'
  BY TablesStep
<1> QED BY <1>1, <1>2, PTL DEF Spec

\* The key of a row that was inserted is on the page it was written to, unless
\* a loaded sector has been written over it.
LEMMA AllStored ==
    ASSUME KeysFit, TableInv, Intact, NEW row \in inserted
    PROVE  Stored(row)
<1> DEFINE t == row[1]
           k == row[2]
           page == disk[row[3]]
<1>1. CASE loaded
  BY <1>1 DEF Intact
<1>2. CASE ~ loaded
  <2>1. t \in 1 .. MaxTables /\ k \in Keys
    BY RowParts, WidthAssumption DEF TableInv, IndexInv, RowsTyped, Ids
  <2>2. /\ PageOf(page, t)
        /\ \E r \in Places(t) : HoldsRow(page, t, r, k)
    BY <1>2 DEF TableInv, Filled
  <2> HIDE DEF t, k, page
  <2>3. PICK m \in Places(t) : /\ FindRow(RowWidth[t], page, k) = m * RowWidth[t]
                               /\ FindRow(RowWidth[t], page, k) # -1
                               /\ HoldsRow(page, t, m, k)
    BY <2>1, <2>2, FindRowFacts
  <2>4. page[m * RowWidth[t]] = Word(t, k, 0)
    <3>1. RowWidth[t] \in Nat \ {0} /\ m \in Nat
      BY <2>1, PlaceFacts
    <3>2. 0 \in 0 .. RowWidth[t] - 1 /\ m * RowWidth[t] + 0 = m * RowWidth[t]
      BY <3>1
    <3> QED BY <2>3, <3>2 DEF HoldsRow
  <2> QED BY <2>3, <2>4 DEF Stored, t, k, page
<1> QED BY <1>1, <1>2

\* A row whose key no other table holds is found through the index, on the
\* page of its first insertion, whatever else is in its bucket.
LEMMA OwnRowFound ==
    ASSUME KeysFit, TableInv, Intact, NEW row \in inserted, Unshared(row)
    PROVE  Reachable(row)
<1>1. PICK i \in Bucket(row[1], row[2]) :
         /\ i \in Slots /\ Used(i) /\ indexMap[i].key = row[2]
         /\ getHashMap(row[1], row[2]) = indexMap[i].slb
  BY LookupFacts DEF TableInv
<1> DEFINE first == <<indexMap[i].table, indexMap[i].key, indexMap[i].slb>>
           t == row[1]
           k == row[2]
<1>2. /\ first \in inserted
      /\ first[1] = indexMap[i].table /\ first[2] = indexMap[i].key /\ first[3] = indexMap[i].slb
  BY <1>1 DEF TableInv, IndexInv, EntriesAreRows
<1>3. first[1] = t /\ first[2] = k
  BY <1>1, <1>2 DEF Unshared
<1>4. indexMap[i].slb # INVALID_HASHMAP_LPN
  BY <1>1 DEF Used
<1>5. Stored(first)
  BY <1>2, AllStored
<1> QED BY <1>1, <1>2, <1>3, <1>4, <1>5 DEF Reachable, Stored

\* A row whose key no other table holds is found through the index
\* (hashMap.c:26, 51 and join_buffer.c:103).
THEOREM OwnRowsReachableTheorem ==
    ASSUME Scripted, KeysFit
    PROVE  Spec => []OwnRowsReachable
<1>1. TableInv => OwnRowsReachable
  BY OwnRowFound DEF OwnRowsReachable
<1> QED BY <1>1, TablesInvariant, PTL

\* Tables created before the first row never write to the same block
\* (table.cpp:11, 117).
THEOREM NoSharedBlockTheorem ==
    ASSUME Scripted
    PROVE  Spec => []NoSharedBlock
<1>1. Init => BlockInv
  BY InitBlocks
<1>2. BlockInv /\ [Next]_tvars => BlockInv'
  BY StepBlocks
<1>3. BlockInv => NoSharedBlock
  BY DEF BlockInv
<1>4. QED
  BY <1>1, <1>2, <1>3, PTL DEF Spec

(***************************************************************************)
(* Pages and tables that a join relies on.                                 *)
(***************************************************************************)

\* The tables have rows of one width.
SameSchema == \A t, u \in 1 .. MaxTables : RowWidth[t] = RowWidth[u]

Cells == [table : Nat, key : Nat, col : Nat]

Typed(page) == \A a \in Words : page[a] \in Cells

\* Pages hold words, whatever was loaded; tables are at a place for a row, and
\* the pages of the rows inserted have been written.
WordsTyped ==
    /\ \A t \in Ids : Typed(host[t].data) /\ host[t].currRow \in Places(t)
    /\ \A b \in DOMAIN disk : Typed(disk[b])
    /\ \A row \in inserted : row[3] \in DOMAIN disk

\* The device knows the widths of the tables while it runs.
WidthsKept ==
    /\ DOMAIN rowWidth = 0 .. TABLE_COUNT - 1
    /\ ~ halted => \A t \in Ids : rowWidth[t] = RowWidth[t]

JoinTyped ==
    \/ join = NoJoin
    \/ \E t1, t2 \in Ids, r \in BOOLEAN : join = [tables |-> <<t1, t2>>, running |-> r]

SceneInv == WordsTyped /\ WidthsKept /\ JoinTyped

\* Tables are numbered from 1.
LEMMA IdFacts ==
    ASSUME TableInv
    PROVE  currId \in Nat /\ Ids \subseteq 1 .. MaxTables /\ Ids \subseteq Nat /\ DOMAIN host = Ids
BY WidthAssumption DEF Ids, TableInv, BlockInv, IndexInv, RowsTyped

\* Initially there are no pages.
LEMMA InitScene == Init => SceneInv
<1> SUFFICES ASSUME Init PROVE SceneInv
  OBVIOUS
<1>1. /\ currId = 0 /\ disk = << >> /\ inserted = {} /\ join = NoJoin /\ ~ loaded
      /\ rowWidth = [t \in 0 .. TABLE_COUNT - 1 |-> 0]
  BY DEF Init
<1>2. Ids = {} /\ DOMAIN disk = {}
  BY <1>1 DEF Ids
<1> QED BY <1>1, <1>2 DEF SceneInv, WordsTyped, WidthsKept, JoinTyped

\* The page with one more row has words.
LEMMA WithRowTyped ==
    ASSUME KeysFit, NEW t \in 1 .. MaxTables, NEW k \in Keys,
           Typed(host[t].data), host[t].currRow \in Places(t)
    PROVE  Typed(WithRow(t, k))
<1> DEFINE start == RowWidth[t] * host[t].currRow
           w == RowWidth[t]
<1>1. start \in Nat /\ w \in Nat
  <2>1. w \in Nat /\ host[t].currRow \in Nat
    BY PlaceFacts
  <2> QED BY <2>1
<1>2. t \in Nat /\ k \in Nat
  BY WidthAssumption
<1>3. \A a \in Words : WithRow(t, k)[a] = IF a \in start .. start + w - 1
                                          THEN Word(t, k, a - start) ELSE host[t].data[a]
  BY DEF WithRow
<1> HIDE DEF start, w
<1>4. ASSUME NEW a \in Words PROVE WithRow(t, k)[a] \in Cells
  <2>1. CASE a \in start .. start + w - 1
    <3>1. a - start \in Nat
      BY <1>1, <2>1
    <3>2. WithRow(t, k)[a] = Word(t, k, a - start)
      BY <1>3, <2>1
    <3> QED BY <1>2, <3>1, <3>2 DEF Word, Cells
  <2>2. CASE a \notin start .. start + w - 1
    BY <1>3, <2>2 DEF Typed
  <2> QED BY <2>1, <2>2
<1> QED BY <1>4 DEF Typed

\* A page with a sector of another one in front has words.
LEMMA SectorOverTyped ==
    ASSUME NEW data, NEW page, Typed(data), Typed(page),
           NEW sector \in 0 .. SECTOR_NUM_PER_PAGE - 1
    PROVE  Typed(SectorOver(data, page, sector))
<1> DEFINE w == SECTOR_WORDS
           x == sector * w
           y == SECTOR_NUM_PER_PAGE * w
<1>1. ASSUME NEW a \in Words, a < w PROVE sector * w + a \in Words
  <2>1. w \in Nat \ {0} /\ a \in Nat /\ PAGE_WORDS = y /\ sector \in Nat
    BY <1>1, WidthAssumption DEF Words
  <2>2. sector < SECTOR_NUM_PER_PAGE /\ SECTOR_NUM_PER_PAGE \in Nat
    BY WidthAssumption
  <2>3. x \in Nat /\ y \in Nat /\ x + w <= y
    <3> HIDE DEF w
    <3> QED BY <2>1, <2>2, Spread
  <2> HIDE DEF w, x, y
  <2>4. x + a \in 0 .. PAGE_WORDS - 1
    BY <1>1, <2>1, <2>3
  <2> QED BY <2>4 DEF Words, x
<1>2. ASSUME NEW a \in Words PROVE SectorOver(data, page, sector)[a] \in Cells
  <2>1. SectorOver(data, page, sector)[a] = IF a < w THEN page[sector * w + a] ELSE data[a]
    BY DEF SectorOver
  <2> HIDE DEF w
  <2> QED BY <1>1, <2>1 DEF Typed
<1> QED BY <1>2 DEF Typed

\* The place of the next row is a place.
LEMMA NextPlace ==
    ASSUME NEW t \in 1 .. MaxTables, host[t].currRow \in Places(t)
    PROVE  AfterRow(t).row \in Places(t)
<1> DEFINE m == PAGE_WORDS \div RowWidth[t]
           n == host[t].currRow
<1>1. 0 \in Places(t)
  BY PlaceFacts
<1>2. m \in Nat
  BY PlaceFacts, WidthAssumption, Division
<1>3. /\ Places(t) = 0 .. m - 1
      /\ AfterRow(t).row = (IF n + 1 = m THEN 0 ELSE n + 1)
      /\ n \in Places(t)
  BY DEF AfterRow, Places
<1> HIDE DEF m, n
<1> QED BY <1>1, <1>2, <1>3

\* A new table has an empty page, and the device its width.
LEMMA CreateScene ==
    ASSUME KeysFit, TableInv, SceneInv, CreateTable
    PROVE  SceneInv'
<1>1. /\ currId < MaxTables /\ currId' = currId + 1
      /\ host' = [t \in 1 .. currId + 1 |-> IF t \in Ids THEN host[t]
                    ELSE [backingBlock |-> currBlock, currRow |-> 0, data |-> Zeroes]]
      /\ IF currId + 1 >= TABLE_COUNT
         THEN halted' = TRUE /\ UNCHANGED rowWidth
         ELSE /\ rowWidth' = [rowWidth EXCEPT ![currId + 1] = RowWidth[currId + 1]]
              /\ UNCHANGED halted
      /\ join' = NoJoin /\ UNCHANGED <<disk, inserted, loaded>> /\ ~ halted
  BY DEF CreateTable, Forget, Prompt
<1>2. currId \in Nat /\ Ids = 1 .. currId /\ Ids' = 1 .. currId + 1 /\ Ids \subseteq 1 .. MaxTables
  BY <1>1, IdFacts DEF Ids
<1>3. ASSUME NEW t \in Ids'
      PROVE  Typed(host'[t].data) /\ host'[t].currRow \in Places(t)
  <2>1. CASE t \in Ids
    BY <1>1, <1>2, <2>1 DEF SceneInv, WordsTyped
  <2>2. CASE t \notin Ids
    <3>1. host'[t].data = Zeroes /\ host'[t].currRow = 0
      BY <1>1, <1>2, <2>2
    <3>2. t \in 1 .. MaxTables
      BY <1>1, <1>2, WidthAssumption
    <3>3. Typed(Zeroes)
      BY DEF Typed, Zeroes, NoWord, Cells
    <3> QED BY <3>1, <3>2, <3>3, PlaceFacts
  <2> QED BY <2>1, <2>2
<1>4. WordsTyped'
  BY <1>1, <1>3 DEF SceneInv, WordsTyped
<1>5. WidthsKept'
  <2>1. CASE currId + 1 >= TABLE_COUNT
    BY <1>1, <2>1 DEF SceneInv, WidthsKept
  <2>2. CASE ~ (currId + 1 >= TABLE_COUNT)
    <3>1. currId + 1 \in DOMAIN rowWidth
      BY <1>2, <2>2, WidthAssumption DEF SceneInv, WidthsKept
    <3>2. \A t \in Ids : /\ rowWidth[t] = RowWidth[t] /\ t # currId + 1
                         /\ t \in DOMAIN rowWidth
      BY <1>1, <1>2, <2>2, WidthAssumption DEF SceneInv, WidthsKept
    <3>3. \A t \in Ids' : t \in Ids \/ t = currId + 1
      BY <1>2
    <3>4. /\ DOMAIN rowWidth' = DOMAIN rowWidth
          /\ rowWidth'[currId + 1] = RowWidth[currId + 1]
          /\ \A t \in Ids : rowWidth'[t] = rowWidth[t]
      BY <1>1, <2>2, <3>1, <3>2
    <3> QED BY <3>2, <3>3, <3>4 DEF SceneInv, WidthsKept
  <2> QED BY <2>1, <2>2
<1> QED BY <1>1, <1>4, <1>5 DEF SceneInv, JoinTyped

\* A row is written to the page of its table.
LEMMA InsertTyped ==
    ASSUME KeysFit, TableInv, WordsTyped,
           NEW t \in Ids, NEW k \in Keys, InsertRow(t, k)
    PROVE  WordsTyped'
<1> DEFINE block == host[t].backingBlock
           page == WithRow(t, k)
<1>1. Ids' = Ids
  BY DEF InsertRow, Ids
<1>2. CASE BucketFull(t, k)
  <2>1. UNCHANGED <<host, disk, inserted>>
    BY <1>2 DEF InsertRow
  <2> QED BY <1>1, <2>1 DEF WordsTyped
<1>3. CASE ~ BucketFull(t, k)
  <2>1. /\ disk' = [b \in DOMAIN disk \cup {block} |-> IF b = block THEN page ELSE disk[b]]
        /\ host' = [host EXCEPT ![t] =
                      [backingBlock |-> IF AfterRow(t).full THEN NewBlock(t) ELSE block,
                       currRow |-> AfterRow(t).row,
                       data |-> page]]
        /\ inserted' = inserted \cup {<<t, k, block>>}
    BY <1>3 DEF InsertRow
  <2>2. t \in 1 .. MaxTables /\ DOMAIN host = Ids
    BY IdFacts
  <2>3. Typed(page) /\ AfterRow(t).row \in Places(t)
    BY <2>2, WithRowTyped, NextPlace DEF WordsTyped
  <2>4. /\ host'[t].data = page /\ host'[t].currRow = AfterRow(t).row
        /\ \A u \in Ids : u # t => host'[u] = host[u]
    BY <2>1, <2>2
  <2>5. <<t, k, block>>[3] = block
    OBVIOUS
  <2>6. /\ DOMAIN disk' = DOMAIN disk \cup {block} /\ disk'[block] = page
        /\ \A b \in DOMAIN disk : b # block => disk'[b] = disk[b]
    BY <2>1
  <2> HIDE DEF block, page
  <2>7. ASSUME NEW b \in DOMAIN disk' PROVE Typed(disk'[b])
    BY <2>3, <2>6 DEF WordsTyped
  <2>8. ASSUME NEW u \in Ids
        PROVE  Typed(host'[u].data) /\ host'[u].currRow \in Places(u)
    BY <2>3, <2>4 DEF WordsTyped
  <2>9. \A row \in inserted' : row[3] \in DOMAIN disk'
    BY <2>1, <2>5, <2>6 DEF WordsTyped
  <2> QED BY <1>1, <2>7, <2>8, <2>9 DEF WordsTyped
<1> QED BY <1>2, <1>3

\* An insert leaves the widths alone and forgets the join.
LEMMA InsertScene ==
    ASSUME KeysFit, TableInv, SceneInv, NEW t \in Ids, NEW k \in Keys, InsertRow(t, k)
    PROVE  SceneInv'
<1>1. currId' = currId /\ UNCHANGED <<rowWidth, loaded>> /\ join' = NoJoin /\ ~ halted
  BY DEF InsertRow, Forget, Prompt
<1>2. Ids' = Ids
  BY <1>1 DEF Ids
<1>3. WidthsKept' /\ JoinTyped'
  BY <1>1, <1>2 DEF SceneInv, WidthsKept, JoinTyped
<1>4. WordsTyped'
  BY InsertTyped DEF SceneInv
<1> QED BY <1>1, <1>3, <1>4 DEF SceneInv

\* A sector that is loaded has words, whatever table wrote it.
LEMMA LoadScene ==
    ASSUME SceneInv, TableInv, NEW t \in Ids, NEW load \in Loads, LoadTablePage(t, load[2])
    PROVE  SceneInv'
<1>1. /\ join' = NoJoin /\ UNCHANGED <<currId, rowWidth, disk, inserted, halted>>
      /\ \A u \in Ids : /\ host'[u].currRow = host[u].currRow
                        /\ u # t => host'[u] = host[u]
  BY LoadFacts, IdFacts
<1>2. PICK b \in DOMAIN disk, sector \in 0 .. SECTOR_NUM_PER_PAGE - 1 :
         host'[t].data = SectorOver(host[t].data, disk[b], sector)
  BY LoadFacts, IdFacts
<1>3. Ids' = Ids
  BY <1>1 DEF Ids
<1>4. Typed(host'[t].data)
  BY <1>2, SectorOverTyped DEF SceneInv, WordsTyped
<1>5. WordsTyped'
  BY <1>1, <1>3, <1>4 DEF SceneInv, WordsTyped
<1> QED BY <1>1, <1>3, <1>5 DEF SceneInv, WidthsKept, JoinTyped

\* Joins leave pages and widths alone.
LEMMA JoinScene ==
    ASSUME SceneInv, UNCHANGED <<currId, host, rowWidth, disk, inserted, loaded>>,
           halted' = halted \/ halted' = TRUE, JoinTyped'
    PROVE  SceneInv'
<1>1. Ids' = Ids
  BY DEF Ids
<1> QED BY <1>1 DEF SceneInv, WordsTyped, WidthsKept

(***************************************************************************)
(* A fetch, part by part.                                                  *)
(***************************************************************************)
Wide == JoinWidth(join.tables[1], join.tables[2])
Found == Ascending(Matches(join.tables[1], join.tables[2]))
FilledUp == Len(Found) >= RowsPerJoinPage(Wide)
Met == IF FilledUp THEN SubSeq(Found, 1, RowsPerJoinPage(Wide)) ELSE Found
Row1(i) == RowAt(join.tables[1], indexMap[i].slb, indexMap[i].key)
Row2(i) == RowAt(join.tables[2], getHashMap(join.tables[2], indexMap[i].key), indexMap[i].key)
Made == [n \in DOMAIN Met |-> JoinedRow(Row1(Met[n]), Row2(Met[n]))]

\* What a fetch does once it has met these rows.
Outcome(entries, width, filled, page) ==
    IF Len(entries) * width > PAGE_WORDS - 1
    THEN halted' = TRUE /\ UNCHANGED <<table1iter, joinPage, received, join>>
    ELSE /\ joinPage' = page
         /\ received' = received \o RowsOf(page, width, Len(entries))
         /\ table1iter' = After(entries, filled)
         /\ join' = [join EXCEPT !.running = filled]
         /\ UNCHANGED halted

\* A fetch stops the device or gives the rows it met.
LEMMA FetchCases ==
    ASSUME FetchJoinPage
    PROVE  /\ join.running /\ ~ halted
           /\ UNCHANGED <<currId, currBlock, host, rowWidth, indexMap, disk, inserted, expected, loaded>>
           /\ \/ halted' = TRUE /\ UNCHANGED <<table1iter, joinPage, received, join>>
              \/ /\ ~ (Len(Met) * Wide > PAGE_WORDS - 1)
                 /\ received' = received \o RowsOf(JoinedPage(Made, Wide), Wide, Len(Met))
                 /\ table1iter' = After(Met, FilledUp)
                 /\ join' = [join EXCEPT !.running = FilledUp]
                 /\ UNCHANGED halted
<1>1. /\ join.running /\ ~ halted
      /\ UNCHANGED <<currId, currBlock, host, rowWidth, indexMap, disk, inserted, expected, loaded>>
  BY DEF FetchJoinPage
<1>2. PICK t1 \in {join.tables[1]}, t2 \in {join.tables[2]} :
       \E width \in {JoinWidth(t1, t2)}, found \in {Ascending(Matches(t1, t2))} :
       \E filled \in {Len(found) >= RowsPerJoinPage(width)} :
       \E entries \in {IF filled THEN SubSeq(found, 1, RowsPerJoinPage(width)) ELSE found} :
       \E rows1 \in {[n \in DOMAIN entries |->
                        RowAt(t1, indexMap[entries[n]].slb, indexMap[entries[n]].key)]} :
       \E rows2 \in {[n \in DOMAIN entries |->
                        RowAt(t2, getHashMap(t2, indexMap[entries[n]].key), indexMap[entries[n]].key)]} :
       \E made \in {[n \in DOMAIN entries |-> JoinedRow(rows1[n], rows2[n])]} :
       \E page \in {JoinedPage(made, width)} :
           Outcome(entries, width, filled, page)
  BY DEF FetchJoinPage, Outcome
<1>3. PICK width \in {JoinWidth(t1, t2)}, found \in {Ascending(Matches(t1, t2))} :
       \E filled \in {Len(found) >= RowsPerJoinPage(width)} :
       \E entries \in {IF filled THEN SubSeq(found, 1, RowsPerJoinPage(width)) ELSE found} :
       \E rows1 \in {[n \in DOMAIN entries |->
                        RowAt(t1, indexMap[entries[n]].slb, indexMap[entries[n]].key)]} :
       \E rows2 \in {[n \in DOMAIN entries |->
                        RowAt(t2, getHashMap(t2, indexMap[entries[n]].key), indexMap[entries[n]].key)]} :
       \E made \in {[n \in DOMAIN entries |-> JoinedRow(rows1[n], rows2[n])]} :
       \E page \in {JoinedPage(made, width)} :
           Outcome(entries, width, filled, page)
  BY <1>2, Zenon
<1>4. PICK filled \in {Len(found) >= RowsPerJoinPage(width)} :
       \E entries \in {IF filled THEN SubSeq(found, 1, RowsPerJoinPage(width)) ELSE found} :
       \E rows1 \in {[n \in DOMAIN entries |->
                        RowAt(t1, indexMap[entries[n]].slb, indexMap[entries[n]].key)]} :
       \E rows2 \in {[n \in DOMAIN entries |->
                        RowAt(t2, getHashMap(t2, indexMap[entries[n]].key), indexMap[entries[n]].key)]} :
       \E made \in {[n \in DOMAIN entries |-> JoinedRow(rows1[n], rows2[n])]} :
       \E page \in {JoinedPage(made, width)} :
           Outcome(entries, width, filled, page)
  BY <1>3, Zenon
<1>5. PICK entries \in {IF filled THEN SubSeq(found, 1, RowsPerJoinPage(width)) ELSE found} :
       \E rows1 \in {[n \in DOMAIN entries |->
                        RowAt(t1, indexMap[entries[n]].slb, indexMap[entries[n]].key)]} :
       \E rows2 \in {[n \in DOMAIN entries |->
                        RowAt(t2, getHashMap(t2, indexMap[entries[n]].key), indexMap[entries[n]].key)]} :
       \E made \in {[n \in DOMAIN entries |-> JoinedRow(rows1[n], rows2[n])]} :
       \E page \in {JoinedPage(made, width)} :
           Outcome(entries, width, filled, page)
  BY <1>4, Zenon
<1>6. PICK rows1 \in {[n \in DOMAIN entries |->
                        RowAt(t1, indexMap[entries[n]].slb, indexMap[entries[n]].key)]} :
       \E rows2 \in {[n \in DOMAIN entries |->
                        RowAt(t2, getHashMap(t2, indexMap[entries[n]].key), indexMap[entries[n]].key)]} :
       \E made \in {[n \in DOMAIN entries |-> JoinedRow(rows1[n], rows2[n])]} :
       \E page \in {JoinedPage(made, width)} :
           Outcome(entries, width, filled, page)
  BY <1>5, Zenon
<1>7. PICK rows2 \in {[n \in DOMAIN entries |->
                        RowAt(t2, getHashMap(t2, indexMap[entries[n]].key), indexMap[entries[n]].key)]} :
       \E made \in {[n \in DOMAIN entries |-> JoinedRow(rows1[n], rows2[n])]} :
       \E page \in {JoinedPage(made, width)} :
           Outcome(entries, width, filled, page)
  BY <1>6, Zenon
<1>8. PICK made \in {[n \in DOMAIN entries |-> JoinedRow(rows1[n], rows2[n])]} :
       \E page \in {JoinedPage(made, width)} :
           Outcome(entries, width, filled, page)
  BY <1>7, Zenon
<1>9. PICK page \in {JoinedPage(made, width)} :
           Outcome(entries, width, filled, page)
  BY <1>8, Zenon
<1>10. t1 = join.tables[1] /\ t2 = join.tables[2]
  OBVIOUS
<1>11. width = Wide /\ found = Found
  BY <1>10 DEF Wide, Found
<1>12. filled = FilledUp
  BY <1>11 DEF FilledUp
<1>13. entries = Met
  BY <1>11, <1>12 DEF Met
<1>14. /\ rows1 = [n \in DOMAIN Met |-> Row1(Met[n])]
       /\ rows2 = [n \in DOMAIN Met |-> Row2(Met[n])]
  BY <1>10, <1>13 DEF Row1, Row2
<1>15. made = Made
  <2>1. made = [n \in DOMAIN Met |-> JoinedRow(rows1[n], rows2[n])]
    BY <1>13
  <2> QED BY <1>14, <2>1 DEF Made
<1>16. page = JoinedPage(Made, Wide)
  BY <1>11, <1>15
<1>17. Outcome(Met, Wide, FilledUp, JoinedPage(Made, Wide))
  BY <1>9, <1>11, <1>12, <1>13, <1>16
<1> HIDE DEF Wide, Found, FilledUp, Met, Made
<1> QED BY <1>1, <1>17 DEF Outcome

\* A fetch goes on with the join it found, or ends it.
LEMMA FetchJoin ==
    ASSUME JoinTyped, FetchJoinPage
    PROVE  JoinTyped'
<1>1. join.running /\ (join' = join \/ \E filled \in BOOLEAN : join' = [join EXCEPT !.running = filled])
  <2>1. FilledUp \in BOOLEAN
    BY DEF FilledUp
  <2> QED BY <2>1, FetchCases
<1>2. PICK t1 \in Ids, t2 \in Ids, r \in BOOLEAN : join = [tables |-> <<t1, t2>>, running |-> r]
  BY <1>1 DEF JoinTyped, NoJoin
<1>3. Ids' = Ids
  BY FetchCases DEF Ids
<1>4. \E filled \in BOOLEAN : join' = [tables |-> <<t1, t2>>, running |-> filled]
  BY <1>1, <1>2
<1> QED BY <1>3, <1>4 DEF JoinTyped

\* Every step keeps them.
LEMMA SceneStep ==
    KeysFit /\ TableInv /\ SceneInv /\ [Next]_tvars => SceneInv'
<1> SUFFICES ASSUME KeysFit, TableInv, SceneInv, [Next]_tvars
             PROVE  SceneInv'
  OBVIOUS
<1>1. CASE CreateTable
  BY <1>1, CreateScene
<1>2. ASSUME NEW t \in Ids, NEW k \in Keys, InsertRow(t, k)
      PROVE  SceneInv'
  BY <1>2, InsertScene
<1>3. ASSUME NEW t \in Ids, NEW load \in Loads, LoadTablePage(t, load[2])
      PROVE  SceneInv'
  BY <1>3, LoadScene
<1>4. ASSUME NEW t1 \in Ids, NEW t2 \in Ids, StartJoin(t1, t2)
      PROVE  SceneInv'
  <2>1. JoinTyped'
    <3>1. join' = [tables |-> <<t1, t2>>, running |-> TRUE] /\ currId' = currId
      BY <1>4 DEF StartJoin
    <3> QED BY <3>1 DEF JoinTyped, Ids
  <2> QED BY <1>4, <2>1, JoinScene DEF StartJoin
<1>5. CASE FetchJoinPage
  <2>1. JoinTyped'
    BY <1>5, FetchJoin DEF SceneInv
  <2> QED BY <1>5, <2>1, FetchCases, JoinScene
<1>6. CASE UNCHANGED tvars
  BY <1>6, JoinScene DEF tvars, SceneInv, JoinTyped, Ids
<1> QED BY <1>1, <1>2, <1>3, <1>4, <1>5, <1>6 DEF Next

(***************************************************************************)
(* What a fetch gives the host.                                            *)
(***************************************************************************)

\* A row is found by its key on its page, and whole as long as no sector was
\* loaded.
LEMMA FoundRow ==
    ASSUME KeysFit, TableInv, Intact, NEW row \in inserted
    PROVE  LET u == row[1]
               at == FindRow(RowWidth[u], disk[row[3]], row[2])
           IN  /\ at # -1
               /\ \E m \in Places(u) : /\ at = m * RowWidth[u]
                                       /\ disk[row[3]][m * RowWidth[u]] = Word(u, row[2], 0)
                                       /\ loaded \/ HoldsRow(disk[row[3]], u, m, row[2])
<1> DEFINE u == row[1]
           k == row[2]
           b == row[3]
           w == RowWidth[u]
           page == disk[b]
           rows == {r \in 0 .. (PAGE_WORDS \div w) - 1 :
                       page[r * w].col = 0 /\ page[r * w].key = k}
           m == Min(rows)
<1>1. u \in Nat /\ k \in Keys /\ u \in 1 .. MaxTables
  BY RowParts, IdFacts DEF TableInv, IndexInv
<1>2. w \in Nat \ {0} /\ Places(u) \subseteq Nat
  BY <1>1, PlaceFacts
<1>3. CASE ~ loaded
  <2>1. PageOf(page, u) /\ \E r \in Places(u) : HoldsRow(page, u, r, k)
    BY <1>3 DEF TableInv, Filled
  <2>2. \A n \in Places(u) : n * w + 0 = n * w /\ 0 \in 0 .. w - 1
    BY <1>2
  <2> HIDE DEF u, k, page, w, m, rows
  <2>3. PICK n \in Places(u) : /\ FindRow(RowWidth[u], page, k) = n * RowWidth[u]
                               /\ FindRow(RowWidth[u], page, k) # -1
                               /\ HoldsRow(page, u, n, k)
    BY <1>1, <2>1, FindRowFacts
  <2>4. page[n * w] = Word(u, k, 0)
    BY <2>2, <2>3 DEF HoldsRow, w
  <2> QED BY <2>3, <2>4 DEF u, k, page, w
<1>4. CASE loaded
  <2>1. Stored(row)
    BY AllStored
  <2>2. FindRow(w, page, k) # -1 /\ page[FindRow(w, page, k)] = Word(u, k, 0)
    BY <2>1 DEF Stored
  <2>3. rows # {} /\ FindRow(w, page, k) = m * w
    BY <2>2 DEF FindRow
  <2>4. rows \in SUBSET Nat /\ rows \subseteq Places(u)
    BY <1>2 DEF Places
  <2>5. m \in rows
    BY <2>3, <2>4, MinFacts
  <2>6. m \in Places(u)
    BY <2>4, <2>5
  <2> HIDE DEF m, rows
  <2> QED BY <1>4, <2>2, <2>3, <2>6
<1> QED BY <1>3, <1>4

\* What is read of the row of an entry, by any table whose rows are as wide: its
\* key and the words behind it, which are its own as long as no sector was
\* loaded.
LEMMA RowAtFacts ==
    ASSUME KeysFit, TableInv, SceneInv, Intact, ~ halted,
           NEW t \in Ids, NEW row \in inserted, RowWidth[t] = RowWidth[row[1]]
    PROVE  LET r == RowAt(t, row[3], row[2])
           IN  /\ r \in Seq(Cells) /\ Len(r) = RowWidth[t]
               /\ r[1] = Word(row[1], row[2], 0)
               /\ loaded \/ r = Row(row[1], row[2])
<1> DEFINE w == RowWidth[t]
           u == row[1]
           k == row[2]
           b == row[3]
           at == FindRow(w, disk[b], k)
<1>1. t \in 1 .. MaxTables /\ RowWidth[u] = w /\ rowWidth[t] = w
  BY IdFacts DEF SceneInv, WidthsKept
<1>2. w \in Nat \ {0} /\ Places(t) \subseteq Nat /\ Places(u) = Places(t)
  BY <1>1, PlaceFacts DEF Places
<1>3. PICK m \in Places(u) : /\ at # -1 /\ at = m * w
                             /\ disk[b][m * w] = Word(u, k, 0)
                             /\ loaded \/ HoldsRow(disk[b], u, m, k)
  BY <1>1, FoundRow
<1>4. ~ loaded => \A c \in 0 .. w - 1 : disk[b][m * w + c] = Word(u, k, c)
  BY <1>1, <1>3 DEF HoldsRow
<1>5. RowAt(t, b, k) = [c \in 1 .. w |-> disk[b][m * w + c - 1]]
  BY <1>1, <1>3 DEF RowAt
<1>6. m \in Nat /\ m \in Places(t)
  BY <1>2, <1>3
<1>7. \A c \in 0 .. w - 1 : m * w + c \in Words
  BY <1>1, <1>6, PlaceFacts
<1>8. Typed(disk[b])
  BY DEF SceneInv, WordsTyped
<1>9. Row(u, k) = [c \in 1 .. w |-> Word(u, k, c - 1)]
  BY <1>1 DEF Row
<1> HIDE DEF w
<1>10. m * w \in Nat
  BY <1>2, <1>6
<1>11. ASSUME NEW c \in 1 .. w
       PROVE  /\ disk[b][m * w + c - 1] \in Cells
              /\ loaded \/ disk[b][m * w + c - 1] = Word(u, k, c - 1)
  <2>1. c - 1 \in 0 .. w - 1 /\ m * w + (c - 1) = m * w + c - 1
    BY <1>2, <1>10
  <2> QED BY <1>4, <1>7, <1>8, <2>1 DEF Typed
<1>12. 1 \in 1 .. w /\ m * w + 1 - 1 = m * w
  BY <1>2, <1>10
<1> HIDE DEF u, k, b
<1> DEFINE r == RowAt(t, b, k)
<1>13. r \in [1 .. w -> Cells]
  BY <1>5, <1>11
<1>14. r \in Seq(Cells) /\ Len(r) = w
  <2> HIDE DEF r
  <2> QED BY <1>2, <1>13
<1>15. r[1] = Word(u, k, 0)
  BY <1>3, <1>5, <1>12
<1>16. loaded \/ r = Row(u, k)
  BY <1>5, <1>9, <1>11
<1> QED BY <1>14, <1>15, <1>16 DEF u, k, b, w

\* The entries a join of two tables gives a row for.
First(t1, t2) ==
    {i \in Slots : /\ Used(i) /\ indexMap[i].table = t1
                   /\ getHashMap(t2, indexMap[i].key) # INVALID_HASHMAP_LPN}

\* A row of the first table behind its key; as long as no sector was loaded, the
\* row and what follows the key in the row of whichever table the index gives
\* for the second.
GivenFor(line, t1, i) ==
    /\ line[1] = Word(t1, indexMap[i].key, 0)
    /\ loaded \/ \E u \in Ids, b \in Blocks :
                    /\ <<u, indexMap[i].key, b>> \in inserted
                    /\ line = Row(t1, indexMap[i].key) \o Tail(Row(u, indexMap[i].key))

\* The partners the index gives for the entries are read in their own width.
Fits(t1, t2) ==
    \A i \in First(t1, t2), row \in inserted :
        row[2] = indexMap[i].key => RowWidth[row[1]] = RowWidth[t2]

\* An entry of the first table and the page the index gives for the second one
\* hold rows that were inserted.
LEMMA FirstFacts ==
    ASSUME KeysFit, TableInv, NEW t1 \in Ids, NEW t2 \in Ids, NEW i \in First(t1, t2)
    PROVE  /\ indexMap[i].key \in Keys /\ indexMap[i].key \in Nat
           /\ i \in Slots /\ i \in Bucket(t1, indexMap[i].key) /\ Used(i)
           /\ <<t1, indexMap[i].key, indexMap[i].slb>> \in inserted
           /\ \E u \in Ids, b \in Blocks :
                 /\ <<u, indexMap[i].key, b>> \in inserted
                 /\ getHashMap(t2, indexMap[i].key) = b
<1> DEFINE k == indexMap[i].key
           hits == {j \in Bucket(t2, k) : indexMap[j].key = k}
           j == Min(hits)
<1>1. i \in Slots /\ Used(i) /\ indexMap[i].table = t1
  BY DEF First
<1>2. <<t1, k, indexMap[i].slb>> \in inserted /\ i \in Bucket(t1, k)
  BY <1>1 DEF TableInv, IndexInv, EntriesAreRows
<1>3. k \in Keys
  BY <1>2 DEF TableInv, IndexInv, RowsTyped
<1>4. k \in Nat /\ k # 0 /\ t2 \in Nat
  <2> HIDE DEF k
  <2> QED BY <1>3, HashAssumption, IdFacts DEF KeysFit
<1>5. hits # {} /\ getHashMap(t2, k) = indexMap[j].slb
  BY DEF First, getHashMap
<1>6. hits \in SUBSET Nat /\ hits \subseteq Slots
  BY <1>4, BucketFacts
<1>7. j \in hits
  BY <1>5, <1>6, MinFacts
<1> HIDE DEF j
<1>8. Used(j) /\ j \in Slots /\ indexMap[j].key = k
  BY <1>5, <1>6, <1>7 DEF First, Used
<1>9. <<indexMap[j].table, k, indexMap[j].slb>> \in inserted
  BY <1>8 DEF TableInv, IndexInv, EntriesAreRows
<1>10. indexMap[j].table \in Ids /\ indexMap[j].slb \in Blocks
  BY <1>9 DEF TableInv, IndexInv, RowsTyped
<1> QED BY <1>1, <1>2, <1>3, <1>4, <1>5, <1>9, <1>10

\* Rows as sequences of words.
LEMMA RowFacts ==
    ASSUME NEW t \in 1 .. MaxTables, NEW k \in Nat
    PROVE  /\ Row(t, k) \in Seq(Cells) /\ Len(Row(t, k)) = RowWidth[t]
           /\ Row(t, k) # <<>> /\ Row(t, k)[1] = Word(t, k, 0)
<1>1. RowWidth[t] \in Nat \ {0} /\ t \in Nat
  BY PlaceFacts, WidthAssumption
<1>2. \A c \in 1 .. RowWidth[t] : Word(t, k, c - 1) \in Cells
  BY <1>1 DEF Word, Cells
<1>3. Row(t, k) \in [1 .. RowWidth[t] -> Cells]
  BY <1>2 DEF Row
<1>4. 1 \in 1 .. RowWidth[t]
  BY <1>1
<1>5. Row(t, k)[1] = Word(t, k, 0)
  BY <1>4 DEF Row
<1> QED BY <1>1, <1>3, <1>4, <1>5

\* A joined row: its words, its width and its key.
LEMMA LineFacts ==
    ASSUME NEW r \in Seq(Cells), NEW x \in Seq(Cells), Len(r) # 0, Len(x) # 0
    PROVE  LET line == r \o Tail(x)
           IN  /\ line \in Seq(Cells) /\ Len(line) = Len(r) + Len(x) - 1
               /\ line # <<>> /\ line[1] = r[1]
<1> DEFINE s == Tail(x)
<1>1. s \in Seq(Cells) /\ Len(s) = Len(x) - 1
  <2>1. x # <<>>
    OBVIOUS
  <2> QED BY <2>1, HeadTailProperties
<1>2. Len(r) \in Nat /\ Len(x) \in Nat
  OBVIOUS
<1> HIDE DEF s
<1>3. /\ r \o s \in Seq(Cells) /\ Len(r \o s) = Len(r) + Len(s)
      /\ \A i \in 1 .. Len(r) + Len(s) : (r \o s)[i] = IF i <= Len(r) THEN r[i] ELSE s[i - Len(r)]
  BY <1>1, ConcatProperties
<1>4. 1 \in 1 .. Len(r) + Len(s) /\ 1 <= Len(r)
  BY <1>1, <1>2
<1>5. (r \o s)[1] = r[1] /\ Len(r \o s) = Len(r) + Len(x) - 1
  BY <1>1, <1>2, <1>3, <1>4
<1>6. r \o s # <<>>
  BY <1>1, <1>2, <1>3, <1>5
<1> QED BY <1>3, <1>5, <1>6 DEF s

\* The rows cut out of a page are the rows put into it.
LEMMA CutFacts ==
    ASSUME NEW w \in Nat \ {0}, NEW m \in Nat, ~ (m * w > PAGE_WORDS - 1),
           NEW made, Len(made) = m,
           NEW n \in 1 .. m, made[n] \in Seq(Cells), Len(made[n]) = w, made[n] # <<>>
    PROVE  RowsOf(JoinedPage(made, w), w, m)[n] = made[n]
<1>1. n \in Nat \ {0} /\ n - 1 \in Nat /\ PAGE_WORDS \in Nat
  BY WidthAssumption
<1>2. ASSUME NEW c \in 1 .. w
      PROVE  JoinedPage(made, w)[(n - 1) * w + c - 1] = made[n][c]
  <2> DEFINE a == (n - 1) * w + c - 1
             x == (n - 1) * w
             z == m * w
  <2>1. x \in Nat /\ z \in Nat /\ x + w <= z
    <3>1. n - 1 < m
      OBVIOUS
    <3> QED BY <1>1, <3>1, Spread
  <2>2. a \in Words
    <3>1. z <= PAGE_WORDS - 1
      BY <1>1, <2>1
    <3>2. a = x + (c - 1)
      BY <2>1
    <3> HIDE DEF a, x, z
    <3> QED BY <1>1, <2>1, <3>1, <3>2 DEF Words
  <2>3. a \in Nat
    BY <1>1, <2>2 DEF Words
  <2>4. a \div w = n - 1 /\ a % w = c - 1
    <3>1. /\ a \div w \in Nat /\ a % w \in 0 .. w - 1
          /\ a = (a \div w) * w + (a % w)
      BY <2>3, Division, Zenon
    <3>2. c - 1 \in 0 .. w - 1 /\ a = x + (c - 1)
      BY <2>1
    <3> DEFINE p == a \div w
               q == a % w
    <3>3. p \in Nat /\ q \in 0 .. w - 1 /\ p * w + q = (n - 1) * w + (c - 1)
      BY <3>1, <3>2
    <3> HIDE DEF p, q, a, x
    <3>4. p = n - 1 /\ q = c - 1
      BY <1>1, <3>2, <3>3, Unique
    <3> QED BY <3>4 DEF p, q
  <2>5. 1 + (a \div w) = n /\ 1 + (a % w) = c
    BY <1>1, <2>4
  <2>6. JoinedPage(made, w)[a] =
          IF 1 + (a \div w) <= Len(made) /\ made[1 + (a \div w)] # <<>>
          THEN made[1 + (a \div w)][1 + (a % w)] ELSE joinPage[a]
    BY <2>2 DEF JoinedPage
  <2> HIDE DEF a
  <2>7. JoinedPage(made, w)[a] = made[n][c]
    BY <2>5, <2>6
  <2> QED BY <2>7 DEF a
<1>3. RowsOf(JoinedPage(made, w), w, m)[n]
        = [c \in 1 .. w |-> JoinedPage(made, w)[(n - 1) * w + c - 1]]
  BY DEF RowsOf
<1>4. made[n] = [c \in 1 .. w |-> made[n][c]]
  OBVIOUS
<1> QED BY <1>2, <1>3, <1>4

\* The rows a fetch meets are the next entries of the first table, each once;
\* the iterator is left behind the last of them, or at the end.
LEMMA MetFacts ==
    ASSUME NEW t1 \in Ids, NEW t2 \in Ids, join.tables = <<t1, t2>>, Wide \in Nat \ {0},
           table1iter \in Nat
    PROVE  LET after == After(Met, FilledUp)
           IN  /\ Len(Met) \in Nat /\ DOMAIN Met = 1 .. Len(Met)
               /\ \A n \in 1 .. Len(Met) : Met[n] \in First(t1, t2) /\ ~ (Met[n] < table1iter)
               /\ \A n, m \in 1 .. Len(Met) : Met[n] = Met[m] => n = m
               /\ \A i \in First(t1, t2) :
                     i < after <=> (i < table1iter \/ \E n \in 1 .. Len(Met) : Met[n] = i)
               /\ after \in Nat
               /\ FilledUp \/ after = BUCKET_COUNT * BUCKET_LENGTH
<1> DEFINE M == Matches(t1, t2)
           C == Cardinality(M)
           R == RowsPerJoinPage(Wide)
           after == After(Met, FilledUp)
<1>1. Slots \subseteq Nat /\ IsFiniteSet(Slots) /\ BUCKET_COUNT * BUCKET_LENGTH \in Nat
  <2>1. BUCKET_COUNT * BUCKET_LENGTH \in Nat
    BY BucketAssumption
  <2> DEFINE z == BUCKET_COUNT * BUCKET_LENGTH
  <2> HIDE DEF z
  <2>2. 0 .. z - 1 \subseteq Nat /\ IsFiniteSet(0 .. z - 1)
    BY <2>1, FS_Interval DEF z
  <2> QED BY <2>1, <2>2 DEF Slots, z
<1>2. M = {i \in First(t1, t2) : i >= table1iter} /\ M \in SUBSET Nat /\ IsFiniteSet(M)
  <2>1. M = {i \in First(t1, t2) : i >= table1iter} /\ M \in SUBSET Slots
    BY DEF Matches, First
  <2> QED BY <1>1, <2>1, FS_Subset
<1>3. \A i \in First(t1, t2) : i \in Nat /\ (i >= table1iter <=> ~ (i < table1iter))
  <2> SUFFICES ASSUME NEW i \in First(t1, t2)
               PROVE  i \in Nat /\ (i >= table1iter <=> ~ (i < table1iter))
    OBVIOUS
  <2>1. i \in Nat
    BY <1>1 DEF First
  <2> QED BY <2>1
<1>4. Found = Ascending(M)
  BY DEF Found
<1> HIDE DEF M
<1>5. /\ C \in Nat /\ Found \in [1 .. C -> M]
      /\ \A n, m \in 1 .. C : Found[n] <= Found[m] => n <= m
      /\ \A i \in M : \E n \in 1 .. C : Found[n] = i
  <2>1. /\ Cardinality(M) \in Nat
        /\ Ascending(M) \in [1 .. Cardinality(M) -> M]
        /\ \A n, m \in 1 .. Cardinality(M) : Ascending(M)[n] <= Ascending(M)[m] => n <= m
        /\ \A i \in M : \E n \in 1 .. Cardinality(M) : Ascending(M)[n] = i
    BY <1>2, AscendingFacts
  <2> HIDE DEF R, after
  <2> QED BY <1>4, <2>1
<1> HIDE DEF C
<1>6. Len(Found) = C /\ Found \in Seq(M) /\ DOMAIN Found = 1 .. C
  BY <1>5
<1>7. \A n \in 1 .. C : Found[n] \in M /\ Found[n] \in Nat
  BY <1>2, <1>5
<1>8. \A n, m \in 1 .. C : Found[n] = Found[m] => n = m
  <2> SUFFICES ASSUME NEW n \in 1 .. C, NEW m \in 1 .. C, Found[n] = Found[m]
               PROVE  n = m
    OBVIOUS
  <2>1. Found[n] <= Found[m] /\ Found[m] <= Found[n]
    BY <1>7
  <2>2. n <= m /\ m <= n
    BY <1>5, <2>1
  <2> QED BY <2>2
<1>9. R \in Nat \ {0}
  <2>1. CASE PAGE_WORDS - 1 < 2 * Wide
    BY <2>1 DEF RowsPerJoinPage
  <2>2. CASE ~ (PAGE_WORDS - 1 < 2 * Wide)
    <3>1. PAGE_WORDS - 1 \in Nat /\ 2 * Wide <= PAGE_WORDS - 1
      BY <2>2, WidthAssumption
    <3> DEFINE p == PAGE_WORDS - 1
               q == p \div Wide
               r == p % Wide
    <3>2. q \in Nat /\ r \in 0 .. Wide - 1 /\ p = q * Wide + r
      BY <3>1, Division, Zenon
    <3>3. R = q
      BY <2>2 DEF RowsPerJoinPage
    <3> HIDE DEF q, r
    <3>4. q # 0
      <4> SUFFICES ASSUME q = 0 PROVE FALSE
        OBVIOUS
      <4>1. q * Wide = 0
        OBVIOUS
      <4> HIDE DEF p
      <4>2. p = r
        BY <3>2, <4>1
      <4> QED BY <3>1, <3>2, <4>2 DEF p
    <3> QED BY <3>2, <3>3, <3>4
  <2> QED BY <2>1, <2>2
<1> HIDE DEF R
<1>10. CASE FilledUp
  <2>1. R <= C /\ R \in 1 .. C
    BY <1>5, <1>6, <1>9, <1>10 DEF FilledUp, R
  <2>2. Met = SubSeq(Found, 1, R)
    BY <1>10 DEF Met, R
  <2>3. Len(Met) = R /\ DOMAIN Met = 1 .. R /\ \A n \in 1 .. R : Met[n] = Found[n]
    BY <1>6, <1>9, <2>1, <2>2
  <2>4. after = Found[R] + 1
    BY <1>9, <1>10, <2>3 DEF After, Last
  <2>5. ASSUME NEW i \in First(t1, t2)
        PROVE  i < after <=> (i < table1iter \/ \E n \in 1 .. R : Met[n] = i)
    <3>0. i \in Nat /\ Found[R] \in Nat /\ R \in 1 .. C
      BY <1>1, <1>7, <2>1 DEF First
    <3>1. CASE i \in M
      <4>1. PICK n \in 1 .. C : Found[n] = i
        BY <1>5, <3>1
      <4>2. i < after <=> Found[n] <= Found[R]
        BY <2>4, <3>0, <4>1
      <4>3. Found[n] <= Found[R] <=> n <= R
        <5>1. Found[n] <= Found[R] => n <= R
          BY <1>5, <2>1
        <5>2. ASSUME n <= R, ~ (Found[n] <= Found[R]) PROVE FALSE
          <6>1. Found[R] <= Found[n]
            BY <1>7, <2>1, <5>2
          <6>2. R <= n
            BY <1>5, <2>1, <6>1
          <6>3. n = R
            BY <2>1, <5>2, <6>2
          <6> QED BY <3>0, <5>2, <6>3
        <5> QED BY <5>1, <5>2
      <4>4. n <= R <=> \E m \in 1 .. R : Met[m] = i
        <5>1. n <= R => n \in 1 .. R
          BY <1>9
        <5>2. ASSUME NEW m \in 1 .. R, Met[m] = i PROVE n <= R
          <6>1. m \in 1 .. C /\ Found[m] = Found[n]
            BY <1>5, <1>9, <2>1, <2>3, <4>1, <5>2
          <6>2. m = n
            BY <1>8, <6>1
          <6> QED BY <1>9, <6>2
        <5> QED BY <2>3, <4>1, <5>1, <5>2
      <4>5. ~ (i < table1iter)
        BY <1>2, <1>3, <3>1
      <4> QED BY <4>2, <4>3, <4>4, <4>5
    <3>2. CASE i \notin M
      <4>1. i < table1iter
        BY <1>2, <1>3, <3>2
      <4>2. Found[R] \in M
        BY <1>7, <2>1
      <4>3. i < after
        <5> SUFFICES ASSUME ~ (i < after) PROVE FALSE
          OBVIOUS
        <5>1. Found[R] <= i
          BY <2>4, <3>0
        <5>2. ~ (Found[R] < table1iter)
          BY <1>2, <1>3, <4>2
        <5> QED BY <3>0, <4>1, <5>1, <5>2
      <4> QED BY <4>1, <4>3
    <3> QED BY <3>1, <3>2
  <2>6. after \in Nat
    BY <1>7, <2>1, <2>4
  <2> HIDE DEF after
  <2>7. ASSUME NEW n \in 1 .. R
        PROVE  n \in 1 .. C /\ Met[n] = Found[n] /\ Met[n] \in M
    <3>1. n \in 1 .. C
      BY <1>5, <1>9, <2>1
    <3> QED BY <1>7, <2>3, <3>1
  <2>8. \A n \in 1 .. R : Met[n] \in First(t1, t2) /\ ~ (Met[n] < table1iter)
    BY <1>2, <1>3, <2>7
  <2>9. \A n, m \in 1 .. R : Met[n] = Met[m] => n = m
    BY <1>8, <2>7
  <2> QED BY <1>9, <1>10, <2>3, <2>5, <2>6, <2>8, <2>9 DEF after
<1>11. CASE ~ FilledUp
  <2>1. Met = Found /\ after = BUCKET_COUNT * BUCKET_LENGTH
    BY <1>11 DEF Met, After
  <2>2. \A i \in First(t1, t2) : i < after
    <3> DEFINE z == BUCKET_COUNT * BUCKET_LENGTH
    <3>1. Slots = 0 .. z - 1 /\ z \in Nat
      BY <1>1 DEF Slots
    <3> HIDE DEF z
    <3>2. \A i \in Slots : i < z
      BY <3>1
    <3> QED BY <2>1, <3>2 DEF First, z
  <2>3. \A i \in First(t1, t2) : i < table1iter \/ \E n \in 1 .. C : Met[n] = i
    BY <1>2, <1>3, <1>5, <2>1
  <2>4. \A n \in 1 .. C : Met[n] \in First(t1, t2) /\ ~ (Met[n] < table1iter)
    BY <1>2, <1>3, <1>7, <2>1
  <2>7. after \in Nat
    BY <1>1, <2>1
  <2> HIDE DEF after
  <2>5. Len(Met) = C /\ DOMAIN Met = 1 .. C
    BY <1>6, <2>1
  <2>6. \A n, m \in 1 .. C : Met[n] = Met[m] => n = m
    BY <1>8, <2>1
  <2> QED BY <1>5, <2>1, <2>2, <2>3, <2>4, <2>5, <2>6, <2>7 DEF after
<1> QED BY <1>10, <1>11

\* The row a fetch makes of an entry it met is the row of the entry.
LEMMA MadeFacts ==
    ASSUME KeysFit, TableInv, SceneInv, Intact, ~ halted,
           NEW t1 \in Ids, NEW t2 \in Ids, join.tables = <<t1, t2>>, Fits(t1, t2),
           NEW i \in First(t1, t2)
    PROVE  LET line == JoinedRow(Row1(i), Row2(i))
           IN  /\ GivenFor(line, t1, i)
               /\ line \in Seq(Cells) /\ Len(line) = Wide /\ line # <<>>
<1> DEFINE k == indexMap[i].key
           b1 == indexMap[i].slb
<1>1. <<t1, k, b1>> \in inserted /\ k \in Nat
  BY FirstFacts
<1>2. PICK u \in Ids, b \in Blocks : <<u, k, b>> \in inserted /\ getHashMap(t2, k) = b
  BY FirstFacts
<1>3. t1 \in 1 .. MaxTables /\ u \in 1 .. MaxTables /\ t2 \in 1 .. MaxTables
  BY IdFacts
<1> HIDE DEF k, b1
<1>4. RowWidth[u] = RowWidth[t2]
  <2>1. <<u, k, b>>[1] = u /\ <<u, k, b>>[2] = k
    OBVIOUS
  <2> QED BY <1>2, <2>1 DEF Fits, k
<1> DEFINE r == Row1(i)
           x == Row2(i)
<1>5. /\ r \in Seq(Cells) /\ Len(r) = RowWidth[t1] /\ r[1] = Word(t1, k, 0)
      /\ loaded \/ r = Row(t1, k)
  <2> DEFINE row == <<t1, k, b1>>
  <2>1. row[1] = t1 /\ row[2] = k /\ row[3] = b1 /\ row \in inserted
    BY <1>1
  <2> HIDE DEF row
  <2>2. r = RowAt(t1, row[3], row[2])
    BY <2>1 DEF Row1, k, b1
  <2> HIDE DEF r
  <2> QED BY <2>1, <2>2, RowAtFacts
<1>6. /\ x \in Seq(Cells) /\ Len(x) = RowWidth[t2]
      /\ loaded \/ x = Row(u, k)
  <2> DEFINE row == <<u, k, b>>
  <2>1. row[1] = u /\ row[2] = k /\ row[3] = b /\ row \in inserted
    BY <1>2
  <2> HIDE DEF row
  <2>2. x = RowAt(t2, row[3], row[2])
    BY <1>2, <2>1 DEF Row2, k
  <2> HIDE DEF x
  <2> QED BY <1>4, <2>1, <2>2, RowAtFacts
<1> HIDE DEF r, x
<1>7. RowWidth[t1] \in Nat \ {0} /\ RowWidth[t2] \in Nat \ {0}
  BY <1>3, PlaceFacts
<1>8. Len(r) # 0 /\ Len(x) # 0 /\ r # <<>> /\ x # <<>>
  BY <1>5, <1>6, <1>7
<1>9. /\ r \o Tail(x) \in Seq(Cells) /\ Len(r \o Tail(x)) = Len(r) + Len(x) - 1
      /\ r \o Tail(x) # <<>> /\ (r \o Tail(x))[1] = r[1]
  BY <1>5, <1>6, <1>8, LineFacts
<1>10. JoinedRow(r, x) = r \o Tail(x)
  BY <1>8 DEF JoinedRow
<1>11. Wide = RowWidth[t1] + RowWidth[t2] - 1
  BY DEF Wide, JoinWidth, SceneInv, WidthsKept
<1>12. GivenFor(r \o Tail(x), t1, i)
  BY <1>2, <1>5, <1>6, <1>9 DEF GivenFor, k
<1> QED BY <1>5, <1>6, <1>9, <1>10, <1>11, <1>12 DEF r, x

(***************************************************************************)
(* A join, page by page: the rows received are those of the entries before *)
(* the iterator, in some order, one for each entry.                        *)
(***************************************************************************)
Progress(t1, t2) ==
    /\ table1iter \in Nat
    /\ join.running \/ table1iter = BUCKET_COUNT * BUCKET_LENGTH
    /\ received \in Seq(Seq(Cells))
    /\ \E order \in [1 .. Len(received) -> First(t1, t2)] :
          /\ \A n, m \in 1 .. Len(received) : order[n] = order[m] => n = m
          /\ \A i \in First(t1, t2) :
                i < table1iter <=> \E n \in 1 .. Len(received) : order[n] = i
          /\ \A n \in 1 .. Len(received) : GivenFor(received[n], t1, order[n])

JoinInv ==
    \A t1, t2 \in Ids :
        join.tables = <<t1, t2>>
        => /\ expected = {Row(t1, k) \o Tail(Row(t2, k)) : k \in KeysOf(t1) \cap KeysOf(t2)}
           /\ Intact /\ Fits(t1, t2) => Progress(t1, t2)

\* A join depends on the index, the pages and what was inserted.
LEMMA SameScene ==
    ASSUME UNCHANGED <<currId, indexMap, disk, inserted, loaded>>
    PROVE  /\ Ids' = Ids /\ (Intact' <=> Intact)
           /\ \A t1, t2 : First(t1, t2)' = First(t1, t2) /\ (Fits(t1, t2)' <=> Fits(t1, t2))
           /\ \A line, t1, i : GivenFor(line, t1, i)' <=> GivenFor(line, t1, i)
           /\ \A t : KeysOf(t)' = KeysOf(t)
<1>1. Ids' = Ids
  BY DEF Ids
<1>2. Intact' <=> Intact
  BY DEF Intact, Stored
<1>3. ASSUME NEW t1, NEW t2
      PROVE  First(t1, t2)' = First(t1, t2) /\ (Fits(t1, t2)' <=> Fits(t1, t2))
  <2>1. First(t1, t2)' = First(t1, t2)
    BY DEF First, Used, getHashMap
  <2> QED BY <2>1 DEF Fits
<1>4. ASSUME NEW line, NEW t1, NEW i
      PROVE  GivenFor(line, t1, i)' <=> GivenFor(line, t1, i)
  BY <1>1 DEF GivenFor
<1>5. ASSUME NEW t PROVE KeysOf(t)' = KeysOf(t)
  BY DEF KeysOf
<1> QED BY <1>1, <1>2, <1>3, <1>4, <1>5

\* A join starts with nothing received and the iterator at the front.
LEMMA StartKeeps ==
    ASSUME NEW t1 \in Ids, NEW t2 \in Ids, StartJoin(t1, t2)
    PROVE  JoinInv'
<1>1. /\ join' = [tables |-> <<t1, t2>>, running |-> TRUE]
      /\ table1iter' = 0 /\ received' = <<>>
      /\ expected' = {Row(t1, k) \o Tail(Row(t2, k)) : k \in KeysOf(t1) \cap KeysOf(t2)}
      /\ UNCHANGED <<currId, indexMap, disk, inserted, loaded>>
  BY DEF StartJoin
<1>2. /\ Ids' = Ids /\ First(t1, t2)' = First(t1, t2)
      /\ KeysOf(t1)' = KeysOf(t1) /\ KeysOf(t2)' = KeysOf(t2)
  BY <1>1, SameScene
<1>3. /\ Len(received') = 0 /\ received' \in Seq(Seq(Cells)) /\ 1 .. Len(received') = {}
  BY <1>1
<1>4. Progress(t1, t2)'
  <2> DEFINE order == [n \in 1 .. Len(received') |-> n]
  <2>1. order \in [1 .. Len(received') -> First(t1, t2)']
    BY <1>3
  <2>2. \A i \in First(t1, t2)' : ~ (i < table1iter')
    <3>1. Slots \subseteq Nat
      BY BucketAssumption DEF Slots
    <3>2. \A i \in Slots : ~ (i < 0)
      BY <3>1
    <3> QED BY <1>1, <1>2, <3>2 DEF First
  <2> HIDE DEF order
  <2> QED BY <1>1, <1>3, <2>1, <2>2 DEF Progress
<1> SUFFICES ASSUME NEW u1 \in Ids', NEW u2 \in Ids', join'.tables = <<u1, u2>>
             PROVE  /\ expected' = {Row(u1, k) \o Tail(Row(u2, k)) : k \in KeysOf(u1)' \cap KeysOf(u2)'}
                    /\ Progress(u1, u2)'
  BY DEF JoinInv
<1>5. u1 = t1 /\ u2 = t2
  BY <1>1
<1>6. expected' = {Row(t1, k) \o Tail(Row(t2, k)) : k \in KeysOf(t1)' \cap KeysOf(t2)'}
  BY <1>1, <1>2
<1> QED BY <1>4, <1>5, <1>6

\* The rows of a fetch come behind those received before.
LEMMA FetchProgress ==
    ASSUME KeysFit, TableInv, SceneInv, Intact,
           NEW t1 \in Ids, NEW t2 \in Ids, join.tables = <<t1, t2>>, Fits(t1, t2),
           Progress(t1, t2), FetchJoinPage
    PROVE  Progress(t1, t2)'
<1>1. /\ join.running /\ ~ halted
      /\ UNCHANGED <<currId, indexMap, disk, inserted, loaded>>
  BY FetchCases
<1>2. /\ First(t1, t2)' = First(t1, t2) /\ Ids' = Ids
      /\ \A line, i : GivenFor(line, t1, i)' <=> GivenFor(line, t1, i)
  BY <1>1, SameScene
<1>3. CASE UNCHANGED <<table1iter, received, join>>
  BY <1>2, <1>3 DEF Progress
<1>4. CASE /\ ~ (Len(Met) * Wide > PAGE_WORDS - 1)
           /\ received' = received \o RowsOf(JoinedPage(Made, Wide), Wide, Len(Met))
           /\ table1iter' = After(Met, FilledUp)
           /\ join' = [join EXCEPT !.running = FilledUp]
  <2> DEFINE more == RowsOf(JoinedPage(Made, Wide), Wide, Len(Met))
             L == Len(received)
             m == Len(Met)
  <2>1. Wide \in Nat \ {0}
    <3>1. t1 \in 1 .. MaxTables /\ t2 \in 1 .. MaxTables
      BY IdFacts
    <3>2. RowWidth[t1] \in Nat \ {0} /\ RowWidth[t2] \in Nat \ {0}
      BY <3>1, PlaceFacts
    <3>3. Wide = RowWidth[t1] + RowWidth[t2] - 1
      BY <1>1 DEF Wide, JoinWidth, SceneInv, WidthsKept
    <3> QED BY <3>2, <3>3
  <2>2. PICK order \in [1 .. Len(received) -> First(t1, t2)] :
          /\ \A n, p \in 1 .. Len(received) : order[n] = order[p] => n = p
          /\ \A i \in First(t1, t2) :
                i < table1iter <=> \E n \in 1 .. Len(received) : order[n] = i
          /\ \A n \in 1 .. Len(received) : GivenFor(received[n], t1, order[n])
    BY DEF Progress
  <2>3. /\ table1iter \in Nat /\ received \in Seq(Seq(Cells)) /\ L \in Nat
    BY DEF Progress
  <2>4. /\ m \in Nat /\ DOMAIN Met = 1 .. m
        /\ \A n \in 1 .. m : Met[n] \in First(t1, t2) /\ ~ (Met[n] < table1iter)
        /\ \A n, p \in 1 .. m : Met[n] = Met[p] => n = p
        /\ \A i \in First(t1, t2) :
              i < table1iter' <=> (i < table1iter \/ \E n \in 1 .. m : Met[n] = i)
        /\ table1iter' \in Nat
        /\ FilledUp \/ table1iter' = BUCKET_COUNT * BUCKET_LENGTH
    BY <1>4, <2>1, <2>3, MetFacts
  <2>5. Len(Made) = m /\ \A n \in 1 .. m : Made[n] = JoinedRow(Row1(Met[n]), Row2(Met[n]))
    BY <2>4 DEF Made
  <2>6. ASSUME NEW n \in 1 .. m
        PROVE  GivenFor(Made[n], t1, Met[n]) /\ more[n] = Made[n] /\ more[n] \in Seq(Cells)
    <3>1. /\ GivenFor(Made[n], t1, Met[n])
          /\ Made[n] \in Seq(Cells) /\ Len(Made[n]) = Wide /\ Made[n] # <<>>
      BY <1>1, <2>4, <2>5, MadeFacts
    <3>2. more[n] = Made[n]
      <4>1. m \in Nat /\ ~ (m * Wide > PAGE_WORDS - 1) /\ Len(Made) = m /\ n \in 1 .. m
        BY <1>4, <2>4, <2>5
      <4>2. more = RowsOf(JoinedPage(Made, Wide), Wide, m)
        OBVIOUS
      <4> HIDE DEF m, more
      <4>3. RowsOf(JoinedPage(Made, Wide), Wide, m)[n] = Made[n]
        BY <2>1, <3>1, <4>1, CutFacts
      <4> QED BY <4>2, <4>3
    <3> QED BY <3>1, <3>2
  <2>7. more \in [1 .. m -> Seq(Cells)]
    <3>1. more = [n \in 1 .. m |-> more[n]]
      BY DEF RowsOf
    <3> HIDE DEF more, m
    <3> QED BY <2>6, <3>1
  <2>8. more \in Seq(Seq(Cells)) /\ Len(more) = m
    <3> HIDE DEF more, m
    <3> QED BY <2>4, <2>7
  <2> HIDE DEF more, L, m
  <2>9. /\ received' \in Seq(Seq(Cells)) /\ Len(received') = L + m
        /\ \A n \in 1 .. L + m : received'[n] = IF n <= L THEN received[n] ELSE more[n - L]
    BY <1>4, <2>3, <2>4, <2>8, SMTT(30) DEF more, L, m
  <2> DEFINE next == [n \in 1 .. L + m |-> IF n <= L THEN order[n] ELSE Met[n - L]]
  <2>10. ASSUME NEW n \in 1 .. L + m
         PROVE  /\ n <= L => n \in 1 .. L /\ next[n] = order[n] /\ received'[n] = received[n]
                /\ ~ (n <= L) => /\ n - L \in 1 .. m /\ next[n] = Met[n - L]
                                 /\ received'[n] = Made[n - L]
    <3>1. n <= L => n \in 1 .. L /\ next[n] = order[n]
      BY <2>3
    <3>2. ~ (n <= L) => n - L \in 1 .. m /\ next[n] = Met[n - L]
      BY <2>3, <2>4
    <3> QED BY <2>6, <2>9, <3>1, <3>2
  <2>11. \A n \in 1 .. L : /\ n \in 1 .. L + m /\ next[n] = order[n] /\ order[n] < table1iter
                           /\ order[n] \in First(t1, t2)
    <3>1. \A n \in 1 .. L : n \in 1 .. L + m /\ next[n] = order[n]
      BY <2>3, <2>4
    <3> QED BY <2>2, <3>1 DEF L
  <2>12. \A n \in 1 .. m : L + n \in 1 .. L + m /\ next[L + n] = Met[n]
    <3> SUFFICES ASSUME NEW n \in 1 .. m
                 PROVE  L + n \in 1 .. L + m /\ next[L + n] = Met[n]
      OBVIOUS
    <3>1. L + n \in 1 .. L + m /\ ~ (L + n <= L) /\ (L + n) - L = n
      BY <2>3, <2>4
    <3> QED BY <2>10, <3>1
  <2>13. next \in [1 .. L + m -> First(t1, t2)]
    <3>1. \A n \in 1 .. L + m : next[n] \in First(t1, t2)
      BY <2>4, <2>10, <2>11
    <3>2. next = [n \in 1 .. L + m |-> next[n]]
      OBVIOUS
    <3> HIDE DEF next
    <3> QED BY <3>1, <3>2
  <2> HIDE DEF next
  <2>14. ASSUME NEW n \in 1 .. L + m, NEW p \in 1 .. L + m, next[n] = next[p]
         PROVE  n = p
    <3>1. CASE n <= L /\ p <= L
      BY <2>2, <2>10, <2>14, <3>1 DEF L
    <3>2. CASE ~ (n <= L) /\ ~ (p <= L)
      <4>1. n - L = p - L
        BY <2>4, <2>10, <2>14, <3>2
      <4> QED BY <2>3, <2>4, <4>1
    <3>3. CASE (n <= L /\ ~ (p <= L)) \/ (p <= L /\ ~ (n <= L))
      BY <2>4, <2>10, <2>11, <2>14, <3>3
    <3> QED BY <3>1, <3>2, <3>3
  <2>15. ASSUME NEW i \in First(t1, t2)
         PROVE  i < table1iter' <=> \E n \in 1 .. L + m : next[n] = i
    <3>1. ASSUME i < table1iter' PROVE \E n \in 1 .. L + m : next[n] = i
      <4>1. CASE i < table1iter
        BY <2>2, <2>11, <4>1 DEF L
      <4>2. CASE \E n \in 1 .. m : Met[n] = i
        BY <2>12, <4>2
      <4> QED BY <2>4, <3>1, <4>1, <4>2
    <3>2. ASSUME NEW n \in 1 .. L + m, next[n] = i PROVE i < table1iter'
      <4>1. CASE n <= L
        BY <2>4, <2>10, <2>11, <3>2, <4>1
      <4>2. CASE ~ (n <= L)
        BY <2>4, <2>10, <3>2, <4>2
      <4> QED BY <4>1, <4>2
    <3> QED BY <3>1, <3>2
  <2>16. ASSUME NEW n \in 1 .. L + m
         PROVE  GivenFor(received'[n], t1, next[n])
    <3>1. CASE n <= L
      BY <2>2, <2>10, <3>1 DEF L
    <3>2. CASE ~ (n <= L)
      BY <2>6, <2>10, <3>2
    <3> QED BY <3>1, <3>2
  <2>17. join'.running = FilledUp
    BY <1>4 DEF SceneInv, JoinTyped, NoJoin
  <2>18. \A n \in 1 .. Len(received') :
            /\ received'[n][1] = Word(t1, indexMap'[next[n]].key, 0)
            /\ loaded' \/ \E u \in Ids', b \in Blocks :
                  /\ <<u, indexMap'[next[n]].key, b>> \in inserted'
                  /\ received'[n] = Row(t1, indexMap'[next[n]].key) \o Tail(Row(u, indexMap'[next[n]].key))
    BY <1>1, <1>2, <2>9, <2>16 DEF GivenFor
  <2>19. \E after \in [1 .. Len(received') -> First(t1, t2)'] :
            /\ \A n, p \in 1 .. Len(received') : after[n] = after[p] => n = p
            /\ \A i \in First(t1, t2)' :
                  i < table1iter' <=> \E n \in 1 .. Len(received') : after[n] = i
            /\ \A n \in 1 .. Len(received') :
                  /\ received'[n][1] = Word(t1, indexMap'[after[n]].key, 0)
                  /\ loaded' \/ \E u \in Ids', b \in Blocks :
                        /\ <<u, indexMap'[after[n]].key, b>> \in inserted'
                        /\ received'[n] = Row(t1, indexMap'[after[n]].key)
                                            \o Tail(Row(u, indexMap'[after[n]].key))
    <3>1. next \in [1 .. Len(received') -> First(t1, t2)']
      BY <1>2, <2>9, <2>13
    <3>2. \A n, p \in 1 .. Len(received') : next[n] = next[p] => n = p
      BY <2>9, <2>14
    <3>3. \A i \in First(t1, t2)' :
             i < table1iter' <=> \E n \in 1 .. Len(received') : next[n] = i
      BY <1>2, <2>9, <2>15
    <3> WITNESS next \in [1 .. Len(received') -> First(t1, t2)']
    <3> QED BY <2>18, <3>2, <3>3
  <2> QED BY <2>4, <2>9, <2>17, <2>19 DEF Progress, GivenFor
<1> QED BY <1>3, <1>4, FetchCases

\* A fetch keeps what is known of the join.
LEMMA FetchKeeps ==
    ASSUME KeysFit, TableInv, SceneInv, JoinInv, FetchJoinPage
    PROVE  JoinInv'
<1>1. /\ UNCHANGED <<currId, indexMap, disk, inserted, loaded, expected>>
      /\ join.running
      /\ join' = join \/ join' = [join EXCEPT !.running = FilledUp]
  BY FetchCases
<1>2. join'.tables = join.tables
  BY <1>1 DEF SceneInv, JoinTyped, NoJoin
<1> SUFFICES ASSUME NEW t1 \in Ids', NEW t2 \in Ids', join'.tables = <<t1, t2>>
             PROVE  /\ expected' = {Row(t1, k) \o Tail(Row(t2, k)) : k \in KeysOf(t1)' \cap KeysOf(t2)'}
                    /\ Intact' /\ Fits(t1, t2)' => Progress(t1, t2)'
  BY DEF JoinInv
<1>3. /\ t1 \in Ids /\ t2 \in Ids /\ (Intact' <=> Intact) /\ (Fits(t1, t2)' <=> Fits(t1, t2))
      /\ KeysOf(t1)' = KeysOf(t1) /\ KeysOf(t2)' = KeysOf(t2)
  BY <1>1, SameScene
<1>4. /\ expected = {Row(t1, k) \o Tail(Row(t2, k)) : k \in KeysOf(t1) \cap KeysOf(t2)}
      /\ Intact /\ Fits(t1, t2) => Progress(t1, t2)
  BY <1>2, <1>3 DEF JoinInv
<1>5. Intact /\ Fits(t1, t2) => Progress(t1, t2)'
  BY <1>2, <1>3, <1>4, FetchProgress
<1> QED BY <1>1, <1>3, <1>4, <1>5

\* Other commands forget the join.
LEMMA ForgetKeeps == ASSUME join' = NoJoin PROVE JoinInv'
BY DEF NoJoin, JoinInv

TableJoinInv == TableInv /\ SceneInv /\ JoinInv

\* The invariant holds in every reachable state when tables come first and keys
\* fit their entries.
THEOREM TableJoinInvariant ==
    ASSUME Scripted, KeysFit
    PROVE  Spec => []TableJoinInv
<1>1. Init => TableJoinInv
  BY InitTables, InitScene, ForgetKeeps DEF TableJoinInv, Init, JoinInv, NoJoin
<1>2. TableJoinInv /\ [Next]_tvars => TableJoinInv'
  <2> SUFFICES ASSUME TableJoinInv, [Next]_tvars PROVE TableJoinInv'
    OBVIOUS
  <2>1. TableInv' /\ SceneInv'
    BY TablesStep, SceneStep DEF TableJoinInv
  <2>2. JoinInv'
    <3>1. CASE CreateTable
      BY <3>1, ForgetKeeps DEF CreateTable, Forget
    <3>2. ASSUME NEW t \in Ids, NEW k \in Keys, InsertRow(t, k) PROVE JoinInv'
      BY <3>2, ForgetKeeps DEF InsertRow, Forget
    <3>3. ASSUME NEW t \in Ids, NEW load \in Loads, LoadTablePage(t, load[2]) PROVE JoinInv'
      BY <3>3, ForgetKeeps DEF LoadTablePage, Forget
    <3>4. ASSUME NEW t1 \in Ids, NEW t2 \in Ids, StartJoin(t1, t2) PROVE JoinInv'
      BY <3>4, StartKeeps
    <3>5. CASE FetchJoinPage
      BY <3>5, FetchKeeps DEF TableJoinInv
    <3>6. CASE UNCHANGED tvars
      <4>1. /\ Ids' = Ids /\ (Intact' <=> Intact)
            /\ \A t1, t2 : First(t1, t2)' = First(t1, t2) /\ (Fits(t1, t2)' <=> Fits(t1, t2))
            /\ \A line, t1, i : GivenFor(line, t1, i)' <=> GivenFor(line, t1, i)
            /\ \A t : KeysOf(t)' = KeysOf(t)
        BY <3>6, SameScene DEF tvars
      <4>2. UNCHANGED <<join, table1iter, received, expected>>
        BY <3>6 DEF tvars
      <4>3. \A t1, t2 : Progress(t1, t2) => Progress(t1, t2)'
        BY <4>1, <4>2 DEF Progress
      <4> QED BY <4>1, <4>2, <4>3 DEF TableJoinInv, JoinInv
    <3> QED BY <3>1, <3>2, <3>3, <3>4, <3>5, <3>6 DEF Next
  <2> QED BY <2>1, <2>2 DEF TableJoinInv
<1> QED BY <1>1, <1>2, PTL DEF Spec

\* Entries of one table have different keys.
LEMMA KeysApart ==
    ASSUME KeysFit, TableInv, NEW t1 \in Ids, NEW t2 \in Ids,
           NEW i \in First(t1, t2), NEW j \in First(t1, t2), indexMap[i].key = indexMap[j].key
    PROVE  i = j
<1> DEFINE k == indexMap[i].key
<1>1. /\ k \in Nat /\ t1 \in Nat /\ Used(i) /\ Used(j)
      /\ i \in Bucket(t1, k) /\ j \in Bucket(t1, k)
  BY FirstFacts, IdFacts
<1> HIDE DEF k
<1> QED BY <1>1 DEF TableInv, IndexInv, KeysOnce

\* The tables of a join that was answered.
LEMMA AnsweredFacts ==
    ASSUME TableJoinInv, Answered
    PROVE  /\ join.tables[1] \in Ids /\ join.tables[2] \in Ids /\ ~ join.running
           /\ join.tables = <<join.tables[1], join.tables[2]>>
<1>1. join.tables # <<>> /\ ~ join.running
  BY DEF Answered
<1>2. PICK t1 \in Ids, t2 \in Ids, r \in BOOLEAN : join = [tables |-> <<t1, t2>>, running |-> r]
  BY <1>1 DEF TableJoinInv, SceneInv, JoinTyped, NoJoin
<1>3. join.tables = <<t1, t2>>
  BY <1>2
<1> QED BY <1>1, <1>3

\* Whatever the index says of the second table, a finished join gave each row
\* of the first one at most once, when the rows of all tables have one width
\* (dbSSD-host.cpp:180, nvme_io_cmd.c:219).
THEOREM FirstRowsOnceTheorem ==
    ASSUME Scripted, KeysFit, SameSchema
    PROVE  Spec => []FirstRowsOnce
<1>1. TableJoinInv => FirstRowsOnce
  <2> SUFFICES ASSUME TableJoinInv, Answered, Intact,
                      NEW n \in DOMAIN received, NEW m \in DOMAIN received, n # m
               PROVE  received[n][1] # received[m][1]
    BY DEF FirstRowsOnce
  <2> DEFINE t1 == join.tables[1]
             t2 == join.tables[2]
  <2>0. /\ t1 \in Ids /\ t2 \in Ids /\ join.tables = <<t1, t2>>
        /\ Ids \subseteq 1 .. MaxTables /\ inserted \subseteq Ids \X Keys \X Blocks
    BY AnsweredFacts, IdFacts DEF TableJoinInv, TableInv, IndexInv, RowsTyped
  <2>1. t1 \in Ids /\ t2 \in Ids /\ Progress(t1, t2)
    <3> HIDE DEF t1, t2
    <3>1. ASSUME NEW row \in inserted PROVE RowWidth[row[1]] = RowWidth[t2]
      <4>1. row[1] \in Ids
        BY <2>0
      <4> QED BY <2>0, <4>1 DEF SameSchema
    <3>2. Fits(t1, t2)
      BY <3>1 DEF Fits
    <3> QED BY <2>0, <3>2 DEF TableJoinInv, JoinInv
  <2> HIDE DEF t1, t2
  <2>2. PICK order \in [1 .. Len(received) -> First(t1, t2)] :
          /\ \A i, j \in 1 .. Len(received) : order[i] = order[j] => i = j
          /\ \A i \in 1 .. Len(received) : GivenFor(received[i], t1, order[i])
    BY <2>1 DEF Progress
  <2>3. n \in 1 .. Len(received) /\ m \in 1 .. Len(received)
    BY <2>1 DEF Progress
  <2>4. /\ order[n] \in First(t1, t2) /\ order[m] \in First(t1, t2) /\ order[n] # order[m]
        /\ GivenFor(received[n], t1, order[n]) /\ GivenFor(received[m], t1, order[m])
    BY <2>2, <2>3
  <2>5. indexMap[order[n]].key # indexMap[order[m]].key
    BY <2>1, <2>4, KeysApart DEF TableJoinInv
  <2>6. /\ received[n][1] = Word(t1, indexMap[order[n]].key, 0)
        /\ received[m][1] = Word(t1, indexMap[order[m]].key, 0)
    BY <2>4 DEF GivenFor
  <2> QED BY <2>5, <2>6 DEF Word
<1> QED BY <1>1, TableJoinInvariant, PTL

\* A finished join of a table with itself, none of whose keys another table
\* holds, gave a row for each of its keys once, and the rows inserted as long as
\* no sector was loaded (dbSSD-host.cpp:180, nvme_io_cmd.c:219).  Tables may have
\* rows of different widths.
THEOREM SelfJoinTheorem ==
    ASSUME Scripted, KeysFit
    PROVE  Spec => []SelfJoinCorrect
<1>1. TableJoinInv => SelfJoinCorrect
  <2> SUFFICES ASSUME TableJoinInv, Answered, Intact,
                      join.tables[1] = join.tables[2],
                      \A row \in inserted : row[1] = join.tables[1] => Unshared(row)
               PROVE  /\ Len(received) = Cardinality(expected)
                      /\ {line[1] : line \in ToSet(received)} = {line[1] : line \in expected}
                      /\ loaded \/ ToSet(received) = expected
    BY DEF SelfJoinCorrect
  <2> DEFINE t == join.tables[1]
             Line(k) == Row(t, k) \o Tail(Row(t, k))
  <2>1. t \in Ids /\ join.tables = <<t, t>> /\ ~ join.running
    BY AnsweredFacts
  <2>2. \A row \in inserted : row[1] = t => Unshared(row)
    OBVIOUS
  <2> HIDE DEF t
  <2>3. Fits(t, t)
    <3>1. ASSUME NEW i \in First(t, t), NEW row \in inserted, row[2] = indexMap[i].key
          PROVE  row[1] = t
      <4>1. <<t, indexMap[i].key, indexMap[i].slb>> \in inserted
        BY <2>1, FirstFacts DEF TableJoinInv
      <4>2. Unshared(<<t, indexMap[i].key, indexMap[i].slb>>)
        BY <2>2, <4>1
      <4> QED BY <3>1, <4>2 DEF Unshared
    <3> QED BY <3>1 DEF Fits
  <2>4. TableInv /\ Progress(t, t) /\ expected = {Line(k) : k \in KeysOf(t) \cap KeysOf(t)}
    BY <2>1, <2>3 DEF TableJoinInv, JoinInv
  <2>5. PICK order \in [1 .. Len(received) -> First(t, t)] :
          /\ \A i, j \in 1 .. Len(received) : order[i] = order[j] => i = j
          /\ \A i \in First(t, t) :
                i < table1iter <=> \E n \in 1 .. Len(received) : order[n] = i
          /\ \A i \in 1 .. Len(received) : GivenFor(received[i], t, order[i])
    BY <2>4 DEF Progress
  <2>6. /\ received \in Seq(Seq(Cells)) /\ Len(received) \in Nat
        /\ table1iter = BUCKET_COUNT * BUCKET_LENGTH
    BY <2>1, <2>4 DEF Progress
  <2>7. \A i \in First(t, t) : \E n \in 1 .. Len(received) : order[n] = i
    <3>1. \A i \in Slots : i < table1iter
      <4> DEFINE z == BUCKET_COUNT * BUCKET_LENGTH
      <4>1. z \in Nat /\ Slots = 0 .. z - 1 /\ table1iter = z
        BY <2>6, BucketAssumption DEF Slots
      <4> HIDE DEF z
      <4> QED BY <4>1
    <3> QED BY <2>5, <3>1 DEF First
  <2>8. ASSUME NEW i \in First(t, t)
        PROVE  /\ indexMap[i].key \in KeysOf(t) /\ indexMap[i].key \in Nat
               /\ Line(indexMap[i].key)[1] = Word(t, indexMap[i].key, 0)
               /\ \A line : GivenFor(line, t, i)
                            => /\ line[1] = Word(t, indexMap[i].key, 0)
                               /\ loaded \/ line = Line(indexMap[i].key)
    <3> DEFINE k == indexMap[i].key
    <3>1. <<t, k, indexMap[i].slb>> \in inserted /\ k \in Nat
      BY <2>1, <2>4, FirstFacts
    <3>2. k \in KeysOf(t)
      BY <3>1 DEF KeysOf
    <3>3. ASSUME NEW u \in Ids, NEW b \in Blocks, <<u, k, b>> \in inserted PROVE u = t
      <4>1. Unshared(<<t, k, indexMap[i].slb>>)
        BY <2>2, <3>1
      <4> QED BY <3>3, <4>1 DEF Unshared
    <3>4. Line(k)[1] = Word(t, k, 0)
      <4> HIDE DEF k
      <4>1. t \in 1 .. MaxTables
        BY <2>1, <2>4, IdFacts
      <4>2. /\ Row(t, k) \in Seq(Cells) /\ Len(Row(t, k)) # 0
            /\ Row(t, k)[1] = Word(t, k, 0)
        BY <3>1, <4>1, RowFacts, PlaceFacts
      <4> QED BY <4>2, LineFacts
    <3> QED BY <3>1, <3>2, <3>3, <3>4 DEF GivenFor
  <2>9. ASSUME NEW k \in KeysOf(t)
        PROVE  \E i \in First(t, t) : indexMap[i].key = k
    <3>1. PICK row \in inserted : row[1] = t /\ row[2] = k
      BY DEF KeysOf
    <3>2. PICK i \in Bucket(t, k) : /\ i \in Slots /\ Used(i) /\ indexMap[i].key = k
                                    /\ getHashMap(t, k) = indexMap[i].slb
      BY <2>4, <3>1, LookupFacts DEF TableInv
    <3>3. <<indexMap[i].table, k, indexMap[i].slb>> \in inserted
      BY <2>4, <3>2 DEF TableInv, IndexInv, EntriesAreRows
    <3>4. indexMap[i].table = t
      BY <2>2, <3>1, <3>3 DEF Unshared
    <3> QED BY <3>2, <3>4 DEF First, Used
  <2> DEFINE row == [n \in 1 .. Len(received) |-> Line(indexMap[order[n]].key)]
  <2>10. ASSUME NEW n \in 1 .. Len(received)
         PROVE  /\ order[n] \in First(t, t) /\ row[n] = Line(indexMap[order[n]].key)
                /\ row[n] \in expected
                /\ row[n][1] = Word(t, indexMap[order[n]].key, 0)
                /\ received[n][1] = row[n][1]
                /\ loaded \/ received[n] = row[n]
    <3>1. order[n] \in First(t, t) /\ GivenFor(received[n], t, order[n])
      BY <2>5
    <3>2. row[n] = Line(indexMap[order[n]].key)
      OBVIOUS
    <3> HIDE DEF row, Line
    <3>3. indexMap[order[n]].key \in KeysOf(t)
      BY <2>8, <3>1
    <3> QED BY <2>4, <2>8, <3>1, <3>2, <3>3
  <2>11. ASSUME NEW line \in expected
         PROVE  \E n \in 1 .. Len(received) : row[n] = line
    <3>1. PICK k \in KeysOf(t) : line = Line(k)
      BY <2>4
    <3>2. PICK i \in First(t, t) : indexMap[i].key = k
      BY <2>9
    <3>3. PICK n \in 1 .. Len(received) : order[n] = i
      BY <2>7
    <3> QED BY <2>10, <3>1, <3>2, <3>3
  <2>12. ASSUME NEW n \in 1 .. Len(received), NEW m \in 1 .. Len(received),
                row[n] = row[m]
         PROVE  n = m
    <3> DEFINE i == order[n]
               j == order[m]
    <3>1. /\ i \in First(t, t) /\ j \in First(t, t)
          /\ row[n][1] = Word(t, indexMap[i].key, 0) /\ row[m][1] = Word(t, indexMap[j].key, 0)
      BY <2>10
    <3> HIDE DEF i, j, row, Line
    <3>2. indexMap[i].key = indexMap[j].key
      BY <2>12, <3>1 DEF Word
    <3>3. i = j
      BY <2>1, <2>4, <3>1, <3>2, KeysApart
    <3> QED BY <2>5, <3>3 DEF i, j
  <2>13. row \in [1 .. Len(received) -> expected]
    <3>1. row = [n \in 1 .. Len(received) |-> row[n]]
      OBVIOUS
    <3> HIDE DEF row
    <3> QED BY <2>10, <3>1
  <2> HIDE DEF row, Line
  <2>14. row \in Bijection(1 .. Len(received), expected)
    BY <2>11, <2>12, <2>13 DEF Bijection, Injection, IsInjective, Surjection
  <2>15. IsFiniteSet(1 .. Len(received)) /\ Cardinality(1 .. Len(received)) = Len(received)
    <3> DEFINE L == Len(received)
    <3>1. L \in Nat
      BY <2>6
    <3> HIDE DEF L
    <3>2. IsFiniteSet(1 .. L) /\ Cardinality(1 .. L) = L
      BY <3>1, FS_Interval
    <3> QED BY <3>2 DEF L
  <2>16. Cardinality(expected) = Len(received)
    BY <2>14, <2>15, FS_Bijection DEF ExistsBijection
  <2>17. ToSet(received) = {received[n] : n \in 1 .. Len(received)}
    <3>1. DOMAIN received = 1 .. Len(received)
      BY <2>6
    <3> QED BY <3>1 DEF ToSet
  <2>18. {line[1] : line \in ToSet(received)} = {line[1] : line \in expected}
    <3>1. ASSUME NEW line \in ToSet(received) PROVE \E other \in expected : line[1] = other[1]
      <4>1. PICK n \in 1 .. Len(received) : line = received[n]
        BY <2>17
      <4> QED BY <2>10, <4>1
    <3>2. ASSUME NEW line \in expected PROVE \E other \in ToSet(received) : line[1] = other[1]
      <4>1. PICK n \in 1 .. Len(received) : row[n] = line
        BY <2>11
      <4>2. received[n] \in ToSet(received) /\ received[n][1] = line[1]
        BY <2>10, <2>17, <4>1
      <4> QED BY <4>2
    <3> QED BY <3>1, <3>2
  <2>19. loaded \/ ToSet(received) = expected
    <3> SUFFICES ASSUME ~ loaded PROVE ToSet(received) = expected
      OBVIOUS
    <3> QED BY <2>10, <2>11, <2>17
  <2> QED BY <2>16, <2>18, <2>19
<1> QED BY <1>1, TableJoinInvariant, PTL

=============================================================================
