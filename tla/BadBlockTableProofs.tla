------------------------- MODULE BadBlockTableProofs ------------------------
(***************************************************************************)
(* What the translations of RowAddress keep, for every row of a die and    *)
(* every size of a LUN, and what becomes of the bad block table over any   *)
(* number of starts, saves and power failures.                             *)
(***************************************************************************)
EXTENDS BadBlockTable, FiniteSetTheorems, TLAPS

-----------------------------------------------------------------------------
(***************************************************************************)
(* Addresses of rows.                                                      *)
(***************************************************************************)
\* Dividing by the size of a LUN tells the two LUNs of a die apart.
LEMMA LunOf ==
    ASSUME NEW size \in Nat \ {0}, NEW r \in 0 .. 2 * size - 1
    PROVE  /\ r \div size \in 0 .. 1 /\ r % size \in 0 .. size - 1
           /\ r < size => r \div size = 0 /\ r % size = r
           /\ r >= size => r \div size = 1 /\ r % size = r - size
PROOF
  <1>1. r < size => r \div size = 0 /\ r % size = r
    OBVIOUS
  <1>2. r >= size => r \div size = 1 /\ r % size = r - size
    OBVIOUS
  <1> QED  BY <1>1, <1>2

\* Dividing by the pages of a block takes a number apart into block and page.
LEMMA BlockOf ==
    ASSUME NEW r \in Nat
    PROVE  /\ r \div PAGE_NUM_PER_BLOCK \in Nat
           /\ r % PAGE_NUM_PER_BLOCK \in 0 .. PAGE_NUM_PER_BLOCK - 1
           /\ r = (r \div PAGE_NUM_PER_BLOCK) * PAGE_NUM_PER_BLOCK + (r % PAGE_NUM_PER_BLOCK)
  BY DEF PAGE_NUM_PER_BLOCK

\* A row is a LUN, a block of it and a page of that block.
LEMMA RowParts ==
    ASSUME NEW row \in DieRows
    PROVE  LET lun == row \div PAGE_NUM_PER_LUN
               inLun == row % PAGE_NUM_PER_LUN
               block == inLun \div PAGE_NUM_PER_BLOCK
               page == row % PAGE_NUM_PER_BLOCK
           IN  /\ lun \in 0 .. 1
               /\ block \in 0 .. BLOCK_NUM_PER_LUN - 1
               /\ page \in 0 .. PAGE_NUM_PER_BLOCK - 1
               /\ lun = 0 => row = block * PAGE_NUM_PER_BLOCK + page
               /\ lun = 1 => row = PAGE_NUM_PER_LUN + block * PAGE_NUM_PER_BLOCK + page
               /\ row \div PAGE_NUM_PER_BLOCK = lun * BLOCK_NUM_PER_LUN + block
PROOF
  <1> DEFINE lun == row \div PAGE_NUM_PER_LUN
             inLun == row % PAGE_NUM_PER_LUN
             block == inLun \div PAGE_NUM_PER_BLOCK
             page == row % PAGE_NUM_PER_BLOCK
  <1>1. /\ BLOCK_NUM_PER_LUN \in Nat \ {0}
        /\ PAGE_NUM_PER_LUN = 128 * BLOCK_NUM_PER_LUN
        /\ PAGE_NUM_PER_BLOCK = 128
    BY LunAssumption DEF PAGE_NUM_PER_LUN, PAGE_NUM_PER_BLOCK
  <1>2. PAGE_NUM_PER_LUN \in Nat \ {0} /\ row \in 0 .. 2 * PAGE_NUM_PER_LUN - 1
    BY <1>1 DEF DieRows
  <1>3. /\ lun \in 0 .. 1
        /\ inLun \in 0 .. PAGE_NUM_PER_LUN - 1
        /\ lun = 0 => row = inLun
        /\ lun = 1 => row = PAGE_NUM_PER_LUN + inLun
    <2>1. /\ lun \in 0 .. 1 /\ inLun \in 0 .. PAGE_NUM_PER_LUN - 1
          /\ row < PAGE_NUM_PER_LUN => lun = 0 /\ inLun = row
          /\ row >= PAGE_NUM_PER_LUN => lun = 1 /\ inLun = row - PAGE_NUM_PER_LUN
      BY <1>2, LunOf, Zenon
    <2> HIDE DEF lun, inLun
    <2> QED  BY <1>2, <2>1
  <1> HIDE DEF lun, inLun
  <1>4. /\ block \in 0 .. BLOCK_NUM_PER_LUN - 1
        /\ inLun = block * 128 + (inLun % 128)
        /\ inLun % 128 \in 0 .. 127
    BY <1>1, <1>3
  <1>5. lun = 0 => page = inLun % 128 /\ row \div 128 = block
    BY <1>1, <1>3
  <1>6. lun = 1 => page = inLun % 128 /\ row \div 128 = BLOCK_NUM_PER_LUN + block
    BY <1>1, <1>3
  <1>7. /\ block \in Nat /\ page \in 0 .. 127
        /\ inLun = block * 128 + page
    BY <1>3, <1>4, <1>5, <1>6
  <1> HIDE DEF block, page
  <1>8. /\ lun \in 0 .. 1
        /\ block \in 0 .. BLOCK_NUM_PER_LUN - 1
        /\ page \in 0 .. PAGE_NUM_PER_BLOCK - 1
        /\ lun = 0 => row = block * PAGE_NUM_PER_BLOCK + page
        /\ lun = 1 => row = PAGE_NUM_PER_LUN + block * PAGE_NUM_PER_BLOCK + page
        /\ row \div PAGE_NUM_PER_BLOCK = lun * BLOCK_NUM_PER_LUN + block
    BY <1>1, <1>3, <1>4, <1>5, <1>6, <1>7
  <1> QED  BY <1>8 DEF lun, inLun, block, page

\* The pages of a block land on different pages of the chip's block, and the
\* last page of the chip's block holds none of them.
LEMMA LsbPageInBlock ==
    ASSUME NEW p \in 0 .. PAGE_NUM_PER_BLOCK - 1
    PROVE  /\ LsbPage(p) \in 0 .. PAGE_NUM_PER_MLC_BLOCK - 2
           /\ \A q \in 0 .. PAGE_NUM_PER_BLOCK - 1 : LsbPage(p) = LsbPage(q) => p = q
  BY DEF LsbPage, PAGE_NUM_PER_BLOCK, PAGE_NUM_PER_MLC_BLOCK

\* An address of the chip gives back its LUN, its block and its page.
LEMMA AddressParts ==
    ASSUME NEW lun \in 0 .. 1, NEW block \in 0 .. MAX_BLOCK_NUM_PER_LUN - 1,
           NEW page \in 0 .. PAGE_NUM_PER_MLC_BLOCK - 1
    PROVE  LET a == LunBase(lun) + block * (PAGE_NUM_PER_BLOCK * 2) + page
           IN  /\ a \div LUN_1_BASE_ADDR = lun
               /\ (a % LUN_1_BASE_ADDR) \div PAGE_NUM_PER_MLC_BLOCK = block
               /\ (a % LUN_1_BASE_ADDR) % PAGE_NUM_PER_MLC_BLOCK = page
PROOF
  <1> DEFINE inLun == block * (PAGE_NUM_PER_BLOCK * 2) + page
             a == LunBase(lun) + block * (PAGE_NUM_PER_BLOCK * 2) + page
  <1>1. /\ MAX_BLOCK_NUM_PER_LUN \in Nat
        /\ 256 * MAX_BLOCK_NUM_PER_LUN <= LUN_1_BASE_ADDR
        /\ LUN_1_BASE_ADDR \in Nat \ {0}
        /\ PAGE_NUM_PER_BLOCK * 2 = 256
        /\ PAGE_NUM_PER_MLC_BLOCK = 256
    BY LunAssumption DEF PAGE_NUM_PER_MLC_BLOCK, PAGE_NUM_PER_BLOCK
  <1>2. inLun \in 0 .. LUN_1_BASE_ADDR - 1 /\ inLun = block * 256 + page
    BY <1>1
  <1>3. /\ inLun \div 256 = block
        /\ inLun % 256 = page
    <2> HIDE DEF inLun
    <2> QED  BY <1>1, <1>2
  <1>4. a = LunBase(lun) + inLun
    BY <1>1 DEF LunBase
  <1> HIDE DEF inLun, a
  <1>5. /\ a \in 0 .. 2 * LUN_1_BASE_ADDR - 1
        /\ lun = 0 => a < LUN_1_BASE_ADDR /\ a = inLun
        /\ lun = 1 => a >= LUN_1_BASE_ADDR /\ a - LUN_1_BASE_ADDR = inLun
    BY <1>1, <1>2, <1>4 DEF LunBase
  <1>6. a \div LUN_1_BASE_ADDR = lun /\ a % LUN_1_BASE_ADDR = inLun
    <2>1. LUN_1_BASE_ADDR \in Nat \ {0} /\ a \in 0 .. 2 * LUN_1_BASE_ADDR - 1
      BY <1>1, <1>5
    <2>2. /\ a < LUN_1_BASE_ADDR => a \div LUN_1_BASE_ADDR = 0 /\ a % LUN_1_BASE_ADDR = a
          /\ a >= LUN_1_BASE_ADDR
              => a \div LUN_1_BASE_ADDR = 1 /\ a % LUN_1_BASE_ADDR = a - LUN_1_BASE_ADDR
      BY <2>1, LunOf, Zenon
    <2> QED  BY <1>5, <2>2
  <1> QED  BY <1>1, <1>3, <1>6 DEF a

\* The three parts of a row come back from its address on the chip.
LEMMA PhyRowParts ==
    ASSUME NEW row \in DieRows
    PROVE  LET a == PhyRow(row)
           IN  /\ a \div LUN_1_BASE_ADDR = row \div PAGE_NUM_PER_LUN
               /\ (a % LUN_1_BASE_ADDR) \div PAGE_NUM_PER_MLC_BLOCK
                      = (row % PAGE_NUM_PER_LUN) \div PAGE_NUM_PER_BLOCK
               /\ (a % LUN_1_BASE_ADDR) % PAGE_NUM_PER_MLC_BLOCK
                      = LsbPage(row % PAGE_NUM_PER_BLOCK)
PROOF
  <1> DEFINE lun == row \div PAGE_NUM_PER_LUN
             block == (row % PAGE_NUM_PER_LUN) \div PAGE_NUM_PER_BLOCK
             page == row % PAGE_NUM_PER_BLOCK
  <1>1. /\ lun \in 0 .. 1
        /\ block \in 0 .. BLOCK_NUM_PER_LUN - 1
        /\ page \in 0 .. PAGE_NUM_PER_BLOCK - 1
    BY RowParts
  <1>2. block \in 0 .. MAX_BLOCK_NUM_PER_LUN - 1
    BY <1>1, LunAssumption
  <1>3. LsbPage(page) \in 0 .. PAGE_NUM_PER_MLC_BLOCK - 1
    BY <1>1, LsbPageInBlock DEF PAGE_NUM_PER_MLC_BLOCK
  <1>4. PhyRow(row) = LunBase(lun) + block * (PAGE_NUM_PER_BLOCK * 2) + LsbPage(page)
    BY DEF PhyRow
  <1> HIDE DEF lun, block, page
  <1>5. LET a == PhyRow(row)
        IN  /\ a \div LUN_1_BASE_ADDR = lun
            /\ (a % LUN_1_BASE_ADDR) \div PAGE_NUM_PER_MLC_BLOCK = block
            /\ (a % LUN_1_BASE_ADDR) % PAGE_NUM_PER_MLC_BLOCK = LsbPage(page)
    BY <1>1, <1>2, <1>3, <1>4, AddressParts
  <1> QED  BY <1>5 DEF lun, block, page

\* A read that warns has its own block replaced: translating the address of a
\* row back (low_level_scheduler.c:615-617) gives the chip's number of its block.
THEOREM WarnedBlockIsTheBlock ==
    \A row \in DieRows : WarnedBlock(PhyRow(row)) = PhyBlock(row \div PAGE_NUM_PER_BLOCK)
PROOF
  <1> SUFFICES ASSUME NEW row \in DieRows
               PROVE  WarnedBlock(PhyRow(row)) = PhyBlock(row \div PAGE_NUM_PER_BLOCK)
    OBVIOUS
  <1> DEFINE lun == row \div PAGE_NUM_PER_LUN
             block == (row % PAGE_NUM_PER_LUN) \div PAGE_NUM_PER_BLOCK
             b == row \div PAGE_NUM_PER_BLOCK
  <1>1. /\ lun \in 0 .. 1
        /\ block \in 0 .. BLOCK_NUM_PER_LUN - 1
        /\ b = lun * BLOCK_NUM_PER_LUN + block
    BY RowParts
  <1>2. WarnedBlock(PhyRow(row)) = lun * MAX_BLOCK_NUM_PER_LUN + block
    BY PhyRowParts DEF WarnedBlock
  <1> HIDE DEF lun, block, b
  <1>3. b \in 0 .. 2 * BLOCK_NUM_PER_LUN - 1 /\ BLOCK_NUM_PER_LUN \in Nat \ {0}
    BY <1>1, LunAssumption
  <1>4. b \div BLOCK_NUM_PER_LUN = lun /\ b % BLOCK_NUM_PER_LUN = block
    BY <1>1, <1>3, LunOf
  <1> QED  BY <1>2, <1>4 DEF PhyBlock, b

\* Two rows of a die never share a page of the chip, so no program overwrites
\* the page of another row (PushToReqQueue and PushToSubReqQueue).
THEOREM RowsApart ==
    \A r, s \in DieRows : PhyRow(r) = PhyRow(s) => r = s
PROOF
  <1> SUFFICES ASSUME NEW r \in DieRows, NEW s \in DieRows, PhyRow(r) = PhyRow(s)
               PROVE  r = s
    OBVIOUS
  <1> DEFINE lun(x) == x \div PAGE_NUM_PER_LUN
             block(x) == (x % PAGE_NUM_PER_LUN) \div PAGE_NUM_PER_BLOCK
             page(x) == x % PAGE_NUM_PER_BLOCK
  <1>1. lun(r) = lun(s) /\ block(r) = block(s) /\ LsbPage(page(r)) = LsbPage(page(s))
    BY PhyRowParts
  <1>2. ASSUME NEW x \in DieRows
        PROVE  /\ page(x) \in 0 .. PAGE_NUM_PER_BLOCK - 1
               /\ lun(x) \in 0 .. 1
               /\ lun(x) = 0 => x = block(x) * PAGE_NUM_PER_BLOCK + page(x)
               /\ lun(x) = 1 => x = PAGE_NUM_PER_LUN + block(x) * PAGE_NUM_PER_BLOCK + page(x)
    BY <1>2, RowParts
  <1>3. page(r) = page(s)
    BY <1>1, <1>2, LsbPageInBlock
  <1> HIDE DEF lun, block, page
  <1> QED  BY <1>1, <1>2, <1>3

\* The second page that the scan for factory marks reads is never programmed:
\* whatever the blocks hold, only a factory mark shows there, so a rescan
\* still finds it (RecoverBadBlockTable reads it with LLSCommand_ReadRawPage).
THEOREM LastRawPageHoldsNoRow ==
    \A b \in DieBlocks : \A row \in DieRows :
        RawRow(PhyBlock(b), PAGE_NUM_PER_BLOCK - 1) # PhyRow(row)
PROOF
  <1> SUFFICES ASSUME NEW b \in DieBlocks, NEW row \in DieRows
               PROVE  RawRow(PhyBlock(b), PAGE_NUM_PER_BLOCK - 1) # PhyRow(row)
    OBVIOUS
  <1> DEFINE blun == PhyBlock(b) \div MAX_BLOCK_NUM_PER_LUN
             bblock == PhyBlock(b) % MAX_BLOCK_NUM_PER_LUN
             last == 2 * PAGE_NUM_PER_BLOCK - 1
  <1>1. last \in 0 .. PAGE_NUM_PER_MLC_BLOCK - 1 /\ last = PAGE_NUM_PER_MLC_BLOCK - 1
    BY DEF PAGE_NUM_PER_BLOCK, PAGE_NUM_PER_MLC_BLOCK
  <1>2. /\ BLOCK_NUM_PER_LUN \in Nat \ {0} /\ MAX_BLOCK_NUM_PER_LUN \in Nat \ {0}
        /\ BLOCK_NUM_PER_LUN <= MAX_BLOCK_NUM_PER_LUN
        /\ b \in 0 .. 2 * BLOCK_NUM_PER_LUN - 1
    BY LunAssumption DEF DieBlocks, BLOCK_NUM_PER_DIE
  <1>3. PhyBlock(b) \in 0 .. 2 * MAX_BLOCK_NUM_PER_LUN - 1
    <2>1. CASE b < BLOCK_NUM_PER_LUN
      <3>1. PhyBlock(b) = b
        <4>1. b \div BLOCK_NUM_PER_LUN = 0 /\ b % BLOCK_NUM_PER_LUN = b
          BY <1>2, <2>1, LunOf, Zenon
        <4> QED  BY <1>2, <4>1 DEF PhyBlock
      <3> QED  BY <1>2, <2>1, <3>1
    <2>2. CASE b >= BLOCK_NUM_PER_LUN
      <3>1. PhyBlock(b) = MAX_BLOCK_NUM_PER_LUN + (b - BLOCK_NUM_PER_LUN)
        <4>1. b \div BLOCK_NUM_PER_LUN = 1 /\ b % BLOCK_NUM_PER_LUN = b - BLOCK_NUM_PER_LUN
          BY <1>2, <2>2, LunOf, Zenon
        <4> QED  BY <1>2, <4>1 DEF PhyBlock
      <3> QED  BY <1>2, <2>2, <3>1
    <2> QED  BY <1>2, <2>1, <2>2
  <1>4. blun \in 0 .. 1 /\ bblock \in 0 .. MAX_BLOCK_NUM_PER_LUN - 1
    BY <1>2, <1>3, LunOf
  <1>5. RawRow(PhyBlock(b), PAGE_NUM_PER_BLOCK - 1)
            = LunBase(blun) + bblock * (PAGE_NUM_PER_BLOCK * 2) + last
    BY DEF RawRow
  <1> HIDE DEF blun, bblock, last
  <1>6. (RawRow(PhyBlock(b), PAGE_NUM_PER_BLOCK - 1) % LUN_1_BASE_ADDR) % PAGE_NUM_PER_MLC_BLOCK
            = PAGE_NUM_PER_MLC_BLOCK - 1
    BY <1>1, <1>4, <1>5, AddressParts
  <1>7. row % PAGE_NUM_PER_BLOCK \in 0 .. PAGE_NUM_PER_BLOCK - 1
    BY RowParts
  <1>8. LsbPage(row % PAGE_NUM_PER_BLOCK) # PAGE_NUM_PER_MLC_BLOCK - 1
    BY <1>7, LsbPageInBlock DEF PAGE_NUM_PER_MLC_BLOCK
  <1> QED  BY <1>6, <1>8, PhyRowParts

\* In SLC mode the tables number every block of the chip (init_ftl.h:85, 86).
AllBlocksNumbered == BLOCK_NUM_PER_LUN = MAX_BLOCK_NUM_PER_LUN

\* Then the numbers of the map are those of the chip.
LEMMA SameNumbers ==
    ASSUME AllBlocksNumbered
    PROVE  PhyBlocks = DieBlocks /\ \A b \in DieBlocks : PhyBlock(b) = b
<1>1. BLOCK_NUM_PER_LUN \in Nat \ {0} /\ MAX_BLOCK_NUM_PER_LUN = BLOCK_NUM_PER_LUN
  BY LunAssumption DEF AllBlocksNumbered
<1>2. PhyBlocks = DieBlocks
  BY <1>1 DEF PhyBlocks, DieBlocks, BLOCK_NUM_PER_DIE
<1>3. ASSUME NEW b \in DieBlocks PROVE PhyBlock(b) = b
  <2>1. b \in 0 .. 2 * BLOCK_NUM_PER_LUN - 1
    BY DEF DieBlocks, BLOCK_NUM_PER_DIE
  <2>2. /\ b < BLOCK_NUM_PER_LUN => b \div BLOCK_NUM_PER_LUN = 0 /\ b % BLOCK_NUM_PER_LUN = b
        /\ b >= BLOCK_NUM_PER_LUN => /\ b \div BLOCK_NUM_PER_LUN = 1
                                     /\ b % BLOCK_NUM_PER_LUN = b - BLOCK_NUM_PER_LUN
    BY <1>1, <2>1, LunOf, Zenon
  <2> QED BY <1>1, <2>1, <2>2 DEF PhyBlock
<1> QED BY <1>2, <1>3

\* The address of a page that the scan reads gives back its block.
LEMMA RawRowBlock ==
    ASSUME NEW b \in PhyBlocks, NEW p \in {0, PAGE_NUM_PER_BLOCK - 1}
    PROVE  WarnedBlock(RawRow(b, p)) = b
<1> DEFINE lun == b \div MAX_BLOCK_NUM_PER_LUN
           block == b % MAX_BLOCK_NUM_PER_LUN
           page == IF p = PAGE_NUM_PER_BLOCK - 1 THEN 2 * PAGE_NUM_PER_BLOCK - 1 ELSE LsbPage(p)
           a == LunBase(lun) + block * (PAGE_NUM_PER_BLOCK * 2) + page
<1>1. MAX_BLOCK_NUM_PER_LUN \in Nat \ {0} /\ b \in 0 .. 2 * MAX_BLOCK_NUM_PER_LUN - 1
  BY LunAssumption DEF PhyBlocks
<1>2. /\ lun \in 0 .. 1 /\ block \in 0 .. MAX_BLOCK_NUM_PER_LUN - 1
      /\ b = lun * MAX_BLOCK_NUM_PER_LUN + block
  <2>1. /\ lun \in 0 .. 1 /\ block \in 0 .. MAX_BLOCK_NUM_PER_LUN - 1
        /\ b < MAX_BLOCK_NUM_PER_LUN => lun = 0 /\ block = b
        /\ b >= MAX_BLOCK_NUM_PER_LUN => lun = 1 /\ block = b - MAX_BLOCK_NUM_PER_LUN
    BY <1>1, LunOf, Zenon
  <2> HIDE DEF lun, block
  <2> QED BY <1>1, <2>1
<1>3. page \in 0 .. PAGE_NUM_PER_MLC_BLOCK - 1
  BY DEF PAGE_NUM_PER_BLOCK, PAGE_NUM_PER_MLC_BLOCK, LsbPage
<1>4. RawRow(b, p) = a
  BY DEF RawRow
<1> HIDE DEF lun, block, page
<1>5. a \div LUN_1_BASE_ADDR = lun /\ (a % LUN_1_BASE_ADDR) \div PAGE_NUM_PER_MLC_BLOCK = block
  BY <1>2, <1>3, AddressParts
<1> QED BY <1>2, <1>4, <1>5 DEF WarnedBlock

-----------------------------------------------------------------------------
(***************************************************************************)
(* The table of bad blocks.  The invariant says, for every place where the *)
(* start or EmptyLowLevelQ may wait, what the queue of a die still does,   *)
(* what its table on flash says, and what its slot of the GC buffer holds. *)
(***************************************************************************)
PagesKept == {Erased, PageData} \cup {Table(B) : B \in SUBSET PhyBlocks}
HostPages == {PhyRow(row) : row \in Rows}
OpNames == {"ReadTable", "WriteTable", "ReadPage", "ProgramPage", "Erase"}
Ops == [op : OpNames, at : Nat]

TableTypes ==
    /\ flash \in [Dies -> [table : PagesKept, factory : SUBSET FactoryPages,
                           held : SUBSET HostPages]]
    /\ bad \in [Dies -> SUBSET DieBlocks]
    /\ newBad \in [Dies -> SUBSET DataBlocks]
    /\ badBlockUpdate \in BOOLEAN
    /\ queue \in [Dies -> Seq(Ops)]
    /\ slots \in [Slots -> PagesKept]
    /\ pc \in {"off", "remake", "read", "save", "erase", "run", "update"}
    /\ history \in [saved : [Dies -> SUBSET PhyBlocks], warned : [Dies -> SUBSET DataBlocks],
                    torn : SUBSET Dies, spoilt : SUBSET Dies]

\* what CompulsoryGC queues
Moves(d) ==
    {Op("ReadPage", d + CopySlot), Op("ProgramPage", d + CopySlot)}
        \cup {Op("Erase", b) : b \in DataBlocks}

\* a queue that ends with the save of the table
Saving(d, q) ==
    \A i \in 1 .. Len(q) :
        /\ i = Len(q) => q[i] = Op("WriteTable", d)
        /\ i = Len(q) - 1 => q[i] = Op("Erase", metadataBlockNo)
        /\ i < Len(q) - 1 => q[i] \in Moves(d)

Reading(d, q) == q = <<>> \/ q = <<Op("ReadTable", d)>>

\* the first k blocks are erased, the others are next
Remaking(d, k) ==
    /\ queue[d] = [i \in 1 .. BLOCK_NUM_PER_DIE - k |-> Op("Erase", k + i - 1)]
    /\ k > 0 => flash[d].table = Erased
    /\ flash[d].held \subseteq UNION {RowsOf(b) : b \in k .. BLOCK_NUM_PER_DIE - 1}

QueueOK(d) ==
    /\ pc = "off" => queue[d] = <<>>
    /\ pc = "remake" => \E k \in 0 .. BLOCK_NUM_PER_DIE : Remaking(d, k)
    /\ pc \in {"read", "update"} => Reading(d, queue[d])
    /\ pc \in {"save", "run"} => Saving(d, queue[d])
    /\ pc = "erase" => \A i \in 1 .. Len(queue[d]) : queue[d][i] \in {Op("Erase", b) : b \in DataBlocks}

\* a set of blocks that a table, or the map, may hold for bad
Right(d, B) ==
    /\ FactoryBad(d) \subseteq B
    /\ d \notin history.torn => /\ history.saved[d] \subseteq B
                                /\ B \subseteq FactoryBad(d) \cup history.warned[d]

\* a die without a table has never had one, or lost it with the power
Blank(d) ==
    flash[d].table = Erased /\ d \notin history.torn
        => history.saved[d] = {} /\ flash[d].held = {}

SlotOK(d) == pc \in {"read", "update"} /\ queue[d] = <<>> => slots[d] = flash[d].table

MapOK(d) ==
    /\ flash[d].table = Erased \/ \E B \in SUBSET PhyBlocks : flash[d].table = Table(B) /\ Right(d, B)
    /\ pc \in {"off", "read"} => Blank(d)
    /\ pc \in {"save", "erase", "run", "update"} => Right(d, bad[d])
    /\ pc \in {"erase", "update"} => flash[d].table = Table(bad[d])
    /\ pc \in {"save", "run"} =>
        IF queue[d] = <<>> THEN flash[d].table = Table(bad[d])
        ELSE slots[d] \in {Table(bad[d]), PageData}

TableInv ==
    /\ TableTypes
    /\ \A d \in Dies : QueueOK(d) /\ SlotOK(d) /\ newBad[d] \subseteq history.warned[d]
    /\ pc \notin {"run", "update"} => newBad = NoBlocks
    /\ \A d \in Sound : MapOK(d)

\* The blocks of the map, the metadata block apart.
LEMMA BlockFacts ==
    /\ DieBlocks \subseteq Nat /\ DataBlocks \subseteq DieBlocks
    /\ metadataBlockNo \in DieBlocks /\ metadataBlockNo \notin DataBlocks
    /\ metadataBlockNo = 0 /\ BLOCK_NUM_PER_DIE \in Nat \ {0}
    /\ DieBlocks = 0 .. BLOCK_NUM_PER_DIE - 1
<1>1. BLOCK_NUM_PER_LUN \in Nat \ {0}
  BY LunAssumption
<1> QED BY <1>1 DEF DieBlocks, DataBlocks, metadataBlockNo, BLOCK_NUM_PER_DIE

\* A table is a page of its own kind.
LEMMA TableFacts ==
    /\ Erased # PageData
    /\ \A B \in SUBSET PhyBlocks : /\ Table(B) # Erased /\ Table(B) # PageData
                                   /\ Blocks(Table(B)) = B /\ Table(B) \in PagesKept
    /\ \A page \in PagesKept : IsTable(page) => \E B \in SUBSET PhyBlocks : page = Table(B)
    /\ {Erased, PageData} \subseteq PagesKept
  BY PageAssumption DEF IsTable, Table, Blocks, PagesKept

\* What the queues hold.
LEMMA OpFacts ==
    ASSUME NEW d \in Dies
    PROVE  /\ d \in Slots /\ d + CopySlot \in Slots
           /\ \A name \in OpNames, at \in Nat : Op(name, at) \in Ops
           /\ \A name, at : Op(name, at).op = name /\ Op(name, at).at = at
           /\ Moves(d) \subseteq Ops /\ {Op("ReadTable", d), Op("WriteTable", d)} \subseteq Ops
           /\ Op("Erase", metadataBlockNo) \in Ops
<1>1. d \in Nat /\ d + CopySlot \in Nat
  BY TableAssumption
<1>2. DataBlocks \subseteq Nat /\ metadataBlockNo \in Nat
  BY BlockFacts
<1>3. ASSUME NEW name \in OpNames, NEW at \in Nat PROVE Op(name, at) \in Ops
  BY DEF Op, Ops, OpNames
<1>4. ASSUME NEW name, NEW at PROVE Op(name, at).op = name /\ Op(name, at).at = at
  BY DEF Op
<1>5. /\ {Op("ReadTable", d), Op("WriteTable", d)} \subseteq Ops
      /\ {Op("ReadPage", d + CopySlot), Op("ProgramPage", d + CopySlot)} \subseteq Ops
      /\ Op("Erase", metadataBlockNo) \in Ops /\ \A b \in DataBlocks : Op("Erase", b) \in Ops
  BY <1>1, <1>2, <1>3 DEF OpNames
<1>6. Moves(d) \subseteq Ops
  BY <1>5 DEF Moves
<1>7. d \in Slots /\ d + CopySlot \in Slots
  BY DEF Slots
<1> QED BY <1>3, <1>4, <1>5, <1>6, <1>7

\* A scan finds what the factory marked, and no more while the blocks hold
\* nothing.
LEMMA ScanFacts ==
    ASSUME AllBlocksNumbered, NEW d \in Dies, flash[d].factory \subseteq FactoryPages
    PROVE  /\ FactoryBad(d) \subseteq ScannedBad(d) /\ ScannedBad(d) \subseteq DieBlocks
           /\ flash[d].held = {} => ScannedBad(d) \subseteq FactoryBad(d)
           /\ {b \in DieBlocks : PhyBlock(b) \in ScannedBad(d)} = ScannedBad(d)
           /\ FactoryBad(d) \subseteq DataBlocks
<1>1. PhyBlocks = DieBlocks /\ \A b \in DieBlocks : PhyBlock(b) = b
  BY SameNumbers
<1>2. DataBlocks \subseteq DieBlocks
  BY BlockFacts
<1>3. ScannedBad(d) \subseteq DieBlocks
  BY <1>1 DEF ScannedBad
<1>4. FactoryBad(d) \subseteq ScannedBad(d)
  BY <1>1, <1>2 DEF FactoryBad, ScannedBad
<1>5. ASSUME flash[d].held = {}, NEW b \in ScannedBad(d) PROVE b \in FactoryBad(d)
  <2>1. PICK p \in {0, PAGE_NUM_PER_BLOCK - 1} : RawRow(b, p) \in flash[d].factory
    BY <1>5 DEF ScannedBad
  <2>2. PICK c \in DataBlocks, q \in {0, PAGE_NUM_PER_BLOCK - 1} :
            RawRow(b, p) = RawRow(PhyBlock(c), q)
    BY <2>1 DEF FactoryPages
  <2>3. PhyBlock(c) = c /\ c \in PhyBlocks /\ b \in PhyBlocks
    BY <1>1, <1>2, <1>3
  <2>4. b = c
    BY <2>2, <2>3, RawRowBlock
  <2> QED BY <2>1, <2>3, <2>4 DEF FactoryBad
<1> QED BY <1>1, <1>3, <1>4, <1>5 DEF FactoryBad

\* Taking the first request off a queue that ends with a save leaves one.
LEMMA SavingTail ==
    ASSUME NEW d, NEW q \in Seq(Ops), q # <<>>, Saving(d, q)
    PROVE  /\ Saving(d, Tail(q))
           /\ Len(q) = 1 => Tail(q) = <<>> /\ Head(q) = Op("WriteTable", d)
           /\ Len(q) = 2 => Head(q) = Op("Erase", metadataBlockNo) /\ Tail(q) # <<>>
           /\ Len(q) > 2 => Head(q) \in Moves(d) /\ Tail(q) # <<>>
           /\ Tail(q) \in Seq(Ops) /\ Len(q) \in Nat \ {0}
<1>1. Len(q) \in Nat \ {0} /\ Head(q) = q[1]
  OBVIOUS
<1>2. Tail(q) \in Seq(Ops) /\ Len(Tail(q)) = Len(q) - 1
  OBVIOUS
<1>3. \A i \in 1 .. Len(q) - 1 : Tail(q)[i] = q[i + 1]
  OBVIOUS
<1>4. Saving(d, Tail(q))
  <2> SUFFICES ASSUME NEW i \in 1 .. Len(q) - 1
               PROVE  /\ i = Len(q) - 1 => Tail(q)[i] = Op("WriteTable", d)
                      /\ i = Len(q) - 1 - 1 => Tail(q)[i] = Op("Erase", metadataBlockNo)
                      /\ i < Len(q) - 1 - 1 => Tail(q)[i] \in Moves(d)
    BY <1>2, Zenon DEF Saving
  <2>1. i + 1 \in 1 .. Len(q) /\ Tail(q)[i] = q[i + 1]
    BY <1>1, <1>3
  <2> QED BY <1>1, <2>1 DEF Saving
<1>5. Tail(q) = <<>> <=> Len(q) = 1
  BY <1>1, <1>2
<1>6. /\ Len(q) = 1 => Head(q) = Op("WriteTable", d)
      /\ Len(q) = 2 => Head(q) = Op("Erase", metadataBlockNo)
      /\ Len(q) > 2 => Head(q) \in Moves(d)
  <2>1. 1 \in 1 .. Len(q)
    BY <1>1
  <2>2. /\ 1 = Len(q) => q[1] = Op("WriteTable", d)
        /\ 1 = Len(q) - 1 => q[1] = Op("Erase", metadataBlockNo)
        /\ 1 < Len(q) - 1 => q[1] \in Moves(d)
    BY <2>1 DEF Saving
  <2> QED BY <1>1, <2>2
<1> QED BY <1>1, <1>2, <1>4, <1>5, <1>6

\* A die has finitely many blocks.
LEMMA DataFinite == IsFiniteSet(DataBlocks)
<1>1. BLOCK_NUM_PER_DIE - 1 \in Int /\ DieBlocks = 0 .. BLOCK_NUM_PER_DIE - 1
  BY BlockFacts
<1>2. IsFiniteSet(DieBlocks)
  BY <1>1, FS_Interval
<1> QED BY <1>2, FS_Subset, BlockFacts

\* What the host has programmed lies in the blocks of the map.
LEMMA HeldRows ==
    /\ HostPages \subseteq UNION {RowsOf(b) : b \in 1 .. BLOCK_NUM_PER_DIE - 1}
    /\ HostPages \subseteq UNION {RowsOf(b) : b \in 0 .. BLOCK_NUM_PER_DIE - 1}
<1> SUFFICES ASSUME NEW b \in DataBlocks, NEW p \in Pages
             PROVE  PhyRow(b * PAGE_NUM_PER_BLOCK + p) \in
                        (UNION {RowsOf(c) : c \in 1 .. BLOCK_NUM_PER_DIE - 1})
                            \cap (UNION {RowsOf(c) : c \in 0 .. BLOCK_NUM_PER_DIE - 1})
  BY DEF HostPages, Rows
<1>1. b \in 1 .. BLOCK_NUM_PER_DIE - 1 /\ b \in 0 .. BLOCK_NUM_PER_DIE - 1
  BY BlockFacts DEF DataBlocks
<1>2. PhyRow(b * PAGE_NUM_PER_BLOCK + p) \in RowsOf(b)
  BY DEF RowsOf
<1> QED BY <1>1, <1>2

\* Flash comes with factory marks and nothing else.
LEMMA InitTable == Init => TableInv
<1> SUFFICES ASSUME Init PROVE TableInv
  OBVIOUS
<1>1. PICK factory \in [Dies -> SUBSET FactoryPages] :
          flash = [d \in Dies |-> [table |-> Erased, factory |-> factory[d], held |-> {}]]
  BY DEF Init
<1>2. \A d \in Dies : /\ flash[d].table = Erased /\ flash[d].held = {}
                      /\ flash[d] \in [table : PagesKept, factory : SUBSET FactoryPages,
                                       held : SUBSET HostPages]
  BY <1>1, TableFacts
<1>3. flash \in [Dies -> [table : PagesKept, factory : SUBSET FactoryPages,
                          held : SUBSET HostPages]]
  BY <1>1, <1>2
<1>4. TableTypes
  <2>1. bad \in [Dies -> SUBSET DieBlocks] /\ newBad \in [Dies -> SUBSET DataBlocks]
    BY DEF Init, NoBlocks
  <2>2. queue \in [Dies -> Seq(Ops)]
    BY DEF Init
  <2>3. slots \in [Slots -> PagesKept]
    BY TableFacts DEF Init
  <2>4. history \in [saved : [Dies -> SUBSET PhyBlocks], warned : [Dies -> SUBSET DataBlocks],
                     torn : SUBSET Dies, spoilt : SUBSET Dies]
    BY DEF Init, NoBlocks
  <2> QED BY <1>3, <2>1, <2>2, <2>3, <2>4 DEF Init, TableTypes
<1>5. ASSUME NEW d \in Dies
      PROVE  QueueOK(d) /\ SlotOK(d) /\ newBad[d] \subseteq history.warned[d]
  BY DEF Init, QueueOK, SlotOK, NoBlocks
<1>6. ASSUME NEW d \in Dies PROVE MapOK(d)
  BY <1>2 DEF Init, MapOK, Blank, NoBlocks
<1> QED BY <1>4, <1>5, <1>6 DEF TableInv, Sound, Init

\* The start reads the tables, or erases every block first.
LEMMA PowerOnKeeps ==
    ASSUME AllBlocksNumbered, TableInv, NEW remake \in BOOLEAN, PowerOn(remake)
    PROVE  TableInv'
<1> DEFINE N == BLOCK_NUM_PER_DIE
<1>1. /\ pc = "off" /\ pc' \in {"remake", "read"} /\ (remake <=> pc' = "remake")
      /\ UNCHANGED <<flash, bad, newBad, badBlockUpdate, slots, history>>
  BY DEF PowerOn
<1>2. ASSUME NEW d \in Dies
      PROVE  queue'[d] = IF remake THEN [i \in 1 .. N |-> Op("Erase", i - 1)]
                         ELSE <<Op("ReadTable", d)>>
  BY DEF PowerOn, ReadTables
<1>3. N \in Nat \ {0}
  BY BlockFacts
<1>4. ASSUME NEW d \in Dies PROVE queue'[d] \in Seq(Ops)
  <2>1. \A i \in 1 .. N : Op("Erase", i - 1) \in Ops
    BY <1>3, OpFacts DEF OpNames
  <2>2. [i \in 1 .. N |-> Op("Erase", i - 1)] \in Seq(Ops)
    BY <1>3, <2>1
  <2>3. <<Op("ReadTable", d)>> \in Seq(Ops)
    BY OpFacts
  <2> QED BY <1>2, <2>2, <2>3
<1>5. TableTypes'
  <2>1. queue' \in [Dies -> Seq(Ops)]
    <3>1. DOMAIN queue' = Dies /\ queue' = [d \in Dies |-> queue'[d]]
      BY DEF PowerOn, ReadTables
    <3> QED BY <1>4, <3>1
  <2> QED BY <1>1, <2>1 DEF TableInv, TableTypes
<1>6. ASSUME NEW d \in Dies
      PROVE  QueueOK(d)' /\ SlotOK(d)' /\ newBad'[d] \subseteq history'.warned[d]
  <2>1. CASE remake
    <3>1. Remaking(d, 0)'
      <4>1. queue'[d] = [i \in 1 .. N - 0 |-> Op("Erase", 0 + i - 1)]
        <5>1. N - 0 = N /\ \A i \in 1 .. N : 0 + i - 1 = i - 1
          BY <1>3
        <5>2. queue'[d] = [i \in 1 .. N |-> Op("Erase", i - 1)]
          BY <1>2, <2>1
        <5>3. [i \in 1 .. N |-> Op("Erase", i - 1)] = [i \in 1 .. N |-> Op("Erase", 0 + i - 1)]
          BY <5>1
        <5> HIDE DEF N
        <5> QED BY <5>1, <5>2, <5>3
      <4>2. flash'[d].held \subseteq HostPages
        BY <1>1 DEF TableInv, TableTypes
      <4> QED BY <4>1, <4>2, HeldRows DEF Remaking
    <3>2. 0 \in 0 .. N
      BY <1>3
    <3> QED BY <1>1, <2>1, <3>1, <3>2 DEF QueueOK, SlotOK, TableInv
  <2>2. CASE ~remake
    BY <1>1, <1>2, <2>2 DEF QueueOK, SlotOK, Reading, TableInv
  <2> QED BY <2>1, <2>2
<1>7. ASSUME NEW d \in Sound' PROVE MapOK(d)'
  <2>1. d \in Sound /\ FactoryBad(d)' = FactoryBad(d)
    BY <1>1 DEF Sound, FactoryBad
  <2> QED BY <1>1, <2>1 DEF TableInv, MapOK, Blank, Right
<1> QED BY <1>1, <1>5, <1>6, <1>7 DEF TableInv, NoBlocks

\* With every block erased nothing is known of the die.
LEMMA RemadeKeeps ==
    ASSUME AllBlocksNumbered, TableInv, Remade
    PROVE  TableInv'
<1>1. /\ pc = "remake" /\ pc' = "read" /\ Drained
      /\ UNCHANGED <<flash, bad, newBad, badBlockUpdate, slots>>
      /\ queue' = ReadTables
      /\ history' = [saved |-> NoBlocks, warned |-> NoBlocks, torn |-> {}, spoilt |-> {}]
  BY DEF Remade
<1>2. ASSUME NEW d \in Dies PROVE queue'[d] = <<Op("ReadTable", d)>> /\ queue'[d] \in Seq(Ops)
  BY <1>1, OpFacts DEF ReadTables
<1>3. ASSUME NEW d \in Dies PROVE flash[d].table = Erased /\ flash[d].held = {}
  <2>1. PICK k \in 0 .. BLOCK_NUM_PER_DIE : Remaking(d, k)
    BY <1>1 DEF TableInv, QueueOK
  <2>2. BLOCK_NUM_PER_DIE - k \in Nat /\ BLOCK_NUM_PER_DIE \in Nat \ {0}
    BY BlockFacts
  <2>3. Len(queue[d]) = BLOCK_NUM_PER_DIE - k /\ queue[d] = <<>>
    BY <1>1, <2>1, <2>2 DEF Drained, Remaking
  <2>4. k = BLOCK_NUM_PER_DIE
    BY <2>2, <2>3
  <2>5. k .. BLOCK_NUM_PER_DIE - 1 = {}
    BY <2>2, <2>4
  <2> QED BY <2>1, <2>2, <2>4, <2>5 DEF Remaking
<1>4. ASSUME NEW d \in Dies PROVE newBad[d] = {}
  BY <1>1 DEF TableInv, NoBlocks
<1>5. TableTypes'
  <2>1. queue' \in [Dies -> Seq(Ops)]
    BY <1>1, <1>2 DEF ReadTables
  <2> QED BY <1>1, <2>1 DEF TableInv, TableTypes, NoBlocks
<1>6. ASSUME NEW d \in Dies
      PROVE  QueueOK(d)' /\ SlotOK(d)' /\ newBad'[d] \subseteq history'.warned[d]
  <2>1. queue'[d] # <<>>
    <3>1. \A x : <<x>> # <<>>
      OBVIOUS
    <3> QED BY <1>2, <3>1
  <2>2. QueueOK(d)' /\ SlotOK(d)'
    BY <1>1, <1>2, <2>1 DEF QueueOK, SlotOK, Reading
  <2> QED BY <1>1, <1>4, <2>2
<1>7. ASSUME NEW d \in Sound' PROVE MapOK(d)'
  <2>1. d \in Dies
    BY DEF Sound
  <2> QED BY <1>1, <1>3, <2>1 DEF MapOK, Blank, NoBlocks
<1> QED BY <1>1, <1>5, <1>6, <1>7 DEF TableInv, NoBlocks

\* The tables found become the map's; the others are made from a scan, and
\* their saves queued.
LEMMA RecoverKeeps ==
    ASSUME AllBlocksNumbered, TableInv, RecoverBadBlockTable
    PROVE  TableInv'
<1>1. /\ pc = "read" /\ pc' = "save" /\ \A d \in Dies : queue[d] = <<>>
      /\ UNCHANGED <<flash, newBad, badBlockUpdate, history>>
  BY DEF RecoverBadBlockTable, Drained
<1>0. PICK mistaken \in SUBSET {d \in Dies : slots[d] = PageData} :
      \E bytes \in [mistaken -> {{}, DataBlocks}] :
        LET found == {d \in Dies : IsTable(slots[d])}
            scanned == Dies \ (found \cup mistaken)
        IN  /\ bad' = [d \in Dies |->
                CASE d \in found -> {b \in DieBlocks : PhyBlock(b) \in Blocks(slots[d])}
                  [] d \in mistaken -> bytes[d]
                  [] OTHER -> {b \in DieBlocks : PhyBlock(b) \in ScannedBad(d)}]
            /\ slots' = [s \in Slots |-> IF s \in scanned THEN Table(ScannedBad(s)) ELSE slots[s]]
            /\ queue' = [d \in Dies |-> IF d \in scanned THEN SaveTable(d) ELSE <<>>]
  BY DEF RecoverBadBlockTable
<1>2. PICK bytes \in [mistaken -> {{}, DataBlocks}] :
        LET found == {d \in Dies : IsTable(slots[d])}
            scanned == Dies \ (found \cup mistaken)
        IN  /\ bad' = [d \in Dies |->
                CASE d \in found -> {b \in DieBlocks : PhyBlock(b) \in Blocks(slots[d])}
                  [] d \in mistaken -> bytes[d]
                  [] OTHER -> {b \in DieBlocks : PhyBlock(b) \in ScannedBad(d)}]
            /\ slots' = [s \in Slots |-> IF s \in scanned THEN Table(ScannedBad(s)) ELSE slots[s]]
            /\ queue' = [d \in Dies |-> IF d \in scanned THEN SaveTable(d) ELSE <<>>]
  BY <1>0
<1> DEFINE found == {d \in Dies : IsTable(slots[d])}
           scanned == Dies \ (found \cup mistaken)
<1>3. PhyBlocks = DieBlocks /\ \A b \in DieBlocks : PhyBlock(b) = b
  BY SameNumbers
<1>4. \A d \in Dies : /\ slots[d] \in PagesKept /\ slots[d] = flash[d].table /\ d \in Slots
                      /\ flash[d].factory \subseteq FactoryPages
  BY <1>1 DEF TableInv, TableTypes, SlotOK, Slots
<1>5. \A d \in Dies : /\ FactoryBad(d) \subseteq ScannedBad(d) /\ ScannedBad(d) \subseteq DieBlocks
                      /\ flash[d].held = {} => ScannedBad(d) \subseteq FactoryBad(d)
                      /\ {b \in DieBlocks : PhyBlock(b) \in ScannedBad(d)} = ScannedBad(d)
  BY <1>4, ScanFacts
<1>6. ASSUME NEW d \in found PROVE bad'[d] \in SUBSET DieBlocks /\ slots[d] = Table(bad'[d])
  <2>1. PICK B \in SUBSET PhyBlocks : slots[d] = Table(B)
    BY <1>4, TableFacts
  <2>2. bad'[d] = {b \in DieBlocks : PhyBlock(b) \in Blocks(slots[d])}
    <3>1. d \in Dies /\ IsTable(slots[d]) /\ d \notin mistaken
      BY DEF IsTable
    <3> QED BY <1>2, <3>1
  <2>3. bad'[d] = B
    BY <1>3, <2>1, <2>2, TableFacts
  <2> QED BY <1>3, <2>1, <2>3
<1>7. ASSUME NEW d \in scanned PROVE bad'[d] = ScannedBad(d) /\ slots'[d] = Table(bad'[d])
  <2>1. bad'[d] = {b \in DieBlocks : PhyBlock(b) \in ScannedBad(d)}
    BY <1>2
  <2>2. slots'[d] = Table(ScannedBad(d))
    BY <1>2, <1>4
  <2> QED BY <1>5, <2>1, <2>2
<1>8. ASSUME NEW d \in mistaken PROVE d \in found \/ bad'[d] \in {{}, DataBlocks}
  BY <1>2
<1>9. found \subseteq Dies /\ scanned \subseteq Dies /\ mistaken \subseteq Dies
  OBVIOUS
<1>10. \A d \in Dies : bad'[d] \in SUBSET DieBlocks
  <2>1. DataBlocks \subseteq DieBlocks
    BY BlockFacts
  <2> QED BY <1>5, <1>6, <1>7, <1>8, <2>1
<1>11. ASSUME NEW d \in Dies
       PROVE  /\ d \in scanned => queue'[d] = SaveTable(d)
              /\ d \notin scanned => queue'[d] = <<>>
              /\ queue'[d] \in Seq(Ops) /\ Saving(d, queue'[d])
  <2>1. queue'[d] = IF d \in scanned THEN SaveTable(d) ELSE <<>>
    BY <1>2
  <2>2. SaveTable(d) \in Seq(Ops)
    BY OpFacts DEF SaveTable
  <2>3. Saving(d, SaveTable(d))
    BY DEF Saving, SaveTable
  <2>4. <<>> \in Seq(Ops) /\ Saving(d, <<>>)
    BY DEF Saving
  <2> QED BY <2>1, <2>2, <2>3, <2>4
<1>12. TableTypes'
  <2>1. bad' \in [Dies -> SUBSET DieBlocks]
    BY <1>2, <1>10
  <2>2. queue' \in [Dies -> Seq(Ops)]
    <3>1. queue' = [d \in Dies |-> queue'[d]]
      BY <1>2
    <3> QED BY <1>11, <3>1
  <2>3. slots' \in [Slots -> PagesKept]
    <3>1. \A s \in Slots : slots[s] \in PagesKept
      BY DEF TableInv, TableTypes
    <3>2. ASSUME NEW s \in Slots PROVE slots'[s] \in PagesKept
      BY <1>2, <1>3, <1>5, <3>1, TableFacts
    <3>3. slots' = [s \in Slots |-> slots'[s]]
      BY <1>2
    <3> QED BY <3>2, <3>3
  <2> QED BY <1>1, <2>1, <2>2, <2>3 DEF TableInv, TableTypes
<1>13. ASSUME NEW d \in Dies
       PROVE  QueueOK(d)' /\ SlotOK(d)' /\ newBad'[d] \subseteq history'.warned[d]
  BY <1>1, <1>11 DEF QueueOK, SlotOK, TableInv
<1>14. ASSUME NEW d \in Sound' PROVE MapOK(d)'
  <2>1. d \in Sound /\ d \in Dies /\ FactoryBad(d)' = FactoryBad(d) /\ MapOK(d)
    BY <1>1 DEF Sound, FactoryBad, TableInv
  <2>2. d \in found \/ d \in scanned
    <3>1. flash[d].table # PageData
      BY <2>1, TableFacts DEF MapOK
    <3> QED BY <1>2, <1>4, <2>1, <3>1
  <2>3. Right(d, bad'[d])
    <3>1. CASE d \in found
      <4>1. slots[d] # Erased
        BY <1>3, <1>6, <3>1, TableFacts
      <4>2. PICK B \in SUBSET PhyBlocks : flash[d].table = Table(B) /\ Right(d, B)
        BY <1>4, <2>1, <4>1 DEF MapOK
      <4>3. B = bad'[d]
        BY <1>3, <1>4, <1>6, <2>1, <3>1, <4>2, TableFacts
      <4> QED BY <4>2, <4>3
    <3>2. CASE d \in scanned
      <4>1. flash[d].table = Erased
        BY <1>4, <2>1, <3>2, TableFacts, PageAssumption DEF MapOK
      <4>2. d \notin history.torn => history.saved[d] = {} /\ flash[d].held = {}
        BY <1>1, <2>1, <4>1 DEF MapOK, Blank
      <4> QED BY <1>5, <1>7, <2>1, <3>2, <4>2 DEF Right
    <3> QED BY <2>2, <3>1, <3>2
  <2>4. IF queue'[d] = <<>> THEN flash[d].table = Table(bad'[d])
        ELSE slots'[d] \in {Table(bad'[d]), PageData}
    <3>1. CASE d \in scanned
      BY <1>7, <1>11, <2>1, <3>1 DEF SaveTable
    <3>2. CASE d \notin scanned
      BY <1>4, <1>6, <1>11, <2>1, <2>2, <3>2
    <3> QED BY <3>1, <3>2
  <2>5. Right(d, bad[d])' /\ (\A B \in SUBSET PhyBlocks : Right(d, B)' <=> Right(d, B))
    BY <1>1, <2>1, <2>3 DEF Right
  <2> QED BY <1>1, <2>1, <2>4, <2>5 DEF MapOK
<1>15. newBad' = NoBlocks
  BY <1>1 DEF TableInv
<1> QED BY <1>12, <1>13, <1>14, <1>15 DEF TableInv

\* The blocks that are not bad are erased; the tables stay.
LEMMA InitialEraseKeeps ==
    ASSUME AllBlocksNumbered, TableInv, InitialErase
    PROVE  TableInv'
<1>1. /\ pc = "save" /\ pc' = "erase" /\ \A d \in Dies : queue[d] = <<>>
      /\ UNCHANGED <<flash, bad, newBad, badBlockUpdate, slots, history>>
      /\ queue' \in [Dies -> UNION {Erases(d) : d \in Dies}]
  BY DEF InitialErase, Drained
<1>2. ASSUME NEW d \in Dies
      PROVE  /\ queue'[d] \in Seq(Ops)
             /\ \A i \in 1 .. Len(queue'[d]) :
                    queue'[d][i] \in {Op("Erase", b) : b \in DataBlocks}
  <2>1. PICK good \in Ascending(DataBlocks \ bad[d]) :
            queue'[d] = [i \in DOMAIN good |-> Op("Erase", good[i])]
    BY DEF InitialErase, Erases
  <2>2. good \in [1 .. Cardinality(DataBlocks \ bad[d]) -> DataBlocks \ bad[d]]
    BY DEF Ascending
  <2>3. DataBlocks \ bad[d] \in SUBSET DataBlocks /\ IsFiniteSet(DataBlocks \ bad[d])
    BY DataFinite, FS_Subset
  <2>4. PICK n \in Nat : n = Cardinality(DataBlocks \ bad[d])
    BY <2>3, FS_CardinalityType
  <2>5. DOMAIN good = 1 .. n /\ \A i \in 1 .. n : good[i] \in DataBlocks
    BY <2>2, <2>4
  <2>6. \A b \in DataBlocks : Op("Erase", b) \in Ops
    BY BlockFacts, OpFacts DEF OpNames
  <2>7. queue'[d] = [i \in 1 .. n |-> Op("Erase", good[i])]
    BY <2>1, <2>5
  <2>8. queue'[d] \in Seq(Ops) /\ Len(queue'[d]) = n
    BY <2>5, <2>6, <2>7
  <2> QED BY <2>5, <2>7, <2>8
<1>3. TableTypes'
  <2>1. queue' \in [Dies -> Seq(Ops)]
    BY <1>1, <1>2
  <2> QED BY <1>1, <2>1 DEF TableInv, TableTypes
<1>4. ASSUME NEW d \in Dies
      PROVE  QueueOK(d)' /\ SlotOK(d)' /\ newBad'[d] \subseteq history'.warned[d]
  BY <1>1, <1>2 DEF QueueOK, SlotOK, TableInv
<1>5. ASSUME NEW d \in Sound' PROVE MapOK(d)'
  <2>1. d \in Sound /\ d \in Dies /\ FactoryBad(d)' = FactoryBad(d) /\ MapOK(d)
    BY <1>1 DEF Sound, FactoryBad, TableInv
  <2> QED BY <1>1, <2>1 DEF MapOK, Right
<1> QED BY <1>1, <1>3, <1>4, <1>5 DEF TableInv, NoBlocks

\* The device starts to run when the blocks are erased.
LEMMA StartedKeeps ==
    ASSUME AllBlocksNumbered, TableInv, Started
    PROVE  TableInv'
<1>1. /\ pc = "erase" /\ pc' = "run" /\ \A d \in Dies : queue[d] = <<>>
      /\ UNCHANGED <<flash, bad, newBad, badBlockUpdate, queue, slots, history>>
  BY DEF Started, Drained
<1>2. TableTypes'
  BY <1>1 DEF TableInv, TableTypes
<1>3. ASSUME NEW d \in Dies
      PROVE  QueueOK(d)' /\ SlotOK(d)' /\ newBad'[d] \subseteq history'.warned[d]
  BY <1>1 DEF QueueOK, SlotOK, TableInv, Saving
<1>4. ASSUME NEW d \in Sound' PROVE MapOK(d)'
  <2>1. d \in Sound /\ d \in Dies /\ FactoryBad(d)' = FactoryBad(d) /\ MapOK(d)
    BY <1>1 DEF Sound, FactoryBad, TableInv
  <2> QED BY <1>1, <2>1 DEF MapOK, Right
<1> QED BY <1>1, <1>2, <1>3, <1>4 DEF TableInv, NoBlocks

\* A program of the host changes no table and no factory mark.
LEMMA HostProgramKeeps ==
    ASSUME AllBlocksNumbered, TableInv, NEW e \in Dies, NEW row \in Rows, HostProgram(e, row)
    PROVE  TableInv'
<1>1. /\ pc = "run" /\ flash' = [flash EXCEPT ![e].held = @ \cup {PhyRow(row)}]
      /\ UNCHANGED <<bad, newBad, badBlockUpdate, queue, slots, pc, history>>
  BY DEF HostProgram
<1>2. \A d \in Dies : flash'[d].table = flash[d].table /\ flash'[d].factory = flash[d].factory
  BY <1>1 DEF TableInv, TableTypes
<1>3. flash' \in [Dies -> [table : PagesKept, factory : SUBSET FactoryPages,
                           held : SUBSET HostPages]]
  <2>1. PhyRow(row) \in HostPages
    BY DEF HostPages
  <2> QED BY <1>1, <2>1 DEF TableInv, TableTypes
<1>4. TableTypes'
  BY <1>1, <1>3 DEF TableInv, TableTypes
<1>5. ASSUME NEW d \in Dies
      PROVE  QueueOK(d)' /\ SlotOK(d)' /\ newBad'[d] \subseteq history'.warned[d]
  BY <1>1 DEF QueueOK, SlotOK, TableInv
<1>6. ASSUME NEW d \in Sound' PROVE MapOK(d)'
  <2>1. d \in Sound /\ d \in Dies /\ FactoryBad(d)' = FactoryBad(d) /\ MapOK(d)
    BY <1>1, <1>2 DEF Sound, FactoryBad, TableInv
  <2> QED BY <1>1, <1>2, <2>1 DEF MapOK, Right
<1> QED BY <1>1, <1>4, <1>5, <1>6 DEF TableInv, NoBlocks

\* What a warning notes is the block of the row that was read.
LEMMA WarningKeeps ==
    ASSUME AllBlocksNumbered, TableInv, NEW e \in Dies, NEW row \in Rows, Warning(e, row)
    PROVE  TableInv'
<1> DEFINE b == row \div PAGE_NUM_PER_BLOCK
<1>1. /\ pc = "run" /\ newBad' = [newBad EXCEPT ![e] = @ \cup {WarnedBlock(PhyRow(row))}]
      /\ badBlockUpdate' = TRUE
      /\ history' = [history EXCEPT !.warned[e] = @ \cup {b}]
      /\ UNCHANGED <<flash, bad, queue, slots, pc>>
  BY DEF Warning
<1>2. WarnedBlock(PhyRow(row)) = b /\ b \in DataBlocks
  <2>1. PICK c \in DataBlocks, p \in Pages : row = c * PAGE_NUM_PER_BLOCK + p
    BY DEF Rows
  <2>2. /\ c \in 0 .. 2 * BLOCK_NUM_PER_LUN - 1 /\ p \in 0 .. 127 /\ BLOCK_NUM_PER_LUN \in Nat \ {0}
        /\ c \in DieBlocks
    BY TableAssumption, LunAssumption, BlockFacts
       DEF DieBlocks, BLOCK_NUM_PER_DIE, PAGE_NUM_PER_BLOCK
  <2>3. b = c /\ row \in DieRows
    BY <2>1, <2>2 DEF PAGE_NUM_PER_BLOCK, DieRows, PAGE_NUM_PER_LUN
  <2>4. WarnedBlock(PhyRow(row)) = PhyBlock(b)
    BY <2>3, WarnedBlockIsTheBlock
  <2> QED BY <2>1, <2>2, <2>3, <2>4, SameNumbers
<1> HIDE DEF b
<1>3. newBad' \in [Dies -> SUBSET DataBlocks]
  BY <1>1, <1>2 DEF TableInv, TableTypes
<1>4. /\ history' \in [saved : [Dies -> SUBSET PhyBlocks], warned : [Dies -> SUBSET DataBlocks],
                       torn : SUBSET Dies, spoilt : SUBSET Dies]
      /\ history'.saved = history.saved /\ history'.torn = history.torn
      /\ history'.spoilt = history.spoilt
      /\ \A d \in Dies : history'.warned[d] = history.warned[d] \cup IF d = e THEN {b} ELSE {}
      /\ \A d \in Dies : newBad'[d] = newBad[d] \cup IF d = e THEN {b} ELSE {}
  BY <1>1, <1>2 DEF TableInv, TableTypes
<1>5. TableTypes'
  BY <1>1, <1>3, <1>4 DEF TableInv, TableTypes
<1>6. ASSUME NEW d \in Dies
      PROVE  QueueOK(d)' /\ SlotOK(d)' /\ newBad'[d] \subseteq history'.warned[d]
  BY <1>1, <1>4 DEF QueueOK, SlotOK, TableInv
<1>7. ASSUME NEW d \in Sound' PROVE MapOK(d)'
  <2>1. d \in Sound /\ d \in Dies /\ FactoryBad(d)' = FactoryBad(d) /\ MapOK(d)
    BY <1>1, <1>4 DEF Sound, FactoryBad, TableInv
  <2>2. \A B : Right(d, B) => Right(d, B)'
    BY <1>4, <2>1 DEF Right
  <2> QED BY <1>1, <2>1, <2>2 DEF MapOK
<1> QED BY <1>1, <1>5, <1>6, <1>7 DEF TableInv, NoBlocks

\* EmptyLowLevelQ reads the tables of all dies before it changes them.
LEMMA EmptyLowLevelQKeeps ==
    ASSUME AllBlocksNumbered, TableInv, EmptyLowLevelQ
    PROVE  TableInv'
<1>1. /\ pc = "run" /\ pc' = "update" /\ \A d \in Dies : queue[d] = <<>>
      /\ queue' = ReadTables /\ badBlockUpdate' = FALSE
      /\ UNCHANGED <<flash, bad, newBad, slots, history>>
  BY DEF EmptyLowLevelQ, Drained
<1>2. ASSUME NEW d \in Dies
      PROVE  /\ queue'[d] = <<Op("ReadTable", d)>>
             /\ queue'[d] \in Seq(Ops) /\ queue'[d] # <<>>
  <2>1. \A x : <<x>> # <<>>
    OBVIOUS
  <2>2. <<Op("ReadTable", d)>> \in Seq(Ops)
    BY OpFacts
  <2> QED BY <1>1, <2>1, <2>2 DEF ReadTables
<1>3. TableTypes'
  <2>1. queue' \in [Dies -> Seq(Ops)]
    BY <1>1, <1>2 DEF ReadTables
  <2> QED BY <1>1, <2>1 DEF TableInv, TableTypes
<1>4. ASSUME NEW d \in Dies
      PROVE  QueueOK(d)' /\ SlotOK(d)' /\ newBad'[d] \subseteq history'.warned[d]
  BY <1>1, <1>2 DEF QueueOK, SlotOK, TableInv, Reading
<1>5. ASSUME NEW d \in Sound' PROVE MapOK(d)'
  <2>1. d \in Sound /\ d \in Dies /\ FactoryBad(d)' = FactoryBad(d) /\ MapOK(d)
    BY <1>1 DEF Sound, FactoryBad, TableInv
  <2> QED BY <1>1, <2>1 DEF MapOK, Right
<1> QED BY <1>1, <1>3, <1>4, <1>5 DEF TableInv, NoBlocks

\* CompulsoryGC queues copies and erases of blocks that can hold data.
LEMMA MoveOutFacts ==
    ASSUME NEW d \in Dies, NEW worn \in Seq(DataBlocks), NEW copies \in BOOLEAN
    PROVE  MoveOut(d, worn, copies) \in Seq(Moves(d))
<1> DEFINE n == Len(worn)
<1>1. n \in Nat /\ \A i \in 1 .. n : worn[i] \in DataBlocks
  OBVIOUS
<1>2. ASSUME NEW i \in 1 .. n PROVE Op("Erase", worn[i]) \in Moves(d)
  BY <1>1 DEF Moves
<1>3. CASE copies
  <2> DEFINE op(i) == CASE i % 3 = 1 -> Op("ReadPage", d + CopySlot)
                        [] i % 3 = 2 -> Op("ProgramPage", d + CopySlot)
                        [] OTHER -> Op("Erase", worn[i \div 3])
  <2>1. ASSUME NEW i \in 1 .. 3 * n PROVE op(i) \in Moves(d)
    <3>1. CASE i % 3 = 1
      BY <3>1 DEF Moves
    <3>2. CASE i % 3 = 2
      BY <3>2 DEF Moves
    <3>3. CASE i % 3 # 1 /\ i % 3 # 2
      <4>1. i \div 3 \in 1 .. n
        BY <1>1, <3>3
      <4>2. op(i) = Op("Erase", worn[i \div 3])
        BY <3>3
      <4> QED BY <1>2, <4>1, <4>2
    <3> QED BY <3>1, <3>2, <3>3
  <2>2. MoveOut(d, worn, copies) = [i \in 1 .. 3 * n |-> op(i)]
    BY <1>3 DEF MoveOut
  <2> HIDE DEF op
  <2>3. 3 * n \in Nat
    BY <1>1
  <2> QED BY <2>1, <2>2, <2>3
<1>4. CASE ~copies
  <2>1. MoveOut(d, worn, copies) = [i \in 1 .. n |-> Op("Erase", worn[i])]
    BY <1>4 DEF MoveOut
  <2> QED BY <1>1, <1>2, <2>1
<1> QED BY <1>3, <1>4

\* Behind them comes the save of the table.
LEMMA ReplacementFacts ==
    ASSUME TableTypes, NEW d \in Dies, NEW q \in Replacements(d)
    PROVE  /\ q \in Seq(Ops) /\ Saving(d, q)
           /\ q = <<>> <=> newBad[d] = {}
<1>1. CASE newBad[d] = {}
  BY <1>1 DEF Replacements, Saving
<1>2. CASE newBad[d] # {}
  <2>1. PICK worn \in SetToSeqs(newBad[d]), copies \in BOOLEAN :
            q = MoveOut(d, worn, copies) \o SaveTable(d)
    BY <1>2 DEF Replacements
  <2>2. newBad[d] \in SUBSET DataBlocks /\ IsFiniteSet(newBad[d])
    BY DataFinite, FS_Subset DEF TableTypes
  <2>3. PICK n \in Nat : n = Cardinality(newBad[d])
    BY <2>2, FS_CardinalityType
  <2>4. worn \in [1 .. n -> newBad[d]]
    BY <2>3 DEF SetToSeqs
  <2>5. worn \in Seq(DataBlocks)
    BY <2>2, <2>4
  <2> DEFINE m == MoveOut(d, worn, copies)
  <2>6. m \in Seq(Moves(d))
    BY <2>5, MoveOutFacts
  <2>7. Moves(d) \subseteq Ops /\ Op("Erase", metadataBlockNo) \in Ops /\ Op("WriteTable", d) \in Ops
    BY OpFacts
  <2> HIDE DEF m
  <2> DEFINE e == Op("Erase", metadataBlockNo)
             w == Op("WriteTable", d)
  <2>8. q = m \o <<e, w>>
    BY <2>1 DEF m, SaveTable
  <2> HIDE DEF e, w
  <2>9. Len(m) \in Nat /\ \A i \in 1 .. Len(m) : m[i] \in Moves(d)
    BY <2>6
  <2>10. m \in Seq(Ops) /\ e \in Ops /\ w \in Ops
    BY <2>6, <2>7 DEF e, w
  <2>11. /\ Len(q) = Len(m) + 2 /\ q \in Seq(Ops)
         /\ \A i \in 1 .. Len(m) : q[i] = m[i]
         /\ q[Len(m) + 1] = e /\ q[Len(m) + 2] = w
    BY <2>8, <2>9, <2>10
  <2>12. ASSUME NEW i \in 1 .. Len(q)
         PROVE  /\ i = Len(q) => q[i] = w
                /\ i = Len(q) - 1 => q[i] = e
                /\ i < Len(q) - 1 => q[i] \in Moves(d)
    <3>1. /\ i = Len(q) <=> i = Len(m) + 2
          /\ i = Len(q) - 1 <=> i = Len(m) + 1
          /\ i < Len(q) - 1 => i \in 1 .. Len(m)
      BY <2>9, <2>11
    <3> QED BY <2>9, <2>11, <3>1
  <2>13. Saving(d, q)
    BY <2>12 DEF Saving, e, w
  <2>14. q # <<>>
    BY <2>9, <2>11
  <2> QED BY <1>2, <2>11, <2>13, <2>14
<1> QED BY <1>1, <1>2

\* The blocks that have warned become bad, and the tables of their dies are
\* queued to be saved.
LEMMA UpdateKeeps ==
    ASSUME AllBlocksNumbered, TableInv, UpdateTables
    PROVE  TableInv'
<1>1. /\ pc = "update" /\ pc' = "run" /\ \A d \in Dies : queue[d] = <<>>
      /\ newBad' = NoBlocks /\ bad' = [d \in Dies |-> bad[d] \cup newBad[d]]
      /\ slots' = [s \in Slots |-> IF s \in Dies /\ newBad[s] # {} THEN Marked(s) ELSE slots[s]]
      /\ queue' \in [Dies -> UNION {Replacements(d) : d \in Dies}]
      /\ \A d \in Dies : queue'[d] \in Replacements(d)
      /\ UNCHANGED <<flash, badBlockUpdate, history>>
  BY DEF UpdateTables, Drained
<1>2. TableTypes /\ PhyBlocks = DieBlocks /\ DataBlocks \subseteq DieBlocks
  BY SameNumbers, BlockFacts DEF TableInv
<1>3. \A d \in Dies : newBad[d] \in SUBSET DataBlocks /\ bad[d] \in SUBSET DieBlocks
  BY <1>2 DEF TableTypes
<1>4. ASSUME NEW d \in Dies
      PROVE  /\ queue'[d] \in Seq(Ops) /\ Saving(d, queue'[d])
             /\ queue'[d] = <<>> <=> newBad[d] = {}
  BY <1>1, <1>2, ReplacementFacts
<1>5. ASSUME NEW d \in Dies
      PROVE  /\ Marked(d) \in PagesKept
             /\ slots[d] = Table(bad[d]) => Marked(d) = Table(bad'[d])
             /\ slots'[d] = IF newBad[d] # {} THEN Marked(d) ELSE slots[d]
  <2>1. slots[d] \in PagesKept /\ d \in Slots
    BY <1>2 DEF TableTypes, Slots
  <2>2. Marked(d) \in PagesKept
    <3>1. CASE IsTable(slots[d])
      <4>1. PICK B \in SUBSET PhyBlocks : slots[d] = Table(B)
        BY <2>1, <3>1, TableFacts
      <4>2. Marked(d) = Table(B \cup newBad[d])
        BY <3>1, <4>1, TableFacts DEF Marked
      <4> QED BY <1>2, <1>3, <4>2, TableFacts
    <3> QED BY <2>1, <3>1 DEF Marked
  <2>3. ASSUME slots[d] = Table(bad[d]) PROVE Marked(d) = Table(bad'[d])
    <3>1. bad[d] \in SUBSET PhyBlocks /\ bad'[d] = bad[d] \cup newBad[d]
      BY <1>1, <1>2, <1>3
    <3>2. IsTable(slots[d]) /\ Blocks(slots[d]) = bad[d]
      BY <2>3, <3>1, TableFacts, PageAssumption
    <3> QED BY <3>1, <3>2 DEF Marked
  <2> QED BY <1>1, <2>1, <2>2, <2>3
<1>6. TableTypes'
  <2>1. bad' \in [Dies -> SUBSET DieBlocks]
    <3>1. \A d \in Dies : bad[d] \cup newBad[d] \in SUBSET DieBlocks
      BY <1>2, <1>3
    <3> QED BY <1>1, <3>1
  <2>2. newBad' \in [Dies -> SUBSET DataBlocks]
    BY <1>1 DEF NoBlocks
  <2>3. slots' \in [Slots -> PagesKept]
    <3>1. \A s \in Slots : slots[s] \in PagesKept
      BY <1>2 DEF TableTypes
    <3>2. ASSUME NEW s \in Slots PROVE slots'[s] \in PagesKept
      BY <1>1, <1>5, <3>1
    <3>3. slots' = [s \in Slots |-> slots'[s]]
      BY <1>1
    <3> QED BY <3>2, <3>3
  <2>4. queue' \in [Dies -> Seq(Ops)]
    BY <1>1, <1>4
  <2> QED BY <1>1, <1>2, <2>1, <2>2, <2>3, <2>4 DEF TableTypes
<1>7. ASSUME NEW d \in Dies
      PROVE  QueueOK(d)' /\ SlotOK(d)' /\ newBad'[d] \subseteq history'.warned[d]
  BY <1>1, <1>4 DEF QueueOK, SlotOK, NoBlocks
<1>8. ASSUME NEW d \in Sound' PROVE MapOK(d)'
  <2>1. /\ d \in Sound /\ d \in Dies /\ FactoryBad(d)' = FactoryBad(d) /\ MapOK(d)
        /\ newBad[d] \subseteq history.warned[d] /\ SlotOK(d)
    BY <1>1 DEF Sound, FactoryBad, TableInv
  <2>2. /\ flash[d].table = Table(bad[d]) /\ slots[d] = Table(bad[d]) /\ Right(d, bad[d])
    BY <1>1, <2>1 DEF MapOK, SlotOK
  <2>3. \A B : Right(d, B)' <=> Right(d, B)
    BY <1>1, <2>1 DEF Right
  <2>4. bad'[d] = bad[d] \cup newBad[d]
    BY <1>1, <2>1
  <2>5. Right(d, bad'[d])
    BY <2>1, <2>2, <2>4 DEF Right
  <2>6. Right(d, bad[d])'
    BY <2>3, <2>5
  <2>7. IF queue'[d] = <<>> THEN flash'[d].table = Table(bad'[d])
        ELSE slots'[d] \in {Table(bad'[d]), PageData}
    BY <1>1, <1>4, <1>5, <2>1, <2>2, <2>4
  <2> QED BY <1>1, <2>1, <2>3, <2>6, <2>7 DEF MapOK
<1> QED BY <1>1, <1>6, <1>7, <1>8 DEF TableInv

\* The power fails: what was queued and what was in memory is gone.
LEMMA PowerFailsKeeps ==
    ASSUME AllBlocksNumbered, TableInv, PowerFails
    PROVE  TableInv'
<1> DEFINE lost == {d \in Dies : flash[d].table = Erased
                                  /\ (flash[d].held # {} \/ history.saved[d] # {})}
<1>1. /\ pc' = "off" /\ queue' = [d \in Dies |-> <<>>] /\ slots' = [s \in Slots |-> Erased]
      /\ bad' = NoBlocks /\ newBad' = NoBlocks /\ badBlockUpdate' = FALSE
      /\ history' = [history EXCEPT !.torn = @ \cup lost]
      /\ UNCHANGED flash
  BY DEF PowerFails
<1> HIDE DEF lost
<1>2. lost \subseteq Dies
  BY DEF lost
<1>3. /\ history' \in [saved : [Dies -> SUBSET PhyBlocks], warned : [Dies -> SUBSET DataBlocks],
                       torn : SUBSET Dies, spoilt : SUBSET Dies]
      /\ history'.saved = history.saved /\ history'.warned = history.warned
      /\ history'.spoilt = history.spoilt /\ history'.torn = history.torn \cup lost
  BY <1>1, <1>2 DEF TableInv, TableTypes
<1>4. TableTypes'
  <2>1. bad' \in [Dies -> SUBSET DieBlocks] /\ newBad' \in [Dies -> SUBSET DataBlocks]
    BY <1>1 DEF NoBlocks
  <2>2. queue' \in [Dies -> Seq(Ops)]
    BY <1>1
  <2>3. slots' \in [Slots -> PagesKept]
    BY <1>1, TableFacts
  <2> QED BY <1>1, <1>3, <2>1, <2>2, <2>3 DEF TableInv, TableTypes
<1>5. ASSUME NEW d \in Dies
      PROVE  QueueOK(d)' /\ SlotOK(d)' /\ newBad'[d] \subseteq history'.warned[d]
  BY <1>1 DEF QueueOK, SlotOK, NoBlocks
<1>6. ASSUME NEW d \in Sound' PROVE MapOK(d)'
  <2>1. d \in Sound /\ d \in Dies /\ FactoryBad(d)' = FactoryBad(d) /\ MapOK(d)
    BY <1>1, <1>3 DEF Sound, FactoryBad, TableInv
  <2>2. \A B : Right(d, B) => Right(d, B)'
    BY <1>3, <2>1 DEF Right
  <2>3. Blank(d)'
    BY <1>1, <1>3, <2>1 DEF Blank, lost
  <2> QED BY <1>1, <2>1, <2>2, <2>3 DEF MapOK
<1> QED BY <1>1, <1>4, <1>5, <1>6 DEF TableInv

\* A die whose own queue does not move keeps its part of the invariant: what
\* another die does to its slot of the buffer is to copy through it.
LEMMA OtherDie ==
    ASSUME TableInv, NEW d \in Dies,
           pc' = pc, bad' = bad, newBad' = newBad,
           queue'[d] = queue[d], flash'[d] = flash[d],
           history'.saved[d] = history.saved[d], history'.warned[d] = history.warned[d],
           history'.torn = history.torn, d \in Sound' => d \in Sound,
           slots'[d] = slots[d] \/ (pc \in {"save", "run"} /\ slots'[d] = PageData)
    PROVE  /\ QueueOK(d)' /\ SlotOK(d)' /\ newBad'[d] \subseteq history'.warned[d]
           /\ d \in Sound' => MapOK(d)'
<1>1. QueueOK(d) /\ SlotOK(d) /\ newBad[d] \subseteq history.warned[d]
  BY DEF TableInv
<1>2. ASSUME NEW k PROVE Remaking(d, k)' <=> Remaking(d, k)
  BY DEF Remaking, RowsOf
<1>3. QueueOK(d)'
  BY <1>1, <1>2 DEF QueueOK
<1>4. SlotOK(d)'
  BY <1>1 DEF SlotOK
<1>5. ASSUME d \in Sound' PROVE MapOK(d)'
  <2>1. MapOK(d) /\ FactoryBad(d)' = FactoryBad(d)
    BY <1>5 DEF TableInv, FactoryBad
  <2>2. ASSUME NEW B PROVE Right(d, B)' <=> Right(d, B)
    BY <2>1 DEF Right
  <2> QED BY <2>1, <2>2 DEF MapOK, Blank
<1> QED BY <1>1, <1>3, <1>4, <1>5

FlashType == [table : PagesKept, factory : SUBSET FactoryPages, held : SUBSET HostPages]

\* What every step of a queue has in common.
LEMMA ExecuteFrame ==
    ASSUME TableTypes, NEW e \in Dies, Execute(e)
    PROVE  /\ queue[e] # <<>> /\ queue[e] \in Seq(Ops)
           /\ queue'[e] = Tail(queue[e]) /\ \A d \in Dies \ {e} : queue'[d] = queue[d]
           /\ queue' \in [Dies -> Seq(Ops)]
           /\ UNCHANGED <<bad, newBad, badBlockUpdate, pc>>
           /\ queue[e] = <<Head(queue[e])>> \o Tail(queue[e])
<1>1. queue \in [Dies -> Seq(Ops)] /\ queue[e] \in Seq(Ops) /\ queue[e] # <<>>
  BY DEF TableTypes, Execute
<1>2. Tail(queue[e]) \in Seq(Ops)
  BY <1>1
<1>3. queue' = [queue EXCEPT ![e] = Tail(@)] /\ UNCHANGED <<bad, newBad, badBlockUpdate, pc>>
  BY DEF Execute
<1>4. queue[e] = <<Head(queue[e])>> \o Tail(queue[e])
  BY <1>1
<1> QED BY <1>1, <1>2, <1>3, <1>4

\* An erase.
LEMMA EraseEffect ==
    ASSUME TableTypes, NEW e \in Dies, Execute(e), NEW b \in DieBlocks,
           Head(queue[e]) = Op("Erase", b)
    PROVE  /\ flash' \in [Dies -> FlashType] /\ UNCHANGED <<slots, history>>
           /\ \A d \in Dies \ {e} : flash'[d] = flash[d]
           /\ flash'[e].factory = flash[e].factory
           /\ flash'[e].table = IF b = metadataBlockNo THEN Erased ELSE flash[e].table
           /\ flash'[e].held = IF b = metadataBlockNo THEN flash[e].held
                               ELSE flash[e].held \ RowsOf(b)
<1>1. Head(queue[e]).op = "Erase" /\ Head(queue[e]).at = b
  BY OpFacts
<1>2. /\ flash' = IF b = metadataBlockNo THEN [flash EXCEPT ![e].table = Erased]
                  ELSE [flash EXCEPT ![e].held = @ \ RowsOf(b)]
      /\ UNCHANGED <<slots, history>>
  BY <1>1 DEF Execute
<1>3. flash \in [Dies -> FlashType] /\ Erased \in PagesKept
  BY TableFacts DEF TableTypes, FlashType
<1>4. CASE b = metadataBlockNo
  BY <1>2, <1>3, <1>4 DEF FlashType
<1>5. CASE b # metadataBlockNo
  BY <1>2, <1>3, <1>5 DEF FlashType
<1> QED BY <1>2, <1>4, <1>5

\* While every block is erased.
LEMMA ExecuteRemake ==
    ASSUME TableInv, NEW e \in Dies, Execute(e), pc = "remake"
    PROVE  TableInv'
<1> DEFINE N == BLOCK_NUM_PER_DIE
<1>1. TableTypes /\ QueueOK(e) /\ N \in Nat \ {0}
  BY BlockFacts DEF TableInv
<1>2. PICK k \in 0 .. N : Remaking(e, k)
  BY <1>1 DEF QueueOK
<1>3. /\ queue[e] # <<>> /\ queue'[e] = Tail(queue[e])
      /\ \A d \in Dies \ {e} : queue'[d] = queue[d]
      /\ queue' \in [Dies -> Seq(Ops)] /\ UNCHANGED <<bad, newBad, badBlockUpdate, pc>>
  BY <1>1, ExecuteFrame
<1>4. /\ queue[e] = [i \in 1 .. N - k |-> Op("Erase", k + i - 1)]
      /\ k > 0 => flash[e].table = Erased
      /\ flash[e].held \subseteq UNION {RowsOf(b) : b \in k .. N - 1}
  BY <1>2 DEF Remaking
<1>5. k < N
  <2> SUFFICES ASSUME k = N PROVE FALSE
    BY <1>1
  <2>1. 1 .. N - k = {}
    BY <1>1
  <2> QED BY <1>3, <1>4, <2>1
<1>6. /\ k \in Nat /\ N - k \in Nat \ {0} /\ k \in DieBlocks
      /\ Head(queue[e]) = Op("Erase", k)
      /\ Tail(queue[e]) = [i \in 1 .. N - (k + 1) |-> Op("Erase", (k + 1) + i - 1)]
  <2>1. k \in Nat /\ N - k \in Nat \ {0} /\ k \in DieBlocks
    BY <1>1, <1>5, BlockFacts
  <2>2. Len(queue[e]) = N - k /\ queue[e] \in Seq(Ops)
    <3>1. queue[e] \in Seq(Ops)
      BY <1>1 DEF TableTypes
    <3>2. DOMAIN queue[e] = 1 .. N - k
      BY <1>4
    <3> QED BY <2>1, <3>1, <3>2
  <2>3. Head(queue[e]) = Op("Erase", k + 1 - 1)
    BY <1>4, <2>1, <2>2
  <2>4. Tail(queue[e]) = [i \in 1 .. N - k - 1 |-> queue[e][i + 1]]
    BY <2>1, <2>2
  <2>5. \A i \in 1 .. N - k - 1 : queue[e][i + 1] = Op("Erase", (k + 1) + i - 1)
    <3> SUFFICES ASSUME NEW i \in 1 .. N - k - 1
                 PROVE  queue[e][i + 1] = Op("Erase", (k + 1) + i - 1)
      OBVIOUS
    <3>1. i + 1 \in 1 .. N - k /\ k + (i + 1) - 1 = (k + 1) + i - 1
      BY <2>1
    <3> QED BY <1>4, <3>1
  <2>6. N - k - 1 = N - (k + 1) /\ k + 1 - 1 = k
    BY <1>1, <2>1
  <2> QED BY <2>1, <2>3, <2>4, <2>5, <2>6
<1>7. /\ flash' \in [Dies -> FlashType] /\ UNCHANGED <<slots, history>>
      /\ \A d \in Dies \ {e} : flash'[d] = flash[d]
      /\ flash'[e].factory = flash[e].factory
      /\ flash'[e].table = IF k = metadataBlockNo THEN Erased ELSE flash[e].table
      /\ flash'[e].held = IF k = metadataBlockNo THEN flash[e].held
                          ELSE flash[e].held \ RowsOf(k)
  BY <1>1, <1>6, EraseEffect
<1>8. TableTypes'
  BY <1>1, <1>3, <1>7 DEF TableTypes, FlashType
<1>9. QueueOK(e)'
  <2>1. flash'[e].table = Erased
    BY <1>4, <1>6, <1>7, BlockFacts
  <2>2. flash'[e].held \subseteq UNION {RowsOf(b) : b \in k + 1 .. N - 1}
    <3>1. CASE k = 0
      <4>1. flash'[e].held \subseteq HostPages
        BY <1>8 DEF TableTypes
      <4> QED BY <3>1, <4>1, HeldRows
    <3>2. CASE k # 0
      <4>1. flash'[e].held = flash[e].held \ RowsOf(k)
        BY <1>7, <3>2, BlockFacts
      <4>2. \A b \in k .. N - 1 : b = k \/ b \in k + 1 .. N - 1
        BY <1>1, <1>6
      <4> QED BY <1>4, <4>1, <4>2
    <3> QED BY <3>1, <3>2
  <2>3. Remaking(e, k + 1)'
    BY <1>3, <1>6, <2>1, <2>2 DEF Remaking, RowsOf
  <2>4. k + 1 \in 0 .. N
    BY <1>1, <1>6
  <2> QED BY <1>3, <2>3, <2>4 DEF QueueOK
<1>10. SlotOK(e)' /\ newBad'[e] \subseteq history'.warned[e]
  BY <1>3, <1>7 DEF SlotOK, TableInv
<1>11. ASSUME e \in Sound' PROVE MapOK(e)'
  <2>1. e \in Sound /\ FactoryBad(e)' = FactoryBad(e) /\ MapOK(e)
    BY <1>7, <1>11 DEF Sound, FactoryBad, TableInv
  <2>2. ASSUME NEW B PROVE Right(e, B)' <=> Right(e, B)
    BY <1>7, <2>1 DEF Right
  <2> QED BY <1>3, <1>7, <2>1, <2>2 DEF MapOK
<1>12. ASSUME NEW d \in Dies, d # e
       PROVE  /\ QueueOK(d)' /\ SlotOK(d)' /\ newBad'[d] \subseteq history'.warned[d]
              /\ d \in Sound' => MapOK(d)'
  <2>1. d \in Sound' => d \in Sound
    BY <1>7 DEF Sound
  <2> QED BY <1>3, <1>7, <1>12, <2>1, OtherDie
<1>13. Sound' \subseteq Dies
  BY DEF Sound
<1>14. pc' \notin {"run", "update"} => newBad' = NoBlocks
  BY <1>3 DEF TableInv, NoBlocks
<1> QED BY <1>8, <1>9, <1>10, <1>11, <1>12, <1>13, <1>14 DEF TableInv

\* While the tables are read.
LEMMA ExecuteRead ==
    ASSUME TableInv, NEW e \in Dies, Execute(e), pc \in {"read", "update"}
    PROVE  TableInv'
<1>1. TableTypes /\ QueueOK(e) /\ Reading(e, queue[e])
  BY DEF TableInv, QueueOK
<1>2. /\ queue[e] # <<>> /\ queue'[e] = Tail(queue[e])
      /\ \A d \in Dies \ {e} : queue'[d] = queue[d]
      /\ queue' \in [Dies -> Seq(Ops)] /\ UNCHANGED <<bad, newBad, badBlockUpdate, pc>>
  BY <1>1, ExecuteFrame
<1>3. Head(queue[e]) = Op("ReadTable", e) /\ queue'[e] = <<>>
  <2>1. queue[e] = <<Op("ReadTable", e)>>
    BY <1>1, <1>2 DEF Reading
  <2>2. \A x : Head(<<x>>) = x /\ Tail(<<x>>) = <<>>
    OBVIOUS
  <2> QED BY <1>2, <2>1, <2>2
<1>4. slots' = [slots EXCEPT ![e] = flash[e].table] /\ UNCHANGED <<flash, history>>
  <2>1. Head(queue[e]).op = "ReadTable" /\ Head(queue[e]).at = e
    BY <1>3, OpFacts
  <2> QED BY <2>1 DEF Execute
<1>5. /\ slots' \in [Slots -> PagesKept] /\ slots'[e] = flash[e].table
      /\ \A d \in Dies \ {e} : slots'[d] = slots[d]
  BY <1>1, <1>4 DEF TableTypes, Slots
<1>6. TableTypes'
  BY <1>1, <1>2, <1>4, <1>5 DEF TableTypes
<1>7. QueueOK(e)' /\ SlotOK(e)' /\ newBad'[e] \subseteq history'.warned[e]
  BY <1>2, <1>3, <1>4, <1>5 DEF QueueOK, Reading, SlotOK, TableInv
<1>8. ASSUME e \in Sound' PROVE MapOK(e)'
  <2>1. e \in Sound /\ FactoryBad(e)' = FactoryBad(e) /\ MapOK(e)
    BY <1>4, <1>8 DEF Sound, FactoryBad, TableInv
  <2>2. ASSUME NEW B PROVE Right(e, B)' <=> Right(e, B)
    BY <1>4, <2>1 DEF Right
  <2> QED BY <1>2, <1>4, <2>1, <2>2 DEF MapOK, Blank
<1>9. ASSUME NEW d \in Dies, d # e
      PROVE  /\ QueueOK(d)' /\ SlotOK(d)' /\ newBad'[d] \subseteq history'.warned[d]
             /\ d \in Sound' => MapOK(d)'
  <2>1. d \in Sound' => d \in Sound
    BY <1>4 DEF Sound
  <2> QED BY <1>2, <1>4, <1>5, <1>9, <2>1, OtherDie
<1>10. Sound' \subseteq Dies
  BY DEF Sound
<1>11. pc' \notin {"run", "update"} => newBad' = NoBlocks
  BY <1>2 DEF TableInv, NoBlocks
<1> QED BY <1>6, <1>7, <1>8, <1>9, <1>10, <1>11 DEF TableInv

\* While the good blocks are erased.
LEMMA ExecuteErase ==
    ASSUME TableInv, NEW e \in Dies, Execute(e), pc = "erase"
    PROVE  TableInv'
<1>1. TableTypes /\ \A i \in 1 .. Len(queue[e]) : queue[e][i] \in {Op("Erase", b) : b \in DataBlocks}
  BY DEF TableInv, QueueOK
<1>2. /\ queue[e] # <<>> /\ queue'[e] = Tail(queue[e]) /\ queue[e] \in Seq(Ops)
      /\ \A d \in Dies \ {e} : queue'[d] = queue[d]
      /\ queue' \in [Dies -> Seq(Ops)] /\ UNCHANGED <<bad, newBad, badBlockUpdate, pc>>
  BY <1>1, ExecuteFrame
<1>3. PICK b \in DataBlocks : Head(queue[e]) = Op("Erase", b)
  <2>1. 1 \in 1 .. Len(queue[e]) /\ Head(queue[e]) = queue[e][1]
    BY <1>2
  <2> QED BY <1>1, <2>1
<1>4. b \in DieBlocks /\ b # metadataBlockNo
  BY BlockFacts
<1>5. /\ flash' \in [Dies -> FlashType] /\ UNCHANGED <<slots, history>>
      /\ \A d \in Dies \ {e} : flash'[d] = flash[d]
      /\ flash'[e].factory = flash[e].factory /\ flash'[e].table = flash[e].table
  BY <1>1, <1>3, <1>4, EraseEffect
<1>6. TableTypes'
  BY <1>1, <1>2, <1>5 DEF TableTypes, FlashType
<1>7. \A i \in 1 .. Len(queue'[e]) : queue'[e][i] \in {Op("Erase", c) : c \in DataBlocks}
  <2>1. /\ Len(queue'[e]) = Len(queue[e]) - 1 /\ Len(queue[e]) \in Nat
        /\ \A i \in 1 .. Len(queue[e]) - 1 : queue'[e][i] = queue[e][i + 1]
    BY <1>2
  <2>2. \A i \in 1 .. Len(queue[e]) - 1 : i + 1 \in 1 .. Len(queue[e])
    BY <2>1
  <2> QED BY <1>1, <2>1, <2>2
<1>8. QueueOK(e)' /\ SlotOK(e)' /\ newBad'[e] \subseteq history'.warned[e]
  BY <1>2, <1>5, <1>7 DEF QueueOK, SlotOK, TableInv
<1>9. ASSUME e \in Sound' PROVE MapOK(e)'
  <2>1. e \in Sound /\ FactoryBad(e)' = FactoryBad(e) /\ MapOK(e)
    BY <1>5, <1>9 DEF Sound, FactoryBad, TableInv
  <2>2. ASSUME NEW B PROVE Right(e, B)' <=> Right(e, B)
    BY <1>5, <2>1 DEF Right
  <2> QED BY <1>2, <1>5, <2>1, <2>2 DEF MapOK
<1>10. ASSUME NEW d \in Dies, d # e
       PROVE  /\ QueueOK(d)' /\ SlotOK(d)' /\ newBad'[d] \subseteq history'.warned[d]
              /\ d \in Sound' => MapOK(d)'
  <2>1. d \in Sound' => d \in Sound
    BY <1>5 DEF Sound
  <2> QED BY <1>2, <1>5, <1>10, <2>1, OtherDie
<1>11. Sound' \subseteq Dies
  BY DEF Sound
<1>12. pc' \notin {"run", "update"} => newBad' = NoBlocks
  BY <1>2 DEF TableInv, NoBlocks
<1> QED BY <1>6, <1>8, <1>9, <1>10, <1>11, <1>12 DEF TableInv

\* While a table is saved: what an erase, a copy or the program of the table
\* leaves.
LEMMA ExecuteSave ==
    ASSUME AllBlocksNumbered, TableInv, NEW e \in Dies, Execute(e), pc \in {"save", "run"}
    PROVE  TableInv'
<1> DEFINE h == Head(queue[e])
<1>1. TableTypes /\ Saving(e, queue[e])
  BY DEF TableInv, QueueOK
<1>2. /\ queue[e] # <<>> /\ queue'[e] = Tail(queue[e]) /\ queue[e] \in Seq(Ops)
      /\ \A d \in Dies \ {e} : queue'[d] = queue[d]
      /\ queue' \in [Dies -> Seq(Ops)] /\ UNCHANGED <<bad, newBad, badBlockUpdate, pc>>
  BY <1>1, ExecuteFrame
<1>3. /\ Saving(e, queue'[e])
      /\ \/ queue'[e] = <<>> /\ h = Op("WriteTable", e)
         \/ queue'[e] # <<>> /\ h \in Moves(e) \cup {Op("Erase", metadataBlockNo)}
  <2>1. /\ Saving(e, Tail(queue[e]))
        /\ Len(queue[e]) = 1 => Tail(queue[e]) = <<>> /\ h = Op("WriteTable", e)
        /\ Len(queue[e]) = 2 => h = Op("Erase", metadataBlockNo) /\ Tail(queue[e]) # <<>>
        /\ Len(queue[e]) > 2 => h \in Moves(e) /\ Tail(queue[e]) # <<>>
        /\ Len(queue[e]) \in Nat \ {0}
    BY <1>1, <1>2, SavingTail
  <2>2. \A n \in Nat \ {0} : n = 1 \/ n = 2 \/ n > 2
    OBVIOUS
  <2> QED BY <1>2, <2>1, <2>2, Zenon
<1> HIDE DEF h
<1>4. e \in Slots /\ e + CopySlot \in Slots /\ slots \in [Slots -> PagesKept]
      /\ flash \in [Dies -> FlashType]
  BY <1>1, OpFacts DEF TableTypes, FlashType
\* another die may copy through the slot of this one, not change its flash
<1>5. /\ slots' \in [Slots -> PagesKept] /\ flash' \in [Dies -> FlashType]
      /\ \A d \in Dies : slots'[d] = slots[d] \/ slots'[d] = PageData
      /\ \A d \in Dies \ {e} : flash'[d] = flash[d]
      /\ flash'[e].factory = flash[e].factory
      /\ queue'[e] # <<>> => /\ flash'[e].table \in {Erased, flash[e].table}
                             /\ history' = history
      /\ queue'[e] = <<>> =>
            /\ flash'[e].table = slots[e] /\ slots' = slots
            /\ history' = IF IsTable(slots[e])
                          THEN [history EXCEPT !.saved[e] = @ \cup Blocks(slots[e])]
                          ELSE [history EXCEPT !.spoilt = @ \cup {e}]
  <2>1. CASE queue'[e] = <<>>
    <3>1. h = Op("WriteTable", e)
      BY <1>3, <2>1
    <3>2. Head(queue[e]).op = "WriteTable" /\ Head(queue[e]).at = e
      BY <3>1, OpFacts DEF h
    <3>3. /\ flash' = [flash EXCEPT ![e].table = slots[e]] /\ slots' = slots
          /\ history' = IF IsTable(slots[e])
                        THEN [history EXCEPT !.saved[e] = @ \cup Blocks(slots[e])]
                        ELSE [history EXCEPT !.spoilt = @ \cup {e}]
      BY <3>2 DEF Execute
    <3>4. slots[e] \in PagesKept
      BY <1>4
    <3>5. /\ flash' \in [Dies -> FlashType] /\ flash'[e].table = slots[e]
          /\ flash'[e].factory = flash[e].factory /\ \A d \in Dies \ {e} : flash'[d] = flash[d]
      BY <1>4, <3>3, <3>4 DEF FlashType
    <3> QED BY <1>4, <2>1, <3>3, <3>5
  <2>2. ASSUME queue'[e] # <<>>, NEW b \in DieBlocks, h = Op("Erase", b)
        PROVE  /\ slots' \in [Slots -> PagesKept] /\ flash' \in [Dies -> FlashType]
               /\ \A d \in Dies : slots'[d] = slots[d] \/ slots'[d] = PageData
               /\ \A d \in Dies \ {e} : flash'[d] = flash[d]
               /\ flash'[e].factory = flash[e].factory
               /\ flash'[e].table \in {Erased, flash[e].table} /\ history' = history
    BY <1>1, <1>4, <2>2, EraseEffect DEF h
  <2>3. CASE queue'[e] # <<>> /\ h = Op("ReadPage", e + CopySlot)
    <3>1. Head(queue[e]).op = "ReadPage" /\ Head(queue[e]).at = e + CopySlot
      BY <2>3, OpFacts DEF h
    <3>2. slots' = [slots EXCEPT ![e + CopySlot] = PageData] /\ UNCHANGED <<flash, history>>
      BY <3>1 DEF Execute
    <3>3. PageData \in PagesKept /\ \A d \in Dies : d \in Slots
      BY TableFacts DEF Slots
    <3>4. slots' \in [Slots -> PagesKept] /\ \A d \in Dies : slots'[d] = slots[d] \/ slots'[d] = PageData
      BY <1>4, <3>2, <3>3
    <3> QED BY <1>4, <2>3, <3>2, <3>4
  <2>4. CASE queue'[e] # <<>> /\ h = Op("ProgramPage", e + CopySlot)
    <3>1. Head(queue[e]).op = "ProgramPage"
      BY <2>4, OpFacts DEF h
    <3>2. /\ UNCHANGED <<slots, history>>
          /\ \E held \in {{}} \cup {{PhyRow(row)} : row \in UsableRows(e)} :
                 flash' = [flash EXCEPT ![e].held = @ \cup held]
      BY <3>1 DEF Execute
    <3>3. PICK held \in SUBSET HostPages : flash' = [flash EXCEPT ![e].held = @ \cup held]
      BY <3>2 DEF UsableRows, HostPages
    <3>4. /\ flash' \in [Dies -> FlashType] /\ flash'[e].table = flash[e].table
          /\ flash'[e].factory = flash[e].factory /\ \A d \in Dies \ {e} : flash'[d] = flash[d]
      BY <1>4, <3>3 DEF FlashType
    <3> QED BY <1>4, <2>4, <3>2, <3>4
  <2>5. \/ queue'[e] = <<>>
        \/ queue'[e] # <<>> /\ \E b \in DieBlocks : h = Op("Erase", b)
        \/ queue'[e] # <<>> /\ h = Op("ReadPage", e + CopySlot)
        \/ queue'[e] # <<>> /\ h = Op("ProgramPage", e + CopySlot)
    BY <1>3, BlockFacts DEF Moves
  <2> QED BY <2>1, <2>2, <2>3, <2>4, <2>5
<1>6. /\ history' \in [saved : [Dies -> SUBSET PhyBlocks], warned : [Dies -> SUBSET DataBlocks],
                       torn : SUBSET Dies, spoilt : SUBSET Dies]
      /\ history'.warned = history.warned /\ history'.torn = history.torn
      /\ \A d \in Dies \ {e} : history'.saved[d] = history.saved[d]
      /\ history.spoilt \subseteq history'.spoilt
      /\ queue'[e] = <<>> /\ ~IsTable(slots[e]) => e \in history'.spoilt
      /\ queue'[e] = <<>> /\ IsTable(slots[e])
             => history'.saved[e] = history.saved[e] \cup Blocks(slots[e])
  <2>1. history \in [saved : [Dies -> SUBSET PhyBlocks], warned : [Dies -> SUBSET DataBlocks],
                     torn : SUBSET Dies, spoilt : SUBSET Dies]
    BY <1>1 DEF TableTypes
  <2>2. CASE queue'[e] = <<>> /\ IsTable(slots[e])
    <3>1. PICK B \in SUBSET PhyBlocks : slots[e] = Table(B)
      BY <1>4, <2>2, TableFacts
    <3>2. Blocks(slots[e]) \in SUBSET PhyBlocks
      BY <3>1, TableFacts
    <3>3. history' = [history EXCEPT !.saved[e] = @ \cup Blocks(slots[e])]
      BY <1>5, <2>2
    <3> QED BY <2>1, <2>2, <3>2, <3>3
  <2>3. CASE queue'[e] = <<>> /\ ~IsTable(slots[e])
    <3>1. history' = [history EXCEPT !.spoilt = @ \cup {e}]
      BY <1>5, <2>3
    <3> QED BY <2>1, <2>3, <3>1
  <2>4. CASE queue'[e] # <<>>
    BY <1>5, <2>1, <2>4
  <2> QED BY <2>2, <2>3, <2>4
<1>7. TableTypes'
  BY <1>1, <1>2, <1>5, <1>6 DEF TableTypes, FlashType
<1>8. QueueOK(e)' /\ SlotOK(e)' /\ newBad'[e] \subseteq history'.warned[e]
  BY <1>2, <1>3, <1>6 DEF QueueOK, SlotOK, TableInv
<1>9. ASSUME e \in Sound' PROVE MapOK(e)'
  <2>1. e \in Sound /\ FactoryBad(e)' = FactoryBad(e) /\ MapOK(e)
    BY <1>5, <1>6, <1>9 DEF Sound, FactoryBad, TableInv
  <2>2. Right(e, bad[e]) /\ slots[e] \in {Table(bad[e]), PageData}
    BY <1>2, <2>1 DEF MapOK
  <2>3. bad[e] \in SUBSET PhyBlocks
    BY <1>1, SameNumbers DEF TableTypes
  <2>4. CASE queue'[e] = <<>>
    <3>1. IsTable(slots[e])
      BY <1>6, <1>9, <2>4 DEF Sound
    <3>2. slots[e] = Table(bad[e]) /\ Blocks(slots[e]) = bad[e]
      BY <2>2, <2>3, <3>1, TableFacts DEF IsTable
    <3>3. Right(e, bad[e])'
      BY <1>2, <1>6, <2>1, <2>2, <2>4, <3>1, <3>2 DEF Right
    <3>4. flash'[e].table = Table(bad[e])
      BY <1>5, <2>4, <3>2
    <3> QED BY <1>2, <2>3, <2>4, <3>3, <3>4 DEF MapOK
  <2>5. CASE queue'[e] # <<>>
    <3>1. history' = history
      BY <1>5, <2>5
    <3>2. ASSUME NEW B PROVE Right(e, B)' <=> Right(e, B)
      BY <2>1, <3>1 DEF Right
    <3>3. slots'[e] \in {Table(bad[e]), PageData} /\ flash'[e].table \in {Erased, flash[e].table}
      BY <1>5, <2>2, <2>5
    <3> QED BY <1>2, <2>1, <2>5, <3>2, <3>3 DEF MapOK
  <2> QED BY <2>4, <2>5
<1>10. ASSUME NEW d \in Dies, d # e
       PROVE  /\ QueueOK(d)' /\ SlotOK(d)' /\ newBad'[d] \subseteq history'.warned[d]
              /\ d \in Sound' => MapOK(d)'
  <2>1. d \in Sound' => d \in Sound
    BY <1>6 DEF Sound
  <2>2. /\ queue'[d] = queue[d] /\ flash'[d] = flash[d]
        /\ history'.saved[d] = history.saved[d] /\ history'.warned[d] = history.warned[d]
        /\ history'.torn = history.torn
        /\ slots'[d] = slots[d] \/ slots'[d] = PageData
    BY <1>2, <1>5, <1>6, <1>10
  <2> QED BY <1>2, <2>1, <2>2, OtherDie
<1>11. Sound' \subseteq Dies
  BY DEF Sound
<1>12. pc' \notin {"run", "update"} => newBad' = NoBlocks
  BY <1>2 DEF TableInv, NoBlocks
<1> QED BY <1>7, <1>8, <1>9, <1>10, <1>11, <1>12 DEF TableInv

\* The step of the invariant.
LEMMA TableStep == AllBlocksNumbered /\ TableInv /\ [Next]_vars => TableInv'
<1> SUFFICES ASSUME AllBlocksNumbered, TableInv, [Next]_vars PROVE TableInv'
  OBVIOUS
<1>1. ASSUME NEW remake \in BOOLEAN, PowerOn(remake) PROVE TableInv'
  BY <1>1, PowerOnKeeps
<1>2. CASE Remade
  BY <1>2, RemadeKeeps
<1>3. CASE RecoverBadBlockTable
  BY <1>3, RecoverKeeps
<1>4. CASE InitialErase
  BY <1>4, InitialEraseKeeps
<1>5. CASE Started
  BY <1>5, StartedKeeps
<1>6. ASSUME NEW d \in Dies, NEW row \in Rows, HostProgram(d, row) \/ Warning(d, row)
      PROVE  TableInv'
  BY <1>6, HostProgramKeeps, WarningKeeps
<1>7. CASE EmptyLowLevelQ
  BY <1>7, EmptyLowLevelQKeeps
<1>8. CASE UpdateTables
  BY <1>8, UpdateKeeps
<1>9. ASSUME NEW d \in Dies, Execute(d) PROVE TableInv'
  <2>1. /\ pc \in {"off", "remake", "read", "save", "erase", "run", "update"}
        /\ queue[d] # <<>> /\ QueueOK(d)
    BY <1>9, ExecuteFrame DEF TableInv, TableTypes
  <2>2. pc # "off"
    BY <2>1 DEF QueueOK
  <2> QED BY <1>9, <2>1, <2>2, ExecuteRemake, ExecuteRead, ExecuteErase, ExecuteSave
<1>10. CASE PowerFails
  BY <1>10, PowerFailsKeeps
<1>11. CASE UNCHANGED vars
  <2>1. TableTypes'
    BY <1>11 DEF TableInv, TableTypes, vars
  <2>2. ASSUME NEW d \in Dies
        PROVE  /\ QueueOK(d)' /\ SlotOK(d)' /\ newBad'[d] \subseteq history'.warned[d]
               /\ d \in Sound' => MapOK(d)'
    BY <1>11, OtherDie DEF vars, Sound
  <2> QED BY <1>11, <2>1, <2>2 DEF TableInv, vars, NoBlocks, Sound
<1> QED BY <1>1, <1>2, <1>3, <1>4, <1>5, <1>6, <1>7, <1>8, <1>9, <1>10, <1>11 DEF Next

\* The invariant holds over any number of starts, saves and power failures,
\* wherever the power fails, for any number of dies and blocks.
THEOREM BadBlockTableInvariant == ASSUME AllBlocksNumbered PROVE Spec => []TableInv
<1>1. Init => TableInv
  BY InitTable
<1>2. TableInv /\ [Next]_vars => TableInv'
  BY TableStep
<1> QED BY <1>1, <1>2, PTL DEF Spec

\* The types, and with them the bounds of the tables.
THEOREM BadBlockTableTyped == ASSUME AllBlocksNumbered PROVE Spec => []TypeOK
<1>1. TableInv => TypeOK
  <2> SUFFICES ASSUME TableInv PROVE TypeOK
    OBVIOUS
  <2>1. TableTypes /\ DataBlocks \subseteq PhyBlocks
    BY SameNumbers, BlockFacts DEF TableInv
  <2>2. ASSUME NEW d \in Dies
        PROVE  /\ flash[d].held \subseteq {PhyRow(row) : row \in Rows}
               /\ IsTable(flash[d].table) => Blocks(flash[d].table) \subseteq PhyBlocks
    <3>1. flash[d].held \subseteq HostPages /\ flash[d].table \in PagesKept
      BY <2>1 DEF TableTypes
    <3>2. IsTable(flash[d].table) => Blocks(flash[d].table) \subseteq PhyBlocks
      BY <3>1, TableFacts
    <3> QED BY <3>1, <3>2 DEF HostPages
  <2>3. newBad \in [Dies -> SUBSET PhyBlocks]
    BY <2>1 DEF TableTypes
  <2> QED BY <2>1, <2>2, <2>3 DEF TypeOK, TableTypes
<1> QED BY <1>1, BadBlockTableInvariant, PTL

\* A block that the factory marked bad is never used, whatever became of the
\* table (RecoverBadBlockTable, page_map.c:159).
THEOREM FactoryBadUnusedTheorem == ASSUME AllBlocksNumbered PROVE Spec => []FactoryBadUnused
<1>1. TableInv => FactoryBadUnused
  BY DEF TableInv, FactoryBadUnused, MapOK, Right
<1> QED BY <1>1, BadBlockTableInvariant, PTL

\* When the queue of a die is empty its table on flash says what the map says
\* (EmptyLowLevelQ, low_level_scheduler.c:1610).
THEOREM TableMatchesMapTheorem == ASSUME AllBlocksNumbered PROVE Spec => []TableMatchesMap
<1>1. TableInv => TableMatchesMap
  <2> SUFFICES ASSUME TableInv, pc = "run", NEW d \in Sound, queue[d] = <<>>
               PROVE  flash[d].table = Table({PhyBlock(b) : b \in bad[d]})
    BY DEF TableMatchesMap
  <2>1. flash[d].table = Table(bad[d])
    BY DEF TableInv, MapOK
  <2>2. bad[d] \in SUBSET DieBlocks
    BY DEF TableInv, TableTypes, Sound
  <2>3. {PhyBlock(b) : b \in bad[d]} = bad[d]
    BY <2>2, SameNumbers
  <2> QED BY <2>1, <2>3
<1> QED BY <1>1, BadBlockTableInvariant, PTL

\* Over any number of starts no block that was saved for bad is used again, and
\* none is taken for bad without a mark or a warning.
THEOREM BadBlocksKeptTheorem == ASSUME AllBlocksNumbered PROVE Spec => []BadBlocksKept
<1>1. TableInv => BadBlocksKept
  <2> SUFFICES ASSUME TableInv, pc = "run", NEW d \in Sound, d \notin history.torn
               PROVE  /\ history.saved[d] \subseteq {PhyBlock(b) : b \in bad[d]}
                      /\ bad[d] \subseteq FactoryBad(d) \cup history.warned[d]
    BY DEF BadBlocksKept
  <2>1. Right(d, bad[d])
    BY DEF TableInv, MapOK
  <2>2. bad[d] \in SUBSET DieBlocks
    BY DEF TableInv, TableTypes, Sound
  <2>3. {PhyBlock(b) : b \in bad[d]} = bad[d]
    BY <2>2, SameNumbers
  <2> QED BY <2>1, <2>3 DEF Right
<1> QED BY <1>1, BadBlockTableInvariant, PTL

=============================================================================
