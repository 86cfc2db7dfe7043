------------------------------ MODULE PageMap -------------------------------
(***************************************************************************)
(* The page-mapping flash translation layer (page_map.c) on a device that  *)
(* reports no NAND failure: host page writes, the choice of the next free  *)
(* page, invalidation of the old copy, and garbage collection, which runs  *)
(* over every die when one die has no free block left.                     *)
(*                                                                         *)
(* Dies share nothing but the garbage collector, so the tables of one die  *)
(* (pageMap, blockMap, dieBlock and gcMap at index dieNo, and the NAND     *)
(* array behind them) are one record, and the C functions that touch one   *)
(* die are operators from records to records.  The firmware is a single    *)
(* polling loop: a PmWrite that needs no collection is one step; one that  *)
(* does is suspended while the loops of GarbageCollection take a step per  *)
(* iteration, and pc says where it stands.                                 *)
(*                                                                         *)
(* Requests to the NAND take effect when they are queued.  That is what    *)
(* the queues guarantee as long as each die executes its requests in the   *)
(* order they were pushed.                                                 *)
(***************************************************************************)
EXTENDS LinkedList, Integers

CONSTANTS
    DIE_NUM, BLOCK_NUM_PER_DIE, PAGE_NUM_PER_BLOCK,
    LPN_NUM,            \* logical pages of one die
    MAX_BAD,            \* most blocks of a die that are bad at start
    Data, Erased        \* contents of a written page; of an erased one

metadataBlockNo == 0    \* InitNandReset, init_ftl.c

ASSUME GeometryAssumption ==
    /\ DIE_NUM \in Nat \ {0}
    /\ BLOCK_NUM_PER_DIE \in Nat \ {0}
    /\ PAGE_NUM_PER_BLOCK \in 1 .. 65535        \* currentPage is 16 bits wide
    /\ LPN_NUM \in 0 .. BLOCK_NUM_PER_DIE * PAGE_NUM_PER_BLOCK
    /\ MAX_BAD \in Nat

ASSUME SentinelAssumption == NONE \notin Int /\ Erased \notin Data

Dies   == 0 .. DIE_NUM - 1
Blocks == 0 .. BLOCK_NUM_PER_DIE - 1
Offsets == 0 .. PAGE_NUM_PER_BLOCK - 1
PageCounters == Offsets \cup {65535}             \* 0xffff: no page written yet
Rows   == 0 .. BLOCK_NUM_PER_DIE * PAGE_NUM_PER_BLOCK - 1
Lpns   == 0 .. LPN_NUM - 1
Counts == 0 .. PAGE_NUM_PER_BLOCK               \* the lists of gcMap

Row(b, i)  == b * PAGE_NUM_PER_BLOCK + i
BlockOf(p) == p \div PAGE_NUM_PER_BLOCK
Bump(x)    == (x + 1) % 65536                   \* currentPage++ on 16 bits

VARIABLES
    die,        \* the tables and the NAND array of each die
    pc,         \* idle | gc | resume | halted
    req,        \* the arguments of the last PmWrite, which may be waiting
    gc          \* the locals of GarbageCollection

vars == <<die, pc, req, gc>>

(***************************************************************************)
(* One die after InitPageMap, InitBlockMap, InitDieBlock and InitGcMap:    *)
(* everything erased, the first and the last usable block taken.           *)
(***************************************************************************)
Usable(bad) == {b \in Blocks : ~bad[b] /\ b # metadataBlockNo}

BadBlockTables ==
    {bad \in [Blocks -> BOOLEAN] :
        /\ Cardinality({b \in Blocks : bad[b]}) <= MAX_BAD
        /\ \E b, c \in Usable(bad) : b # c}

FreshDie(bad, first, last) ==
    [ppn   |-> [l \in Lpns |-> NONE],
     valid |-> [p \in Rows |-> TRUE],
     lpn   |-> [p \in Rows |-> NONE],
     bad   |-> bad,
     free  |-> [b \in Blocks |-> b \notin {metadataBlockNo, first, last}],
     invalidPageCnt |-> [b \in Blocks |-> 0],
     currentPage    |-> [b \in Blocks |-> 65535],
     list  |-> EmptyLists(Blocks, Counts),
     currentBlock |-> first,
     freeBlock    |-> last,
     flash |-> [p \in Rows |-> Erased]]

FreshDies == {FreshDie(bad, f, l) : bad \in BadBlockTables, f \in Blocks, l \in Blocks}

InitDieBlock(s) ==
    /\ {s.currentBlock, s.freeBlock} \subseteq Usable(s.bad)
    /\ \A b \in Usable(s.bad) : s.currentBlock <= b /\ b <= s.freeBlock

(***************************************************************************)
(* The per-die functions of page_map.c.                                    *)
(***************************************************************************)
\* Mutant of Full: the last page of a block is looked for one page too late.
FullOffByOne(s, b) == s.currentPage[b] = PAGE_NUM_PER_BLOCK

Full(s, b)    == s.currentPage[b] = PAGE_NUM_PER_BLOCK - 1
FreePage(s, b) == Row(b, Bump(s.currentPage[b]))
\* Mutant of FreeBlocks: bad blocks are handed out.
FreeBlocksWithBad(s) == {b \in Blocks : s.free[b]}

FreeBlocks(s) == {b \in Blocks : s.free[b] /\ ~s.bad[b]}

\* b is the block the cyclic search of FindFreePage meets first
NextFreeBlock(s, b) ==
    LET distance(x) == (x - s.currentBlock - 1) % BLOCK_NUM_PER_DIE
    IN  /\ b \in FreeBlocks(s)
        /\ \A x \in FreeBlocks(s) : distance(b) <= distance(x)

OpenBlock(s, b) == [s EXCEPT !.free[b] = FALSE, !.currentBlock = b]

\* Mutant of UpdateMetaForInvalidate: the old copy stays valid.
InvalidateNothing(s, l) == s

\* the current copy of logical page l becomes invalid
UpdateMetaForInvalidate(s, l) ==
    IF s.ppn[l] = NONE \/ ~s.valid[s.ppn[l]] THEN s
    ELSE LET b == BlockOf(s.ppn[l])
             k == s.invalidPageCnt[b]
         IN  [s EXCEPT !.valid[s.ppn[l]] = FALSE,
                       !.invalidPageCnt[b] = k + 1,
                       !.list = LinkTail(Unlink(@, b, k), b, k + 1)]

\* page p of block b, the next one in order, receives logical page l
Program(s, b, p, l, v) ==
    [s EXCEPT !.currentPage[b] = Bump(@), !.flash[p] = v,
              !.ppn[l] = p, !.lpn[p] = l]

\* PmWrite once the current block has room
WritePage(s, l, v) ==
    Program(UpdateMetaForInvalidate(s, l),
            s.currentBlock, FreePage(s, s.currentBlock), l, v)

\* table f with x at every page of block b
Wiped(f, b, x) == [p \in Rows |-> IF BlockOf(p) = b THEN x ELSE f[p]]

\* Mutants of EraseBlock: the reverse map is kept; writing restarts at page 1.
EraseKeepsLpn(s, b) ==
    [s EXCEPT !.free[b] = TRUE,
              !.invalidPageCnt[b] = 0,
              !.currentPage[b] = 65535,
              !.list = ClearLinks(@, b),
              !.valid = Wiped(@, b, TRUE),
              !.flash = Wiped(@, b, Erased)]

EraseRestartsAtOne(s, b) ==
    [s EXCEPT !.free[b] = TRUE,
              !.invalidPageCnt[b] = 0,
              !.currentPage[b] = 0,
              !.list = ClearLinks(@, b),
              !.valid = Wiped(@, b, TRUE),
              !.lpn = Wiped(@, b, NONE),
              !.flash = Wiped(@, b, Erased)]

EraseBlock(s, b) ==
    [s EXCEPT !.free[b] = TRUE,
              !.invalidPageCnt[b] = 0,
              !.currentPage[b] = 65535,
              !.list = ClearLinks(@, b),
              !.valid = Wiped(@, b, TRUE),
              !.lpn = Wiped(@, b, NONE),
              !.flash = Wiped(@, b, Erased)]

\* the lists GarbageCollection can take a victim from: it looks at heads only
VictimCounts(s) ==
    {k \in 1 .. PAGE_NUM_PER_BLOCK : s.list.head[k] \notin {NONE, s.currentBlock}}

\* where a page copied by the collector goes
CopyTarget(s, closed) ==
    IF closed \/ Full(s, s.currentBlock) THEN s.freeBlock ELSE s.currentBlock

\* Mutant of CopyPage: the first page of the victim is read for every page.
CopyFirstPage(s, p, closed) ==
    IF s.lpn[p] = NONE \/ ~s.valid[p] THEN s
    ELSE LET b == CopyTarget(s, closed)
         IN  Program(s, b, FreePage(s, b), s.lpn[p], s.flash[Row(BlockOf(p), 0)])

\* one iteration of the copy loop, on page p of the victim
CopyPage(s, p, closed) ==
    IF s.valid[p]
    THEN IF s.lpn[p] = NONE THEN s
         ELSE LET b == CopyTarget(s, closed)
              IN  Program(s, b, FreePage(s, b), s.lpn[p], s.flash[p])
    ELSE IF s.ppn[s.lpn[p]] = p THEN [s EXCEPT !.ppn[s.lpn[p]] = NONE] ELSE s

CopyCloses(s, p, closed) ==
    closed \/ (s.valid[p] /\ s.lpn[p] # NONE /\ Full(s, s.currentBlock))

\* the victim is erased; a collection that filled the current block makes
\* the spare block current and keeps the victim as the new spare
RetireVictim(s, b, closed) ==
    LET e == EraseBlock(s, b)
    IN  IF closed
        THEN [e EXCEPT !.free[b] = FALSE,
                       !.currentBlock = s.freeBlock, !.freeBlock = b]
        ELSE e

\* what a read of logical page l finds (PmRead)
PmRead(s, l) == IF s.ppn[l] = NONE THEN Erased ELSE s.flash[s.ppn[l]]

(***************************************************************************)
(* The steps.                                                              *)
(***************************************************************************)
NoWrite == [dieNo |-> 0, dieLpn |-> 0, data |-> Erased]
NoVictim(d) == [dieNo |-> d, victimBlock |-> NONE, pageCount |-> 0, closedFlag |-> FALSE]

Init ==
    /\ die \in [Dies -> FreshDies]
    /\ \A d \in Dies : InitDieBlock(die[d])
    /\ pc = "idle"
    /\ req = NoWrite
    /\ gc = NoVictim(0)

Collecting == pc = "gc"

\* PmWrite, room in the current block or in a block found by FindFreePage
PmWrite(d, l, v) ==
    /\ pc = "idle"
    /\ \/ /\ ~Full(die[d], die[d].currentBlock)
          /\ die' = [die EXCEPT ![d] = WritePage(die[d], l, v)]
       \/ /\ Full(die[d], die[d].currentBlock)
          /\ \E b \in Blocks :
                /\ NextFreeBlock(die[d], b)
                /\ die' = [die EXCEPT ![d] = WritePage(OpenBlock(die[d], b), l, v)]
    /\ req' = [dieNo |-> d, dieLpn |-> l, data |-> v]
    /\ UNCHANGED <<pc, gc>>

\* PmWrite, no free block: FindFreePage calls GarbageCollection
PmWriteNeedsGC(d, l, v) ==
    /\ pc = "idle"
    /\ Full(die[d], die[d].currentBlock)
    /\ FreeBlocks(die[d]) = {}
    /\ pc' = "gc"
    /\ req' = [dieNo |-> d, dieLpn |-> l, data |-> v]
    /\ gc' = NoVictim(0)
    /\ UNCHANGED die

\* the head of the list with most invalid pages is taken off its list
GcSelectVictim ==
    LET d == gc.dieNo
        s == die[d]
    IN  /\ Collecting /\ gc.victimBlock = NONE
        /\ \E k \in VictimCounts(s) :
              /\ \A j \in VictimCounts(s) : j <= k
              /\ gc' = [dieNo       |-> d,
                        victimBlock |-> s.list.head[k],
                        pageCount   |-> IF k = PAGE_NUM_PER_BLOCK THEN k ELSE 0,
                        closedFlag  |-> Full(s, s.currentBlock)]
              /\ die' = [die EXCEPT ![d].list = PopHead(@, k)]
        /\ UNCHANGED <<pc, req>>

\* no list offers a victim: the assertion of GarbageCollection fails
GcAbort ==
    /\ Collecting /\ gc.victimBlock = NONE
    /\ VictimCounts(die[gc.dieNo]) = {}
    /\ pc' = "halted"
    /\ UNCHANGED <<die, req, gc>>

\* Mutant of GcCopyPage: an invalid page does not advance the loop.
GcCopyPageStays ==
    LET d == gc.dieNo
        s == die[d]
        p == Row(gc.victimBlock, gc.pageCount)
    IN  /\ Collecting /\ gc.victimBlock # NONE
        /\ gc.pageCount < PAGE_NUM_PER_BLOCK
        /\ die' = [die EXCEPT ![d] = CopyPage(s, p, gc.closedFlag)]
        /\ gc' = [gc EXCEPT !.pageCount = IF s.valid[p] THEN @ + 1 ELSE @,
                            !.closedFlag = CopyCloses(s, p, @)]
        /\ UNCHANGED <<pc, req>>

GcCopyPage ==
    LET d == gc.dieNo
        s == die[d]
        p == Row(gc.victimBlock, gc.pageCount)
    IN  /\ Collecting /\ gc.victimBlock # NONE
        /\ gc.pageCount < PAGE_NUM_PER_BLOCK
        /\ die' = [die EXCEPT ![d] = CopyPage(s, p, gc.closedFlag)]
        /\ gc' = [gc EXCEPT !.pageCount = @ + 1,
                            !.closedFlag = CopyCloses(s, p, @)]
        /\ UNCHANGED <<pc, req>>

\* Mutant of GcEraseVictim: the collection ends after its first die.
GcEraseVictimOneDie ==
    /\ Collecting /\ gc.victimBlock # NONE
    /\ gc.pageCount = PAGE_NUM_PER_BLOCK
    /\ die' = [die EXCEPT ![gc.dieNo] = RetireVictim(@, gc.victimBlock, gc.closedFlag)]
    /\ pc' = "resume" /\ gc' = NoVictim(0)
    /\ UNCHANGED req

GcEraseVictim ==
    LET d == gc.dieNo
    IN  /\ Collecting /\ gc.victimBlock # NONE
        /\ gc.pageCount = PAGE_NUM_PER_BLOCK
        /\ die' = [die EXCEPT ![d] = RetireVictim(@, gc.victimBlock, gc.closedFlag)]
        /\ IF d = DIE_NUM - 1
           THEN pc' = "resume" /\ gc' = NoVictim(0)
           ELSE pc' = "gc" /\ gc' = NoVictim(d + 1)
        /\ UNCHANGED req

\* Mutant of PmWriteResume: the write goes on with the die collected last.
PmWriteResumeLastDie ==
    /\ pc = "resume"
    /\ die' = [die EXCEPT ![DIE_NUM - 1] = WritePage(@, req.dieLpn, req.data)]
    /\ pc' = "idle"
    /\ UNCHANGED <<req, gc>>

\* back in FindFreePage, which takes the next page of the current block
PmWriteResume ==
    /\ pc = "resume"
    /\ die' = [die EXCEPT ![req.dieNo] = WritePage(@, req.dieLpn, req.data)]
    /\ pc' = "idle"
    /\ UNCHANGED <<req, gc>>

\* the failed assertion stops the processor
Halted == pc = "halted" /\ UNCHANGED vars

Collect == GcSelectVictim \/ GcAbort \/ GcCopyPage \/ GcEraseVictim \/ PmWriteResume

Next ==
    \/ \E d \in Dies, l \in Lpns, v \in Data : PmWrite(d, l, v) \/ PmWriteNeedsGC(d, l, v)
    \/ Collect
    \/ Halted

\* the main loop never preempts a collection: its steps are taken
Spec == Init /\ [][Next]_vars /\ WF_vars(Collect)

(***************************************************************************)
(* Properties.                                                             *)
(***************************************************************************)

\* Every table of a die holds what its C type and its array bounds allow.
DieType ==
    [ppn   : [Lpns -> Rows \cup {NONE}],
     valid : [Rows -> BOOLEAN],
     lpn   : [Rows -> Lpns \cup {NONE}],
     bad   : [Blocks -> BOOLEAN],
     free  : [Blocks -> BOOLEAN],
     invalidPageCnt : [Blocks -> Counts],
     currentPage    : [Blocks -> PageCounters],
     list  : ListFamily(Blocks, Counts),
     currentBlock : Blocks,
     freeBlock    : Blocks,
     flash : [Rows -> Data \cup {Erased}]]

GcType ==
    [dieNo : Dies, victimBlock : Blocks \cup {NONE},
     pageCount : Counts, closedFlag : BOOLEAN]

\* Type invariant: in particular no row address leaves its die, which an
\* increment of currentPage past the last page of a block would cause.
TypeOK ==
    /\ die \in [Dies -> DieType]
    /\ pc \in {"idle", "gc", "resume", "halted"}
    /\ req \in [dieNo : Dies, dieLpn : Lpns \cup {0}, data : Data \cup {Erased}]
    /\ gc \in GcType

Victim(d) == IF gc.dieNo = d THEN gc.victimBlock ELSE NONE

\* the page of the victim was already copied: its old entry is stale
Moved(d, p) == BlockOf(p) = Victim(d) /\ p < Row(Victim(d), gc.pageCount)

\* The two directions of the page map agree at every step, in the middle of
\* a collection too: a mapped logical page points at a valid physical page
\* that names it, and a valid physical page that names a logical page is the
\* one that page is mapped to, unless the collector has just moved it.
MapConsistent ==
    \A d \in Dies : LET s == die[d] IN
        /\ \A l \in Lpns : s.ppn[l] # NONE => s.valid[s.ppn[l]] /\ s.lpn[s.ppn[l]] = l
        /\ \A p \in Rows : s.valid[p] /\ s.lpn[p] # NONE /\ ~Moved(d, p)
                               => s.ppn[s.lpn[p]] = p

\* The victim lists of gcMap stay exact: walking list k from its head meets
\* the blocks with k invalid pages and no others (the victim being collected
\* has left its list), and invalidPageCnt counts the pages marked invalid.
GcListsExact ==
    \A d \in Dies : LET s == die[d] IN
        /\ \A k \in 1 .. PAGE_NUM_PER_BLOCK :
              Reachable(s.list, Blocks, k)
                  = {b \in Blocks : s.invalidPageCnt[b] = k /\ b # Victim(d)}
        /\ \A b \in Blocks :
              s.invalidPageCnt[b] = Cardinality({i \in Offsets : ~s.valid[Row(b, i)]})

\* A block the allocator may still hand out (a free good block, and outside a
\* collection the spare block) holds no data and no stale map entry.
AllocatableBlank ==
    \A d \in Dies : LET s == die[d] IN
        \A b \in Blocks :
            b \in FreeBlocks(s) \/ (b = s.freeBlock /\ gc.victimBlock = NONE)
                => \A i \in Offsets : /\ s.flash[Row(b, i)] = Erased
                                      /\ s.lpn[Row(b, i)] = NONE
                                      /\ s.valid[Row(b, i)]

\* The block being filled, the spare block and the victim are three different
\* good blocks that the free pool does not contain, nor the metadata block.
BlocksApart ==
    \A d \in Dies : LET s == die[d] IN
        /\ s.currentBlock # s.freeBlock
        /\ Victim(d) \notin {s.currentBlock, s.freeBlock}
        /\ \A b \in {s.currentBlock, s.freeBlock, Victim(d)} \ {NONE} :
              ~s.free[b] /\ ~s.bad[b] /\ b # metadataBlockNo

\* FindFreePage increments currentPage without looking when it returns from
\* GarbageCollection: there must be room in the block it is left with.
GcMakesRoom ==
    pc = "resume" => ~Full(die[req.dieNo], die[req.dieNo].currentBlock)

\* NAND discipline as an action property: a page gets data only if it was
\* erased and every lower page of its block holds data, and data only goes
\* away by erasing.
ProgramInOrder ==
    [][\A d \in Dies : \A b \in Blocks, i \in Offsets :
          LET old == die[d].flash[Row(b, i)]
              new == die'[d].flash[Row(b, i)]
          IN  old # new => \/ new = Erased
                           \/ /\ old = Erased
                              /\ \A j \in 0 .. i - 1 :
                                    die[d].flash[Row(b, j)] # Erased]_vars

\* The detailed map implements the abstract store.  A PmWrite makes a read of
\* its own logical page find its own data, at once or when it comes back from
\* GarbageCollection, and no other step changes what a read of any page finds:
\* opening blocks, copying, unmapping and erasing are invisible, one by one.
storeBar == [d \in Dies |-> [l \in Lpns |-> PmRead(die[d], l)]]
modeBar == CASE pc = "idle" -> "ready" [] pc = "halted" -> "stopped" [] OTHER -> "busy"
Store == INSTANCE BlockStore WITH
             StoreDies <- Dies, StoreLpns <- Lpns, StoreData <- Data, Unwritten <- Erased,
             NoRequest <- NoWrite, store <- storeBar, request <- req, mode <- modeBar
ImplementsStore == Store!StoreSpec

\* Every write that starts a collection is completed, or the device aborts.
GcTerminates == (pc = "gc") ~> (pc \in {"idle", "halted"})

\* The message of the assertion at the end of GarbageCollection, "There are
\* no free blocks", is true of the die it fails on.
AbortMeansNoFreeBlocks ==
    pc = "halted" => FreeBlocks(die[gc.dieNo]) = {}

\* The assertion itself: collection always finds a victim.
NeverAborts == pc # "halted"

=============================================================================
