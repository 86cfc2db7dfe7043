----------------------------- MODULE PageMapInv -----------------------------
(***************************************************************************)
(* The inductive invariant of PageMap, as a conjunction of named parts.    *)
(* Each part speaks of the record s of one die; v is the victim the        *)
(* collector holds on that die (NONE: none), c the pages of it already     *)
(* handled and closed the flag of GarbageCollection.                       *)
(***************************************************************************)
EXTENDS PageMap

\* number of pages of block b that were programmed since its last erase
Frontier(s, b) == Bump(s.currentPage[b])

\* a mapped logical page points at a valid physical page that names it
MapForward(s) ==
    \A l \in Lpns : s.ppn[l] # NONE => s.valid[s.ppn[l]] /\ s.lpn[s.ppn[l]] = l

\* a valid page that names a logical page is its mapping, unless just moved
MapBackward(s, v, c) ==
    \A b \in Blocks, i \in Offsets :
        s.valid[Row(b, i)] /\ s.lpn[Row(b, i)] # NONE /\ ~(b = v /\ i < c)
            => s.ppn[s.lpn[Row(b, i)]] = Row(b, i)

\* pages are written from the first one up; only written pages hold data,
\* name a logical page or can be invalid
WrittenPrefix(s) ==
    \A b \in Blocks, i \in Offsets :
        /\ s.lpn[Row(b, i)] # NONE <=> i < Frontier(s, b)
        /\ s.flash[Row(b, i)] # Erased <=> i < Frontier(s, b)
        /\ ~s.valid[Row(b, i)] => i < Frontier(s, b)

\* free, bad and metadata blocks are blank; the current and the spare block
\* are two different usable blocks outside the free pool
Pools(s) ==
    /\ \A b \in Blocks : s.free[b] \/ s.bad[b] \/ b = metadataBlockNo => Frontier(s, b) = 0
    /\ s.currentBlock # s.freeBlock
    /\ \A b \in {s.currentBlock, s.freeBlock} : b \in Usable(s.bad) /\ ~s.free[b]
    /\ metadataBlockNo \in Blocks => ~s.free[metadataBlockNo]

InvalidOf(s, b) == {i \in Offsets : ~s.valid[Row(b, i)]}

CountsExact(s) == \A b \in Blocks : s.invalidPageCnt[b] = Cardinality(InvalidOf(s, b))

\* the victim list a block is on
ListOf(s, v) ==
    [b \in Blocks |-> IF b = v \/ s.invalidPageCnt[b] = 0 THEN NONE ELSE s.invalidPageCnt[b]]

ListsWellFormed(s, v) ==
    /\ WellFormed(s.list, Blocks, Counts, ListOf(s, v))
    /\ \A b \in Blocks : s.invalidPageCnt[b] = 0
           => s.list.prev[b] = NONE /\ s.list.next[b] = NONE

\* the collector has filled at most one page of the spare block for each
\* page of the victim it has passed, and none for an invalid one; no logical
\* page is mapped to a page it has passed
VictimInHand(s, v, c, closed) ==
    IF v = NONE THEN Frontier(s, s.freeBlock) = 0
    ELSE /\ v \in Blocks \ {s.currentBlock, s.freeBlock}
         /\ s.invalidPageCnt[v] > 0
         /\ ~closed => Frontier(s, s.freeBlock) = 0
         /\ closed => Full(s, s.currentBlock)
         /\ Frontier(s, s.freeBlock) <= c
         /\ Frontier(s, s.freeBlock) = c =>
                c < PAGE_NUM_PER_BLOCK /\ \A i \in 0 .. c - 1 : s.valid[Row(v, i)]
         /\ \A l \in Lpns, i \in 0 .. c - 1 : s.ppn[l] # Row(v, i)

DieInv(s, v, c, closed) ==
    /\ s \in DieType
    /\ MapForward(s)
    /\ MapBackward(s, v, c)
    /\ WrittenPrefix(s)
    /\ Pools(s)
    /\ CountsExact(s)
    /\ ListsWellFormed(s, v)
    /\ VictimInHand(s, v, c, closed)

\* where the collector stands with the die whose write is waiting for it
WriterHasRoom ==
    LET s == die[req.dieNo]
    IN  /\ pc \in {"gc", "resume"} => req.dieLpn \in Lpns /\ req.data \in Data
        /\ pc = "resume" => ~Full(s, s.currentBlock)
        /\ pc = "gc" =>
             /\ req.dieNo < gc.dieNo => ~Full(s, s.currentBlock)
             /\ req.dieNo = gc.dieNo => IF gc.victimBlock = NONE
                                        THEN Full(s, s.currentBlock)
                                        ELSE gc.closedFlag
             /\ req.dieNo > gc.dieNo => Full(s, s.currentBlock)

ControlOK ==
    /\ pc \in {"idle", "gc", "resume", "halted"}
    /\ req \in [dieNo : Dies, dieLpn : Lpns \cup {0}, data : Data \cup {Erased}]
    /\ gc \in GcType
    /\ pc # "gc" => gc.victimBlock = NONE

\* The inductive invariant: it implies every safety invariant of PageMap.
IInv ==
    /\ ControlOK
    /\ die \in [Dies -> DieType]
    /\ \A d \in Dies : DieInv(die[d], Victim(d), gc.pageCount, gc.closedFlag)
    /\ WriterHasRoom

=============================================================================
