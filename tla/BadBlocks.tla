------------------------------ MODULE BadBlocks -----------------------------
(***************************************************************************)
(* Replacement of worn blocks.  A host read whose page needed many         *)
(* corrections warns (the reads of a collection never do); the sweep that  *)
(* sees the warning notes the block, drains the queues (EmptyLowLevelQ),   *)
(* moves what the block holds (CompulsoryGC) and marks it bad              *)
(* (UpdateBadBlockTable).                                                  *)
(*                                                                         *)
(* The tables are those of PageMap.  What is new is when the replacement   *)
(* happens: a sweep runs between commands, but also where a routine of the *)
(* page map waits for its queue, and then the maps change under it.        *)
(* Places names the waits in which a sweep may find worn blocks: the one   *)
(* at the start and the one at the end of GarbageCollection, and the push  *)
(* of PmWrite onto a full ring.  A write that has collected pushes onto a  *)
(* ring just drained, and copies push onto a sub-req ring drained before,  *)
(* so neither waits.                                                       *)
(*                                                                         *)
(* Only blocks with a queued read can warn.  A read that passes leaves the *)
(* queue and nothing else; since a queued read may also never warn, those  *)
(* steps are left out.                                                     *)
(***************************************************************************)
EXTENDS PageMap, SequencesExt

CONSTANTS
    Places,         \* where a sweep may find worn blocks
    MAX_WORN        \* most blocks of a die that wear out

ASSUME PlacesAssumption == Places \subseteq {"commands", "gc start", "gc end", "push"}
ASSUME WornAssumption == MAX_WORN \in Nat

VARIABLES
    reads,      \* the blocks of each die with a host read in its req queue
    row,        \* the row a waiting PmWrite is going to queue
    overtaken   \* the dies where the block of a waiting row was replaced

badVars == <<vars, reads, row, overtaken>>

(***************************************************************************)
(* CompulsoryGC and UpdateBadBlockTable on the tables of one die.          *)
(***************************************************************************)
\* the copy loop of CompulsoryGC, the one of GarbageCollection once more
MoveOut(s, b, closed) ==
    LET after[n \in Counts] ==
            IF n = 0 THEN [die |-> s, closedFlag |-> closed]
            ELSE LET m == after[n - 1]
                     p == Row(b, n - 1)
                 IN  [die |-> CopyPage(m.die, p, m.closedFlag),
                      closedFlag |-> CopyCloses(m.die, p, m.closedFlag)]
    IN  after[PAGE_NUM_PER_BLOCK]

\* Mutant of NextSpare: the search ends one block late, at b itself.
NextSpareLate(s, b, x) ==
    LET distance(c) == (c - b - 1) % BLOCK_NUM_PER_DIE
    IN  /\ x \in FreeBlocks(s)
        /\ \A c \in FreeBlocks(s) : distance(x) <= distance(c)

\* x is the block that the search behind block b meets first; b is not met
NextSpare(s, b, x) ==
    LET distance(c) == (c - b - 1) % BLOCK_NUM_PER_DIE
    IN  /\ x \in FreeBlocks(s) \ {b}
        /\ \A c \in FreeBlocks(s) \ {b} : distance(x) <= distance(c)

\* Mutant of CompulsoryGC: the block stays on its victim list.
CompulsoryGCKeepsLink(s, b) ==
    LET moved == MoveOut(s, b, Full(s, s.currentBlock) \/ b = s.currentBlock)
        e     == EraseBlock(moved.die, b)
    IN  IF ~moved.closedFlag THEN {e}
        ELSE {[e EXCEPT !.currentBlock = e.freeBlock, !.freeBlock = x, !.free[x] = FALSE] :
                 x \in {y \in Blocks : NextSpare(e, b, y)}}

\* the die after CompulsoryGC; no die if its assertion fails
CompulsoryGC(s, b) ==
    LET u     == [s EXCEPT !.list = Unlink(@, b, s.invalidPageCnt[b])]
        moved == MoveOut(u, b, Full(s, s.currentBlock) \/ b = s.currentBlock)
        e     == EraseBlock(moved.die, b)
    IN  IF ~moved.closedFlag THEN {e}
        ELSE {[e EXCEPT !.currentBlock = e.freeBlock, !.freeBlock = x, !.free[x] = FALSE] :
                 x \in {y \in Blocks : NextSpare(e, b, y)}}

UpdateBadBlockTable(s, b) ==
    {[t EXCEPT !.bad[b] = TRUE] : t \in CompulsoryGC(s, b)}

\* the entries of newBadBlockTable for one die, in turn
Replace(s, entries) ==
    FoldLeft(LAMBDA dies, b : UNION {UpdateBadBlockTable(t, b) : t \in dies}, {s}, entries)

(***************************************************************************)
(* The steps.                                                              *)
(***************************************************************************)
BadInit ==
    /\ Init
    /\ reads = [d \in Dies |-> {}]
    /\ row = NONE
    /\ overtaken = {}

Stay == UNCHANGED <<reads, row, overtaken>>

\* PmRead of a mapped page
HostRead(d, l) ==
    /\ pc = "idle" /\ die[d].ppn[l] # NONE
    /\ reads' = [reads EXCEPT ![d] = @ \cup {BlockOf(die[d].ppn[l])}]
    /\ UNCHANGED <<vars, row, overtaken>>

\* Mutant of WriteWaits: the row is given out, the page counter stays.
WriteWaitsTakesNoPage(d, l, v) ==
    /\ "push" \in Places
    /\ pc = "idle" /\ ~Full(die[d], die[d].currentBlock)
    /\ row' = FreePage(die[d], die[d].currentBlock)
    /\ pc' = "push"
    /\ req' = [dieNo |-> d, dieLpn |-> l, data |-> v]
    /\ UNCHANGED <<die, gc, reads, overtaken>>

\* PmWrite that waits for room with the row FindFreePage has given it
WriteWaits(d, l, v) ==
    /\ "push" \in Places
    /\ pc = "idle"
    /\ \E s \in {die[d]} \cup {OpenBlock(die[d], b) : b \in {x \in Blocks : NextFreeBlock(die[d], x)}} :
          /\ (s = die[d]) = ~Full(die[d], die[d].currentBlock)
          /\ die' = [die EXCEPT ![d] = [s EXCEPT !.currentPage[s.currentBlock] = Bump(@)]]
          /\ row' = FreePage(s, s.currentBlock)
    /\ pc' = "push"
    /\ req' = [dieNo |-> d, dieLpn |-> l, data |-> v]
    /\ UNCHANGED <<gc, reads, overtaken>>

\* Mutant of QueueWrite: the logical page is left without its new copy when
\* the current block has changed since the row was given out.
QueueWriteUnlessMoved ==
    LET s == UpdateMetaForInvalidate(die[req.dieNo], req.dieLpn)
    IN  /\ pc = "push"
        /\ die' = [die EXCEPT ![req.dieNo] =
                     [s EXCEPT !.flash[row] = req.data,
                               !.ppn[req.dieLpn] = IF BlockOf(row) = s.currentBlock THEN row ELSE @,
                               !.lpn[row] = req.dieLpn]]
        /\ pc' = "idle" /\ row' = NONE
        /\ UNCHANGED <<req, gc, reads, overtaken>>

\* the program is queued, then the maps are updated
QueueWrite ==
    LET s == UpdateMetaForInvalidate(die[req.dieNo], req.dieLpn)
    IN  /\ pc = "push"
        /\ die' = [die EXCEPT ![req.dieNo] =
                     [s EXCEPT !.flash[row] = req.data,
                               !.ppn[req.dieLpn] = row,
                               !.lpn[row] = req.dieLpn]]
        /\ pc' = "idle" /\ row' = NONE
        /\ UNCHANGED <<req, gc, reads, overtaken>>

Sweeping ==
    \/ pc = "idle" /\ "commands" \in Places
    \/ pc = "gc" /\ gc = NoVictim(0) /\ "gc start" \in Places
    \/ pc = "resume" /\ "gc end" \in Places
    \/ pc = "push"

\* what newBadBlockTable can hold for a die: one or two of the blocks read
WornBlocks(d) ==
    {<<>>} \cup {<<b>> : b \in reads[d]}
        \cup {<<b, c>> : b \in reads[d], c \in reads[d]}

Worn(d) == Cardinality({b \in Blocks : die[d].bad[b]})

\* a sweep sees warnings: EmptyLowLevelQ executes all queued reads, then
\* replaces the blocks noted
ReplaceWornBlocks ==
    /\ Sweeping
    /\ \E worn \in [Dies -> UNION {WornBlocks(d) : d \in Dies}] :
          /\ \E d \in Dies : worn[d] # <<>>
          /\ \A d \in Dies : /\ worn[d] \in WornBlocks(d)
                             /\ Len(worn[d]) = 2 => worn[d][1] # worn[d][2]
                             /\ Worn(d) + Len(worn[d]) <= MAX_WORN
          /\ IF \E d \in Dies : Replace(die[d], worn[d]) = {}
             THEN pc' = "halted" /\ UNCHANGED die
             ELSE /\ die' \in [Dies -> UNION {Replace(die[d], worn[d]) : d \in Dies}]
                  /\ \A d \in Dies : die'[d] \in Replace(die[d], worn[d])
                  /\ UNCHANGED pc
          /\ overtaken' = overtaken \cup
                {d \in Dies : pc = "push" /\ req.dieNo = d /\ BlockOf(row) \in Range(worn[d])}
    /\ reads' = [d \in Dies |-> {}]
    /\ UNCHANGED <<req, gc, row>>

\* GarbageCollection ends by draining the req queue
BadResume == PmWriteResume /\ reads' = [d \in Dies |-> {}] /\ UNCHANGED <<row, overtaken>>

BadNext ==
    \/ \E d \in Dies, l \in Lpns : HostRead(d, l)
    \/ \E d \in Dies, l \in Lpns, v \in Data : WriteWaits(d, l, v)
    \/ \E d \in Dies, l \in Lpns, v \in Data : PmWrite(d, l, v) /\ Stay
    \/ \E d \in Dies, l \in Lpns, v \in Data : PmWriteNeedsGC(d, l, v) /\ Stay
    \/ QueueWrite
    \/ GcSelectVictim /\ Stay
    \/ GcAbort /\ Stay
    \/ GcCopyPage /\ Stay
    \/ GcEraseVictim /\ Stay
    \/ BadResume
    \/ ReplaceWornBlocks
    \/ Halted /\ Stay

BadSpec == BadInit /\ [][BadNext]_badVars

(***************************************************************************)
(* Properties.                                                             *)
(***************************************************************************)
\* A bad block is out of use: nothing is mapped to it, and no block that is
\* being filled, kept as spare or collected is bad.  The one way to violate
\* this is a replacement that overtakes a write already given its row.
BadBlocksUnused ==
    \A d \in Dies \ overtaken : LET s == die[d] IN
        /\ \A l \in Lpns : s.ppn[l] # NONE => ~s.bad[BlockOf(s.ppn[l])]
        /\ \A b \in {s.currentBlock, s.freeBlock, Victim(d)} \ {NONE} : ~s.bad[b]

=============================================================================
