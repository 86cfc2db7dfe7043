---------------------------- MODULE BadBlocksInv ----------------------------
(***************************************************************************)
(* The inductive invariant of BadBlocks.  A die whose write waits for room *)
(* in its queue has given out a row that is not written yet: page h of it, *)
(* the hole (NONE: no hole).  Without a hole its invariant is DieInv of    *)
(* PageMapInv.  Nothing is said of a die in overtaken.                     *)
(***************************************************************************)
EXTENDS BadBlocks, PageMapInv

\* the hole of die d
Hole(d) == IF row # NONE /\ req.dieNo = d THEN row ELSE NONE

\* WrittenPrefix but for the hole
PrefixButFor(s, h) ==
    \A b \in Blocks, i \in Offsets :
        /\ s.lpn[Row(b, i)] # NONE <=> i < Frontier(s, b) /\ Row(b, i) # h
        /\ s.flash[Row(b, i)] # Erased <=> i < Frontier(s, b) /\ Row(b, i) # h
        /\ ~s.valid[Row(b, i)] => i < Frontier(s, b) /\ Row(b, i) # h

\* page h is one of those programmed since the last erase of a block in B
GivenOut(s, h, B) == \E b \in B, i \in Offsets : h = Row(b, i) /\ i < Frontier(s, b)

\* between commands, or waiting with hole h
WaitInv(s, h) ==
    /\ s \in DieType
    /\ MapForward(s)
    /\ MapBackward(s, NONE, 0)
    /\ PrefixButFor(s, h)
    /\ h # NONE => GivenOut(s, h, Blocks)
    /\ Pools(s)
    /\ CountsExact(s)
    /\ ListsWellFormed(s, NONE)
    /\ Frontier(s, s.freeBlock) = 0

\* in the copy loop of CompulsoryGC, with n pages of block b passed
MoveInv(s, h, b, n, closed) ==
    /\ s \in DieType
    /\ MapForward(s)
    /\ MapBackward(s, b, n)
    /\ PrefixButFor(s, h)
    /\ h # NONE => GivenOut(s, h, Blocks \ {b})
    /\ Pools(s)
    /\ CountsExact(s)
    /\ ListsWellFormed(s, b)
    /\ b \in Blocks \ {s.freeBlock}
    /\ ~closed => b # s.currentBlock /\ Frontier(s, s.freeBlock) = 0
    /\ closed => b = s.currentBlock \/ Full(s, s.currentBlock)
    /\ Frontier(s, s.freeBlock) <= n
    /\ \A l \in Lpns, i \in 0 .. n - 1 : s.ppn[l] # Row(b, i)

BadDieInv(d) ==
    IF Hole(d) = NONE THEN DieInv(die[d], Victim(d), gc.pageCount, gc.closedFlag)
                      ELSE WaitInv(die[d], Hole(d))

AtStart == pc = "gc" /\ gc = NoVictim(0)

\* a block with a queued read holds data whenever a sweep can replace it
ReadsWritten(d) ==
    pc \in {"idle", "push"} \/ AtStart => \A b \in reads[d] : b \in Blocks /\ Frontier(die[d], b) > 0

BadControlOK ==
    /\ pc \in {"idle", "gc", "resume", "halted", "push"}
    /\ req \in [dieNo : Dies, dieLpn : Lpns \cup {0}, data : Data \cup {Erased}]
    /\ gc = [dieNo |-> gc.dieNo, victimBlock |-> gc.victimBlock,
             pageCount |-> gc.pageCount, closedFlag |-> gc.closedFlag]
    /\ gc.dieNo \in Dies
    /\ gc.dieNo \notin overtaken => gc \in GcType
    /\ pc # "gc" => gc.victimBlock = NONE
    /\ pc \notin {"push", "halted"} => row = NONE
    /\ pc = "push" => req.dieLpn \in Lpns /\ req.data \in Data

\* what the die of the write being served can rely on
WriterServed ==
    /\ WriterHasRoom
    /\ pc = "push" => row # NONE
    /\ AtStart => FreeBlocks(die[req.dieNo]) = {}

BadIInv ==
    /\ BadControlOK
    /\ die = [d \in Dies |-> die[d]]
    /\ reads = [d \in Dies |-> reads[d]]
    /\ \A d \in Dies \ overtaken : BadDieInv(d) /\ ReadsWritten(d)
    /\ req.dieNo \notin overtaken => WriterServed

=============================================================================
