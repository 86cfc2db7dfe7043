------------------------------- MODULE HostDma -------------------------------
(***************************************************************************)
(* The automatic DMA between the host and the page buffer, one direction   *)
(* (host_lld.c keeps the same counters for transmission and reception).    *)
(* The hardware takes transfers in order and shows how many it finished in *)
(* a counter of COUNT values; the driver counts the transfers it issued    *)
(* the same way and counts its laps.  Every buffer entry remembers what    *)
(* the driver had issued when its own transfers were issued.               *)
(***************************************************************************)
EXTENDS Integers

CONSTANTS COUNT,     \* values of an 8-bit counter: 256 in the code
          Entries,   \* the buffer entries that have transfers
          MaxPart,   \* sectors of a page part
          MaxDmas    \* bound: transfers ever issued

ASSUME CountAssumption == COUNT \in Nat \ {0, 1}
ASSUME BoundAssumption == MaxPart \in Nat \ {0} /\ MaxDmas \in Nat

VARIABLES issued,      \* transfers given to the hardware since the start
          completed,   \* transfers the hardware has finished
          fifoHead,    \* the driver's last reading of the hardware's counter
          fifoTail,    \* transfers issued, as an 8-bit counter
          overFlowCnt, \* laps of fifoTail
          dmaExe,      \* whether an entry waits for its transfers
          dmaTail,     \* fifoTail when the entry's transfers were issued
          dmaLap,      \* overFlowCnt at that moment
          recorded,    \* what those two stand for: issued at that moment
          loop         \* the part PopFromReqQueue is issuing: entry and sectors left

dvars == <<issued, completed, fifoHead, fifoTail, overFlowCnt, dmaExe, dmaTail, dmaLap, recorded, loop>>
records == <<dmaExe, dmaTail, dmaLap, recorded>>

TypeOK ==
    /\ issued \in Nat /\ completed \in Nat
    /\ fifoHead \in 0 .. COUNT - 1 /\ fifoTail \in 0 .. COUNT - 1
    /\ overFlowCnt \in Nat
    /\ dmaExe \in [Entries -> BOOLEAN]
    /\ dmaTail \in [Entries -> 0 .. COUNT - 1]
    /\ dmaLap \in [Entries -> Nat]
    /\ recorded \in [Entries -> Nat]
    /\ loop \in [entry : Entries, left : 0 .. MaxPart]

Init ==
    /\ issued = 0 /\ completed = 0
    /\ fifoHead = 0 /\ fifoTail = 0 /\ overFlowCnt = 0
    /\ dmaExe = [e \in Entries |-> FALSE]
    /\ dmaTail = [e \in Entries |-> 0]
    /\ dmaLap = [e \in Entries |-> 0]
    /\ recorded = [e \in Entries |-> 0]
    /\ loop \in [entry : Entries, left : {0}]

-----------------------------------------------------------------------------
\* What the hardware's counter shows.
HeadRegister == completed % COUNT

\* Mutant of PartialDone: the laps are left out of account.
DoneSameLap(head, tail, tailIndex, lap, assist) ==
    \/ head = tail
    \/ head >= tailIndex

\* Mutant of PartialDone: a transfer one lap behind is compared with its own lap.
DoneNoLapStep(head, tail, tailIndex, lap, assist) ==
    \/ head = tail
    \/ head = tailIndex
    \/ head < tailIndex /\ tail < tailIndex /\ (tail > head \/ lap # assist)
    \/ head < tailIndex /\ tail >= tailIndex /\ lap # assist
    \/ head > tailIndex /\ (tail < tailIndex \/ tail > head \/ lap # assist)

\* Mutant of PartialDone: the case that nothing is left is forgotten.
DoneUnlessIdle(head, tail, tailIndex, lap, assist) ==
    \/ head = tailIndex
    \/ head < tailIndex /\ tail < tailIndex /\ (tail > head \/ lap # assist + 1)
    \/ head < tailIndex /\ tail >= tailIndex /\ lap # assist
    \/ head > tailIndex /\ (tail < tailIndex \/ tail > head \/ lap # assist)

\* check_auto_*_dma_partial_done, by its return 1
PartialDone(head, tail, tailIndex, lap, assist) ==
    \/ head = tail
    \/ head = tailIndex
    \/ head < tailIndex /\ tail < tailIndex /\ (tail > head \/ lap # assist + 1)
    \/ head < tailIndex /\ tail >= tailIndex /\ lap # assist
    \/ head > tailIndex /\ (tail < tailIndex \/ tail > head \/ lap # assist)

EntryDone(e) == PartialDone(HeadRegister, fifoTail, dmaTail[e], overFlowCnt, dmaLap[e])

\* PopFromReqQueue takes a DMA request of entry e from the front of a queue,
\* after CheckDMA has found that e has no transfer left.
StartPart(e, sectors) ==
    /\ loop.left = 0
    /\ ~ dmaExe[e]
    /\ issued + sectors <= MaxDmas
    /\ loop' = [entry |-> e, left |-> sectors]
    /\ UNCHANGED <<issued, completed, fifoHead, fifoTail, overFlowCnt, records>>

\* Mutant of HasRoom: the room check of the code is left out.
RoomUnchecked == TRUE

Bump(tail) == (tail + 1) % COUNT

\* set_auto_*_dma reads the register until this holds
HasRoom == Bump(fifoTail) # HeadRegister

Wrapped(tempTail, tail) == tempTail > tail

\* One set_auto_*_dma of the loop, and after the last one what the entry records.
SetAutoDma ==
    /\ loop.left > 0
    /\ HasRoom
    /\ fifoHead' = HeadRegister
    /\ issued' = issued + 1
    /\ fifoTail' = Bump(fifoTail)
    /\ overFlowCnt' = IF Wrapped(fifoTail, fifoTail') THEN overFlowCnt + 1 ELSE overFlowCnt
    /\ loop' = [loop EXCEPT !.left = @ - 1]
    /\ IF loop.left = 1
       THEN /\ dmaExe' = [dmaExe EXCEPT ![loop.entry] = TRUE]
            /\ dmaTail' = [dmaTail EXCEPT ![loop.entry] = fifoTail']
            /\ dmaLap' = [dmaLap EXCEPT ![loop.entry] = overFlowCnt']
            /\ recorded' = [recorded EXCEPT ![loop.entry] = issued']
       ELSE UNCHANGED records
    /\ UNCHANGED completed

\* CheckDMA of a request whose entry has transfers; it keeps waiting or lets go.
CheckDMA(e) ==
    /\ loop.left = 0
    /\ dmaExe[e]
    /\ fifoHead' = HeadRegister
    /\ dmaExe' = [dmaExe EXCEPT ![e] = ~ EntryDone(e)]
    /\ UNCHANGED <<issued, completed, fifoTail, overFlowCnt, dmaTail, dmaLap, recorded, loop>>

\* The hardware finishes the oldest transfer.
Transfer ==
    /\ completed < issued
    /\ completed' = completed + 1
    /\ UNCHANGED <<issued, fifoHead, fifoTail, overFlowCnt, records, loop>>

Next ==
    \/ \E e \in Entries, sectors \in 1 .. MaxPart : StartPart(e, sectors)
    \/ SetAutoDma
    \/ \E e \in Entries : CheckDMA(e)
    \/ Transfer

DmaSpec == Init /\ [][Next]_dvars

\* The hardware goes on, the loop of PopFromReqQueue goes on when there is
\* room, and between two parts every sweep of the scheduler asks again about
\* an entry that waits.
FairDmaSpec ==
    /\ DmaSpec
    /\ WF_dvars(Transfer)
    /\ WF_dvars(SetAutoDma)
    /\ \A e \in Entries : SF_dvars(CheckDMA(e))

-----------------------------------------------------------------------------
\* The counters never run a lap ahead of the hardware: with a full lap out,
\* a full queue would look like an empty one (host_lld.c:376, 468).
NeverALapAhead == completed <= issued /\ issued < completed + COUNT

\* The answer about an entry is right however many laps lie between: it is
\* "done" exactly when the hardware has finished every transfer that was
\* issued up to the entry's last one (host_lld.c:462-503).
DoneExactly ==
    \A e \in Entries : dmaExe[e] => (EntryDone(e) <=> completed >= recorded[e])

\* An entry that no longer waits has had all its transfers: the buffer may be
\* programmed or evicted (low_level_scheduler.c:174-191).
ReleasedAfterTransfer == \A e \in Entries : dmaExe[e] \/ completed >= recorded[e]

\* An entry that waits is released, though others keep issuing transfers.
WaitEnds == \A e \in Entries : dmaExe[e] ~> ~ dmaExe[e]

=============================================================================
