----------------------------- MODULE LruBuffer ------------------------------
(***************************************************************************)
(* The page buffer (lru_buffer.c) with what moves its contents: the req    *)
(* queue of each die and the DMA engine of the host interface.  A host     *)
(* command is cut into page parts; a part finds its page in a buffer entry *)
(* or evicts the least recently used one of its die, and leaves requests   *)
(* in the die's queue.  Data moves later, sector by sector, while other    *)
(* commands are being handled.                                             *)
(*                                                                         *)
(* The queue is the order DieQueues establishes; the pages that requests   *)
(* read and program are named by their logical page, which PageMap shows   *)
(* to be sound.  The list of a die is the sequence of its entries, most    *)
(* recently used first.  A handler that waits for room in a queue changes  *)
(* nothing meanwhile, so that the queues have no bound here but that of    *)
(* the commands in progress.                                               *)
(***************************************************************************)
EXTENDS RequestParts, Sequences, FiniteSets

CONSTANTS DIE_NUM, BUF_ENTRY_NUM_PER_DIE,
          Pages,       \* number of logical pages
          Data,        \* contents of a sector
          Slots,       \* command slots the host uses
          MaxReq,      \* bound: sectors of the longest command
          MaxCommands, \* bound: commands of the host
          None         \* no page, no slot, or a sector the host never wrote

ASSUME BufferAssumption ==
    /\ {DIE_NUM, BUF_ENTRY_NUM_PER_DIE, Pages, MaxReq, MaxCommands} \subseteq Nat \ {0}
    /\ BUF_ENTRY_NUM_PER_DIE > 1
    /\ None \notin Data \cup Slots \cup Nat

Lpns == 0 .. Pages - 1
Dies == 0 .. DIE_NUM - 1
Entries == 0 .. DIE_NUM * BUF_ENTRY_NUM_PER_DIE - 1
Sectors == 0 .. SECTOR_NUM_PER_PAGE - 1
Die(lpn) == lpn % DIE_NUM

PageData == [Sectors -> Data \cup {None}]

VARIABLES
    bufEntry,   \* entry -> its page, dirty flag and data
    bufLru,     \* die -> its entries, most recently used first
    mapped,     \* the pages that have a row (ppn # 0xffffffff)
    stored,     \* page -> what its row holds
    reqQueue,   \* die -> requests not finished
    flying,     \* entry -> the DMA of the entry and the sectors it has left
    slots,      \* command slot -> what the host waits for
    join,       \* the entries a join waits for, with their pages
    latest,     \* history: page -> what the commands handled so far left there
    commands    \* number of commands so far

ftl == <<bufEntry, bufLru, mapped, reqQueue>>
vars == <<ftl, stored, flying, slots, join, latest, commands>>

NoDma == [kind |-> "none", slot |-> None, dmaIndex |-> 0, offset |-> 0, left |-> {}]
Free == [op |-> "none", value |-> <<>>, left |-> {}]

\* LRUBufInit
Init ==
    /\ bufEntry = [e \in Entries |-> [lpn |-> None, dirty |-> FALSE,
                                      data |-> [s \in Sectors |-> None]]]
    /\ bufLru = [d \in Dies |-> [i \in 1 .. BUF_ENTRY_NUM_PER_DIE |->
                                    d * BUF_ENTRY_NUM_PER_DIE + i - 1]]
    /\ mapped = {}
    /\ stored = [l \in Lpns |-> [s \in Sectors |-> None]]
    /\ reqQueue = [d \in Dies |-> <<>>]
    /\ flying = [e \in Entries |-> NoDma]
    /\ slots = [t \in Slots |-> Free]
    /\ join = {}
    /\ latest = [l \in Lpns |-> [s \in Sectors |-> None]]
    /\ commands = 0

(***************************************************************************)
(* The buffer, as operators on b: its entries, lists, the mapped pages and *)
(* the queues.                                                             *)
(***************************************************************************)
Ftl == [entry |-> bufEntry, lru |-> bufLru, mapped |-> mapped, queue |-> reqQueue]

Request(r, e, lpn) == [request |-> r, entry |-> e, lpn |-> lpn,
                       slot |-> None, dmaIndex |-> 0, offset |-> 0, subReqSect |-> 0]

Dma(kind, e, slot, part) ==
    [request |-> kind, entry |-> e, lpn |-> part.lpn, slot |-> slot,
     dmaIndex |-> part.dmaIndex, offset |-> part.offset, subReqSect |-> part.subReqSect]

PushToReqQueue(b, lpn, request) == [b EXCEPT !.queue[Die(lpn)] = Append(@, request)]

\* Mutant of Hits: the search starts behind the head of the list.
HitsBehindHead(b, lpn) ==
    {e \in {b.lru[Die(lpn)][i] : i \in DOMAIN b.lru[Die(lpn)] \ {1}} : b.entry[e].lpn = lpn}

\* CheckBufHit: the entry of the page
Hits(b, lpn) ==
    {e \in {b.lru[Die(lpn)][i] : i \in DOMAIN b.lru[Die(lpn)]} : b.entry[e].lpn = lpn}

\* the entry is unlinked and linked again at the head
ToFront(list, e) ==
    LET i == CHOOSE i \in DOMAIN list : list[i] = e
    IN  [j \in DOMAIN list |-> IF j = 1 THEN e ELSE IF j <= i THEN list[j - 1] ELSE list[j]]

\* CheckBufHit, when the page is buffered in entry e
Touched(b, lpn, e) == [b EXCEPT !.lru[Die(lpn)] = ToFront(@, e)]

\* AllocateBufEntry: a dirty page of the entry e goes to the NAND first
Evicted(b, lpn, e) ==
    LET old == b.entry[e].lpn
        t == [b EXCEPT !.mapped = @ \cup {old}]
    IN  IF b.entry[e].dirty THEN PushToReqQueue(t, old, Request("ProgramPage", e, old)) ELSE b

Victim(b, lpn) == b.lru[Die(lpn)][Len(b.lru[Die(lpn)])]

\* Mutant of Allocated: the entry keeps its place at the end of the list.
AllocatedInPlace(b, lpn, dirty) ==
    LET e == Victim(b, lpn)
    IN  [Evicted(b, lpn, e) EXCEPT !.entry[e].lpn = lpn, !.entry[e].dirty = dirty]

\* AllocateBufEntry and the linking that follows each call of it
Allocated(b, lpn, dirty) ==
    LET e == Victim(b, lpn)
    IN  [Evicted(b, lpn, e) EXCEPT !.lru[Die(lpn)] = ToFront(@, e),
                                   !.entry[e].lpn = lpn, !.entry[e].dirty = dirty]

\* the page is read into the entry that has just been allocated to it, if it has a row
Fetched(b, lpn, e) ==
    IF lpn \in b.mapped THEN PushToReqQueue(b, lpn, Request("ReadPage", e, lpn)) ELSE b

\* one part of LRUBufRead, with PmRead
ReadPart(b, slot, part) ==
    LET lpn == part.lpn
        v == Victim(b, lpn)
    IN  IF Hits(b, lpn) # {}
        THEN LET e == CHOOSE e \in Hits(b, lpn) : TRUE
             IN  PushToReqQueue(Touched(b, lpn, e), lpn, Dma("TxDMA", e, slot, part))
        ELSE PushToReqQueue(Fetched(Allocated(b, lpn, FALSE), lpn, v), lpn,
                            Dma("TxDMA", v, slot, part))

\* Mutant of WritePart: a part of a page is written over whatever the entry held.
WritePartUnread(b, slot, part) ==
    LET lpn == part.lpn
        v == Victim(b, lpn)
    IN  IF Hits(b, lpn) # {}
        THEN LET e == CHOOSE e \in Hits(b, lpn) : TRUE
             IN  PushToReqQueue([Touched(b, lpn, e) EXCEPT !.entry[e].dirty = TRUE], lpn,
                                Dma("RxDMA", e, slot, part))
        ELSE PushToReqQueue(Allocated(b, lpn, TRUE), lpn, Dma("RxDMA", v, slot, part))

\* one part of LRUBufWrite, with PrePmRead: a whole page need not be read
WritePart(b, slot, part) ==
    LET lpn == part.lpn
        v == Victim(b, lpn)
        t == Allocated(b, lpn, TRUE)
    IN  IF Hits(b, lpn) # {}
        THEN LET e == CHOOSE e \in Hits(b, lpn) : TRUE
             IN  PushToReqQueue([Touched(b, lpn, e) EXCEPT !.entry[e].dirty = TRUE], lpn,
                                Dma("RxDMA", e, slot, part))
        ELSE PushToReqQueue(IF part.subReqSect = SECTOR_NUM_PER_PAGE THEN t
                            ELSE Fetched(t, lpn, v),
                            lpn, Dma("RxDMA", v, slot, part))

LRUBufRead(b, slot, curSect, reqSect) ==
    LET after[k \in 0 .. LastPart(curSect, reqSect)] ==
            ReadPart(IF k = 0 THEN b ELSE after[k - 1], slot, Part(curSect, reqSect, k))
    IN  after[LastPart(curSect, reqSect)]

LRUBufWrite(b, slot, curSect, reqSect) ==
    LET after[k \in 0 .. LastPart(curSect, reqSect)] ==
            WritePart(IF k = 0 THEN b ELSE after[k - 1], slot, Part(curSect, reqSect, k))
    IN  after[LastPart(curSect, reqSect)]

\* PageToBuffer: a join brings a page into the buffer
PageToBuffer(b, lpn) ==
    IF Hits(b, lpn) # {}
    THEN Touched(b, lpn, CHOOSE e \in Hits(b, lpn) : TRUE)
    ELSE Fetched(Allocated(b, lpn, FALSE), lpn, Victim(b, lpn))

(***************************************************************************)
(* Commands of the host.                                                   *)
(***************************************************************************)
Become(b) ==
    /\ bufEntry' = b.entry /\ bufLru' = b.lru
    /\ mapped' = b.mapped /\ reqQueue' = b.queue

LpnOf(sect) == sect \div SECTOR_NUM_PER_PAGE
OffsetOf(sect) == sect % SECTOR_NUM_PER_PAGE

Arrives ==
    /\ join = {}
    /\ commands < MaxCommands /\ commands' = commands + 1

Requestable(t, curSect, reqSect) ==
    /\ Arrives /\ slots[t].op = "none"
    /\ curSect + reqSect <= Pages * SECTOR_NUM_PER_PAGE

HostRead(t, curSect, reqSect) ==
    /\ Requestable(t, curSect, reqSect)
    /\ Become(LRUBufRead(Ftl, t, curSect, reqSect))
    /\ slots' = [slots EXCEPT ![t] =
                    [op |-> "read", left |-> 0 .. reqSect - 1,
                     value |-> [i \in 0 .. reqSect - 1 |->
                                  latest[LpnOf(curSect + i)][OffsetOf(curSect + i)]]]]
    /\ UNCHANGED <<stored, flying, join, latest>>

HostWrite(t, curSect, reqSect, value) ==
    /\ Requestable(t, curSect, reqSect)
    /\ Become(LRUBufWrite(Ftl, t, curSect, reqSect))
    /\ slots' = [slots EXCEPT ![t] = [op |-> "write", left |-> 0 .. reqSect - 1,
                                      value |-> [i \in 0 .. reqSect - 1 |-> value]]]
    /\ latest' = [l \in Lpns |-> [s \in Sectors |->
                     IF l * SECTOR_NUM_PER_PAGE + s \in curSect .. curSect + reqSect - 1
                     THEN value ELSE latest[l][s]]]
    /\ UNCHANGED <<stored, flying, join>>

\* A row is inserted by a write, which the host waits for before it asks for
\* a join: the pages of a join have been written and no write is in progress.
HostJoin(l1, l2) ==
    /\ Arrives /\ \A t \in Slots : slots[t].op # "write"
    /\ \A l \in {l1, l2} : \E s \in Sectors : latest[l][s] # None
    /\ LET b1 == PageToBuffer(Ftl, l1)
           b2 == PageToBuffer(b1, l2)
       IN  /\ Become(b2)
           /\ join' = {<<CHOOSE e \in Hits(b1, l1) : TRUE, l1>>,
                       <<CHOOSE e \in Hits(b2, l2) : TRUE, l2>>}
    /\ UNCHANGED <<stored, flying, slots, latest>>

\* EmptyReqQ returns and the join looks for its rows
JoinRead ==
    /\ join # {} /\ \A d \in Dies : reqQueue[d] = <<>>
    /\ join' = {}
    /\ UNCHANGED <<ftl, stored, flying, slots, latest, commands>>

(***************************************************************************)
(* The request at the front of a die's queue.                              *)
(***************************************************************************)
\* Mutant of CheckDMA: a DMA is not waited for.
NeverWaits(e) == TRUE

\* CheckDMA: the DMA of the entry, if there was one, is done
CheckDMA(e) == flying[e].left = {}

Pop(d) == [reqQueue EXCEPT ![d] = Tail(@)]

Execute(d, request) ==
    /\ reqQueue[d] # <<>> /\ Head(reqQueue[d]).request = request
    /\ CheckDMA(Head(reqQueue[d]).entry)
    /\ reqQueue' = Pop(d)
    /\ UNCHANGED <<bufLru, mapped, slots, join, latest, commands>>

ProgramPage(d) ==
    LET r == Head(reqQueue[d])
    IN  /\ Execute(d, "ProgramPage")
        /\ stored' = [stored EXCEPT ![r.lpn] = bufEntry[r.entry].data]
        /\ UNCHANGED <<bufEntry, flying>>

ReadPage(d) ==
    LET r == Head(reqQueue[d])
    IN  /\ Execute(d, "ReadPage")
        /\ bufEntry' = [bufEntry EXCEPT ![r.entry].data = stored[r.lpn]]
        /\ UNCHANGED <<stored, flying>>

\* Mutant of StartDma: the loop over the sectors ends one early.
StartDmaShort(d, kind) ==
    LET r == Head(reqQueue[d])
    IN  /\ Execute(d, kind)
        /\ flying' = [flying EXCEPT ![r.entry] =
                        [kind |-> kind, slot |-> r.slot, dmaIndex |-> r.dmaIndex,
                         offset |-> r.offset,
                         left |-> {s \in Sectors : /\ r.offset <= s
                                                  /\ s + 1 < r.offset + r.subReqSect}]]
        /\ UNCHANGED <<bufEntry, stored>>

StartDma(d, kind) ==
    LET r == Head(reqQueue[d])
    IN  /\ Execute(d, kind)
        /\ flying' = [flying EXCEPT ![r.entry] =
                        [kind |-> kind, slot |-> r.slot, dmaIndex |-> r.dmaIndex,
                         offset |-> r.offset,
                         left |-> r.offset .. r.offset + r.subReqSect - 1]]
        /\ UNCHANGED <<bufEntry, stored>>

\* The DMA engine moves sector s of entry e; the last sector completes the command.
MoveSector(e, s) ==
    LET f == flying[e]
        i == f.dmaIndex + s - f.offset
        command == [slots[f.slot] EXCEPT !.left = @ \ {i}]
    IN  /\ s \in f.left
        /\ flying' = [flying EXCEPT ![e] = IF f.left = {s} THEN NoDma ELSE [f EXCEPT !.left = @ \ {s}]]
        /\ bufEntry' = IF f.kind = "RxDMA"
                       THEN [bufEntry EXCEPT ![e].data[s] = command.value[i]] ELSE bufEntry
        /\ slots' = [slots EXCEPT ![f.slot] = IF command.left = {} THEN Free ELSE command]
        /\ UNCHANGED <<bufLru, mapped, reqQueue, stored, join, latest, commands>>

Device ==
    \/ JoinRead
    \/ \E d \in Dies : \/ ProgramPage(d) \/ ReadPage(d)
                       \/ \E kind \in {"RxDMA", "TxDMA"} : StartDma(d, kind)
    \/ \E e \in Entries, s \in Sectors : MoveSector(e, s)

Next ==
    \/ \E t \in Slots, curSect \in 0 .. Pages * SECTOR_NUM_PER_PAGE - 1, reqSect \in 1 .. MaxReq :
          \/ HostRead(t, curSect, reqSect)
          \/ \E value \in Data : HostWrite(t, curSect, reqSect, value)
    \/ \E l1, l2 \in Lpns : l1 # l2 /\ HostJoin(l1, l2)
    \/ Device

\* the scheduler and the DMA engine go on
Spec == Init /\ [][Next]_vars /\ WF_vars(Device)

(***************************************************************************)
(* Properties.                                                             *)
(***************************************************************************)
TypeOK ==
    /\ bufEntry \in [Entries -> [lpn : Lpns \cup {None}, dirty : BOOLEAN, data : PageData]]
    /\ bufLru \in [Dies -> Seq(Entries)]
    /\ mapped \subseteq Lpns /\ stored \in [Lpns -> PageData]
    /\ reqQueue \in [Dies -> Seq([request : {"ProgramPage", "ReadPage", "RxDMA", "TxDMA"},
                                  entry : Entries, lpn : Lpns, slot : Slots \cup {None},
                                  dmaIndex : Nat, offset : Sectors,
                                  subReqSect : 0 .. SECTOR_NUM_PER_PAGE])]
    /\ flying \in [Entries -> [kind : {"none", "RxDMA", "TxDMA"}, slot : Slots \cup {None},
                               dmaIndex : Nat, offset : Sectors, left : SUBSET Sectors]]
    /\ latest \in [Lpns -> PageData]

Agrees(value, written) == written = None \/ value = written

\* No page is in two entries of the buffer, and no entry is lost from the
\* list of its die.
BufferedOnce ==
    \A d \in Dies :
        /\ {bufLru[d][i] : i \in DOMAIN bufLru[d]} =
              d * BUF_ENTRY_NUM_PER_DIE .. (d + 1) * BUF_ENTRY_NUM_PER_DIE - 1
        /\ \A e1, e2 \in Entries :
              e1 # e2 /\ bufEntry[e1].lpn = bufEntry[e2].lpn => bufEntry[e1].lpn = None

\* A read delivers what the commands handled before it wrote, even when later
\* writes, evictions and reads of the same entry are already queued: while
\* its DMA is under way the sectors it has left hold that.
ReadsLatest ==
    \A e \in Entries : flying[e].kind = "TxDMA" =>
        \A s \in flying[e].left :
            Agrees(bufEntry[e].data[s],
                   slots[flying[e].slot].value[flying[e].dmaIndex + s - flying[e].offset])

\* When the device is quiet nothing is lost: a buffered page holds what was
\* written last, a page that is clean or not buffered has it in the NAND.
QuietHoldsLatest ==
    (\A d \in Dies : reqQueue[d] = <<>>) /\ (\A e \in Entries : CheckDMA(e)) =>
        \A l \in Lpns, s \in Sectors :
            LET es == {e \in Entries : bufEntry[e].lpn = l}
            IN  /\ \A e \in es : Agrees(bufEntry[e].data[s], latest[l][s])
                /\ (\A e \in es : ~bufEntry[e].dirty) => Agrees(stored[l][s], latest[l][s])

\* A join finds in its two entries what was written to its two pages.
JoinSeesRows ==
    join # {} /\ (\A d \in Dies : reqQueue[d] = <<>>) =>
        \A p \in join : \A s \in Sectors : Agrees(bufEntry[p[1]].data[s], latest[p[2]][s])

\* Every command is completed.
CommandCompletes == \A t \in Slots : slots[t].op # "none" ~> slots[t].op = "none"

=============================================================================
