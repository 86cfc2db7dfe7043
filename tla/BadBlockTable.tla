--------------------------- MODULE BadBlockTable ----------------------------
(***************************************************************************)
(* The bad block table that each die keeps in its metadata block: how it   *)
(* is found or made at power on (InitBlockMap, RecoverBadBlockTable), and  *)
(* how EmptyLowLevelQ saves it when host reads have warned of worn blocks. *)
(* A save is an erase and a program behind each other in the queue of the  *)
(* die; nobody waits for them, and the power may fail between them.        *)
(*                                                                         *)
(* The page map is in module BadBlocks; here a die has pages whose first   *)
(* byte the scan for factory marks would take for a mark.  The tables of   *)
(* the dies lie one after the other in the GC buffer, and the pages that   *)
(* CompulsoryGC copies go through the same buffer, CopySlot pages further. *)
(*                                                                         *)
(* External: the flash keeps what is programmed, a read of an erased page  *)
(* delivers 0xff bytes, an erase leaves a factory mark as it is, a command *)
(* is executed wholly or not at all when the power fails.  The metadata    *)
(* block is good.  The 16 entries of newBadBlockTable suffice.             *)
(***************************************************************************)
EXTENDS RowAddress, FiniteSets, SequencesExt

CONSTANTS
    Dies,           \* the dies that are followed
    CopySlot,       \* DIE_NUM*BLOCK_NUM_PER_DIE in pages, plus 1
    Pages,          \* the pages of a block that are followed
    Erased,         \* what an erased page holds
    PageData,       \* the contents of some page of the host
    MAX_FACTORY,    \* most blocks with a factory mark, over all dies
    MAX_PROGRAMS,   \* most pages programmed by the host
    MAX_FAILURES    \* most power failures

ASSUME TableAssumption ==
    /\ Dies \subseteq Nat /\ CopySlot \in Nat
    /\ 0 \in Pages /\ Pages \subseteq 0 .. PAGE_NUM_PER_BLOCK - 1

metadataBlockNo == 0
DataBlocks == DieBlocks \ {metadataBlockNo}
PhyBlocks == 0 .. 2 * MAX_BLOCK_NUM_PER_LUN - 1
Rows == {b * PAGE_NUM_PER_BLOCK + p : b \in DataBlocks, p \in Pages}
Slots == Dies \cup {d + CopySlot : d \in Dies}

\* a page with a table: the marked blocks by their chip's number
Table(blocks) == <<"table", blocks>>
IsTable(page) == page \notin {Erased, PageData}
Blocks(page) == page[2]

\* no other page is taken for a table
ASSUME PageAssumption ==
    /\ Erased # PageData
    /\ \A blocks \in SUBSET PhyBlocks : IsTable(Table(blocks))

VARIABLES
    flash,      \* of each die: its table page, factory marks, programmed pages
    bad,        \* blockMap->bmEntry[][].bad
    newBad,     \* newBadBlockTable
    badBlockUpdate,
    queue,      \* the sub-req queue of each die
    slots,      \* the pages of the GC buffer
    pc,         \* where the start, or EmptyLowLevelQ, waits for the queues
    count,      \* of host programs and power failures
    history     \* what was saved and what went wrong, for the properties

vars == <<flash, bad, newBad, badBlockUpdate, queue, slots, pc, count, history>>

Op(name, at) == [op |-> name, at |-> at]
NoBlocks == [d \in Dies |-> {}]
Drained == \A d \in Dies : queue[d] = <<>>

FactoryPages == {RawRow(PhyBlock(b), p) : b \in DataBlocks, p \in {0, PAGE_NUM_PER_BLOCK - 1}}

FactoryBad(d) ==
    {b \in DataBlocks : \E p \in {0, PAGE_NUM_PER_BLOCK - 1} :
        RawRow(PhyBlock(b), p) \in flash[d].factory}

Init ==
    /\ \E factory \in [Dies -> SUBSET FactoryPages] :
        /\ Cardinality(UNION {{d} \X factory[d] : d \in Dies}) <= MAX_FACTORY
        /\ flash = [d \in Dies |-> [table |-> Erased, factory |-> factory[d], held |-> {}]]
    /\ bad = NoBlocks /\ newBad = NoBlocks /\ badBlockUpdate = FALSE
    /\ queue = [d \in Dies |-> <<>>]
    /\ slots = [s \in Slots |-> Erased]
    /\ pc = "off"
    /\ count = [programs |-> 0, failures |-> 0]
    /\ history = [saved |-> NoBlocks, warned |-> NoBlocks, torn |-> {}, spoilt |-> {}]

(***************************************************************************)
(* The start: InitBlockMap and RecoverBadBlockTable.                       *)
(***************************************************************************)
ReadTables == [d \in Dies |-> <<Op("ReadTable", d)>>]

\* 'X' erases every block, the metadata block first
PowerOn(remake) ==
    /\ pc = "off"
    /\ pc' = IF remake THEN "remake" ELSE "read"
    /\ queue' = IF remake
                THEN [d \in Dies |->
                        [i \in 1 .. BLOCK_NUM_PER_DIE |-> Op("Erase", i - 1)]]
                ELSE ReadTables
    /\ UNCHANGED <<flash, bad, newBad, badBlockUpdate, slots, count, history>>

Remade ==
    /\ pc = "remake" /\ Drained
    /\ pc' = "read"
    /\ queue' = ReadTables
    /\ history' = [saved |-> NoBlocks, warned |-> NoBlocks, torn |-> {}, spoilt |-> {}]
    /\ UNCHANGED <<flash, bad, newBad, badBlockUpdate, slots, count>>

\* Mutant of ScannedBad: only the first page is looked at.
ScannedBadFirst(d) ==
    {b \in PhyBlocks : RawRow(b, 0) \in flash[d].factory \cup flash[d].held}

\* the blocks that a scan takes for marked: the first byte of the first or of
\* the last page is not 0xff
ScannedBad(d) ==
    {b \in PhyBlocks : \E p \in {0, PAGE_NUM_PER_BLOCK - 1} :
        RawRow(b, p) \in flash[d].factory \cup flash[d].held}

SaveTable(d) == <<Op("Erase", metadataBlockNo), Op("WriteTable", d)>>

\* A table begins with 0 or 1; so may a page that is not one.
RecoverBadBlockTable ==
    /\ pc = "read" /\ Drained
    /\ \E mistaken \in SUBSET {d \in Dies : slots[d] = PageData} :
       \E bytes \in [mistaken -> {{}, DataBlocks}] :
        LET found == {d \in Dies : IsTable(slots[d])}
            scanned == Dies \ (found \cup mistaken)
        IN  /\ bad' = [d \in Dies |->
                CASE d \in found -> {b \in DieBlocks : PhyBlock(b) \in Blocks(slots[d])}
                  [] d \in mistaken -> bytes[d]
                  [] OTHER -> {b \in DieBlocks : PhyBlock(b) \in ScannedBad(d)}]
            /\ slots' = [s \in Slots |-> IF s \in scanned THEN Table(ScannedBad(s)) ELSE slots[s]]
            /\ queue' = [d \in Dies |-> IF d \in scanned THEN SaveTable(d) ELSE <<>>]
    /\ pc' = "save"
    /\ UNCHANGED <<flash, newBad, badBlockUpdate, count, history>>

\* the members of a set of numbers in the order in which a loop meets them
Ascending(S) ==
    {f \in [1 .. Cardinality(S) -> S] : \A i, j \in DOMAIN f : i < j => f[i] < f[j]}

Erases(d) ==
    {[i \in DOMAIN good |-> Op("Erase", good[i])] : good \in Ascending(DataBlocks \ bad[d])}

InitialErase ==
    /\ pc = "save" /\ Drained
    /\ pc' = "erase"
    /\ queue' \in [Dies -> UNION {Erases(d) : d \in Dies}]
    /\ \A d \in Dies : queue'[d] \in Erases(d)
    /\ UNCHANGED <<flash, bad, newBad, badBlockUpdate, slots, count, history>>

Started ==
    /\ pc = "erase" /\ Drained
    /\ pc' = "run"
    /\ UNCHANGED <<flash, bad, newBad, badBlockUpdate, queue, slots, count, history>>

(***************************************************************************)
(* While the device runs.                                                  *)
(***************************************************************************)
HostProgram(d, row) ==
    /\ pc = "run" /\ count.programs < MAX_PROGRAMS
    /\ row \div PAGE_NUM_PER_BLOCK \notin bad[d]
    /\ flash' = [flash EXCEPT ![d].held = @ \cup {PhyRow(row)}]
    /\ count' = [count EXCEPT !.programs = @ + 1]
    /\ UNCHANGED <<bad, newBad, badBlockUpdate, queue, slots, pc, history>>

\* the sweep takes the warning of a host read (RS_WARNING)
Warning(d, row) ==
    /\ pc = "run"
    /\ PhyRow(row) \in flash[d].held /\ row \div PAGE_NUM_PER_BLOCK \notin bad[d]
    /\ newBad' = [newBad EXCEPT ![d] = @ \cup {WarnedBlock(PhyRow(row))}]
    /\ badBlockUpdate' = TRUE
    /\ history' = [history EXCEPT !.warned[d] = @ \cup {row \div PAGE_NUM_PER_BLOCK}]
    /\ UNCHANGED <<flash, bad, queue, slots, pc, count>>

EmptyLowLevelQ ==
    /\ pc = "run" /\ badBlockUpdate /\ Drained
    /\ badBlockUpdate' = FALSE
    /\ queue' = ReadTables
    /\ pc' = "update"
    /\ UNCHANGED <<flash, bad, newBad, slots, count, history>>

\* Mutant of Marked: the byte is set for one entry of the die only.
MarkedOnce(d) ==
    IF IsTable(slots[d])
    THEN Table(Blocks(slots[d]) \cup {CHOOSE b \in newBad[d] : TRUE})
    ELSE slots[d]

\* the table with the new bytes; they do not make a table of another page
Marked(d) ==
    IF IsTable(slots[d]) THEN Table(Blocks(slots[d]) \cup newBad[d]) ELSE slots[d]

\* CompulsoryGC queues, for each block in turn, copies of the pages that are
\* still valid, and an erase
MoveOut(d, worn, copies) ==
    IF copies
    THEN [i \in 1 .. 3 * Len(worn) |->
            CASE i % 3 = 1 -> Op("ReadPage", d + CopySlot)
              [] i % 3 = 2 -> Op("ProgramPage", d + CopySlot)
              [] OTHER -> Op("Erase", worn[i \div 3])]
    ELSE [i \in 1 .. Len(worn) |-> Op("Erase", worn[i])]

\* the blocks come in the order of their warnings
Replacements(d) ==
    IF newBad[d] = {} THEN {<<>>}
    ELSE {MoveOut(d, worn, copies) \o SaveTable(d) :
             worn \in SetToSeqs(newBad[d]), copies \in BOOLEAN}

\* the second half of EmptyLowLevelQ: the numbers of the chip are used as
\* numbers of the map
UpdateTables ==
    /\ pc = "update" /\ Drained
    /\ pc' = "run"
    /\ newBad' = NoBlocks
    /\ bad' = [d \in Dies |-> bad[d] \cup newBad[d]]
    /\ slots' = [s \in Slots |-> IF s \in Dies /\ newBad[s] # {} THEN Marked(s) ELSE slots[s]]
    /\ queue' \in [Dies -> UNION {Replacements(d) : d \in Dies}]
    /\ \A d \in Dies : queue'[d] \in Replacements(d)
    /\ UNCHANGED <<flash, badBlockUpdate, count, history>>

(***************************************************************************)
(* The flash and the power.                                                *)
(***************************************************************************)
RowsOf(b) == {PhyRow(b * PAGE_NUM_PER_BLOCK + p) : p \in Pages}
UsableRows(d) == {row \in Rows : row \div PAGE_NUM_PER_BLOCK \notin bad[d]}

\* the dies work at the same time, each on its queue in order
Execute(d) ==
    /\ queue[d] # <<>>
    /\ queue' = [queue EXCEPT ![d] = Tail(@)]
    /\ LET op == Head(queue[d]).op
           at == Head(queue[d]).at
       IN  \/ /\ op = "ReadTable"
              /\ slots' = [slots EXCEPT ![at] = flash[d].table]
              /\ UNCHANGED <<flash, history>>
           \/ /\ op = "ReadPage"
              /\ slots' = [slots EXCEPT ![at] = PageData]
              /\ UNCHANGED <<flash, history>>
           \/ /\ op = "ProgramPage"
              /\ \E held \in {{}} \cup {{PhyRow(row)} : row \in UsableRows(d)} :
                    flash' = [flash EXCEPT ![d].held = @ \cup held]
              /\ UNCHANGED <<slots, history>>
           \/ /\ op = "Erase"
              /\ flash' = IF at = metadataBlockNo THEN [flash EXCEPT ![d].table = Erased]
                          ELSE [flash EXCEPT ![d].held = @ \ RowsOf(at)]
              /\ UNCHANGED <<slots, history>>
           \/ /\ op = "WriteTable"
              /\ flash' = [flash EXCEPT ![d].table = slots[at]]
              /\ IF IsTable(slots[at])
                 THEN history' = [history EXCEPT !.saved[d] = @ \cup Blocks(slots[at])]
                 ELSE history' = [history EXCEPT !.spoilt = @ \cup {d}]
              /\ UNCHANGED slots
    /\ UNCHANGED <<bad, newBad, badBlockUpdate, pc, count>>

PowerFails ==
    /\ pc # "off" /\ count.failures < MAX_FAILURES
    /\ pc' = "off"
    /\ queue' = [d \in Dies |-> <<>>]
    /\ slots' = [s \in Slots |-> Erased]
    /\ bad' = NoBlocks /\ newBad' = NoBlocks /\ badBlockUpdate' = FALSE
    /\ count' = [count EXCEPT !.failures = @ + 1]
    /\ history' = [history EXCEPT !.torn = @ \cup
        {d \in Dies : flash[d].table = Erased
                      /\ (flash[d].held # {} \/ history.saved[d] # {})}]
    /\ UNCHANGED flash

Next ==
    \/ \E remake \in BOOLEAN : PowerOn(remake)
    \/ Remade \/ RecoverBadBlockTable \/ InitialErase \/ Started
    \/ \E d \in Dies, row \in Rows : HostProgram(d, row) \/ Warning(d, row)
    \/ EmptyLowLevelQ \/ UpdateTables
    \/ \E d \in Dies : Execute(d)
    \/ PowerFails

Spec == Init /\ [][Next]_vars

(***************************************************************************)
(* Properties.                                                             *)
(***************************************************************************)
TypeOK ==
    /\ \A d \in Dies :
        /\ flash[d].held \subseteq {PhyRow(row) : row \in Rows}
        /\ IsTable(flash[d].table) => Blocks(flash[d].table) \subseteq PhyBlocks
    /\ bad \in [Dies -> SUBSET DieBlocks]
    /\ newBad \in [Dies -> SUBSET PhyBlocks]
    /\ badBlockUpdate \in BOOLEAN
    /\ pc \in {"off", "remake", "read", "save", "erase", "run", "update"}

\* Dies whose table was never overwritten by a page that another die copied:
\* the start may take such a page for a table.
Sound == Dies \ history.spoilt

\* A block that the factory marked bad is never used, whatever happened to
\* the table: not after a power failure during a save either, when the start
\* scans dies whose blocks hold data.
FactoryBadUnused ==
    pc = "run" => \A d \in Sound : FactoryBad(d) \subseteq bad[d]

\* When the queue of a die is empty its table on flash says what the map says.
TableMatchesMap ==
    pc = "run" => \A d \in Sound :
        queue[d] = <<>> => flash[d].table = Table({PhyBlock(b) : b \in bad[d]})

\* Over any number of starts the bad blocks are those once saved, and no
\* block is taken for bad that neither the factory nor a warning named, unless
\* the power failed while the table of the die was erased.
BadBlocksKept ==
    pc = "run" => \A d \in Sound \ history.torn :
        /\ history.saved[d] \subseteq {PhyBlock(b) : b \in bad[d]}
        /\ bad[d] \subseteq FactoryBad(d) \cup history.warned[d]

=============================================================================
