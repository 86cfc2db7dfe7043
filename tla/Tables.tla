------------------------------- MODULE Tables -------------------------------
(***************************************************************************)
(* Tables from end to end: the host program fills a page per table, the    *)
(* device indexes and stores it, and a join walks over the index and is    *)
(* fetched page by page.  The host runs one command at a time and the      *)
(* device answers it before the next, so a command is one step; LruBuffer  *)
(* shows that a page read after a write is the page written.               *)
(*                                                                         *)
(* Memory is counted in words of 8 bytes, the size of a key.  A word is    *)
(* named by the row and the column it was written for; the columns behind  *)
(* the key never look like a key.                                          *)
(***************************************************************************)
EXTENDS IndexMap, SequencesExt

CONSTANTS PAGE_WORDS,    \* words of a page
          SECTOR_NUM_PER_PAGE, SECTOR_WORDS,   \* a page in sectors
          RowWidth,      \* RowWidth[t]: words of a row of table t
          TABLE_COUNT,   \* tables the device has room for
          Keys,          \* keys the user inserts
          MaxTables,     \* bound: create-table commands
          MaxBlocks,     \* bound: blocks the host program uses
          Scripted,      \* TRUE: all tables are created before the first row,
                         \* as every script in testScripts does
          Loads          \* bound: the <<table, slb>> of the load-table-page
                         \* commands; an slb numbers a sector

ASSUME WidthAssumption ==
    /\ PAGE_WORDS \in Nat \ {0} /\ MaxTables \in Nat /\ MaxBlocks \in Nat
    /\ SECTOR_NUM_PER_PAGE \in Nat \ {0} /\ SECTOR_WORDS \in Nat
    /\ PAGE_WORDS = SECTOR_NUM_PER_PAGE * SECTOR_WORDS
    /\ \A load \in Loads : load[2] \in Nat
    /\ RowWidth \in [1 .. MaxTables -> 1 .. PAGE_WORDS]
    /\ TABLE_COUNT \in Nat /\ Keys \subseteq Nat /\ Scripted \in BOOLEAN
    /\ INVALID_HASHMAP_LPN \notin 0 .. MaxBlocks

VARIABLES currId, currBlock,  \* the statics of Table
          host,               \* host[t]: the Table object: backingBlock, currRow, data
          rowWidth,           \* the device's tables: widths, 0 for none
          table1iter,         \* the device's place in the index
          disk,               \* the pages written
          joinPage,           \* the device's page for the rows of a join
          join,               \* the join command of the user: tables, whether it runs
          received,           \* the rows the join has given the host
          inserted,           \* history: the rows inserted: table, key and block
          expected,           \* history: the rows the join should give
          loaded,             \* history: a load-table-page was given
          halted              \* an ASSERT of the device has failed

tvars == <<currId, currBlock, host, rowWidth, indexMap, table1iter, disk, joinPage,
           join, received, inserted, expected, loaded, halted>>

Words == 0 .. PAGE_WORDS - 1
NoWord == [table |-> 0, key |-> 0, col |-> 0]   \* zeroed memory
Zeroes == [a \in Words |-> NoWord]
Word(t, k, c) == [table |-> t, key |-> k, col |-> c]
NoJoin == [tables |-> <<>>, running |-> FALSE]
Ids == 1 .. currId
Row(t, k) == [c \in 1 .. RowWidth[t] |-> Word(t, k, c - 1)]

TypeOK ==
    /\ currId \in 0 .. MaxTables /\ currBlock \in 0 .. MaxBlocks
    /\ DOMAIN host = Ids
    /\ \A t \in Ids : /\ host[t].backingBlock \in 0 .. MaxBlocks
                      /\ host[t].currRow \in 0 .. (PAGE_WORDS \div RowWidth[t]) - 1
                      /\ DOMAIN host[t].data = Words
    /\ table1iter \in 0 .. BUCKET_COUNT * BUCKET_LENGTH
    /\ DOMAIN indexMap = Slots /\ DOMAIN joinPage = Words
    /\ \A i \in Slots : indexMap[i].key \in 0 .. KEY_RANGE - 1
    /\ \A b \in DOMAIN disk : b \in 0 .. MaxBlocks /\ DOMAIN disk[b] = Words
    /\ {loaded, halted} \subseteq BOOLEAN

Init ==
    /\ currId = 0 /\ currBlock = 0 /\ host = <<>>
    /\ rowWidth = [t \in 0 .. TABLE_COUNT - 1 |-> 0]
    /\ InitIndexMap /\ table1iter = 0
    /\ disk = << >> /\ joinPage = Zeroes
    /\ join = NoJoin /\ received = <<>>
    /\ inserted = {} /\ expected = {} /\ loaded = FALSE /\ halted = FALSE

-----------------------------------------------------------------------------
\* The user gives the next command when the last one is done.
Prompt == ~ halted /\ ~ join.running

Forget == join' = NoJoin /\ received' = <<>> /\ expected' = {}

\* commandCreateTable: the Table, then insertTable on the device, which stops
\* at an id beyond its array.
CreateTable ==
    /\ Prompt
    /\ currId < MaxTables
    /\ currBlock < MaxBlocks
    /\ Scripted => inserted = {}
    /\ LET id == currId + 1
       IN  /\ currId' = id
           /\ host' = [t \in 1 .. id |-> IF t \in Ids THEN host[t]
                         ELSE [backingBlock |-> currBlock, currRow |-> 0, data |-> Zeroes]]
           /\ currBlock' = currBlock + 1
           /\ IF id >= TABLE_COUNT
              THEN halted' = TRUE /\ UNCHANGED rowWidth
              ELSE rowWidth' = [rowWidth EXCEPT ![id] = RowWidth[id]] /\ UNCHANGED halted
    /\ Forget
    /\ UNCHANGED <<indexMap, table1iter, disk, joinPage, inserted, loaded>>

\* the page of table t with one more row
WithRow(t, k) ==
    LET start == RowWidth[t] * host[t].currRow
    IN  [a \in Words |-> IF a \in start .. start + RowWidth[t] - 1
                         THEN Word(t, k, a - start) ELSE host[t].data[a]]

\* Mutant of AfterRow: a full page is started again in the same block.
AfterRowSame(t) == [row |-> (host[t].currRow + 1) % (PAGE_WORDS \div RowWidth[t]), full |-> FALSE]

\* the place of the next row, and whether it is in a new block
AfterRow(t) ==
    LET next == host[t].currRow + 1
        maxRows == PAGE_WORDS \div RowWidth[t]
    IN  [row |-> IF next = maxRows THEN 0 ELSE next, full |-> next = maxRows]

\* Mutant of NewBlock: a table goes on to the block after its own.
NewBlockNext(t) == host[t].backingBlock + 1

\* the block a table goes on with: the counter has just been advanced
NewBlock(t) == currBlock + 1

\* Table::insert and IO_DB_INSERT: the row goes into the page, the device
\* indexes the key and writes the page, the host steps to the next place.
InsertRow(t, k) ==
    LET page == WithRow(t, k)
        block == host[t].backingBlock
        after == AfterRow(t)
    IN  /\ Prompt
        /\ after.full => currBlock < MaxBlocks
        /\ IF BucketFull(t, k)
           THEN halted' = TRUE /\ UNCHANGED <<currBlock, host, indexMap, disk, inserted>>
           ELSE /\ indexMap' = NewMap(t, k, block)
                /\ disk' = [b \in DOMAIN disk \cup {block} |-> IF b = block THEN page ELSE disk[b]]
                /\ host' = [host EXCEPT ![t] =
                              [backingBlock |-> IF after.full THEN NewBlock(t) ELSE block,
                               currRow |-> after.row,
                               data |-> page]]
                /\ currBlock' = IF after.full THEN currBlock + 1 ELSE currBlock
                /\ inserted' = inserted \cup {<<t, k, block>>}
                /\ UNCHANGED halted
        /\ Forget
        /\ UNCHANGED <<currId, rowWidth, table1iter, joinPage, loaded>>

\* data with its first words replaced by those of a sector of a page
SectorOver(data, page, sector) ==
    [a \in Words |-> IF a < SECTOR_WORDS THEN page[sector * SECTOR_WORDS + a] ELSE data[a]]

\* commandLoadTablePage: readPage asks for nlb 0, which is one sector.  It comes
\* to the front of the table's page, whose rest stays, so a row may be cut at
\* the end of it.  Bound: only sectors of pages that were written are loaded.
LoadTablePage(t, slb) ==
    LET block == slb \div SECTOR_NUM_PER_PAGE
    IN  /\ Prompt
        /\ <<t, slb>> \in Loads /\ block \in DOMAIN disk
        /\ host' = [host EXCEPT ![t].data =
                      SectorOver(@, disk[block], slb % SECTOR_NUM_PER_PAGE)]
        /\ loaded' = TRUE
        /\ Forget
        /\ UNCHANGED <<currId, currBlock, rowWidth, indexMap, table1iter, disk, joinPage, inserted, halted>>

-----------------------------------------------------------------------------
\* FindRowAddr: the first row of the page, read in rows of this width, whose
\* key it is; -1 for none
FindRow(width, page, key) ==
    LET rows == {r \in 0 .. (PAGE_WORDS \div width) - 1 :
                    page[r * width].col = 0 /\ page[r * width].key = key}
    IN  IF rows = {} THEN -1 ELSE Min(rows) * width

JoinWidth(t1, t2) == rowWidth[t1] + rowWidth[t2] - 1

\* The entries, from table1iter on, that the join finds a partner for.
Matches(t1, t2) ==
    {i \in Slots : /\ i >= table1iter
                   /\ Used(i) /\ indexMap[i].table = t1
                   /\ getHashMap(t2, indexMap[i].key) # INVALID_HASHMAP_LPN}

\* the members of a set of numbers in the order in which a loop meets them
Ascending(S) ==
    [n \in 1 .. Cardinality(S) |-> CHOOSE i \in S : Cardinality({j \in S : j < i}) = n - 1]

\* Mutant of RowsPerJoinPage: room is looked for before the row is counted.
RowsPerJoinPageLate(width) ==
    1 + (IF PAGE_WORDS - 1 < 2 * width THEN 1 ELSE (PAGE_WORDS - 1) \div width)

\* The loop stops when another row would reach the last word, whose last two
\* bytes are the flags; the first row is never asked.
RowsPerJoinPage(width) == IF PAGE_WORDS - 1 < 2 * width THEN 1 ELSE (PAGE_WORDS - 1) \div width

\* the words of the row of a table with this key, on the page of a block; none
\* when it is not there
RowAt(t, block, key) ==
    LET at == FindRow(rowWidth[t], disk[block], key)
    IN  IF at = -1 THEN <<>> ELSE [c \in 1 .. rowWidth[t] |-> disk[block][at + c - 1]]

\* the row of the second table without its key behind that of the first one;
\* none when one of them was not found
JoinedRow(row1, row2) == IF row1 = <<>> \/ row2 = <<>> THEN <<>> ELSE row1 \o Tail(row2)

KeysOf(t) == {row[2] : row \in {r \in inserted : r[1] = t}}

\* commandJoin starts by setting the iterator of the device back.
StartJoin(t1, t2) ==
    /\ Prompt
    /\ join' = [tables |-> <<t1, t2>>, running |-> TRUE]
    /\ table1iter' = 0
    /\ received' = <<>>
    /\ expected' = {Row(t1, k) \o Tail(Row(t2, k)) :
                        k \in KeysOf(t1) \cap KeysOf(t2)}
    /\ UNCHANGED <<currId, currBlock, host, rowWidth, indexMap, disk, joinPage, inserted, loaded, halted>>

\* Mutant of After: the iterator is stepped once more after a full page.
AfterSkips(entries, filled) ==
    IF filled THEN Last(entries) + 2 ELSE BUCKET_COUNT * BUCKET_LENGTH

\* where the iterator is left
After(entries, filled) ==
    IF filled THEN Last(entries) + 1 ELSE BUCKET_COUNT * BUCKET_LENGTH

\* the page after these rows were joined: memory is left as it is for a row
\* that was not found
JoinedPage(made, width) ==
    [a \in Words |->
        LET n == 1 + (a \div width)
        IN  IF n <= Len(made) /\ made[n] # <<>> THEN made[n][1 + (a % width)] ELSE joinPage[a]]

\* the rows that the host cuts out of a page
RowsOf(page, width, count) ==
    [j \in 1 .. count |-> [c \in 1 .. width |-> page[(j - 1) * width + c - 1]]]

\* IO_DB_JOIN for the host's next page: a page full of rows, or the last ones.
FetchJoinPage ==
    /\ join.running /\ ~ halted
    /\ \E t1 \in {join.tables[1]}, t2 \in {join.tables[2]} :
       \E width \in {JoinWidth(t1, t2)}, found \in {Ascending(Matches(t1, t2))} :
       \E filled \in {Len(found) >= RowsPerJoinPage(width)} :
       \E entries \in {IF filled THEN SubSeq(found, 1, RowsPerJoinPage(width)) ELSE found} :
       \E rows1 \in {[n \in DOMAIN entries |->
                        RowAt(t1, indexMap[entries[n]].slb, indexMap[entries[n]].key)]} :
       \E rows2 \in {[n \in DOMAIN entries |->
                        RowAt(t2, getHashMap(t2, indexMap[entries[n]].key), indexMap[entries[n]].key)]} :
       \E made \in {[n \in DOMAIN entries |-> JoinedRow(rows1[n], rows2[n])]} :
       \E page \in {JoinedPage(made, width)} :
           IF Len(entries) * width > PAGE_WORDS - 1
           THEN halted' = TRUE /\ UNCHANGED <<table1iter, joinPage, received, join>>
           ELSE /\ joinPage' = page
                /\ received' = received \o RowsOf(page, width, Len(entries))
                /\ table1iter' = After(entries, filled)
                /\ join' = [join EXCEPT !.running = filled]
                /\ UNCHANGED halted
    /\ UNCHANGED <<currId, currBlock, host, rowWidth, indexMap, disk, inserted, expected, loaded>>

Next ==
    \/ CreateTable
    \/ \E t \in Ids, k \in Keys : InsertRow(t, k)
    \/ \E t \in Ids, load \in Loads : LoadTablePage(t, load[2])
    \/ \E t1, t2 \in Ids : StartJoin(t1, t2)
    \/ FetchJoinPage

Spec == Init /\ [][Next]_tvars

\* commandJoin asks for the next page until one is the last.
FairSpec == Spec /\ WF_tvars(FetchJoinPage)

-----------------------------------------------------------------------------
Reachable(row) ==
    LET t == row[1]
        k == row[2]
        block == getHashMap(t, k)
    IN  /\ block # INVALID_HASHMAP_LPN
        /\ LET at == FindRow(RowWidth[t], disk[block], k)
           IN  at # -1 /\ disk[block][at] = Word(t, k, 0)

\* Every row that was inserted is found through the index: the page of its
\* key holds it (hashMap.c:26, 51 and join_buffer.c:103).
RowsReachable == \A row \in inserted : Reachable(row)

\* no other table holds the key of the row
Unshared(row) == \A other \in inserted : other[2] = row[2] => other[1] = row[1]

\* the row is on the page it was written to: no load-table-page has made the
\* host write over it
Stored(row) ==
    LET at == FindRow(RowWidth[row[1]], disk[row[3]], row[2])
    IN  at # -1 /\ disk[row[3]][at] = Word(row[1], row[2], 0)

Intact == loaded => \A row \in inserted : Stored(row)

\* What is left of RowsReachable when several tables use the index: a row whose
\* key no other table holds is found, whatever else is in its bucket.
OwnRowsReachable ==
    Intact => \A row \in inserted : Unshared(row) => Reachable(row)

\* No two tables write to the same block: a block holds rows of one table, and
\* no table is about to write to a block of another (table.cpp:11, 117).
NoSharedBlock ==
    /\ \A t1, t2 \in Ids : t1 # t2 => host[t1].backingBlock # host[t2].backingBlock
    /\ \A row \in inserted, t \in Ids : host[t].backingBlock = row[3] => row[1] = t

Answered == ~ join.running /\ join.tables # <<>>

\* A finished join of a table with itself, none of whose keys another table
\* holds, gave the host a row for each of its keys once, however many pages it
\* took; the words of the rows are those inserted, as long as no sector was
\* loaded, which may cut rows.  A join of two tables depends on RowsReachable
\* (dbSSD-host.cpp:180, nvme_io_cmd.c:219).
SelfJoinCorrect ==
    /\ Answered /\ Intact
    /\ join.tables[1] = join.tables[2]
    /\ \A row \in inserted : row[1] = join.tables[1] => Unshared(row)
    => /\ Len(received) = Cardinality(expected)
       /\ {line[1] : line \in ToSet(received)} = {line[1] : line \in expected}
       /\ loaded \/ ToSet(received) = expected

\* Whatever the index says of the second table, a finished join gave each row
\* of the first one at most once, however many pages it took, as long as no
\* load-table-page has made the host write over a row.
FirstRowsOnce ==
    Answered /\ Intact
        => \A i, j \in DOMAIN received : i # j => received[i][1] # received[j][1]

\* A join ends: the device says at last that nothing remains.
JoinEnds == join.running ~> ~ join.running

=============================================================================
