# dbSSD in TLA+

dbSSD is an SSD that stores database tables: the firmware of an OpenSSD board
(`src/dbSSD-ftl`, C on one ARM core) with a page-mapping flash translation
layer, a page buffer and an index of rows, and a host program
(`src/dbSSD-host`, C++) that creates tables, inserts rows and asks the device
to join two tables. This directory holds TLA+ models of the parts that keep
state, TLC runs that check them on small instances, and TLAPS proofs of the
results that hold for every size.

Every operator and action is translated from the code; `PROJECT.json` ("map")
names the lines of each one. Definitions keep the names of the C code where
they can. A definition introduced by a comment "Mutant of X" is no part of the
model: it is X with a plausible mistake, and `PROJECT.json` ("mutants") says
which property notices the mistake.

## 1. The system

The firmware is one polling loop (`nvme_main.c:107`) with one interrupt
handler (`host_lld.c:88`). Nothing is preempted except by that handler; the
concurrency is between the firmware, that handler, the NAND controllers (16
dies on 2 channels) and the NVMe controller with its DMA engine. Only the table
of bad blocks outlives a restart: buffer, map and index start empty.

    host program --NVMe--> nvme_io_cmd --> lru_buffer --> page_map (PmRead, PmWrite)
      Table::insert            |               |               |
      commandJoin          hashMap, table,  join_buffer     garbage collection
                           join page           |               |
                                               v               v
                                    req queue of the die   sub-req queue of the die
                                               \               /
                                          low_level_scheduler (sweep)
                                            |               |
                                     host_lld (auto DMA)  fmc_driver (NAND)

| Component | State | Operations | What is hard | What makes it correct |
|---|---|---|---|---|
| Page map, garbage collection (`page_map.c`) | page map both ways, valid bits, block roles, lists of victims by invalid pages | PmRead, PmWrite, FindFreePage, UpdateMetaForInvalidate, GarbageCollection, EraseBlock; bad blocks: CompulsoryGC, table in block 0 | a write is suspended by a collection over all dies; three blocks change roles; lists updated by hand | reads find the last write; blocks keep to one role; a collection leaves room; NAND pages are programmed in order |
| Linked lists (in `page_map.c`, `lru_buffer.c`, `low_level_scheduler.c`) | head, tail, next, prev arrays | unlink, append, prepend, pop, in line each time | four cases of a link each | a node is on the list it is thought to be on, and no other |
| Page buffer (`lru_buffer.c`) | entries, LRU list of each die | CheckBufHit, AllocateBufEntry, LRUBufRead, LRUBufWrite | an entry is reused while requests and DMA for its last page are pending | no page twice; nothing lost on eviction; reads deliver what was written |
| Join page (`join_buffer.c`) | entries of the two pages | PageToBuffer, FindRowAddr | entry numbers kept across allocation and drain | the join sees the rows of its pages |
| Request queues (`low_level_scheduler.c`) | two rings per die, status of the die, lists of a channel, reservedReq, bad block flag | pushes, EmptyReqQ, EmptySubReqQ, EmptyLowLevelQ, ExeLowLevelReq | who sweeps decides which queue goes first; retries; a bad block found in the middle | order of the calls; status of the right request; no wake-up lost; waits end |
| Flash controller driver (`fmc_driver.c`) | completion words in memory | V2F commands | late and failed operations | part of the environment |
| Host DMA (`host_lld.c`) | 8-bit counters of hardware and driver, laps | set_auto_rx/tx_dma, check_auto_rx/tx_dma_partial_done | counters wrap; seven cases | a transfer is "done" when it is done |
| NVMe main loop and interrupt handler (`nvme_main.c`, `host_lld.c:88`) | task status, cacheEn | enable, shutdown, reset, dispatch | both write the task status | no request of the host is lost |
| NVMe admin commands (`nvme_admin_cmd.c`, `nvme_identify.c`) | queue registers | identify, features, queues | none | one completion each |
| NVMe I/O commands (`nvme_io_cmd.c`) | join page, iterator | read, write, insert, create, join, reset-iterator, flush | a join takes many commands | each row of the join once |
| Index of rows (`hashMap.c`) | buckets of entries | insertHashMap, getHashMap, iteration | search and free entries share the key field | each inserted row is found |
| Tables of the device (`table.c`) | width per table | insertTable | fixed number | |
| Host library (`table.cpp`, `dbSSD-host.cpp`) | Table objects, block counter | create, insert, load page, join | the counter is used in two ways | no block belongs to two tables |
| Bad block table (`page_map.c`, `low_level_scheduler.c`) | a table per die in its metadata block | RecoverBadBlockTable, EmptyLowLevelQ, 'X' at start | saved by an erase and a program nobody waits for; the power may fail; dies share the GC buffer | a bad block is never used again and never forgotten |
| Start (`init_ftl.c`, `main.c`) | | initialises all of the above | | initial states |
| JSON library, test programs, debug helpers | | | | not modelled |

`PROJECT.json` lists, under "hazards", what in this code is hard to test, at
its line, with the properties that would notice it going wrong.

## 2. The modules

| Module | Models | State and actions |
|---|---|---|
| `LinkedList` | the list code repeated in line | operators on families of lists; `WellFormed` says which list each node is on |
| `BlockStore` | nothing in the code: the promise of the page map, an array of logical pages with one write at a time | `store`, `request` (the write asked for last), `mode`; a write is served at once (`StoreWrite`), or accepted and finished later (`StoreAccept`, `StoreFinish`); nothing else changes a page |
| `PageMap` | `page_map.c` on NAND that does not fail | a record per die (`die[d]`: map, valid bits, lists, roles of blocks, NAND contents); `PmWrite`, `PmWriteNeedsGC`, a step for each iteration of the loops of GarbageCollection (`GcSelectVictim`, `GcCopyPage`, `GcEraseVictim`, `GcAbort`), `PmWriteResume`; `req` holds the arguments of the last PmWrite. `ImplementsStore` refines `BlockStore` |
| `PageMapInv` | nothing in the code: the inductive invariant of `PageMap` in named parts | |
| `RowAddress` | row addresses in SLC mode: the map's numbers, the chip's addresses and the way back from an address that warned | no state; `PhyRow`, `RawRow`, `WarnedBlock` |
| `BadBlocks` | replacement of worn blocks, on the tables of `PageMap` | the actions of `PageMap` and: `HostRead` (a block that may warn), `WriteWaits` and `QueueWrite` (PmWrite that waits in its push with a row in hand), `ReplaceWornBlocks` (a sweep that finds warnings: EmptyLowLevelQ, CompulsoryGC, UpdateBadBlockTable) |
| `BadBlocksInv` | nothing in the code: the inductive invariant of `BadBlocks` | |
| `BadBlockTable` | the table of bad blocks over starts, saves and power failures | flash, blockMap, newBadBlockTable, the GC buffer and the sub-req queue of each die; `PowerOn`, `RecoverBadBlockTable`, `InitialErase`, `EmptyLowLevelQ`, `UpdateTables`, `Execute`, `PowerFails` |
| `DieQueues` | `low_level_scheduler.c` for one die | rings, status, flags and NAND registers in `die`; the routine that runs and those that called it in `todo`; a step is one push, one visit of a sweep, or a move of the NAND |
| `RequestParts` | how a command is cut into parts of pages | no state; `Part` |
| `LruBuffer` | `lru_buffer.c`, the two pages of `join_buffer.c`, the queue of each die and the DMA engine | entries, LRU lists, queues, transfers; `HostRead`, `HostWrite`, `HostJoin` are whole handlers, the device executes requests and moves sectors one at a time |
| `HostDma` | the automatic DMA of `host_lld.c`, one direction | the counters of driver and hardware with laps; `StartPart`, `SetAutoDma`, `CheckDMA`, `Transfer` |
| `NvmeController` | the main loop of `nvme_main.c`, the interrupt handler, the admin commands that set up queues | registers, task status, the branch of the loop and how far it is; a branch takes several steps, the handler may run between any two |
| `IndexMap` | `hashMap.c` | `indexMap`, an array of buckets; `NewMap`, look-up |
| `Tables` | host program, index, pages and join, end to end | a command of the host is a step, except a join, which is a step for each page it fetches. `LoadTablePage` brings the one sector that readPage asks for (nlb 0, `table.cpp:124`) to the front of a page (`SectorOver`) |
| `MC...` | small instances for TLC | constants that a cfg cannot write, and views |
| `...Proofs` | theorems (section 4) | |

The parts are checked apart, each with what it needs to know of its neighbours.
What joins them:

- `PageMap` and `BadBlocks` let a request take effect when it is pushed. That is
  right if each die executes its requests in the order of the pushes, which is
  `InIssueOrder` of `DieQueues`. It holds without joins; finding 2 is about joins.
- `LruBuffer` keeps requests in one queue per die in that same order and has
  NAND pages by logical number (`stored`) that only a program of that page
  changes, which is what `ImplementsStore` says of the page map.
- `LruBuffer` has a transfer done sector by sector and lets a request go on when
  its entry has none left; `HostDma` shows that the answer of the counters means
  just that (`DoneExactly`).
- `Tables` takes a command as one step: a page that was written is the page read
  later, and a join sees the rows inserted before it (`ReadsLatest` and
  `JoinSeesRows` of `LruBuffer`). It numbers pages by the block counter of the host
  (slb / 4, with slb % 4 the sector of the page); a page of the host is a page of
  the device.
- `NvmeController` has the commands that keep state of their own in the
  controller. I/O commands start there and are handled in `LruBuffer` and `Tables`.
- `BadBlockTable` has what outlives the tables of `BadBlocks`: both take the
  blocks that a sweep has noted, one for the maps, the other for what is saved.
  It uses `RowAddress` for the pages it reads and writes.

`BadBlocks` extends `PageMap`, and its proofs those of `PageMap`; `Tables` extends
`IndexMap`, `LruBuffer` extends `RequestParts`, `BadBlockTable` extends
`RowAddress`, `PageMap` extends `LinkedList`.

`PageMap` and `BadBlocks` are shown to implement `BlockStore`. The store of
`ImplementsStore` is what PmRead finds, its pending write is `req`: a step that
wrote another page, or other data than those of `req`, or changed a page while the
collection runs, would be no step of `BlockStore`. `HostDma` keeps the
true numbers of transfers beside the counters that stand for them (`issued`,
`completed`, `recorded`), and its properties compare the two.

Variables that only record what happened (`order`, `latest`, `inserted`,
`expected`, `loaded`, `lost`, `overtaken`, `history`) are there for the
properties; a guard reads one only to say what the host does (tables are created
before the first row, a join asks for pages that were written). What is outside
the repository is marked `external` in the map and described at the head of its
module.

An ASSERT that fails stops the device (`halted`). Counters and addresses keep
their widths where they matter (16-bit page counters, 8-bit DMA counters).
`BadBlockTable` follows dies 0 and 9, whose table and copy share a page of the GC
buffer.

## 3. The runs

| Run | Instance | Distinct states | What it shows |
|---|---|---|---|
| `PageMapCore` | 1 die, 5 blocks of which any one may be bad, 2 pages, 2 logical pages, 2 contents | 1 272 318 | types, the map in both directions, blank free blocks, NAND order, that a read finds the last finished write of its page, and that a collection ends |
| `PageMapTwoDies` | 2 dies, 5 blocks of which any one may be bad, 2 pages, 2 contents | 2 879 972 | a collection over both dies, with different bad blocks and with aborts: roles and room; the write that waited for it changes its own page of its own die, to its own data, when it comes back |
| `BadBlocks` | 1 die of 5 blocks, 2 may wear out, 1 may be bad at start, 2 logical pages, 2 contents; replacement between commands, at the start of a collection and in the push of a write | 2 078 562 | bad blocks out of use, map and victim lists right in the middle of all this; a replacement changes no read, and a write that waits in its push still writes its own data to its own page |
| `BadBlocksDrain` | the same with 1 content, replacement in the drain at the end of a collection | violation | finding 1 |
| `BadBlockTable` | 2 dies of 4 blocks, 1 factory mark, 2 host programs, 2 power failures | 11 857 000 | factory marks are never forgotten, the saved table says what the map says, marks survive any number of starts |
| `NvmeController` | 2 queue pairs, 2 link failures | 2 612 | nothing of a driver is left for the next, commands go to a running loop, every wait ends |
| `DieQueues` | rings of 3 and 4 slots, one retry | 59 182 | order, fresh status, honest "empty" flags, no lost wake-up; every routine that waits returns and every request under execution ends |
| `DieQueuesJoin` | the same with joins | violation | finding 2 |
| `LruBuffer` | 1 die, 2 entries, 3 pages of 2 sectors, 2 commands at a time, 3 in all | 477 759 | no page twice, reads deliver the last write, nothing is lost, joins see their rows, commands complete |
| `HostDma` | counters of 4 values, 2 entries, 13 transfers | 6 502 | never a lap ahead, exact answers, release only after transfer, waits end |
| `Tables` | 3 tables for room of 2, 4 keys, pages of 2 rows and 4 sectors, 3 blocks, a sector loaded over a page | 217 023 | rows are found, a join of a table with itself is right over several pages, a join never repeats a row of its first table, joins end, no shared block |
| `TablesSameKey` | 2 tables | violation | finding 3 |

Why the bounds are enough to be interesting:

- *PageMap*: 4 blocks are the least with a current, a spare and a victim block
  beside the metadata block. Two pages per block make first and last page
  differ; in the course of the run the collector meets victims with and without
  valid pages and fills the current block both before and during a copy. With 5
  blocks the bad one may be any, so that the first and last usable block are not
  always the same. The sizes are no limit of the results: all but
  `GcTerminates` are proved for every geometry.
  `NeverAborts`, which no run keeps, is about capacity: it holds with one die in
  `PageMapCore` and in other instances we ran (4 blocks of 3 pages for 3 logical
  pages, 5 of 2 for 4, 6 of 2 for 3, none bad), and fails when the logical pages
  leave only two pages beyond the spare block.
- `ImplementsStore`: with one content a wrong copy could not be told from a right
  one, nor a lost overwrite from a write, so its runs have two. One logical page
  per die is enough in `PageMapTwoDies`, where the mistake to be told is one of
  dies; the two of `PageMapCore` and `BadBlocks` tell one page of a die from
  another. What the invalid pages of a die still hold would multiply the states
  for nothing: `LiveContents` is the `VIEW` of `PageMapTwoDies` and `BadBlocks`
  and leaves it out. No routine looks at it before the erase: CopyPage copies
  valid pages only, and a read follows the map, whose pages are valid by
  `MapConsistent`, an invariant that speaks of no content, so that the view cannot
  hide a violation of it (the run `BadBlocks` checks it, and it is proved). `PageMapCore` runs without a view.
- *BadBlocks*: 5 blocks leave two free ones beside the roles, so two may wear out
  before the device stops. Two worn blocks of one sweep are replaced behind each
  other. With one logical page less the copies of a replacement would never cross
  into the spare block.
- *BadBlockTable*: 2 blocks per LUN make blocks of both LUNs exist; one power
  failure tears a save and a second one meets the start after it.
- *NvmeController*: two link failures let one meet the recovery from the other.
  More queue pairs only multiply states: the loops treat all alike.
- *DieQueues*: a ring of 3 holds two requests, so pushes wait for room in both
  rings. A collection of a full block fills the sub-req ring exactly, as the
  real constants (`SUB_REQ_QUEUE_DEPTH` = 2 * pages of a block) do. One retry
  shows a retried request and one whose retries are used up.
- *LruBuffer*: with three pages and two entries the third page always evicts;
  commands of up to two sectors start and end inside pages and cross from one
  to the next. Four commands (1.77 million states up to symmetry, safety only)
  and five with one at a time (2.9 million) gave the same answers.
- *HostDma*: 13 transfers are more than three laps of a counter of 4 values;
  two entries let one fall behind by a lap. The safety results are proved for
  every width.
- *Tables*: two buckets of two entries collide and fill up; joins need up to
  three pages; the tables compete for the third block. A sector is shorter than a
  row and the one that is loaded starts in the middle of a row, so that rows are
  cut at both of its ends. Keys lie between 1 and the
  range of an entry (see below). `Scripted` says that tables are created before
  the first row, as the scripts of `testScripts/make-script.py` do.

`CHECK_DEADLOCK FALSE` appears only where a bound on commands or transfers ends
the run, or where the user may stop. Bounds: `MaxCommands`, `MaxReq`,
`MaxDmas`, `MaxPart`, `MaxTables`, `MaxBlocks`, `Loads`, `MAX_BAD`, `MAX_WORN`,
`Places`, `MAX_FACTORY`, `MAX_PROGRAMS`, `MAX_FAILURES`, `MaxLinkDowns`.

### Fairness

- `PageMap`: weak fairness of `Collect`. The main loop never preempts a
  collection, its loops go on until they end.
- `DieQueues`: weak fairness of the firmware and of the NAND. Strong fairness of
  a visit while a routine waits: every waiting loop sweeps before it looks again
  at what it waits for. Strong fairness of a definite status report: the
  controller may answer "not yet" any number of times, not for ever.
- `LruBuffer`: weak fairness of the scheduler and the DMA engine; a joining host
  has waited for its inserts, as the host library does (its ioctls block).
- `HostDma`: weak fairness of the hardware and of the loop that issues
  transfers, strong fairness of asking again about an entry: every sweep does so
  between two parts.
- `NvmeController`: weak fairness of the main loop, which never stops, of the
  interrupt handler, and of a driver that sees the register it polls. Nothing
  makes the driver or the link start anything.
- `Tables`: weak fairness of `FetchJoinPage`. `commandJoin` loops until the
  device says that nothing remains.

### Findings

1. `BadBlocksDrain`: FindFreePage takes the next page of the current block after
   a collection without a test (`page_map.c:404-411`), and the proof of
   `CollectionMakesRoom` shows that the collection itself always leaves room.
   But GarbageCollection ends by draining the req queue (`page_map.c:721`); if
   that drain finds a worn block, CompulsoryGC fills the current block and the
   write gets the first page of the next one.
2. `DieQueuesJoin`: a join drains the queues with the req queue first. If a
   sub-req request fails during that drain and a DMA is at the front of the req
   queue, the die is put on the DMA list in a retry state of the other queue;
   each visit passes NONE, which is the value of RS_RUNNING, and the join waits
   for ever (`low_level_scheduler.c:1072`).
3. `TablesSameKey`: insertHashMap takes any entry with the same key for "value
   already in table" (`hashMap.c:34-35`), so a row of a second table with that
   key is never indexed. A join of both tables then finds the row of the first
   table in place of the second's, even when the second table is empty. The test
   scripts insert every key twice.

Three more disagreements have no run of their own. Each appears at once when a
cfg is changed as said:

- `PageMapTwoDies` with `AbortMeansNoFreeBlocks` and no bad blocks: when
  one die has no free block, GarbageCollection visits every die and its assertion
  "There are no free blocks" (`page_map.c:717-718`) fails on a die that has
  nothing to collect, whatever free blocks it has.
- `TablesSameKey` with key 0 (or a key above the range of an entry) and one table:
  free entries have key 0, so key 0 is "already in table" and never indexed. The
  test scripts start with it.
- `Tables` with `Scripted = FALSE`: the constructor of Table uses the block
  counter and then advances it, insert advances it and then uses it
  (`table.cpp:13-18, 117`). A table created after a page has filled shares a block
  with the table that filled it (`NoSharedBlock`).

What the properties of the new modules leave out, because the code does not
provide it and the repository does not claim it:

- `BadBlocksUnused` leaves out a die where a replacement overtook a write that had
  its row already (`overtaken`): that write goes to the erased, bad block.
- `BadBlocksKept` leaves out a die whose table was erased and not yet written
  when the power failed (`torn`): the scan that follows finds the factory marks
  but not the worn blocks, and may take data for marks. `FactoryBadUnused` holds
  even then.
- All properties of `BadBlockTable` leave out a die whose table page of the GC
  buffer another die's copy has overwritten before it was written (`spoilt`):
  `page_map.c:788` forms the address of the copy buffer as GC_BUFFER_ADDR +
  DIE_NUM * BLOCK_NUM_PER_DIE + (dieNo + 1) * PAGE_SIZE, the first term of which
  counts blocks, not pages, so die d copies through the table page of die d + 9.
- `Answered` and its companions leave out the behaviours in which the handler
  stores its status between a branch's write of CSTS and the branch's own store
  (`lost`): that request is overwritten and never served.

## 4. The proofs

The results are in `PageMapProofs`, `DieQueuesProofs`, `BadBlockTableProofs`,
`LruBufferProofs`, `TablesProofs`, `NvmeControllerProofs`, `HostDmaProofs` and
`BadBlocksProofs`, about 18 400 proof obligations in all. Each invariant was
checked by TLC on the instance of its run before it was proved.

**Page map.** `InductiveInvariant` shows that `IInv` (module `PageMapInv`) holds
in every reachable state; the type invariant, `MapAgrees`, `ListsAreExact`, `FreeIsBlank`,
`BlocksStayApart`, `CollectionMakesRoom`, `NandDiscipline` (the action property)
and `PageMapImplementsStore` (the refinement: a read finds the data of the last
finished PmWrite of its page, and a collection changes no read) follow from it. Assumptions: the
geometry of the code (page counters fit 16 bits, at least two usable blocks at
start) and sentinels that are no index. None of the properties is inductive
alone. What the invariant adds:

- written pages of a block are a prefix of it (`WrittenPrefix`), so that "the
  next page" is blank and a full block is full;
- invalid counts are exact and the lists are well formed for them
  (`CountsExact`, `ListsWellFormed`), so that unlinking by null links does what
  it should;
- `VictimInHand`: during a collection the spare block has received no more
  pages than the victim has given, and strictly fewer as soon as one of those was
  invalid. A victim has an invalid page because it came off a list. So the spare
  block, which becomes current, is not full when the collection ends: this is why
  the unchecked increment in FindFreePage (`page_map.c:406`) is right;
- `WriterHasRoom`: where the collector is in its loop over the dies determines
  whether the die of the waiting write has been served yet.

The proof has a lemma for each action. `OneDieChanges` reduces a step to the die
it touches, and the operators on one die have lemmas of their own. The list
theorems, the first section of `PageMapProofs`, are used in both directions: also
to show that the shortcut by which the collector pops a head is a full unlink.

`ListsAreExact` is about a walk along the links, and the rest of `WellFormed` is
about neighbours. Neighbours do not exclude a ring to which no head leads, whose
nodes would agree with each other and never be met. So `WellFormed` also says
that no set of nodes has all its predecessors in itself (`NoRing`), which every
list operation keeps. `WalkMeetsList` follows without an induction over the
length: the nodes of the list that the walk misses would be such a set, and so
would those between two meetings of one node; a walk that meets each node once
has ended after as many steps as there are nodes.

**Worn blocks.** `ReplacementIsSafe` shows `BadIInv` (module `BadBlocksInv`) for
every geometry and every number of worn blocks. `BadBlocksStayUnused`,
`MapAgreesWithReplacement`, `ListsAreExactWithReplacement` and
`StoreKeptWithReplacement` follow: a block marked bad is out of use, and neither
the tables nor the reads of the host show that a block was replaced. The last one
says of every step that it is one of `BlockStore`: a write that waits in its push
is accepted before and finished by `QueueWrite`, with its own data in its own
page, and the steps of a replacement change no page. What the
proof adds to the one of the page map:

- a write that waits in its push has taken a page and written nothing. `WaitInv`
  is the invariant of a die with that page as a hole in the prefix
  (`PrefixButFor`); `QueueFillsHole` closes it again, whatever was replaced
  meanwhile;
- the copy loop of CompulsoryGC is not the one of GarbageCollection: it also runs
  on the current block and on blocks without an invalid page, so its spare block
  may be filled to the last page. `MoveInv` is its invariant; the step that erases
  the block and takes the next spare one leads back to `WaitInv` (`EraseEndsMove`);
- only a block that holds data can be noted as worn, since only a queued read
  warns (`ReadsWritten`). A free block marked bad would stay in the free pool;
- at the start of a collection the die of the waiting write is full and has no free
  block. A replacement on it finds no new spare block and fails its assertion, so
  the collection goes on only with a die that was not touched (`WriterServed`).

Two hypotheses. A die whose waiting write was overtaken is left out
(`BadBlocksUnused` leaves it out by itself, the other three theorems say
`overtaken = {}`). And `"gc end" \notin Places`: the sweep that ends a collection
finds no worn block. Without it the theorems are false, which is finding 1: the
write that follows takes the page behind the last one of the current block, and
TLC then also finds `BadBlocksUnused` violated when "gc end" is added to the run
`BadBlocks`. All other waits of the code are covered.

**Host DMA.** `LapTheorem`, `DoneExactlyTheorem`, `ReleaseTheorem`, for counters
of every width. The invariant says what the counters abbreviate: a total is
`COUNT * lap + counter`. Totals are ordered like pairs of lap and counter
(lemma `Laps`), which turns the seven cases of the code into linear arithmetic.

**Queues of a die.** For queues of every depth, blocks of every size and any
number of retries. `BaseInv` (`QueuesBounded`) holds whatever the host does: the
flags say what the rings hold, a die on a list has the request that list is for,
rings never overflow, and a routine that waits has something it will be woken
by. `EmptyFlagsRight` and `WakeupsKept` follow. `OrderInv` (`OrderKept`) needs
`Joins = FALSE`, and finding 2 is why: a join drains with the req queue first
while older requests wait in the other. Without joins, each routine sweeps with
the queue first whose requests are the older ones, so the history of pushes is
always "the requests of the queue that goes first, then those of the other"
(`OrderOK`), and the routines still to run agree with that (`PlanOK`).
`IssueOrderKept`, `FinishOrderKept`, `StatusFresh` and `QueuesTyped` follow.

**Page buffer.** For every number of dies, entries, pages and sectors of a page,
every number of slots, and commands of every length. `LruBufferInvariant` shows
`LruInv`, and `PagesBufferedOnce`, `ReadsGetLatest`, `NothingLostWhenQuiet`,
`JoinFindsRows` and `BufferTyped` follow. The properties speak of what a buffered
page holds, and that is seldom what the handlers meant it to hold: the page may
still have to be read, its predecessor programmed, its sectors fetched. So the
invariant speaks of where the queues lead:

- a *view* of a die is the contents of its entries and of its pages on the NAND,
  with the DMA transfers from the host that are under way taken as done
  (`View`, `Landed`). Each request turns a view into another (`Effect`). The queue
  of a die therefore stands for a sequence of views (`Leads`), of which the first
  is the present one;
- in the last view every page is where it should be: in its entry, and in the
  NAND if no entry has it or the entry is clean (`Kept`). Each read in the queue
  finds what it is to deliver in the view it meets (`Delivers`). A handler only
  appends views, so later writes and evictions do not disturb an earlier read;
- `CheckDMA` is what makes this true of the device: a request acts on the present
  view only once the DMA of its entry is done, when the entry holds what the view
  says (lemma `LandedFacts`);
- the transfers in the queues and in the engine move different sectors of
  commands that wait for them (`Transfers`), so a slot is free only when nothing
  is left that would read or write for it, and a new command may take it
  (`NewCommand`);
- in the middle of a handler a page may be in its entry but not yet read
  (`Almost`), or waiting for the sectors of a write (`Awaits`); there are lemmas
  for each way a part leaves these states.

A join takes its second page into an entry other than that of its first because
the victim is the entry used last of at least two (`VictimFacts`).

*Parts of a command* (same module). `PartInPage`, `PartInPlace` and `PartsFollow`:
for every first sector, length and page size, the parts move each sector of the
command once, to its place, inside a page. The handlers loop over the parts; the
argument over the loop takes the first part after which something is wrong
(`LeastNumber`) in place of an induction.

**Bad block table.** `BadBlockTableInvariant` gives, for each place where the
firmware can be between two requests, the shape of the die's queue, what the
table page in memory says, and what the flash holds; `FactoryBadUnusedTheorem`,
`TableMatchesMapTheorem` and `BadBlocksKeptTheorem` follow for any number of
starts, power failures and programs. The assumption `AllBlocksNumbered` is what
the code sets in SLC mode (`init_ftl.h:85-86`): the map numbers all blocks of a
LUN. With fewer, the two LUNs of a die are numbered differently by the chip and
by the map.

*Row addresses* (same module). `RowsApart`: two rows of a die never share an
address of the chip. `WarnedBlockIsTheBlock`: dividing the address of a row by
the LUN base and by the pages of an MLC block gives the chip's number of the
row's block, so the warning of a read marks the right one.
`LastRawPageHoldsNoRow`: the last page of a chip block is no LSB page of SLC
mode, so host data there cannot be taken for a factory mark. All for every
number of blocks per LUN that fits below the base of LUN 1 (`LunAssumption`).
The argument is one of quotients: an offset inside a block is below 256, one
inside a LUN below the base.

**Controller.** `ControllerInvariant` is a table: for each thing the driver may
be doing, how far the main loop may be in which branch, which status it may
find, and what is pending in the interrupt register (`Together`); what a driver
left is there only while the loop has not come to the branch that clears it
(`Kept`). All of it is relative to `~lost`, the behaviours in which no status was
overwritten. `NothingLeftBehindTheorem` and `ReadyMeansRunningTheorem` read one
row of the table each.

**Tables.** `TablesInvariant` has three parts. *Blocks* (`BlockInv`, needs
`Scripted`): the block counter means "next free block" before the first row and
"last block given out" afterwards, and `NoSharedBlockTheorem` holds because the
two meanings never mix. *Index* (needs `KeysFit`, keys from 1 to the range of an
entry; the others are the disagreement on key 0 above): a bucket is filled from
its front and never emptied, so the entry of a key stays where a search finds
it. *Pages*: what the host's page holds in the places of its rows is what the
device has there, as long as no sector was loaded. After a load a row counts as
stored when its key is still in a place where a search meets it (`Stored`).
`OwnRowsReachableTheorem` combines the last two. `TableJoinInvariant` adds joins: the rows received so far
are those of the entries before the iterator, in some order, one for each with
the key of its entry, and with all its words as long as no sector was loaded
(`GivenFor`, `Progress`). A fetch keeps this because it takes the next entries in ascending
order (`AscendingFacts`: counting the numbers below each enumerates them), leaves
the iterator behind the last (`MetFacts`), and cuts out of the page what it put
there (`CutFacts`, quotient and remainder). Entries of one table have different
keys (`KeysApart`), so `FirstRowsOnceTheorem` follows, and `SelfJoinTheorem` when
the partner of each entry is of the same table.

Widths matter here (`Fits`). `FirstRowsOnceTheorem` needs `SameSchema`, all rows
of one width, as in the scripts of `make-script.py` and in the run: with tables
of different widths (as in `testTables/testScript`) that share a key, the page
the index gives for the second table may be that of another one (finding 3), the
row is looked for at the wrong places, and the row left in the device's join
page goes out a second time. TLC gives the counterexample when this hypothesis
is dropped, on the run `Tables` with rows of 2 and 3 words. `SelfJoinTheorem`
needs no hypothesis about widths or loads: both pages of a row are those of one
table. What it says after a load is only that each key comes once, because a
sector that ends in the middle of a row leaves the key of one row in front of
words of another.

The search of insertHashMap is a recursion in the code and a least element in
the model; `MinFacts` proves that there is one, from the well-foundedness of the
naturals.

What is checked by TLC only, and why:

- every liveness property (`GcTerminates`, `CommandEnds`, `RequestEnds`,
  `CommandCompletes`, `JoinEnds`, `Answered`, and the waits of `HostDma`): the
  prover has neither fairness nor ENABLED;
- `MapConsistent`, `GcListsExact` and `ImplementsStore` of the run `BadBlocks` from
  the moment a die is overtaken. The tables stay right there too, but the
  page that waits may lie in a block erased and marked bad, and a bad block may
  then take one of the roles, which `BadIInv` excludes.

The type invariants of `DieQueues`, `LruBuffer`, `BadBlockTable`,
`NvmeController`, `HostDma` and `PageMap` are proved with the invariants above;
that of `Tables` holds in the runs.

## 5. Not modelled, and why

- The lists that order the dies of a channel and NAND reset: the lists only
  choose which die is visited next, and `DieQueues` has one die.
- MLC mode: `BIT_PER_FLASH_CELL` is SLC in the source. In MLC mode the numbers of
  the chip and of the map differ in LUN 1, and EmptyLowLevelQ would replace the
  wrong block (`low_level_scheduler.c:616`).
- A read that waits in its push while its block is replaced (`page_map.c:483`).
- A bad metadata block, and more than 16 worn blocks of a die in one sweep.
- The size lost to bad blocks. It lowers `storageCapacity_L` (`init_ftl.c:107`),
  which Identify reports and the ASSERTs of reads and writes compare addresses
  with (`nvme_io_cmd.c:86, 119`); the logical pages of the models are within it.
- Flush, write-zeroes, identify, get-features, get-log-page, direct DMA: they keep no state
  (the hazards list says what is odd about them).
- Memory layout, MMU, interrupt controller, register access, the V2F
  controller: configuration and hardware; the external parts of the modules say
  what is assumed of them.
- Schema parsing, printing, the test programs. `dbSSD-host/json.hpp` is a
  third-party library of 24 640 lines, almost three quarters of all lines of
  the repository; of the other 9 158 lines the definitions stand for 40 %.

## 6. What could follow

1. `PageMap` with `DieQueues`: the map executed by queues, in place of the
   argument of section 2; what a failed program does to a mapped page.
2. `ChannelLists`: LinkToX and UnlinkFromX (`low_level_scheduler.c:906-1048`)
   over `LinkedList`, and that no die of a channel starves.
3. Proofs: an invariant of `BadBlocks` that also holds on overtaken dies, and the
   step refinement `StoreKeptWithReplacement` without `overtaken = {}`.
