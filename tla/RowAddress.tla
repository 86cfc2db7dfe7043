----------------------------- MODULE RowAddress -----------------------------
(***************************************************************************)
(* Row addresses in SLC mode.  The tables number the rows of a die one     *)
(* after the other; the chip has two LUNs far apart and blocks of twice as *)
(* many pages, of which SLC mode uses the LSB ones.  A push translates a   *)
(* row to the chip's address; the scheduler, when a read warns, translates *)
(* the address back to a block.                                            *)
(***************************************************************************)
EXTENDS Integers

CONSTANTS
    BLOCK_NUM_PER_LUN,      \* the blocks of a LUN that the tables number
    MAX_BLOCK_NUM_PER_LUN,  \* the blocks that it has
    LUN_1_BASE_ADDR

PAGE_NUM_PER_BLOCK == 128
PAGE_NUM_PER_MLC_BLOCK == 256

ASSUME LunAssumption ==
    /\ BLOCK_NUM_PER_LUN \in Nat \ {0} /\ MAX_BLOCK_NUM_PER_LUN \in Nat
    /\ LUN_1_BASE_ADDR \in Nat
    /\ BLOCK_NUM_PER_LUN <= MAX_BLOCK_NUM_PER_LUN
    /\ PAGE_NUM_PER_MLC_BLOCK * MAX_BLOCK_NUM_PER_LUN <= LUN_1_BASE_ADDR

BLOCK_NUM_PER_DIE == 2 * BLOCK_NUM_PER_LUN
PAGE_NUM_PER_LUN == PAGE_NUM_PER_BLOCK * BLOCK_NUM_PER_LUN
DieBlocks == 0 .. BLOCK_NUM_PER_DIE - 1
DieRows == 0 .. 2 * PAGE_NUM_PER_LUN - 1

\* the chip's number of a block
PhyBlock(block) ==
    (block \div BLOCK_NUM_PER_LUN) * MAX_BLOCK_NUM_PER_LUN + (block % BLOCK_NUM_PER_LUN)

LunBase(lun) == IF lun = 0 THEN 0 ELSE LUN_1_BASE_ADDR

\* the LSB page of the chip that holds page p of a block
LsbPage(p) == IF p = 0 THEN 0 ELSE 2 * p - 1

\* Mutant of PhyRow: the page is not spread over the LSB pages.
PhyRowDense(row) ==
    LunBase(row \div PAGE_NUM_PER_LUN)
        + ((row % PAGE_NUM_PER_LUN) \div PAGE_NUM_PER_BLOCK) * PAGE_NUM_PER_BLOCK
        + (row % PAGE_NUM_PER_BLOCK)

PhyRow(row) ==
    LunBase(row \div PAGE_NUM_PER_LUN)
        + ((row % PAGE_NUM_PER_LUN) \div PAGE_NUM_PER_BLOCK) * (PAGE_NUM_PER_BLOCK * 2)
        + LsbPage(row % PAGE_NUM_PER_BLOCK)

\* LLSCommand_ReadRawPage, of a block by its chip's number: the last page is the
\* last one of the chip's block
RawRow(block, page) ==
    LunBase(block \div MAX_BLOCK_NUM_PER_LUN)
        + (block % MAX_BLOCK_NUM_PER_LUN) * (PAGE_NUM_PER_BLOCK * 2)
        + IF page = PAGE_NUM_PER_BLOCK - 1 THEN 2 * PAGE_NUM_PER_BLOCK - 1 ELSE LsbPage(page)

\* the block noted in newBadBlockTable when the read of an address warns
WarnedBlock(phyRow) ==
    (phyRow \div LUN_1_BASE_ADDR) * MAX_BLOCK_NUM_PER_LUN
        + (phyRow % LUN_1_BASE_ADDR) \div PAGE_NUM_PER_MLC_BLOCK

=============================================================================
