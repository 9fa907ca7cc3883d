----------------------------- MODULE GenericFS ------------------------------
(***************************************************************************)
(* The layout of a GenericFS partition, as compute_sizes() of              *)
(* disktool/disktool.c lays it out: super block, inode free map, block     *)
(* free map, inode table, first block of the root directory, other blocks. *)
(***************************************************************************)
EXTENDS Integers, FiniteSets, Sequences

CONSTANTS
    block_count,        \* blocks of the partition, and inodes
    MAP_BITS,           \* bits of a free map block (BLOCKSIZE * 8 = 32768)
    INODES_PER_BLOCK    \* inodes of an inode table block (64)

DivUp(a, b) == (a + b - 1) \div b

freemap_blocksize    == DivUp(block_count, MAP_BITS)
inodetable_blocksize == DivUp(block_count, INODES_PER_BLOCK)

\* Super block, free maps and inode table; then the root directory's block.
RootBlock == 1 + 2 * freemap_blocksize + inodetable_blocksize
Metadata  == 0 .. RootBlock - 1
total_preallocated == RootBlock + 1

\* A partition can be initialized only if one free map block covers all of this.
ASSUME LayoutAssumption ==
    /\ block_count \in Nat /\ MAP_BITS \in Nat \ {0} /\ INODES_PER_BLOCK \in Nat \ {0}
    /\ total_preallocated <= MAP_BITS
    /\ total_preallocated <= block_count

\* The free maps and the table go on past the last block and the last inode.
PartitionBlocks == 0 .. block_count - 1
MapBits   == 0 .. freemap_blocksize * MAP_BITS - 1
Slots     == 0 .. inodetable_blocksize * INODES_PER_BLOCK - 1
=============================================================================
