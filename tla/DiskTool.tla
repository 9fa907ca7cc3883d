------------------------------ MODULE DiskTool ------------------------------
(***************************************************************************)
(* disktool's operations on a partition: initialize(), create_file() and   *)
(* the allocators they use, one step per block they write, and a kill of   *)
(* the tool between any two.  verify_file_system() only reads; what it     *)
(* reports is an operator.                                                 *)
(*                                                                         *)
(* Of an inode only blocks[0] is kept: create_file() writes no other block *)
(* number but zero.  Of a directory entry its inode number is kept, and    *)
(* the offset behind its name, where the next entry goes.                  *)
(***************************************************************************)
EXTENDS GenericFS

CONSTANTS
    UNUSED_SPACE,    \* what clear_partition() leaves (bytes of 0x55)
    DIR_BYTES,       \* size of the root directory, one block (BLOCKSIZE)
    NameLengths,     \* lengths of the names the user enters (char name[128])
    MaxKills         \* bound on kills between two initializations

\* An entry is its name behind two words and a byte; the names of the first two are
\* "." and "..".
direntry_bytes == 9
FirstEntryEnds == <<direntry_bytes + 1, 2 * direntry_bytes + 3>>

ASSUME ToolAssumption == /\ UNUSED_SPACE \notin MapBits
                         /\ DIR_BYTES \in Nat /\ DIR_BYTES >= FirstEntryEnds[2]
                         /\ NameLengths \subseteq 1 .. 127
                         /\ MaxKills \in Nat

VARIABLES
    super,            \* block 0 holds the magic number
    inode_freemap,    \* the bits that are set
    block_freemap,
    inodetable,       \* blocks[0] of each inode
    root_dir,         \* the inodes of the directory's entries, in order
    entry_end,        \* the offset behind each of them
    pc,               \* the write the tool is about to make
    name_length, file_size,          \* what the user has asked create_file() for
    current_inode, current_block,    \* and its other variables
    kills             \* how often the tool has been killed since initialize()

directory == <<root_dir, entry_end>>
partition == <<super, inode_freemap, block_freemap, inodetable, directory>>
request   == <<name_length, file_size>>
locals    == <<request, current_inode, current_block>>
toolVars  == <<partition, pc, locals, kills>>

BlankTable == [n \in Slots |-> UNUSED_SPACE]
ClearedMap == {b \in MapBits : b % 2 = 0}

\* Free maps, inode table and directory of a partition nobody has written to are
\* taken to be as clear_partition() leaves them; nothing reads them.
ToolInit ==
    /\ super = FALSE
    /\ inode_freemap = ClearedMap /\ block_freemap = ClearedMap
    /\ inodetable = BlankTable
    /\ root_dir = << >> /\ entry_end = << >>
    /\ pc = "off"
    /\ name_length = 0 /\ file_size = 0
    /\ current_inode = 0 /\ current_block = 0
    /\ kills = 0

At(here)    == pc = here
Goto(there) == pc' = there

\* main(): without the magic number the user is asked, and initializes.
Start == /\ At("off") /\ Goto("menu")
         /\ UNCHANGED <<partition, locals, kills>>

\* The tool is left at its menu, or killed anywhere.
Quit == /\ At("menu") /\ Goto("off")
        /\ UNCHANGED <<partition, locals, kills>>

Kill == /\ pc \notin {"off", "menu"} /\ Goto("off")
        /\ kills < MaxKills /\ kills' = kills + 1
        /\ name_length' = 0 /\ file_size' = 0
        /\ current_inode' = 0 /\ current_block' = 0
        /\ UNCHANGED partition
-----------------------------------------------------------------------------
(***************************************************************************)
(* initialize().  clear_partition() starts with the super block; until     *)
(* write_super() puts it back nobody reads the rest.                       *)
(***************************************************************************)
clear_super == /\ At("menu") /\ Goto("clear rest")
               /\ super' = FALSE
               /\ UNCHANGED <<inode_freemap, block_freemap, inodetable, directory,
                              locals, kills>>

clear_rest == /\ At("clear rest") /\ Goto("write inode freemap")
              /\ inode_freemap' = ClearedMap /\ block_freemap' = ClearedMap
              /\ inodetable' = BlankTable
              /\ root_dir' = << >> /\ entry_end' = << >>
              /\ UNCHANGED <<super, locals, kills>>

\* Variant: the root directory's inode is not marked.
write_inode_freemap_empty ==
    /\ At("write inode freemap") /\ Goto("write block freemap")
    /\ inode_freemap' = {}
    /\ UNCHANGED <<super, block_freemap, inodetable, directory, locals, kills>>

write_inode_freemap ==
    /\ At("write inode freemap") /\ Goto("write block freemap")
    /\ inode_freemap' = {0}
    /\ UNCHANGED <<super, block_freemap, inodetable, directory, locals, kills>>

\* Variant: the root directory's block is not counted.
PreallocatedButRoot == 0 .. total_preallocated - 2
Preallocated == 0 .. total_preallocated - 1
write_block_freemap ==
    /\ At("write block freemap") /\ Goto("write root inode")
    /\ block_freemap' = Preallocated
    /\ UNCHANGED <<super, inode_freemap, inodetable, directory, locals, kills>>

write_root_inode ==
    /\ At("write root inode") /\ Goto("write root directory")
    /\ inodetable' = [inodetable EXCEPT ![0] = RootBlock]
    /\ UNCHANGED <<super, inode_freemap, block_freemap, directory, locals, kills>>

\* The entries "." and "..".
write_root_dir ==
    /\ At("write root directory") /\ Goto("write super")
    /\ root_dir' = <<0, 0>> /\ entry_end' = FirstEntryEnds
    /\ UNCHANGED <<super, inode_freemap, block_freemap, inodetable, locals, kills>>

write_super ==
    /\ At("write super") /\ Goto("menu")
    /\ super' = TRUE
    /\ kills' = 0
    /\ UNCHANGED <<inode_freemap, block_freemap, inodetable, directory, locals>>
-----------------------------------------------------------------------------
(***************************************************************************)
(* create_file().                                                          *)
(***************************************************************************)
\* scan_freemap() finds the first bit that is not set.
Found(map, n) == n \notin map /\ \A k \in 0 .. n - 1 : k \in map

\* Variant: the block of the last file is still there.
create_file_stale(size, length) ==
    /\ At("menu") /\ Goto("allocate inode")
    /\ file_size' = size /\ name_length' = length
    /\ UNCHANGED <<partition, current_inode, current_block, kills>>

\* A size of more than one block is refused; 0 and 1 stand for the sizes accepted.
create_file(size, length) ==
    /\ At("menu") /\ Goto("allocate inode")
    /\ file_size' = size /\ name_length' = length
    /\ current_block' = 0
    /\ UNCHANGED <<partition, current_inode, kills>>

allocate_inode ==
    /\ At("allocate inode") /\ Goto("write directory")
    /\ \E n \in MapBits : /\ Found(inode_freemap, n)
                          /\ current_inode' = n
                          /\ inode_freemap' = inode_freemap \cup {n}
    /\ UNCHANGED <<super, block_freemap, inodetable, directory,
                   request, current_block, kills>>

\* The entry goes behind the last one; the directory is written back, and the name is
\* not used again.
add_entry ==
    /\ At("write directory")
    /\ Goto(IF file_size > 0 THEN "allocate block" ELSE "write inode")
    /\ root_dir' = Append(root_dir, current_inode)
    /\ entry_end' = Append(entry_end,
                           entry_end[Len(entry_end)] + direntry_bytes + name_length)
    /\ name_length' = 0
    /\ UNCHANGED <<super, inode_freemap, block_freemap, inodetable,
                   current_inode, current_block, file_size, kills>>

\* Variant: the block found is not marked.
allocate_block_unmarked ==
    /\ At("allocate block") /\ Goto("write inode")
    /\ \E n \in MapBits : Found(block_freemap, n) /\ current_block' = n
    /\ UNCHANGED <<partition, request, current_inode, kills>>

allocate_block ==
    /\ At("allocate block") /\ Goto("write inode")
    /\ \E n \in MapBits : /\ Found(block_freemap, n)
                          /\ current_block' = n
                          /\ block_freemap' = block_freemap \cup {n}
    /\ UNCHANGED <<super, inode_freemap, inodetable, directory,
                   request, current_inode, kills>>

\* Variant: the inode is written without its block.
write_inode_empty ==
    /\ At("write inode") /\ Goto(IF file_size > 0 THEN "write data" ELSE "menu")
    /\ inodetable' = [inodetable EXCEPT ![current_inode] = 0]
    /\ UNCHANGED <<super, inode_freemap, block_freemap, directory, locals, kills>>

write_inode ==
    /\ At("write inode")
    /\ Goto(IF file_size > 0 THEN "write data" ELSE "menu")
    /\ inodetable' = [inodetable EXCEPT ![current_inode] = current_block]
    /\ UNCHANGED <<super, inode_freemap, block_freemap, directory, locals, kills>>

write_data == /\ At("write data") /\ Goto("menu")
              /\ UNCHANGED <<partition, locals, kills>>
-----------------------------------------------------------------------------
(***************************************************************************)
(* verify_file_system(): how often each block is counted, and the three    *)
(* kinds of report.  An allocated inode that holds no block number makes   *)
(* it count outside of its array.                                          *)
(***************************************************************************)
Allocated == inode_freemap \cap PartitionBlocks
Users(b)  == {n \in Allocated : b # 0 /\ inodetable[n] = b}
counter(b) == Cardinality(Users(b)) + (IF b \in Metadata THEN 1 ELSE 0)

UsedMultipleTimes    == {b \in PartitionBlocks : counter(b) > 1}
AllocatedButNotUsed  == {b \in PartitionBlocks \cap block_freemap : counter(b) # 1}
UnallocatedButInUse  == {b \in PartitionBlocks \ block_freemap : counter(b) # 0}

VerifyInRange  == \A n \in Allocated : inodetable[n] \in PartitionBlocks
-----------------------------------------------------------------------------
(***************************************************************************)
(* The specification.  Left to the user is what create_file() does not ask *)
(* for: an initialized partition, an inode of the partition, a bit of the  *)
(* block free map (the \todo of util.c:89 and 110) and space for the entry *)
(* in the directory's block.  Without an inode or a bit the allocators go  *)
(* on behind the table or the map, without space the entry is written      *)
(* behind the block's buffer.  A partition that has only bits behind its   *)
(* last block left is not kept out: create_file() puts data there.         *)
(***************************************************************************)
HasRoom(size, length) ==
    /\ super
    /\ ~ (PartitionBlocks \subseteq inode_freemap)
    /\ size > 0 => ~ (MapBits \subseteq block_freemap)
    /\ entry_end[Len(entry_end)] + direntry_bytes + length <= DIR_BYTES

initialize == \/ clear_super \/ clear_rest
              \/ write_inode_freemap \/ write_block_freemap
              \/ write_root_inode \/ write_root_dir
              \/ write_super

Writes == \/ initialize
          \/ allocate_inode \/ add_entry \/ allocate_block \/ write_inode \/ write_data

ToolNext == \/ Start \/ Quit \/ Kill
            \/ Writes
            \/ \E size \in {0, 1}, length \in NameLengths :
                  HasRoom(size, length) /\ create_file(size, length)

ToolSpec == ToolInit /\ [][ToolNext]_toolVars
Creating == pc \in {"allocate inode", "write directory", "allocate block",
                   "write inode", "write data"}
-----------------------------------------------------------------------------
ToolTypeOK ==
    /\ super \in BOOLEAN
    /\ inode_freemap \subseteq MapBits /\ block_freemap \subseteq MapBits
    /\ inodetable \in [Slots -> MapBits \cup {UNUSED_SPACE}]
    /\ root_dir \in Seq(PartitionBlocks) /\ entry_end \in Seq(Nat)
    /\ pc \in {"off", "menu", "clear rest", "write inode freemap",
               "write block freemap", "write root inode", "write root directory",
               "write super", "allocate inode", "write directory", "allocate block",
               "write inode", "write data"}
    /\ current_inode \in PartitionBlocks /\ current_block \in MapBits
    /\ name_length \in NameLengths \cup {0} /\ file_size \in {0, 1}
    /\ kills \in 0 .. MaxKills

\* If the tool was never killed since initialize(), verify_file_system() has
\* nothing to report at the menu, whatever files were created, up to the one that
\* takes the partition's last block.
VerifySilent ==
    At("menu") /\ super /\ kills = 0 /\ block_freemap \subseteq PartitionBlocks =>
       /\ VerifyInRange
       /\ UsedMultipleTimes = {} /\ AllocatedButNotUsed = {} /\ UnallocatedButInUse = {}

\* However often the tool was killed, no block serves two inodes or an inode and
\* the metadata, and every block that serves one is marked as allocated.
NoBlockTwice == super => UsedMultipleTimes = {} /\ UnallocatedButInUse = {}

\* However often the tool was killed, no two files of the directory share an
\* inode, and every one of them has its inode marked as allocated.
EntriesOwnInodes ==
    super => \A i \in 1 .. Len(root_dir) :
                /\ root_dir[i] \in inode_freemap
                /\ \A k \in 3 .. Len(root_dir) : i # k => root_dir[i] # root_dir[k]

\* A kill costs at most one block that no file uses.
OneBlockPerKill ==
    super /\ At("menu") => Cardinality(AllocatedButNotUsed) <= kills

\* The magic number is there only when the metadata is: free maps that cover it,
\* the root directory's inode, and its block with "." and ".." in front.
SuperComesLast ==
    super => /\ Preallocated \subseteq block_freemap
             /\ 0 \in inode_freemap
             /\ inodetable[0] = RootBlock
             /\ Len(root_dir) >= 2 /\ root_dir[1] = 0 /\ root_dir[2] = 0

(***************************************************************************)
(* What makes these inductive.                                             *)
(***************************************************************************)
\* What initialize() has done when it is about to make each of its writes.
StageOK ==
    /\ pc \in {"write inode freemap", "write block freemap", "write root inode"} =>
          inodetable = BlankTable
    /\ pc \in {"write root directory", "write super"} =>
          inodetable = [BlankTable EXCEPT ![0] = RootBlock]
    /\ pc \in {"write block freemap", "write root inode", "write root directory",
               "write super"} => inode_freemap = {0}
    /\ pc \in {"write root inode", "write root directory", "write super"} =>
          block_freemap = Preallocated
    /\ At("write super") => root_dir = <<0, 0>> /\ entry_end = FirstEntryEnds
    /\ pc \in {"clear rest", "write inode freemap", "write block freemap",
               "write root inode", "write root directory", "write super"} => ~ super
    /\ Creating => super

\* The room create_file() counts on is there when it asks for it.
RoomOK ==
    /\ At("allocate inode") => ~ (PartitionBlocks \subseteq inode_freemap)
    /\ pc \in {"allocate inode", "write directory", "allocate block"} /\ file_size > 0 =>
          ~ (MapBits \subseteq block_freemap)
    /\ pc \in {"allocate inode", "write directory"} =>
          /\ name_length \in NameLengths
          /\ entry_end[Len(entry_end)] + direntry_bytes + name_length <= DIR_BYTES
    /\ At("allocate block") => file_size > 0

\* Where an entry begins; and each has its header and a character before the next
\* one, inside the block.
EntryAt(i) == IF i = 1 THEN 0 ELSE entry_end[i - 1]
EntriesFit ==
    /\ Len(entry_end) = Len(root_dir)
    /\ \A i \in 1 .. Len(entry_end) :
          EntryAt(i) + direntry_bytes < entry_end[i] /\ entry_end[i] <= DIR_BYTES

\* What the inodes behind the root directory's hold: erased bytes as long as they
\* are free, then nothing, or an allocated block that no other inode holds.
InodesOK ==
    /\ inode_freemap \subseteq PartitionBlocks
    /\ \A n \in Slots \ inode_freemap : inodetable[n] = UNUSED_SPACE
    /\ \A n \in Slots \ {0} :
          inodetable[n] \in {UNUSED_SPACE, 0} \cup (block_freemap \ Preallocated)
    /\ \A n, k \in Slots \ {0} :
          n # k /\ inodetable[n] = inodetable[k] => inodetable[n] \in {UNUSED_SPACE, 0}

\* What create_file() knows of the inode and the block it has allocated.
CurrentOK ==
    /\ pc \in {"write directory", "allocate block", "write inode"} =>
          /\ current_inode \in inode_freemap \ {0}
          /\ inodetable[current_inode] = UNUSED_SPACE
    /\ At("write directory") => \A i \in 1 .. Len(root_dir) : root_dir[i] # current_inode
    /\ pc \in {"allocate inode", "write directory", "allocate block"} => current_block = 0
    /\ At("write inode") /\ current_block # 0 =>
          /\ current_block \in block_freemap \ Preallocated
          /\ \A n \in Slots : inodetable[n] # current_block

\* Without a kill no allocated block or inode is left behind: only create_file() has
\* one that it has yet to write down.
TidyOK ==
    /\ \A n \in inode_freemap :
          \/ inodetable[n] # UNUSED_SPACE
          \/ /\ n = current_inode
             /\ pc \in {"write directory", "allocate block", "write inode"}
    /\ \A b \in block_freemap \ Preallocated :
          \/ \E n \in inode_freemap : inodetable[n] = b
          \/ At("write inode") /\ b = current_block

\* The type, the stage of the operation, and the partition behind a super block.
ToolInv == /\ ToolTypeOK /\ StageOK /\ RoomOK /\ CurrentOK
           /\ SuperComesLast /\ EntriesOwnInodes
           /\ super => InodesOK /\ EntriesFit
           /\ super /\ kills = 0 => TidyOK
-----------------------------------------------------------------------------
\* "In what follows we assume that block numbers and indirection pointers are
\* explicity zeroed when they are not used." (verify.c:126): an inode that is
\* marked as allocated holds a block number or zero.
AllocatedIsWritten ==
    At("menu") /\ super => \A n \in Allocated : inodetable[n] # UNUSED_SPACE
=============================================================================
