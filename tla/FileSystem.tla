----------------------------- MODULE FileSystem -----------------------------
(***************************************************************************)
(* The FAT-style file system of FAT/FileSystem.{hpp,cpp} over the block    *)
(* device of FAT/BlockDevice.cpp.                                          *)
(*                                                                         *)
(* The FAT and the root directory are cached in memory and reach the disk  *)
(* only when the FileSystem object is destroyed; data blocks are written   *)
(* through.  read() and write() are modelled byte by byte, every device    *)
(* transfer of theirs in its place, so that what holds between two bytes   *)
(* of a call can be stated.  Calls that throw before changing anything     *)
(* are stuttering steps and have no action.                                *)
(***************************************************************************)
EXTENDS Integers, FiniteSets, Sequences

CONSTANTS
    BLOCK_SIZE,        \* bytes of a block (1024 in FileSystem.hpp)
    FAT_SIZE,          \* entries of FAT (512)
    DISK_BLOCKS,       \* blk_count() of the device (512 in shell.cpp)
    DIR_SIZE,          \* entries of root_directory (32)
    HANDLETABLE_SIZE,  \* entries of handle_table (16)
    Name, NoName,      \* file names, and the name of an unused entry
    Byte, ZeroByte,    \* byte values, and the one a fresh device is filled with
    Count              \* the sizes callers pass to read() and write()

ASSUME SizeAssumption ==
    /\ BLOCK_SIZE \in Nat \ {0}
    /\ FAT_SIZE \in Nat /\ FAT_SIZE >= 4
    /\ DISK_BLOCKS \in Nat /\ DISK_BLOCKS >= 4
    /\ DIR_SIZE \in Nat
    /\ HANDLETABLE_SIZE \in Nat
ASSUME DataAssumption ==
    /\ NoName \notin Name
    /\ ZeroByte \in Byte
    /\ Count \subseteq Nat \ {0}

VARIABLES
    up,              \* the FileSystem object exists
    formatted_flag, FAT, root_directory, handle_table,    \* its members
    call,            \* the read(), write() or flush() under way
    disk_boot,      \* block 0 of the device holds a valid boot block
    disk_FAT,       \* block 1 of the device
    disk_root,      \* block 2 of the device
    disk_data       \* the other blocks of the device

disk == <<disk_boot, disk_FAT, disk_root, disk_data>>
memory == <<up, formatted_flag, FAT, root_directory, handle_table, call>>
vars == <<memory, disk>>
-----------------------------------------------------------------------------
(***************************************************************************)
(* Block numbers, FAT entries and the records of the two tables.           *)
(***************************************************************************)
BOOT_BLOCK == 0
FAT_BLOCK  == 1
ROOT_BLOCK == 2
FREE_FAT_ENTRY     == 0
RESERVED_FAT_ENTRY == 1
EOF_FAT_ENTRY      == 2

Blocks     == 0 .. FAT_SIZE - 1
Reserved   == {BOOT_BLOCK, FAT_BLOCK, ROOT_BLOCK}
DataBlocks == 3 .. FAT_SIZE - 1
DiskBlocks == 3 .. DISK_BLOCKS - 1
DirIndexes == 0 .. DIR_SIZE - 1
Handles    == 0 .. HANDLETABLE_SIZE - 1
Contents   == [0 .. BLOCK_SIZE - 1 -> Byte]

\* BlockDevice::read and write throw for a block that is not on the disk.
OnDisk(b) == b < DISK_BLOCKS

Entry == [in_use : BOOLEAN, name : Name \cup {NoName},
          size : Nat, starting_block : Blocks]
Handle == [in_use : BOOLEAN, mode : {"READ", "WRITE"}, offset : Nat,
           directory_index : DirIndexes \cup {-1}, current_block : Blocks]
Call == [op : {"idle", "read", "write", "flush"}, handle : Handles \cup {-1},
         count : Nat, block_offset : 0 .. BLOCK_SIZE - 1,
         block_buffer : Contents, buffer : Seq(Byte)]

\* Entries that are not in use keep no field the code reads again.
UnusedEntry == [in_use |-> FALSE, name |-> NoName, size |-> 0,
                starting_block |-> FREE_FAT_ENTRY]
ClosedHandle == [in_use |-> FALSE, mode |-> "READ", offset |-> 0,
                 directory_index |-> -1, current_block |-> FREE_FAT_ENTRY]
ZeroBlock == [k \in 0 .. BLOCK_SIZE - 1 |-> ZeroByte]
Idle == [op |-> "idle", handle |-> -1, count |-> 0, block_offset |-> 0,
         block_buffer |-> ZeroBlock, buffer |-> << >>]

AllFree      == [b \in Blocks |-> FREE_FAT_ENTRY]
\* Variant: format() forgets to reserve the root directory's block.
FormattedFATTwoReserved ==
    [b \in Blocks |-> IF b \in {BOOT_BLOCK, FAT_BLOCK} THEN RESERVED_FAT_ENTRY
                                                       ELSE FREE_FAT_ENTRY]
FormattedFAT == [b \in Blocks |-> IF b \in Reserved THEN RESERVED_FAT_ENTRY
                                                    ELSE FREE_FAT_ENTRY]
EmptyRoot  == [i \in DirIndexes |-> UnusedEntry]
AllClosed  == [h \in Handles |-> ClosedHandle]
-----------------------------------------------------------------------------
(***************************************************************************)
(* Chains.  The blocks a walk from block s meets in FAT f, up to the EOF   *)
(* entry, are the least set of data blocks that holds s and the successor  *)
(* of each of its blocks.                                                  *)
(***************************************************************************)
Closed(f) == {S \in SUBSET DataBlocks :
                 \A b \in S : f[b] \in S \cup {EOF_FAT_ENTRY}}

Chain(f, s) == {b \in DataBlocks : \A S \in Closed(f) : s \in S => b \in S}

\* The walk stays on data blocks and arrives at one EOF entry.
Ends(f, s) == /\ \E S \in Closed(f) : s \in S
              /\ \E e \in Chain(f, s) : f[e] = EOF_FAT_ENTRY
              /\ \A d, e \in Chain(f, s) :
                    f[d] = EOF_FAT_ENTRY /\ f[e] = EOF_FAT_ENTRY => d = e

\* The number of blocks a walk from s passes before it arrives at b.
Distance(f, s, b) == Cardinality(Chain(f, s)) - Cardinality(Chain(f, b))

\* Variant: the blocks of a removed file stay allocated.
FreedNothing(f, B) == f
Freed(f, B) == [b \in Blocks |-> IF b \in B THEN FREE_FAT_ENTRY ELSE f[b]]

Files(r) == {i \in DirIndexes : r[i].in_use}

(***************************************************************************)
(* The results of the linear searches: the lowest index that fits.         *)
(***************************************************************************)
\* Variant: takes the first block that is not reserved, used or not.
FirstUnreservedBlock(f, j) == /\ f[j] # RESERVED_FAT_ENTRY
                              /\ \A k \in 0 .. j - 1 : f[k] = RESERVED_FAT_ENTRY
FirstFreeBlock(f, j) == /\ f[j] = FREE_FAT_ENTRY
                        /\ \A k \in 0 .. j - 1 : f[k] # FREE_FAT_ENTRY
FirstFreeEntry(i) == /\ ~root_directory[i].in_use
                     /\ \A k \in 0 .. i - 1 : root_directory[k].in_use
FirstFreeHandle(h) == /\ ~handle_table[h].in_use
                      /\ \A k \in 0 .. h - 1 : handle_table[k].in_use
Names(i, n) == root_directory[i].in_use /\ root_directory[i].name = n
Finds(i, n) == Names(i, n) /\ \A k \in 0 .. i - 1 : ~Names(k, n)
\* Variant: the search for a name does not look at the last entry.
MissingButLast(n) == \A i \in 0 .. DIR_SIZE - 2 : ~Names(i, n)
Missing(n)  == \A i \in DirIndexes : ~Names(i, n)

FreeBlocks(f) == {b \in Blocks : f[b] = FREE_FAT_ENTRY}
free_space == Cardinality(FreeBlocks(FAT)) * BLOCK_SIZE
-----------------------------------------------------------------------------
(***************************************************************************)
(* Construction, destruction and format.                                   *)
(***************************************************************************)
Construct ==
    /\ ~up
    /\ up' = TRUE
    /\ formatted_flag' = disk_boot
    /\ FAT' = IF disk_boot THEN disk_FAT ELSE FAT
    /\ root_directory' = IF disk_boot THEN disk_root ELSE root_directory
    /\ handle_table' = AllClosed
    /\ UNCHANGED <<call, disk>>

Ready == up /\ call.op = "idle"

\* The object is gone: its members hold nothing anybody reads again.
Discarded == /\ up' = FALSE
             /\ formatted_flag' = FALSE
             /\ FAT' = AllFree
             /\ root_directory' = EmptyRoot
             /\ handle_table' = AllClosed
             /\ call' = Idle

DestroyUnformatted ==
    /\ Ready
    /\ ~formatted_flag
    /\ Discarded
    /\ UNCHANGED disk

\* flush() writes the FAT ...
FlushFAT ==
    /\ Ready
    /\ formatted_flag
    /\ disk_FAT' = FAT
    /\ call' = [Idle EXCEPT !.op = "flush"]
    /\ UNCHANGED <<up, formatted_flag, FAT, root_directory, handle_table,
                   disk_boot, disk_root, disk_data>>

\* Variant: the FAT is saved and the root directory is not.
FlushRootSkipped == /\ up
                    /\ call.op = "flush"
                    /\ Discarded
                    /\ UNCHANGED <<disk_boot, disk_FAT, disk_root, disk_data>>

\* ... and then the root directory; the destructor returns.
FlushRoot ==
    /\ up
    /\ call.op = "flush"
    /\ disk_root' = root_directory
    /\ Discarded
    /\ UNCHANGED <<disk_boot, disk_FAT, disk_data>>

\* Variant: format() saves the new FAT at once, but not the new root directory.
FormatSavesFAT ==
    /\ Ready
    /\ disk_boot' = TRUE
    /\ FAT' = FormattedFAT /\ disk_FAT' = FAT'
    /\ root_directory' = EmptyRoot
    /\ formatted_flag' = TRUE
    /\ UNCHANGED <<up, handle_table, call, disk_root, disk_data>>

\* Only the boot block is written; the two tables are built in memory.
Format ==
    /\ Ready
    /\ disk_boot' = TRUE
    /\ FAT' = FormattedFAT
    /\ root_directory' = EmptyRoot
    /\ formatted_flag' = TRUE
    /\ UNCHANGED <<up, handle_table, call, disk_FAT, disk_root, disk_data>>
-----------------------------------------------------------------------------
(***************************************************************************)
(* open(), in its three successful outcomes, and close().                  *)
(***************************************************************************)
OpenRead(n) ==
    /\ Ready
    /\ \E h \in Handles, i \in DirIndexes :
          /\ FirstFreeHandle(h)
          /\ Finds(i, n)
          /\ handle_table' = [handle_table EXCEPT ![h] =
                [in_use |-> TRUE, mode |-> "READ", offset |-> 0,
                 directory_index |-> i,
                 current_block |-> root_directory[i].starting_block]]
    /\ UNCHANGED <<up, formatted_flag, FAT, root_directory, call, disk>>

\* Opening an existing file for writing appends: walk to the EOF block.
OpenWrite(n) ==
    /\ Ready
    /\ \E h \in Handles, i \in DirIndexes :
          /\ FirstFreeHandle(h)
          /\ Finds(i, n)
          /\ \E last \in Chain(FAT, root_directory[i].starting_block) :
                /\ FAT[last] = EOF_FAT_ENTRY
                /\ handle_table' = [handle_table EXCEPT ![h] =
                      [in_use |-> TRUE, mode |-> "WRITE",
                       offset |-> root_directory[i].size,
                       directory_index |-> i, current_block |-> last]]
    /\ UNCHANGED <<up, formatted_flag, FAT, root_directory, call, disk>>

Create(n) ==
    /\ Ready
    /\ Missing(n)
    /\ \E h \in Handles, i \in DirIndexes, j \in Blocks :
          /\ FirstFreeHandle(h)
          /\ FirstFreeEntry(i)
          /\ FirstFreeBlock(FAT, j)
          /\ FAT' = [FAT EXCEPT ![j] = EOF_FAT_ENTRY]
          /\ root_directory' = [root_directory EXCEPT ![i] =
                [in_use |-> TRUE, name |-> n, size |-> 0, starting_block |-> j]]
          /\ handle_table' = [handle_table EXCEPT ![h] =
                [in_use |-> TRUE, mode |-> "WRITE", offset |-> 0,
                 directory_index |-> i, current_block |-> j]]
    /\ UNCHANGED <<up, formatted_flag, call, disk>>

Close(h) ==
    /\ Ready
    /\ formatted_flag
    /\ handle_table[h].in_use
    /\ handle_table' = [handle_table EXCEPT ![h] = ClosedHandle]
    /\ UNCHANGED <<up, formatted_flag, FAT, root_directory, call, disk>>
-----------------------------------------------------------------------------
(***************************************************************************)
(* truncate() and remove().                                                *)
(***************************************************************************)
Truncate(n) ==
    /\ Ready
    /\ \E i \in DirIndexes :
          LET start == root_directory[i].starting_block IN
          /\ Finds(i, n)
          /\ FAT' = [Freed(FAT, Chain(FAT, start)) EXCEPT ![start] = EOF_FAT_ENTRY]
          /\ root_directory' = [root_directory EXCEPT ![i].size = 0]
    /\ UNCHANGED <<up, formatted_flag, handle_table, call, disk>>

Remove(n) ==
    /\ Ready
    /\ \E i \in DirIndexes :
          /\ Finds(i, n)
          /\ FAT' = Freed(FAT, Chain(FAT, root_directory[i].starting_block))
          /\ root_directory' = [root_directory EXCEPT ![i] = UnusedEntry]
    /\ UNCHANGED <<up, formatted_flag, handle_table, call, disk>>
-----------------------------------------------------------------------------
(***************************************************************************)
(* read() and write().  H is the handle of the call under way.             *)
(***************************************************************************)
H == handle_table[call.handle]
\* Variant: a count is not cut to what there is.
SmallerUncut(a, b) == a
Smaller(a, b) == IF a < b THEN a ELSE b

\* The call's loop still has a byte to move; the byte is the block's last.
MoreBytes == Len(call.buffer) < call.count
\* Variant: the block is taken for full a byte too early.
LastOfBlockEarly == call.block_offset + 2 >= BLOCK_SIZE
LastOfBlock == call.block_offset = BLOCK_SIZE - 1

\* BlockDevice::read.  A walk that has run past its EOF entry reads the fixed
\* blocks (the entries 2 and 1 name them); what bytes those hold is left out.
\* Variant: the block a call starts in is not fetched.
BlockReadSkipped(b) == ZeroBlock
BlockRead(b) == IF b \in DiskBlocks THEN disk_data[b] ELSE ZeroBlock

Start(op, h, count) ==
    /\ OnDisk(handle_table[h].current_block)
    /\ count > 0
    /\ call' = [op |-> op, handle |-> h, count |-> count,
                block_offset |-> handle_table[h].offset % BLOCK_SIZE,
                block_buffer |-> BlockRead(handle_table[h].current_block),
                buffer |-> << >>]
    /\ UNCHANGED <<up, formatted_flag, FAT, root_directory, handle_table, disk>>

ReadStart(h, count) ==
    /\ Ready
    /\ handle_table[h].in_use
    /\ handle_table[h].mode = "READ"
    /\ LET file_size == root_directory[handle_table[h].directory_index].size IN
       Start("read", h, Smaller(count, file_size - handle_table[h].offset))

ReadByte ==
    /\ call.op = "read" /\ MoreBytes /\ ~LastOfBlock
    /\ handle_table' = [handle_table EXCEPT ![call.handle].offset = @ + 1]
    /\ call' = [call EXCEPT
          !.buffer = Append(@, call.block_buffer[call.block_offset]),
          !.block_offset = @ + 1]
    /\ UNCHANGED <<up, formatted_flag, FAT, root_directory, disk>>

\* The last byte of a block: fetch the next block, wanted or not.
ReadLastByte ==
    /\ call.op = "read" /\ MoreBytes /\ LastOfBlock
    /\ OnDisk(FAT[H.current_block])
    /\ handle_table' = [handle_table EXCEPT
          ![call.handle].offset = @ + 1,
          ![call.handle].current_block = FAT[H.current_block]]
    /\ call' = [call EXCEPT
          !.buffer = Append(@, call.block_buffer[call.block_offset]),
          !.block_buffer = BlockRead(FAT[H.current_block]),
          !.block_offset = 0]
    /\ UNCHANGED <<up, formatted_flag, FAT, root_directory, disk>>

ReadEnd ==
    /\ call.op = "read" /\ ~MoreBytes
    /\ call' = Idle
    /\ UNCHANGED <<up, formatted_flag, FAT, root_directory, handle_table, disk>>

\* Variants: the last free byte is counted in, though filling it needs a block; and
\* free blocks are taken for free bytes.
OpenSpaceAll(h) ==
    free_space + BLOCK_SIZE
       - (root_directory[handle_table[h].directory_index].size % BLOCK_SIZE)
OpenSpaceInBlocks(h) == free_space \div BLOCK_SIZE

\* What write() believes it can place without running out of blocks.
OpenSpace(h) ==
    LET file_size   == root_directory[handle_table[h].directory_index].size
        slack_space == BLOCK_SIZE - (file_size % BLOCK_SIZE)
    IN  free_space + slack_space - 1

WriteStart(h, count) ==
    /\ Ready
    /\ formatted_flag
    /\ handle_table[h].in_use
    /\ handle_table[h].mode = "WRITE"
    /\ Start("write", h, Smaller(count, OpenSpace(h)))

\* One byte goes to the block buffer; the offset and the file grow.
Filled(byte) == [call.block_buffer EXCEPT ![call.block_offset] = byte]
\* Variant: the directory entry is not updated.
GrownNot == root_directory
Grown == [root_directory EXCEPT ![H.directory_index].size = @ + 1]

PutByte(byte) ==
    /\ call.op = "write" /\ MoreBytes /\ ~LastOfBlock
    /\ handle_table' = [handle_table EXCEPT ![call.handle].offset = @ + 1]
    /\ root_directory' = Grown
    /\ call' = [call EXCEPT !.block_buffer = Filled(byte),
                            !.block_offset = @ + 1,
                            !.buffer = Append(@, byte)]
    /\ UNCHANGED <<up, formatted_flag, FAT, disk>>

\* The last byte of a block: write the block back and chain a free block on.
PutLastByte(byte) ==
    /\ call.op = "write" /\ MoreBytes /\ LastOfBlock
    /\ OnDisk(H.current_block)
    /\ disk_data' = [disk_data EXCEPT ![H.current_block] = Filled(byte)]
    /\ root_directory' = Grown
    /\ \E j \in Blocks :
          /\ FirstFreeBlock(FAT, j)
          /\ FAT' = [FAT EXCEPT ![H.current_block] = j, ![j] = EOF_FAT_ENTRY]
          /\ handle_table' = [handle_table EXCEPT ![call.handle].offset = @ + 1,
                                                  ![call.handle].current_block = j]
    /\ call' = [call EXCEPT !.block_buffer = Filled(byte),
                            !.block_offset = 0,
                            !.buffer = Append(@, byte)]
    /\ UNCHANGED <<up, formatted_flag, disk_boot, disk_FAT, disk_root>>

WriteEnd ==
    /\ call.op = "write" /\ ~MoreBytes
    /\ OnDisk(H.current_block)
    /\ disk_data' = [disk_data EXCEPT ![H.current_block] = call.block_buffer]
    /\ call' = Idle
    /\ UNCHANGED <<up, formatted_flag, FAT, root_directory, handle_table,
                   disk_boot, disk_FAT, disk_root>>

(***************************************************************************)
(* Exceptions thrown in the middle of a call.  They leave the object as it *)
(* is at that point: the moved byte has been counted.                      *)
(***************************************************************************)
ReadThrows ==
    /\ call.op = "read" /\ MoreBytes /\ LastOfBlock
    /\ ~OnDisk(FAT[H.current_block])
    /\ handle_table' = [handle_table EXCEPT
          ![call.handle].offset = @ + 1,
          ![call.handle].current_block = FAT[H.current_block]]
    /\ call' = Idle
    /\ UNCHANGED <<up, formatted_flag, FAT, root_directory, disk>>

\* The device has no such block, at the end of a block or of the call.
WriteThrows ==
    /\ call.op = "write"
    /\ ~OnDisk(H.current_block)
    /\ \/ /\ MoreBytes /\ LastOfBlock
          /\ handle_table' = [handle_table EXCEPT ![call.handle].offset = @ + 1]
          /\ root_directory' = Grown
       \/ ~MoreBytes /\ UNCHANGED <<handle_table, root_directory>>
    /\ call' = Idle
    /\ UNCHANGED <<up, formatted_flag, FAT, disk>>

\* "Can't locate a free block, but one expected".
NoFreeBlock(byte) ==
    /\ call.op = "write" /\ MoreBytes /\ LastOfBlock
    /\ OnDisk(H.current_block)
    /\ FreeBlocks(FAT) = {}
    /\ disk_data' = [disk_data EXCEPT ![H.current_block] = Filled(byte)]
    /\ handle_table' = [handle_table EXCEPT ![call.handle].offset = @ + 1]
    /\ root_directory' = Grown
    /\ call' = Idle
    /\ UNCHANGED <<up, formatted_flag, FAT, disk_boot, disk_FAT, disk_root>>
-----------------------------------------------------------------------------
(***************************************************************************)
(* The specification.  A fresh device is all zeros.  A caller uses the     *)
(* object as the header tells it to: it formats before it opens and not    *)
(* under open handles, and truncates and removes no open file.  The shell  *)
(* moreover never has two handles writing to one file; Next takes that     *)
(* for granted and LooseNext, since no comment asks for it, does not.      *)
(***************************************************************************)
Init ==
    /\ up = FALSE
    /\ formatted_flag = FALSE
    /\ FAT = AllFree
    /\ root_directory = EmptyRoot
    /\ handle_table = AllClosed
    /\ call = Idle
    /\ disk_boot = FALSE
    /\ disk_FAT = AllFree
    /\ disk_root = EmptyRoot
    /\ disk_data = [b \in DiskBlocks |-> ZeroBlock]

NoHandles == \A h \in Handles : ~handle_table[h].in_use
OpenOn(h, i) == handle_table[h].in_use /\ handle_table[h].directory_index = i
NotOpen(n) == \A h \in Handles, i \in DirIndexes : OpenOn(h, i) => ~Names(i, n)
NoWriter(n) == \A h \in Handles, i \in DirIndexes :
                  OpenOn(h, i) /\ handle_table[h].mode = "WRITE" => ~Names(i, n)

Loop == \/ ReadByte \/ ReadLastByte \/ ReadEnd \/ ReadThrows
        \/ \E byte \in Byte : PutByte(byte) \/ PutLastByte(byte) \/ NoFreeBlock(byte)
        \/ WriteEnd \/ WriteThrows
        \/ FlushRoot

Request ==
    \/ Construct
    \/ DestroyUnformatted
    \/ FlushFAT
    \/ NoHandles /\ Format
    \/ \E n \in Name :
          /\ formatted_flag
          /\ \/ OpenRead(n)
             \/ Create(n)
             \/ NotOpen(n) /\ (Truncate(n) \/ Remove(n))
    \/ \E h \in Handles :
          \/ Close(h)
          \/ \E count \in Count : ReadStart(h, count) \/ WriteStart(h, count)

Next      == Loop \/ Request \/ \E n \in Name : NoWriter(n) /\ OpenWrite(n)
LooseNext == Loop \/ Request \/ \E n \in Name : formatted_flag /\ OpenWrite(n)

Spec      == Init /\ [][Next]_vars
LooseSpec == Init /\ [][LooseNext]_vars
-----------------------------------------------------------------------------
(***************************************************************************)
(* Invariants.                                                             *)
(***************************************************************************)
TypeOK ==
    /\ up \in BOOLEAN /\ formatted_flag \in BOOLEAN /\ disk_boot \in BOOLEAN
    /\ FAT \in [Blocks -> Blocks] /\ disk_FAT \in [Blocks -> Blocks]
    /\ root_directory \in [DirIndexes -> Entry]
    /\ disk_root \in [DirIndexes -> Entry]
    /\ handle_table \in [Handles -> Handle]
    /\ call \in Call
    /\ disk_data \in [DiskBlocks -> Contents]

(***************************************************************************)
(* What makes a FAT f and a root directory r a file system: exactly the    *)
(* three fixed blocks are reserved, every file's chain ends, no two chains *)
(* share a block, and a block of no chain is free.                         *)
(***************************************************************************)
ReservedIntact(f) == \A b \in Blocks : f[b] = RESERVED_FAT_ENTRY <=> b \in Reserved
ChainsEnd(f, r)   == \A i \in Files(r) : Ends(f, r[i].starting_block)
NoCrossLink(f, r) ==
    \A i, k \in Files(r) :
       i # k => Chain(f, r[i].starting_block) \cap Chain(f, r[k].starting_block) = {}
NoLostBlocks(f, r) ==
    \A b \in DataBlocks : f[b] # FREE_FAT_ENTRY =>
       \E i \in Files(r) : b \in Chain(f, r[i].starting_block)

Consistent(f, r) == /\ ReservedIntact(f)
                    /\ ChainsEnd(f, r)
                    /\ NoCrossLink(f, r)
                    /\ NoLostBlocks(f, r)

\* The FAT and the root directory in memory are consistent, between two bytes
\* of a write() as well (write, open, truncate, remove, format).
FATConsistent == formatted_flag => Consistent(FAT, root_directory)

\* While no object exists, a formatted device holds a consistent pair: what the
\* next constructor loads is a file system (flush, ~FileSystem, FileSystem).
DiskConsistent == ~up /\ disk_boot => Consistent(disk_FAT, disk_root)

\* Every file has one block for each full block of its bytes and one more, which
\* is where the next byte goes; so at a block boundary that block is there and
\* empty.  It holds before every byte of a write().
SizesMatch(f, r) ==
    \A i \in Files(r) :
       r[i].size \div BLOCK_SIZE = Cardinality(Chain(f, r[i].starting_block)) - 1
SizeMatchesChain == SizesMatch(FAT, root_directory)

\* Two directory entries never carry one name, so that open(), truncate() and
\* remove(), which stop at the first, all mean the same file.
UniqueNames(r) == \A i, k \in Files(r) : r[i].name = r[k].name => i = k
NamesUnique == UniqueNames(root_directory)

\* An open handle refers to a file.  A writing handle stands on the last block of
\* its file and at its size, though the file has grown since open().
WritersAtEnd ==
    \A h \in Handles : handle_table[h].in_use /\ handle_table[h].mode = "WRITE" =>
       LET hd == handle_table[h]  i == hd.directory_index IN
       /\ i \in Files(root_directory)
       /\ hd.current_block \in Chain(FAT, root_directory[i].starting_block)
       /\ FAT[hd.current_block] = EOF_FAT_ENTRY
       /\ hd.offset = root_directory[i].size

\* A reading handle stands on the block of its file that its offset names, also
\* when its offset is the file's size and when the file is growing meanwhile.
ReadersInPlace ==
    \A h \in Handles : handle_table[h].in_use /\ handle_table[h].mode = "READ" =>
       LET hd == handle_table[h]  i == hd.directory_index IN
       /\ i \in Files(root_directory)
       /\ LET start == root_directory[i].starting_block IN
          /\ hd.current_block \in Chain(FAT, start)
          /\ Distance(FAT, start, hd.current_block) = hd.offset \div BLOCK_SIZE
          /\ hd.offset <= root_directory[i].size

\* "Find a free block. There must be one.": when a write() fills a block, the FAT
\* has a free one, because of how the call cut its count (FileSystem.cpp:245-274).
BlockExpected ==
    call.op = "write" /\ MoreBytes /\ LastOfBlock => FreeBlocks(FAT) # {}

\* check(), which the shell runs after every command and which throws for what it
\* finds: with no file open for writing it returns.
CheckReturns(f, r) ==
    /\ ChainsEnd(f, r) /\ SizesMatch(f, r)
    /\ \A i, k \in Files(r) : i # k =>
          Chain(f, r[i].starting_block) \cap Chain(f, r[k].starting_block) = {}
    /\ \A b \in Blocks : \/ f[b] \in {RESERVED_FAT_ENTRY, FREE_FAT_ENTRY}
                         \/ \E i \in Files(r) : b \in Chain(f, r[i].starting_block)

\* Between calls, on a formatted file system with no file open for writing, the
\* shell's check() does not throw, whatever calls went before.
CheckSilent ==
    /\ Ready
    /\ formatted_flag
    /\ \A h \in Handles : handle_table[h].in_use => handle_table[h].mode = "READ"
    => CheckReturns(FAT, root_directory)

\* An open handle is a handle on a file.
HandlesOnFiles ==
    \A h \in Handles : handle_table[h].in_use =>
       handle_table[h].directory_index \in Files(root_directory)

\* No two handles write to one file.
OneWriter ==
    \A g, h \in Handles :
       /\ handle_table[g].in_use /\ handle_table[g].mode = "WRITE"
       /\ handle_table[h].in_use /\ handle_table[h].mode = "WRITE"
       /\ handle_table[g].directory_index = handle_table[h].directory_index
       => g = h

\* A call under way has its handle; a flush() has already written the FAT.
CallOK ==
    /\ call.op # "idle" => up
    /\ call.op \in {"read", "write"} =>
          /\ call.handle \in Handles
          /\ H.in_use
          /\ call.op = "read" <=> H.mode = "READ"
    /\ call.op = "flush" => formatted_flag /\ disk_FAT = FAT

FlagsOK ==
    /\ up => formatted_flag = disk_boot
    /\ ~up => ~formatted_flag
    /\ ~formatted_flag => Files(root_directory) = {}

\* The inductive invariant behind FATConsistent, DiskConsistent and WritersAtEnd:
\* a write() extends the right chain because its handle, alone on its file, stands
\* on the file's EOF block whenever the call starts or goes on.
IInv == /\ TypeOK
        /\ FlagsOK
        /\ CallOK
        /\ HandlesOnFiles
        /\ OneWriter
        /\ WritersAtEnd
        /\ FATConsistent
        /\ DiskConsistent

\* A read() is not to pass the end of its file, nor a write() the space it has
\* found: what is left of the count still fits, and the call's place in its block is
\* where its handle's offset says.
CallFits ==
    /\ call.op \in {"read", "write"} => call.block_offset = H.offset % BLOCK_SIZE
    /\ call.op = "read" =>
          H.offset + (call.count - Len(call.buffer))
             <= root_directory[H.directory_index].size
    /\ call.op = "write" => call.count - Len(call.buffer) <= OpenSpace(call.handle)

\* What a constructor loads has one entry for each name, and the right sizes.
DiskNames == ~up /\ disk_boot => UniqueNames(disk_root)
DiskSizes == ~up /\ disk_boot => SizesMatch(disk_FAT, disk_root)

\* The inductive invariant behind the properties that count: on a device that holds
\* every block of the FAT, a byte of a write() takes a block when, and only when, the
\* file's size passes a multiple of the block size.
FullInv == /\ IInv
           /\ NamesUnique /\ DiskNames
           /\ SizeMatchesChain /\ DiskSizes
           /\ ReadersInPlace
           /\ CallFits

\* What is left when two handles write to one file or the device is smaller than
\* the FAT: blocks may be lost and sizes wrong, but no file reaches another's
\* blocks or the fixed ones, and every chain still ends.
NoFileHarmsAnother ==
    formatted_flag => /\ ReservedIntact(FAT)
                      /\ ChainsEnd(FAT, root_directory)
                      /\ NoCrossLink(FAT, root_directory)
=============================================================================
