# A verification of genericfs

The repository holds two teaching file systems. `FAT/` simulates a FAT-style file
system over a host file and has a small command shell. `disktool/` and `driver/`
share a Unix-like on-disk format, GenericFS: a curses tool creates and inspects
partitions, and a Linux kernel module mounts them read-only. This directory models
them in TLA+, checks the models with TLC and proves the main results with TLAPS.

## Inventory

| Part | State | Operations | Hard behaviour |
|---|---|---|---|
| `FAT/BlockDevice` | blocks in a host file | `read`, `write`, constructor | blocks that are not there; what a dying process has written |
| `FAT/FileSystem` | `FAT`, `root_directory`, `handle_table`, `scan_index`, `formatted_flag`, all cached | `format`, `open`, `close`, `read`, `write`, `truncate`, `remove`, `open_dir`, `next_dir`, `check`, `free_space`, destructor's `flush` | several open handles on one file; block boundaries; a full disk; write-back in the destructor only; exceptions half way |
| `FAT/shell` | the command loop, two handles per copy | `format`, `vcopy`, `vcopyin`, `vcopyout`, `vdel`, `vdir`, `exit` | `check()` after each command; a copy that fails in the middle; a copy onto itself; an unformatted disk |
| `FAT/str` (`spica::String`) | reference-counted buffers, one lock for all strings | construction, copying, assignment, `append`, destruction; functions that return a new string, a position or a count | sharing between threads; allocations that fail under the lock; offsets and counts at the ends of a string |
| `disktool` | super block, two free maps, inode table, directory block | `initialize`, `create_file`, `verify_file_system`, allocation, displays | order of the writes; full maps; bits beyond the last block |
| `driver` | super block buffer, inode cache, directory position | load, mount, `gfs_iget`, `gfs_readdir`, `gfs_statfs`, unmount | failures half way through a mount; a partition the tool did not finish |
| `tools/list.c`, `doc/` | none | | |

How they interact: the shell calls `FileSystem`, which calls `BlockDevice`; the shell
uses `spica::String` for its command line. `disktool` and `driver` never run on one
partition at once; what one leaves on it the other finds. Nothing in the user-mode
programs is concurrent; only the string class has a build for several threads. What makes
the rest hard is sequences: of calls through several handles, of bytes within a call, of
processes over one backing file.

What makes each part correct:

* `FileSystem`: FAT and directory agree (every chain ends, none share a block, no
  block is lost, the fixed blocks are reserved); handles stand where their offsets
  say; `write` never runs out of a block it counted on; what is read is what was
  written; the next process finds what the last one left, and `check()` accepts it.
* `shell`: `check()` is silent after every command; a copy without an error message
  is complete; commands end.
* `String`: sharing is invisible, nothing is freed twice or never; each function
  returns what its comment says.
* `disktool`: a partition is consistent after each operation, and a tool killed in
  the middle leaves something the verifier can tell.
* `driver`: a failed mount gives back what it took and says so; a listing has each
  entry once.

## Modules

| Module | What it is |
|---|---|
| `FileSystem` | `BlockDevice` and `FileSystem`: the core, every other FAT module extends it |
| `MCFileSystem` | bounds and symmetry for TLC |
| `FileSystem_proofs` | theorems about `FileSystem`: chains, consistency, writers |
| `FileSystemCounts_proofs` | theorems about what counts blocks, and what follows for `write` and `check` |
| `FileSystemExtensions_proofs` | theorems about `DirectoryScan`, `FileSystemCrash` and `LooseSpec` |
| `FileSystemCrash` | `FileSystem` in a process that may be killed between any two device transfers |
| `FileStore`, `FileSystemStore` | what the header promises, and the mapping under which `FileSystem` implements it |
| `FileSystemStore_proofs` | the theorem that it does |
| `MCStore` | `FileSystemStore` with the bounds of `MCFileSystem` |
| `DirectoryScan` | `open_dir` and `next_dir` between other calls |
| `Shell` | the command loop over `FileSystem` |
| `Shell_proofs` | theorems about `Shell` |
| `GenericFS` | the layout `compute_sizes()` gives a partition |
| `DiskTool` | `initialize` and `create_file` write by write, kills, the verifier's report |
| `Driver` | the kernel module over the partitions `DiskTool` leaves |
| `Driver_proofs` | theorems about `DiskTool` and `Driver` |
| `StringValues` | what `spica::String` promises: strings with values of their own |
| `StringRep` | shared nodes, reference counts, the lock, allocations that fail; implements `StringValues` |
| `StringRep_proofs` | theorems about `StringRep`, the refinement included |
| `StringFunctions` | the functions that compute a string or a position, with what they allocate |
| `StringLaws` | a string that grows, and the laws those functions obey on it |
| `StringLaws_proofs` | theorems about `StringLaws` |

### FileSystem

The variables `FAT`, `root_directory`, `handle_table` and `formatted_flag` are the
members of the object, `up` says whether there is one, `call` holds the local
variables of the `read`, `write` or `flush` under way, and `disk_boot`, `disk_FAT`,
`disk_root` and `disk_data` are the device. The boot block is abstracted to whether
it is valid: its status byte and checksum are right exactly when `format()` has
written it. A name is an element of `Name`; names of 24 bytes and more, which
`strcpy` would write past the entry, are left out.

One action stands for one call, except where somebody could look in between:

* `read` and `write` take one step per byte (`ReadByte`, `ReadLastByte`, `PutByte`,
  `PutLastByte`), with the block transfers where the code has them: `read` fetches the
  next block as soon as it has used up one, `write` writes a full block back and chains
  a free block on at once, and writes the last one when it returns.
* the destructor takes two steps, `FlushFAT` and `FlushRoot`.

Loops that only search are what they find: the first free entry, handle or block
(`FirstFreeEntry`, `FirstFreeHandle`, `FirstFreeBlock`). Loops that follow a chain are
the set of blocks they meet, `Chain`, the least set closed under the FAT; there is no
recursive definition, so that the module can be proved about. A call that throws before
it has changed anything is a stuttering step; those that throw later are the actions
`ReadThrows`, `WriteThrows` and `NoFreeBlock`.

`Spec` is a caller who keeps to the header's comments and has one writer per file;
`LooseSpec` drops the second condition, which no comment asks for.

### The others

`FileSystemCrash` adds `Crash` to every state with an object, and two history
variables: whether FAT and directory on the disk belong together, and whether an
object was constructed when they did not. `FileStore` knows names, byte sequences and
handles only; `FileSystemStore` computes them from the blocks. `DirectoryScan` counts
what the scan reports and remembers the names that have stayed. `Shell` gives every
`FileSystem` call its place in a command (`pc`) and keeps the command's local
variables in `cmd`; `Unwind` is the destructor, on the normal way out and on an
exception's.

### DiskTool and Driver

`GenericFS` computes the layout from the partition's size: super block, inode map,
block map, inode table, the root directory's block. Maps and table are whole blocks and
go on past the last block and the last inode (`MapBits`, `Slots`), as on the disk.

`DiskTool` holds the partition as the code's own structures: whether block 0 has the
magic number (`super`), the bits that are set in the two maps, `blocks[0]` of each inode
and of the directory's entries the inodes (`root_dir`) and where each one ends
(`entry_end`). An entry is packed: nine bytes and its name. `create_file()` writes no other block number
than `blocks[0]`, so that indirect blocks never come up. `pc` names the write the tool is
about to make; `Kill` ends it before any of them, and `kills` counts since the last
`write_super()`. `initialize()` first erases the super block, and nothing reads the
partition until it is back. `verify_file_system()` only reads: `counter`,
`UsedMultipleTimes`, `AllocatedButNotUsed` and `UnallocatedButInUse` are its counters and
its three reports.

`HasRoom` is an assumption about the user, of what `create_file` does not ask for: an
initialized partition, an inode inside the partition, a bit of the block free map, and space
for the entry in the directory's block, of a name of 1 to 127 characters (`char name[128]`).
The comments at `util.c:89` and `:110` leave the other cases to be done: without an inode or
a bit the scan goes on behind the table or the map and ends with bit -1. The bit may be one
behind the partition's last block: `scan_freemap()` does not know where that is, and the
model lets `create_file` put its data there.

`Driver` adds the kernel's side. `gfs_fill_super()` takes one step per thing that can
fail, and each failure has its action: `set_blocksize_fails`, `no_memory`,
`unreadable_super`, `no_magic`, `no_root_inode`, `no_root_dentry`. `module_refs`,
`super_sup`, `pinned` and `s_root` are what it holds. `mount_bdev` is external: it believes
a result of zero and follows the root directory's pointer, which is the end of the
machine (`oops`, then `Reboot`) if there is none. `gfs_readdir` emits one entry a call and
leaves the position at the next one (`gfs_emit_entry`), or emits nothing because its position
is out of bounds or its page cannot be read; `stopped` says which. The bounds at `dir.c:114`
and `:127-130` are the same for a directory of one page (`LastPosition`): they count a
`struct gfs_direntry`, padded to 12 bytes, and a character. `gfs_statfs` reads any number of
the maps' blocks and stops where one cannot be read; its result is unsigned, modulo `UINT_VALUES`.

### The string modules

`StringRep` holds the class's own structures: `rep` of each place for a `String`, the
`string_node`s on the heap with `count` and `workspace`, and `string_lock`, the lock that
the build with `pMULTITHREADED` takes (its header `sem.hpp` is not in the repository; it is
used as a mutual exclusion that its grabber's destructor ends). With one thread this is the
default build. `call` holds the local variables of the operation each thread is in. An
operation that allocates nothing is one step: `copy_construct`, `assign`, `destroy`. One
that does takes a step per allocation, and may fail at each (`OutOfMemory`,
`ResultOutOfMemory`): `NewNode` and `NewWorkspace` for `new_node`, `FillNode` and `Replace`
for the exchange, `ConstructResult` and one of the three `Return` actions for a function's
`result`. Where the code takes the lock matters: `append` and the functions hold it from
their first statement, the constructors do not need it, the assignment of a text and
`erase()` take it only for the exchange. A function called under the lock takes it again in
`result = *this` (`ReturnShared`), which the one thread that holds it may do.

Data are short: literals have at most one character, `MaxLength` bounds what can be
allocated, and a function computes the text without its first character or the text twice
(`substr(2)`, `copy(2)`), which stand for all that shorten or lengthen. `operator+` and
`operator>>` are sequences of the modelled operations on a string of their own. The nodes are
interchangeable, so `new` returns any free one.

`StringFunctions` takes the functions the other way round: the texts are values, and each
function returns a record of the new text and the number of characters allocated for it.
`At` reads a character as the code does: the NUL at the end, `Outside` behind it. Offsets and
counts are ints of a small width (`Wrap`), so that `INT_MAX`, the default of most counts,
overflows where the code's addition does.

## Runs

The block size is 2, so that every block has a byte that fills it and one that does
not; counts 1 and 3 stop inside a block, cross one boundary and, from an odd offset,
two. A FAT of 6 has three data blocks, one of 5 has two: enough for a file of several
blocks next to another file, for a disk that is full, and for a free block between used
ones. Two names, two directory entries and two handles let any two of them meet.

| Run | Bounds | Shows |
|---|---|---|
| `handles` | FAT 6, 2 handles, any number of formats and mounts (`Remounts`), names symmetric | `FullInv`, `CheckSilent`, `FATConsistent`, `SizeMatchesChain`, `NamesUnique`, `WritersAtEnd`, `ReadersInPlace`, `BlockExpected` between any two bytes |
| `misuse` | `LooseSpec`, FAT 6 on a device of 5 blocks, file sizes up to `MaxSize` | `NoFileHarmsAnother`, with every exception fired |
| `crash` | FAT 5, 1 handle | `RestartIsChecked`, `StaysConsistent` |
| `store` | FAT 5, 2 handles, two byte values, names symmetric | `ImplementsFileStore` (refinement) |
| `scan` | FAT 6, 2 names, 1 handle | `ScanReportsEachOnce`, `ScanEndsComplete` |
| `shell` | FAT 6, chunk 3, host files of 1 and 4 bytes | `CheckAccepts`, `CopyIsComplete`, `ProblemMeansFull`, `NextRunIsChecked`, `OthersUntouched`, and under fairness `CommandTerminates` |
| `partition` | 10 blocks, maps of 2 blocks, a table of 2, up to 3 files with names of 1 and 11 characters in a directory of 51 bytes, 2 kills between initializations, 2 slab caches left by loads that fail | `VerifySilent`, `NoBlockTwice`, `EntriesOwnInodes`, `OneBlockPerKill` and `ToolInv` of the tool; `MountHoldsItsOwn`, `MountedIsInitialized`, `ListingComplete`, `StatfsCountsFree` and `DriverInv` |
| `strings` | 3 strings, 3 nodes, 2 threads, texts of at most 2 characters | `CountsOwners`, `IInv`, `ImplementsStringValues` (refinement), and under fairness `LockComesBack` |
| `string_laws` | texts of at most 5 characters over two letters and a blank, `INT_MAX` 15 | `BuffersFit`, `PaddingExact`, `EraseUndoesInsert`, `SearchesAgree`, `StripIsComplete`, `WordsAreRuns` |
| `torn`, `killed_tool`, `mount_fails` | as above | the disagreements below |

The chunk of the shell (1000 bytes over blocks of 1024) is, as in the code, of an odd
size that falls on every offset in a block. `Remounts` lets the first mount fill the disk
and the later ones all but its last block, which keeps `handles` small; in `crash`, `store` and `shell` every
mount may fill it. `Misuse` ends a behaviour when the disk has been flushed. Deadlock is
checked everywhere.

In `partition` a map block has 9 bits and a table block 7 inodes, so that both tables have
two blocks and go on past the partition: seven blocks of metadata, the root directory's block
and two more. Behind the 21 bytes of "." and ".." the directory has room for three files
with names of one character, or for two with one name of 11, in either order. A last entry
that begins at byte 41 is out of the bounds of `gfs_readdir`, one that begins at 31 and ends at
the same place is not. Three files with a block each take one block more than there is, so that
the allocator goes on behind the last block and `statfs` goes below zero; blocks lost to kills
take it there sooner. Two kills are one more than it takes for a file to be created behind what a
killed one has left.

Three strings and nodes let one string share, one be replaced and one be constructed at
once; a fourth owner of a node can only be an operation. With two threads each operation
meets every other at each of its allocations, and three nodes run out, so that failures are
real ones too. In `string_laws` a text of five holds two words and blanks in every place, every int
around its length is an argument, and so is every count for which the addition wraps. The
delimiters are the default and each of the eight sets of the three characters; the laws have a
membership test of their own (`Separates`). Texts inserted have up to two characters, copies
are up to three.

Fairness. `Shell` states `WF_shellVars(Runs)`: the program is one thread whose loops do
not wait for anything. What the user types is not in `Runs`, so nobody has to type.
`StringRep` states `WF_vars(Continue(t))` for each thread: a thread in an operation goes on
unless it waits for the lock. Nothing says that a waiting thread gets the lock, and no
property needs it.

### Disagreements found

* `torn`: the FAT's special values "are not being used for any valid data block"
  (`FileSystem.hpp:88-89`). After `format()` and a kill, the next process hands out
  block 0. `check()` accepts that disk.
* `killed_tool`: "we assume that block numbers [...] are explicity zeroed when they are not
  used" (`verify.c:126`). A tool killed between the inode's bit and the inode leaves one
  that holds erased bytes, which the verifier takes for block numbers.
* `mount_fails`: "and the mount fails" (`super.c:262`, `:329`). A mount that runs out of
  memory or finds no super block, no magic number or no root directory returns the zero
  that `set_blocksize()` has returned.

Met while modelling, without a run: "There must be one" (`FileSystem.cpp:268`), but two
handles writing to one file make the size larger than the chain, and there may be none
(`NoFreeBlock`, fired in `misuse`); `pos(char)` finds the NUL, as its comment at
`str.cpp:686` says, although the one above the function says that it cannot be located
(`str.cpp:669`); on a device smaller than the FAT, which the
constructor accepts, `write()` throws where `FileSystem.hpp:173-175` has it return zero
(the actions `ReadThrows` and `WriteThrows`, fired in `misuse`); a load whose registration
fails leaves its slab cache behind (`init_module(FALSE)`); `f_ffree` is filled with the
number of inodes in use (`super.c:251`); a page that cannot be read ends a listing
without an error (`dir.c:119`); `gfs_readdir` "does return the correct data eventually"
(`dir.c:89-90`), but not a last entry with a name of one to three characters that begins at byte
4084 to 4086 of the block: it fits, and lies behind the bound of `dir.c:114`
(`ListingComplete` says so, and the listing just ends); once a block behind the last one has
been handed out, the verifier counts it outside its array (which is why `VerifySilent` asks for
`block_freemap \subseteq PartitionBlocks`) and `f_bfree` is nearly 2^32 when the partition is
full; a free map that cannot be read makes `f_bfree` the whole partition (`super.c:191`);
the arguments of `kmalloc` are swapped (`super.c:285`): it is asked for `GFP_KERNEL` bytes, which
are enough, with the structure's size as the flags.

## Proofs

`FileSystem_proofs` proves, for all constants that satisfy `SizeAssumption` and
`DataAssumption`:

* `Invariance`: `Spec => []IInv`
* `TypeCorrect`, `FATStaysConsistent`, `DiskLeftConsistent`, `WritersStayAtEnd`: four of
  its conjuncts.

The assumptions are those of the code: a block has a byte, FAT and device have the
three fixed blocks and one more, a fresh device is filled with a byte value, and counts
are positive.

The argument. `FATConsistent` is not inductive: `PutLastByte` writes the FAT entry of
the handle's current block, which is harmless only if that block is the EOF block of the
handle's own file. So `IInv` adds `WritersAtEnd`, and, since a second writer would break
it, `OneWriter`; `HandlesOnFiles` and `CallOK`, because the call under way must have its
handle and the handle its file; and `FlagsOK` with `DiskConsistent`, because a
constructor takes what it loads for consistent. The lemmas about chains come first:
`Chain` is itself a closed set, a chain whose blocks keep their FAT entries stays what it
is, a block linked behind the end extends it by one block and leaves all others alone, a
chain removed leaves all others alone. From them `ExtendConsistent`,
`CreateConsistent`, `RemoveConsistent` and `TruncateConsistent` say what each kind of FAT
update does to `Consistent`, and each action has its lemma. `IInv` is a conjunct of
`FullInv`, which TLC checks (run `handles`).

`FileSystemCounts_proofs` goes on to what counts blocks. `NamesStayUnique` (`NamesUnique`)
needs nothing more. The rest assumes

    WholeDisk == DISK_BLOCKS >= FAT_SIZE

a device that holds every block of the FAT: the shell makes one of 512 blocks
(`shell.cpp:236`), and `FileSystem.hpp` fixes a FAT of 512 entries. On a smaller one
the theorems below are false: `misuse` fires the exceptions. Proved under it:

* `FullInvariance`: `Spec => []FullInv`
* `SizesStayMatched`, `ReadersStayInPlace`, `BlockIsThere`, `CheckStaysSilent`:
  `SizeMatchesChain`, `ReadersInPlace`, `BlockExpected`, `CheckSilent`.
* `NoCallThrows`: no step of `Spec` is `ReadThrows`, `WriteThrows` or `NoFreeBlock`.

The argument. `SizeMatchesChain` says that a chain has `size \div BLOCK_SIZE + 1` blocks;
a step of `write` keeps it because at the last byte of a block both sides grow
(`InPlaceExtended`: the chain gains the one block, and the distance of every other block from
its start stays). `ReadersInPlace` counts the blocks in front of a handle by two
cardinalities, so that no walk is needed. `BlockExpected` is not inductive by itself: that
a block is free when the loop needs one follows from `CallFits`, which carries the
arithmetic of `write()`'s first lines, free bytes plus slack minus one, through the loop.
It holds because each byte takes one off both sides, and each block taken removes
`BLOCK_SIZE` free bytes and gives as many of slack (`OneBlockTaken`). `DiskSizes` and
`DiskNames` say the same of the device, for the next constructor. The two
`WriteStart` and `ReadStart` lemmas hold for every count in `Nat`, which the shell needs.

`FileSystemExtensions_proofs`:

* `ScanStaysExact`, `ScanFinishesComplete`: `ScanReportsEachOnce` and `ScanEndsComplete`.
  `ScanInv` adds to `NamesUnique` that every file has a name (`AllNamed`), that the names in
  `stayed` are those of files in the directory, and that a scan needs an object; a
  file that is removed and created again in another entry has left `stayed`.
* `RestartStaysChecked`, `CrashStaysConsistent` (under `WholeDisk`): `RestartIsChecked`
  and `StaysConsistent`. `CrashInv` asks for `FullInv` of an object that is not `torn`, lets a
  torn one do nothing, and has the disk good whenever it is `intact`, not only when there is
  no object: no step but the two of `flush()` and `format()` touches what a constructor
  loads, whichever data blocks have since been overwritten.
* `FilesStayApart`: `LooseSpec => []NoFileHarmsAnother`, without `WholeDisk` and with any
  number of writers to one file. With a second writer a handle need not stand on the end of
  its file, nor on a block of it: `PutLastByte` links a new block on wherever the handle
  stands, which cuts off what came behind (`ChainCut`). So `LooseInv` replaces `WritersAtEnd`
  by `WritersApart`, that the block a handle writes to is not free and not of another file;
  what is cut off is lost but nobody else's, which is why `NoLostBlocks` is not among the
  conjuncts.

`FileSystemStore_proofs` proves, under `WholeDisk`:

* `FileStoreImplemented`: `Spec => ImplementsFileStore`, the whole refinement.

The argument. It rests on what it is to find a byte: on a chain that ends there is exactly one
block at each distance from the start (`ChainLinear`, `SomeBlockAt`), so that `FileBytes` is
a function of the FAT and the data blocks on the chain, and a step that leaves both alone
leaves the bytes alone (`BytesKept`); a block chained on behind the end does so too
(`HeldByExtended`). What a file holds between two bytes of a `write()` is not what callers
see, because its last block is in the call's buffer and its size has grown already.
So `StoreInv` adds to `FullInv` what the call owes: `WrittenSoFar`, that the file with the
buffer written back is the file callers see with the call's bytes behind it, and
`ReadSoFar`, that a `read()` has moved exactly the bytes in front of its handle's offset.
`OneByteMore` is the step that keeps the first, in a block and at its end alike; at a
`write()`'s end it says what is appended. `CallKept` bounds the call's count, and has the
directory of an unformatted disk empty, since the store starts empty. `OthersKept` and
`EntryChanges` carry it to the other handles and files. Then each action has its lemma:
`read()` is seen at its last byte (`TakesStep`) and `write()` at its return (`WriteEndStep`),
the three outcomes of `open()`, `close()`, `truncate()`, `remove()`, `format()` and the two
ends of a process map to the store's operations, and the other steps to a stutter. The
constants need one thing more, `StoreAssumption`: counts have a largest, as ints have.

`Shell_proofs` proves, under `WholeDisk` and for every chunk length:

* `ShellInvariance`: `ShellSpec => []ShellInv`
* `CheckAlwaysAccepts`, `NextRunStaysChecked`, `OthersStayUntouched`, `ProblemsMeanFull`,
  `CopiesAreComplete`: all safety properties of the run `shell`.

The argument. `ShellInv` is `FullInv` with what a command knows at each `pc`: which call is
under way (`PlaceOK`), which names it has (`CommandOK`), and which handles it holds, on
which file and how (`HandlesOK`). The shell goes beyond `Next` in one place: a file copied
onto itself is truncated while it is open. `Unread` says why that is harmless: the reader is
still at offset 0 on the first block, which `truncate()` keeps (`shell.cpp:110-112`). So
`StepUsed` shows that every step is one of `Used`, for which `UsedFullInv` keeps `FullInv`.
`OthersStayUntouched` reuses the chain lemmas for the files that are not the destination.
`SpaceOK` is what makes `ProblemMeansFull` inductive: a call that was cut short has exactly
the space it will fill, and when it has filled it no block is free, nor does a later step of
the copy free one. `Copied` compares the reader's offset with the size of the destination at
each `pc`, but for the bytes of the chunk in hand; with `SpaceOK` a write that is not short has moved the
whole chunk, and at the end of the source the two sizes are equal. `DestThere` covers the
copy of a file onto itself.

`Driver_proofs` proves of `DiskTool`, for all constants that satisfy `LayoutAssumption` and
`ToolAssumption` (the metadata and the root directory fit into the partition and into one
map block, a directory has room for "." and "..", erased bytes are no number the block free
map has a bit for) and without a bound on files or kills:

* `ToolInvariance`: `ToolSpec => []ToolInv`
* `ToolTypeCorrect`, `SuperIsLast`, `FilesOwnInodes`: three of its conjuncts.
* `BlocksUsedOnce`, `LittleIsLost`: `NoBlockTwice` and `OneBlockPerKill`, whatever kills
  there were.
* `VerifierIsSilent`: `VerifySilent`, if there was none.

The argument. Each of `SuperComesLast`, `EntriesOwnInodes` and `NoBlockTwice` needs to
know what the write before has done. `StageOK` says it for `initialize()`, which may run
over any partition; `CurrentOK` for `create_file()`: the inode and the block it has
allocated are marked and nobody else's. `InodesOK` is what keeps blocks apart: an inode
behind the root directory's holds erased bytes, zero, or a marked block outside the metadata that
no other inode holds, and an unmarked one holds erased bytes, so that allocating it
brings nothing back. `RoomOK` carries `HasRoom` to the steps that need it; `EntriesFit` says that
every entry lies inside the block with its header and a character before the next one. `TidyOK` is
the other direction, which only a tool never killed keeps: what is marked is written down
or about to be. `BlocksUsedOnce` and `VerifierIsSilent` then count: `Users(b)` has at most
one element, and none for a block of the metadata. `LittleIsLost` counts the marked blocks no
inode holds: one more while a block is in hand, and a kill turns that one into a lost one
(`LossBound`).

It builds on them and proves of `Driver`, with any number of slab caches and an unsigned int
that can hold the number of blocks (`DriverAssumption`) in addition:

* `DriverInvariance`: `DriverSpec => []DriverInv`
* `MountsHoldTheirOwn`, `OnlyInitializedIsMounted`, `ListingsComplete`, `StatfsCounts`.

The argument. `ToolInv` holds throughout, since the driver changes nothing on the
partition. `MountOK` says what a mount holds at each of its steps; at its end that depends
on what it returns and on whether there is a root directory, because failures return zero
as well. `SuperChecked` says that a mount which got past the magic number keeps it: the tool
is not running. With `SuperComesLast` that is an initialized partition. `BitsOK` is
what `statfs` needs, whose count takes whole map blocks: in a map that has been written the
bits that are set are the first ones, because the allocator takes the first that is free. So
either all of them are of the partition, and the difference is what is free, or every block of
the partition is taken and the difference is minus the number of those behind it
(`Complement`). `ListingOK` is `ListingComplete` with the condition under which the tool may
change the directory: that nobody is listing it. By `EntriesFit` only the last entry can begin
out of bounds (`InnerInBounds`), and a listing that has come to `i_size` has emitted that one too.

`StringRep_proofs` proves, for all constants that satisfy `StringAssumption`, that is for any
finite sets of strings and threads, any nodes and any bound on texts:

* `RepInvariant` and `IInvariant`: `Spec => []RepInv`, `Spec => []IInv`
* `CountsAlwaysMatch`, `StringsHaveTexts`: two conjuncts of it.
* `Implements`: `Spec => ImplementsStringValues`, the whole refinement.

The argument. `CountsOwners` counts strings and, for a node that is allocated and not yet in
place, the operation. It is not inductive: to drop a node one must know that the operation
owns one, and to install one that nobody else has it. `FrameOK` ties an operation's place in its
code to the lock, the string and the node it needs; `Apart` says that a new node has
one owner, and that a string under construction is touched by no other operation. `Filled`
is what the refinement needs and the lock gives: what `append` has copied is still what it would
copy. A library of lemmas says how `Owners` changes when a string moves from one node to
another, and how `Share` and `Drop` follow it. The refinement then goes action by action:
`copy_construct`, `assign`, `destroy`, `ConstructString`, `Replace` and the three returns of a
function map to the operation of `StringValues`; a failure and every other step to a stutter.

`StringLaws_proofs` proves, for all constants that satisfy `CharacterAssumption` and
`TextAssumption`, that is for any characters, any `INT_MAX`, any text shorter than that and any
set of delimiters:

* `PaddingStaysExact`, `StripStaysComplete`, `SearchesStayAgreed`, `EraseStillUndoesInsert`,
  `WordsStayRuns`, `BuffersAlwaysFit`: the six invariants of the run `string_laws`, at every
  text the string has.

The argument. The invariant is only that the text is one of characters and that its length is
an int; the laws hold of every such text (`PaddingIsExact`, `StrippingIsComplete`,
`SearchingAgrees`, `ErasingUndoesInserting`, `WordsBeingRuns`, `EveryBufferFits`). Each goes by
saying where the characters of a result are in the text.

* `strip()` and the searches stop at the least or the greatest place of a kind: `Least` and
  `Greatest` show that there is one, `FrontEnds` and `BackBegins`, `FirstAt` and `LastAt` say
  what it is, and `FrontIsOne` and `BackIsOne` that there is no other, from which it follows
  that the ends of a text may be stripped in either order. `WrapIsIdentity` is where the bound
  on the text is needed: no offset a search starts from overflows.
* `erase()` and `insert()` are `Cut` and `Splice`, of which `CutIs` and `SpliceIs` show that
  each undoes the other; what is left are the offsets off the ends and empty arguments
  (`EraseIs`, `InsertIs`, `SubstrIs`, with `OffsetFits`). The law that a copy more is an
  insertion speaks of those offsets that an int can hold. The lemmas are about every text
  inserted and every number of copies; the invariant names those TLC can go through.
* A word begins where a character that is no delimiter follows one that is or the front of the
  text. `RunsCounted` is a bijection between these places and the maximal runs, so that runs are
  numbered by how many have begun (`Nth`, `NthIsOne`), and `words()` counts them
  (`WordsAreCounted`). `NextRun` and `EndOfRun` say what the scans of `subword()` find, in
  particular that those that do not look for the NUL are stopped by another word or by white
  space inside the text; `StartIs` and `EndIs` follow the two loops, and `SubwordIs` puts them
  together.
  A delimiter (`Separates`) is what `is_white` says it is because a text has no NUL
  (`SeparatorsAreWhite`).
* `BuffersFit` then needs what each function has allocated, and that the pieces it takes lie
  inside the text (`RightFits` to `SubwordFits`).

`copy`, `words` and `subword` go through the text in loops, and are recursive functions here.
That such a function exists (`RecursiveFunction`) and what its values are go by induction over
the natural numbers. The library's induction theorems take an operator as a parameter, which
the provers cannot instantiate; `Induction` says the same of a set, and follows from the least
counterexample (`LeastNat`).

Only model-checked: liveness under fairness (`CommandTerminates`, `LockComesBack`), which is
out of the prover's reach, as is `ENABLED`. Every other property of the passing runs is the
statement of a theorem.

## Not modelled

* `create_dir` returns at its first statement; the code behind it is dead.
* The displays of `disktool` and `tools/list.c` only print.
* In `create_file`, a partition without a super block, without an inode or at the end of its
  block free map, a full directory, and names that are empty or longer than their buffer (see
  `HasRoom`); partitions whose sizes
  overflow the 32 bits of `compute_sizes()`, and those whose metadata does not fit into one
  map block, which `write_freemaps()` refuses.
* The verifier's walk through indirect blocks, which no operation creates.
* In the driver: `gfs_lookup` (returns at once), the pages of files other than the
  root directory, the inode cache of the kernel, and `gfs_inodefreespace`, which counts the way
  `gfs_freespace` does over the inode map.
* Operations on an open file that the header calls undefined (`truncate`, `remove`),
  except the shell's copy of a file onto itself.
* What a file command does in memory on an unformatted disk: the code searches tables
  nobody has initialized. The model lets it return or hang and leaves the disk alone,
  since the destructor of an unformatted file system writes nothing.
* In `spica::String`: comparison, `length()` and the inserter, which only read; offsets
  of `INT_MIN` and lengths of `INT_MAX`, whose arithmetic is undefined; a NUL inside a text.
* Errors of the host's file: `BlockDevice` does not look at the state of its stream.

## Plan

1. `FileSystem`, its proofs, crashes, store, scan and shell (done).
2. `DiskTool` and its proofs, `Driver` (done).
3. `StringRep` with its proofs, `StringFunctions` and `StringLaws`; the proofs about `Driver`
   (done).
4. The verifier over partitions with indirect blocks, as a function of the partition,
   against a definition of a consistent partition.
5. Proofs about what counts blocks, scans, crashes, misuse and the shell (done).
6. Proof of the refinement of `FileStore` (done).
7. Proofs of the string laws (done).
