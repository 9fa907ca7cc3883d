-------------------------- MODULE FileSystemStore ---------------------------
(***************************************************************************)
(* FileSystem implements FileStore.  A file is what a walk along its chain *)
(* finds on the device, less the bytes of a write() that has not returned; *)
(* a read() happens when its last byte has been moved.                     *)
(***************************************************************************)
EXTENDS FileSystem

\* A file that does not exist is no sequence of bytes, and callers' counts have a
\* largest (they are ints).
ASSUME StoreAssumption ==
    /\ NoName \notin Seq(Byte)
    /\ \E c \in Count : \A d \in Count : d <= c

\* The tables that count: in memory, or on the disk while no object exists.
TheFAT  == IF up THEN FAT ELSE disk_FAT
TheRoot == IF up THEN root_directory ELSE disk_root

Pending(i) == IF call.op = "write" /\ H.directory_index = i THEN Len(call.buffer) ELSE 0

\* The block at distance k on a chain, and the first n bytes of the chain.
BlockOf(f, start, k) == CHOOSE b \in Chain(f, start) : Distance(f, start, b) = k
BytesOf(f, start, data, n) ==
    [k \in 1 .. n |->
        data[BlockOf(f, start, (k - 1) \div BLOCK_SIZE)][(k - 1) % BLOCK_SIZE]]

FileBytes(i) == BytesOf(TheFAT, TheRoot[i].starting_block, disk_data,
                        TheRoot[i].size - Pending(i))

StoredFiles == [n \in Name |->
    IF \E i \in Files(TheRoot) : TheRoot[i].name = n
    THEN FileBytes(CHOOSE i \in Files(TheRoot) : TheRoot[i].name = n)
    ELSE NoName]

\* A call under way has not moved its handle yet.
Moved(h) == IF call.handle = h /\ (call.op = "write" \/ MoreBytes)
            THEN Len(call.buffer) ELSE 0
HandleSeen(h) ==
    LET hd == handle_table[h] IN
    [in_use |-> hd.in_use, mode |-> hd.mode,
     name |-> IF hd.in_use THEN root_directory[hd.directory_index].name ELSE NoName,
     offset |-> hd.offset - Moved(h)]
StoredHandles == [h \in Handles |-> HandleSeen(h)]

LongestCount == CHOOSE c \in Count : \A d \in Count : d <= c

Reply == IF call.op = "read" /\ ~MoreBytes THEN call.buffer ELSE << >>

Store == INSTANCE FileStore WITH
    MaxCount <- LongestCount, Absent <- NoName,
    files <- StoredFiles, handles <- StoredHandles, reply <- Reply

\* Each read() returns the bytes the write()s before it appended, from where its
\* handle stood, a write() changes no other file, and the files survive the
\* destructor and the next constructor.
ImplementsFileStore == Store!StoreSpec
=============================================================================
