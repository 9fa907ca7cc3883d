----------------------- MODULE FileSystemCounts_proofs -----------------------
(***************************************************************************)
(* Proofs about what FileSystem counts: the blocks of a file against its   *)
(* size, the place of a reading handle against its offset, the free blocks *)
(* against what a write() believes it can place, the names of the files.   *)
(*                                                                         *)
(* What counts blocks supposes a device that holds every block of the FAT, *)
(* as shell.cpp:236 makes it: on a smaller one a write() that fails has    *)
(* already counted its last byte.                                          *)
(***************************************************************************)
EXTENDS FileSystem_proofs

WholeDisk == DISK_BLOCKS >= FAT_SIZE

-----------------------------------------------------------------------------
(***************************************************************************)
(* Offsets within blocks.                                                  *)
(***************************************************************************)
LEMMA DivMod ==
    ASSUME NEW n \in Nat
    PROVE  /\ n \div BLOCK_SIZE \in Nat
           /\ n % BLOCK_SIZE \in 0 .. BLOCK_SIZE - 1
           /\ n = (n \div BLOCK_SIZE) * BLOCK_SIZE + (n % BLOCK_SIZE)
BY SizeAssumption

\* The last byte of a block moves an offset on to the next block.
LEMMA OneByteOn ==
    ASSUME NEW n \in Nat
    PROVE  /\ n % BLOCK_SIZE = BLOCK_SIZE - 1 =>
                 /\ (n + 1) % BLOCK_SIZE = 0
                 /\ (n + 1) \div BLOCK_SIZE = n \div BLOCK_SIZE + 1
           /\ n % BLOCK_SIZE # BLOCK_SIZE - 1 =>
                 /\ (n + 1) % BLOCK_SIZE = (n % BLOCK_SIZE) + 1
                 /\ (n + 1) \div BLOCK_SIZE = n \div BLOCK_SIZE
BY SizeAssumption

LEMMA DivMonotone ==
    ASSUME NEW n \in Nat, NEW m \in Nat, n <= m
    PROVE  n \div BLOCK_SIZE <= m \div BLOCK_SIZE
BY SizeAssumption

-----------------------------------------------------------------------------
(***************************************************************************)
(* How chains lie within chains.                                           *)
(***************************************************************************)
LEMMA ChainFinite ==
    \A f, s : IsFiniteSet(Chain(f, s)) /\ Cardinality(Chain(f, s)) \in Nat
<1> SUFFICES ASSUME NEW f, NEW s
             PROVE  IsFiniteSet(Chain(f, s)) /\ Cardinality(Chain(f, s)) \in Nat
  OBVIOUS
<1>1. IsFiniteSet(DataBlocks)
  BY FS_Interval, SizeAssumption DEF DataBlocks
<1>2. IsFiniteSet(Chain(f, s))
  BY <1>1, FS_Subset DEF Chain
<1> QED BY <1>2, FS_CardinalityType

\* The chain from a block is the block and the chain from the next.
LEMMA NextInChain ==
    ASSUME NEW f, NEW T \in Closed(f), NEW b \in T, f[b] # EOF_FAT_ENTRY
    PROVE  /\ f[b] \in T
           /\ Chain(f, b) = {b} \cup Chain(f, f[b])
<1>1. f[b] \in T /\ b \in DataBlocks /\ f[b] \in DataBlocks
  BY DEF Closed
<1>2. /\ Chain(f, b) \in Closed(f) /\ b \in Chain(f, b)
      /\ Chain(f, f[b]) \in Closed(f) /\ f[b] \in Chain(f, f[b])
  BY <1>1, ChainIsClosed
<1>3. {b} \cup Chain(f, f[b]) \in Closed(f)
  BY <1>1, <1>2 DEF Closed
<1>4. Chain(f, b) \subseteq {b} \cup Chain(f, f[b])
  BY <1>3, ChainIsClosed
<1>5. f[b] \in Chain(f, b)
  BY <1>2 DEF Closed
<1>6. Chain(f, f[b]) \subseteq Chain(f, b)
  BY <1>2, <1>5, ChainIsClosed
<1> QED BY <1>1, <1>2, <1>4, <1>6

LEMMA LastInChain ==
    ASSUME NEW f, NEW b \in DataBlocks, f[b] = EOF_FAT_ENTRY
    PROVE  Chain(f, b) = {b} /\ Cardinality(Chain(f, b)) = 1
BY ChainOfOne, FS_Singleton

\* A walk that starts within a chain ends at the same EOF entry.
LEMMA ChainWithin ==
    ASSUME NEW f, NEW s, Ends(f, s), NEW b \in Chain(f, s),
           NEW e \in Chain(f, s), f[e] = EOF_FAT_ENTRY
    PROVE  /\ Chain(f, b) \subseteq Chain(f, s)
           /\ e \in Chain(f, b)
           /\ Ends(f, b)
<1> DEFINE C == Chain(f, s)
           T == {x \in C : e \in Chain(f, x)}
<1>1. C \in Closed(f) /\ s \in C /\ C \subseteq DataBlocks
  BY ChainIsClosed DEF Ends, Closed
<1>2. ASSUME NEW x \in T, f[x] # EOF_FAT_ENTRY  PROVE f[x] \in T
  <2>1. f[x] \in C /\ Chain(f, x) = {x} \cup Chain(f, f[x])
    BY <1>1, <1>2, NextInChain
  <2> QED BY <1>2, <2>1
<1>3. T \in Closed(f)
  BY <1>1, <1>2 DEF Closed
<1>4. s \in T
  BY <1>1
<1>5. C \subseteq T
  BY <1>3, <1>4, ChainIsClosed
<1>6. Chain(f, b) \subseteq C /\ e \in Chain(f, b) /\ b \in C
  BY <1>1, <1>5, ChainIsClosed
<1>7. \A d, c \in C : f[d] = EOF_FAT_ENTRY /\ f[c] = EOF_FAT_ENTRY => d = c
  BY DEF Ends
<1>8. Ends(f, b)
  BY <1>1, <1>6, <1>7 DEF Ends
<1> QED BY <1>6, <1>8

\* A walk that ends does not come back.
LEMMA NoWayBack ==
    ASSUME NEW f, NEW b, Ends(f, b), f[b] # EOF_FAT_ENTRY
    PROVE  /\ b \notin Chain(f, f[b])
           /\ Chain(f, b) = {b} \cup Chain(f, f[b])
           /\ Cardinality(Chain(f, b)) = Cardinality(Chain(f, f[b])) + 1
<1> DEFINE D == Chain(f, f[b])
           T == {x \in D : b \in Chain(f, x)}
<1>1. /\ Chain(f, b) \in Closed(f) /\ b \in Chain(f, b)
      /\ Chain(f, b) = {b} \cup D
  <2>1. Chain(f, b) \in Closed(f) /\ b \in Chain(f, b)
    BY ChainIsClosed DEF Ends
  <2> QED BY <2>1, NextInChain
<1>2. D \in Closed(f) /\ f[b] \in D
  BY <1>1, ChainIsClosed DEF Closed
<1>3. PICK e \in Chain(f, b) : f[e] = EOF_FAT_ENTRY
  BY DEF Ends
<1>4. e \in D
  BY <1>1, <1>3
<1>5. b \notin D
  <2> SUFFICES ASSUME b \in D  PROVE FALSE
    OBVIOUS
  <2>1. ASSUME NEW x \in T
        PROVE  f[x] # EOF_FAT_ENTRY /\ f[x] \in T
    <3>1. f[x] # EOF_FAT_ENTRY
      <4>1. SUFFICES ASSUME f[x] = EOF_FAT_ENTRY  PROVE FALSE
        OBVIOUS
      <4>2. x \in DataBlocks
        BY DEF Chain
      <4>3. Chain(f, x) = {x}
        BY <4>1, <4>2, LastInChain
      <4> QED BY <4>1, <4>3
    <3>2. f[x] \in D /\ Chain(f, x) = {x} \cup Chain(f, f[x])
      BY <1>2, <3>1, NextInChain
    <3> QED BY <3>1, <3>2
  <2>2. T \in Closed(f)
    BY <1>2, <2>1 DEF Closed
  <2>3. f[b] \in T
    BY <1>2
  <2>4. D \subseteq T
    BY <2>2, <2>3, ChainIsClosed
  <2> QED BY <1>3, <1>4, <2>1, <2>4
<1>6. Cardinality({b} \cup D) = Cardinality(D) + 1
  <2>1. IsFiniteSet(D) /\ {b} \cup D = D \cup {b}
    BY ChainFinite
  <2> QED BY <1>5, <2>1, FS_AddElement
<1> QED BY <1>1, <1>5, <1>6
-----------------------------------------------------------------------------
(***************************************************************************)
(* Names.                                                                  *)
(***************************************************************************)
\* A call under way, and one that may be made, needs the object.
LEMMA CallsNeedObject == IInv /\ call.op # "idle" => up
BY DEF IInv, CallOK

\* Whatever keeps or removes entries, and gives none another name, keeps names apart.
LEMMA NamesKept ==
    ASSUME NamesUnique,
           \A k \in Files(root_directory') :
              k \in Files(root_directory) /\ root_directory'[k].name = root_directory[k].name
    PROVE  NamesUnique'
BY DEF NamesUnique, UniqueNames

\* One byte more changes no name.
LEMMA GrownNames ==
    ASSUME IInv, call.op = "write", root_directory' = Grown
    PROVE  \A k \in Files(root_directory') :
              k \in Files(root_directory) /\ root_directory'[k].name = root_directory[k].name
<1> DEFINE i == H.directory_index
<1>1. /\ Files(root_directory') = Files(root_directory)
      /\ \A k \in DirIndexes : k # i => root_directory'[k] = root_directory[k]
  BY GrownTable
<1>2. i \in DirIndexes /\ root_directory \in [DirIndexes -> Entry] /\ root_directory[i] \in Entry
  BY Writing DEF IInv, TypeOK, Files
<1>3. root_directory' = [root_directory EXCEPT ![i].size = @ + 1]
  BY DEF Grown
<1> HIDE DEF i
<1>4. root_directory'[i] = [root_directory[i] EXCEPT !.size = @ + 1]
  BY <1>2, <1>3
<1>5. root_directory'[i].name = root_directory[i].name
  BY <1>2, <1>4 DEF Entry
<1> QED BY <1>1, <1>5 DEF Files

\* open() takes a new entry only for a name it has not found.
LEMMA CreateNames ==
    ASSUME IInv, NamesUnique, NEW n \in Name, Create(n)
    PROVE  NamesUnique'
<1>1. PICK i \in DirIndexes, j \in Blocks :
         root_directory' = [root_directory EXCEPT ![i] =
               [in_use |-> TRUE, name |-> n, size |-> 0, starting_block |-> j]]
  BY DEF Create
<1>2. /\ root_directory'[i].name = n
      /\ \A k \in DirIndexes : k # i => root_directory'[k] = root_directory[k]
  BY <1>1 DEF IInv, TypeOK
<1>3. \A k \in Files(root_directory) : root_directory[k].name # n
  BY DEF Create, Missing, Names, Files
<1> QED BY <1>2, <1>3 DEF NamesUnique, UniqueNames, Files

LEMMA TruncateNames ==
    ASSUME IInv, NamesUnique, NEW n \in Name, Truncate(n)
    PROVE  NamesUnique'
<1>1. PICK i \in DirIndexes : root_directory' = [root_directory EXCEPT ![i].size = 0]
  BY DEF Truncate
<1>2. \A k \in DirIndexes : root_directory'[k] =
         IF k = i THEN [root_directory[k] EXCEPT !.size = 0] ELSE root_directory[k]
  BY <1>1 DEF IInv, TypeOK
<1>3. \A k \in DirIndexes : /\ root_directory'[k].in_use = root_directory[k].in_use
                            /\ root_directory'[k].name = root_directory[k].name
  BY <1>2 DEF IInv, TypeOK, Entry
<1> QED BY <1>3, NamesKept DEF Files

LEMMA RemoveNames ==
    ASSUME IInv, NamesUnique, NEW n \in Name, Remove(n)
    PROVE  NamesUnique'
<1>1. PICK i \in DirIndexes : root_directory' = [root_directory EXCEPT ![i] = UnusedEntry]
  BY DEF Remove
<1>2. \A k \in DirIndexes :
         root_directory'[k] = IF k = i THEN UnusedEntry ELSE root_directory[k]
  BY <1>1 DEF IInv, TypeOK
<1> QED BY <1>2, NamesKept DEF Files, UnusedEntry

LEMMA NoFilesNoNames == \A r : Files(r) = {} => UniqueNames(r)
BY DEF UniqueNames

LEMMA EmptyRootEmpty == Files(EmptyRoot) = {}
BY DEF Files, EmptyRoot, UnusedEntry

LEMMA NextNames == IInv /\ NamesUnique /\ DiskNames /\ [Next]_vars => NamesUnique' /\ DiskNames'
<1> SUFFICES ASSUME IInv, NamesUnique, DiskNames, [Next]_vars
             PROVE  NamesUnique' /\ DiskNames'
  OBVIOUS
<1>1. CASE up' /\ up /\ UNCHANGED root_directory
  BY <1>1 DEF NamesUnique, DiskNames
<1>2. CASE Construct
  BY <1>2 DEF Construct, NamesUnique, DiskNames
<1>3. CASE DestroyUnformatted
  <2>1. NamesUnique'
    BY <1>3, EmptyRootEmpty, NoFilesNoNames DEF DestroyUnformatted, Discarded, NamesUnique
  <2>2. ~disk_boot'
    BY <1>3 DEF DestroyUnformatted, Ready, IInv, FlagsOK, disk
  <2> QED BY <2>1, <2>2 DEF DiskNames
<1>4. CASE FlushRoot
  <2>1. NamesUnique'
    BY <1>4, EmptyRootEmpty, NoFilesNoNames DEF FlushRoot, Discarded, NamesUnique
  <2>2. disk_root' = root_directory
    BY <1>4 DEF FlushRoot
  <2> QED BY <2>1, <2>2 DEF NamesUnique, DiskNames
<1>5. CASE Format
  BY <1>5, EmptyRootEmpty, NoFilesNoNames DEF Format, Ready, NamesUnique, DiskNames
<1>6. CASE \E n \in Name : Create(n) \/ Truncate(n) \/ Remove(n)
  <2>1. NamesUnique'
    BY <1>6, CreateNames, TruncateNames, RemoveNames
  <2>2. up'
    BY <1>6 DEF Create, Truncate, Remove, Ready
  <2> QED BY <2>1, <2>2 DEF DiskNames
<1>7. CASE call.op = "write" /\ up' = up /\ root_directory' = Grown
  <2>1. NamesUnique'
    BY <1>7, GrownNames, NamesKept
  <2> QED BY <1>7, <2>1, CallsNeedObject DEF DiskNames
<1>8. CASE UNCHANGED vars
  BY <1>8 DEF vars, memory, disk, NamesUnique, DiskNames
<1>9. CASE Loop
  <2>1. ReadByte \/ ReadLastByte \/ ReadEnd \/ ReadThrows \/ WriteEnd => <1>1!1
    BY CallsNeedObject DEF ReadByte, ReadLastByte, ReadEnd, ReadThrows, WriteEnd
  <2>2. \A byte : PutByte(byte) \/ PutLastByte(byte) \/ NoFreeBlock(byte) => <1>7!1
    BY DEF PutByte, PutLastByte, NoFreeBlock
  <2>3. WriteThrows => <1>1!1 \/ <1>7!1
    BY CallsNeedObject DEF WriteThrows
  <2> QED BY <1>1, <1>4, <1>7, <1>9, <2>1, <2>2, <2>3 DEF Loop
<1>10. CASE Request
  <2>1. FlushFAT => <1>1!1
    BY DEF FlushFAT, Ready
  <2>2. \A n : OpenRead(n) => <1>1!1
    BY DEF OpenRead, Ready
  <2>3. \A h, count : Close(h) \/ ReadStart(h, count) \/ WriteStart(h, count) => <1>1!1
    BY DEF Close, ReadStart, WriteStart, Start, Ready
  <2> QED BY <1>1, <1>2, <1>3, <1>5, <1>6, <1>10, <2>1, <2>2, <2>3 DEF Request
<1>11. CASE \E n \in Name : NoWriter(n) /\ OpenWrite(n)
  BY <1>1, <1>11 DEF OpenWrite, Ready
<1> QED BY <1>8, <1>9, <1>10, <1>11 DEF Next

\* At no time do two directory entries carry one name, nor do two of those a
\* constructor loads (open, remove, flush).
THEOREM NamesStayUnique == Spec => []NamesUnique
<1> DEFINE Inv == IInv /\ NamesUnique /\ DiskNames
<1>1. Init => Inv
  <2>1. Init => NamesUnique /\ DiskNames
    BY EmptyRootEmpty, NoFilesNoNames DEF Init, NamesUnique, DiskNames
  <2> QED BY <2>1, InitIInv
<1>2. Inv /\ [Next]_vars => Inv'
  BY NextIInv, NextNames
<1>3. Inv => NamesUnique
  OBVIOUS
<1> QED BY <1>1, <1>2, <1>3, PTL DEF Spec
-----------------------------------------------------------------------------
(***************************************************************************)
(* Sizes, and the places of reading handles.                               *)
(***************************************************************************)
\* Where ReadersInPlace wants handle hd in a FAT f and a directory r.
InPlace(f, r, hd) ==
    LET i == hd.directory_index  start == r[i].starting_block IN
    /\ i \in Files(r)
    /\ hd.current_block \in Chain(f, start)
    /\ Distance(f, start, hd.current_block) = hd.offset \div BLOCK_SIZE
    /\ hd.offset <= r[i].size

LEMMA ReadersStand ==
    ReadersInPlace <=>
       \A h \in Handles : handle_table[h].in_use /\ handle_table[h].mode = "READ"
          => InPlace(FAT, root_directory, handle_table[h])
BY DEF ReadersInPlace, InPlace

LEMMA ReadersStandNext ==
    ReadersInPlace' <=>
       \A h \in Handles : handle_table'[h].in_use /\ handle_table'[h].mode = "READ"
          => InPlace(FAT', root_directory', handle_table'[h])
BY DEF ReadersInPlace, InPlace

\* Files that keep their chains and sizes, and no new one.
LEMMA SizesKept ==
    ASSUME NEW f, NEW g, NEW r, NEW q, SizesMatch(f, r),
           \A k \in Files(q) :
              /\ k \in Files(r)
              /\ q[k].size = r[k].size
              /\ Chain(g, q[k].starting_block) = Chain(f, r[k].starting_block)
    PROVE  SizesMatch(g, q)
BY DEF SizesMatch

LEMMA NoFilesNoSizes == \A f, r : Files(r) = {} => SizesMatch(f, r)
BY DEF SizesMatch

\* A chain that is left alone stays as it is from each of its blocks.
LEMMA ChainLeftAlone ==
    ASSUME NEW f, NEW g, NEW s, Ends(f, s), NEW b \in Chain(f, s),
           \A c \in Chain(f, s) : g[c] = f[c]
    PROVE  Chain(g, s) = Chain(f, s) /\ Chain(g, b) = Chain(f, b)
<1>1. PICK e \in Chain(f, s) : f[e] = EOF_FAT_ENTRY
  BY DEF Ends
<1>2. Ends(f, b) /\ Chain(f, b) \subseteq Chain(f, s)
  BY <1>1, ChainWithin
<1>3. \A c \in Chain(f, b) : g[c] = f[c]
  BY <1>2
<1> QED BY <1>2, <1>3, EndsAgrees

LEMMA InPlaceKept ==
    ASSUME NEW f, NEW g, NEW r, NEW q, NEW hd, InPlace(f, r, hd),
           hd.directory_index \in Files(q),
           Ends(f, r[hd.directory_index].starting_block),
           q[hd.directory_index].starting_block = r[hd.directory_index].starting_block,
           hd.offset \in Nat,
           r[hd.directory_index].size \in Nat, q[hd.directory_index].size \in Nat,
           r[hd.directory_index].size <= q[hd.directory_index].size,
           \A c \in Chain(f, r[hd.directory_index].starting_block) : g[c] = f[c]
    PROVE  InPlace(g, q, hd)
<1> DEFINE start == r[hd.directory_index].starting_block
<1>1. hd.current_block \in Chain(f, start)
  BY DEF InPlace
<1>2. /\ Chain(g, start) = Chain(f, start)
      /\ Chain(g, hd.current_block) = Chain(f, hd.current_block)
  BY <1>1, ChainLeftAlone
<1>3. Distance(g, start, hd.current_block) = Distance(f, start, hd.current_block)
  BY <1>2 DEF Distance
<1>4. hd.offset <= q[hd.directory_index].size
  BY DEF InPlace
<1> QED BY <1>1, <1>2, <1>3, <1>4 DEF InPlace

\* The chain of a file grows at its end: a handle in its middle is as far from the
\* start as before.
LEMMA InPlaceExtended ==
    ASSUME NEW f \in [Blocks -> Blocks], NEW g, NEW s, Ends(f, s),
           NEW cur \in Chain(f, s), f[cur] = EOF_FAT_ENTRY,
           NEW j \in DataBlocks, j \notin Chain(f, s),
           \A b \in Blocks : g[b] = IF b = j THEN EOF_FAT_ENTRY ELSE IF b = cur THEN j ELSE f[b],
           NEW b \in Chain(f, s)
    PROVE  /\ b \in Chain(g, s)
           /\ Distance(g, s, b) = Distance(f, s, b)
           /\ Cardinality(Chain(g, s)) = Cardinality(Chain(f, s)) + 1
<1>1. Ends(f, b) /\ cur \in Chain(f, b) /\ Chain(f, b) \subseteq Chain(f, s)
  BY ChainWithin
<1>2. Chain(g, s) = Chain(f, s) \cup {j}
  BY ChainExtends
<1>3. Chain(g, b) = Chain(f, b) \cup {j} /\ j \notin Chain(f, b)
  <2>1. j \notin Chain(f, b)
    BY <1>1
  <2> QED BY <1>1, <2>1, ChainExtends
<1>4. Cardinality(Chain(g, s)) = Cardinality(Chain(f, s)) + 1
  BY <1>2, ChainFinite, FS_AddElement
<1>5. Cardinality(Chain(g, b)) = Cardinality(Chain(f, b)) + 1
  BY <1>3, ChainFinite, FS_AddElement
<1>6. Cardinality(Chain(f, s)) \in Nat /\ Cardinality(Chain(f, b)) \in Nat
  BY ChainFinite
<1>7. Distance(g, s, b) = Distance(f, s, b)
  BY <1>4, <1>5, <1>6 DEF Distance
<1> QED BY <1>2, <1>4, <1>7

\* A handle that is not yet past the last block has a next one, one block further.
LEMMA NextBlockOfFile ==
    ASSUME NEW f, NEW s, Ends(f, s), NEW b \in Chain(f, s),
           Distance(f, s, b) + 1 <= Cardinality(Chain(f, s)) - 1
    PROVE  /\ f[b] # EOF_FAT_ENTRY
           /\ f[b] \in Chain(f, s)
           /\ Distance(f, s, f[b]) = Distance(f, s, b) + 1
<1>1. /\ Cardinality(Chain(f, s)) \in Nat
      /\ Cardinality(Chain(f, b)) \in Nat
      /\ Cardinality(Chain(f, f[b])) \in Nat
  BY ChainFinite
<1>2. Cardinality(Chain(f, b)) # 1
  BY <1>1 DEF Distance
<1>3. b \in DataBlocks
  BY DEF Chain
<1>4. f[b] # EOF_FAT_ENTRY
  BY <1>2, <1>3, LastInChain
<1>5. Chain(f, s) \in Closed(f)
  BY ChainIsClosed DEF Ends
<1>6. f[b] \in Chain(f, s)
  BY <1>4, <1>5 DEF Closed
<1>7. Ends(f, b)
  BY ChainWithin DEF Ends
<1>8. Cardinality(Chain(f, b)) = Cardinality(Chain(f, f[b])) + 1
  BY <1>4, <1>7, NoWayBack
<1>9. Distance(f, s, f[b]) = Distance(f, s, b) + 1
  BY <1>1, <1>8 DEF Distance
<1> QED BY <1>4, <1>6, <1>9

LEMMA StartInPlace ==
    ASSUME NEW f, NEW s, Ends(f, s)
    PROVE  s \in Chain(f, s) /\ Distance(f, s, s) = 0
<1>1. s \in Chain(f, s)
  BY ChainIsClosed DEF Ends
<1>2. Cardinality(Chain(f, s)) \in Nat
  BY ChainFinite
<1> QED BY <1>1, <1>2 DEF Distance
-----------------------------------------------------------------------------
(***************************************************************************)
(* What counts, action by action.                                          *)
(***************************************************************************)
Counts == SizeMatchesChain /\ DiskSizes /\ ReadersInPlace /\ CallFits

\* Nothing is owed to a call that is none.
LEMMA IdleFits == call'.op \notin {"read", "write"} => CallFits'
BY DEF CallFits

\* No open handle, nothing owed to one.
LEMMA NoReaders == (\A h \in Handles : ~handle_table'[h].in_use) => ReadersInPlace'
BY DEF ReadersInPlace

LEMMA AllClosedClosed == \A h \in Handles : ~AllClosed[h].in_use
BY DEF AllClosed, ClosedHandle

LEMMA InitCounts == Init => Counts
<1> SUFFICES ASSUME Init  PROVE Counts
  OBVIOUS
<1>1. SizeMatchesChain
  BY EmptyRootEmpty, NoFilesNoSizes DEF Init, SizeMatchesChain
<1>2. DiskSizes /\ CallFits /\ ReadersInPlace
  BY AllClosedClosed DEF Init, DiskSizes, CallFits, Idle, ReadersInPlace
<1> QED BY <1>1, <1>2 DEF Counts

LEMMA ConstructCounts == FullInv /\ Construct => Counts'
<1> SUFFICES ASSUME FullInv, Construct  PROVE Counts'
  OBVIOUS
<1>1. SizeMatchesChain'
  <2>1. CASE disk_boot
    <3>1. FAT' = disk_FAT /\ root_directory' = disk_root /\ ~up
      BY <2>1 DEF Construct
    <3> QED BY <2>1, <3>1 DEF FullInv, DiskSizes, SizeMatchesChain
  <2>2. CASE ~disk_boot
    <3>1. root_directory' = root_directory
      BY <2>2 DEF Construct
    <3>2. Files(root_directory) = {}
      BY DEF Construct, FullInv, IInv, FlagsOK
    <3> QED BY <3>1, <3>2, NoFilesNoSizes DEF SizeMatchesChain
  <2> QED BY <2>1, <2>2
<1>2. ReadersInPlace'
  BY AllClosedClosed, NoReaders DEF Construct
<1>3. DiskSizes'
  BY DEF Construct, DiskSizes
<1>4. CallFits'
  <2>1. call.op = "idle"
    BY CallsNeedObject DEF Construct, FullInv
  <2> QED BY <2>1, IdleFits DEF Construct
<1> QED BY <1>1, <1>2, <1>3, <1>4 DEF Counts

\* The object is gone.
LEMMA DiscardedCounts == Discarded /\ DiskSizes' => Counts'
<1> SUFFICES ASSUME Discarded, DiskSizes'  PROVE Counts'
  OBVIOUS
<1>1. SizeMatchesChain'
  BY EmptyRootEmpty, NoFilesNoSizes DEF Discarded, SizeMatchesChain
<1>2. ReadersInPlace'
  BY AllClosedClosed, NoReaders DEF Discarded
<1>3. CallFits'
  BY IdleFits DEF Discarded, Idle
<1> QED BY <1>1, <1>2, <1>3 DEF Counts

LEMMA DestroyUnformattedCounts == FullInv /\ DestroyUnformatted => Counts'
<1> SUFFICES ASSUME FullInv, DestroyUnformatted  PROVE Counts'
  OBVIOUS
<1>1. ~disk_boot'
  BY DEF DestroyUnformatted, Ready, FullInv, IInv, FlagsOK, disk
<1> QED BY <1>1, DiscardedCounts DEF DestroyUnformatted, DiskSizes

\* The disk's FAT is the one the same flush() has written.
LEMMA FlushRootCounts == FullInv /\ FlushRoot => Counts'
<1> SUFFICES ASSUME FullInv, FlushRoot  PROVE Counts'
  OBVIOUS
<1>1. disk_FAT' = FAT /\ disk_root' = root_directory
  BY DEF FlushRoot, FullInv, IInv, CallOK
<1>2. DiskSizes'
  BY <1>1 DEF FullInv, DiskSizes, SizeMatchesChain
<1> QED BY <1>2, DiscardedCounts DEF FlushRoot

LEMMA FormatCounts == FullInv /\ NoHandles /\ Format => Counts'
<1> SUFFICES ASSUME FullInv, NoHandles, Format  PROVE Counts'
  OBVIOUS
<1>1. SizeMatchesChain'
  BY EmptyRootEmpty, NoFilesNoSizes DEF Format, SizeMatchesChain
<1>2. ReadersInPlace'
  BY NoReaders DEF Format, NoHandles
<1>3. DiskSizes' /\ CallFits'
  BY IdleFits DEF Format, Ready, DiskSizes
<1> QED BY <1>1, <1>2, <1>3 DEF Counts

\* A step of a live object that leaves the tables alone, and every reading handle
\* where it was or in place.
LEMMA HandlesCounts ==
    ASSUME FullInv, up', UNCHANGED <<FAT, root_directory>>, CallFits',
           \A h \in Handles : handle_table'[h].in_use /\ handle_table'[h].mode = "READ" =>
              \/ handle_table'[h] = handle_table[h]
              \/ InPlace(FAT, root_directory, handle_table'[h])
    PROVE  Counts'
<1>1. SizeMatchesChain' /\ DiskSizes'
  BY DEF FullInv, SizeMatchesChain, DiskSizes
<1>2. ReadersInPlace'
  BY ReadersStand, ReadersStandNext DEF FullInv
<1> QED BY <1>1, <1>2 DEF Counts

LEMMA FlushFATCounts == FullInv /\ FlushFAT => Counts'
<1> SUFFICES ASSUME FullInv, FlushFAT  PROVE Counts'
  OBVIOUS
<1>1. call'.op = "flush"
  BY DEF FlushFAT, Idle
<1> QED BY <1>1, IdleFits, HandlesCounts DEF FlushFAT, Ready

LEMMA OpenReadCounts == \A n : FullInv /\ OpenRead(n) => Counts'
<1> SUFFICES ASSUME FullInv, NEW n, OpenRead(n)  PROVE Counts'
  OBVIOUS
<1>1. PICK h \in Handles, i \in DirIndexes :
         /\ Finds(i, n)
         /\ handle_table' = [handle_table EXCEPT ![h] =
               [in_use |-> TRUE, mode |-> "READ", offset |-> 0, directory_index |-> i,
                current_block |-> root_directory[i].starting_block]]
  BY DEF OpenRead
<1> DEFINE start == root_directory[i].starting_block
           opened == [in_use |-> TRUE, mode |-> "READ", offset |-> 0,
                      directory_index |-> i, current_block |-> start]
<1>2. i \in Files(root_directory) /\ root_directory[i].size \in Nat
  BY <1>1 DEF Finds, Names, Files, FullInv, IInv, TypeOK, Entry
<1>3. Ends(FAT, start)
  BY <1>2 DEF FullInv, IInv, FlagsOK, FATConsistent, Consistent, ChainsEnd
<1>4. start \in Chain(FAT, start) /\ Distance(FAT, start, start) = 0
  BY <1>3, StartInPlace
<1>5. 0 \div BLOCK_SIZE = 0
  BY SizeAssumption
<1>6. InPlace(FAT, root_directory, opened)
  BY <1>2, <1>4, <1>5 DEF InPlace
<1>7. \A g \in Handles : handle_table'[g] = IF g = h THEN opened ELSE handle_table[g]
  BY <1>1 DEF FullInv, IInv, TypeOK
<1>8. CallFits'
  BY IdleFits DEF OpenRead, Ready
<1> HIDE DEF opened
<1> QED BY <1>6, <1>7, <1>8, HandlesCounts DEF OpenRead, Ready

LEMMA OpenWriteCounts == \A n : FullInv /\ OpenWrite(n) => Counts'
<1> SUFFICES ASSUME FullInv, NEW n, OpenWrite(n)  PROVE Counts'
  OBVIOUS
<1>0. PICK h \in Handles :
         \E opened : /\ opened.mode = "WRITE"
                     /\ handle_table' = [handle_table EXCEPT ![h] = opened]
  BY DEF OpenWrite
<1>1. PICK opened : /\ opened.mode = "WRITE"
                    /\ handle_table' = [handle_table EXCEPT ![h] = opened]
  BY <1>0
<1>2. \A g \in Handles : handle_table'[g] = IF g = h THEN opened ELSE handle_table[g]
  BY <1>1 DEF FullInv, IInv, TypeOK
<1>3. CallFits'
  BY IdleFits DEF OpenWrite, Ready
<1> QED BY <1>1, <1>2, <1>3, HandlesCounts DEF OpenWrite, Ready

LEMMA CloseCounts == \A h \in Handles : FullInv /\ Close(h) => Counts'
<1> SUFFICES ASSUME FullInv, NEW h \in Handles, Close(h)  PROVE Counts'
  OBVIOUS
<1>1. \A g \in Handles : handle_table'[g] = IF g = h THEN ClosedHandle ELSE handle_table[g]
  BY DEF Close, FullInv, IInv, TypeOK
<1>2. CallFits'
  BY IdleFits DEF Close, Ready
<1> QED BY <1>1, <1>2, HandlesCounts DEF Close, Ready, ClosedHandle

\* The start of a call cuts its count to what there is.
LEMMA ReadStartCounts ==
    \A h \in Handles, count \in Nat : FullInv /\ ReadStart(h, count) => Counts'
<1> SUFFICES ASSUME FullInv, NEW h \in Handles, NEW count \in Nat, ReadStart(h, count)
             PROVE  Counts'
  OBVIOUS
<1> DEFINE size == root_directory[handle_table[h].directory_index].size
           offset == handle_table[h].offset
<1>1. size \in Nat /\ offset \in Nat /\ count \in Nat
  BY DataAssumption DEF ReadStart, FullInv, IInv, TypeOK, HandlesOnFiles, Files, Entry, Handle
<1>2. /\ call'.op = "read" /\ call'.handle = h /\ call'.buffer = << >>
      /\ call'.count = Smaller(count, size - offset)
      /\ call'.block_offset = offset % BLOCK_SIZE
  BY DEF ReadStart, Start
<1>3. UNCHANGED <<up, FAT, root_directory, handle_table>> /\ up
  BY DEF ReadStart, Start, Ready
<1>4. H' = handle_table[h]
  BY <1>2, <1>3 DEF H
<1>5. Len(call'.buffer) = 0
  BY <1>2
<1>6. Smaller(count, size - offset) \in Int /\ Smaller(count, size - offset) <= size - offset
  BY <1>1 DEF Smaller
<1>7. offset + (call'.count - Len(call'.buffer)) <= size
  <2> HIDE DEF size, offset
  <2> QED BY <1>1, <1>2, <1>5, <1>6
<1>8. CallFits'
  BY <1>2, <1>3, <1>4, <1>7 DEF CallFits
<1> QED BY <1>3, <1>8, HandlesCounts

LEMMA WriteStartCounts ==
    \A h \in Handles, count \in Nat : FullInv /\ WriteStart(h, count) => Counts'
<1> SUFFICES ASSUME FullInv, NEW h \in Handles, NEW count \in Nat, WriteStart(h, count)
             PROVE  Counts'
  OBVIOUS
<1>1. /\ call'.op = "write" /\ call'.handle = h /\ call'.buffer = << >>
      /\ call'.count = Smaller(count, OpenSpace(h))
      /\ call'.block_offset = handle_table[h].offset % BLOCK_SIZE
  BY DEF WriteStart, Start
<1>2. UNCHANGED <<up, FAT, root_directory, handle_table>> /\ up
  BY DEF WriteStart, Start, Ready
<1>3. H' = handle_table[h]
  BY <1>1, <1>2 DEF H
<1>4. OpenSpace(h) \in Int /\ count \in Nat
  <2>1. root_directory[handle_table[h].directory_index].size \in Nat
    BY DEF WriteStart, FullInv, IInv, TypeOK, HandlesOnFiles, Files, Entry
  <2>2. free_space \in Nat
    BY FreeSpaceType DEF FullInv, IInv, TypeOK
  <2> QED BY <2>1, <2>2, SizeAssumption, DataAssumption DEF OpenSpace
<1>5. Smaller(count, OpenSpace(h)) \in Int /\ Smaller(count, OpenSpace(h)) <= OpenSpace(h)
  BY <1>4 DEF Smaller
<1>6. call'.count - Len(call'.buffer) <= OpenSpace(h)
  <2>1. Len(call'.buffer) = 0
    BY <1>1
  <2> QED BY <1>1, <1>4, <1>5, <2>1
<1>7. OpenSpace(h)' = OpenSpace(h)
  BY <1>2 DEF OpenSpace, free_space
<1>8. OpenSpace(call.handle)' = OpenSpace(h)
  BY <1>1, <1>2 DEF OpenSpace, free_space
<1>9. CallFits'
  BY <1>1, <1>2, <1>3, <1>6, <1>8 DEF CallFits
<1> QED BY <1>2, <1>9, HandlesCounts
\* The handles that read a file which keeps its chain and loses no bytes.
LEMMA ReaderKept ==
    ASSUME FullInv, TypeOK', NEW h \in Handles,
           handle_table[h].in_use, handle_table[h].mode = "READ",
           handle_table'[h] = handle_table[h],
           NEW i, i = handle_table[h].directory_index,
           i \in Files(root_directory'),
           root_directory'[i].starting_block = root_directory[i].starting_block,
           root_directory[i].size <= root_directory'[i].size,
           \A c \in Chain(FAT, root_directory[i].starting_block) : FAT'[c] = FAT[c]
    PROVE  InPlace(FAT', root_directory', handle_table'[h])
<1>1. InPlace(FAT, root_directory, handle_table[h])
  BY ReadersStand DEF FullInv
<1>2. i \in Files(root_directory) /\ handle_table[h].offset \in Nat
  BY <1>1 DEF InPlace, FullInv, IInv, TypeOK, Handle
<1>3. root_directory[i].size \in Nat /\ root_directory'[i].size \in Nat
  BY <1>2 DEF Files, FullInv, IInv, TypeOK, Entry
<1>4. Ends(FAT, root_directory[i].starting_block)
  BY <1>2 DEF FullInv, IInv, FlagsOK, FATConsistent, Consistent, ChainsEnd
<1> QED BY <1>1, <1>2, <1>3, <1>4, InPlaceKept

LEMMA CreateCounts == \A n \in Name : FullInv /\ formatted_flag /\ Create(n) => Counts'
<1> SUFFICES ASSUME FullInv, formatted_flag, NEW n \in Name, Create(n)  PROVE Counts'
  OBVIOUS
<1>1. PICK h \in Handles, i \in DirIndexes, j \in Blocks :
         /\ FirstFreeEntry(i)
         /\ FirstFreeBlock(FAT, j)
         /\ FAT' = [FAT EXCEPT ![j] = EOF_FAT_ENTRY]
         /\ root_directory' = [root_directory EXCEPT ![i] =
               [in_use |-> TRUE, name |-> n, size |-> 0, starting_block |-> j]]
         /\ handle_table' = [handle_table EXCEPT ![h] =
               [in_use |-> TRUE, mode |-> "WRITE", offset |-> 0,
                directory_index |-> i, current_block |-> j]]
  BY DEF Create
<1> DEFINE entry == [in_use |-> TRUE, name |-> n, size |-> 0, starting_block |-> j]
<1>2. /\ i \notin Files(root_directory) /\ FAT[j] = FREE_FAT_ENTRY
      /\ FAT \in [Blocks -> Blocks] /\ Consistent(FAT, root_directory)
  BY <1>1 DEF FirstFreeEntry, FirstFreeBlock, Files, FullInv, IInv, TypeOK, FATConsistent
<1>3. \A k \in DirIndexes : root_directory'[k] = IF k = i THEN entry ELSE root_directory[k]
  BY <1>1 DEF FullInv, IInv, TypeOK
<1>4. /\ Files(root_directory') = Files(root_directory) \cup {i}
      /\ \A k \in Files(root_directory) : k # i /\ root_directory'[k] = root_directory[k]
      /\ root_directory'[i].starting_block = j /\ root_directory'[i].size = 0
  BY <1>2, <1>3 DEF Files
<1>5. \A b \in Blocks : FAT'[b] = IF b = j THEN EOF_FAT_ENTRY ELSE FAT[b]
  BY <1>1, <1>2
<1>6. \A k \in Files(root_directory) :
         /\ Chain(FAT', root_directory'[k].starting_block)
               = Chain(FAT, root_directory[k].starting_block)
         /\ \A b \in Chain(FAT, root_directory[k].starting_block) : FAT'[b] = FAT[b]
  BY <1>2, <1>4, <1>5, CreateConsistent
<1>7. SizeMatchesChain'
  <2>1. ASSUME NEW k \in Files(root_directory), SizesMatch(FAT, root_directory)
        PROVE  root_directory'[k].size \div BLOCK_SIZE
                  = Cardinality(Chain(FAT', root_directory'[k].starting_block)) - 1
    BY <1>4, <1>6, <2>1 DEF SizesMatch
  <2>2. Cardinality(Chain(FAT', j)) = 1
    <3>1. j \in DataBlocks /\ FAT'[j] = EOF_FAT_ENTRY
      BY <1>2, <1>5, FreeBlock
    <3> QED BY <3>1, LastInChain
  <2>3. 0 \div BLOCK_SIZE = 1 - 1
    BY SizeAssumption
  <2> QED BY <1>4, <2>1, <2>2, <2>3 DEF FullInv, SizeMatchesChain, SizesMatch
<1>8. ReadersInPlace'
  <2> SUFFICES ASSUME NEW g \in Handles, handle_table'[g].in_use, handle_table'[g].mode = "READ"
               PROVE  InPlace(FAT', root_directory', handle_table'[g])
    BY ReadersStandNext
  <2>1. handle_table'[g] = handle_table[g]
    BY <1>1 DEF FullInv, IInv, TypeOK
  <2>2. handle_table[g].directory_index \in Files(root_directory)
    BY <2>1 DEF FullInv, IInv, HandlesOnFiles
  <2>3. TypeOK'
    BY CreateIInv DEF FullInv, IInv
  <2>4. root_directory[handle_table[g].directory_index].size
           <= root_directory'[handle_table[g].directory_index].size
    <3>1. root_directory[handle_table[g].directory_index].size \in Nat
      BY <2>2 DEF Files, FullInv, IInv, TypeOK, Entry
    <3> QED BY <1>4, <2>2, <3>1
  <2> QED BY <1>4, <1>6, <2>1, <2>2, <2>3, <2>4, ReaderKept
<1>9. DiskSizes' /\ CallFits'
  BY IdleFits DEF Create, Ready, DiskSizes
<1> QED BY <1>7, <1>8, <1>9 DEF Counts

\* The handles on file n, if there are any, have not read a byte of it.  vcopy of a
\* file onto itself truncates a file that is open so (shell.cpp:110-112).
Unread(n) == \A h \in Handles, i \in DirIndexes : OpenOn(h, i) /\ Names(i, n) =>
                /\ handle_table[h].mode = "READ" /\ handle_table[h].offset = 0
                /\ handle_table[h].current_block = root_directory[i].starting_block

LEMMA UnreadIfNotOpen == \A n : (NotOpen(n) => Unread(n)) /\ (Unread(n) => NoWriter(n))
BY DEF NotOpen, NoWriter, Unread

LEMMA TruncateCounts ==
    \A n : FullInv /\ formatted_flag /\ Unread(n) /\ Truncate(n) => Counts'
<1> SUFFICES ASSUME FullInv, formatted_flag, NEW n, Unread(n), Truncate(n)  PROVE Counts'
  OBVIOUS
<1>1. PICK i \in DirIndexes :
         /\ Finds(i, n)
         /\ FAT' = [Freed(FAT, Chain(FAT, root_directory[i].starting_block)) EXCEPT
                       ![root_directory[i].starting_block] = EOF_FAT_ENTRY]
         /\ root_directory' = [root_directory EXCEPT ![i].size = 0]
  BY DEF Truncate
<1> DEFINE start == root_directory[i].starting_block
<1>2. /\ i \in Files(root_directory) /\ root_directory[i] \in Entry /\ Names(i, n)
      /\ FAT \in [Blocks -> Blocks] /\ Consistent(FAT, root_directory)
  BY <1>1 DEF Finds, Names, Files, FullInv, IInv, TypeOK, FATConsistent
<1>3. \A k \in DirIndexes : root_directory'[k] =
         IF k = i THEN [root_directory[k] EXCEPT !.size = 0] ELSE root_directory[k]
  BY <1>1 DEF FullInv, IInv, TypeOK
<1>4. /\ Files(root_directory') = Files(root_directory)
      /\ root_directory'[i].size = 0
      /\ \A k \in Files(root_directory) :
            /\ root_directory'[k].starting_block = root_directory[k].starting_block
            /\ k # i => root_directory'[k] = root_directory[k]
  BY <1>2, <1>3 DEF Files, Entry
<1>5. \A b \in Blocks : FAT'[b] = IF b = start THEN EOF_FAT_ENTRY
                                  ELSE IF b \in Chain(FAT, start) THEN FREE_FAT_ENTRY
                                  ELSE FAT[b]
  BY <1>1, SpecialValues DEF Freed
<1>6. \A k \in Files(root_directory') : k # i =>
         /\ Chain(FAT', root_directory'[k].starting_block)
               = Chain(FAT, root_directory[k].starting_block)
         /\ \A b \in Chain(FAT, root_directory[k].starting_block) : FAT'[b] = FAT[b]
  <2>1. start = root_directory[i].starting_block
    OBVIOUS
  <2> HIDE DEF start
  <2> QED BY <1>2, <1>4, <1>5, <2>1, TruncateConsistent
<1>7. SizeMatchesChain'
  <2>1. ASSUME NEW k \in Files(root_directory), k # i, SizesMatch(FAT, root_directory)
        PROVE  root_directory'[k].size \div BLOCK_SIZE
                  = Cardinality(Chain(FAT', root_directory'[k].starting_block)) - 1
    BY <1>4, <1>6, <2>1 DEF SizesMatch
  <2>2. Cardinality(Chain(FAT', start)) = 1
    <3>1. start \in DataBlocks
      BY <1>2, StartInPlace DEF Consistent, ChainsEnd, Chain
    <3>2. FAT'[start] = EOF_FAT_ENTRY
      BY <1>5, <3>1, SpecialValues
    <3> QED BY <3>1, <3>2, LastInChain
  <2>3. 0 \div BLOCK_SIZE = 1 - 1
    BY SizeAssumption
  <2> QED BY <1>2, <1>4, <2>1, <2>2, <2>3 DEF FullInv, SizeMatchesChain, SizesMatch
<1>8. ReadersInPlace'
  <2> SUFFICES ASSUME NEW g \in Handles, handle_table'[g].in_use, handle_table'[g].mode = "READ"
               PROVE  InPlace(FAT', root_directory', handle_table'[g])
    BY ReadersStandNext
  <2> DEFINE k == handle_table[g].directory_index
  <2>1. handle_table'[g] = handle_table[g]
    BY DEF Truncate
  <2>2. k \in Files(root_directory)
    BY <2>1 DEF FullInv, IInv, HandlesOnFiles
  <2>3. TypeOK' /\ FATConsistent' /\ formatted_flag'
    BY TruncateIInv, UnreadIfNotOpen DEF FullInv, IInv, Truncate
  <2>4. k # i => root_directory[k].size <= root_directory'[k].size
    <3>1. root_directory[k].size \in Nat
      BY <2>2 DEF Files, FullInv, IInv, TypeOK, Entry
    <3> QED BY <1>4, <2>2, <3>1
  <2>6. CASE k # i
    BY <1>4, <1>6, <2>1, <2>2, <2>3, <2>4, <2>6, ReaderKept
  <2>7. CASE k = i
    <3>1. handle_table[g].offset = 0 /\ handle_table[g].current_block = start
      BY <1>2, <2>1, <2>7 DEF Unread, OpenOn
    <3>2. start \in Chain(FAT', start) /\ Distance(FAT', start, start) = 0
      BY <1>2, <1>4, <2>3, StartInPlace DEF FATConsistent, Consistent, ChainsEnd
    <3>3. 0 = 0 \div BLOCK_SIZE
      BY SizeAssumption
    <3> QED BY <1>2, <1>4, <2>1, <2>7, <3>1, <3>2, <3>3 DEF InPlace
  <2> QED BY <2>6, <2>7
<1>9. DiskSizes' /\ CallFits'
  BY IdleFits DEF Truncate, Ready, DiskSizes
<1> QED BY <1>7, <1>8, <1>9 DEF Counts

LEMMA RemoveCounts ==
    \A n : FullInv /\ formatted_flag /\ NotOpen(n) /\ Remove(n) => Counts'
<1> SUFFICES ASSUME FullInv, formatted_flag, NEW n, NotOpen(n), Remove(n)  PROVE Counts'
  OBVIOUS
<1>1. PICK i \in DirIndexes :
         /\ Finds(i, n)
         /\ FAT' = Freed(FAT, Chain(FAT, root_directory[i].starting_block))
         /\ root_directory' = [root_directory EXCEPT ![i] = UnusedEntry]
  BY DEF Remove
<1>2. /\ i \in Files(root_directory) /\ Names(i, n)
      /\ FAT \in [Blocks -> Blocks] /\ Consistent(FAT, root_directory)
  BY <1>1 DEF Finds, Names, Files, FullInv, IInv, TypeOK, FATConsistent
<1>3. \A k \in DirIndexes :
         root_directory'[k] = IF k = i THEN UnusedEntry ELSE root_directory[k]
  BY <1>1 DEF FullInv, IInv, TypeOK
<1>4. /\ Files(root_directory') = Files(root_directory) \ {i}
      /\ \A k \in Files(root_directory') : root_directory'[k] = root_directory[k]
  BY <1>3 DEF Files, UnusedEntry
<1>5. \A b \in Blocks : FAT'[b] = IF b \in Chain(FAT, root_directory[i].starting_block)
                                  THEN FREE_FAT_ENTRY ELSE FAT[b]
  BY <1>1 DEF Freed
<1>6. \A k \in Files(root_directory') :
         /\ Chain(FAT', root_directory'[k].starting_block)
               = Chain(FAT, root_directory[k].starting_block)
         /\ \A b \in Chain(FAT, root_directory[k].starting_block) : FAT'[b] = FAT[b]
  <2>1. \A k \in Files(root_directory') :
           root_directory'[k].starting_block = root_directory[k].starting_block
    BY <1>4
  <2> QED BY <1>2, <1>4, <1>5, <2>1, RemoveConsistent
<1>7. SizeMatchesChain'
  BY <1>4, <1>6, SizesKept DEF FullInv, SizeMatchesChain
<1>8. ReadersInPlace'
  <2> SUFFICES ASSUME NEW g \in Handles, handle_table'[g].in_use, handle_table'[g].mode = "READ"
               PROVE  InPlace(FAT', root_directory', handle_table'[g])
    BY ReadersStandNext
  <2> DEFINE k == handle_table[g].directory_index
  <2>1. handle_table'[g] = handle_table[g]
    BY DEF Remove
  <2>2. k \in Files(root_directory') /\ k \in Files(root_directory)
    BY <1>2, <1>4, <2>1 DEF FullInv, IInv, HandlesOnFiles, NotOpen, OpenOn
  <2>3. TypeOK'
    BY RemoveIInv DEF FullInv, IInv
  <2>4. root_directory[k].size <= root_directory'[k].size
    <3>1. root_directory[k].size \in Nat
      BY <2>2 DEF Files, FullInv, IInv, TypeOK, Entry
    <3> QED BY <1>4, <2>2, <3>1
  <2> QED BY <1>4, <1>6, <2>1, <2>2, <2>3, <2>4, ReaderKept
<1>9. DiskSizes' /\ CallFits'
  BY IdleFits DEF Remove, Ready, DiskSizes
<1> QED BY <1>7, <1>8, <1>9 DEF Counts
-----------------------------------------------------------------------------
(***************************************************************************)
(* The loop of a read().                                                   *)
(***************************************************************************)
\* The handle and the file of a read() under way, and what is left to read.
LEMMA Reading ==
    ASSUME FullInv, call.op = "read"
    PROVE  /\ up /\ call \in Call /\ call.handle \in Handles
           /\ H \in Handle /\ H = handle_table[call.handle]
           /\ handle_table \in [Handles -> Handle]
           /\ FAT \in [Blocks -> Blocks]
           /\ H.in_use /\ H.mode = "READ"
           /\ H.directory_index \in Files(root_directory)
           /\ root_directory[H.directory_index].size \in Nat
           /\ Ends(FAT, root_directory[H.directory_index].starting_block)
           /\ InPlace(FAT, root_directory, H)
           /\ call.block_offset = H.offset % BLOCK_SIZE
           /\ H.offset \in Nat /\ call.count \in Nat /\ Len(call.buffer) \in Nat
           /\ H.offset + (call.count - Len(call.buffer))
                 <= root_directory[H.directory_index].size
<1>1. /\ up /\ call \in Call /\ call.handle \in Handles
      /\ handle_table \in [Handles -> Handle] /\ FAT \in [Blocks -> Blocks]
      /\ H.in_use /\ H.mode = "READ"
  BY DEF FullInv, IInv, CallOK, TypeOK
<1>2. InPlace(FAT, root_directory, H)
  BY <1>1, ReadersStand DEF FullInv, H
<1>3. /\ H.directory_index \in Files(root_directory)
      /\ root_directory[H.directory_index].size \in Nat
  BY <1>2 DEF InPlace, Files, FullInv, IInv, TypeOK, Entry
<1>4. Ends(FAT, root_directory[H.directory_index].starting_block)
  BY <1>3 DEF FullInv, IInv, FlagsOK, FATConsistent, Consistent, ChainsEnd
<1>5. H \in Handle /\ H = handle_table[call.handle] /\ H.offset \in Nat
  BY <1>1 DEF H, Handle
<1>6. call.count \in Nat /\ Len(call.buffer) \in Nat
  BY <1>1 DEF Call
<1>7. /\ call.block_offset = H.offset % BLOCK_SIZE
      /\ H.offset + (call.count - Len(call.buffer))
            <= root_directory[H.directory_index].size
  BY DEF FullInv, CallFits
<1> QED BY <1>1, <1>2, <1>3, <1>4, <1>5, <1>6, <1>7

\* A byte has been moved: the handle is one further and there is one less to read.
LEMMA ByteRead ==
    ASSUME FullInv, call.op = "read", MoreBytes, NEW block \in Blocks,
           UNCHANGED <<up, FAT, root_directory>>,
           handle_table' = [handle_table EXCEPT ![call.handle] =
                               [H EXCEPT !.offset = @ + 1, !.current_block = block]],
           call'.op = "read", call'.handle = call.handle, call'.count = call.count,
           \E byte \in Byte : call'.buffer = Append(call.buffer, byte),
           call'.block_offset = (H.offset + 1) % BLOCK_SIZE,
           block \in Chain(FAT, root_directory[H.directory_index].starting_block),
           Distance(FAT, root_directory[H.directory_index].starting_block, block)
              = (H.offset + 1) \div BLOCK_SIZE
    PROVE  Counts'
<1> DEFINE size == root_directory[H.directory_index].size
           moved == [H EXCEPT !.offset = @ + 1, !.current_block = block]
<1>1. /\ H.directory_index \in Files(root_directory) /\ up /\ size \in Nat
      /\ H.offset \in Nat /\ call.count \in Nat /\ Len(call.buffer) \in Nat
      /\ H.offset + (call.count - Len(call.buffer)) <= size
  BY Reading
<1>2. \A g \in Handles : handle_table'[g] = IF g = call.handle THEN moved ELSE handle_table[g]
  BY Reading
<1>3. /\ moved.directory_index = H.directory_index
      /\ moved.offset = H.offset + 1
      /\ moved.current_block = block
  BY Reading DEF Handle
<1>4. H' = moved
  <2>1. call.handle \in Handles
    BY Reading
  <2> QED BY <1>2, <2>1 DEF H
<1>5. Len(call'.buffer) = Len(call.buffer) + 1
  <2>1. call.buffer \in Seq(Byte)
    BY Reading DEF Call
  <2> QED BY <2>1
<1>6. Len(call.buffer) < call.count
  BY DEF MoreBytes
<1>7. H.offset + 1 <= size /\ H.offset + 1 + (call'.count - Len(call'.buffer)) <= size
  <2> HIDE DEF size
  <2> QED BY SMTT(30), <1>1, <1>5, <1>6
<1>8. InPlace(FAT, root_directory, moved)
  <2> HIDE DEF moved
  <2> QED BY <1>1, <1>3, <1>7 DEF InPlace
<1>9. CallFits'
  <2>1. root_directory'[H'.directory_index].size = size
    BY <1>3, <1>4
  <2>2. H'.offset = H.offset + 1
    BY <1>3, <1>4
  <2> HIDE DEF moved, size
  <2> QED BY <1>7, <2>1, <2>2 DEF CallFits
<1> HIDE DEF moved
<1> QED BY <1>1, <1>2, <1>8, <1>9, HandlesCounts

LEMMA ReadByteCounts == FullInv /\ ReadByte => Counts'
<1> SUFFICES ASSUME FullInv, ReadByte  PROVE Counts'
  OBVIOUS
<1> DEFINE start == root_directory[H.directory_index].starting_block
<1>1. /\ call.op = "read" /\ MoreBytes /\ call.block_offset # BLOCK_SIZE - 1
      /\ UNCHANGED <<up, FAT, root_directory>>
      /\ handle_table' = [handle_table EXCEPT ![call.handle].offset = @ + 1]
  BY DEF ReadByte, LastOfBlock
<1>2. handle_table' = [handle_table EXCEPT ![call.handle] =
                          [H EXCEPT !.offset = @ + 1, !.current_block = H.current_block]]
  <2>1. [H EXCEPT !.offset = @ + 1, !.current_block = H.current_block]
           = [H EXCEPT !.offset = @ + 1]
    BY <1>1, Reading DEF Handle
  <2> QED BY <1>1, <2>1, Reading
<1>3. /\ call'.op = "read" /\ call'.handle = call.handle /\ call'.count = call.count
      /\ call'.buffer = Append(call.buffer, call.block_buffer[call.block_offset])
      /\ call'.block_offset = call.block_offset + 1
  BY <1>1, Reading DEF ReadByte, Call
<1>4. call.block_buffer[call.block_offset] \in Byte
  BY NextByte DEF FullInv
<1>5. /\ (H.offset + 1) % BLOCK_SIZE = call.block_offset + 1
      /\ (H.offset + 1) \div BLOCK_SIZE = H.offset \div BLOCK_SIZE
  BY <1>1, Reading, OneByteOn
<1>6. H.current_block \in Blocks
  BY <1>1, Reading DEF Handle
<1>7. /\ H.current_block \in Chain(FAT, start)
      /\ Distance(FAT, start, H.current_block) = (H.offset + 1) \div BLOCK_SIZE
  BY <1>1, <1>5, Reading DEF InPlace
<1> QED BY <1>1, <1>2, <1>3, <1>4, <1>5, <1>6, <1>7, ByteRead

\* There is a next block to fetch, since the handle's offset is not past the size.
LEMMA ReadLastByteCounts == FullInv /\ ReadLastByte => Counts'
<1> SUFFICES ASSUME FullInv, ReadLastByte  PROVE Counts'
  OBVIOUS
<1> DEFINE i == H.directory_index
           start == root_directory[i].starting_block
           next == FAT[H.current_block]
<1>1. /\ call.op = "read" /\ MoreBytes /\ call.block_offset = BLOCK_SIZE - 1
      /\ UNCHANGED <<up, FAT, root_directory>>
  BY DEF ReadLastByte, LastOfBlock
<1>2. handle_table' = [handle_table EXCEPT ![call.handle] =
                          [H EXCEPT !.offset = @ + 1, !.current_block = next]]
  <2>1. handle_table' = [handle_table EXCEPT
           ![call.handle].offset = @ + 1,
           ![call.handle].current_block = FAT[H.current_block]]
    BY DEF ReadLastByte
  <2>2. /\ handle_table'[call.handle] = [H EXCEPT !.offset = @ + 1, !.current_block = next]
        /\ \A g \in Handles : g # call.handle => handle_table'[g] = handle_table[g]
    BY <1>1, <2>1, Reading
  <2> QED BY <1>1, <2>1, Reading
<1>3. /\ call'.op = "read" /\ call'.handle = call.handle /\ call'.count = call.count
      /\ call'.buffer = Append(call.buffer, call.block_buffer[call.block_offset])
      /\ call'.block_offset = 0
  BY <1>1, Reading DEF ReadLastByte, Call
<1>4. call.block_buffer[call.block_offset] \in Byte
  BY NextByte DEF FullInv
<1>5. /\ (H.offset + 1) % BLOCK_SIZE = 0
      /\ (H.offset + 1) \div BLOCK_SIZE = H.offset \div BLOCK_SIZE + 1
  BY <1>1, Reading, OneByteOn
<1>6. next \in Blocks
  BY <1>1, Reading DEF Handle
<1>7. next \in Chain(FAT, start) /\ Distance(FAT, start, next) = (H.offset + 1) \div BLOCK_SIZE
  <2>1. /\ H.current_block \in Chain(FAT, start)
        /\ Distance(FAT, start, H.current_block) = H.offset \div BLOCK_SIZE
        /\ Ends(FAT, start)
        /\ i \in Files(root_directory)
    BY <1>1, Reading DEF InPlace
  <2>2. root_directory[i].size \div BLOCK_SIZE = Cardinality(Chain(FAT, start)) - 1
    BY <2>1 DEF FullInv, SizeMatchesChain, SizesMatch
  <2>3. H.offset + 1 <= root_directory[i].size
    <3>1. Len(call.buffer) < call.count
      BY <1>1 DEF MoreBytes
    <3>2. /\ H.offset \in Nat /\ call.count \in Nat /\ Len(call.buffer) \in Nat
          /\ root_directory[i].size \in Nat
          /\ H.offset + (call.count - Len(call.buffer)) <= root_directory[i].size
      BY <1>1, Reading
    <3> HIDE DEF i
    <3> QED BY <3>1, <3>2
  <2>4. (H.offset + 1) \div BLOCK_SIZE <= root_directory[i].size \div BLOCK_SIZE
    <3>1. H.offset + 1 \in Nat /\ root_directory[i].size \in Nat
      BY <1>1, Reading
    <3> HIDE DEF i
    <3> QED BY <2>3, <3>1, DivMonotone
  <2>5. Distance(FAT, start, H.current_block) + 1 <= Cardinality(Chain(FAT, start)) - 1
    <3> HIDE DEF start, i
    <3> QED BY <1>5, <2>1, <2>2, <2>4
  <2>6. next \in Chain(FAT, start)
        /\ Distance(FAT, start, next) = Distance(FAT, start, H.current_block) + 1
    <3> HIDE DEF start
    <3> QED BY <2>1, <2>5, NextBlockOfFile
  <2> HIDE DEF start, next
  <2> QED BY <1>5, <2>1, <2>6
<1> QED BY <1>1, <1>2, <1>3, <1>4, <1>5, <1>6, <1>7, ByteRead

LEMMA ReadEndCounts == FullInv /\ ReadEnd => Counts'
<1> SUFFICES ASSUME FullInv, ReadEnd  PROVE Counts'
  OBVIOUS
<1>1. CallFits'
  BY IdleFits DEF ReadEnd, Idle
<1>2. up'
  BY Reading DEF ReadEnd
<1> QED BY <1>1, <1>2, HandlesCounts DEF ReadEnd

LEMMA NoReadThrows == WholeDisk /\ FullInv => ~ReadThrows
<1> SUFFICES ASSUME WholeDisk, FullInv, ReadThrows  PROVE FALSE
  OBVIOUS
<1>1. FAT[H.current_block] \in Blocks
  BY Reading DEF ReadThrows, Handle
<1>2. FAT[H.current_block] < DISK_BLOCKS
  BY <1>1, SizeAssumption DEF Blocks, WholeDisk
<1> QED BY <1>2 DEF ReadThrows, OnDisk
-----------------------------------------------------------------------------
(***************************************************************************)
(* The loop of a write().                                                  *)
(***************************************************************************)
\* What is left to write, what the call believes it can place, and the size of the
\* file it writes to.
LEMMA WritingCounts ==
    ASSUME FullInv, call.op = "write"
    PROVE  LET size == root_directory[H.directory_index].size IN
           /\ size \in Nat /\ H.offset = size
           /\ call.count \in Nat /\ Len(call.buffer) \in Nat
           /\ call.block_offset = size % BLOCK_SIZE
           /\ call.count - Len(call.buffer)
                 <= free_space + (BLOCK_SIZE - (size % BLOCK_SIZE)) - 1
           /\ FAT \in [Blocks -> Blocks]
           /\ size \div BLOCK_SIZE =
                 Cardinality(Chain(FAT, root_directory[H.directory_index].starting_block)) - 1
<1> DEFINE size == root_directory[H.directory_index].size
<1>1. /\ H.offset = size /\ H = handle_table[call.handle]
      /\ H.directory_index \in Files(root_directory)
      /\ call \in Call
  BY Writing DEF FullInv
<1>2. size \in Nat
  BY Writing DEF FullInv, Entry
<1>3. call.count \in Nat /\ Len(call.buffer) \in Nat
  BY <1>1 DEF Call
<1>4. /\ call.block_offset = size % BLOCK_SIZE
      /\ call.count - Len(call.buffer) <= OpenSpace(call.handle)
  BY <1>1 DEF FullInv, CallFits
<1>5. OpenSpace(call.handle) = free_space + (BLOCK_SIZE - (size % BLOCK_SIZE)) - 1
  BY <1>1 DEF OpenSpace
<1>6. size \div BLOCK_SIZE =
         Cardinality(Chain(FAT, root_directory[H.directory_index].starting_block)) - 1
  BY <1>1 DEF FullInv, SizeMatchesChain, SizesMatch
<1> QED BY <1>1, <1>2, <1>3, <1>4, <1>5, <1>6 DEF FullInv, IInv, TypeOK

LEMMA FreeBlocksFinite == IsFiniteSet(FreeBlocks(FAT)) /\ Cardinality(FreeBlocks(FAT)) \in Nat
<1>1. IsFiniteSet(Blocks)
  BY FS_Interval, SizeAssumption DEF Blocks
<1>2. IsFiniteSet(FreeBlocks(FAT))
  BY <1>1, FS_Subset DEF FreeBlocks
<1> QED BY <1>2, FS_CardinalityType

\* The loop never takes a block that is not there.
LEMMA FullInvBlockExpected == FullInv => BlockExpected
<1> SUFFICES ASSUME FullInv, call.op = "write", MoreBytes, LastOfBlock
             PROVE  FreeBlocks(FAT) # {}
  BY DEF BlockExpected
<1> DEFINE size == root_directory[H.directory_index].size
<1>1. /\ call.count \in Nat /\ Len(call.buffer) \in Nat
      /\ size % BLOCK_SIZE = BLOCK_SIZE - 1
      /\ call.count - Len(call.buffer)
            <= free_space + (BLOCK_SIZE - (size % BLOCK_SIZE)) - 1
  BY WritingCounts DEF LastOfBlock
<1>2. free_space \in Nat
  BY WritingCounts, FreeSpaceType
<1>3. free_space # 0
  <2>1. Len(call.buffer) < call.count
    BY DEF MoreBytes
  <2> HIDE DEF size
  <2> QED BY <1>1, <1>2, <2>1, SizeAssumption
<1> SUFFICES ASSUME FreeBlocks(FAT) = {}  PROVE FALSE
  OBVIOUS
<1>4. Cardinality(FreeBlocks(FAT)) = 0
  BY FS_EmptySet
<1> QED BY <1>3, <1>4, SizeAssumption DEF free_space

LEMMA NoNoFreeBlock == FullInv => \A byte : ~NoFreeBlock(byte)
BY FullInvBlockExpected DEF NoFreeBlock, BlockExpected

LEMMA NoWriteThrows == WholeDisk /\ FullInv => ~WriteThrows
<1> SUFFICES ASSUME WholeDisk, FullInv, WriteThrows  PROVE FALSE
  OBVIOUS
<1>1. H.current_block \in Blocks
  BY Writing DEF WriteThrows, FullInv, Handle
<1>2. H.current_block < DISK_BLOCKS
  BY <1>1, SizeAssumption DEF Blocks, WholeDisk
<1> QED BY <1>2 DEF WriteThrows, OnDisk

LEMMA WriteEndCounts == FullInv /\ WriteEnd => Counts'
<1> SUFFICES ASSUME FullInv, WriteEnd  PROVE Counts'
  OBVIOUS
<1>1. CallFits'
  BY IdleFits DEF WriteEnd, Idle
<1>2. up'
  BY Writing DEF WriteEnd, FullInv
<1> QED BY <1>1, <1>2, HandlesCounts DEF WriteEnd

\* The handles other than the writer's, and what the writer's handle and file are
\* after a byte has been put.
LEMMA ByteWritten ==
    ASSUME FullInv, call.op = "write", root_directory' = Grown, NEW block \in Blocks,
           handle_table' = [handle_table EXCEPT ![call.handle] =
                               [H EXCEPT !.offset = @ + 1, !.current_block = block]],
           call'.handle = call.handle,
           \E byte \in Byte : call'.buffer = Append(call.buffer, byte)
    PROVE  LET i == H.directory_index IN
           /\ H'.directory_index = i /\ H'.offset = H.offset + 1
           /\ H'.mode = "WRITE"
           /\ Files(root_directory') = Files(root_directory)
           /\ root_directory'[i].size = root_directory[i].size + 1
           /\ \A k \in DirIndexes : k # i => root_directory'[k] = root_directory[k]
           /\ \A k \in Files(root_directory) :
                 root_directory'[k].starting_block = root_directory[k].starting_block
           /\ \A g \in Handles : handle_table'[g].mode = "READ" =>
                 handle_table'[g] = handle_table[g]
           /\ Len(call'.buffer) = Len(call.buffer) + 1
<1>1. /\ call.handle \in Handles /\ H \in Handle
      /\ H.mode = "WRITE" /\ call \in Call
      /\ handle_table \in [Handles -> Handle]
  BY Writing DEF FullInv, IInv, TypeOK
<1> DEFINE moved == [H EXCEPT !.offset = @ + 1, !.current_block = block]
<1>2. /\ moved.directory_index = H.directory_index /\ moved.offset = H.offset + 1
      /\ moved.mode = "WRITE"
  BY <1>1 DEF Handle
<1>3. \A g \in Handles : handle_table'[g] = IF g = call.handle THEN moved ELSE handle_table[g]
  BY <1>1
<1>4. H' = moved
  BY <1>1, <1>3 DEF H
<1>5. Len(call'.buffer) = Len(call.buffer) + 1
  <2>1. call.buffer \in Seq(Byte)
    BY <1>1 DEF Call
  <2> QED BY <2>1
<1> HIDE DEF moved
<1>6. \A g \in Handles : handle_table'[g].mode = "READ" => handle_table'[g] = handle_table[g]
  BY <1>2, <1>3
<1> QED BY <1>2, <1>4, <1>5, <1>6, GrownTable DEF FullInv

LEMMA PutByteCounts == \A byte \in Byte : FullInv /\ PutByte(byte) => Counts'
<1> SUFFICES ASSUME FullInv, NEW byte \in Byte, PutByte(byte)  PROVE Counts'
  OBVIOUS
<1> DEFINE i == H.directory_index
           size == root_directory[i].size
<1>1. /\ call.op = "write" /\ root_directory' = Grown /\ UNCHANGED <<up, FAT>>
      /\ call.block_offset # BLOCK_SIZE - 1
  BY DEF PutByte, LastOfBlock
<1>2. handle_table' = [handle_table EXCEPT ![call.handle] =
                          [H EXCEPT !.offset = @ + 1, !.current_block = H.current_block]]
  <2>1. [H EXCEPT !.offset = @ + 1, !.current_block = H.current_block]
           = [H EXCEPT !.offset = @ + 1]
    BY <1>1, Writing DEF FullInv, Handle
  <2>2. handle_table' = [handle_table EXCEPT ![call.handle].offset = @ + 1]
    BY DEF PutByte
  <2>3. call.handle \in Handles /\ H = handle_table[call.handle]
    BY <1>1, Writing DEF FullInv
  <2> QED BY <2>1, <2>2, <2>3
<1>3. /\ call'.op = "write" /\ call'.handle = call.handle /\ call'.count = call.count
      /\ call'.buffer = Append(call.buffer, byte)
      /\ call'.block_offset = call.block_offset + 1
  BY <1>1, Writing DEF PutByte, Call, FullInv
<1>4. H.current_block \in Blocks
  BY <1>1, Writing DEF FullInv, Handle
<1>5. /\ H'.directory_index = i /\ H'.offset = H.offset + 1
      /\ Files(root_directory') = Files(root_directory)
      /\ root_directory'[i].size = size + 1
      /\ \A k \in DirIndexes : k # i => root_directory'[k] = root_directory[k]
      /\ \A k \in Files(root_directory) :
            root_directory'[k].starting_block = root_directory[k].starting_block
      /\ \A g \in Handles : handle_table'[g].mode = "READ" =>
            handle_table'[g] = handle_table[g]
      /\ Len(call'.buffer) = Len(call.buffer) + 1
  BY <1>1, <1>2, <1>3, <1>4, ByteWritten
<1>6. /\ size \in Nat /\ H.offset = size
      /\ call.count \in Nat /\ Len(call.buffer) \in Nat
      /\ call.block_offset = size % BLOCK_SIZE
      /\ call.count - Len(call.buffer)
            <= free_space + (BLOCK_SIZE - (size % BLOCK_SIZE)) - 1
      /\ size \div BLOCK_SIZE = Cardinality(Chain(FAT, root_directory[i].starting_block)) - 1
  BY <1>1, WritingCounts
<1>7. /\ (size + 1) % BLOCK_SIZE = (size % BLOCK_SIZE) + 1
      /\ (size + 1) \div BLOCK_SIZE = size \div BLOCK_SIZE
  <2> HIDE DEF size
  <2> QED BY <1>1, <1>6, OneByteOn
<1>8. SizeMatchesChain'
  <2>1. ASSUME NEW k \in Files(root_directory), SizesMatch(FAT, root_directory)
        PROVE  root_directory'[k].size \div BLOCK_SIZE
                  = Cardinality(Chain(FAT, root_directory'[k].starting_block)) - 1
    <3>1. CASE k = i
      BY <1>5, <1>6, <1>7, <3>1
    <3>2. CASE k # i
      BY <1>5, <2>1, <3>2 DEF SizesMatch, Files
    <3> QED BY <3>1, <3>2
  <2> QED BY <1>1, <1>5, <2>1 DEF FullInv, SizeMatchesChain, SizesMatch
<1>9. ReadersInPlace'
  <2> SUFFICES ASSUME NEW g \in Handles, handle_table'[g].in_use, handle_table'[g].mode = "READ"
               PROVE  InPlace(FAT', root_directory', handle_table'[g])
    BY ReadersStandNext
  <2> DEFINE k == handle_table[g].directory_index
  <2>1. handle_table'[g] = handle_table[g]
    BY <1>5
  <2>2. k \in Files(root_directory)
    BY <2>1 DEF FullInv, IInv, HandlesOnFiles
  <2>3. TypeOK'
    BY PutByteIInv DEF FullInv, IInv
  <2>4. root_directory[k].size <= root_directory'[k].size
    <3>1. root_directory[k].size \in Nat /\ k \in DirIndexes
      BY <2>2 DEF Files, FullInv, IInv, TypeOK, Entry
    <3>2. root_directory'[k].size = root_directory[k].size
          \/ root_directory'[k].size = root_directory[k].size + 1
      BY <1>5, <3>1
    <3> HIDE DEF k
    <3> QED BY <3>1, <3>2
  <2> HIDE DEF i, size
  <2> QED BY <1>1, <1>5, <2>1, <2>2, <2>3, <2>4, ReaderKept
<1>10. DiskSizes'
  BY <1>1, CallsNeedObject DEF FullInv, DiskSizes
<1>11. CallFits'
  <2>1. free_space' = free_space /\ free_space \in Nat
    BY <1>1, WritingCounts, FreeSpaceType DEF free_space
  <2>2. OpenSpace(call.handle)' = free_space + (BLOCK_SIZE - ((size + 1) % BLOCK_SIZE)) - 1
    BY <1>3, <1>5, <2>1 DEF OpenSpace, H
  <2>3. call'.count - Len(call'.buffer) <= OpenSpace(call.handle)'
    <3>1. size % BLOCK_SIZE \in Int /\ BLOCK_SIZE \in Nat
      BY <1>6, SizeAssumption
    <3>2. call'.count = call.count /\ Len(call'.buffer) = Len(call.buffer) + 1
      BY <1>3, <1>5
    <3>3. /\ call.count \in Nat /\ Len(call.buffer) \in Nat
          /\ call.count - Len(call.buffer)
                <= free_space + (BLOCK_SIZE - (size % BLOCK_SIZE)) - 1
      BY <1>6
    <3>4. (size + 1) % BLOCK_SIZE = (size % BLOCK_SIZE) + 1
      BY <1>7
    <3> HIDE DEF size
    <3> QED BY SMTT(30), <2>1, <2>2, <3>1, <3>2, <3>3, <3>4
  <2>4. call'.block_offset = H'.offset % BLOCK_SIZE
    <3> HIDE DEF size
    <3> QED BY <1>3, <1>5, <1>6, <1>7
  <2> HIDE DEF size
  <2> QED BY <1>3, <2>3, <2>4 DEF CallFits
<1> QED BY <1>8, <1>9, <1>10, <1>11 DEF Counts

\* The byte that fills a block takes the block it chains on from the free ones.
LEMMA OneBlockTaken ==
    ASSUME FullInv, NEW byte, PutLastByte(byte)
    PROVE  Cardinality(FreeBlocks(FAT')) = Cardinality(FreeBlocks(FAT)) - 1
<1> DEFINE cur == H.current_block
<1>1. call.op = "write"
  BY DEF PutLastByte
<1>2. PICK j \in Blocks : /\ FirstFreeBlock(FAT, j)
                          /\ FAT' = [FAT EXCEPT ![cur] = j, ![j] = EOF_FAT_ENTRY]
  BY DEF PutLastByte
<1>3. /\ FAT[j] = FREE_FAT_ENTRY /\ FAT \in [Blocks -> Blocks]
      /\ cur \in DataBlocks /\ FAT[cur] = EOF_FAT_ENTRY /\ Consistent(FAT, root_directory)
  BY <1>1, <1>2, Writing DEF FirstFreeBlock, FullInv, IInv, TypeOK
<1>4. \A b \in Blocks :
         FAT'[b] = IF b = j THEN EOF_FAT_ENTRY ELSE IF b = cur THEN j ELSE FAT[b]
  BY <1>2, <1>3, SpecialValues
<1>5. j \in DataBlocks
  BY <1>3, FreeBlock
<1>6. FreeBlocks(FAT') = FreeBlocks(FAT) \ {j}
  <2>1. /\ EOF_FAT_ENTRY # FREE_FAT_ENTRY /\ j # FREE_FAT_ENTRY
        /\ FAT[cur] # FREE_FAT_ENTRY
    BY <1>3, <1>5, SpecialValues
  <2> HIDE DEF cur
  <2> QED BY <1>4, <2>1 DEF FreeBlocks
<1>7. j \in FreeBlocks(FAT)
  BY <1>3 DEF FreeBlocks
<1> QED BY <1>6, <1>7, FreeBlocksFinite, FS_RemoveElement

LEMMA PutLastByteCounts == \A byte \in Byte : FullInv /\ PutLastByte(byte) => Counts'
<1> SUFFICES ASSUME FullInv, NEW byte \in Byte, PutLastByte(byte)  PROVE Counts'
  OBVIOUS
<1> DEFINE i == H.directory_index
           cur == H.current_block
           start == root_directory[i].starting_block
           size == root_directory[i].size
<1>1. /\ call.op = "write" /\ root_directory' = Grown /\ up' = up
      /\ call.block_offset = BLOCK_SIZE - 1
  BY DEF PutLastByte, LastOfBlock
<1>2. PICK j \in Blocks :
         /\ FirstFreeBlock(FAT, j)
         /\ FAT' = [FAT EXCEPT ![cur] = j, ![j] = EOF_FAT_ENTRY]
         /\ handle_table' = [handle_table EXCEPT ![call.handle].offset = @ + 1,
                                                 ![call.handle].current_block = j]
  BY DEF PutLastByte
<1>3. /\ FAT[j] = FREE_FAT_ENTRY /\ FAT \in [Blocks -> Blocks]
      /\ i \in Files(root_directory) /\ cur \in DataBlocks
      /\ cur \in Chain(FAT, start) /\ FAT[cur] = EOF_FAT_ENTRY
      /\ Consistent(FAT, root_directory) /\ Ends(FAT, start)
  BY <1>1, <1>2, Writing DEF FirstFreeBlock, FullInv, IInv, TypeOK, Consistent, ChainsEnd
<1>4. \A b \in Blocks :
         FAT'[b] = IF b = j THEN EOF_FAT_ENTRY ELSE IF b = cur THEN j ELSE FAT[b]
  BY <1>2, <1>3, SpecialValues
<1>5. \A k \in Files(root_directory) : k # i =>
         /\ Chain(FAT', root_directory[k].starting_block)
               = Chain(FAT, root_directory[k].starting_block)
         /\ \A b \in Chain(FAT, root_directory[k].starting_block) : FAT'[b] = FAT[b]
  <2>1. /\ FAT \in [Blocks -> Blocks] /\ FAT[j] = FREE_FAT_ENTRY
        /\ i \in Files(root_directory) /\ FAT[cur] = EOF_FAT_ENTRY
        /\ cur \in Chain(FAT, root_directory[i].starting_block)
        /\ Consistent(FAT, root_directory)
    BY <1>3
  <2> HIDE DEF i, cur, start
  <2> QED BY <1>4, <2>1, ExtendConsistent
<1>6. j \in DataBlocks /\ j \notin Chain(FAT, start)
  BY <1>2, <1>3, FreeBlock
<1>7. /\ \A b \in Chain(FAT, start) :
            b \in Chain(FAT', start) /\ Distance(FAT', start, b) = Distance(FAT, start, b)
      /\ Cardinality(Chain(FAT', start)) = Cardinality(Chain(FAT, start)) + 1
  <2> HIDE DEF i, cur, start
  <2> QED BY <1>3, <1>4, <1>6, InPlaceExtended
<1>8. handle_table' = [handle_table EXCEPT ![call.handle] =
                          [H EXCEPT !.offset = @ + 1, !.current_block = j]]
  <2>1. call.handle \in Handles /\ H = handle_table[call.handle]
        /\ handle_table \in [Handles -> Handle]
    BY <1>1, Writing DEF FullInv, IInv, TypeOK
  <2>2. /\ handle_table'[call.handle] = [H EXCEPT !.offset = @ + 1, !.current_block = j]
        /\ \A g \in Handles : g # call.handle => handle_table'[g] = handle_table[g]
    BY <1>2, <2>1
  <2> QED BY <1>2, <2>1, <2>2
<1>9. /\ call'.op = "write" /\ call'.handle = call.handle /\ call'.count = call.count
      /\ call'.buffer = Append(call.buffer, byte)
      /\ call'.block_offset = 0
  BY <1>1, Writing DEF PutLastByte, Call, FullInv
<1>10. /\ H'.directory_index = i /\ H'.offset = H.offset + 1
       /\ Files(root_directory') = Files(root_directory)
       /\ root_directory'[i].size = size + 1
       /\ \A k \in DirIndexes : k # i => root_directory'[k] = root_directory[k]
       /\ \A k \in Files(root_directory) :
             root_directory'[k].starting_block = root_directory[k].starting_block
       /\ \A g \in Handles : handle_table'[g].mode = "READ" =>
             handle_table'[g] = handle_table[g]
       /\ Len(call'.buffer) = Len(call.buffer) + 1
  BY <1>1, <1>2, <1>8, <1>9, ByteWritten
<1>11. /\ size \in Nat /\ H.offset = size
       /\ call.count \in Nat /\ Len(call.buffer) \in Nat
       /\ size % BLOCK_SIZE = BLOCK_SIZE - 1
       /\ call.count - Len(call.buffer)
             <= free_space + (BLOCK_SIZE - (size % BLOCK_SIZE)) - 1
       /\ size \div BLOCK_SIZE = Cardinality(Chain(FAT, start)) - 1
  BY <1>1, WritingCounts
<1>12. /\ (size + 1) % BLOCK_SIZE = 0
       /\ (size + 1) \div BLOCK_SIZE = size \div BLOCK_SIZE + 1
  <2> HIDE DEF size
  <2> QED BY <1>11, OneByteOn
<1>13. SizeMatchesChain'
  <2>1. ASSUME NEW k \in Files(root_directory), SizesMatch(FAT, root_directory), k # i
        PROVE  root_directory'[k].size \div BLOCK_SIZE
                  = Cardinality(Chain(FAT', root_directory'[k].starting_block)) - 1
    BY <1>5, <1>10, <2>1 DEF SizesMatch, Files
  <2>2. (size + 1) \div BLOCK_SIZE = Cardinality(Chain(FAT', start)) - 1
    <3>1. Cardinality(Chain(FAT, start)) \in Nat
      BY ChainFinite
    <3>2. size \div BLOCK_SIZE = Cardinality(Chain(FAT, start)) - 1
      BY <1>11
    <3> HIDE DEF size, start
    <3> QED BY <1>7, <1>12, <3>1, <3>2
  <2>3. root_directory'[i].size \div BLOCK_SIZE
           = Cardinality(Chain(FAT', root_directory'[i].starting_block)) - 1
    BY <1>3, <1>10, <2>2
  <2> QED BY <1>10, <2>1, <2>3 DEF FullInv, SizeMatchesChain, SizesMatch
<1>14. ReadersInPlace'
  <2> SUFFICES ASSUME NEW g \in Handles, handle_table'[g].in_use, handle_table'[g].mode = "READ"
               PROVE  InPlace(FAT', root_directory', handle_table'[g])
    BY ReadersStandNext
  <2> DEFINE k == handle_table[g].directory_index
  <2>1. handle_table'[g] = handle_table[g]
    BY <1>10
  <2>2. k \in Files(root_directory) /\ InPlace(FAT, root_directory, handle_table[g])
    BY <2>1, ReadersStand DEF FullInv, InPlace
  <2>3. TypeOK'
    BY PutLastByteIInv DEF FullInv, IInv
  <2>4. root_directory[k].size \in Nat /\ k \in DirIndexes
    BY <2>2 DEF Files, FullInv, IInv, TypeOK, Entry
  <2>5. CASE k # i
    <3>1. root_directory'[k] = root_directory[k]
      BY <1>10, <2>4, <2>5
    <3>2. root_directory[k].size <= root_directory'[k].size
      BY <2>4, <3>1
    <3> HIDE DEF i
    <3> QED BY <1>5, <1>10, <2>1, <2>2, <2>3, <2>5, <3>1, <3>2, ReaderKept
  <2>6. CASE k = i
    <3>1. /\ handle_table[g].current_block \in Chain(FAT, start)
          /\ Distance(FAT, start, handle_table[g].current_block)
                = handle_table[g].offset \div BLOCK_SIZE
          /\ handle_table[g].offset <= size
      BY <2>2, <2>6 DEF InPlace
    <3>2. handle_table[g].offset \in Nat
      BY DEF FullInv, IInv, TypeOK, Handle
    <3>3. handle_table[g].offset <= size + 1
      <4>1. size \in Nat
        BY <1>11
      <4> HIDE DEF size
      <4> QED BY <3>1, <3>2, <4>1
    <3>4. /\ k \in Files(root_directory')
          /\ root_directory'[k].starting_block = start
          /\ root_directory'[k].size = size + 1
      BY <1>10, <2>2, <2>6
    <3> HIDE DEF start, size, i
    <3> QED BY <1>7, <2>1, <3>1, <3>3, <3>4 DEF InPlace
  <2> QED BY <2>5, <2>6
<1>15. DiskSizes'
  BY <1>1, CallsNeedObject DEF FullInv, DiskSizes
<1>16. Cardinality(FreeBlocks(FAT')) = Cardinality(FreeBlocks(FAT)) - 1
  BY OneBlockTaken
<1>17. CallFits'
  <2>1. free_space' = free_space - BLOCK_SIZE /\ free_space \in Int
    <3>1. Cardinality(FreeBlocks(FAT)) \in Nat /\ BLOCK_SIZE \in Nat
      BY FreeBlocksFinite, SizeAssumption
    <3>2. free_space' = (Cardinality(FreeBlocks(FAT)) - 1) * BLOCK_SIZE
      BY <1>16 DEF free_space
    <3> QED BY <3>1, <3>2 DEF free_space
  <2>2. OpenSpace(call.handle)' = free_space' + (BLOCK_SIZE - ((size + 1) % BLOCK_SIZE)) - 1
    <3>1. handle_table'[call.handle].directory_index = i
      BY <1>9, <1>10 DEF H
    <3> QED BY <1>9, <1>10, <3>1 DEF OpenSpace
  <2>3. call'.count - Len(call'.buffer) <= OpenSpace(call.handle)'
    <3>1. BLOCK_SIZE \in Nat
      BY SizeAssumption
    <3>2. call'.count = call.count /\ Len(call'.buffer) = Len(call.buffer) + 1
      BY <1>9, <1>10
    <3>3. /\ call.count \in Nat /\ Len(call.buffer) \in Nat
          /\ size % BLOCK_SIZE = BLOCK_SIZE - 1
          /\ call.count - Len(call.buffer)
                <= free_space + (BLOCK_SIZE - (size % BLOCK_SIZE)) - 1
      BY <1>11
    <3>4. (size + 1) % BLOCK_SIZE = 0
      BY <1>12
    <3> HIDE DEF size
    <3> QED BY <2>1, <2>2, <3>1, <3>2, <3>3, <3>4
  <2>4. call'.block_offset = H'.offset % BLOCK_SIZE
    <3> HIDE DEF size
    <3> QED BY <1>9, <1>10, <1>11, <1>12
  <2> HIDE DEF size
  <2> QED BY <1>9, <2>3, <2>4 DEF CallFits
<1> QED BY <1>13, <1>14, <1>15, <1>17 DEF Counts
-----------------------------------------------------------------------------
(***************************************************************************)
(* The theorems that need a device that holds every block of the FAT.      *)
(***************************************************************************)
LEMMA NextCounts == WholeDisk /\ FullInv /\ [Next]_vars => Counts'
<1> SUFFICES ASSUME WholeDisk, FullInv, [Next]_vars  PROVE Counts'
  OBVIOUS
<1>1. CASE Loop
  BY <1>1, ReadByteCounts, ReadLastByteCounts, ReadEndCounts, NoReadThrows, PutByteCounts,
     PutLastByteCounts, NoNoFreeBlock, WriteEndCounts, NoWriteThrows, FlushRootCounts DEF Loop
<1>2. CASE Request
  BY <1>2, ConstructCounts, DestroyUnformattedCounts, FlushFATCounts, FormatCounts,
     OpenReadCounts, CreateCounts, UnreadIfNotOpen, TruncateCounts, RemoveCounts, CloseCounts,
     ReadStartCounts, WriteStartCounts, DataAssumption DEF Request
<1>3. CASE \E n \in Name : NoWriter(n) /\ OpenWrite(n)
  BY <1>3, OpenWriteCounts
<1>4. CASE UNCHANGED vars
  <2>1. H' = H /\ OpenSpace(call.handle)' = OpenSpace(call.handle)
    BY <1>4 DEF vars, memory, H, OpenSpace, free_space
  <2> QED BY <1>4, <2>1 DEF vars, memory, disk, FullInv, Counts, SizeMatchesChain,
             DiskSizes, ReadersInPlace, CallFits
<1> QED BY <1>1, <1>2, <1>3, <1>4 DEF Next

LEMMA NextFullInv == WholeDisk /\ FullInv /\ [Next]_vars => FullInv'
BY NextIInv, NextNames, NextCounts DEF FullInv, Counts

LEMMA InitFullInv == Init => FullInv
<1>1. Init => NamesUnique /\ DiskNames
  BY EmptyRootEmpty, NoFilesNoNames DEF Init, NamesUnique, DiskNames
<1> QED BY <1>1, InitIInv, InitCounts DEF FullInv, Counts

\* On a device that holds every block of the FAT, every reachable state satisfies
\* the invariant that also counts blocks, bytes and free space.
THEOREM FullInvariance == WholeDisk => (Spec => []FullInv)
<1> SUFFICES ASSUME WholeDisk  PROVE Spec => []FullInv
  OBVIOUS
<1>1. Init => FullInv
  BY InitFullInv
<1>2. FullInv /\ [Next]_vars => FullInv'
  BY NextFullInv
<1> QED BY <1>1, <1>2, PTL DEF Spec

\* Before every byte of a write(), and after any calls, a file has one block for
\* each full block of its bytes and one more (write, truncate, open).
THEOREM SizesStayMatched == WholeDisk => (Spec => []SizeMatchesChain)
<1> SUFFICES ASSUME WholeDisk  PROVE Spec => []SizeMatchesChain
  OBVIOUS
<1>1. FullInv => SizeMatchesChain
  BY DEF FullInv
<1> QED BY <1>1, FullInvariance, PTL

\* A reading handle stands on the block its offset names, also at the end of its
\* file and while another handle makes the file longer (read, write).
THEOREM ReadersStayInPlace == WholeDisk => (Spec => []ReadersInPlace)
<1> SUFFICES ASSUME WholeDisk  PROVE Spec => []ReadersInPlace
  OBVIOUS
<1>1. FullInv => ReadersInPlace
  BY DEF FullInv
<1> QED BY <1>1, FullInvariance, PTL

\* When a write() fills a block the FAT has a free one: how the call cut its count
\* to the open space at its start is enough ("There must be one.").
THEOREM BlockIsThere == WholeDisk => (Spec => []BlockExpected)
<1> SUFFICES ASSUME WholeDisk  PROVE Spec => []BlockExpected
  OBVIOUS
<1>1. FullInv => BlockExpected
  BY FullInvBlockExpected
<1> QED BY <1>1, FullInvariance, PTL

\* No exception leaves the middle of a read() or of a write(): neither does the
\* device refuse a block nor the FAT lack a free one.
THEOREM NoCallThrows ==
    WholeDisk => (Spec => [][/\ ~ReadThrows /\ ~WriteThrows
                             /\ \A byte : ~NoFreeBlock(byte)]_vars)
<1> SUFFICES ASSUME WholeDisk
             PROVE  Spec => [][/\ ~ReadThrows /\ ~WriteThrows
                               /\ \A byte : ~NoFreeBlock(byte)]_vars
  OBVIOUS
<1>1. FullInv /\ [Next]_vars => [/\ ~ReadThrows /\ ~WriteThrows
                                 /\ \A byte : ~NoFreeBlock(byte)]_vars
  BY NoReadThrows, NoWriteThrows, NoNoFreeBlock
<1> QED BY <1>1, FullInvariance, PTL DEF Spec

LEMMA FullInvCheckSilent == FullInv => CheckSilent
<1> SUFFICES ASSUME FullInv, up, formatted_flag  PROVE CheckReturns(FAT, root_directory)
  BY DEF CheckSilent, Ready
<1>1. Consistent(FAT, root_directory) /\ SizesMatch(FAT, root_directory)
  BY DEF FullInv, IInv, FATConsistent, SizeMatchesChain
<1>2. \A b \in Blocks : b \in Reserved \/ b \in DataBlocks
  BY SizeAssumption DEF Blocks, Reserved, DataBlocks, BOOT_BLOCK, FAT_BLOCK, ROOT_BLOCK
<1> QED BY <1>1, <1>2 DEF CheckReturns, Consistent, ReservedIntact, NoCrossLink, NoLostBlocks

\* Between calls on a formatted file system check() does not throw, whatever calls
\* went before (check, and the shell that runs it after every command).
THEOREM CheckStaysSilent == WholeDisk => (Spec => []CheckSilent)
<1> SUFFICES ASSUME WholeDisk  PROVE Spec => []CheckSilent
  OBVIOUS
<1>1. FullInv => CheckSilent
  BY FullInvCheckSilent
<1> QED BY <1>1, FullInvariance, PTL
-----------------------------------------------------------------------------
(***************************************************************************)
(* What a step of a live object does to the entries of the directory.      *)
(***************************************************************************)
\* An entry in use after the step was in use under its name before it, or is new and
\* carries a name that was not there.
EntriesStay ==
    \A k \in Files(root_directory') :
       \/ k \in Files(root_directory) /\ root_directory'[k].name = root_directory[k].name
       \/ /\ k \notin Files(root_directory)
          /\ root_directory'[k].name \in Name
          /\ \A i \in Files(root_directory) :
                root_directory[i].name # root_directory'[k].name

LEMMA CreateEntries == \A n \in Name : IInv /\ Create(n) => EntriesStay
<1> SUFFICES ASSUME IInv, NEW n \in Name, Create(n)  PROVE EntriesStay
  OBVIOUS
<1>1. PICK i \in DirIndexes, j \in Blocks :
         /\ FirstFreeEntry(i)
         /\ root_directory' = [root_directory EXCEPT ![i] =
               [in_use |-> TRUE, name |-> n, size |-> 0, starting_block |-> j]]
  BY DEF Create
<1>2. /\ root_directory'[i].name = n
      /\ \A k \in DirIndexes : k # i => root_directory'[k] = root_directory[k]
  BY <1>1 DEF IInv, TypeOK
<1>3. i \notin Files(root_directory)
  BY <1>1 DEF FirstFreeEntry, Files
<1>4. \A k \in Files(root_directory) : root_directory[k].name # n
  BY DEF Create, Missing, Names, Files
<1> QED BY <1>2, <1>3, <1>4 DEF EntriesStay, Files

LEMMA TruncateEntries == \A n : IInv /\ Truncate(n) => EntriesStay
<1> SUFFICES ASSUME IInv, NEW n, Truncate(n)  PROVE EntriesStay
  OBVIOUS
<1>1. PICK i \in DirIndexes : root_directory' = [root_directory EXCEPT ![i].size = 0]
  BY DEF Truncate
<1>2. \A k \in DirIndexes : root_directory'[k] =
         IF k = i THEN [root_directory[k] EXCEPT !.size = 0] ELSE root_directory[k]
  BY <1>1 DEF IInv, TypeOK
<1>3. \A k \in DirIndexes : /\ root_directory'[k].in_use = root_directory[k].in_use
                            /\ root_directory'[k].name = root_directory[k].name
  BY <1>2 DEF IInv, TypeOK, Entry
<1> QED BY <1>3 DEF EntriesStay, Files

LEMMA RemoveEntries == \A n : IInv /\ Remove(n) => EntriesStay
<1> SUFFICES ASSUME IInv, NEW n, Remove(n)  PROVE EntriesStay
  OBVIOUS
<1>1. PICK i \in DirIndexes : root_directory' = [root_directory EXCEPT ![i] = UnusedEntry]
  BY DEF Remove
<1>2. \A k \in DirIndexes :
         root_directory'[k] = IF k = i THEN UnusedEntry ELSE root_directory[k]
  BY <1>1 DEF IInv, TypeOK
<1> QED BY <1>2 DEF EntriesStay, Files, UnusedEntry

LEMMA LiveStep == IInv /\ up /\ [Next]_vars => EntriesStay
<1> SUFFICES ASSUME IInv, up, [Next]_vars  PROVE EntriesStay
  OBVIOUS
<1>1. CASE UNCHANGED root_directory
  BY <1>1 DEF EntriesStay
<1>2. CASE root_directory' = EmptyRoot
  BY <1>2, EmptyRootEmpty DEF EntriesStay
<1>3. CASE \E n \in Name : Create(n) \/ Truncate(n) \/ Remove(n)
  BY <1>3, CreateEntries, TruncateEntries, RemoveEntries
<1>4. CASE call.op = "write" /\ root_directory' = Grown
  BY <1>4, GrownNames DEF EntriesStay
<1>5. CASE UNCHANGED vars
  BY <1>1, <1>5 DEF vars, memory
<1>6. CASE Loop
  <2>1. ReadByte \/ ReadLastByte \/ ReadEnd \/ ReadThrows \/ WriteEnd => UNCHANGED root_directory
    BY DEF ReadByte, ReadLastByte, ReadEnd, ReadThrows, WriteEnd
  <2>2. \A byte : PutByte(byte) \/ PutLastByte(byte) \/ NoFreeBlock(byte) => <1>4!1
    BY DEF PutByte, PutLastByte, NoFreeBlock
  <2>3. WriteThrows => UNCHANGED root_directory \/ <1>4!1
    BY DEF WriteThrows
  <2>4. FlushRoot => root_directory' = EmptyRoot
    BY DEF FlushRoot, Discarded
  <2> QED BY <1>1, <1>2, <1>4, <1>6, <2>1, <2>2, <2>3, <2>4 DEF Loop
<1>7. CASE Request
  <2>1. ~Construct
    BY DEF Construct
  <2>2. DestroyUnformatted \/ Format => root_directory' = EmptyRoot
    BY DEF DestroyUnformatted, Discarded, Format
  <2>3. FlushFAT => UNCHANGED root_directory
    BY DEF FlushFAT
  <2>4. \A n : OpenRead(n) => UNCHANGED root_directory
    BY DEF OpenRead
  <2>5. \A h, count : Close(h) \/ ReadStart(h, count) \/ WriteStart(h, count)
           => UNCHANGED root_directory
    BY DEF Close, ReadStart, WriteStart, Start
  <2> QED BY <1>1, <1>2, <1>3, <1>7, <2>1, <2>2, <2>3, <2>4, <2>5 DEF Request
<1>8. CASE \E n \in Name : NoWriter(n) /\ OpenWrite(n)
  BY <1>1, <1>8 DEF OpenWrite
<1> QED BY <1>5, <1>6, <1>7, <1>8 DEF Next
-----------------------------------------------------------------------------
(***************************************************************************)
(* Every entry in use carries a name, in memory and on the disk.           *)
(***************************************************************************)
Named(r) == \A i \in Files(r) : r[i].name \in Name
AllNamed == Named(root_directory) /\ (~up /\ disk_boot => Named(disk_root))

LEMMA InitNamed == Init => AllNamed
BY EmptyRootEmpty DEF Init, AllNamed, Named

LEMMA NextNamed == IInv /\ AllNamed /\ [Next]_vars => AllNamed'
<1> SUFFICES ASSUME IInv, AllNamed, [Next]_vars  PROVE AllNamed'
  OBVIOUS
<1>1. CASE up
  <2>1. Named(root_directory')
    BY <1>1, LiveStep DEF EntriesStay, AllNamed, Named
  <2>2. ASSUME ~up', disk_boot'  PROVE disk_root' = root_directory
    <3>1. CASE Loop
      <4>1. ~(ReadByte \/ ReadLastByte \/ ReadEnd \/ ReadThrows \/ WriteEnd \/ WriteThrows)
        BY <1>1, <2>2 DEF ReadByte, ReadLastByte, ReadEnd, ReadThrows, WriteEnd, WriteThrows
      <4>2. \A byte : ~(PutByte(byte) \/ PutLastByte(byte) \/ NoFreeBlock(byte))
        BY <1>1, <2>2 DEF PutByte, PutLastByte, NoFreeBlock
      <4> QED BY <3>1, <4>1, <4>2 DEF Loop, FlushRoot
    <3>2. CASE Request
      <4>1. ~DestroyUnformatted
        <5>1. DestroyUnformatted => ~disk_boot'
          BY DEF DestroyUnformatted, Ready, IInv, FlagsOK, disk
        <5> QED BY <2>2, <5>1
      <4>2. ~(Construct \/ FlushFAT \/ Format)
        BY <1>1, <2>2 DEF Construct, FlushFAT, Format
      <4>3. \A n : ~(OpenRead(n) \/ Create(n) \/ Truncate(n) \/ Remove(n))
        BY <1>1, <2>2 DEF OpenRead, Create, Truncate, Remove
      <4>4. \A h, count : ~(Close(h) \/ ReadStart(h, count) \/ WriteStart(h, count))
        BY <1>1, <2>2 DEF Close, ReadStart, WriteStart, Start
      <4> QED BY <3>2, <4>1, <4>2, <4>3, <4>4 DEF Request
    <3>3. CASE \E n \in Name : NoWriter(n) /\ OpenWrite(n)
      BY <1>1, <2>2, <3>3 DEF OpenWrite
    <3>4. CASE UNCHANGED vars
      BY <1>1, <2>2, <3>4 DEF vars, memory
    <3> QED BY <3>1, <3>2, <3>3, <3>4 DEF Next
  <2> QED BY <2>1, <2>2 DEF AllNamed
<1>2. CASE ~up
  <2>1. Construct \/ UNCHANGED vars
    <3>1. CASE Loop
      BY <1>2, <3>1, CallsNeedObject DEF Loop, ReadByte, ReadLastByte, ReadEnd, ReadThrows,
         PutByte, PutLastByte, NoFreeBlock, WriteEnd, WriteThrows, FlushRoot
    <3>2. CASE Request
      BY <1>2, <3>2 DEF Request, DestroyUnformatted, FlushFAT, Format, OpenRead, Create,
         Truncate, Remove, Close, ReadStart, WriteStart, Ready
    <3>3. CASE \E n \in Name : NoWriter(n) /\ OpenWrite(n)
      BY <1>2, <3>3 DEF OpenWrite, Ready
    <3> QED BY <3>1, <3>2, <3>3 DEF Next
  <2>2. CASE Construct
    BY <2>2 DEF Construct, AllNamed, Named
  <2>3. CASE UNCHANGED vars
    BY <2>3 DEF vars, memory, disk, AllNamed
  <2> QED BY <2>1, <2>2, <2>3
<1> QED BY <1>1, <1>2
=============================================================================
