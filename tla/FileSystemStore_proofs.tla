----------------------- MODULE FileSystemStore_proofs -----------------------
(***************************************************************************)
(* Proof that FileSystem implements FileStore: what callers see of a file  *)
(* is a sequence of bytes, though it lies in blocks all over the device    *)
(* and its last block in the buffer of a write().  As for what counts      *)
(* blocks, the device holds every block of the FAT (shell.cpp:236).        *)
(***************************************************************************)
EXTENDS FileSystemStore, FileSystemCounts_proofs, SequenceTheorems

-----------------------------------------------------------------------------
(***************************************************************************)
(* On a chain that ends there is one block at every distance.              *)
(***************************************************************************)
\* Of two blocks of a chain, one lies on the chain from the other.
LEMMA ChainLinear ==
    ASSUME NEW f, NEW s, Ends(f, s), NEW c \in Chain(f, s), NEW d \in Chain(f, s)
    PROVE  c \in Chain(f, d) \/ d \in Chain(f, c)
<1> DEFINE T == {b \in Chain(f, s) : c \in Chain(f, b) \/ b \in Chain(f, c)}
<1>1. /\ Chain(f, s) \in Closed(f) /\ s \in Chain(f, s)
      /\ \A b \in Chain(f, s) : Chain(f, b) \in Closed(f) /\ b \in Chain(f, b)
  BY ChainIsClosed DEF Ends
<1>2. c \in Chain(f, s)
  OBVIOUS
<1>3. s \in T
  BY <1>1
<1>4. ASSUME NEW b \in T, f[b] # EOF_FAT_ENTRY  PROVE f[b] \in T
  <2>1. f[b] \in Chain(f, s) /\ Chain(f, b) = {b} \cup Chain(f, f[b])
    BY <1>1, <1>4, NextInChain
  <2>2. CASE b \in Chain(f, c)
    <3>1. f[b] \in Chain(f, c)
      BY <1>1, <1>4, <2>2, NextInChain
    <3> QED BY <2>1, <3>1
  <2>3. CASE c = b
    <3>1. f[b] \in Chain(f, c)
      BY <1>1, <1>4, <2>3, NextInChain
    <3> QED BY <2>1, <3>1
  <2>4. CASE c \in Chain(f, f[b])
    BY <2>1, <2>4
  <2> QED BY <2>1, <2>2, <2>3, <2>4
<1>5. T \in Closed(f)
  BY <1>1, <1>4 DEF Closed
<1>6. Chain(f, s) \subseteq T
  BY <1>3, <1>5, ChainIsClosed
<1> QED BY <1>6

\* A block behind another one has the shorter chain.
LEMMA ChainShrinks ==
    ASSUME NEW f, NEW s, Ends(f, s), NEW c \in Chain(f, s), NEW d \in Chain(f, c), c # d
    PROVE  Cardinality(Chain(f, d)) < Cardinality(Chain(f, c))
<1>1. PICK e \in Chain(f, s) : f[e] = EOF_FAT_ENTRY
  BY DEF Ends
<1>2. Ends(f, c)
  BY <1>1, ChainWithin
<1>3. f[c] # EOF_FAT_ENTRY
  <2>1. c \in DataBlocks
    BY DEF Chain
  <2> QED BY <2>1, LastInChain
<1>4. /\ Chain(f, c) = {c} \cup Chain(f, f[c])
      /\ Cardinality(Chain(f, c)) = Cardinality(Chain(f, f[c])) + 1
  BY <1>2, <1>3, NoWayBack
<1>5. d \in Chain(f, f[c])
  BY <1>4
<1>6. Chain(f, f[c]) \in Closed(f)
  <2>1. Chain(f, s) \in Closed(f)
    BY ChainIsClosed DEF Ends
  <2>2. f[c] \in Chain(f, s)
    BY <1>3, <2>1, NextInChain
  <2> QED BY <2>1, <2>2, ChainIsClosed
<1>7. Chain(f, d) \subseteq Chain(f, f[c])
  BY <1>5, <1>6, ChainIsClosed
<1>8. Cardinality(Chain(f, d)) <= Cardinality(Chain(f, f[c]))
  BY <1>7, ChainFinite, FS_Subset
<1> QED BY <1>4, <1>8, ChainFinite

LEMMA OneBlockAt ==
    ASSUME NEW f, NEW s, Ends(f, s), NEW c \in Chain(f, s), NEW d \in Chain(f, s),
           Distance(f, s, c) = Distance(f, s, d)
    PROVE  c = d
<1>1. Cardinality(Chain(f, c)) = Cardinality(Chain(f, d))
  BY ChainFinite DEF Distance
<1> QED BY <1>1, ChainLinear, ChainShrinks, ChainFinite

\* The last block is the one at the largest distance.
LEMMA LastBlockAt ==
    ASSUME NEW f, NEW s, Ends(f, s), NEW e \in Chain(f, s), f[e] = EOF_FAT_ENTRY
    PROVE  Distance(f, s, e) = Cardinality(Chain(f, s)) - 1
<1>1. e \in DataBlocks
  BY DEF Chain
<1> QED BY <1>1, LastInChain DEF Distance

LEMMA SomeBlockAt ==
    ASSUME NEW f, NEW s, Ends(f, s), NEW k \in Nat, k < Cardinality(Chain(f, s))
    PROVE  \E b \in Chain(f, s) : Distance(f, s, b) = k
<1> SUFFICES ASSUME \A b \in Chain(f, s) : Distance(f, s, b) # k  PROVE FALSE
  OBVIOUS
<1> DEFINE T == {b \in Chain(f, s) : Distance(f, s, b) < k}
<1>1. \A b : Distance(f, s, b) \in Int
  BY ChainFinite DEF Distance
<1>2. Chain(f, s) \in Closed(f)
  BY ChainIsClosed DEF Ends
<1>3. s \in T
  <2>1. s \in Chain(f, s) /\ Distance(f, s, s) = 0
    BY StartInPlace
  <2> QED BY <2>1
<1>4. PICK e \in Chain(f, s) : f[e] = EOF_FAT_ENTRY
  BY DEF Ends
<1>5. ASSUME NEW b \in T, f[b] # EOF_FAT_ENTRY  PROVE f[b] \in T
  <2>1. f[b] \in Chain(f, s)
    BY <1>2, <1>5, NextInChain
  <2>2. Ends(f, b)
    BY <1>4, ChainWithin
  <2>3. Cardinality(Chain(f, b)) = Cardinality(Chain(f, f[b])) + 1
    BY <1>5, <2>2, NoWayBack
  <2>4. Distance(f, s, f[b]) = Distance(f, s, b) + 1
    BY <2>3, ChainFinite DEF Distance
  <2>5. Distance(f, s, f[b]) # k /\ Distance(f, s, b) < k
    BY <2>1
  <2> HIDE DEF T
  <2>6. Distance(f, s, f[b]) < k
    BY <1>1, <2>4, <2>5
  <2> QED BY <2>1, <2>6 DEF T
<1>6. T \in Closed(f)
  BY <1>2, <1>5 DEF Closed
<1>7. e \in T
  BY <1>3, <1>4, <1>6, ChainIsClosed
<1>8. Distance(f, s, e) = Cardinality(Chain(f, s)) - 1 /\ Distance(f, s, e) < k
  BY <1>4, <1>7, LastBlockAt
<1> QED BY <1>8, ChainFinite
-----------------------------------------------------------------------------
(***************************************************************************)
(* The bytes of a chain.                                                   *)
(***************************************************************************)
\* The chain from s holds the bytes x, one after the other.
HoldsBytes(f, s, data, x) ==
    \A k \in 1 .. Len(x), b \in Chain(f, s) :
       Distance(f, s, b) = (k - 1) \div BLOCK_SIZE => data[b][(k - 1) % BLOCK_SIZE] = x[k]

\* There is a block for each of n bytes.
HasBlocks(f, s, n) == n = 0 \/ (n - 1) \div BLOCK_SIZE < Cardinality(Chain(f, s))

LEMMA BlockOfByte ==
    ASSUME NEW f, NEW s, Ends(f, s), NEW n \in Nat, HasBlocks(f, s, n), NEW k \in 1 .. n
    PROVE  LET d == (k - 1) \div BLOCK_SIZE IN
           /\ d \in Nat
           /\ BlockOf(f, s, d) \in Chain(f, s)
           /\ Distance(f, s, BlockOf(f, s, d)) = d
<1> DEFINE d == (k - 1) \div BLOCK_SIZE
<1>1. k - 1 \in Nat /\ n - 1 \in Nat /\ k - 1 <= n - 1 /\ n # 0
  OBVIOUS
<1>2. d \in Nat /\ d <= (n - 1) \div BLOCK_SIZE /\ (n - 1) \div BLOCK_SIZE \in Nat
  BY <1>1, DivMod, DivMonotone
<1>3. (n - 1) \div BLOCK_SIZE < Cardinality(Chain(f, s))
  BY <1>1 DEF HasBlocks
<1>4. d < Cardinality(Chain(f, s))
  <2> HIDE DEF d
  <2> QED BY <1>2, <1>3, ChainFinite
<1>5. \E b \in Chain(f, s) : Distance(f, s, b) = d
  BY <1>2, <1>4, SomeBlockAt
<1> QED BY <1>2, <1>5 DEF BlockOf

LEMMA BytesHold ==
    ASSUME NEW f, NEW s, Ends(f, s), NEW data, NEW n \in Nat, HasBlocks(f, s, n)
    PROVE  HoldsBytes(f, s, data, BytesOf(f, s, data, n))
<1> DEFINE x == BytesOf(f, s, data, n)
<1>1. Len(x) = n /\ \A k \in 1 .. n : x[k] =
         data[BlockOf(f, s, (k - 1) \div BLOCK_SIZE)][(k - 1) % BLOCK_SIZE]
  BY DEF BytesOf
<1>2. ASSUME NEW k \in 1 .. n, NEW b \in Chain(f, s),
             Distance(f, s, b) = (k - 1) \div BLOCK_SIZE
      PROVE  b = BlockOf(f, s, (k - 1) \div BLOCK_SIZE)
  BY <1>2, BlockOfByte, OneBlockAt
<1> HIDE DEF x
<1>3. HoldsBytes(f, s, data, x)
  BY <1>1, <1>2 DEF HoldsBytes
<1> QED BY <1>3 DEF x

LEMMA BytesAre ==
    ASSUME NEW f, NEW s, Ends(f, s), NEW data, NEW S, NEW x \in Seq(S),
           HasBlocks(f, s, Len(x)), HoldsBytes(f, s, data, x)
    PROVE  BytesOf(f, s, data, Len(x)) = x
<1>1. Len(x) \in Nat /\ x = [k \in 1 .. Len(x) |-> x[k]]
  BY LenProperties
<1>2. ASSUME NEW k \in 1 .. Len(x)
      PROVE  data[BlockOf(f, s, (k - 1) \div BLOCK_SIZE)][(k - 1) % BLOCK_SIZE] = x[k]
  BY <1>1, BlockOfByte DEF HoldsBytes
<1> QED BY <1>1, <1>2 DEF BytesOf

\* Bytes lie on the disk.
LEMMA BytesType ==
    ASSUME WholeDisk, NEW f, NEW s, Ends(f, s), NEW data \in [DiskBlocks -> Contents],
           NEW n \in Nat, HasBlocks(f, s, n)
    PROVE  BytesOf(f, s, data, n) \in Seq(Byte) /\ Len(BytesOf(f, s, data, n)) = n
<1>1. DataBlocks \subseteq DiskBlocks
  BY SizeAssumption DEF WholeDisk, DataBlocks, DiskBlocks
<1>2. ASSUME NEW k \in 1 .. n
      PROVE  data[BlockOf(f, s, (k - 1) \div BLOCK_SIZE)][(k - 1) % BLOCK_SIZE] \in Byte
  <2>1. BlockOf(f, s, (k - 1) \div BLOCK_SIZE) \in DiskBlocks
    BY <1>1, BlockOfByte DEF Chain
  <2>2. k - 1 \in Nat
    OBVIOUS
  <2>3. (k - 1) % BLOCK_SIZE \in 0 .. BLOCK_SIZE - 1
    BY <2>2, DivMod
  <2> QED BY <2>1, <2>3 DEF Contents
<1>3. BytesOf(f, s, data, n) \in [1 .. n -> Byte]
  BY <1>2 DEF BytesOf
<1> QED BY <1>3

\* A file whose chain and whose blocks are left alone keeps its bytes.
LEMMA BytesKept ==
    ASSUME NEW f, NEW g, NEW s, Ends(f, s), NEW data, NEW next, NEW n \in Nat,
           HasBlocks(f, s, n),
           \A b \in Chain(f, s) : g[b] = f[b] /\ next[b] = data[b]
    PROVE  /\ HasBlocks(g, s, n)
           /\ BytesOf(g, s, next, n) = BytesOf(f, s, data, n)
<1>1. Chain(g, s) = Chain(f, s) /\ Ends(g, s)
  BY EndsAgrees
<1>2. \A b \in Chain(f, s) : Chain(g, b) = Chain(f, b)
  BY ChainLeftAlone
<1>3. \A b \in Chain(f, s) : Distance(g, s, b) = Distance(f, s, b)
  BY <1>1, <1>2 DEF Distance
<1>4. HasBlocks(g, s, n)
  BY <1>1 DEF HasBlocks
<1>5. ASSUME NEW k \in 1 .. n
      PROVE  BlockOf(g, s, (k - 1) \div BLOCK_SIZE) = BlockOf(f, s, (k - 1) \div BLOCK_SIZE)
             /\ BlockOf(f, s, (k - 1) \div BLOCK_SIZE) \in Chain(f, s)
  <2>1. /\ BlockOf(f, s, (k - 1) \div BLOCK_SIZE) \in Chain(f, s)
        /\ Distance(f, s, BlockOf(f, s, (k - 1) \div BLOCK_SIZE)) = (k - 1) \div BLOCK_SIZE
    BY BlockOfByte
  <2>2. /\ BlockOf(g, s, (k - 1) \div BLOCK_SIZE) \in Chain(g, s)
        /\ Distance(g, s, BlockOf(g, s, (k - 1) \div BLOCK_SIZE)) = (k - 1) \div BLOCK_SIZE
    BY <1>1, <1>4, BlockOfByte
  <2> QED BY <1>1, <1>3, <2>1, <2>2, OneBlockAt
<1> QED BY <1>4, <1>5 DEF BytesOf

\* In table g, block j is chained on behind the last block cur of a chain of f.
ExtendedBy(f, g, s, cur, j) ==
    /\ f \in [Blocks -> Blocks] /\ Ends(f, s)
    /\ cur \in Chain(f, s) /\ f[cur] = EOF_FAT_ENTRY
    /\ j \in DataBlocks /\ j \notin Chain(f, s)
    /\ \A b \in Blocks : g[b] = IF b = j THEN EOF_FAT_ENTRY ELSE IF b = cur THEN j ELSE f[b]

SameOn(S, data, next) == \A b \in S : next[b] = data[b]

\* So do bytes whose file gets one more block at its end.
LEMMA HeldByExtended ==
    ASSUME NEW f, NEW g, NEW s, NEW cur, NEW j, ExtendedBy(f, g, s, cur, j),
           NEW data, NEW next, SameOn(Chain(f, s), data, next),
           NEW x, Len(x) \in Nat, HasBlocks(f, s, Len(x)), HoldsBytes(f, s, data, x)
    PROVE  /\ Ends(g, s)
           /\ HasBlocks(g, s, Len(x))
           /\ HoldsBytes(g, s, next, x)
<1>1. /\ f \in [Blocks -> Blocks] /\ Ends(f, s)
      /\ cur \in Chain(f, s) /\ f[cur] = EOF_FAT_ENTRY
      /\ j \in DataBlocks /\ j \notin Chain(f, s)
      /\ \A b \in Blocks : g[b] = IF b = j THEN EOF_FAT_ENTRY ELSE IF b = cur THEN j ELSE f[b]
      /\ \A b \in Chain(f, s) : next[b] = data[b]
  BY DEF ExtendedBy, SameOn
<1>2. Chain(g, s) = Chain(f, s) \cup {j} /\ Ends(g, s)
  BY <1>1, ChainExtends
<1>3. \A b \in Chain(f, s) :
         /\ b \in Chain(g, s)
         /\ Distance(g, s, b) = Distance(f, s, b)
         /\ Cardinality(Chain(g, s)) = Cardinality(Chain(f, s)) + 1
  BY <1>1, InPlaceExtended
<1>4. Cardinality(Chain(g, s)) = Cardinality(Chain(f, s)) + 1
  BY <1>1, <1>3
<1>5. Len(x) \in Nat
  OBVIOUS
<1>6. HasBlocks(g, s, Len(x))
  <2>1. CASE Len(x) = 0
    BY <2>1 DEF HasBlocks
  <2>2. CASE Len(x) # 0
    <3>1. Len(x) - 1 \in Nat
      BY <1>5, <2>2
    <3>2. (Len(x) - 1) \div BLOCK_SIZE \in Nat
      BY <3>1, DivMod
    <3>3. (Len(x) - 1) \div BLOCK_SIZE < Cardinality(Chain(f, s))
      BY <2>2 DEF HasBlocks
    <3>4. (Len(x) - 1) \div BLOCK_SIZE < Cardinality(Chain(g, s))
      BY <1>4, <3>2, <3>3, ChainFinite
    <3> QED BY <3>4 DEF HasBlocks
  <2> QED BY <2>1, <2>2
<1>7. ASSUME NEW k \in 1 .. Len(x), NEW b \in Chain(g, s),
             Distance(g, s, b) = (k - 1) \div BLOCK_SIZE
      PROVE  next[b][(k - 1) % BLOCK_SIZE] = x[k]
  <2>1. PICK c \in Chain(f, s) : Distance(f, s, c) = (k - 1) \div BLOCK_SIZE
    BY <1>1, <1>5, BlockOfByte
  <2>2. c = b
    BY <1>2, <1>3, <1>7, <2>1, OneBlockAt
  <2> QED BY <1>1, <2>1, <2>2 DEF HoldsBytes
<1> QED BY <1>2, <1>6, <1>7 DEF HoldsBytes
-----------------------------------------------------------------------------
(***************************************************************************)
(* The inductive invariant.  What a call has moved is known in terms of    *)
(* the file's bytes: a read() has the bytes before its handle's offset,    *)
(* and once the block buffer of a write() is written back, the file is     *)
(* what it was, with the call's bytes behind it.                           *)
(***************************************************************************)
CallFile == root_directory[H.directory_index]

CallKept == /\ ~disk_boot => Files(disk_root) = {}
            /\ call.op \notin {"read", "write"} => call.buffer = << >>
            /\ call.op \in {"read", "write"} => /\ call.count \in 1 .. LongestCount
                                                /\ Len(call.buffer) <= call.count

ReadSoFar == call.op = "read" =>
    /\ call.block_buffer = disk_data[H.current_block]
    /\ Len(call.buffer) <= H.offset
    /\ call.buffer = SubSeq(FileBytes(H.directory_index),
                            H.offset - Len(call.buffer) + 1, H.offset)

WrittenBack == [disk_data EXCEPT ![H.current_block] = call.block_buffer]

WrittenSoFar == call.op = "write" =>
    /\ Len(call.buffer) <= CallFile.size
    /\ BytesOf(FAT, CallFile.starting_block, WrittenBack, CallFile.size)
          = FileBytes(H.directory_index) \o call.buffer

StoreInv == /\ FullInv /\ AllNamed
            /\ CallKept
            /\ ReadSoFar
            /\ WrittenSoFar

LEMMA LongestCountIs == LongestCount \in Count /\ \A c \in Count : c \in Nat /\ c <= LongestCount
BY StoreAssumption, DataAssumption DEF LongestCount

LEMMA EnoughBlocks ==
    ASSUME NEW f, NEW s, NEW size \in Nat, NEW n \in Nat, n <= size + 1,
           size \div BLOCK_SIZE = Cardinality(Chain(f, s)) - 1
    PROVE  HasBlocks(f, s, n)
<1> SUFFICES ASSUME n # 0  PROVE (n - 1) \div BLOCK_SIZE < Cardinality(Chain(f, s))
  BY DEF HasBlocks
<1>1. n - 1 \in Nat /\ n - 1 <= size
  OBVIOUS
<1>2. (n - 1) \div BLOCK_SIZE <= size \div BLOCK_SIZE
  BY <1>1, DivMonotone
<1>3. (n - 1) \div BLOCK_SIZE \in Nat /\ size \div BLOCK_SIZE \in Nat
  BY <1>1, DivMod
<1> QED BY <1>2, <1>3, ChainFinite

\* The tables that count are those of a file system.
LEMMA TheTables ==
    ASSUME FullInv, AllNamed, CallKept
    PROVE  /\ UniqueNames(TheRoot)
           /\ TheRoot \in [DirIndexes -> Entry]
           /\ \A i \in Files(TheRoot) :
                 /\ TheRoot[i].name \in Name
                 /\ TheRoot[i].size \in Nat
                 /\ Ends(TheFAT, TheRoot[i].starting_block)
                 /\ \A n \in 0 .. TheRoot[i].size + 1 :
                       HasBlocks(TheFAT, TheRoot[i].starting_block, n)
<1>1. TheRoot \in [DirIndexes -> Entry]
  BY DEF TheRoot, FullInv, IInv, TypeOK
<1>2. UniqueNames(TheRoot)
  <2>1. CASE ~up /\ ~disk_boot
    BY <2>1, NoFilesNoNames DEF TheRoot, CallKept
  <2> QED BY <2>1 DEF TheRoot, FullInv, NamesUnique, DiskNames
<1>3. ASSUME NEW i \in Files(TheRoot)
      PROVE  /\ TheRoot[i].name \in Name
             /\ ChainsEnd(TheFAT, TheRoot)
             /\ SizesMatch(TheFAT, TheRoot)
  <2>1. CASE up
    <3>1. formatted_flag
      BY <1>3, <2>1 DEF TheRoot, FullInv, IInv, FlagsOK
    <3> QED BY <1>3, <2>1, <3>1 DEF TheRoot, TheFAT, FullInv, IInv, FATConsistent, Consistent,
          SizeMatchesChain, AllNamed, Named
  <2>2. CASE ~up
    <3>1. disk_boot
      BY <1>3, <2>2 DEF TheRoot, CallKept
    <3> QED BY <1>3, <2>2, <3>1 DEF TheRoot, TheFAT, FullInv, IInv, DiskConsistent, Consistent,
          DiskSizes, AllNamed, Named
  <2> QED BY <2>1, <2>2
<1>4. ASSUME NEW i \in Files(TheRoot)
      PROVE  /\ TheRoot[i].size \in Nat
             /\ Ends(TheFAT, TheRoot[i].starting_block)
             /\ TheRoot[i].size \div BLOCK_SIZE
                   = Cardinality(Chain(TheFAT, TheRoot[i].starting_block)) - 1
  <2>1. TheRoot[i] \in Entry
    BY <1>1 DEF Files
  <2> QED BY <1>3, <2>1 DEF ChainsEnd, SizesMatch, Entry
<1>5. ASSUME NEW i \in Files(TheRoot), NEW n \in 0 .. TheRoot[i].size + 1
      PROVE  HasBlocks(TheFAT, TheRoot[i].starting_block, n)
  <2>1. n \in Nat /\ n <= TheRoot[i].size + 1
    BY <1>4
  <2> QED BY <1>4, <2>1, EnoughBlocks
<1> QED BY <1>1, <1>2, <1>3, <1>4, <1>5
-----------------------------------------------------------------------------
(***************************************************************************)
(* A write() under way, and one byte more.                                 *)
(***************************************************************************)
LEMMA Appending ==
    ASSUME WholeDisk, StoreInv, call.op = "write"
    PROVE  LET i    == H.directory_index
               s    == CallFile.starting_block
               size == CallFile.size
               kept == FileBytes(H.directory_index)
           IN  /\ up /\ i \in Files(root_directory) /\ i \in Files(TheRoot)
               /\ TheRoot = root_directory /\ TheFAT = FAT
               /\ FAT \in [Blocks -> Blocks] /\ Ends(FAT, s)
               /\ H.current_block \in Chain(FAT, s) /\ H.current_block \in DiskBlocks
               /\ FAT[H.current_block] = EOF_FAT_ENTRY
               /\ Distance(FAT, s, H.current_block) = size \div BLOCK_SIZE
               /\ size \in Nat /\ H.offset = size
               /\ \A n \in 0 .. size + 1 : HasBlocks(FAT, s, n)
               /\ call.block_offset = size % BLOCK_SIZE
               /\ call.buffer \in Seq(Byte) /\ Len(call.buffer) \in Nat
               /\ Len(call.buffer) <= size
               /\ kept = BytesOf(FAT, s, disk_data, size - Len(call.buffer))
               /\ kept \in Seq(Byte) /\ Len(kept) = size - Len(call.buffer)
               /\ WrittenBack \in [DiskBlocks -> Contents]
               /\ BytesOf(FAT, s, WrittenBack, size) = kept \o call.buffer
               /\ HoldsBytes(FAT, s, WrittenBack, kept \o call.buffer)
<1> DEFINE i    == H.directory_index
           s    == CallFile.starting_block
           size == CallFile.size
           kept == FileBytes(H.directory_index)
           len  == Len(call.buffer)
<1> USE DEF StoreInv
<1>1. /\ up /\ call \in Call
      /\ i \in Files(root_directory)
      /\ H.current_block \in Chain(FAT, s)
      /\ FAT[H.current_block] = EOF_FAT_ENTRY
      /\ H.current_block \in DataBlocks
  BY Writing DEF FullInv, CallFile
<1>2. TheRoot = root_directory /\ TheFAT = FAT
  BY <1>1 DEF TheRoot, TheFAT
<1>3. /\ Ends(FAT, s)
      /\ \A n \in 0 .. size + 1 : HasBlocks(FAT, s, n)
  BY <1>1, <1>2, TheTables DEF CallFile
<1>4. /\ size \in Nat /\ H.offset = size /\ len \in Nat
      /\ call.block_offset = size % BLOCK_SIZE
      /\ FAT \in [Blocks -> Blocks]
      /\ size \div BLOCK_SIZE = Cardinality(Chain(FAT, s)) - 1
  BY WritingCounts DEF CallFile
<1>5. H.current_block \in DiskBlocks
  BY <1>1, SizeAssumption DEF WholeDisk, DataBlocks, DiskBlocks
<1>6. Distance(FAT, s, H.current_block) = size \div BLOCK_SIZE
  BY <1>1, <1>3, <1>4, LastBlockAt
<1>7. call.buffer \in Seq(Byte) /\ call.block_buffer \in Contents
  BY <1>1 DEF Call
<1>8. /\ len <= size
      /\ BytesOf(FAT, s, WrittenBack, size) = kept \o call.buffer
  BY DEF WrittenSoFar
<1>9. Pending(i) = len
  BY DEF Pending
<1>10. kept = BytesOf(FAT, s, disk_data, size - len)
  BY <1>2, <1>9 DEF FileBytes, CallFile
<1>11. disk_data \in [DiskBlocks -> Contents]
  BY DEF FullInv, IInv, TypeOK
<1>12. WrittenBack \in [DiskBlocks -> Contents]
  BY <1>7, <1>11 DEF WrittenBack
<1>13. size - len \in Nat /\ HasBlocks(FAT, s, size - len) /\ HasBlocks(FAT, s, size)
  <2>1. size - len \in 0 .. size + 1 /\ size \in 0 .. size + 1
    <3> HIDE DEF size, len
    <3> QED BY <1>4, <1>8
  <2> QED BY <1>3, <2>1
<1>14. kept \in Seq(Byte) /\ Len(kept) = size - len
  <2> HIDE DEF size, len, s, kept
  <2> QED BY <1>3, <1>10, <1>11, <1>13, BytesType
<1>15. HoldsBytes(FAT, s, WrittenBack, kept \o call.buffer)
  <2> HIDE DEF size, len, s, kept
  <2> QED BY <1>3, <1>4, <1>8, <1>13, BytesHold
<1> QED BY <1>1, <1>2, <1>3, <1>4, <1>5, <1>6, <1>7, <1>8, <1>10, <1>12, <1>14, <1>15

LEMMA AppendBehind ==
    ASSUME NEW S, NEW a \in Seq(S), NEW b \in Seq(S), NEW e \in S
    PROVE  a \o Append(b, e) = Append(a \o b, e)
<1>1. a \o b \in Seq(S) /\ <<e>> \in Seq(S)
  BY ConcatProperties
<1> QED BY <1>1, AppendIsConcat, ConcatAssociative

\* The next byte comes behind the others, wherever the block it goes to lies.
LEMMA OneByteMore ==
    ASSUME WholeDisk, StoreInv, call.op = "write", NEW byte \in Byte,
           NEW next, next = [disk_data EXCEPT ![H.current_block] = Filled(byte)]
    PROVE  LET s == CallFile.starting_block
               x == FileBytes(H.directory_index) \o Append(call.buffer, byte)
           IN  /\ x \in Seq(Byte) /\ Len(x) = CallFile.size + 1
               /\ Append(call.buffer, byte) \in Seq(Byte)
               /\ Len(Append(call.buffer, byte)) = Len(call.buffer) + 1
               /\ HoldsBytes(FAT, s, next, x)
<1> DEFINE s    == CallFile.starting_block
           size == CallFile.size
           kept == FileBytes(H.directory_index)
           cur  == H.current_block
           old  == kept \o call.buffer
           x    == kept \o Append(call.buffer, byte)
<1>1. /\ Ends(FAT, s) /\ cur \in Chain(FAT, s) /\ cur \in DiskBlocks
      /\ Distance(FAT, s, cur) = size \div BLOCK_SIZE
      /\ size \in Nat /\ call.block_offset = size % BLOCK_SIZE
      /\ call.buffer \in Seq(Byte) /\ Len(call.buffer) \in Nat
      /\ kept \in Seq(Byte) /\ Len(kept) = size - Len(call.buffer)
      /\ HoldsBytes(FAT, s, WrittenBack, old)
  BY Appending
<1>2. Len(kept) + Len(call.buffer) = size
  <2> HIDE DEF kept, size
  <2> QED BY <1>1
<1>3. /\ Ends(FAT, s) /\ cur \in Chain(FAT, s) /\ cur \in DiskBlocks
      /\ Distance(FAT, s, cur) = size \div BLOCK_SIZE
      /\ size \in Nat /\ call.block_offset = size % BLOCK_SIZE
      /\ call.buffer \in Seq(Byte)
      /\ kept \in Seq(Byte) /\ Len(kept) + Len(call.buffer) = size
      /\ HoldsBytes(FAT, s, WrittenBack, old)
  BY <1>1, <1>2
<1>4. /\ Append(call.buffer, byte) \in Seq(Byte)
      /\ Len(Append(call.buffer, byte)) = Len(call.buffer) + 1
      /\ \A k \in 1 .. Len(call.buffer) : Append(call.buffer, byte)[k] = call.buffer[k]
      /\ Append(call.buffer, byte)[Len(call.buffer) + 1] = byte
  BY <1>3, AppendProperties
<1>5. /\ x \in Seq(Byte) /\ Len(x) = size + 1
      /\ Len(old) = size
      /\ \A k \in 1 .. size : x[k] = old[k]
      /\ x[size + 1] = byte
  <2>1. kept \in Seq(Byte) /\ call.buffer \in Seq(Byte)
    BY <1>3
  <2> HIDE DEF kept
  <2>2. x = Append(old, byte)
    BY <2>1, AppendBehind
  <2>3. old \in Seq(Byte) /\ Len(old) = size
    BY <1>3, ConcatProperties
  <2> HIDE DEF old, x
  <2> QED BY <2>2, <2>3, AppendProperties
<1>6. /\ \A b \in DiskBlocks : b # cur => next[b] = WrittenBack[b]
      /\ next[cur] = [WrittenBack[cur] EXCEPT ![size % BLOCK_SIZE] = byte]
  BY <1>3 DEF WrittenBack, Filled, StoreInv, FullInv, IInv, TypeOK
<1>7. \A b \in Chain(FAT, s) : b \in DiskBlocks
  BY SizeAssumption DEF Chain, DataBlocks, DiskBlocks, WholeDisk
<1>8. WrittenBack[cur] \in Contents
  BY <1>3, Appending
<1>9. ASSUME NEW k \in 1 .. size + 1, NEW b \in Chain(FAT, s),
             Distance(FAT, s, b) = (k - 1) \div BLOCK_SIZE
      PROVE  next[b][(k - 1) % BLOCK_SIZE] = x[k]
  <2> HIDE DEF s, size, kept, cur, x, old
  <2>1. k - 1 \in Nat /\ size \in Nat
    BY <1>3
  <2>2. /\ (k - 1) % BLOCK_SIZE \in 0 .. BLOCK_SIZE - 1
        /\ size % BLOCK_SIZE \in 0 .. BLOCK_SIZE - 1
    BY <2>1, DivMod
  <2>3. CASE k = size + 1
    <3>1. k - 1 = size
      BY <1>3, <2>3
    <3>2. b = cur
      BY <1>3, <1>9, <3>1, OneBlockAt
    <3>3. next[cur][size % BLOCK_SIZE] = byte
      BY <1>6, <1>8, <2>2 DEF Contents
    <3> QED BY <1>5, <2>3, <3>1, <3>2, <3>3
  <2>4. CASE k # size + 1
    <3>1. k \in 1 .. size /\ k - 1 # size
      BY <1>3, <2>4
    <3>2. WrittenBack[b][(k - 1) % BLOCK_SIZE] = x[k]
      BY <1>3, <1>5, <1>9, <3>1 DEF HoldsBytes
    <3>3. CASE b = cur
      <4>1. (k - 1) \div BLOCK_SIZE = size \div BLOCK_SIZE
        BY <1>3, <1>9, <3>3
      <4>2. (k - 1) % BLOCK_SIZE # size % BLOCK_SIZE
        <5>1. /\ k - 1 = ((k - 1) \div BLOCK_SIZE) * BLOCK_SIZE + ((k - 1) % BLOCK_SIZE)
              /\ size = (size \div BLOCK_SIZE) * BLOCK_SIZE + (size % BLOCK_SIZE)
          BY <2>1, DivMod
        <5> QED BY <2>1, <3>1, <4>1, <5>1
      <4> QED BY ZenonT(30), <1>6, <1>8, <2>2, <3>2, <3>3, <4>2 DEF Contents
    <3>4. CASE b # cur
      BY <1>6, <1>7, <3>2, <3>4
    <3> QED BY <3>3, <3>4
  <2> QED BY <2>3, <2>4
<1>10. HoldsBytes(FAT, s, next, x)
  BY <1>5, <1>9 DEF HoldsBytes
<1> QED BY <1>4, <1>5, <1>10
-----------------------------------------------------------------------------
(***************************************************************************)
(* Both ways to put a byte, to the middle of a block and to its end.       *)
(***************************************************************************)
Puts(byte, block) ==
    /\ call.op = "write" /\ MoreBytes
    /\ UNCHANGED <<up, formatted_flag, disk_boot, disk_FAT, disk_root>>
    /\ root_directory' = Grown
    /\ handle_table' = [handle_table EXCEPT ![call.handle] =
                           [H EXCEPT !.offset = @ + 1, !.current_block = block]]
    /\ call'.op = "write" /\ call'.handle = call.handle /\ call'.count = call.count
    /\ call'.block_buffer = Filled(byte)
    /\ call'.buffer = Append(call.buffer, byte)

LEMMA PutByteIs ==
    ASSUME StoreInv, NEW byte \in Byte, PutByte(byte)
    PROVE  /\ Puts(byte, H.current_block) /\ H.current_block \in Blocks
           /\ UNCHANGED <<FAT, disk_data>>
<1>1. /\ call.op = "write" /\ MoreBytes /\ root_directory' = Grown
      /\ UNCHANGED <<up, formatted_flag, disk_boot, disk_FAT, disk_root>>
      /\ UNCHANGED <<FAT, disk_data>>
  BY DEF PutByte, disk
<1>2. handle_table' = [handle_table EXCEPT ![call.handle] =
                          [H EXCEPT !.offset = @ + 1, !.current_block = H.current_block]]
  <2>1. [H EXCEPT !.offset = @ + 1, !.current_block = H.current_block]
           = [H EXCEPT !.offset = @ + 1]
    BY <1>1, Writing DEF StoreInv, FullInv, Handle
  <2>2. handle_table' = [handle_table EXCEPT ![call.handle].offset = @ + 1]
    BY DEF PutByte
  <2>3. call.handle \in Handles /\ H = handle_table[call.handle]
    BY <1>1, Writing DEF StoreInv, FullInv
  <2> QED BY <2>1, <2>2, <2>3
<1>3. /\ call'.op = "write" /\ call'.handle = call.handle /\ call'.count = call.count
      /\ call'.block_buffer = Filled(byte)
      /\ call'.buffer = Append(call.buffer, byte)
  BY <1>1, Writing DEF PutByte, Call, StoreInv, FullInv
<1>4. H.current_block \in Blocks
  BY <1>1, Writing DEF StoreInv, FullInv, Handle
<1> QED BY <1>1, <1>2, <1>3, <1>4 DEF Puts

LEMMA PutLastByteIs ==
    ASSUME StoreInv, NEW byte \in Byte, PutLastByte(byte)
    PROVE  \E j \in DataBlocks :
              /\ j \in Blocks
              /\ Puts(byte, j)
              /\ FAT[j] = FREE_FAT_ENTRY
              /\ j \notin Chain(FAT, CallFile.starting_block)
              /\ \A b \in Blocks : FAT'[b] = IF b = j THEN EOF_FAT_ENTRY
                                             ELSE IF b = H.current_block THEN j ELSE FAT[b]
              /\ disk_data' = [disk_data EXCEPT ![H.current_block] = Filled(byte)]
<1> DEFINE cur == H.current_block
<1>1. /\ call.op = "write" /\ MoreBytes /\ root_directory' = Grown
      /\ UNCHANGED <<up, formatted_flag, disk_boot, disk_FAT, disk_root>>
      /\ disk_data' = [disk_data EXCEPT ![cur] = Filled(byte)]
  BY DEF PutLastByte
<1>2. PICK j \in Blocks :
         /\ FirstFreeBlock(FAT, j)
         /\ FAT' = [FAT EXCEPT ![cur] = j, ![j] = EOF_FAT_ENTRY]
         /\ handle_table' = [handle_table EXCEPT ![call.handle].offset = @ + 1,
                                                 ![call.handle].current_block = j]
  BY DEF PutLastByte
<1>3. /\ FAT[j] = FREE_FAT_ENTRY /\ FAT \in [Blocks -> Blocks]
      /\ H.directory_index \in Files(root_directory) /\ cur \in DataBlocks
      /\ FAT[cur] = EOF_FAT_ENTRY
      /\ Consistent(FAT, root_directory)
  BY <1>1, <1>2, Writing DEF FirstFreeBlock, StoreInv, FullInv, IInv, TypeOK
<1>4. \A b \in Blocks :
         FAT'[b] = IF b = j THEN EOF_FAT_ENTRY ELSE IF b = cur THEN j ELSE FAT[b]
  BY <1>2, <1>3, SpecialValues
<1>5. j \in DataBlocks /\ j \notin Chain(FAT, CallFile.starting_block)
  BY <1>2, <1>3, FreeBlock DEF CallFile
<1>6. handle_table' = [handle_table EXCEPT ![call.handle] =
                          [H EXCEPT !.offset = @ + 1, !.current_block = j]]
  <2>1. call.handle \in Handles /\ H = handle_table[call.handle]
        /\ handle_table \in [Handles -> Handle]
    BY <1>1, Writing DEF StoreInv, FullInv, IInv, TypeOK
  <2>2. /\ handle_table'[call.handle] = [H EXCEPT !.offset = @ + 1, !.current_block = j]
        /\ \A g \in Handles : g # call.handle => handle_table'[g] = handle_table[g]
    BY <1>2, <2>1
  <2> QED BY <1>2, <2>1, <2>2
<1>7. /\ call'.op = "write" /\ call'.handle = call.handle /\ call'.count = call.count
      /\ call'.block_buffer = Filled(byte)
      /\ call'.buffer = Append(call.buffer, byte)
  BY <1>1, Writing DEF PutLastByte, Call, StoreInv, FullInv
<1> QED BY <1>1, <1>2, <1>3, <1>4, <1>5, <1>6, <1>7 DEF Puts

\* The file being written to is a byte longer and has as many bytes pending, so that
\* it has the same length for callers.
LEMMA PutsDoes ==
    ASSUME WholeDisk, StoreInv, NEW byte \in Byte, NEW block \in Blocks, Puts(byte, block)
    PROVE  LET i == H.directory_index IN
           /\ up' /\ TheRoot' = root_directory' /\ TheFAT' = FAT'
           /\ Files(root_directory') = Files(root_directory)
           /\ H'.current_block = block /\ H'.directory_index = i
           /\ CallFile'.starting_block = CallFile.starting_block
           /\ CallFile'.size = CallFile.size + 1
           /\ \A k \in DirIndexes : k # i => root_directory'[k] = root_directory[k]
           /\ root_directory'[i].name = CallFile.name
           /\ CallKept'
           /\ Len(call'.buffer) = Len(call.buffer) + 1
<1> DEFINE i == H.directory_index
<1>1. call.op = "write" /\ root_directory' = Grown
  BY DEF Puts
<1>2. /\ up /\ call.handle \in Handles /\ H \in Handle
      /\ i \in Files(root_directory) /\ i \in DirIndexes /\ root_directory[i] \in Entry
      /\ root_directory \in [DirIndexes -> Entry] /\ handle_table \in [Handles -> Handle]
  BY <1>1, Writing DEF StoreInv, FullInv, IInv, TypeOK, Files
<1>3. /\ Files(root_directory') = Files(root_directory)
      /\ root_directory'[i] = [root_directory[i] EXCEPT !.size = @ + 1]
      /\ \A k \in DirIndexes : k # i => root_directory'[k] = root_directory[k]
  BY <1>1, <1>2, GrownTable DEF StoreInv, FullInv, Grown
<1>4. H' = [H EXCEPT !.offset = @ + 1, !.current_block = block]
  BY <1>2 DEF Puts, H
<1>5. H'.current_block = block /\ H'.directory_index = i
  BY <1>2, <1>4 DEF Handle
<1>6. CallFile' = [root_directory[i] EXCEPT !.size = @ + 1]
  BY <1>3, <1>5 DEF CallFile
<1>7. /\ CallFile'.starting_block = CallFile.starting_block
      /\ CallFile'.size = CallFile.size + 1
      /\ root_directory'[i].name = CallFile.name
  BY <1>2, <1>3, <1>6 DEF Entry, CallFile
<1>8. /\ call.buffer \in Seq(Byte) /\ call.count \in Nat /\ Len(call.buffer) \in Nat
      /\ Len(call'.buffer) = Len(call.buffer) + 1
  BY <1>1, Writing DEF StoreInv, FullInv, Call, Puts
<1>9. CallKept'
  <2>1. Len(call'.buffer) <= call'.count
    BY <1>8 DEF Puts, MoreBytes
  <2>2. call'.count \in 1 .. LongestCount
    BY <1>1 DEF Puts, StoreInv, CallKept
  <2>3. ~disk_boot' => Files(disk_root') = {}
    BY DEF Puts, StoreInv, CallKept
  <2>4. call'.op = "write"
    BY DEF Puts
  <2> QED BY <2>1, <2>2, <2>3, <2>4 DEF CallKept
<1>10. up' /\ TheRoot' = root_directory' /\ TheFAT' = FAT'
  BY <1>2 DEF Puts, TheRoot, TheFAT
<1> QED BY <1>3, <1>5, <1>7, <1>8, <1>9, <1>10

LEMMA PutsBytes ==
    ASSUME WholeDisk, StoreInv, NEW byte \in Byte, NEW block \in Blocks, Puts(byte, block)
    PROVE  /\ \A k \in Files(root_directory) :
                 /\ FileBytes(k) = BytesOf(FAT, root_directory[k].starting_block, disk_data,
                                           root_directory[k].size - Pending(k))
                 /\ FileBytes(k)' = BytesOf(FAT', root_directory[k].starting_block, disk_data',
                                            root_directory[k].size - Pending(k))
                 /\ k # H.directory_index => Pending(k) = 0
           /\ FileBytes(H.directory_index)'
                 = BytesOf(FAT', CallFile.starting_block, disk_data',
                           CallFile.size - Len(call.buffer))
<1> DEFINE i == H.directory_index
<1>1. /\ up' /\ TheRoot' = root_directory' /\ TheFAT' = FAT'
      /\ H'.directory_index = i
      /\ CallFile'.starting_block = CallFile.starting_block
      /\ CallFile'.size = CallFile.size + 1
      /\ \A k \in DirIndexes : k # i => root_directory'[k] = root_directory[k]
      /\ Len(call'.buffer) = Len(call.buffer) + 1
  BY PutsDoes
<1>2. /\ CallFile.size \in Nat /\ Len(call.buffer) \in Nat
      /\ TheRoot = root_directory /\ TheFAT = FAT
      /\ call.op = "write" /\ call'.op = "write"
  BY Appending DEF Puts
<1>3. CallFile'.size - Len(call'.buffer) = CallFile.size - Len(call.buffer)
  BY <1>1, <1>2
<1>4. CallFile' = root_directory'[i] /\ CallFile = root_directory[i]
  BY <1>1 DEF CallFile
<1>5. FileBytes(H.directory_index)'
         = BytesOf(FAT', CallFile.starting_block, disk_data', CallFile.size - Len(call.buffer))
  <2>1. Pending(H.directory_index)' = Len(call'.buffer)
    BY <1>2 DEF Pending
  <2> QED BY <1>1, <1>3, <1>4, <2>1 DEF FileBytes
<1>6. ASSUME NEW k \in Files(root_directory)
      PROVE  /\ FileBytes(k) = BytesOf(FAT, root_directory[k].starting_block, disk_data,
                                       root_directory[k].size - Pending(k))
             /\ FileBytes(k)' = BytesOf(FAT', root_directory[k].starting_block, disk_data',
                                        root_directory[k].size - Pending(k))
             /\ k # H.directory_index => Pending(k) = 0
  <2>1. FileBytes(k) = BytesOf(FAT, root_directory[k].starting_block, disk_data,
                               root_directory[k].size - Pending(k))
    BY <1>2 DEF FileBytes
  <2>2. CASE k = i
    <3>1. Pending(k)' = Len(call'.buffer) /\ Pending(k) = Len(call.buffer)
      BY <1>1, <1>2, <2>2 DEF Pending
    <3> QED BY <1>1, <1>3, <1>4, <2>1, <2>2, <3>1 DEF FileBytes
  <2>3. CASE k # i
    <3>1. Pending(k)' = 0 /\ Pending(k) = 0
      BY <1>1, <1>2, <2>3 DEF Pending
    <3>2. root_directory'[k] = root_directory[k]
      BY <1>1, <2>3 DEF Files
    <3> QED BY <1>1, <2>1, <2>3, <3>1, <3>2 DEF FileBytes
  <2> QED BY <2>2, <2>3
<1> QED BY <1>5, <1>6

\* Neither way changes what callers see of a file.
LEMMA PutByteStore ==
    ASSUME WholeDisk, StoreInv, NEW byte \in Byte, PutByte(byte), FullInv', AllNamed'
    PROVE  /\ StoreInv'
           /\ \A k \in Files(root_directory) : FileBytes(k)' = FileBytes(k)
<1> DEFINE s    == CallFile.starting_block
           size == CallFile.size
           kept == FileBytes(H.directory_index)
           next == [disk_data EXCEPT ![H.current_block] = Filled(byte)]
           x    == kept \o Append(call.buffer, byte)
<1>1. /\ Puts(byte, H.current_block) /\ H.current_block \in Blocks
      /\ UNCHANGED <<FAT, disk_data>>
  BY PutByteIs
<1>2. call.op = "write" /\ call'.op = "write" /\ call'.block_buffer = Filled(byte)
      /\ call'.buffer = Append(call.buffer, byte)
  BY <1>1 DEF Puts
<1>3. \A k \in Files(root_directory) : FileBytes(k)' = FileBytes(k)
  BY <1>1, PutsBytes
<1>4. FileBytes(H.directory_index)' = kept
  BY <1>1, <1>2, PutsBytes, Appending
<1>5. /\ CallKept' /\ H'.current_block = H.current_block
      /\ CallFile'.starting_block = s /\ CallFile'.size = size + 1
      /\ Len(call'.buffer) = Len(call.buffer) + 1
  BY <1>1, PutsDoes
<1>6. WrittenBack' = next
  BY <1>1, <1>2, <1>5 DEF WrittenBack
<1>7. /\ x \in Seq(Byte) /\ Len(x) = size + 1 /\ HoldsBytes(FAT, s, next, x)
  BY <1>2, OneByteMore
<1>8. /\ Ends(FAT, s) /\ size \in Nat /\ Len(call.buffer) \in Nat /\ Len(call.buffer) <= size
      /\ \A n \in 0 .. size + 1 : HasBlocks(FAT, s, n)
  BY <1>2, Appending
<1>9. BytesOf(FAT, s, next, size + 1) = x
  <2>1. size + 1 \in 0 .. size + 1
    <3> HIDE DEF size
    <3> QED BY <1>8
  <2>2. HasBlocks(FAT, s, Len(x))
    BY <1>7, <1>8, <2>1
  <2> HIDE DEF x, next, s, size
  <2>3. BytesOf(FAT, s, next, Len(x)) = x
    BY <1>7, <1>8, <2>2, BytesAre
  <2> QED BY <1>7, <2>3
<1>10. WrittenSoFar'
  <2>1. Len(call'.buffer) <= CallFile'.size
    <3> HIDE DEF size
    <3> QED BY <1>5, <1>8
  <2>2. BytesOf(FAT', CallFile'.starting_block, WrittenBack', CallFile'.size)
           = FileBytes(H.directory_index)' \o call'.buffer
    <3> HIDE DEF next, kept, s, size
    <3> QED BY <1>1, <1>2, <1>4, <1>5, <1>6, <1>9
  <2> QED BY <2>1, <2>2 DEF WrittenSoFar
<1> QED BY <1>2, <1>3, <1>5, <1>10 DEF StoreInv, ReadSoFar

LEMMA HeldPrefix ==
    ASSUME NEW f, NEW s, NEW data, NEW S, NEW a \in Seq(S), NEW b \in Seq(S),
           HoldsBytes(f, s, data, a \o b)
    PROVE  HoldsBytes(f, s, data, a)
<1>1. /\ Len(a) \in Nat /\ Len(b) \in Nat /\ Len(a \o b) = Len(a) + Len(b)
      /\ \A k \in 1 .. Len(a) : k \in 1 .. Len(a) + Len(b) /\ (a \o b)[k] = a[k]
  <2>1. Len(a) \in Nat /\ Len(b) \in Nat
    BY LenProperties
  <2>2. \A k \in 1 .. Len(a) : k \in 1 .. Len(a) + Len(b)
    BY <2>1
  <2> QED BY <2>1, <2>2, ConcatProperties
<1> QED BY <1>1 DEF HoldsBytes

LEMMA PutLastByteStore ==
    ASSUME WholeDisk, StoreInv, NEW byte \in Byte, PutLastByte(byte), FullInv', AllNamed'
    PROVE  /\ StoreInv'
           /\ \A k \in Files(root_directory) : FileBytes(k)' = FileBytes(k)
<1> DEFINE i    == H.directory_index
           s    == CallFile.starting_block
           size == CallFile.size
           cur  == H.current_block
           kept == FileBytes(H.directory_index)
           more == Append(call.buffer, byte)
           next == [disk_data EXCEPT ![H.current_block] = Filled(byte)]
           x    == kept \o more
<1>1. PICK j \in DataBlocks :
         /\ j \in Blocks
         /\ Puts(byte, j)
         /\ FAT[j] = FREE_FAT_ENTRY
         /\ j \notin Chain(FAT, s)
         /\ \A b \in Blocks : FAT'[b] = IF b = j THEN EOF_FAT_ENTRY
                                        ELSE IF b = cur THEN j ELSE FAT[b]
         /\ disk_data' = next
  BY PutLastByteIs
<1>2. call.op = "write" /\ call'.op = "write" /\ call'.block_buffer = Filled(byte)
      /\ call'.buffer = more
  BY <1>1 DEF Puts
<1>3. /\ CallKept' /\ H'.current_block = j
      /\ CallFile'.starting_block = s /\ CallFile'.size = size + 1
      /\ Len(call'.buffer) = Len(call.buffer) + 1
  BY <1>1, PutsDoes
<1>4. /\ Ends(FAT, s) /\ cur \in Chain(FAT, s) /\ FAT[cur] = EOF_FAT_ENTRY
      /\ FAT \in [Blocks -> Blocks]
      /\ size \in Nat /\ Len(call.buffer) \in Nat /\ Len(call.buffer) <= size
      /\ kept \in Seq(Byte) /\ Len(kept) = size - Len(call.buffer)
      /\ \A n \in 0 .. size + 1 : HasBlocks(FAT, s, n)
      /\ i \in Files(root_directory) /\ cur \in DiskBlocks
      /\ s = root_directory[i].starting_block
      /\ TheRoot = root_directory /\ TheFAT = FAT
  BY <1>2, Appending DEF CallFile
<1>5. /\ x \in Seq(Byte) /\ Len(x) = size + 1 /\ more \in Seq(Byte)
      /\ HoldsBytes(FAT, s, next, x)
  BY <1>2, OneByteMore
<1>6. HoldsBytes(FAT, s, next, kept)
  <2> HIDE DEF kept, more, s, next
  <2> QED BY <1>4, <1>5, HeldPrefix
<1>7. /\ HasBlocks(FAT, s, Len(x)) /\ HasBlocks(FAT, s, Len(kept))
  <2>1. size + 1 \in 0 .. size + 1 /\ size - Len(call.buffer) \in 0 .. size + 1
    <3> HIDE DEF size
    <3> QED BY <1>4
  <2> QED BY <1>4, <1>5, <2>1
<1>8. BytesOf(FAT', s, next, Len(kept)) = kept
  <2>1. /\ Ends(FAT', s) /\ HasBlocks(FAT', s, Len(kept)) /\ HoldsBytes(FAT', s, next, kept)
    <3>1. Len(kept) \in Nat
      BY <1>4, LenProperties
    <3>2. SameOn(Chain(FAT, s), next, next)
      BY DEF SameOn
    <3> HIDE DEF kept, s, next, cur
    <3>3. ExtendedBy(FAT, FAT', s, cur, j)
      BY <1>1, <1>4 DEF ExtendedBy
    <3> QED BY <1>6, <1>7, <3>1, <3>2, <3>3, HeldByExtended
  <2> HIDE DEF kept, s, next
  <2> QED BY <1>4, <2>1, BytesAre
<1>9. FileBytes(H.directory_index)' = kept
  <2>1. FileBytes(H.directory_index)'
           = BytesOf(FAT', s, disk_data', size - Len(call.buffer))
    BY <1>1, PutsBytes
  <2> HIDE DEF kept, s, next, size
  <2> QED BY <1>1, <1>4, <1>8, <2>1
<1>10. BytesOf(FAT', s, WrittenBack', size + 1) = x
  <2>1. \A b \in Chain(FAT, s) : WrittenBack'[b] = next[b]
    <3>1. WrittenBack' = [next EXCEPT ![j] = Filled(byte)]
      BY <1>1, <1>2, <1>3 DEF WrittenBack
    <3>2. disk_data \in [DiskBlocks -> Contents]
      BY DEF StoreInv, FullInv, IInv, TypeOK
    <3>3. \A b \in Chain(FAT, s) : b \in DiskBlocks /\ b # j
      BY <1>1, SizeAssumption DEF Chain, DataBlocks, DiskBlocks, WholeDisk
    <3> QED BY <3>1, <3>2, <3>3
  <2> HIDE DEF x, s, next, cur
  <2>2. /\ Ends(FAT', s) /\ HasBlocks(FAT', s, Len(x))
        /\ HoldsBytes(FAT', s, WrittenBack', x)
    <3>1. Len(x) \in Nat
      BY <1>5, LenProperties
    <3>2. ExtendedBy(FAT, FAT', s, cur, j) /\ SameOn(Chain(FAT, s), next, WrittenBack')
      BY <1>1, <1>4, <2>1 DEF ExtendedBy, SameOn
    <3> QED BY <1>5, <1>7, <3>1, <3>2, HeldByExtended
  <2>3. BytesOf(FAT', s, WrittenBack', Len(x)) = x
    BY <1>5, <2>2, BytesAre
  <2> QED BY <1>5, <2>3
<1>11. WrittenSoFar'
  <2>1. Len(call'.buffer) <= CallFile'.size
    <3> HIDE DEF size
    <3> QED BY <1>3, <1>4
  <2>2. BytesOf(FAT', CallFile'.starting_block, WrittenBack', CallFile'.size)
           = FileBytes(H.directory_index)' \o call'.buffer
    <3> HIDE DEF kept, more, s, size
    <3> QED BY <1>2, <1>3, <1>9, <1>10
  <2> QED BY <2>1, <2>2 DEF WrittenSoFar
<1>12. ASSUME NEW k \in Files(root_directory)  PROVE FileBytes(k)' = FileBytes(k)
  <2> DEFINE t == root_directory[k].starting_block
             n == root_directory[k].size - Pending(k)
  <2>1. /\ FileBytes(k) = BytesOf(FAT, t, disk_data, n)
        /\ FileBytes(k)' = BytesOf(FAT', t, disk_data', n)
        /\ k # i => Pending(k) = 0
    BY <1>1, PutsBytes
  <2>2. CASE k = i
    <3>1. Pending(k) = Len(call.buffer) /\ n = size - Len(call.buffer)
      BY <1>2, <2>2 DEF Pending, CallFile
    <3> QED BY <1>1, <1>4, <1>8, <2>1, <2>2, <3>1
  <2>3. CASE k # i
    <3>1. root_directory[k].size \in Nat /\ n = root_directory[k].size
          /\ Ends(FAT, t) /\ HasBlocks(FAT, t, n)
      <4>1. /\ root_directory[k].size \in Nat /\ Ends(FAT, t)
            /\ \A m \in 0 .. root_directory[k].size + 1 : HasBlocks(FAT, t, m)
        BY <1>4, TheTables DEF StoreInv
      <4>2. n = root_directory[k].size /\ n \in 0 .. root_directory[k].size + 1
        BY <2>1, <2>3, <4>1
      <4> QED BY <4>1, <4>2
    <3>2. Consistent(FAT, root_directory)
      BY <1>2, Writing DEF StoreInv, FullInv
    <3>3. \A b \in Chain(FAT, t) : /\ b \in DataBlocks /\ b \in Blocks
                                   /\ b # j /\ b # cur
      <4>1. \A b \in Chain(FAT, t) : /\ FAT[b] # FREE_FAT_ENTRY /\ b \in DataBlocks
                                     /\ b \notin Chain(FAT, root_directory[i].starting_block)
        BY <1>4, <2>3, <3>2, BlockOfFile
      <4> QED BY <1>1, <1>4, <4>1 DEF DataBlocks, Blocks
    <3>4. \A b \in Chain(FAT, t) : FAT'[b] = FAT[b] /\ disk_data'[b] = disk_data[b]
      <4>1. disk_data \in [DiskBlocks -> Contents]
        BY DEF StoreInv, FullInv, IInv, TypeOK
      <4>2. DataBlocks \subseteq DiskBlocks
        BY SizeAssumption DEF DataBlocks, DiskBlocks, WholeDisk
      <4> QED BY <1>1, <3>3, <4>1, <4>2
    <3> HIDE DEF n, t
    <3> QED BY <2>1, <3>1, <3>4, BytesKept
  <2> QED BY <2>2, <2>3
<1> QED BY <1>2, <1>3, <1>11, <1>12 DEF StoreInv, ReadSoFar
-----------------------------------------------------------------------------
(***************************************************************************)
(* A read() under way, and one byte more.                                  *)
(***************************************************************************)
LEMMA BytesUnchanged ==
    ASSUME TheRoot' = TheRoot, TheFAT' = TheFAT, disk_data' = disk_data,
           \A k \in DirIndexes : Pending(k)' = Pending(k)
    PROVE  \A k \in DirIndexes : FileBytes(k)' = FileBytes(k)
BY DEF FileBytes

LEMMA NothingPending ==
    /\ call.op # "write" => \A k \in DirIndexes : Pending(k) = 0
    /\ call'.op # "write" => \A k \in DirIndexes : Pending(k)' = 0
BY DEF Pending

LEMMA ReadingFrom ==
    ASSUME WholeDisk, StoreInv, call.op = "read"
    PROVE  LET s    == CallFile.starting_block
               size == CallFile.size
               file == FileBytes(H.directory_index)
           IN  /\ up /\ H.directory_index \in Files(root_directory)
               /\ TheRoot = root_directory /\ TheFAT = FAT
               /\ file \in Seq(Byte) /\ Len(file) = size /\ size \in Nat
               /\ HoldsBytes(FAT, s, disk_data, file)
               /\ H.current_block \in Chain(FAT, s) /\ H.current_block \in DiskBlocks
               /\ Distance(FAT, s, H.current_block) = H.offset \div BLOCK_SIZE
               /\ H.offset \in Nat /\ call.block_offset = H.offset % BLOCK_SIZE
               /\ call.buffer \in Seq(Byte) /\ Len(call.buffer) \in Nat /\ call.count \in Nat
               /\ H.offset + (call.count - Len(call.buffer)) <= size
               /\ Len(call.buffer) <= H.offset
               /\ Len(call.buffer) <= call.count /\ call.count \in 1 .. LongestCount
               /\ call.block_buffer = disk_data[H.current_block]
               /\ call.buffer = SubSeq(file, H.offset - Len(call.buffer) + 1, H.offset)
<1> DEFINE i    == H.directory_index
           s    == CallFile.starting_block
           size == CallFile.size
           file == FileBytes(H.directory_index)
<1> USE DEF StoreInv
<1>1. /\ up /\ call \in Call /\ i \in Files(root_directory)
      /\ size \in Nat /\ Ends(FAT, s) /\ InPlace(FAT, root_directory, H)
      /\ call.block_offset = H.offset % BLOCK_SIZE
      /\ H.offset \in Nat /\ call.count \in Nat /\ Len(call.buffer) \in Nat
      /\ H.offset + (call.count - Len(call.buffer)) <= size
  BY Reading DEF CallFile
<1>2. /\ H.current_block \in Chain(FAT, s)
      /\ Distance(FAT, s, H.current_block) = H.offset \div BLOCK_SIZE
  BY <1>1 DEF InPlace, CallFile
<1>3. H.current_block \in DiskBlocks
  BY <1>2, SizeAssumption DEF Chain, DataBlocks, DiskBlocks, WholeDisk
<1>4. TheRoot = root_directory /\ TheFAT = FAT
  BY <1>1 DEF TheRoot, TheFAT
<1>5. file = BytesOf(FAT, s, disk_data, size)
  <2>1. Pending(i) = 0
    BY DEF Pending
  <2>2. file = BytesOf(FAT, s, disk_data, size - 0)
    BY <1>4, <2>1 DEF FileBytes, CallFile
  <2>3. size - 0 = size
    BY <1>1
  <2> QED BY <2>2, <2>3
<1>6. HasBlocks(FAT, s, size)
  <2>1. size \in 0 .. size + 1
    <3> HIDE DEF size
    <3> QED BY <1>1
  <2> QED BY <1>1, <1>4, <2>1, TheTables DEF CallFile
<1>7. disk_data \in [DiskBlocks -> Contents]
  BY DEF FullInv, IInv, TypeOK
<1>8. /\ file \in Seq(Byte) /\ Len(file) = size
      /\ HoldsBytes(FAT, s, disk_data, file)
  <2> HIDE DEF s, size, file
  <2> QED BY <1>1, <1>5, <1>6, <1>7, BytesType, BytesHold
<1>9. call.buffer \in Seq(Byte)
  BY <1>1 DEF Call
<1>10. /\ Len(call.buffer) <= H.offset
       /\ Len(call.buffer) <= call.count /\ call.count \in 1 .. LongestCount
       /\ call.block_buffer = disk_data[H.current_block]
       /\ call.buffer = SubSeq(file, H.offset - Len(call.buffer) + 1, H.offset)
  BY DEF ReadSoFar, CallKept
<1> QED BY <1>1, <1>2, <1>3, <1>4, <1>8, <1>9, <1>10

LEMMA LongerSubSeq ==
    ASSUME NEW S, NEW t \in Seq(S), NEW n \in Nat, NEW l \in Nat, l <= n, n < Len(t)
    PROVE  Append(SubSeq(t, n - l + 1, n), t[n + 1]) = SubSeq(t, n - l + 1, n + 1)
<1>1. /\ Len(t) \in Nat
      /\ n - l + 1 \in 1 .. Len(t) /\ n + 1 \in n - l + 1 .. Len(t) /\ n + 1 \in 1 .. Len(t)
      /\ (n + 1) - 1 = n
  BY LenProperties
<1>2. SubSeq(t, n - l + 1, n + 1) = SubSeq(t, n - l + 1, n) \o <<t[n + 1]>>
  <2>1. SubSeq(t, n - l + 1, n + 1) = SubSeq(t, n - l + 1, (n + 1) - 1) \o <<t[n + 1]>>
    BY <1>1, SubSeqRecursiveSecond
  <2> QED BY <1>1, <2>1
<1>3. t[n + 1] \in S
  BY <1>1, ElementOfSeq
<1>4. SubSeq(t, n - l + 1, n) \in Seq(S)
  <2>1. \A k \in n - l + 1 .. n : t[k] \in S
    BY <1>1, ElementOfSeq
  <2>2. n - l + 1 \in Int /\ n \in Int
    OBVIOUS
  <2> QED BY <2>1, <2>2, SubSeqProperties
<1> QED BY <1>2, <1>3, <1>4, AppendIsConcat

Takes(block) ==
    /\ call.op = "read" /\ MoreBytes
    /\ UNCHANGED <<up, formatted_flag, FAT, root_directory, disk_boot, disk_FAT, disk_root,
                   disk_data>>
    /\ handle_table' = [handle_table EXCEPT ![call.handle] =
                           [H EXCEPT !.offset = @ + 1, !.current_block = block]]
    /\ call'.op = "read" /\ call'.handle = call.handle /\ call'.count = call.count
    /\ call'.block_buffer = disk_data[block]
    /\ call'.buffer = Append(call.buffer, call.block_buffer[call.block_offset])

LEMMA ReadByteIs ==
    ASSUME WholeDisk, StoreInv, ReadByte
    PROVE  Takes(H.current_block)
<1>1. call.op = "read" /\ MoreBytes
  BY DEF ReadByte
<1>2. /\ call \in Call /\ call.handle \in Handles
      /\ H \in Handle /\ H = handle_table[call.handle]
  BY <1>1, Reading DEF StoreInv
<1>3. handle_table' = [handle_table EXCEPT ![call.handle] =
                          [H EXCEPT !.offset = @ + 1, !.current_block = H.current_block]]
  <2>1. [H EXCEPT !.offset = @ + 1, !.current_block = H.current_block]
           = [H EXCEPT !.offset = @ + 1]
    BY <1>2 DEF Handle
  <2>2. handle_table' = [handle_table EXCEPT ![call.handle].offset = @ + 1]
    BY DEF ReadByte
  <2> QED BY <1>2, <2>1, <2>2
<1>4. /\ call'.op = "read" /\ call'.handle = call.handle /\ call'.count = call.count
      /\ call'.block_buffer = call.block_buffer
      /\ call'.buffer = Append(call.buffer, call.block_buffer[call.block_offset])
  BY <1>1, <1>2 DEF ReadByte, Call
<1>5. call.block_buffer = disk_data[H.current_block]
  BY <1>1, ReadingFrom
<1> QED BY <1>1, <1>3, <1>4, <1>5 DEF Takes, ReadByte, disk

LEMMA ReadLastByteIs ==
    ASSUME WholeDisk, StoreInv, ReadLastByte, FullInv'
    PROVE  Takes(FAT[H.current_block])
<1> DEFINE block == FAT[H.current_block]
<1>1. call.op = "read" /\ MoreBytes
  BY DEF ReadLastByte
<1>2. /\ call \in Call /\ call.handle \in Handles
      /\ H \in Handle /\ H = handle_table[call.handle]
      /\ H.in_use /\ H.mode = "READ"
      /\ handle_table \in [Handles -> Handle]
  BY <1>1, Reading DEF StoreInv
<1>3. /\ handle_table'[call.handle] = [H EXCEPT !.offset = @ + 1, !.current_block = block]
      /\ \A g \in Handles : g # call.handle => handle_table'[g] = handle_table[g]
      /\ handle_table' = [handle_table EXCEPT ![call.handle].offset = @ + 1,
                                              ![call.handle].current_block = block]
  BY <1>2 DEF ReadLastByte
<1>4. handle_table' = [handle_table EXCEPT ![call.handle] =
                          [H EXCEPT !.offset = @ + 1, !.current_block = block]]
  BY <1>2, <1>3
<1>5. /\ call'.op = "read" /\ call'.handle = call.handle /\ call'.count = call.count
      /\ call'.block_buffer = BlockRead(block)
      /\ call'.buffer = Append(call.buffer, call.block_buffer[call.block_offset])
  BY <1>1, <1>2 DEF ReadLastByte, Call
<1>6. block \in DiskBlocks
  <2>1. /\ handle_table'[call.handle].in_use /\ handle_table'[call.handle].mode = "READ"
        /\ handle_table'[call.handle].current_block = block
    BY <1>2, <1>3 DEF Handle
  <2>2. InPlace(FAT', root_directory', handle_table'[call.handle])
    BY <1>2, <2>1, ReadersStandNext DEF FullInv
  <2>3. block \in DataBlocks
    BY <2>1, <2>2 DEF InPlace, Chain
  <2> QED BY <2>3, SizeAssumption DEF DataBlocks, DiskBlocks, WholeDisk
<1>7. BlockRead(block) = disk_data[block]
  BY <1>6 DEF BlockRead
<1> QED BY <1>1, <1>4, <1>5, <1>7 DEF Takes, ReadLastByte, disk

LEMMA TakesStore ==
    ASSUME WholeDisk, StoreInv, NEW block, Takes(block), FullInv', AllNamed'
    PROVE  /\ StoreInv'
           /\ \A k \in DirIndexes : FileBytes(k)' = FileBytes(k)
           /\ H'.directory_index = H.directory_index /\ H'.offset = H.offset + 1
           /\ Len(call'.buffer) = Len(call.buffer) + 1
<1> DEFINE s    == CallFile.starting_block
           size == CallFile.size
           file == FileBytes(H.directory_index)
           len  == Len(call.buffer)
           off  == H.offset
<1>1. call.op = "read" /\ call'.op = "read" /\ len < call.count
  BY DEF Takes, MoreBytes
<1>2. /\ up /\ H.directory_index \in DirIndexes
      /\ file \in Seq(Byte) /\ Len(file) = size /\ size \in Nat
      /\ HoldsBytes(FAT, s, disk_data, file)
      /\ H.current_block \in Chain(FAT, s)
      /\ Distance(FAT, s, H.current_block) = off \div BLOCK_SIZE
      /\ off \in Nat /\ call.block_offset = off % BLOCK_SIZE
      /\ call.buffer \in Seq(Byte) /\ len \in Nat /\ call.count \in Nat
      /\ off + (call.count - len) <= size
      /\ len <= off
      /\ call.count \in 1 .. LongestCount
      /\ call.block_buffer = disk_data[H.current_block]
      /\ call.buffer = SubSeq(file, off - len + 1, off)
  BY <1>1, ReadingFrom DEF Files
<1>3. H'.directory_index = H.directory_index /\ H'.offset = off + 1 /\ H'.current_block = block
  <2>1. call.handle \in Handles /\ H \in Handle /\ handle_table \in [Handles -> Handle]
    BY <1>1, Reading DEF StoreInv
  <2>2. H' = [H EXCEPT !.offset = @ + 1, !.current_block = block]
    BY <2>1 DEF Takes, H
  <2> QED BY <2>1, <2>2 DEF Handle
<1>4. \A k \in DirIndexes : FileBytes(k)' = FileBytes(k)
  <2>1. TheRoot' = TheRoot /\ TheFAT' = TheFAT /\ disk_data' = disk_data
    BY DEF Takes, TheRoot, TheFAT
  <2> QED BY <1>1, <2>1, BytesUnchanged, NothingPending
<1>5. off < size /\ off + 1 \in 1 .. size
  <2> HIDE DEF off, size, len
  <2> QED BY <1>1, <1>2
<1>6. call.block_buffer[call.block_offset] = file[off + 1]
  <2>1. (off + 1) - 1 = off
    BY <1>2
  <2> HIDE DEF off, size, file, s
  <2>2. disk_data[H.current_block][((off + 1) - 1) % BLOCK_SIZE] = file[off + 1]
    BY <1>2, <1>5, <2>1 DEF HoldsBytes
  <2> QED BY <1>2, <2>1, <2>2
<1>7. call'.buffer = SubSeq(file, off - len + 1, off + 1)
  <2>1. call'.buffer = Append(SubSeq(file, off - len + 1, off), file[off + 1])
    BY <1>2, <1>6 DEF Takes
  <2> HIDE DEF off, size, file, len
  <2> QED BY <1>2, <1>5, <2>1, LongerSubSeq
<1>8. Len(call'.buffer) = len + 1
  <2>1. file[off + 1] \in Byte
    <3> HIDE DEF file, off, size
    <3> QED BY <1>2, <1>5, ElementOfSeq
  <2> QED BY <1>2, <1>6, <2>1 DEF Takes
<1>9. CallKept'
  <2>1. Len(call'.buffer) <= call'.count
    <3> HIDE DEF len
    <3> QED BY <1>1, <1>2, <1>8 DEF Takes
  <2> QED BY <1>1, <1>2, <2>1 DEF Takes, CallKept, StoreInv
<1>10. ReadSoFar'
  <2>1. Len(call'.buffer) <= H'.offset /\ H'.offset - Len(call'.buffer) + 1 = off - len + 1
    <3> HIDE DEF len, off
    <3> QED BY SMTT(30), <1>2, <1>3, <1>8
  <2>2. call'.block_buffer = disk_data'[H'.current_block]
    BY <1>3 DEF Takes
  <2>3. FileBytes(H.directory_index)' = file
    <3> DEFINE i == H.directory_index
    <3>1. FileBytes(i)' = FileBytes(i)
      BY <1>1, <1>2, <1>3, NothingPending DEF FileBytes, Takes, TheRoot, TheFAT
    <3> QED BY <3>1
  <2>4. call'.buffer = SubSeq(FileBytes(H.directory_index)',
                              H'.offset - Len(call'.buffer) + 1, H'.offset)
    <3> HIDE DEF file, len, off
    <3> QED BY <1>3, <1>7, <2>1, <2>3
  <2> QED BY <2>1, <2>2, <2>4 DEF ReadSoFar
<1> QED BY <1>1, <1>3, <1>4, <1>8, <1>9, <1>10 DEF StoreInv, WrittenSoFar
-----------------------------------------------------------------------------
(***************************************************************************)
(* A call that starts, and the other calls.                                *)
(***************************************************************************)
LEMMA StartStore ==
    ASSUME WholeDisk, StoreInv, Ready, NEW op \in {"read", "write"}, NEW h \in Handles,
           NEW count \in Int, count <= LongestCount, Start(op, h, count),
           handle_table[h].in_use,
           op = "read" => handle_table[h].mode = "READ",
           op = "write" => handle_table[h].mode = "WRITE",
           FullInv', AllNamed'
    PROVE  /\ StoreInv' /\ call'.op = op /\ call'.buffer = << >>
           /\ \A k \in DirIndexes : FileBytes(k)' = FileBytes(k)
<1> DEFINE i    == handle_table[h].directory_index
           cur  == handle_table[h].current_block
           s    == root_directory[i].starting_block
           size == root_directory[i].size
<1>1. /\ call'.op = op /\ call'.handle = h /\ call'.count = count /\ count > 0
      /\ call'.block_buffer = BlockRead(cur) /\ call'.buffer = << >>
      /\ UNCHANGED <<up, formatted_flag, FAT, root_directory, handle_table, disk>>
  BY DEF Start
<1>2. up /\ call.op = "idle"
  BY DEF Ready
<1>3. H' = handle_table[h]
  BY <1>1 DEF H
<1>4. /\ i \in Files(root_directory) /\ cur \in Chain(FAT, s)
      /\ handle_table[h].offset \in Nat
      /\ disk_data \in [DiskBlocks -> Contents]
  <2>1. handle_table[h] \in Handle /\ disk_data \in [DiskBlocks -> Contents]
    BY DEF StoreInv, FullInv, IInv, TypeOK
  <2>2. CASE op = "read"
    BY <2>1, <2>2 DEF Handle, StoreInv, FullInv, ReadersInPlace
  <2>3. CASE op = "write"
    BY <2>1, <2>3 DEF Handle, StoreInv, FullInv, IInv, WritersAtEnd
  <2> QED BY <2>2, <2>3
<1>5. call'.block_buffer = disk_data[cur]
  <2>1. cur \in DiskBlocks
    BY <1>4, SizeAssumption DEF Chain, DataBlocks, DiskBlocks, WholeDisk
  <2> QED BY <1>1, <2>1 DEF BlockRead
<1>6. TheRoot = root_directory /\ TheRoot' = root_directory /\ TheFAT = FAT /\ TheFAT' = FAT
      /\ disk_data' = disk_data
  BY <1>1, <1>2 DEF TheRoot, TheFAT, disk
<1>7. \A k \in DirIndexes : Pending(k)' = Pending(k)
  <2>1. \A k \in DirIndexes : Pending(k) = 0
    BY <1>2, NothingPending
  <2>2. \A k \in DirIndexes : Pending(k)' = 0
    BY <1>1 DEF Pending
  <2> QED BY <2>1, <2>2
<1>8. \A k \in DirIndexes : FileBytes(k)' = FileBytes(k)
  BY <1>6, <1>7, BytesUnchanged
<1>9. CallKept'
  <2>1. count \in 1 .. LongestCount
    BY <1>1, LongestCountIs
  <2>2. Len(call'.buffer) <= call'.count
    BY <1>1
  <2>3. ~disk_boot' => Files(disk_root') = {}
    BY <1>1 DEF disk, StoreInv, CallKept
  <2> QED BY <1>1, <2>1, <2>2, <2>3 DEF CallKept
<1>10. FileBytes(i) = BytesOf(FAT, s, disk_data, size) /\ size \in Nat
       /\ FileBytes(i) \in Seq(Byte)
  <2>1. size \in Nat /\ Ends(FAT, s) /\ \A n \in 0 .. size + 1 : HasBlocks(FAT, s, n)
    BY <1>4, <1>6, TheTables DEF StoreInv
  <2>2. size - Pending(i) = size /\ size \in 0 .. size + 1
    <3>1. Pending(i) = 0
      BY <1>2 DEF Pending
    <3> QED BY <2>1, <3>1
  <2>3. FileBytes(i) = BytesOf(FAT, s, disk_data, size)
    BY <1>6, <2>2 DEF FileBytes
  <2> HIDE DEF s, size
  <2> QED BY <1>4, <2>1, <2>2, <2>3, BytesType
<1>11. i \in DirIndexes /\ H'.directory_index = i /\ CallFile' = root_directory[i]
       /\ FileBytes(i)' = FileBytes(i)
  BY <1>1, <1>3, <1>4, <1>8 DEF Files, CallFile
<1>12. ASSUME op = "read"  PROVE ReadSoFar'
  <2>1. call'.block_buffer = disk_data'[H'.current_block]
    BY <1>3, <1>5, <1>6
  <2>2. Len(call'.buffer) = 0 /\ H'.offset - 0 + 1 = H'.offset + 1 /\ H'.offset \in Nat
    BY <1>1, <1>3, <1>4
  <2>3. Len(call'.buffer) <= H'.offset
    BY <2>2
  <2>4. SubSeq(FileBytes(i), H'.offset + 1, H'.offset) = << >>
    BY <1>10, <2>2
  <2>5. FileBytes(H.directory_index)' = FileBytes(i)
    <3>1. FileBytes(H.directory_index)'
             = BytesOf(TheFAT', TheRoot'[i].starting_block, disk_data',
                       TheRoot'[i].size - Pending(H.directory_index)')
      BY <1>11 DEF FileBytes
    <3>2. Pending(H.directory_index)' = 0 /\ Pending(i) = 0
      BY <1>1, <1>2, <1>12 DEF Pending
    <3> QED BY <1>6, <3>1, <3>2 DEF FileBytes
  <2>6. call'.buffer = SubSeq(FileBytes(H.directory_index)',
                              H'.offset - Len(call'.buffer) + 1, H'.offset)
    BY <1>1, <2>2, <2>4, <2>5
  <2> QED BY <2>1, <2>3, <2>6 DEF ReadSoFar
<1>13. ASSUME op = "write"  PROVE WrittenSoFar'
  <2>1. WrittenBack' = disk_data
    BY <1>3, <1>4, <1>5, <1>6 DEF WrittenBack
  <2>2. Len(call'.buffer) = 0 /\ Len(call'.buffer) <= CallFile'.size
    BY <1>1, <1>10, <1>11
  <2>3. FileBytes(H.directory_index)' = BytesOf(FAT, s, disk_data, size)
    <3>1. Pending(H.directory_index)' = 0
      BY <1>1, <2>2 DEF Pending
    <3>2. FileBytes(H.directory_index)'
             = BytesOf(TheFAT', TheRoot'[i].starting_block, disk_data',
                       TheRoot'[i].size - Pending(H.directory_index)')
      BY <1>11 DEF FileBytes
    <3>3. size - 0 = size
      BY <1>10
    <3> QED BY <1>6, <3>1, <3>2, <3>3
  <2>4. FileBytes(i) \o << >> = FileBytes(i)
    BY <1>10, ConcatEmptySeq
  <2>5. BytesOf(FAT', CallFile'.starting_block, WrittenBack', CallFile'.size)
           = FileBytes(H.directory_index)' \o call'.buffer
    <3>1. BytesOf(FAT', CallFile'.starting_block, WrittenBack', CallFile'.size)
             = BytesOf(FAT, s, disk_data, size)
      BY <1>1, <1>11, <2>1
    <3> QED BY <1>1, <1>10, <2>3, <2>4, <3>1
  <2> QED BY <2>2, <2>5 DEF WrittenSoFar
<1>14. op = "read" => WrittenSoFar'
  BY <1>1 DEF WrittenSoFar
<1>15. op = "write" => ReadSoFar'
  BY <1>1 DEF ReadSoFar
<1> QED BY <1>1, <1>8, <1>9, <1>12, <1>13, <1>14, <1>15 DEF StoreInv

\* The invariant says less of a state between two calls.
LEMMA IdleStore ==
    ASSUME call'.op \notin {"read", "write"}, call'.buffer = << >>,
           ~disk_boot' => Files(disk_root') = {}, FullInv', AllNamed'
    PROVE  StoreInv'
BY DEF StoreInv, CallKept, ReadSoFar, WrittenSoFar
-----------------------------------------------------------------------------
(***************************************************************************)
(* What callers see: files by their names, and where handles are.          *)
(***************************************************************************)
AllBytes == [i \in DirIndexes |-> FileBytes(i)]

\* F gives each name of the root directory r the bytes that B has at its entry.
FilesAre(r, B, F) ==
    /\ F = [n \in Name |-> F[n]]
    /\ \A n \in Name : (\A i \in Files(r) : r[i].name # n) => F[n] = NoName
    /\ \A i \in Files(r) : r[i].name \in Name => F[r[i].name] = B[i]

LEMMA StoredFilesAre ==
    UniqueNames(TheRoot) => FilesAre(TheRoot, AllBytes, StoredFiles)
<1> SUFFICES ASSUME UniqueNames(TheRoot)  PROVE FilesAre(TheRoot, AllBytes, StoredFiles)
  OBVIOUS
<1>1. StoredFiles = [n \in Name |-> StoredFiles[n]]
  BY DEF StoredFiles
<1>2. ASSUME NEW n \in Name, \A i \in Files(TheRoot) : TheRoot[i].name # n
      PROVE  StoredFiles[n] = NoName
  BY <1>2 DEF StoredFiles
<1>3. ASSUME NEW i \in Files(TheRoot), TheRoot[i].name \in Name
      PROVE  StoredFiles[TheRoot[i].name] = AllBytes[i]
  <2> DEFINE c == CHOOSE k \in Files(TheRoot) : TheRoot[k].name = TheRoot[i].name
  <2>1. c = i
    BY DEF UniqueNames
  <2>2. StoredFiles[TheRoot[i].name] = FileBytes(c)
    BY <1>3 DEF StoredFiles
  <2> QED BY <2>1, <2>2 DEF AllBytes, Files
<1> QED BY <1>1, <1>2, <1>3 DEF FilesAre

LEMMA StoredFilesAreNext ==
    UniqueNames(TheRoot') => FilesAre(TheRoot', AllBytes', StoredFiles')
<1> SUFFICES ASSUME UniqueNames(TheRoot')  PROVE FilesAre(TheRoot', AllBytes', StoredFiles')
  OBVIOUS
<1>1. StoredFiles' = [n \in Name |-> StoredFiles'[n]]
  BY DEF StoredFiles
<1>2. ASSUME NEW n \in Name, \A i \in Files(TheRoot') : TheRoot'[i].name # n
      PROVE  StoredFiles'[n] = NoName
  BY <1>2 DEF StoredFiles
<1>3. ASSUME NEW i \in Files(TheRoot'), TheRoot'[i].name \in Name
      PROVE  StoredFiles'[TheRoot'[i].name] = AllBytes'[i]
  <2> DEFINE c == CHOOSE k \in Files(TheRoot') : TheRoot'[k].name = TheRoot'[i].name
  <2>1. c = i
    BY DEF UniqueNames
  <2> HIDE DEF c
  <2>2. StoredFiles'[TheRoot'[i].name] = AllBytes'[c]
    BY <1>3, <2>1 DEF StoredFiles, AllBytes, c, Files
  <2> QED BY <2>1, <2>2
<1> QED BY <1>1, <1>2, <1>3 DEF FilesAre

LEMMA FilesSame ==
    ASSUME NEW r, NEW q, NEW B, NEW C, NEW F, NEW G,
           FilesAre(r, B, F), FilesAre(q, C, G), Named(r), Files(q) = Files(r),
           \A i \in Files(r) : q[i].name = r[i].name /\ C[i] = B[i]
    PROVE  G = F
<1>1. ASSUME NEW n \in Name  PROVE G[n] = F[n]
  <2>1. CASE \E i \in Files(r) : r[i].name = n
    <3>1. PICK i \in Files(r) : r[i].name = n
      BY <2>1
    <3>2. i \in Files(q) /\ q[i].name = n /\ C[i] = B[i]
      BY <3>1
    <3>3. F[n] = B[i]
      BY <3>1 DEF FilesAre
    <3>4. G[n] = C[i]
      BY <3>2 DEF FilesAre
    <3> QED BY <3>2, <3>3, <3>4
  <2>2. CASE \A i \in Files(r) : r[i].name # n
    BY <2>2 DEF FilesAre
  <2> QED BY <2>1, <2>2
<1>2. [n \in Name |-> G[n]] = [n \in Name |-> F[n]]
  BY <1>1
<1> QED BY <1>2 DEF FilesAre

\* Entry i of the directory, whose file is called n, is the only one to change.
OnlyFile(r, q, B, C, i, n) ==
    /\ Named(r) /\ Named(q) /\ UniqueNames(r) /\ UniqueNames(q)
    /\ i \in Files(r) \cup Files(q)
    /\ i \in Files(r) => r[i].name = n
    /\ i \in Files(q) => q[i].name = n
    /\ Files(q) \ {i} = Files(r) \ {i}
    /\ \A k \in Files(r) \ {i} : q[k].name = r[k].name /\ C[k] = B[k]

LEMMA OneFileChanges ==
    ASSUME NEW r, NEW q, NEW B, NEW C, NEW F, NEW G,
           FilesAre(r, B, F), FilesAre(q, C, G), NEW i, NEW n \in Name,
           OnlyFile(r, q, B, C, i, n)
    PROVE  /\ G = [F EXCEPT ![n] = G[n]]
           /\ G[n] = IF i \in Files(q) THEN C[i] ELSE NoName
           /\ F[n] = IF i \in Files(r) THEN B[i] ELSE NoName
<1> USE DEF OnlyFile
<1>1. ASSUME NEW k \in Files(r) \ {i}  PROVE r[k].name # n /\ q[k].name # n
  BY DEF UniqueNames
<1>2. G[n] = IF i \in Files(q) THEN C[i] ELSE NoName
  BY <1>1 DEF FilesAre
<1>3. F[n] = IF i \in Files(r) THEN B[i] ELSE NoName
  BY <1>1 DEF FilesAre
<1>4. ASSUME NEW m \in Name, m # n  PROVE G[m] = F[m]
  <2>1. CASE \E k \in Files(r) : r[k].name = m
    <3>1. PICK k \in Files(r) : r[k].name = m
      BY <2>1
    <3>2. k # i
      BY <1>4, <3>1
    <3>3. k \in Files(q) /\ q[k].name = m /\ C[k] = B[k]
      BY <3>1, <3>2
    <3>4. F[m] = B[k]
      BY <3>1 DEF FilesAre
    <3>5. G[m] = C[k]
      BY <3>3 DEF FilesAre
    <3> QED BY <3>3, <3>4, <3>5
  <2>2. CASE \A k \in Files(r) : r[k].name # m
    <3>1. \A k \in Files(q) : q[k].name # m
      BY <1>4, <2>2
    <3> QED BY <2>2, <3>1 DEF FilesAre
  <2> QED BY <2>1, <2>2
<1>5. G = [m \in Name |-> IF m = n THEN G[n] ELSE F[m]]
  <2>1. [m \in Name |-> G[m]] = [m \in Name |-> IF m = n THEN G[n] ELSE F[m]]
    BY <1>4
  <2> QED BY <2>1 DEF FilesAre
<1>6. [F EXCEPT ![n] = G[n]] = [m \in Name |-> IF m = n THEN G[n] ELSE F[m]]
  BY DEF FilesAre
<1> QED BY <1>2, <1>3, <1>5, <1>6

LEMMA TableNames == StoreInv => UniqueNames(TheRoot) /\ Named(TheRoot)
<1>1. StoreInv => FullInv /\ AllNamed /\ CallKept
  BY DEF StoreInv
<1>2. ~up /\ ~disk_boot /\ CallKept => UniqueNames(TheRoot) /\ Named(TheRoot)
  BY NoFilesNoNames DEF TheRoot, CallKept, Named
<1> QED BY <1>1, <1>2 DEF TheRoot, FullInv, NamesUnique, DiskNames, AllNamed

LEMMA TableNamesNext == StoreInv' => UniqueNames(TheRoot') /\ Named(TheRoot')
<1>1. StoreInv' => FullInv' /\ AllNamed' /\ CallKept'
  BY DEF StoreInv
<1>2. ~up' /\ ~disk_boot' /\ CallKept' => UniqueNames(TheRoot') /\ Named(TheRoot')
  BY NoFilesNoNames DEF TheRoot, CallKept, Named
<1> QED BY <1>1, <1>2 DEF TheRoot, FullInv, NamesUnique, DiskNames, AllNamed

\* Callers see the same files after a step that leaves alone names and bytes,
LEMMA FilesStay ==
    ASSUME StoreInv, StoreInv', Files(TheRoot') = Files(TheRoot),
           \A k \in Files(TheRoot) : /\ TheRoot'[k].name = TheRoot[k].name
                                     /\ FileBytes(k)' = FileBytes(k)
    PROVE  StoredFiles' = StoredFiles
<1>1. /\ FilesAre(TheRoot, AllBytes, StoredFiles) /\ Named(TheRoot)
      /\ FilesAre(TheRoot', AllBytes', StoredFiles')
  BY TableNames, TableNamesNext, StoredFilesAre, StoredFilesAreNext
<1>2. \A k \in Files(TheRoot) : TheRoot'[k].name = TheRoot[k].name /\ AllBytes'[k] = AllBytes[k]
  BY DEF AllBytes, Files
<1> QED BY <1>1, <1>2, FilesSame

\* and one other file after a step that changes one entry.
LEMMA FileChanges ==
    ASSUME StoreInv, StoreInv', NEW i \in Files(TheRoot) \cup Files(TheRoot'), NEW n \in Name,
           i \in Files(TheRoot) => TheRoot[i].name = n,
           i \in Files(TheRoot') => TheRoot'[i].name = n,
           Files(TheRoot') \ {i} = Files(TheRoot) \ {i},
           \A k \in Files(TheRoot) \ {i} : /\ TheRoot'[k].name = TheRoot[k].name
                                           /\ FileBytes(k)' = FileBytes(k)
    PROVE  /\ StoredFiles' = [StoredFiles EXCEPT ![n] = StoredFiles'[n]]
           /\ StoredFiles'[n] = IF i \in Files(TheRoot') THEN FileBytes(i)' ELSE NoName
           /\ StoredFiles[n] = IF i \in Files(TheRoot) THEN FileBytes(i) ELSE NoName
<1>1. /\ FilesAre(TheRoot, AllBytes, StoredFiles)
      /\ FilesAre(TheRoot', AllBytes', StoredFiles')
  BY TableNames, TableNamesNext, StoredFilesAre, StoredFilesAreNext
<1>2. OnlyFile(TheRoot, TheRoot', AllBytes, AllBytes', i, n)
  <2>1. \A k \in Files(TheRoot) \ {i} : /\ TheRoot'[k].name = TheRoot[k].name
                                         /\ AllBytes'[k] = AllBytes[k]
    BY DEF AllBytes, Files
  <2> QED BY <2>1, TableNames, TableNamesNext DEF OnlyFile
<1>3. i \in DirIndexes
  BY DEF Files
<1>4. AllBytes[i] = FileBytes(i) /\ AllBytes'[i] = FileBytes(i)'
  BY <1>3 DEF AllBytes
<1>5. /\ StoredFiles' = [StoredFiles EXCEPT ![n] = StoredFiles'[n]]
      /\ StoredFiles'[n] = IF i \in Files(TheRoot') THEN AllBytes'[i] ELSE NoName
      /\ StoredFiles[n] = IF i \in Files(TheRoot) THEN AllBytes[i] ELSE NoName
  BY <1>1, <1>2, OneFileChanges
<1> QED BY <1>4, <1>5

LEMMA NoneStored ==
    /\ Files(TheRoot) = {} => StoredFiles = [n \in Name |-> NoName]
    /\ Files(TheRoot') = {} => StoredFiles' = [n \in Name |-> NoName]
BY DEF StoredFiles

\* Between calls a file is all of its bytes, and is no missing file.
LEMMA FileStored ==
    ASSUME WholeDisk, StoreInv, call.op # "write", NEW i \in Files(TheRoot)
    PROVE  /\ TheRoot[i].name \in Name
           /\ StoredFiles[TheRoot[i].name] = FileBytes(i)
           /\ FileBytes(i) \in Seq(Byte) /\ Len(FileBytes(i)) = TheRoot[i].size
           /\ FileBytes(i) # NoName
           /\ FileBytes(i) = BytesOf(TheFAT, TheRoot[i].starting_block, disk_data, TheRoot[i].size)
           /\ TheRoot[i].size \in Nat /\ Ends(TheFAT, TheRoot[i].starting_block)
           /\ HasBlocks(TheFAT, TheRoot[i].starting_block, TheRoot[i].size)
<1> DEFINE s    == TheRoot[i].starting_block
           size == TheRoot[i].size
<1>1. /\ TheRoot[i].name \in Name /\ size \in Nat /\ Ends(TheFAT, s)
      /\ \A n \in 0 .. size + 1 : HasBlocks(TheFAT, s, n)
  BY TheTables DEF StoreInv
<1>2. HasBlocks(TheFAT, s, size)
  BY <1>1
<1>3. FileBytes(i) = BytesOf(TheFAT, s, disk_data, size)
  <2>1. Pending(i) = 0 /\ size - 0 = size
    BY <1>1 DEF Pending
  <2> QED BY <2>1 DEF FileBytes
<1>4. disk_data \in [DiskBlocks -> Contents]
  BY DEF StoreInv, FullInv, IInv, TypeOK
<1>5. FileBytes(i) \in Seq(Byte) /\ Len(FileBytes(i)) = size
  <2> HIDE DEF s, size
  <2> QED BY <1>1, <1>2, <1>3, <1>4, BytesType
<1>6. FilesAre(TheRoot, AllBytes, StoredFiles)
  BY TableNames, StoredFilesAre
<1>7. StoredFiles[TheRoot[i].name] = FileBytes(i)
  <2>1. AllBytes[i] = FileBytes(i)
    BY DEF AllBytes, Files
  <2> QED BY <1>1, <1>6, <2>1 DEF FilesAre
<1> QED BY <1>1, <1>2, <1>3, <1>5, <1>7, StoreAssumption

LEMMA HandlesStay ==
    ASSUME \A h \in Handles : HandleSeen(h)' = HandleSeen(h)
    PROVE  StoredHandles' = StoredHandles
BY DEF StoredHandles

LEMMA HandleChanges ==
    ASSUME NEW h \in Handles, \A g \in Handles \ {h} : HandleSeen(g)' = HandleSeen(g)
    PROVE  StoredHandles' = [StoredHandles EXCEPT ![h] = HandleSeen(h)']
BY DEF StoredHandles

\* A handle a step leaves alone is seen where it was.
LEMMA HandleKept ==
    ASSUME NEW h \in Handles, handle_table'[h] = handle_table[h], Moved(h)' = Moved(h),
           LET i == handle_table[h].directory_index IN
           handle_table[h].in_use => root_directory'[i].name = root_directory[i].name
    PROVE  HandleSeen(h)' = HandleSeen(h)
BY DEF HandleSeen

\* Only the handle of a call under way is ahead of what callers see.
LEMMA NothingMoved ==
    ASSUME NEW h
    PROVE  /\ CallKept /\ call.op \notin {"read", "write"} => Moved(h) = 0
           /\ CallKept' /\ call'.op \notin {"read", "write"} => Moved(h)' = 0
           /\ call.handle # h => Moved(h) = 0
           /\ call'.handle # h => Moved(h)' = 0
BY DEF CallKept, Moved

LEMMA NoReply ==
    /\ call.op # "read" \/ call.buffer = << >> => Reply = << >>
    /\ call'.op # "read" \/ call'.buffer = << >> => Reply' = << >>
BY DEF Reply

\* What a step looks like to callers.
Unseen    == UNCHANGED <<StoredFiles, StoredHandles, Reply>>
StoreStep == Store!StoreNext \/ Unseen
-----------------------------------------------------------------------------
(***************************************************************************)
(* The steps of read() and write().  A read() is seen when it has its last *)
(* byte, a write() when it returns.                                        *)
(***************************************************************************)
\* The handle of a call under way, as callers see it, is its file's.
LEMMA CallHandle ==
    ASSUME WholeDisk, StoreInv, call.op \in {"read", "write"}
    PROVE  LET h == call.handle IN
           /\ h \in Handles /\ H.directory_index \in Files(root_directory)
           /\ H.in_use /\ (H.mode = "READ" <=> call.op = "read") /\ H.mode \in {"READ", "WRITE"}
           /\ CallFile.name \in Name /\ H.offset \in Nat
           /\ H = handle_table[h] /\ H \in Handle /\ handle_table \in [Handles -> Handle]
           /\ HandleSeen(h) = [in_use |-> TRUE, mode |-> H.mode, name |-> CallFile.name,
                               offset |-> H.offset - Moved(h)]
<1>1. CASE call.op = "read"
  BY <1>1, Reading DEF StoreInv, HandleSeen, CallFile, AllNamed, Named, H
<1>2. CASE call.op = "write"
  <2>1. /\ call.handle \in Handles /\ H \in Handle /\ H = handle_table[call.handle]
        /\ H.in_use /\ H.mode = "WRITE" /\ H.directory_index \in Files(root_directory)
        /\ handle_table \in [Handles -> Handle]
    BY <1>2, Writing DEF StoreInv, FullInv, IInv, TypeOK
  <2>2. CallFile.name \in Name /\ H.offset \in Nat
    BY <2>1 DEF StoreInv, CallFile, AllNamed, Named, Handle
  <2> QED BY <1>2, <2>1, <2>2 DEF HandleSeen, CallFile, H
<1> QED BY <1>1, <1>2

\* The handle h is seen k bytes further on.
Advances(h, k) ==
    \E in_use, mode, name, offset :
       /\ HandleSeen(h) = [in_use |-> in_use, mode |-> mode, name |-> name, offset |-> offset]
       /\ HandleSeen(h)' = [in_use |-> in_use, mode |-> mode, name |-> name, offset |-> offset + k]

LEMMA HandleAdvances ==
    ASSUME NEW h \in Handles, NEW k, Advances(h, k),
           \A g \in Handles \ {h} : HandleSeen(g)' = HandleSeen(g)
    PROVE  StoredHandles' = [StoredHandles EXCEPT ![h].offset = @ + k]
<1>1. PICK in_use, mode, name, offset :
         /\ HandleSeen(h) = [in_use |-> in_use, mode |-> mode, name |-> name, offset |-> offset]
         /\ HandleSeen(h)' = [in_use |-> in_use, mode |-> mode, name |-> name, offset |-> offset + k]
  BY DEF Advances
<1>2. PICK seen : seen = [in_use |-> in_use, mode |-> mode, name |-> name, offset |-> offset]
  OBVIOUS
<1>3. [seen EXCEPT !.offset = @ + k]
         = [in_use |-> in_use, mode |-> mode, name |-> name, offset |-> offset + k]
  BY <1>2
<1>4. StoredHandles' = [StoredHandles EXCEPT ![h] = HandleSeen(h)']
  BY HandleChanges
<1>5. StoredHandles[h] = seen
  BY <1>1, <1>2 DEF StoredHandles
<1> QED BY <1>1, <1>3, <1>4, <1>5

LEMMA TakesStep ==
    ASSUME WholeDisk, StoreInv, NEW block, Takes(block), FullInv', AllNamed'
    PROVE  StoreStep
<1> DEFINE n    == CallFile.name
           size == CallFile.size
           len  == Len(call.buffer)
           off  == H.offset
<1>1. PICK h \in Handles, i \in DirIndexes : h = call.handle /\ i = H.directory_index
  BY CallHandle DEF Takes, Files
<1> DEFINE file == FileBytes(i)
<1>2. call.op = "read" /\ call'.op = "read" /\ len < call.count /\ MoreBytes
      /\ call'.handle = h /\ call'.count = call.count
  BY <1>1 DEF Takes, MoreBytes
<1>3. /\ StoreInv' /\ H'.directory_index = i /\ H'.offset = off + 1
      /\ Len(call'.buffer) = len + 1
      /\ \A k \in DirIndexes : FileBytes(k)' = FileBytes(k)
  BY <1>1, TakesStore
<1>4. /\ h \in Handles /\ i \in Files(root_directory)
      /\ H.in_use /\ H.mode = "READ" /\ n \in Name /\ off \in Nat
      /\ H = handle_table[h] /\ H \in Handle /\ handle_table \in [Handles -> Handle]
      /\ HandleSeen(h) = [in_use |-> TRUE, mode |-> H.mode, name |-> n,
                          offset |-> off - Moved(h)]
  BY <1>1, <1>2, CallHandle
<1>5. /\ TheRoot = root_directory /\ TheFAT = FAT /\ len \in Nat /\ call.count \in Nat
      /\ file \in Seq(Byte) /\ Len(file) = size /\ size \in Nat
      /\ off + (call.count - len) <= size /\ len <= off
      /\ call.count \in 1 .. LongestCount
  BY <1>1, <1>2, ReadingFrom
<1>6. TheRoot' = TheRoot /\ root_directory' = root_directory
  BY DEF Takes, TheRoot
<1>7. StoredFiles' = StoredFiles
  BY <1>3, <1>6, FilesStay DEF Files
<1>8. handle_table'[h] = [H EXCEPT !.offset = @ + 1, !.current_block = block]
      /\ \A g \in Handles : g # h => handle_table'[g] = handle_table[g]
  BY <1>1, <1>4 DEF Takes
<1>9. \A g \in Handles \ {h} : HandleSeen(g)' = HandleSeen(g)
  <2> SUFFICES ASSUME NEW g \in Handles \ {h}  PROVE HandleSeen(g)' = HandleSeen(g)
    OBVIOUS
  <2>1. Moved(g)' = Moved(g)
    BY <1>1, <1>2, NothingMoved
  <2> QED BY <1>6, <1>8, <2>1, HandleKept
<1>10. StoredHandles' = [StoredHandles EXCEPT ![h] = HandleSeen(h)']
  BY <1>4, <1>9, HandleChanges
<1>11. Moved(h) = len /\ Moved(h)' = IF MoreBytes' THEN len + 1 ELSE 0
  BY <1>1, <1>2, <1>3 DEF Moved
<1>12. HandleSeen(h)' = [in_use |-> TRUE, mode |-> "READ", name |-> n,
                         offset |-> (off + 1) - Moved(h)']
  <2>1. /\ handle_table'[h].in_use = TRUE /\ handle_table'[h].mode = "READ"
        /\ handle_table'[h].directory_index = i
        /\ handle_table'[h].offset = off + 1
    BY <1>1, <1>4, <1>8 DEF Handle
  <2>2. root_directory'[i].name = n
    BY <1>1, <1>6 DEF CallFile
  <2>3. HandleSeen(h)' = [in_use |-> handle_table'[h].in_use, mode |-> handle_table'[h].mode,
                          name |-> IF handle_table'[h].in_use
                                   THEN root_directory'[handle_table'[h].directory_index].name
                                   ELSE NoName,
                          offset |-> handle_table'[h].offset - Moved(h)']
    BY DEF HandleSeen
  <2> HIDE DEF off, n
  <2> QED BY <2>1, <2>2, <2>3
<1>13. StoredHandles[h] = HandleSeen(h)
  BY <1>4 DEF StoredHandles
<1>14. Reply = << >>
  BY <1>2 DEF Reply
<1>15. CASE MoreBytes'
  <2>1. HandleSeen(h)' = HandleSeen(h)
    <3>1. (off + 1) - (len + 1) = off - len
      BY SMTT(30), <1>4, <1>5
    <3> HIDE DEF len, off, n
    <3> QED BY <1>4, <1>11, <1>12, <1>15, <3>1
  <2>2. StoredHandles' = StoredHandles
    BY <1>9, <2>1, HandlesStay
  <2>3. Reply' = << >>
    BY <1>15 DEF Reply
  <2> QED BY <1>7, <1>14, <2>2, <2>3 DEF StoreStep, Unseen
<1>16. CASE ~MoreBytes'
  <2>1. call.count = len + 1
    <3>1. ~(len + 1 < call.count)
      BY <1>2, <1>3, <1>16 DEF MoreBytes
    <3> HIDE DEF len
    <3> QED BY <1>2, <1>5, <3>1
  <2>2. Reply' = call'.buffer
    BY <1>2, <1>16 DEF Reply
  <2>3. call'.buffer = SubSeq(file, off - len + 1, off + 1)
    <3>1. call'.buffer = SubSeq(FileBytes(H.directory_index)',
                                H'.offset - Len(call'.buffer) + 1, H'.offset)
      BY <1>2, <1>3 DEF StoreInv, ReadSoFar
    <3>2. FileBytes(H.directory_index)' = file
      BY <1>2, <1>3, <1>4, NothingPending DEF FileBytes, Takes, TheRoot, TheFAT
    <3>3. H'.offset - Len(call'.buffer) + 1 = off - len + 1
      <4>1. H'.offset = off + 1 /\ Len(call'.buffer) = len + 1 /\ off \in Nat /\ len \in Nat
        BY <1>3, <1>4, <1>5
      <4> HIDE DEF off, len
      <4> QED BY <4>1
    <3> QED BY <1>3, <3>1, <3>2, <3>3
  <2>4. StoredFiles[n] = file
    BY <1>1, <1>2, <1>4, <1>5, FileStored DEF CallFile
  <2>5. off + 1 = (IF (off - len) + call.count < Len(file) THEN (off - len) + call.count
                                                           ELSE Len(file))
    <3> HIDE DEF len, off, size, file
    <3> QED BY <1>4, <1>5, <2>1
  <2>6. StoredHandles[h].in_use /\ StoredHandles[h].mode = "READ"
        /\ StoredHandles[h].name = n /\ StoredHandles[h].offset = off - len
    BY <1>4, <1>11, <1>13
  <2>7. PICK k : k = Len(Reply')
    OBVIOUS
  <2>8. StoredHandles' = [StoredHandles EXCEPT ![h].offset = @ + Len(Reply')]
    <3>1. k = len + 1
      BY <1>3, <2>2, <2>7
    <3>2. (off + 1) - 0 = (off - len) + (len + 1)
      BY <1>4, <1>5
    <3> HIDE DEF len, off, n
    <3>3. HandleSeen(h) = [in_use |-> TRUE, mode |-> "READ", name |-> n, offset |-> off - len]
      BY <1>4, <1>11
    <3>4. HandleSeen(h)' = [in_use |-> TRUE, mode |-> "READ", name |-> n,
                            offset |-> (off - len) + k]
      <4>1. Moved(h)' = 0
        BY <1>11, <1>16
      <4>2. (off + 1) - Moved(h)' = (off - len) + k
        BY <3>1, <3>2, <4>1
      <4> QED BY <1>12, <4>2
    <3>5. Advances(h, k)
      BY <3>3, <3>4 DEF Advances
    <3>6. StoredHandles' = [StoredHandles EXCEPT ![h].offset = @ + k]
      BY <1>9, <3>5, HandleAdvances
    <3> QED BY <2>7, <3>6
  <2>9. Reply' = SubSeq(StoredFiles[StoredHandles[h].name], StoredHandles[h].offset + 1,
           IF StoredHandles[h].offset + call.count < Len(StoredFiles[StoredHandles[h].name])
           THEN StoredHandles[h].offset + call.count
           ELSE Len(StoredFiles[StoredHandles[h].name]))
    <3> HIDE DEF len, off, file, n
    <3> QED BY <2>2, <2>3, <2>4, <2>5, <2>6
  <2>10. Store!Read(h, call.count)
    BY <1>7, <2>6, <2>8, <2>9 DEF Store!Read
  <2> QED BY <1>4, <1>5, <2>10 DEF StoreStep, Store!StoreNext
<1> QED BY <1>15, <1>16

\* Names of files are what handles see of the directory.
LEMMA OthersKept ==
    ASSUME StoreInv, NEW h \in Handles,
           \A g \in Handles \ {h} : handle_table'[g] = handle_table[g] /\ Moved(g)' = Moved(g),
           \A k \in Files(root_directory) : root_directory'[k].name = root_directory[k].name
    PROVE  \A g \in Handles \ {h} : HandleSeen(g)' = HandleSeen(g)
<1> SUFFICES ASSUME NEW g \in Handles \ {h}  PROVE HandleSeen(g)' = HandleSeen(g)
  OBVIOUS
<1>1. handle_table[g].in_use => handle_table[g].directory_index \in Files(root_directory)
  BY DEF StoreInv, FullInv, IInv, HandlesOnFiles
<1> QED BY <1>1, HandleKept

LEMMA PutsStep ==
    ASSUME WholeDisk, StoreInv, NEW byte \in Byte, NEW block \in Blocks, Puts(byte, block),
           StoreInv', \A k \in Files(root_directory) : FileBytes(k)' = FileBytes(k)
    PROVE  StoreStep
<1> DEFINE n   == CallFile.name
           len == Len(call.buffer)
           off == H.offset
<1>1. call.op = "write" /\ call'.op = "write" /\ call'.handle = call.handle
  BY DEF Puts
<1>2. PICK h \in Handles, i \in Files(root_directory) : h = call.handle /\ i = H.directory_index
  BY <1>1, CallHandle
<1>3. /\ H.in_use /\ H.mode = "WRITE" /\ off \in Nat
      /\ H = handle_table[h] /\ H \in Handle /\ handle_table \in [Handles -> Handle]
      /\ HandleSeen(h) = [in_use |-> TRUE, mode |-> H.mode, name |-> n,
                          offset |-> off - Moved(h)]
  BY <1>1, <1>2, CallHandle
<1>4. /\ TheRoot = root_directory /\ len \in Nat
  BY <1>1, Appending
<1>5. /\ TheRoot' = root_directory' /\ Files(root_directory') = Files(root_directory)
      /\ \A k \in DirIndexes : k # i => root_directory'[k] = root_directory[k]
      /\ root_directory'[i].name = n /\ root_directory[i].name = n
      /\ Len(call'.buffer) = len + 1
  BY <1>2, PutsDoes DEF CallFile
<1>6. \A k \in Files(root_directory) : root_directory'[k].name = root_directory[k].name
  BY <1>5 DEF Files
<1>7. StoredFiles' = StoredFiles
  BY <1>4, <1>5, <1>6, FilesStay
<1>8. handle_table'[h] = [H EXCEPT !.offset = @ + 1, !.current_block = block]
      /\ \A g \in Handles \ {h} : handle_table'[g] = handle_table[g]
  BY <1>2, <1>3 DEF Puts
<1>9. \A g \in Handles \ {h} : HandleSeen(g)' = HandleSeen(g)
  <2>1. \A g \in Handles \ {h} : Moved(g)' = Moved(g)
    BY <1>1, <1>2, NothingMoved
  <2> QED BY <1>6, <1>8, <2>1, OthersKept
<1>10. HandleSeen(h)' = HandleSeen(h)
  <2>1. /\ handle_table'[h].in_use = TRUE /\ handle_table'[h].mode = "WRITE"
        /\ handle_table'[h].directory_index = i
        /\ handle_table'[h].offset = off + 1
    BY <1>2, <1>3, <1>8 DEF Handle
  <2>2. HandleSeen(h)' = [in_use |-> handle_table'[h].in_use, mode |-> handle_table'[h].mode,
                          name |-> IF handle_table'[h].in_use
                                   THEN root_directory'[handle_table'[h].directory_index].name
                                   ELSE NoName,
                          offset |-> handle_table'[h].offset - Moved(h)']
    BY DEF HandleSeen
  <2>3. Moved(h) = len /\ Moved(h)' = len + 1
    BY <1>1, <1>2, <1>5 DEF Moved
  <2>4. (off + 1) - (len + 1) = off - len
    BY <1>3, <1>4
  <2> HIDE DEF len, off, n
  <2>5. HandleSeen(h)' = [in_use |-> TRUE, mode |-> "WRITE", name |-> n,
                          offset |-> (off + 1) - (len + 1)]
    BY <1>5, <2>1, <2>2, <2>3
  <2>6. HandleSeen(h) = [in_use |-> TRUE, mode |-> "WRITE", name |-> n, offset |-> off - len]
    BY <1>3, <2>3
  <2> QED BY <2>4, <2>5, <2>6
<1>11. StoredHandles' = StoredHandles
  BY <1>9, <1>10, HandlesStay
<1>12. Reply' = << >> /\ Reply = << >>
  BY <1>1 DEF Reply
<1> QED BY <1>7, <1>11, <1>12 DEF StoreStep, Unseen

LEMMA ReadEndStep ==
    ASSUME WholeDisk, StoreInv, ReadEnd, FullInv', AllNamed'
    PROVE  StoreInv' /\ StoreStep
<1>1. /\ call.op = "read" /\ ~MoreBytes /\ call' = Idle
      /\ UNCHANGED <<up, formatted_flag, FAT, root_directory, handle_table, disk>>
  BY DEF ReadEnd
<1>2. call'.op = "idle" /\ call'.buffer = << >>
  BY <1>1 DEF Idle
<1>3. StoreInv'
  BY <1>1, <1>2, IdleStore DEF disk, StoreInv, CallKept
<1>4. StoredFiles' = StoredFiles
  <2>1. TheRoot' = TheRoot /\ TheFAT' = TheFAT /\ disk_data' = disk_data
    BY <1>1 DEF TheRoot, TheFAT, disk
  <2>2. \A k \in DirIndexes : FileBytes(k)' = FileBytes(k)
    BY <1>1, <1>2, <2>1, NothingPending, BytesUnchanged
  <2> QED BY <1>3, <2>1, <2>2, FilesStay DEF Files
<1>5. StoredHandles' = StoredHandles
  <2>1. \A h \in Handles : Moved(h)' = Moved(h)
    BY <1>1, <1>2, <1>3, NothingMoved DEF Moved, StoreInv
  <2> QED BY <1>1, <2>1, HandleKept, HandlesStay
<1>6. Reply' = << >>
  BY <1>2, NoReply
<1>7. Store!Return
  BY <1>4, <1>5, <1>6 DEF Store!Return
<1> QED BY <1>3, <1>7 DEF StoreStep, Store!StoreNext

LEMMA WriteEndStep ==
    ASSUME WholeDisk, StoreInv, WriteEnd, FullInv', AllNamed'
    PROVE  StoreInv' /\ StoreStep
<1> DEFINE n    == CallFile.name
           s    == CallFile.starting_block
           size == CallFile.size
           data == call.buffer
           len  == Len(call.buffer)
           off  == H.offset
<1>1. /\ call.op = "write" /\ ~MoreBytes /\ call' = Idle
      /\ disk_data' = WrittenBack
      /\ UNCHANGED <<up, formatted_flag, FAT, root_directory, handle_table, disk_boot,
                     disk_FAT, disk_root>>
  BY DEF WriteEnd, WrittenBack
<1>2. call'.op = "idle" /\ call'.buffer = << >>
  BY <1>1 DEF Idle
<1>3. StoreInv'
  BY <1>1, <1>2, IdleStore DEF StoreInv, CallKept
<1>4. PICK h \in Handles, i \in Files(root_directory) : h = call.handle /\ i = H.directory_index
  BY <1>1, CallHandle
<1>5. /\ H.in_use /\ H.mode = "WRITE" /\ off \in Nat /\ n \in Name
      /\ H = handle_table[h] /\ H \in Handle
      /\ HandleSeen(h) = [in_use |-> TRUE, mode |-> H.mode, name |-> n,
                          offset |-> off - Moved(h)]
  BY <1>1, <1>4, CallHandle
<1>6. /\ up /\ TheRoot = root_directory /\ TheFAT = FAT
      /\ H.current_block \in Chain(FAT, s) /\ H.current_block \in DiskBlocks
      /\ size \in Nat /\ data \in Seq(Byte) /\ len \in Nat
      /\ BytesOf(FAT, s, WrittenBack, size) = FileBytes(i) \o data
  BY <1>1, <1>4, Appending
<1>7. TheRoot' = root_directory /\ TheFAT' = FAT /\ i \in DirIndexes
      /\ CallFile = root_directory[i]
  BY <1>1, <1>4, <1>6 DEF TheRoot, TheFAT, Files, CallFile
<1>8. \A k \in DirIndexes : Pending(k)' = 0
  BY <1>2, NothingPending
<1>9. FileBytes(i)' = FileBytes(i) \o data
  <2>1. FileBytes(i)' = BytesOf(FAT, s, WrittenBack, size - 0)
    BY <1>1, <1>7, <1>8 DEF FileBytes
  <2>2. size - 0 = size
    BY <1>6
  <2> HIDE DEF size
  <2> QED BY <1>6, <2>1, <2>2
<1>10. ASSUME NEW k \in Files(root_directory) \ {i}  PROVE FileBytes(k)' = FileBytes(k)
  <2> DEFINE t == root_directory[k].starting_block
             m == root_directory[k].size
  <2>1. m \in Nat /\ Ends(FAT, t) /\ HasBlocks(FAT, t, m)
    <3>1. /\ m \in Nat /\ Ends(FAT, t) /\ \A j \in 0 .. m + 1 : HasBlocks(FAT, t, j)
      BY <1>6, TheTables DEF StoreInv
    <3> QED BY <3>1
  <2>2. FileBytes(k) = BytesOf(FAT, t, disk_data, m)
    <3>1. Pending(k) = 0 /\ m - 0 = m
      BY <1>4, <2>1 DEF Pending
    <3> QED BY <1>6, <3>1 DEF FileBytes
  <2>3. FileBytes(k)' = BytesOf(FAT, t, WrittenBack, m)
    <3>1. k \in DirIndexes /\ m - 0 = m
      BY <2>1 DEF Files
    <3> QED BY <1>1, <1>7, <1>8, <3>1 DEF FileBytes
  <2>4. \A b \in Chain(FAT, t) : WrittenBack[b] = disk_data[b]
    <3>1. Consistent(FAT, root_directory)
      BY <1>1, Writing DEF StoreInv, FullInv
    <3>2. \A b \in Chain(FAT, t) : b \in DataBlocks /\ b # H.current_block
      <4>1. \A b \in Chain(FAT, root_directory[k].starting_block) :
               b \in DataBlocks /\ b \notin Chain(FAT, root_directory[i].starting_block)
        BY <3>1, BlockOfFile
      <4> QED BY <1>6, <1>7, <4>1
    <3>3. DataBlocks \subseteq DiskBlocks /\ disk_data \in [DiskBlocks -> Contents]
      BY SizeAssumption DEF DataBlocks, DiskBlocks, WholeDisk, StoreInv, FullInv, IInv, TypeOK
    <3> QED BY <3>2, <3>3 DEF WrittenBack
  <2> HIDE DEF t, m
  <2> QED BY <2>1, <2>2, <2>3, <2>4, BytesKept
<1>11. /\ StoredFiles' = [StoredFiles EXCEPT ![n] = StoredFiles'[n]]
       /\ StoredFiles'[n] = FileBytes(i)' /\ StoredFiles[n] = FileBytes(i)
  <2>1. n \in Name /\ i \in Files(TheRoot) \cup Files(TheRoot') /\ TheRoot[i].name = n
        /\ TheRoot'[i].name = n /\ i \in Files(TheRoot) /\ i \in Files(TheRoot')
    BY <1>4, <1>5, <1>6, <1>7
  <2> HIDE DEF n
  <2> QED BY <1>3, <1>6, <1>7, <1>10, <2>1, FileChanges
<1>12. StoredFiles' = [StoredFiles EXCEPT ![n] = @ \o data]
  BY <1>9, <1>11
<1>13. StoredHandles' = [StoredHandles EXCEPT ![h].offset = @ + len]
  <2>1. Moved(h) = len
    BY <1>1, <1>4 DEF Moved
  <2>2. \A g \in Handles : Moved(g)' = 0
    BY <1>2, <1>3, NothingMoved DEF StoreInv
  <2>3. \A g \in Handles \ {h} : HandleSeen(g)' = HandleSeen(g)
    <3>1. \A g \in Handles \ {h} : Moved(g)' = Moved(g)
      BY <1>4, <2>2, NothingMoved
    <3> QED BY <1>1, <3>1, OthersKept
  <2>4. HandleSeen(h)' = [in_use |-> handle_table[h].in_use, mode |-> handle_table[h].mode,
                          name |-> IF handle_table[h].in_use
                                   THEN root_directory[handle_table[h].directory_index].name
                                   ELSE NoName,
                          offset |-> handle_table[h].offset - Moved(h)']
    BY <1>1 DEF HandleSeen
  <2>5. off - 0 = (off - len) + len
    BY <1>5, <1>6
  <2>6. handle_table[h].in_use = TRUE /\ handle_table[h].mode = "WRITE"
        /\ root_directory[handle_table[h].directory_index].name = n
        /\ handle_table[h].offset = off
    BY <1>4, <1>5, <1>7 DEF Handle
  <2> HIDE DEF off, len, n
  <2>7. HandleSeen(h)' = [in_use |-> TRUE, mode |-> "WRITE", name |-> n,
                          offset |-> (off - len) + len]
    BY <2>2, <2>4, <2>5, <2>6
  <2>8. HandleSeen(h) = [in_use |-> TRUE, mode |-> "WRITE", name |-> n, offset |-> off - len]
    BY <1>5, <2>1
  <2>9. Advances(h, len)
    BY <2>7, <2>8 DEF Advances
  <2> QED BY <2>3, <2>9, HandleAdvances DEF len
<1>14. Reply' = << >> /\ Reply = << >>
  BY <1>1, <1>2, NoReply
<1>15. StoredHandles[h].in_use /\ StoredHandles[h].mode = "WRITE" /\ StoredHandles[h].name = n
  <2>1. StoredHandles[h] = HandleSeen(h)
    BY DEF StoredHandles
  <2> QED BY <1>5, <2>1
<1>16. Store!Write(h, data)
  BY <1>12, <1>13, <1>14, <1>15 DEF Store!Write
<1>17. len \in 1 .. LongestCount
  <2>1. ~(len < call.count) /\ len <= call.count /\ call.count \in 1 .. LongestCount
    BY <1>1 DEF MoreBytes, StoreInv, CallKept
  <2> HIDE DEF len
  <2> QED BY <1>6, <2>1
<1>18. data \in [1 .. len -> Byte]
  BY <1>6
<1> QED BY <1>3, <1>16, <1>17, <1>18 DEF StoreStep, Store!StoreNext
-----------------------------------------------------------------------------
(***************************************************************************)
(* The steps of the object's life, and a call's first.                     *)
(***************************************************************************)
LEMMA OneClosed ==
    ASSUME NEW h \in Handles, handle_table'[h] = ClosedHandle, Moved(h)' = 0
    PROVE  HandleSeen(h)' = Store!NotInUse
<1>1. HandleSeen(h)' = [in_use |-> handle_table'[h].in_use, mode |-> handle_table'[h].mode,
                        name |-> IF handle_table'[h].in_use
                                 THEN root_directory'[handle_table'[h].directory_index].name
                                 ELSE NoName,
                        offset |-> handle_table'[h].offset - Moved(h)']
  BY DEF HandleSeen
<1>2. ClosedHandle.offset - 0 = 0 /\ ~ClosedHandle.in_use /\ ClosedHandle.mode = "READ"
      /\ ClosedHandle.in_use = FALSE
  BY DEF ClosedHandle
<1>3. HandleSeen(h)' = [in_use |-> FALSE, mode |-> "READ", name |-> NoName, offset |-> 0]
  BY <1>1, <1>2
<1> QED BY <1>3 DEF Store!NotInUse

LEMMA ClosedSeen ==
    ASSUME handle_table' = AllClosed, \A h \in Handles : Moved(h)' = 0
    PROVE  StoredHandles' = [h \in Handles |-> Store!NotInUse]
BY OneClosed DEF AllClosed, StoredHandles

\* What callers see when the object has gone or has just been made.
LEMMA RestartStep ==
    ASSUME WholeDisk, StoreInv, StoreInv', handle_table' = AllClosed,
           call.op \notin {"read", "write"}, call'.op \notin {"read", "write"},
           disk_data' = disk_data,
           \/ TheRoot' = TheRoot /\ TheFAT' = TheFAT
           \/ Files(TheRoot) = {} /\ Files(TheRoot') = {}
    PROVE  StoreStep
<1>1. StoredFiles' = StoredFiles
  <2>1. CASE TheRoot' = TheRoot /\ TheFAT' = TheFAT
    <3>1. \A k \in DirIndexes : FileBytes(k)' = FileBytes(k)
      BY <2>1, NothingPending, BytesUnchanged
    <3> QED BY <2>1, <3>1, FilesStay DEF Files
  <2>2. CASE Files(TheRoot) = {} /\ Files(TheRoot') = {}
    BY <2>2, NoneStored
  <2> QED BY <2>1, <2>2
<1>2. StoredHandles' = [h \in Handles |-> Store!NotInUse]
  BY ClosedSeen, NothingMoved DEF StoreInv
<1>3. Reply' = << >> /\ Reply = << >>
  BY NoReply
<1>4. Store!Restart
  BY <1>1, <1>2, <1>3 DEF Store!Restart
<1> QED BY <1>4 DEF StoreStep, Store!StoreNext

LEMMA ConstructStep ==
    ASSUME WholeDisk, StoreInv, Construct, FullInv', AllNamed'
    PROVE  StoreInv' /\ StoreStep
<1>1. /\ ~up /\ up' /\ handle_table' = AllClosed /\ UNCHANGED <<call, disk>>
      /\ FAT' = IF disk_boot THEN disk_FAT ELSE FAT
      /\ root_directory' = IF disk_boot THEN disk_root ELSE root_directory
  BY DEF Construct
<1>2. call.op = "idle" /\ call'.op = "idle" /\ call'.buffer = << >>
  BY <1>1, CallsNeedObject DEF StoreInv, FullInv, CallKept
<1>3. StoreInv'
  BY <1>1, <1>2, IdleStore DEF disk, StoreInv, CallKept
<1>4. CASE disk_boot
  <2>1. TheRoot' = TheRoot /\ TheFAT' = TheFAT
    BY <1>1, <1>4 DEF TheRoot, TheFAT
  <2> QED BY <1>1, <1>2, <1>3, <2>1, RestartStep DEF disk
<1>5. CASE ~disk_boot
  <2>1. Files(disk_root) = {} /\ Files(root_directory) = {}
    BY <1>1, <1>5 DEF StoreInv, CallKept, FullInv, IInv, FlagsOK
  <2>2. Files(TheRoot) = {} /\ Files(TheRoot') = {}
    BY <1>1, <1>5, <2>1 DEF TheRoot
  <2> QED BY <1>1, <1>2, <1>3, <2>2, RestartStep DEF disk
<1> QED BY <1>3, <1>4, <1>5

LEMMA DestroyUnformattedStep ==
    ASSUME WholeDisk, StoreInv, DestroyUnformatted, FullInv', AllNamed'
    PROVE  StoreInv' /\ StoreStep
<1>1. /\ up /\ call.op = "idle" /\ ~formatted_flag
      /\ ~up' /\ handle_table' = AllClosed /\ call' = Idle /\ UNCHANGED disk
  BY DEF DestroyUnformatted, Ready, Discarded
<1>2. call'.op = "idle" /\ call'.buffer = << >>
  BY <1>1 DEF Idle
<1>3. StoreInv'
  BY <1>1, <1>2, IdleStore DEF disk, StoreInv, CallKept
<1>4. Files(disk_root) = {} /\ Files(root_directory) = {}
  BY <1>1 DEF StoreInv, CallKept, FullInv, IInv, FlagsOK
<1>5. Files(TheRoot) = {} /\ Files(TheRoot') = {}
  BY <1>1, <1>4 DEF TheRoot, disk
<1> QED BY <1>1, <1>2, <1>3, <1>5, RestartStep DEF disk

LEMMA FlushRootStep ==
    ASSUME WholeDisk, StoreInv, FlushRoot, FullInv', AllNamed'
    PROVE  StoreInv' /\ StoreStep
<1>1. /\ up /\ call.op = "flush" /\ disk_root' = root_directory
      /\ ~up' /\ handle_table' = AllClosed /\ call' = Idle
      /\ UNCHANGED <<disk_boot, disk_FAT, disk_data>>
  BY DEF FlushRoot, Discarded
<1>2. call'.op = "idle" /\ call'.buffer = << >>
  BY <1>1 DEF Idle
<1>3. disk_boot /\ disk_FAT = FAT
  BY <1>1 DEF StoreInv, FullInv, IInv, FlagsOK, CallOK
<1>4. StoreInv'
  BY <1>1, <1>2, <1>3, IdleStore
<1>5. TheRoot' = TheRoot /\ TheFAT' = TheFAT
  BY <1>1, <1>3 DEF TheRoot, TheFAT
<1> QED BY <1>1, <1>2, <1>4, <1>5, RestartStep

\* A step that moves nothing callers see.
LEMMA UnseenStep ==
    ASSUME WholeDisk, StoreInv, StoreInv',
           up, UNCHANGED <<up, FAT, root_directory, handle_table, disk_root, disk_data>>,
           call.op \notin {"read", "write"}, call'.buffer = << >>
    PROVE  StoreStep
<1>1. TheRoot' = TheRoot /\ TheFAT' = TheFAT /\ disk_data' = disk_data
  BY DEF TheRoot, TheFAT
<1>2. \A k \in DirIndexes : Pending(k)' = 0 /\ Pending(k) = 0
  BY DEF Pending
<1>3. StoredFiles' = StoredFiles
  BY <1>1, <1>2, BytesUnchanged, FilesStay DEF Files
<1>4. \A h \in Handles : Moved(h) = 0 /\ Moved(h)' = 0
  BY NothingMoved DEF Moved, StoreInv
<1>5. StoredHandles' = StoredHandles
  BY <1>4, HandleKept, HandlesStay
<1>6. Reply' = << >> /\ Reply = << >>
  BY NoReply
<1> QED BY <1>3, <1>5, <1>6 DEF StoreStep, Unseen

LEMMA FlushFATStep ==
    ASSUME WholeDisk, StoreInv, FlushFAT, FullInv', AllNamed'
    PROVE  StoreInv' /\ StoreStep
<1>1. /\ up /\ call.op = "idle" /\ call' = [Idle EXCEPT !.op = "flush"]
      /\ UNCHANGED <<up, FAT, root_directory, handle_table, disk_boot, disk_root, disk_data>>
  BY DEF FlushFAT, Ready
<1>2. call'.op = "flush" /\ call'.buffer = << >>
  BY <1>1 DEF Idle
<1>3. StoreInv'
  BY <1>1, <1>2, IdleStore DEF StoreInv, CallKept
<1> QED BY <1>1, <1>2, <1>3, UnseenStep

LEMMA FormatStep ==
    ASSUME WholeDisk, StoreInv, NoHandles, Format, FullInv', AllNamed'
    PROVE  StoreInv' /\ StoreStep
<1>1. /\ up /\ call.op = "idle" /\ root_directory' = EmptyRoot /\ disk_boot'
      /\ UNCHANGED <<up, handle_table, call>>
  BY DEF Format, Ready
<1>2. call'.op = "idle" /\ call'.buffer = << >>
  BY <1>1 DEF StoreInv, CallKept
<1>3. StoreInv'
  BY <1>1, <1>2, IdleStore
<1>4. StoredFiles' = [n \in Name |-> NoName]
  <2>1. Files(TheRoot') = {}
    BY <1>1, EmptyRootEmpty DEF TheRoot
  <2> QED BY <2>1, NoneStored
<1>5. StoredHandles' = StoredHandles
  <2>1. \A h \in Handles : Moved(h) = 0 /\ Moved(h)' = 0
    BY <1>1, <1>2, <1>3, NothingMoved DEF StoreInv
  <2> QED BY <1>1, <2>1, HandleKept, HandlesStay DEF NoHandles
<1>6. Reply' = << >> /\ Reply = << >>
  BY <1>1, <1>2, NoReply
<1>7. Store!MakeFileSystem
  BY <1>4, <1>5, <1>6 DEF Store!MakeFileSystem
<1> QED BY <1>3, <1>7 DEF StoreStep, Store!StoreNext

LEMMA StartStep ==
    ASSUME WholeDisk, StoreInv, NEW h \in Handles, NEW count \in Count,
           ReadStart(h, count) \/ WriteStart(h, count), FullInv', AllNamed'
    PROVE  StoreInv' /\ StoreStep
<1>1. count \in Nat /\ count <= LongestCount
  BY LongestCountIs
<1>2. /\ up /\ call.op = "idle" /\ Ready /\ handle_table[h].in_use /\ handle_table[h] \in Handle
  BY DEF ReadStart, WriteStart, Ready, StoreInv, FullInv, IInv, TypeOK
<1>3. handle_table[h].directory_index \in Files(root_directory)
      /\ root_directory[handle_table[h].directory_index] \in Entry
  BY <1>2 DEF StoreInv, FullInv, IInv, HandlesOnFiles, TypeOK, Files
<1>4. PICK op \in {"read", "write"}, c \in Int :
         /\ c <= LongestCount
         /\ Start(op, h, c)
         /\ op = "read" => handle_table[h].mode = "READ"
         /\ op = "write" => handle_table[h].mode = "WRITE"
  <2>1. LongestCount \in Nat
    BY LongestCountIs
  <2>2. CASE ReadStart(h, count)
    <3> DEFINE left == root_directory[handle_table[h].directory_index].size
                       - handle_table[h].offset
    <3>1. left \in Int /\ Start("read", h, Smaller(count, left)) /\ handle_table[h].mode = "READ"
      BY <1>2, <1>3, <2>2 DEF ReadStart, Handle, Entry
    <3> HIDE DEF left
    <3>2. Smaller(count, left) \in Int /\ Smaller(count, left) <= LongestCount
      BY <1>1, <2>1, <3>1 DEF Smaller
    <3> QED BY <3>1, <3>2
  <2>3. CASE WriteStart(h, count)
    <3>1. OpenSpace(h) \in Int
      <4>1. free_space \in Nat
        BY FreeSpaceType DEF StoreInv, FullInv, IInv, TypeOK
      <4>2. root_directory[handle_table[h].directory_index].size \in Nat
        BY <1>3 DEF Entry
      <4>3. root_directory[handle_table[h].directory_index].size % BLOCK_SIZE \in Nat
        BY <4>2, DivMod
      <4> QED BY <4>1, <4>3, SizeAssumption DEF OpenSpace
    <3>2. Smaller(count, OpenSpace(h)) \in Int /\ Smaller(count, OpenSpace(h)) <= LongestCount
      BY <1>1, <2>1, <3>1 DEF Smaller
    <3>3. Start("write", h, Smaller(count, OpenSpace(h))) /\ handle_table[h].mode = "WRITE"
      BY <2>3 DEF WriteStart
    <3> QED BY <3>2, <3>3
  <2> QED BY <2>2, <2>3
<1>5. StoreInv' /\ call'.buffer = << >>
  BY <1>2, <1>4, StartStore
<1>6. UNCHANGED <<up, FAT, root_directory, handle_table, disk_root, disk_data>>
  BY <1>4 DEF Start, disk
<1> QED BY <1>2, <1>5, <1>6, UnseenStep
-----------------------------------------------------------------------------
(***************************************************************************)
(* open(), close(), truncate() and remove().                               *)
(***************************************************************************)
\* What these calls leave alone: they are over when the next one begins, and none
\* of them touches the device.
BetweenCalls == /\ WholeDisk /\ StoreInv /\ Ready
                /\ UNCHANGED <<up, call, disk>>
                /\ FullInv' /\ AllNamed'

LEMMA BetweenCallsKept ==
    ASSUME BetweenCalls
    PROVE  /\ StoreInv' /\ call.op = "idle"
           /\ Reply = << >> /\ Reply' = << >>
           /\ \A h \in Handles : Moved(h) = 0 /\ Moved(h)' = 0
           /\ TheRoot = root_directory /\ TheRoot' = root_directory'
           /\ TheFAT = FAT /\ TheFAT' = FAT' /\ disk_data' = disk_data
           /\ \A k \in DirIndexes : Pending(k) = 0 /\ Pending(k)' = 0
<1>1. /\ up /\ up' /\ call.op = "idle" /\ call'.op = "idle" /\ CallKept
      /\ call' = call /\ UNCHANGED disk
  BY DEF BetweenCalls, Ready, StoreInv
<1>2. call.buffer = << >> /\ call'.buffer = << >>
  BY <1>1 DEF CallKept
<1>3. StoreInv'
  BY <1>1, <1>2, IdleStore DEF BetweenCalls, CallKept, disk
<1>4. \A h \in Handles : Moved(h) = 0 /\ Moved(h)' = 0
  BY <1>1, <1>3, NothingMoved DEF StoreInv
<1>5. \A k \in DirIndexes : Pending(k) = 0 /\ Pending(k)' = 0
  BY <1>1, NothingPending
<1>6. Reply = << >> /\ Reply' = << >>
  BY <1>2, NoReply
<1> QED BY <1>1, <1>3, <1>4, <1>5, <1>6 DEF TheRoot, TheFAT, disk

\* A file whose entry and whose chain the call leaves alone keeps its bytes.
LEMMA OtherFile ==
    ASSUME BetweenCalls, NEW k \in Files(root_directory),
           root_directory'[k].starting_block = root_directory[k].starting_block,
           root_directory'[k].size = root_directory[k].size,
           SameOn(Chain(FAT, root_directory[k].starting_block), FAT, FAT')
    PROVE  FileBytes(k)' = FileBytes(k)
<1> DEFINE s    == root_directory[k].starting_block
           size == root_directory[k].size
<1>1. /\ TheRoot = root_directory /\ TheRoot' = root_directory'
      /\ TheFAT = FAT /\ TheFAT' = FAT' /\ disk_data' = disk_data /\ call.op = "idle"
      /\ \A i \in DirIndexes : Pending(i) = 0 /\ Pending(i)' = 0
  BY BetweenCallsKept
<1>2. /\ FileBytes(k) = BytesOf(FAT, s, disk_data, size) /\ size \in Nat
      /\ Ends(FAT, s) /\ HasBlocks(FAT, s, size)
  BY <1>1, FileStored DEF BetweenCalls
<1>3. FileBytes(k)' = BytesOf(FAT', s, disk_data, size)
  <2>1. k \in DirIndexes /\ size - 0 = size
    BY <1>2 DEF Files
  <2> QED BY <1>1, <2>1 DEF FileBytes
<1>4. BytesOf(FAT', s, disk_data, size) = BytesOf(FAT, s, disk_data, size)
  <2>1. \A b \in Chain(FAT, s) : FAT'[b] = FAT[b] /\ disk_data[b] = disk_data[b]
    BY DEF SameOn
  <2> HIDE DEF s, size
  <2> QED BY <1>2, <2>1, BytesKept
<1> QED BY <1>2, <1>3, <1>4

\* A handle that open() has filled in.
Opens(h, mode, n, offset) ==
    /\ ~handle_table[h].in_use
    /\ \E i, block :
          /\ handle_table' = [handle_table EXCEPT ![h] =
                [in_use |-> TRUE, mode |-> mode, offset |-> offset,
                 directory_index |-> i, current_block |-> block]]
          /\ root_directory'[i].name = n
    /\ \A k \in Files(root_directory) : root_directory'[k].name = root_directory[k].name

LEMMA OpensHandle ==
    ASSUME BetweenCalls, NEW h \in Handles, NEW n, NEW mode, NEW offset \in Nat,
           Opens(h, mode, n, offset)
    PROVE  /\ StoredHandles' = [StoredHandles EXCEPT ![h] = Store!Opened(mode, n, offset)]
           /\ ~StoredHandles[h].in_use
<1>1. PICK i, block :
         /\ handle_table' = [handle_table EXCEPT ![h] =
               [in_use |-> TRUE, mode |-> mode, offset |-> offset,
                directory_index |-> i, current_block |-> block]]
         /\ root_directory'[i].name = n
  BY DEF Opens
<1>2. /\ \A g \in Handles \ {h} : handle_table'[g] = handle_table[g]
      /\ handle_table'[h].in_use = TRUE /\ handle_table'[h].mode = mode
      /\ handle_table'[h].offset = offset /\ handle_table'[h].directory_index = i
  <2>1. handle_table \in [Handles -> Handle]
    BY DEF BetweenCalls, StoreInv, FullInv, IInv, TypeOK
  <2> QED BY <1>1, <2>1
<1>3. \A g \in Handles : Moved(g) = 0 /\ Moved(g)' = 0
  BY BetweenCallsKept
<1>4. \A g \in Handles \ {h} : HandleSeen(g)' = HandleSeen(g)
  BY <1>2, <1>3, OthersKept DEF BetweenCalls, Opens
<1>5. HandleSeen(h)' = Store!Opened(mode, n, offset)
  <2>1. HandleSeen(h)' = [in_use |-> handle_table'[h].in_use, mode |-> handle_table'[h].mode,
                          name |-> IF handle_table'[h].in_use
                                   THEN root_directory'[handle_table'[h].directory_index].name
                                   ELSE NoName,
                          offset |-> handle_table'[h].offset - Moved(h)']
    BY DEF HandleSeen
  <2>2. offset - 0 = offset
    OBVIOUS
  <2>3. HandleSeen(h)' = [in_use |-> TRUE, mode |-> mode, name |-> n, offset |-> offset]
    BY <1>1, <1>2, <1>3, <2>1, <2>2
  <2> QED BY <2>3 DEF Store!Opened
<1>6. ~StoredHandles[h].in_use
  BY DEF StoredHandles, HandleSeen, Opens
<1> QED BY <1>4, <1>5, <1>6, HandleChanges

\* The searches of open(), truncate() and remove().
LEMMA Found ==
    ASSUME StoreInv, NEW i \in DirIndexes, NEW n, Finds(i, n)
    PROVE  i \in Files(root_directory) /\ root_directory[i].name = n
           /\ root_directory[i] \in Entry /\ root_directory \in [DirIndexes -> Entry]
BY DEF Finds, Names, Files, StoreInv, FullInv, IInv, TypeOK

\* open() of a file that is there.
LEMMA OpenOldStep ==
    ASSUME BetweenCalls, UNCHANGED <<FAT, root_directory>>,
           NEW n \in Name, NEW h \in Handles, NEW i \in Files(root_directory),
           root_directory[i].name = n, NEW mode, NEW offset \in Nat, Opens(h, mode, n, offset),
           \/ mode = "READ" /\ offset = 0
           \/ mode = "WRITE" /\ offset = root_directory[i].size
    PROVE  StoreStep
<1>1. /\ TheRoot = root_directory /\ TheRoot' = root_directory'
      /\ Reply = << >> /\ Reply' = << >> /\ StoreInv' /\ call.op = "idle"
  BY BetweenCallsKept
<1>2. StoredFiles' = StoredFiles
  <2>1. \A k \in Files(root_directory) : FileBytes(k)' = FileBytes(k)
    BY OtherFile DEF SameOn
  <2> QED BY <1>1, <2>1, FilesStay DEF BetweenCalls
<1>3. StoredFiles[n] # NoName /\ Len(StoredFiles[n]) = root_directory[i].size
  BY <1>1, FileStored DEF BetweenCalls
<1>4. /\ StoredHandles' = [StoredHandles EXCEPT ![h] = Store!Opened(mode, n, offset)]
      /\ ~StoredHandles[h].in_use
  BY OpensHandle
<1>5. Store!Open(h, n)
  BY <1>1, <1>2, <1>3, <1>4 DEF Store!Open, Store!Exists
<1> QED BY <1>5 DEF StoreStep, Store!StoreNext

LEMMA OpenReadStep ==
    ASSUME WholeDisk, StoreInv, NEW n \in Name, OpenRead(n), FullInv', AllNamed'
    PROVE  StoreInv' /\ StoreStep
<1>1. BetweenCalls /\ UNCHANGED <<FAT, root_directory>>
  BY DEF OpenRead, BetweenCalls, Ready
<1>2. PICK h \in Handles, i \in DirIndexes :
         /\ FirstFreeHandle(h)
         /\ Finds(i, n)
         /\ handle_table' = [handle_table EXCEPT ![h] =
               [in_use |-> TRUE, mode |-> "READ", offset |-> 0,
                directory_index |-> i,
                current_block |-> root_directory[i].starting_block]]
  BY DEF OpenRead
<1>3. i \in Files(root_directory) /\ root_directory[i].name = n
  BY <1>2, Found
<1>4. Opens(h, "READ", n, 0)
  BY <1>1, <1>2, <1>3 DEF Opens, FirstFreeHandle
<1>5. StoreStep
  BY <1>1, <1>3, <1>4, OpenOldStep
<1> QED BY <1>1, <1>5, BetweenCallsKept

LEMMA OpenWriteStep ==
    ASSUME WholeDisk, StoreInv, NEW n \in Name, OpenWrite(n), FullInv', AllNamed'
    PROVE  StoreInv' /\ StoreStep
<1>1. BetweenCalls /\ UNCHANGED <<FAT, root_directory>>
  BY DEF OpenWrite, BetweenCalls, Ready
<1>2. PICK h \in Handles, i \in DirIndexes :
         /\ FirstFreeHandle(h)
         /\ Finds(i, n)
         /\ \E last : handle_table' = [handle_table EXCEPT ![h] =
               [in_use |-> TRUE, mode |-> "WRITE", offset |-> root_directory[i].size,
                directory_index |-> i, current_block |-> last]]
  BY DEF OpenWrite
<1>3. i \in Files(root_directory) /\ root_directory[i].name = n
      /\ root_directory[i].size \in Nat
  BY <1>2, Found DEF Entry
<1>4. PICK size \in Nat : size = root_directory[i].size
  BY <1>3
<1>5. Opens(h, "WRITE", n, size)
  BY <1>1, <1>2, <1>3, <1>4 DEF Opens, FirstFreeHandle
<1>6. StoreStep
  BY <1>1, <1>3, <1>4, <1>5, OpenOldStep
<1> QED BY <1>1, <1>6, BetweenCallsKept

\* Entry i of the directory, the file called n, is the only one that a call changes.
Changes(i, n) ==
    /\ i \in Files(root_directory) \cup Files(root_directory')
    /\ i \in Files(root_directory) => root_directory[i].name = n
    /\ i \in Files(root_directory') => root_directory'[i].name = n
    /\ Files(root_directory') \ {i} = Files(root_directory) \ {i}
    /\ \A k \in Files(root_directory) \ {i} :
          /\ root_directory'[k] = root_directory[k]
          /\ SameOn(Chain(FAT, root_directory[k].starting_block), FAT, FAT')

LEMMA EntryChanges ==
    ASSUME BetweenCalls, NEW i, NEW n \in Name, Changes(i, n)
    PROVE  /\ i \in Files(root_directory) <=> StoredFiles[n] # NoName
           /\ i \notin Files(root_directory') =>
                 StoredFiles' = [StoredFiles EXCEPT ![n] = NoName]
           /\ i \in Files(root_directory') /\ root_directory'[i].size = 0 =>
                 StoredFiles' = [StoredFiles EXCEPT ![n] = << >>]
<1>1. /\ TheRoot = root_directory /\ TheRoot' = root_directory' /\ call.op = "idle"
      /\ StoreInv' /\ \A k \in DirIndexes : Pending(k)' = 0
  BY BetweenCallsKept
<1>2. \A k \in Files(root_directory) \ {i} : FileBytes(k)' = FileBytes(k)
  <2>1. SUFFICES ASSUME NEW k \in Files(root_directory) \ {i}  PROVE FileBytes(k)' = FileBytes(k)
    OBVIOUS
  <2>2. root_directory'[k].starting_block = root_directory[k].starting_block
        /\ root_directory'[k].size = root_directory[k].size
        /\ SameOn(Chain(FAT, root_directory[k].starting_block), FAT, FAT')
    BY DEF Changes
  <2> QED BY <2>2, OtherFile
<1>3. /\ StoredFiles' = [StoredFiles EXCEPT ![n] = StoredFiles'[n]]
      /\ StoredFiles'[n] = IF i \in Files(root_directory') THEN FileBytes(i)' ELSE NoName
      /\ StoredFiles[n] = IF i \in Files(root_directory) THEN FileBytes(i) ELSE NoName
  BY <1>1, <1>2, FileChanges DEF BetweenCalls, Changes
<1>4. i \in Files(root_directory) => FileBytes(i) # NoName
  BY <1>1, FileStored DEF BetweenCalls
<1>5. ASSUME i \in Files(root_directory'), root_directory'[i].size = 0
      PROVE  FileBytes(i)' = << >>
  <2>1. FileBytes(i)' = BytesOf(TheFAT', TheRoot'[i].starting_block, disk_data', 0 - 0)
    BY <1>1, <1>5 DEF FileBytes, Files
  <2>2. 1 .. (0 - 0) = {}
    OBVIOUS
  <2> QED BY <2>1, <2>2 DEF BytesOf
<1> QED BY <1>3, <1>4, <1>5

LEMMA CloseStep ==
    ASSUME WholeDisk, StoreInv, NEW h \in Handles, Close(h), FullInv', AllNamed'
    PROVE  StoreInv' /\ StoreStep
<1>1. /\ BetweenCalls /\ UNCHANGED <<FAT, root_directory>>
      /\ handle_table[h].in_use /\ handle_table' = [handle_table EXCEPT ![h] = ClosedHandle]
  BY DEF Close, BetweenCalls, Ready
<1>2. /\ TheRoot = root_directory /\ TheRoot' = root_directory'
      /\ Reply = << >> /\ Reply' = << >> /\ StoreInv'
      /\ \A g \in Handles : Moved(g) = 0 /\ Moved(g)' = 0
  BY <1>1, BetweenCallsKept
<1>3. StoredFiles' = StoredFiles
  <2>1. \A k \in Files(root_directory) : FileBytes(k)' = FileBytes(k)
    BY <1>1, OtherFile DEF SameOn
  <2> QED BY <1>1, <1>2, <2>1, FilesStay
<1>4. /\ handle_table'[h] = ClosedHandle
      /\ \A g \in Handles \ {h} : handle_table'[g] = handle_table[g]
  BY <1>1 DEF StoreInv, FullInv, IInv, TypeOK
<1>5. \A g \in Handles \ {h} : HandleSeen(g)' = HandleSeen(g)
  BY <1>1, <1>2, <1>4, OthersKept
<1>6. HandleSeen(h)' = Store!NotInUse
  BY <1>2, <1>4, OneClosed
<1>7. StoredHandles' = [StoredHandles EXCEPT ![h] = Store!NotInUse]
  BY <1>5, <1>6, HandleChanges
<1>8. StoredHandles[h].in_use
  BY <1>1 DEF StoredHandles, HandleSeen
<1>9. Store!CloseHandle(h)
  BY <1>2, <1>3, <1>7, <1>8 DEF Store!CloseHandle
<1>10. 1 \in 1 .. LongestCount
  <2>1. LongestCount \in Nat \ {0}
    BY LongestCountIs, DataAssumption
  <2> QED BY <2>1
<1> QED BY <1>2, <1>9, <1>10 DEF StoreStep, Store!StoreNext

LEMMA TruncateStep ==
    ASSUME WholeDisk, StoreInv, formatted_flag, NEW n \in Name, Truncate(n), FullInv', AllNamed'
    PROVE  StoreInv' /\ StoreStep
<1>1. BetweenCalls /\ UNCHANGED handle_table
  BY DEF Truncate, BetweenCalls, Ready
<1>2. PICK i \in DirIndexes :
         /\ Finds(i, n)
         /\ FAT' = [Freed(FAT, Chain(FAT, root_directory[i].starting_block)) EXCEPT
                       ![root_directory[i].starting_block] = EOF_FAT_ENTRY]
         /\ root_directory' = [root_directory EXCEPT ![i].size = 0]
  BY DEF Truncate
<1> DEFINE start == root_directory[i].starting_block
<1>3. /\ i \in Files(root_directory) /\ root_directory[i].name = n
      /\ root_directory[i] \in Entry /\ root_directory \in [DirIndexes -> Entry]
  BY <1>2, Found
<1>4. /\ Files(root_directory') = Files(root_directory)
      /\ \A k \in DirIndexes \ {i} : root_directory'[k] = root_directory[k]
      /\ root_directory'[i].size = 0 /\ root_directory'[i].name = n
      /\ root_directory'[i].starting_block = start
  BY <1>2, <1>3 DEF Files, Entry
<1>5. \A b \in Blocks : FAT'[b] = IF b = start THEN EOF_FAT_ENTRY
                                  ELSE IF b \in Chain(FAT, start) THEN FREE_FAT_ENTRY
                                  ELSE FAT[b]
  BY <1>2, SpecialValues DEF Freed
<1>6. \A k \in Files(root_directory) \ {i} :
         SameOn(Chain(FAT, root_directory[k].starting_block), FAT, FAT')
  <2>1. FAT \in [Blocks -> Blocks] /\ Consistent(FAT, root_directory)
    BY DEF StoreInv, FullInv, IInv, TypeOK, FATConsistent
  <2>2. \A k \in Files(root_directory) :
           root_directory'[k].starting_block = root_directory[k].starting_block
    BY <1>4 DEF Files
  <2>3. start = root_directory[i].starting_block
    OBVIOUS
  <2> HIDE DEF start
  <2> QED BY <1>3, <1>4, <1>5, <2>1, <2>2, <2>3, TruncateConsistent DEF SameOn
<1>7. Changes(i, n)
  <2>1. Files(root_directory) \subseteq DirIndexes
    BY DEF Files
  <2> QED BY <1>3, <1>4, <1>6, <2>1 DEF Changes
<1>8. StoredFiles[n] # NoName /\ StoredFiles' = [StoredFiles EXCEPT ![n] = << >>]
  BY <1>1, <1>3, <1>4, <1>7, EntryChanges
<1>9. StoredHandles' = StoredHandles
  <2>1. \A h \in Handles : handle_table[h].in_use =>
           handle_table[h].directory_index \in Files(root_directory)
    BY DEF StoreInv, FullInv, IInv, HandlesOnFiles
  <2>2. \A k \in Files(root_directory) : root_directory'[k].name = root_directory[k].name
    BY <1>3, <1>4 DEF Files
  <2>3. \A h \in Handles : Moved(h)' = Moved(h)
    BY <1>1, BetweenCallsKept
  <2> QED BY <1>1, <2>1, <2>2, <2>3, HandleKept, HandlesStay
<1>10. StoreInv' /\ Reply = << >> /\ Reply' = << >>
  BY <1>1, BetweenCallsKept
<1>11. Store!Empty(n)
  BY <1>8, <1>9, <1>10 DEF Store!Empty, Store!Exists
<1> QED BY <1>10, <1>11 DEF StoreStep, Store!StoreNext

LEMMA RemoveStep ==
    ASSUME WholeDisk, StoreInv, formatted_flag, NEW n \in Name, NotOpen(n), Remove(n),
           FullInv', AllNamed'
    PROVE  StoreInv' /\ StoreStep
<1>1. BetweenCalls /\ UNCHANGED handle_table
  BY DEF Remove, BetweenCalls, Ready
<1>2. PICK i \in DirIndexes :
         /\ Finds(i, n)
         /\ FAT' = Freed(FAT, Chain(FAT, root_directory[i].starting_block))
         /\ root_directory' = [root_directory EXCEPT ![i] = UnusedEntry]
  BY DEF Remove
<1>3. /\ i \in Files(root_directory) /\ root_directory[i].name = n
      /\ root_directory \in [DirIndexes -> Entry]
  BY <1>2, Found
<1>4. /\ Files(root_directory') = Files(root_directory) \ {i}
      /\ \A k \in DirIndexes \ {i} : root_directory'[k] = root_directory[k]
  BY <1>2, <1>3 DEF Files, UnusedEntry
<1>5. \A b \in Blocks : FAT'[b] = IF b \in Chain(FAT, root_directory[i].starting_block)
                                  THEN FREE_FAT_ENTRY ELSE FAT[b]
  BY <1>2 DEF Freed
<1>6. \A k \in Files(root_directory) \ {i} :
         SameOn(Chain(FAT, root_directory[k].starting_block), FAT, FAT')
  <2>1. FAT \in [Blocks -> Blocks] /\ Consistent(FAT, root_directory)
    BY DEF StoreInv, FullInv, IInv, TypeOK, FATConsistent
  <2>2. \A k \in Files(root_directory') :
           root_directory'[k].starting_block = root_directory[k].starting_block
    BY <1>4 DEF Files
  <2> QED BY <1>3, <1>4, <1>5, <2>1, <2>2, RemoveConsistent DEF SameOn
<1>7. Changes(i, n)
  <2>1. Files(root_directory) \subseteq DirIndexes
    BY DEF Files
  <2> QED BY <1>3, <1>4, <1>6, <2>1 DEF Changes
<1>8. StoredFiles[n] # NoName /\ StoredFiles' = [StoredFiles EXCEPT ![n] = NoName]
  BY <1>1, <1>3, <1>4, <1>7, EntryChanges
<1>9. StoredHandles' = StoredHandles
  <2>1. \A h \in Handles : handle_table[h].in_use =>
           /\ handle_table[h].directory_index \in Files(root_directory)
           /\ handle_table[h].directory_index # i
    BY <1>2 DEF NotOpen, OpenOn, Finds, StoreInv, FullInv, IInv, HandlesOnFiles
  <2>2. \A k \in Files(root_directory) \ {i} : root_directory'[k].name = root_directory[k].name
    BY <1>4 DEF Files
  <2>3. \A h \in Handles : Moved(h)' = Moved(h)
    BY <1>1, BetweenCallsKept
  <2> QED BY <1>1, <2>1, <2>2, <2>3, HandleKept, HandlesStay
<1>10. StoreInv' /\ Reply = << >> /\ Reply' = << >>
  BY <1>1, BetweenCallsKept
<1>11. Store!Delete(n)
  BY <1>8, <1>9, <1>10 DEF Store!Delete, Store!Exists
<1> QED BY <1>10, <1>11 DEF StoreStep, Store!StoreNext

LEMMA CreateStep ==
    ASSUME WholeDisk, StoreInv, formatted_flag, NEW n \in Name, Create(n), FullInv', AllNamed'
    PROVE  StoreInv' /\ StoreStep
<1>1. BetweenCalls
  BY DEF Create, BetweenCalls, Ready
<1>2. PICK h \in Handles, i \in DirIndexes, j \in Blocks :
         /\ FirstFreeHandle(h)
         /\ FirstFreeEntry(i)
         /\ FirstFreeBlock(FAT, j)
         /\ FAT' = [FAT EXCEPT ![j] = EOF_FAT_ENTRY]
         /\ root_directory' = [root_directory EXCEPT ![i] =
               [in_use |-> TRUE, name |-> n, size |-> 0, starting_block |-> j]]
         /\ handle_table' = [handle_table EXCEPT ![h] =
               [in_use |-> TRUE, mode |-> "WRITE", offset |-> 0,
                directory_index |-> i, current_block |-> j]]
  BY DEF Create
<1>3. /\ i \notin Files(root_directory) /\ FAT[j] = FREE_FAT_ENTRY
      /\ FAT \in [Blocks -> Blocks] /\ root_directory \in [DirIndexes -> Entry]
  BY <1>2 DEF FirstFreeEntry, FirstFreeBlock, Files, StoreInv, FullInv, IInv, TypeOK
<1>4. /\ root_directory'[i].name = n /\ root_directory'[i].size = 0
      /\ root_directory'[i].starting_block = j /\ root_directory'[i].in_use = TRUE
      /\ \A k \in DirIndexes \ {i} : root_directory'[k] = root_directory[k]
  BY <1>2, <1>3
<1>5. Files(root_directory') = Files(root_directory) \cup {i}
  BY <1>4 DEF Files
<1>6. \A k \in Files(root_directory) : k \in DirIndexes \ {i}
  BY <1>3 DEF Files
<1>7. \A k \in Files(root_directory) :
         SameOn(Chain(FAT, root_directory[k].starting_block), FAT, FAT')
  <2>1. Consistent(FAT, root_directory)
    BY DEF StoreInv, FullInv, IInv, FATConsistent
  <2>2. \A k \in Files(root_directory) :
           root_directory'[k].starting_block = root_directory[k].starting_block
    BY <1>4, <1>6
  <2>3. \A b \in Blocks : FAT'[b] = IF b = j THEN EOF_FAT_ENTRY ELSE FAT[b]
    BY <1>2, <1>3
  <2> QED BY <1>3, <1>4, <1>5, <2>1, <2>2, <2>3, CreateConsistent DEF SameOn
<1>8. Changes(i, n)
  BY <1>3, <1>4, <1>5, <1>6, <1>7 DEF Changes
<1>9. StoredFiles[n] = NoName /\ StoredFiles' = [StoredFiles EXCEPT ![n] = << >>]
  BY <1>1, <1>3, <1>4, <1>5, <1>8, EntryChanges
<1>10. Opens(h, "WRITE", n, 0)
  BY <1>2, <1>4, <1>6 DEF Opens, FirstFreeHandle
<1>11. /\ StoredHandles' = [StoredHandles EXCEPT ![h] = Store!Opened("WRITE", n, 0)]
       /\ ~StoredHandles[h].in_use
  BY <1>1, <1>10, OpensHandle
<1>12. StoreInv' /\ Reply = << >> /\ Reply' = << >>
  BY <1>1, BetweenCallsKept
<1>13. Store!Open(h, n)
  BY <1>9, <1>11, <1>12 DEF Store!Open, Store!Exists
<1> QED BY <1>12, <1>13 DEF StoreStep, Store!StoreNext
-----------------------------------------------------------------------------
(***************************************************************************)
(* Every step is a step of FileStore, or callers see nothing of it.        *)
(***************************************************************************)
LEMMA LoopStep ==
    ASSUME WholeDisk, StoreInv, Loop, FullInv', AllNamed'
    PROVE  StoreInv' /\ StoreStep
<1>1. CASE ReadByte
  <2>1. Takes(H.current_block)
    BY <1>1, ReadByteIs
  <2> QED BY <2>1, TakesStore, TakesStep
<1>2. CASE ReadLastByte
  <2>1. Takes(FAT[H.current_block])
    BY <1>2, ReadLastByteIs
  <2> QED BY <2>1, TakesStore, TakesStep
<1>3. ASSUME NEW byte \in Byte, PutByte(byte)  PROVE StoreInv' /\ StoreStep
  <2>1. StoreInv' /\ \A k \in Files(root_directory) : FileBytes(k)' = FileBytes(k)
    BY <1>3, PutByteStore
  <2>2. PICK block \in Blocks : Puts(byte, block)
    BY <1>3, PutByteIs
  <2> QED BY <2>1, <2>2, PutsStep
<1>4. ASSUME NEW byte \in Byte, PutLastByte(byte)  PROVE StoreInv' /\ StoreStep
  <2>1. StoreInv' /\ \A k \in Files(root_directory) : FileBytes(k)' = FileBytes(k)
    BY <1>4, PutLastByteStore
  <2>2. PICK block \in Blocks : Puts(byte, block)
    BY <1>4, PutLastByteIs
  <2> QED BY <2>1, <2>2, PutsStep
<1>5. ~ReadThrows /\ ~WriteThrows /\ \A byte : ~NoFreeBlock(byte)
  BY NoReadThrows, NoWriteThrows, NoNoFreeBlock DEF StoreInv
<1> QED BY <1>1, <1>2, <1>3, <1>4, <1>5, ReadEndStep, WriteEndStep, FlushRootStep DEF Loop

LEMMA RequestStep ==
    ASSUME WholeDisk, StoreInv, Request, FullInv', AllNamed'
    PROVE  StoreInv' /\ StoreStep
<1>1. ASSUME NEW n \in Name, formatted_flag,
             \/ OpenRead(n)
             \/ Create(n)
             \/ NotOpen(n) /\ (Truncate(n) \/ Remove(n))
      PROVE  StoreInv' /\ StoreStep
  BY <1>1, OpenReadStep, CreateStep, TruncateStep, RemoveStep
<1>2. ASSUME NEW h \in Handles,
             Close(h) \/ \E count \in Count : ReadStart(h, count) \/ WriteStart(h, count)
      PROVE  StoreInv' /\ StoreStep
  <2>1. ASSUME NEW count \in Count, ReadStart(h, count) \/ WriteStart(h, count)
        PROVE  StoreInv' /\ StoreStep
    BY <2>1, StartStep
  <2> QED BY <1>2, <2>1, CloseStep
<1> QED BY <1>1, <1>2, ConstructStep, DestroyUnformattedStep, FlushFATStep, FormatStep
        DEF Request

LEMMA StutterStep ==
    ASSUME StoreInv, UNCHANGED vars, FullInv', AllNamed'
    PROVE  StoreInv' /\ StoreStep
<1>1. UNCHANGED <<up, FAT, root_directory, handle_table, call, disk_boot, disk_FAT, disk_root,
                  disk_data>>
  BY DEF vars, memory, disk
<1>2. /\ TheFAT' = TheFAT /\ TheRoot' = TheRoot /\ H' = H /\ CallFile' = CallFile
      /\ MoreBytes' = MoreBytes
  BY <1>1 DEF TheFAT, TheRoot, H, CallFile, MoreBytes
<1>3. WrittenBack' = WrittenBack /\ \A i : Pending(i)' = Pending(i)
  BY <1>1, <1>2 DEF WrittenBack, Pending, H
<1>4. \A i : FileBytes(i)' = FileBytes(i)
  BY <1>1, <1>2, <1>3 DEF FileBytes
<1>5. FileBytes(H.directory_index)' = FileBytes(H.directory_index)
  BY <1>1, <1>2 DEF FileBytes, Pending, H
<1>6. CallKept' /\ ReadSoFar' /\ WrittenSoFar'
  BY <1>1, <1>2, <1>3, <1>5 DEF StoreInv, CallKept, ReadSoFar, WrittenSoFar
<1>7. StoredFiles' = StoredFiles
  BY <1>1, <1>2 DEF StoredFiles, FileBytes, Pending, H
<1>8. StoredHandles' = StoredHandles
  BY <1>1, <1>2 DEF StoredHandles, HandleSeen, Moved
<1>9. Reply' = Reply
  BY <1>1, <1>2 DEF Reply
<1> QED BY <1>6, <1>7, <1>8, <1>9 DEF StoreInv, StoreStep, Unseen

LEMMA NextStep == WholeDisk /\ StoreInv /\ [Next]_vars => StoreInv' /\ StoreStep
<1> SUFFICES ASSUME WholeDisk, StoreInv, [Next]_vars  PROVE StoreInv' /\ StoreStep
  OBVIOUS
<1>1. FullInv' /\ AllNamed'
  BY NextFullInv, NextNamed DEF StoreInv, FullInv
<1>2. ASSUME NEW n \in Name, NoWriter(n), OpenWrite(n)  PROVE StoreInv' /\ StoreStep
  BY <1>1, <1>2, OpenWriteStep
<1> QED BY <1>1, <1>2, LoopStep, RequestStep, StutterStep DEF Next

LEMMA InitStep == Init => StoreInv /\ Store!StoreInit
<1> SUFFICES ASSUME Init  PROVE StoreInv /\ Store!StoreInit
  OBVIOUS
<1>1. /\ ~up /\ handle_table = AllClosed /\ call = Idle /\ disk_root = EmptyRoot
  BY DEF Init
<1>2. call.op = "idle" /\ call.buffer = << >> /\ call.handle = -1
  BY <1>1 DEF Idle
<1>3. StoreInv
  <2>1. FullInv /\ AllNamed
    BY InitFullInv, InitNamed
  <2>2. CallKept /\ ReadSoFar /\ WrittenSoFar
    BY <1>1, <1>2, EmptyRootEmpty DEF CallKept, ReadSoFar, WrittenSoFar
  <2> QED BY <2>1, <2>2 DEF StoreInv
<1>4. StoredFiles = [n \in Name |-> NoName]
  <2>1. Files(TheRoot) = {}
    BY <1>1, EmptyRootEmpty DEF TheRoot
  <2> QED BY <2>1, NoneStored
<1>5. StoredHandles = [h \in Handles |-> Store!NotInUse]
  <2>1. \A h \in Handles : Moved(h) = 0 /\ handle_table[h] = ClosedHandle
    BY <1>1, <1>2 DEF AllClosed, Moved, Handles
  <2>2. ClosedHandle.offset - 0 = 0 /\ ~ClosedHandle.in_use /\ ClosedHandle.mode = "READ"
        /\ ClosedHandle.in_use = FALSE
    BY DEF ClosedHandle
  <2>3. ASSUME NEW h \in Handles  PROVE HandleSeen(h) = Store!NotInUse
    <3>1. HandleSeen(h) = [in_use |-> FALSE, mode |-> "READ", name |-> NoName, offset |-> 0]
      BY <2>1, <2>2 DEF HandleSeen
    <3> QED BY <3>1 DEF Store!NotInUse
  <2> QED BY <2>3 DEF StoredHandles
<1>6. Reply = << >>
  BY <1>2 DEF Reply
<1> QED BY <1>3, <1>4, <1>5, <1>6 DEF Store!StoreInit

\* On a device that holds every block of the FAT, whoever uses FileSystem cannot tell
\* it from named sequences of bytes: a read() returns what the write()s before it put
\* there, from where its handle stood, a write() appends its bytes to its own file and
\* to no other, and what the destructor leaves on the device is what the next
\* constructor finds (read, write, open, close, truncate, remove, format, flush).
THEOREM FileStoreImplemented == WholeDisk => (Spec => ImplementsFileStore)
<1> SUFFICES ASSUME WholeDisk  PROVE Spec => ImplementsFileStore
  OBVIOUS
<1>1. Init => StoreInv /\ Store!StoreInit
  BY InitStep
<1>2. StoreInv /\ [Next]_vars => StoreInv' /\ [Store!StoreNext]_(Store!storeVars)
  BY NextStep DEF StoreStep, Unseen, Store!storeVars
<1> QED BY <1>1, <1>2, PTL DEF Spec, ImplementsFileStore, Store!StoreSpec
=============================================================================
