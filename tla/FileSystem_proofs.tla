-------------------------- MODULE FileSystem_proofs -------------------------
(***************************************************************************)
(* Proofs about FileSystem.  First what allocating, freeing and walking do *)
(* to the chains of a FAT, without a word about calls; then the inductive  *)
(* invariant, one lemma for each kind of step; then the theorems.          *)
(***************************************************************************)
EXTENDS FileSystem, FiniteSetTheorems, TLAPS

-----------------------------------------------------------------------------
(***************************************************************************)
(* Chains.                                                                 *)
(***************************************************************************)
\* The special FAT values are no data blocks (FileSystem.hpp:85-89).
LEMMA SpecialValues ==
    /\ FREE_FAT_ENTRY \notin DataBlocks
    /\ RESERVED_FAT_ENTRY \notin DataBlocks
    /\ EOF_FAT_ENTRY \notin DataBlocks
    /\ DataBlocks = Blocks \ Reserved
    /\ Reserved \subseteq Blocks
    /\ EOF_FAT_ENTRY # FREE_FAT_ENTRY
    /\ EOF_FAT_ENTRY # RESERVED_FAT_ENTRY
    /\ FREE_FAT_ENTRY # RESERVED_FAT_ENTRY
    /\ {FREE_FAT_ENTRY, RESERVED_FAT_ENTRY, EOF_FAT_ENTRY} \subseteq Blocks
BY SizeAssumption DEF DataBlocks, Blocks, Reserved, FREE_FAT_ENTRY, RESERVED_FAT_ENTRY,
   EOF_FAT_ENTRY, BOOT_BLOCK, FAT_BLOCK, ROOT_BLOCK

\* A walk that stays on data blocks: its blocks are the least closed set.
LEMMA ChainIsClosed ==
    ASSUME NEW f, NEW s, NEW T \in Closed(f), s \in T
    PROVE  /\ Chain(f, s) \in Closed(f)
           /\ s \in Chain(f, s)
           /\ Chain(f, s) \subseteq T
<1>1. s \in Chain(f, s) /\ Chain(f, s) \subseteq T
  BY DEF Chain, Closed
<1>2. ASSUME NEW b \in Chain(f, s), f[b] # EOF_FAT_ENTRY
      PROVE  f[b] \in Chain(f, s)
  <2>1. ASSUME NEW S \in Closed(f), s \in S  PROVE f[b] \in S
    BY <1>2, <2>1 DEF Chain, Closed
  <2>2. f[b] \in DataBlocks
    BY <2>1 DEF Closed
  <2> QED BY <2>1, <2>2 DEF Chain
<1> QED BY <1>1, <1>2 DEF Chain, Closed

\* A FAT that agrees with f on the chain has the same chain (read by open() and
\* check() after blocks of other files have been allocated and freed).
LEMMA ChainAgrees ==
    ASSUME NEW f, NEW g, NEW s, NEW T \in Closed(f), s \in T,
           \A b \in Chain(f, s) : g[b] = f[b]
    PROVE  /\ Chain(g, s) = Chain(f, s)
           /\ Chain(g, s) \in Closed(g)
           /\ s \in Chain(g, s)
<1> DEFINE C == Chain(f, s)
<1>1. C \in Closed(f) /\ s \in C
  BY ChainIsClosed
<1>2. C \in Closed(g)
  BY <1>1 DEF Closed
<1>3. ASSUME NEW S \in Closed(g), s \in S  PROVE C \subseteq S
  <2>1. S \cap C \in Closed(f)
    BY <1>1 DEF Closed
  <2>2. s \in S \cap C
    BY <1>1, <1>3
  <2> QED BY <2>1, <2>2, ChainIsClosed
<1>4. Chain(g, s) \subseteq C
  BY <1>1, <1>2, ChainIsClosed
<1>5. C \subseteq Chain(g, s)
  BY <1>3 DEF Chain
<1> QED BY <1>1, <1>2, <1>4, <1>5

LEMMA EndsAgrees ==
    ASSUME NEW f, NEW g, NEW s, Ends(f, s), \A b \in Chain(f, s) : g[b] = f[b]
    PROVE  Chain(g, s) = Chain(f, s) /\ Ends(g, s)
<1>1. PICK T \in Closed(f) : s \in T
  BY DEF Ends
<1>2. /\ Chain(g, s) = Chain(f, s)
      /\ Chain(g, s) \in Closed(g)
      /\ s \in Chain(g, s)
  BY <1>1, ChainAgrees
<1> QED BY <1>2 DEF Ends

\* Chaining a block j onto the EOF block of a chain that does not hold it.
LEMMA ChainExtends ==
    ASSUME NEW f \in [Blocks -> Blocks], NEW s, Ends(f, s),
           NEW cur \in Chain(f, s), f[cur] = EOF_FAT_ENTRY,
           NEW j \in DataBlocks, j \notin Chain(f, s), NEW g,
           \A b \in Blocks : g[b] = IF b = j THEN EOF_FAT_ENTRY ELSE IF b = cur THEN j ELSE f[b]
    PROVE  Chain(g, s) = Chain(f, s) \cup {j} /\ Ends(g, s)
<1> DEFINE C == Chain(f, s)
<1>1. PICK T \in Closed(f) : s \in T
  BY DEF Ends
<1>2. C \in Closed(f) /\ s \in C
  BY <1>1, ChainIsClosed
<1>3. C \subseteq DataBlocks /\ C \subseteq Blocks /\ j \in Blocks /\ cur # j
  BY SpecialValues DEF Chain
<1>4. /\ g[j] = EOF_FAT_ENTRY
      /\ g[cur] = j
      /\ \A b \in C \ {cur} : g[b] = f[b]
  BY <1>3
<1>5. C \cup {j} \in Closed(g)
  BY <1>2, <1>3, <1>4 DEF Closed
<1>6. ASSUME NEW S \in Closed(g), s \in S  PROVE C \cup {j} \subseteq S
  <2>1. S \cap C \in Closed(f)
    BY <1>2, <1>4 DEF Closed
  <2>2. C \subseteq S
    BY <1>2, <1>6, <2>1, ChainIsClosed
  <2>3. g[cur] \in S \cup {EOF_FAT_ENTRY}
    BY <2>2 DEF Closed
  <2> QED BY <1>4, <2>2, <2>3, SpecialValues
<1>7. Chain(g, s) = C \cup {j}
  <2>1. Chain(g, s) \subseteq C \cup {j}
    BY <1>2, <1>5, ChainIsClosed
  <2>2. C \cup {j} \subseteq Chain(g, s)
    BY <1>3, <1>6 DEF Chain
  <2> QED BY <2>1, <2>2
<1>8. \A d \in C : f[d] = EOF_FAT_ENTRY => d = cur
  BY DEF Ends
<1>9. \A d \in C \cup {j} : g[d] = EOF_FAT_ENTRY => d = j
  BY <1>4, <1>8, SpecialValues
<1>10. Ends(g, s)
  BY <1>2, <1>4, <1>5, <1>7, <1>9 DEF Ends
<1> QED BY <1>7, <1>10

\* A file of one block.
LEMMA ChainOfOne ==
    ASSUME NEW f, NEW j \in DataBlocks, f[j] = EOF_FAT_ENTRY
    PROVE  Chain(f, j) = {j} /\ Ends(f, j)
<1>1. {j} \in Closed(f)
  BY DEF Closed
<1>2. Chain(f, j) = {j}
  BY <1>1, ChainIsClosed
<1> QED BY <1>1, <1>2 DEF Ends
-----------------------------------------------------------------------------
(***************************************************************************)
(* Consistency of a FAT and a root directory.                              *)
(***************************************************************************)
\* What is left of consistency when blocks may be lost.
Sound(f, r) == ReservedIntact(f) /\ ChainsEnd(f, r) /\ NoCrossLink(f, r)

LEMMA ConsistentIsSound ==
    \A f, r : Consistent(f, r) <=> Sound(f, r) /\ NoLostBlocks(f, r)
BY DEF Consistent, Sound

\* A block of a file is not free, not reserved and of no other file.
LEMMA SoundBlock ==
    ASSUME NEW f, NEW r, Sound(f, r), NEW i \in Files(r),
           NEW b \in Chain(f, r[i].starting_block)
    PROVE  /\ f[b] # FREE_FAT_ENTRY
           /\ f[b] # RESERVED_FAT_ENTRY
           /\ b \in DataBlocks
           /\ \A k \in Files(r) : k # i => b \notin Chain(f, r[k].starting_block)
<1>1. Ends(f, r[i].starting_block)
  BY DEF Sound, ChainsEnd
<1>2. PICK T \in Closed(f) : r[i].starting_block \in T
  BY <1>1 DEF Ends
<1>3. Chain(f, r[i].starting_block) \in Closed(f)
  BY <1>2, ChainIsClosed
<1>4. f[b] \in DataBlocks \cup {EOF_FAT_ENTRY} /\ b \in DataBlocks
  BY <1>3 DEF Closed
<1> QED BY <1>4, SpecialValues DEF Sound, NoCrossLink

LEMMA BlockOfFile ==
    ASSUME NEW f, NEW r, Consistent(f, r), NEW i \in Files(r),
           NEW b \in Chain(f, r[i].starting_block)
    PROVE  /\ f[b] # FREE_FAT_ENTRY
           /\ f[b] # RESERVED_FAT_ENTRY
           /\ b \in DataBlocks
           /\ \A k \in Files(r) : k # i => b \notin Chain(f, r[k].starting_block)
BY SoundBlock, ConsistentIsSound

\* A free block can be chained on: it is a data block, and of no file.
LEMMA SoundFreeBlock ==
    ASSUME NEW f, NEW r, Sound(f, r), NEW j \in Blocks, f[j] = FREE_FAT_ENTRY
    PROVE  /\ j \in DataBlocks
           /\ \A i \in Files(r) : j \notin Chain(f, r[i].starting_block)
BY SoundBlock, SpecialValues DEF Sound, ReservedIntact

LEMMA FreeBlock ==
    ASSUME NEW f, NEW r, Consistent(f, r), NEW j \in Blocks, f[j] = FREE_FAT_ENTRY
    PROVE  /\ j \in DataBlocks
           /\ \A i \in Files(r) : j \notin Chain(f, r[i].starting_block)
BY SoundFreeBlock, ConsistentIsSound

\* Two directories with the same files at the same blocks are as consistent.
LEMMA SameFiles ==
    ASSUME NEW f, NEW r, NEW q, Consistent(f, r), Files(q) = Files(r),
           \A i \in Files(r) : q[i].starting_block = r[i].starting_block
    PROVE  Consistent(f, q)
BY DEF Consistent, ChainsEnd, NoCrossLink, NoLostBlocks

\* format() leaves a consistent pair.
LEMMA FormattedConsistent == Consistent(FormattedFAT, EmptyRoot)
<1>1. Files(EmptyRoot) = {}
  BY DEF Files, EmptyRoot, UnusedEntry
<1>2. \A b \in Blocks : FormattedFAT[b] = IF b \in Reserved THEN RESERVED_FAT_ENTRY
                                                            ELSE FREE_FAT_ENTRY
  BY DEF FormattedFAT
<1> QED BY <1>1, <1>2, SpecialValues DEF Consistent, ReservedIntact, ChainsEnd, NoCrossLink,
           NoLostBlocks

\* write() fills a block: the file gets a free one, the others keep theirs.
LEMMA ExtendConsistent ==
    ASSUME NEW f \in [Blocks -> Blocks], NEW r, Consistent(f, r),
           NEW i \in Files(r), NEW cur \in Chain(f, r[i].starting_block),
           f[cur] = EOF_FAT_ENTRY,
           NEW j \in Blocks, f[j] = FREE_FAT_ENTRY,
           NEW g,
           \A b \in Blocks : g[b] = IF b = j THEN EOF_FAT_ENTRY ELSE IF b = cur THEN j ELSE f[b]
    PROVE  /\ Consistent(g, r)
           /\ j \in Chain(g, r[i].starting_block)
           /\ g[j] = EOF_FAT_ENTRY
           /\ \A k \in Files(r) : k # i =>
                 /\ Chain(g, r[k].starting_block) = Chain(f, r[k].starting_block)
                 /\ \A b \in Chain(f, r[k].starting_block) : g[b] = f[b]
<1> DEFINE start(k) == r[k].starting_block
<1>1. j \in DataBlocks /\ \A k \in Files(r) : j \notin Chain(f, start(k))
  BY FreeBlock
<1>2. cur \in DataBlocks /\ cur \in Blocks
  BY BlockOfFile, SpecialValues
<1>3. g[j] = EOF_FAT_ENTRY
  OBVIOUS
<1>4. Chain(g, start(i)) = Chain(f, start(i)) \cup {j} /\ Ends(g, start(i))
  <2>1. Ends(f, start(i))
    BY DEF Consistent, ChainsEnd
  <2> QED BY <1>1, <2>1, ChainExtends
<1>5. ASSUME NEW k \in Files(r), k # i
      PROVE  /\ Chain(g, start(k)) = Chain(f, start(k)) /\ Ends(g, start(k))
             /\ \A b \in Chain(f, start(k)) : g[b] = f[b]
  <2>1. \A b \in Chain(f, start(k)) : b # cur /\ b # j /\ b \in Blocks
    BY <1>1, <1>5, BlockOfFile, SpecialValues
  <2>2. \A b \in Chain(f, start(k)) : g[b] = f[b]
    BY <1>3, <2>1
  <2>3. Ends(f, start(k))
    BY DEF Consistent, ChainsEnd
  <2> QED BY <2>2, <2>3, EndsAgrees
<1>6. ReservedIntact(g)
  BY <1>1, <1>3, <1>2, SpecialValues DEF Consistent, ReservedIntact
<1>7. ChainsEnd(g, r)
  BY <1>4, <1>5 DEF ChainsEnd
<1>8. NoCrossLink(g, r)
  <2>1. ASSUME NEW k \in Files(r), k # i
        PROVE  Chain(g, start(k)) \cap Chain(g, start(i)) = {}
    BY <1>1, <1>4, <1>5, <2>1 DEF Consistent, NoCrossLink
  <2>2. ASSUME NEW k \in Files(r), NEW m \in Files(r), k # i, m # i, k # m
        PROVE  Chain(g, start(k)) \cap Chain(g, start(m)) = {}
    BY <1>5, <2>2 DEF Consistent, NoCrossLink
  <2> QED BY <2>1, <2>2 DEF NoCrossLink
<1>9. NoLostBlocks(g, r)
  <2>1. ASSUME NEW b \in DataBlocks, g[b] # FREE_FAT_ENTRY, b # j
        PROVE  \E k \in Files(r) : b \in Chain(g, start(k))
    <3>1. f[b] # FREE_FAT_ENTRY
      BY <1>2, <1>3, <2>1, BlockOfFile, SpecialValues
    <3>2. PICK k \in Files(r) : b \in Chain(f, start(k))
      BY <3>1 DEF Consistent, NoLostBlocks
    <3> QED BY <1>4, <1>5, <3>2
  <2> QED BY <1>4, <2>1 DEF NoLostBlocks
<1> QED BY <1>3, <1>4, <1>5, <1>6, <1>7, <1>8, <1>9, SpecialValues DEF Consistent

\* open() creates a file of one free block.
LEMMA CreateSound ==
    ASSUME NEW f \in [Blocks -> Blocks], NEW r, NEW q, Sound(f, r),
           NEW i \in DirIndexes, i \notin Files(r),
           NEW j \in Blocks, f[j] = FREE_FAT_ENTRY,
           Files(q) = Files(r) \cup {i}, q[i].starting_block = j,
           \A k \in Files(r) : q[k].starting_block = r[k].starting_block,
           NEW g,
           \A b \in Blocks : g[b] = IF b = j THEN EOF_FAT_ENTRY ELSE f[b]
    PROVE  /\ Sound(g, q)
           /\ g[j] = EOF_FAT_ENTRY
           /\ j \in Chain(g, q[i].starting_block)
           /\ \A k \in Files(r) :
                 /\ Chain(g, q[k].starting_block) = Chain(f, r[k].starting_block)
                 /\ \A b \in Chain(f, r[k].starting_block) : g[b] = f[b]
<1>1. j \in DataBlocks /\ \A k \in Files(r) : j \notin Chain(f, r[k].starting_block)
  BY SoundFreeBlock
<1>2. \A b \in Blocks : g[b] = IF b = j THEN EOF_FAT_ENTRY ELSE f[b]
  OBVIOUS
<1>3. Chain(g, j) = {j} /\ Ends(g, j)
  BY <1>1, <1>2, ChainOfOne
<1>4. ASSUME NEW k \in Files(r)
      PROVE  /\ Chain(g, q[k].starting_block) = Chain(f, r[k].starting_block)
             /\ Ends(g, q[k].starting_block)
             /\ \A b \in Chain(f, r[k].starting_block) : g[b] = f[b]
  <2>1. \A b \in Chain(f, r[k].starting_block) : g[b] = f[b]
    BY <1>1, <1>2, SoundBlock, SpecialValues
  <2>2. Ends(f, r[k].starting_block)
    BY DEF Sound, ChainsEnd
  <2> QED BY <2>1, <2>2, EndsAgrees
<1>5. ReservedIntact(g)
  BY <1>1, <1>2, SpecialValues DEF Sound, ReservedIntact
<1>6. ChainsEnd(g, q)
  BY <1>3, <1>4 DEF ChainsEnd
<1>7. NoCrossLink(g, q)
  <2>1. ASSUME NEW k \in Files(r)
        PROVE  Chain(g, q[k].starting_block) \cap Chain(g, q[i].starting_block) = {}
    BY <1>1, <1>3, <1>4
  <2>2. ASSUME NEW k \in Files(r), NEW m \in Files(r), k # m
        PROVE  Chain(g, q[k].starting_block) \cap Chain(g, q[m].starting_block) = {}
    BY <1>4, <2>2 DEF Sound, NoCrossLink
  <2> QED BY <2>1, <2>2 DEF NoCrossLink
<1> QED BY <1>1, <1>2, <1>3, <1>4, <1>5, <1>6, <1>7 DEF Sound

LEMMA CreateConsistent ==
    ASSUME NEW f \in [Blocks -> Blocks], NEW r, NEW q, Consistent(f, r),
           NEW i \in DirIndexes, i \notin Files(r),
           NEW j \in Blocks, f[j] = FREE_FAT_ENTRY,
           Files(q) = Files(r) \cup {i}, q[i].starting_block = j,
           \A k \in Files(r) : q[k].starting_block = r[k].starting_block,
           NEW g,
           \A b \in Blocks : g[b] = IF b = j THEN EOF_FAT_ENTRY ELSE f[b]
    PROVE  /\ Consistent(g, q)
           /\ g[j] = EOF_FAT_ENTRY
           /\ j \in Chain(g, q[i].starting_block)
           /\ \A k \in Files(r) :
                 /\ Chain(g, q[k].starting_block) = Chain(f, r[k].starting_block)
                 /\ \A b \in Chain(f, r[k].starting_block) : g[b] = f[b]
<1>1. /\ Sound(g, q)
      /\ g[j] = EOF_FAT_ENTRY
      /\ j \in Chain(g, q[i].starting_block)
      /\ \A k \in Files(r) :
            /\ Chain(g, q[k].starting_block) = Chain(f, r[k].starting_block)
            /\ \A b \in Chain(f, r[k].starting_block) : g[b] = f[b]
  BY SMTT(30), CreateSound, ConsistentIsSound
<1>2. \A b \in DataBlocks : b # j => g[b] = f[b]
  BY SpecialValues
<1>3. NoLostBlocks(g, q)
  BY <1>1, <1>2 DEF Consistent, NoLostBlocks
<1> QED BY <1>1, <1>3, ConsistentIsSound

\* remove() frees the blocks of one file and of no other.
LEMMA RemoveSound ==
    ASSUME NEW f \in [Blocks -> Blocks], NEW r, NEW q, Sound(f, r),
           NEW i \in Files(r), Files(q) = Files(r) \ {i},
           \A k \in Files(q) : q[k].starting_block = r[k].starting_block,
           NEW g,
           \A b \in Blocks : g[b] = IF b \in Chain(f, r[i].starting_block)
                                    THEN FREE_FAT_ENTRY ELSE f[b]
    PROVE  /\ Sound(g, q)
           /\ \A k \in Files(q) :
                 /\ Chain(g, q[k].starting_block) = Chain(f, r[k].starting_block)
                 /\ \A b \in Chain(f, r[k].starting_block) : g[b] = f[b]
<1> DEFINE C == Chain(f, r[i].starting_block)
<1>1. \A b \in Blocks : g[b] = IF b \in C THEN FREE_FAT_ENTRY ELSE f[b]
  OBVIOUS
<1>2. C \subseteq DataBlocks /\ C \subseteq Blocks
  BY SpecialValues DEF Chain
<1>3. ASSUME NEW k \in Files(q)
      PROVE  /\ Chain(g, q[k].starting_block) = Chain(f, r[k].starting_block)
             /\ Ends(g, q[k].starting_block)
             /\ \A b \in Chain(f, r[k].starting_block) : g[b] = f[b]
  <2>1. \A b \in Chain(f, r[k].starting_block) : b \in Blocks /\ b \notin C
    BY SoundBlock, SpecialValues
  <2>2. \A b \in Chain(f, r[k].starting_block) : g[b] = f[b]
    BY <1>1, <2>1
  <2>3. Ends(f, r[k].starting_block)
    BY DEF Sound, ChainsEnd
  <2> QED BY <2>2, <2>3, EndsAgrees
<1>4. ReservedIntact(g)
  BY <1>1, <1>2, SoundBlock, SpecialValues DEF Sound, ReservedIntact
<1>5. ChainsEnd(g, q)
  BY <1>3 DEF ChainsEnd
<1>6. NoCrossLink(g, q)
  BY <1>3 DEF Sound, NoCrossLink
<1> QED BY <1>3, <1>4, <1>5, <1>6 DEF Sound

LEMMA RemoveConsistent ==
    ASSUME NEW f \in [Blocks -> Blocks], NEW r, NEW q, Consistent(f, r),
           NEW i \in Files(r), Files(q) = Files(r) \ {i},
           \A k \in Files(q) : q[k].starting_block = r[k].starting_block,
           NEW g,
           \A b \in Blocks : g[b] = IF b \in Chain(f, r[i].starting_block)
                                    THEN FREE_FAT_ENTRY ELSE f[b]
    PROVE  /\ Consistent(g, q)
           /\ \A k \in Files(q) :
                 /\ Chain(g, q[k].starting_block) = Chain(f, r[k].starting_block)
                 /\ \A b \in Chain(f, r[k].starting_block) : g[b] = f[b]
<1>1. /\ Sound(g, q)
      /\ \A k \in Files(q) :
            /\ Chain(g, q[k].starting_block) = Chain(f, r[k].starting_block)
            /\ \A b \in Chain(f, r[k].starting_block) : g[b] = f[b]
  BY RemoveSound, ConsistentIsSound
<1>2. \A b \in DataBlocks : g[b] # FREE_FAT_ENTRY =>
         f[b] # FREE_FAT_ENTRY /\ b \notin Chain(f, r[i].starting_block)
  BY SpecialValues
<1>3. NoLostBlocks(g, q)
  BY <1>1, <1>2 DEF Consistent, NoLostBlocks
<1> QED BY <1>1, <1>3, ConsistentIsSound

\* truncate() frees all blocks of one file but the first.
LEMMA TruncateSound ==
    ASSUME NEW f \in [Blocks -> Blocks], NEW r, NEW q, Sound(f, r),
           NEW i \in Files(r), Files(q) = Files(r),
           \A k \in Files(r) : q[k].starting_block = r[k].starting_block,
           NEW start, start = r[i].starting_block,
           NEW g,
           \A b \in Blocks : g[b] = IF b = start THEN EOF_FAT_ENTRY
                                    ELSE IF b \in Chain(f, start) THEN FREE_FAT_ENTRY
                                    ELSE f[b]
    PROVE  /\ Sound(g, q)
           /\ Chain(g, start) = {start}
           /\ \A k \in Files(q) : k # i =>
                 /\ Chain(g, q[k].starting_block) = Chain(f, r[k].starting_block)
                 /\ \A b \in Chain(f, r[k].starting_block) : g[b] = f[b]
<1> DEFINE C == Chain(f, start)
<1>1. start \in C /\ C \subseteq DataBlocks /\ C \subseteq Blocks
  <2>1. PICK T \in Closed(f) : start \in T
    BY DEF Sound, ChainsEnd, Ends
  <2>2. start \in C
    BY <2>1, ChainIsClosed
  <2> QED BY <2>2, SpecialValues DEF Chain
<1>2. \A b \in Blocks : g[b] = IF b = start THEN EOF_FAT_ENTRY
                               ELSE IF b \in C THEN FREE_FAT_ENTRY ELSE f[b]
  OBVIOUS
<1>3. Chain(g, start) = {start} /\ Ends(g, start)
  BY <1>1, <1>2, ChainOfOne
<1>4. ASSUME NEW k \in Files(q), k # i
      PROVE  /\ Chain(g, q[k].starting_block) = Chain(f, r[k].starting_block)
             /\ Ends(g, q[k].starting_block)
             /\ \A b \in Chain(f, r[k].starting_block) : g[b] = f[b]
  <2>1. \A b \in Chain(f, r[k].starting_block) : b \in Blocks /\ b \notin C
    BY <1>4, SoundBlock, SpecialValues
  <2>2. \A b \in Chain(f, r[k].starting_block) : g[b] = f[b]
    BY <1>1, <1>2, <2>1
  <2>3. Ends(f, r[k].starting_block)
    BY DEF Sound, ChainsEnd
  <2> QED BY <2>2, <2>3, EndsAgrees
<1>5. ReservedIntact(g)
  BY <1>1, <1>2, SoundBlock, SpecialValues DEF Sound, ReservedIntact
<1>6. ChainsEnd(g, q)
  BY <1>3, <1>4 DEF ChainsEnd
<1>7. NoCrossLink(g, q)
  <2>1. \A k \in Files(q) : k # i => start \notin Chain(f, r[k].starting_block)
    BY <1>1 DEF Sound, NoCrossLink
  <2> QED BY <1>3, <1>4, <2>1 DEF Sound, NoCrossLink
<1> QED BY <1>3, <1>4, <1>5, <1>6, <1>7 DEF Sound

LEMMA TruncateConsistent ==
    ASSUME NEW f \in [Blocks -> Blocks], NEW r, NEW q, Consistent(f, r),
           NEW i \in Files(r), Files(q) = Files(r),
           \A k \in Files(r) : q[k].starting_block = r[k].starting_block,
           NEW start, start = r[i].starting_block,
           NEW g,
           \A b \in Blocks : g[b] = IF b = start THEN EOF_FAT_ENTRY
                                    ELSE IF b \in Chain(f, start) THEN FREE_FAT_ENTRY
                                    ELSE f[b]
    PROVE  /\ Consistent(g, q)
           /\ \A k \in Files(q) : k # i =>
                 /\ Chain(g, q[k].starting_block) = Chain(f, r[k].starting_block)
                 /\ \A b \in Chain(f, r[k].starting_block) : g[b] = f[b]
<1>1. /\ Sound(g, q)
      /\ Chain(g, start) = {start}
      /\ \A k \in Files(q) : k # i =>
            /\ Chain(g, q[k].starting_block) = Chain(f, r[k].starting_block)
            /\ \A b \in Chain(f, r[k].starting_block) : g[b] = f[b]
  BY TruncateSound, ConsistentIsSound
<1>2. \A b \in DataBlocks : g[b] # FREE_FAT_ENTRY /\ b # start =>
         f[b] # FREE_FAT_ENTRY /\ b \notin Chain(f, start)
  BY SpecialValues
<1>3. NoLostBlocks(g, q)
  BY <1>1, <1>2 DEF Consistent, NoLostBlocks
<1> QED BY <1>1, <1>3, ConsistentIsSound
-----------------------------------------------------------------------------
(***************************************************************************)
(* The inductive invariant.  Types of the values that recur.               *)
(***************************************************************************)
LEMMA ConstantTypes ==
    /\ ZeroBlock \in Contents
    /\ UnusedEntry \in Entry
    /\ ClosedHandle \in Handle
    /\ Idle \in Call
    /\ AllFree \in [Blocks -> Blocks]
    /\ FormattedFAT \in [Blocks -> Blocks]
    /\ EmptyRoot \in [DirIndexes -> Entry]
    /\ AllClosed \in [Handles -> Handle]
<1>1. ZeroBlock \in Contents
  BY DataAssumption DEF ZeroBlock, Contents
<1>2. UnusedEntry \in Entry
  BY SpecialValues DEF UnusedEntry, Entry
<1>3. ClosedHandle \in Handle
  BY SpecialValues DEF ClosedHandle, Handle
<1>4. Idle \in Call
  <2>1. 0 \in 0 .. BLOCK_SIZE - 1
    BY SizeAssumption
  <2>2. << >> \in Seq(Byte)
    OBVIOUS
  <2> QED BY <1>1, <2>1, <2>2 DEF Idle, Call
<1>5. AllFree \in [Blocks -> Blocks] /\ FormattedFAT \in [Blocks -> Blocks]
  BY SpecialValues DEF AllFree, FormattedFAT
<1> QED BY <1>1, <1>2, <1>3, <1>4, <1>5 DEF EmptyRoot, AllClosed

LEMMA BlockReadType == TypeOK => \A b : BlockRead(b) \in Contents
BY ConstantTypes DEF TypeOK, BlockRead

LEMMA FreeSpaceType == FAT \in [Blocks -> Blocks] => free_space \in Nat
<1>1. IsFiniteSet(Blocks)
  BY FS_Interval, SizeAssumption DEF Blocks
<1>2. IsFiniteSet(FreeBlocks(FAT))
  BY <1>1, FS_Subset DEF FreeBlocks
<1>3. Cardinality(FreeBlocks(FAT)) \in Nat
  BY <1>2, FS_CardinalityType
<1> QED BY <1>3, SizeAssumption DEF free_space

\* read() and write() take up a handle.
LEMMA StartType ==
    ASSUME TypeOK, NEW h \in Handles, NEW count \in Int,
           NEW op \in {"read", "write"}, Start(op, h, count)
    PROVE  call' \in Call /\ call'.op = op /\ call'.handle = h
<1>1. handle_table[h].offset % BLOCK_SIZE \in 0 .. BLOCK_SIZE - 1
  <2>1. handle_table[h].offset \in Nat
    BY DEF TypeOK, Handle
  <2> QED BY <2>1, SizeAssumption
<1>2. BlockRead(handle_table[h].current_block) \in Contents
  BY BlockReadType
<1>3. count \in Nat /\ << >> \in Seq(Byte)
  BY DEF Start
<1> QED BY <1>1, <1>2, <1>3 DEF Start, Call

-----------------------------------------------------------------------------
(***************************************************************************)
(* The invariant, action by action.                                        *)
(***************************************************************************)
LEMMA InitIInv == Init => IInv
<1> SUFFICES ASSUME Init  PROVE IInv
  OBVIOUS
<1>1. TypeOK
  <2>1. disk_data \in [DiskBlocks -> Contents]
    BY ConstantTypes DEF Init
  <2> QED BY <2>1, ConstantTypes DEF Init, TypeOK
<1>2. Files(root_directory) = {}
  BY DEF Init, Files, EmptyRoot, UnusedEntry
<1>3. \A h \in Handles : ~handle_table[h].in_use
  BY DEF Init, AllClosed, ClosedHandle
<1> QED BY <1>1, <1>2, <1>3 DEF Init, IInv, FlagsOK, CallOK, HandlesOnFiles, OneWriter,
           WritersAtEnd, FATConsistent, DiskConsistent, Idle

LEMMA ConstructIInv == IInv /\ Construct => IInv'
<1> SUFFICES ASSUME IInv, Construct  PROVE IInv'
  OBVIOUS
<1> USE DEF IInv, Construct, disk
<1>1. TypeOK'
  BY ConstantTypes DEF TypeOK
<1>2. \A h \in Handles : ~handle_table'[h].in_use
  BY DEF AllClosed, ClosedHandle
<1>3. HandlesOnFiles' /\ OneWriter' /\ WritersAtEnd'
  BY <1>2 DEF HandlesOnFiles, OneWriter, WritersAtEnd
<1>4. FlagsOK' /\ CallOK'
  BY DEF FlagsOK, CallOK
<1>5. FATConsistent' /\ DiskConsistent'
  BY DEF FATConsistent, DiskConsistent
<1> QED BY <1>1, <1>3, <1>4, <1>5

\* The object is gone; what counts is on the disk.
LEMMA DiscardedIInv ==
    ASSUME IInv, Discarded, DiskConsistent',
           disk_boot' \in BOOLEAN, disk_FAT' \in [Blocks -> Blocks],
           disk_root' \in [DirIndexes -> Entry], disk_data' \in [DiskBlocks -> Contents]
    PROVE  IInv'
<1>1. TypeOK'
  BY ConstantTypes DEF Discarded, TypeOK
<1>2. \A h \in Handles : ~handle_table'[h].in_use
  BY DEF Discarded, AllClosed, ClosedHandle
<1>3. Files(root_directory') = {}
  BY DEF Discarded, Files, EmptyRoot, UnusedEntry
<1> QED BY <1>1, <1>2, <1>3 DEF Discarded, IInv, FlagsOK, CallOK, HandlesOnFiles, OneWriter,
           WritersAtEnd, FATConsistent, Idle

LEMMA DestroyUnformattedIInv == IInv /\ DestroyUnformatted => IInv'
<1> SUFFICES ASSUME IInv, DestroyUnformatted  PROVE IInv'
  OBVIOUS
<1>1. DiskConsistent'
  BY DEF DestroyUnformatted, Ready, IInv, FlagsOK, DiskConsistent, disk
<1> QED BY <1>1, DiscardedIInv DEF DestroyUnformatted, disk, IInv, TypeOK

LEMMA FlushFATIInv == IInv /\ FlushFAT => IInv'
<1> SUFFICES ASSUME IInv, FlushFAT  PROVE IInv'
  OBVIOUS
<1> USE DEF IInv, FlushFAT, Ready
<1>1. call' \in Call /\ call'.op = "flush"
  BY ConstantTypes DEF Call, Idle
<1>2. TypeOK'
  BY <1>1 DEF TypeOK
<1>3. FlagsOK' /\ CallOK' /\ DiskConsistent' /\ FATConsistent'
  BY <1>1 DEF FlagsOK, CallOK, DiskConsistent, FATConsistent
<1>4. HandlesOnFiles' /\ OneWriter' /\ WritersAtEnd'
  BY DEF HandlesOnFiles, OneWriter, WritersAtEnd
<1> QED BY <1>2, <1>3, <1>4

\* The pair on the disk becomes the pair in memory.
LEMMA FlushRootIInv == IInv /\ FlushRoot => IInv'
<1> SUFFICES ASSUME IInv, FlushRoot  PROVE IInv'
  OBVIOUS
<1>1. disk_FAT' = FAT /\ disk_root' = root_directory /\ Consistent(FAT, root_directory)
  BY DEF FlushRoot, IInv, CallOK, FATConsistent
<1>2. DiskConsistent'
  BY <1>1 DEF DiskConsistent
<1> QED BY <1>2, DiscardedIInv DEF FlushRoot, IInv, TypeOK

LEMMA FormatIInv == IInv /\ NoHandles /\ Format => IInv'
<1> SUFFICES ASSUME IInv, NoHandles, Format  PROVE IInv'
  OBVIOUS
<1> USE DEF IInv, Format, Ready
<1>1. TypeOK'
  BY ConstantTypes DEF TypeOK
<1>2. HandlesOnFiles' /\ OneWriter' /\ WritersAtEnd'
  BY DEF NoHandles, HandlesOnFiles, OneWriter, WritersAtEnd
<1>3. FATConsistent'
  BY FormattedConsistent DEF FATConsistent
<1>4. FlagsOK' /\ CallOK' /\ DiskConsistent'
  BY DEF FlagsOK, CallOK, DiskConsistent
<1> QED BY <1>1, <1>2, <1>3, <1>4

\* Steps that change neither tables nor disk, as far as the tables go.
LEMMA TablesUnchanged ==
    ASSUME IInv, up' = up,
           UNCHANGED <<formatted_flag, FAT, root_directory, disk_boot, disk_FAT, disk_root>>
    PROVE  FlagsOK' /\ FATConsistent' /\ DiskConsistent'
BY DEF IInv, FlagsOK, FATConsistent, DiskConsistent

LEMMA OpenReadIInv == \A n : IInv /\ OpenRead(n) => IInv'
<1> SUFFICES ASSUME IInv, NEW n, OpenRead(n)  PROVE IInv'
  OBVIOUS
<1> USE DEF IInv, Ready, disk
<1>1. PICK h \in Handles, i \in DirIndexes :
         /\ Finds(i, n)
         /\ handle_table' = [handle_table EXCEPT ![h] =
               [in_use |-> TRUE, mode |-> "READ", offset |-> 0, directory_index |-> i,
                current_block |-> root_directory[i].starting_block]]
  BY DEF OpenRead
<1> DEFINE opened == [in_use |-> TRUE, mode |-> "READ", offset |-> 0,
                      directory_index |-> i,
                      current_block |-> root_directory[i].starting_block]
<1>2. i \in Files(root_directory) /\ root_directory[i] \in Entry
  BY <1>1 DEF Finds, Names, Files, TypeOK
<1>3. opened \in Handle
  BY <1>2 DEF Entry, Handle
<1>4. \A g \in Handles : handle_table'[g] = IF g = h THEN opened ELSE handle_table[g]
  BY <1>1 DEF TypeOK
<1>5. TypeOK'
  BY <1>1, <1>3 DEF TypeOK, OpenRead
<1>6. HandlesOnFiles' /\ OneWriter' /\ WritersAtEnd' /\ CallOK'
  BY <1>2, <1>4 DEF HandlesOnFiles, OneWriter, WritersAtEnd, CallOK, OpenRead
<1>7. FlagsOK' /\ FATConsistent' /\ DiskConsistent'
  BY TablesUnchanged DEF OpenRead
<1> QED BY <1>5, <1>6, <1>7

LEMMA OpenWriteIInv == \A n : IInv /\ NoWriter(n) /\ OpenWrite(n) => IInv'
<1> SUFFICES ASSUME IInv, NEW n, NoWriter(n), OpenWrite(n)  PROVE IInv'
  OBVIOUS
<1> USE DEF IInv, Ready, disk
<1>1. PICK h \in Handles, i \in DirIndexes, last \in DataBlocks :
         /\ Finds(i, n)
         /\ last \in Chain(FAT, root_directory[i].starting_block)
         /\ FAT[last] = EOF_FAT_ENTRY
         /\ handle_table' = [handle_table EXCEPT ![h] =
               [in_use |-> TRUE, mode |-> "WRITE", offset |-> root_directory[i].size,
                directory_index |-> i, current_block |-> last]]
  BY DEF OpenWrite, Chain
<1> DEFINE opened == [in_use |-> TRUE, mode |-> "WRITE", offset |-> root_directory[i].size,
                      directory_index |-> i, current_block |-> last]
<1>2. i \in Files(root_directory) /\ root_directory[i] \in Entry /\ Names(i, n)
  BY <1>1 DEF Finds, Names, Files, TypeOK
<1>3. opened \in Handle
  BY <1>2, SpecialValues DEF Entry, Handle, Chain
<1>4. \A g \in Handles : handle_table'[g] = IF g = h THEN opened ELSE handle_table[g]
  BY <1>1 DEF TypeOK
<1>5. \A g \in Handles : handle_table[g].in_use /\ handle_table[g].mode = "WRITE"
                            => handle_table[g].directory_index # i
  BY <1>2 DEF NoWriter, OpenOn
<1>6. TypeOK'
  BY <1>1, <1>3 DEF TypeOK, OpenWrite
<1>7. HandlesOnFiles' /\ OneWriter' /\ CallOK'
  BY <1>2, <1>4, <1>5 DEF HandlesOnFiles, OneWriter, CallOK, OpenWrite
<1>8. WritersAtEnd'
  BY <1>1, <1>2, <1>4 DEF WritersAtEnd, OpenWrite
<1>9. FlagsOK' /\ FATConsistent' /\ DiskConsistent'
  BY TablesUnchanged DEF OpenWrite
<1> QED BY <1>6, <1>7, <1>8, <1>9

LEMMA CreateIInv == \A n \in Name : IInv /\ formatted_flag /\ Create(n) => IInv'
<1> SUFFICES ASSUME IInv, formatted_flag, NEW n \in Name, Create(n)  PROVE IInv'
  OBVIOUS
<1> USE DEF IInv, Ready, disk
<1>1. PICK h \in Handles, i \in DirIndexes, j \in Blocks :
         /\ FirstFreeEntry(i)
         /\ FirstFreeBlock(FAT, j)
         /\ FAT' = [FAT EXCEPT ![j] = EOF_FAT_ENTRY]
         /\ root_directory' = [root_directory EXCEPT ![i] =
               [in_use |-> TRUE, name |-> n, size |-> 0, starting_block |-> j]]
         /\ handle_table' = [handle_table EXCEPT ![h] =
               [in_use |-> TRUE, mode |-> "WRITE", offset |-> 0,
                directory_index |-> i, current_block |-> j]]
  BY DEF Create
<1> DEFINE opened == [in_use |-> TRUE, mode |-> "WRITE", offset |-> 0,
                      directory_index |-> i, current_block |-> j]
           entry == [in_use |-> TRUE, name |-> n, size |-> 0, starting_block |-> j]
<1>2. i \notin Files(root_directory) /\ FAT[j] = FREE_FAT_ENTRY
  BY <1>1 DEF FirstFreeEntry, FirstFreeBlock, Files
<1>3. opened \in Handle /\ entry \in Entry
  BY DEF Entry, Handle
<1>4. \A g \in Handles : handle_table'[g] = IF g = h THEN opened ELSE handle_table[g]
  BY <1>1 DEF TypeOK
<1>5. \A k \in DirIndexes : root_directory'[k] = IF k = i THEN entry ELSE root_directory[k]
  BY <1>1 DEF TypeOK
<1>6. Files(root_directory') = Files(root_directory) \cup {i}
  BY <1>5 DEF Files
<1>7. TypeOK'
  BY <1>1, <1>3, SpecialValues DEF TypeOK, Create
<1>8. \A k \in Files(root_directory) : k # i /\ root_directory'[k] = root_directory[k]
  BY <1>2, <1>5 DEF Files
<1>9. /\ Consistent(FAT', root_directory')
      /\ FAT'[j] = EOF_FAT_ENTRY
      /\ j \in Chain(FAT', root_directory'[i].starting_block)
      /\ \A k \in Files(root_directory) :
            /\ Chain(FAT', root_directory'[k].starting_block)
                  = Chain(FAT, root_directory[k].starting_block)
            /\ \A b \in Chain(FAT, root_directory[k].starting_block) : FAT'[b] = FAT[b]
  <2>1. FAT \in [Blocks -> Blocks] /\ Consistent(FAT, root_directory)
    BY DEF TypeOK, FATConsistent
  <2>2. root_directory'[i].starting_block = j
    BY <1>5
  <2>3. \A k \in Files(root_directory) :
           root_directory'[k].starting_block = root_directory[k].starting_block
    BY <1>8
  <2>4. FAT[j] = FREE_FAT_ENTRY /\ i \notin Files(root_directory)
    BY <1>2
  <2>5. \A b \in Blocks : FAT'[b] = IF b = j THEN EOF_FAT_ENTRY ELSE FAT[b]
    BY <1>1, <2>1
  <2> QED BY <1>6, <2>1, <2>2, <2>3, <2>4, <2>5, CreateConsistent
<1>10. HandlesOnFiles'
  BY <1>4, <1>6 DEF HandlesOnFiles
<1>13. OneWriter'
  <2>1. \A g \in Handles : handle_table[g].in_use => handle_table[g].directory_index # i
    BY <1>2 DEF HandlesOnFiles
  <2> QED BY <1>4, <2>1 DEF OneWriter
<1>14. CallOK'
  BY <1>1 DEF CallOK, Create
<1>11. WritersAtEnd'
  <2>1. ASSUME NEW g \in Handles, g # h, handle_table[g].in_use, handle_table[g].mode = "WRITE"
        PROVE  LET hd == handle_table'[g]  k == hd.directory_index IN
               /\ k \in Files(root_directory')
               /\ hd.current_block \in Chain(FAT', root_directory'[k].starting_block)
               /\ FAT'[hd.current_block] = EOF_FAT_ENTRY
               /\ hd.offset = root_directory'[k].size
    BY <1>4, <1>6, <1>8, <1>9, <2>1 DEF WritersAtEnd
  <2>2. /\ i \in Files(root_directory')
        /\ opened.offset = root_directory'[i].size
    BY <1>5, <1>6
  <2> QED BY <1>4, <1>9, <2>1, <2>2 DEF WritersAtEnd
<1>12. FlagsOK' /\ FATConsistent' /\ DiskConsistent'
  BY <1>9 DEF FlagsOK, FATConsistent, DiskConsistent, Create
<1> QED BY <1>7, <1>10, <1>11, <1>12, <1>13, <1>14

LEMMA CloseIInv == \A h \in Handles : IInv /\ Close(h) => IInv'
<1> SUFFICES ASSUME IInv, NEW h \in Handles, Close(h)  PROVE IInv'
  OBVIOUS
<1> USE DEF IInv, Close, Ready, disk
<1>1. \A g \in Handles : handle_table'[g] = IF g = h THEN ClosedHandle ELSE handle_table[g]
  BY DEF TypeOK
<1>2. TypeOK'
  BY ConstantTypes DEF TypeOK
<1>3. HandlesOnFiles' /\ OneWriter' /\ WritersAtEnd' /\ CallOK'
  BY <1>1 DEF HandlesOnFiles, OneWriter, WritersAtEnd, CallOK, ClosedHandle
<1>4. FlagsOK' /\ FATConsistent' /\ DiskConsistent'
  BY TablesUnchanged
<1> QED BY <1>2, <1>3, <1>4

\* What a change of the tables owes to the writing handles: each keeps its file,
\* the file's size and its place at the end of the chain.
LEMMA WritersKept ==
    ASSUME IInv, UNCHANGED handle_table,
           \A h \in Handles : handle_table[h].in_use /\ handle_table[h].mode = "WRITE" =>
              LET i == handle_table[h].directory_index IN
              /\ i \in Files(root_directory')
              /\ root_directory'[i].size = root_directory[i].size
              /\ Chain(FAT', root_directory'[i].starting_block)
                    = Chain(FAT, root_directory[i].starting_block)
              /\ \A b \in Chain(FAT, root_directory[i].starting_block) : FAT'[b] = FAT[b]
    PROVE  WritersAtEnd'
BY DEF IInv, WritersAtEnd

\* A reader of the file does not mind: its handle says nothing of the chain here.
LEMMA TruncateIInv == \A n : IInv /\ formatted_flag /\ NoWriter(n) /\ Truncate(n) => IInv'
<1> SUFFICES ASSUME IInv, formatted_flag, NEW n, NoWriter(n), Truncate(n)  PROVE IInv'
  OBVIOUS
<1> USE DEF IInv, Ready, disk
<1>1. PICK i \in DirIndexes :
         /\ Finds(i, n)
         /\ FAT' = [Freed(FAT, Chain(FAT, root_directory[i].starting_block)) EXCEPT
                       ![root_directory[i].starting_block] = EOF_FAT_ENTRY]
         /\ root_directory' = [root_directory EXCEPT ![i].size = 0]
  BY DEF Truncate
<1> DEFINE start == root_directory[i].starting_block
<1>2. i \in Files(root_directory) /\ root_directory[i] \in Entry /\ Names(i, n)
  BY <1>1 DEF Finds, Names, Files, TypeOK
<1>3. \A k \in DirIndexes : root_directory'[k] =
         IF k = i THEN [root_directory[k] EXCEPT !.size = 0] ELSE root_directory[k]
  BY <1>1 DEF TypeOK
<1>4. /\ Files(root_directory') = Files(root_directory)
      /\ \A k \in Files(root_directory) :
            root_directory'[k].starting_block = root_directory[k].starting_block
  BY <1>2, <1>3 DEF Files, Entry
<1>5. /\ FAT' \in [Blocks -> Blocks]
      /\ \A b \in Blocks : FAT'[b] = IF b = start THEN EOF_FAT_ENTRY
                                     ELSE IF b \in Chain(FAT, start) THEN FREE_FAT_ENTRY
                                     ELSE FAT[b]
  BY <1>1, SpecialValues DEF Freed, TypeOK
<1>6. TypeOK'
  <2>1. root_directory' \in [DirIndexes -> Entry]
    BY <1>1 DEF TypeOK, Entry
  <2> QED BY <1>5, <2>1 DEF TypeOK, Truncate
<1>7. /\ Consistent(FAT', root_directory')
      /\ \A k \in Files(root_directory') : k # i =>
            /\ Chain(FAT', root_directory'[k].starting_block)
                  = Chain(FAT, root_directory[k].starting_block)
            /\ \A b \in Chain(FAT, root_directory[k].starting_block) : FAT'[b] = FAT[b]
  <2>1. FAT \in [Blocks -> Blocks] /\ Consistent(FAT, root_directory)
    BY DEF TypeOK, FATConsistent
  <2>2. start = root_directory[i].starting_block
    OBVIOUS
  <2> HIDE DEF start
  <2> QED BY <1>2, <1>4, <1>5, <2>1, <2>2, TruncateConsistent
<1>8. \A h \in Handles : handle_table[h].in_use /\ handle_table[h].mode = "WRITE"
                            => handle_table[h].directory_index # i
  BY <1>2 DEF NoWriter, OpenOn
<1>9. HandlesOnFiles' /\ OneWriter' /\ CallOK'
  BY <1>4 DEF HandlesOnFiles, OneWriter, CallOK, Truncate
<1>10. WritersAtEnd'
  <2>1. ASSUME NEW h \in Handles, handle_table[h].in_use, handle_table[h].mode = "WRITE"
        PROVE  LET k == handle_table[h].directory_index IN
               /\ k \in Files(root_directory) /\ k \in Files(root_directory') /\ k # i
               /\ root_directory'[k] = root_directory[k]
    BY <1>3, <1>4, <1>8, <2>1 DEF HandlesOnFiles, Files
  <2>2. UNCHANGED handle_table
    BY DEF Truncate
  <2> HIDE DEF IInv
  <2> QED BY <1>7, <2>1, <2>2, WritersKept
<1>11. FlagsOK' /\ FATConsistent' /\ DiskConsistent'
  BY <1>4, <1>7 DEF FlagsOK, FATConsistent, DiskConsistent, Truncate
<1> QED BY <1>6, <1>9, <1>10, <1>11

LEMMA RemoveIInv == \A n : IInv /\ formatted_flag /\ NotOpen(n) /\ Remove(n) => IInv'
<1> SUFFICES ASSUME IInv, formatted_flag, NEW n, NotOpen(n), Remove(n)  PROVE IInv'
  OBVIOUS
<1> USE DEF IInv, Ready, disk
<1>1. PICK i \in DirIndexes :
         /\ Finds(i, n)
         /\ FAT' = Freed(FAT, Chain(FAT, root_directory[i].starting_block))
         /\ root_directory' = [root_directory EXCEPT ![i] = UnusedEntry]
  BY DEF Remove
<1>2. i \in Files(root_directory) /\ Names(i, n)
  BY <1>1 DEF Finds, Names, Files
<1>3. \A k \in DirIndexes :
         root_directory'[k] = IF k = i THEN UnusedEntry ELSE root_directory[k]
  BY <1>1 DEF TypeOK
<1>4. /\ Files(root_directory') = Files(root_directory) \ {i}
      /\ \A k \in Files(root_directory') : root_directory'[k] = root_directory[k]
  BY <1>3 DEF Files, UnusedEntry
<1>5. /\ FAT' \in [Blocks -> Blocks]
      /\ \A b \in Blocks :
            FAT'[b] = IF b \in Chain(FAT, root_directory[i].starting_block)
                      THEN FREE_FAT_ENTRY ELSE FAT[b]
  BY <1>1, SpecialValues DEF Freed, TypeOK
<1>6. TypeOK'
  BY <1>1, <1>5, ConstantTypes DEF TypeOK, Remove
<1>7. /\ Consistent(FAT', root_directory')
      /\ \A k \in Files(root_directory') :
            /\ Chain(FAT', root_directory'[k].starting_block)
                  = Chain(FAT, root_directory[k].starting_block)
            /\ \A b \in Chain(FAT, root_directory[k].starting_block) : FAT'[b] = FAT[b]
  <2>1. FAT \in [Blocks -> Blocks] /\ Consistent(FAT, root_directory)
    BY DEF TypeOK, FATConsistent
  <2>2. \A k \in Files(root_directory') :
           root_directory'[k].starting_block = root_directory[k].starting_block
    BY <1>4
  <2> QED BY <1>2, <1>4, <1>5, <2>1, <2>2, RemoveConsistent
<1>8. \A h \in Handles : handle_table[h].in_use => handle_table[h].directory_index # i
  BY <1>2 DEF NotOpen, OpenOn
<1>9. HandlesOnFiles' /\ OneWriter' /\ CallOK'
  BY <1>4, <1>8 DEF HandlesOnFiles, OneWriter, CallOK, Remove
<1>10. WritersAtEnd'
  <2>1. \A h \in Handles : handle_table[h].in_use =>
           handle_table[h].directory_index \in Files(root_directory')
    BY <1>4, <1>8 DEF HandlesOnFiles
  <2>2. UNCHANGED handle_table
    BY DEF Remove
  <2> HIDE DEF IInv
  <2> QED BY <1>4, <1>7, <2>1, <2>2, WritersKept
<1>11. FlagsOK' /\ FATConsistent' /\ DiskConsistent'
  BY <1>4, <1>7 DEF FlagsOK, FATConsistent, DiskConsistent, Remove
<1> QED BY <1>6, <1>9, <1>10, <1>11

\* A call starts.
LEMMA StartIInv ==
    ASSUME IInv, Ready, NEW h \in Handles, NEW count \in Int, NEW op \in {"read", "write"},
           handle_table[h].in_use, op = "read" <=> handle_table[h].mode = "READ",
           Start(op, h, count)
    PROVE  IInv'
<1> USE DEF IInv, Ready, disk
<1>1. call' \in Call /\ call'.op = op /\ call'.handle = h
  BY StartType
<1>2. TypeOK'
  BY <1>1 DEF TypeOK, Start
<1>3. CallOK'
  BY <1>1 DEF CallOK, Start, H
<1>4. HandlesOnFiles' /\ OneWriter' /\ WritersAtEnd'
  BY DEF HandlesOnFiles, OneWriter, WritersAtEnd, Start
<1>5. FlagsOK' /\ FATConsistent' /\ DiskConsistent'
  BY TablesUnchanged DEF Start
<1> QED BY <1>2, <1>3, <1>4, <1>5

LEMMA ReadStartIInv ==
    \A h \in Handles, count \in Nat : IInv /\ ReadStart(h, count) => IInv'
<1> SUFFICES ASSUME IInv, NEW h \in Handles, NEW count \in Nat, ReadStart(h, count)
             PROVE  IInv'
  OBVIOUS
<1> DEFINE left == root_directory[handle_table[h].directory_index].size
                      - handle_table[h].offset
<1>1. left \in Int
  BY DEF ReadStart, IInv, TypeOK, HandlesOnFiles, Files, Entry, Handle
<1>2. Smaller(count, left) \in Int
  BY <1>1, DataAssumption DEF Smaller
<1> QED BY <1>2, StartIInv DEF ReadStart

LEMMA WriteStartIInv ==
    \A h \in Handles, count \in Nat : IInv /\ WriteStart(h, count) => IInv'
<1> SUFFICES ASSUME IInv, NEW h \in Handles, NEW count \in Nat, WriteStart(h, count)
             PROVE  IInv'
  OBVIOUS
<1>1. OpenSpace(h) \in Int
  <2>1. root_directory[handle_table[h].directory_index].size \in Nat
    BY DEF WriteStart, IInv, TypeOK, HandlesOnFiles, Files, Entry
  <2>2. free_space \in Nat
    BY FreeSpaceType DEF IInv, TypeOK
  <2> QED BY <2>1, <2>2, SizeAssumption DEF OpenSpace
<1>2. Smaller(count, OpenSpace(h)) \in Int
  BY <1>1, DataAssumption DEF Smaller
<1>3. handle_table[h].mode # "READ"
  BY DEF WriteStart
<1> QED BY <1>2, <1>3, StartIInv DEF WriteStart

\* A step of a read(): only its handle's place changes, and the call itself.
LEMMA ReadingIInv ==
    ASSUME IInv, call.op = "read", UNCHANGED disk,
           UNCHANGED <<up, formatted_flag, FAT, root_directory>>,
           handle_table' \in [Handles -> Handle],
           \A g \in Handles : g # call.handle => handle_table'[g] = handle_table[g],
           handle_table'[call.handle].in_use,
           handle_table'[call.handle].mode = "READ",
           handle_table'[call.handle].directory_index = H.directory_index,
           call' \in Call,
           call' = Idle \/ (call'.op = "read" /\ call'.handle = call.handle)
    PROVE  IInv'
<1> USE DEF IInv, disk
<1>1. call.handle \in Handles /\ H.in_use /\ H.mode = "READ" /\ up
  BY DEF CallOK
<1>2. TypeOK'
  BY DEF TypeOK
<1>3. CallOK'
  BY <1>1 DEF CallOK, H, Idle
<1>4. HandlesOnFiles'
  BY <1>1 DEF HandlesOnFiles, H
<1>5. OneWriter' /\ WritersAtEnd'
  BY <1>1 DEF OneWriter, WritersAtEnd, H
<1>6. FlagsOK' /\ FATConsistent' /\ DiskConsistent'
  BY TablesUnchanged
<1> QED BY <1>2, <1>3, <1>4, <1>5, <1>6

\* The byte the loop delivers, and the place of a handle one byte on.
LEMMA NextByte == IInv => call.block_buffer[call.block_offset] \in Byte
BY DEF IInv, TypeOK, Call, Contents

LEMMA ReadByteIInv == IInv /\ ReadByte => IInv'
<1> SUFFICES ASSUME IInv, ReadByte  PROVE IInv'
  OBVIOUS
<1>1. call.handle \in Handles /\ H.in_use /\ H.mode = "READ" /\ call \in Call
      /\ handle_table \in [Handles -> Handle]
  BY DEF ReadByte, IInv, CallOK, TypeOK
<1>2. call.block_offset + 1 \in 0 .. BLOCK_SIZE - 1
  BY <1>1, SizeAssumption DEF ReadByte, LastOfBlock, Call
<1>3. Append(call.buffer, call.block_buffer[call.block_offset]) \in Seq(Byte)
  BY <1>1, NextByte DEF Call
<1>4. call' \in Call /\ call'.op = "read" /\ call'.handle = call.handle
  BY <1>1, <1>2, <1>3 DEF ReadByte, Call
<1>5. /\ handle_table' \in [Handles -> Handle]
      /\ \A g \in Handles : g # call.handle => handle_table'[g] = handle_table[g]
      /\ handle_table'[call.handle] = [H EXCEPT !.offset = @ + 1]
  BY <1>1 DEF ReadByte, H, Handle
<1>6. /\ handle_table'[call.handle].in_use
      /\ handle_table'[call.handle].mode = "READ"
      /\ handle_table'[call.handle].directory_index = H.directory_index
  BY <1>1, <1>5 DEF H, Handle
<1> QED BY <1>4, <1>5, <1>6, ReadingIInv DEF ReadByte

\* The handle moves on to the next block, at the end of a block.
LEMMA NextBlock ==
    ASSUME IInv, call.op = "read",
           handle_table' = [handle_table EXCEPT
              ![call.handle].offset = @ + 1,
              ![call.handle].current_block = FAT[H.current_block]]
    PROVE  /\ handle_table' \in [Handles -> Handle]
           /\ \A g \in Handles : g # call.handle => handle_table'[g] = handle_table[g]
           /\ handle_table'[call.handle].in_use
           /\ handle_table'[call.handle].mode = "READ"
           /\ handle_table'[call.handle].directory_index = H.directory_index
<1>1. call.handle \in Handles /\ H.in_use /\ H.mode = "READ"
      /\ handle_table \in [Handles -> Handle] /\ FAT \in [Blocks -> Blocks]
  BY DEF IInv, CallOK, TypeOK
<1>2. FAT[H.current_block] \in Blocks
  BY <1>1 DEF H, Handle
<1>3. handle_table'[call.handle] =
         [H EXCEPT !.offset = @ + 1, !.current_block = FAT[H.current_block]]
  BY <1>1 DEF H, Handle
<1> QED BY <1>1, <1>2, <1>3 DEF H, Handle

LEMMA ReadLastByteIInv == IInv /\ ReadLastByte => IInv'
<1> SUFFICES ASSUME IInv, ReadLastByte  PROVE IInv'
  OBVIOUS
<1>1. call \in Call /\ 0 \in 0 .. BLOCK_SIZE - 1
  BY SizeAssumption DEF IInv, TypeOK
<1>2. Append(call.buffer, call.block_buffer[call.block_offset]) \in Seq(Byte)
  BY <1>1, NextByte DEF Call
<1>3. BlockRead(FAT[H.current_block]) \in Contents
  BY BlockReadType DEF IInv
<1>4. call' \in Call /\ call'.op = "read" /\ call'.handle = call.handle
  BY <1>1, <1>2, <1>3 DEF ReadLastByte, Call
<1> QED BY <1>4, NextBlock, ReadingIInv DEF ReadLastByte

LEMMA ReadThrowsIInv == IInv /\ ReadThrows => IInv'
BY ConstantTypes, NextBlock, ReadingIInv DEF ReadThrows

LEMMA ReadEndIInv == IInv /\ ReadEnd => IInv'
<1> SUFFICES ASSUME IInv, ReadEnd  PROVE IInv'
  OBVIOUS
<1>1. H.in_use /\ H.mode = "READ" /\ handle_table \in [Handles -> Handle]
  BY DEF ReadEnd, IInv, CallOK, TypeOK
<1> QED BY <1>1, ConstantTypes, ReadingIInv DEF ReadEnd, H

\* The handle and the file of a write() under way.
LEMMA Writing ==
    ASSUME IInv, call.op = "write"
    PROVE  /\ up /\ formatted_flag /\ call \in Call
           /\ call.handle \in Handles /\ H \in Handle /\ H = handle_table[call.handle]
           /\ H.in_use /\ H.mode = "WRITE"
           /\ H.directory_index \in Files(root_directory)
           /\ root_directory[H.directory_index] \in Entry
           /\ H.current_block \in
                 Chain(FAT, root_directory[H.directory_index].starting_block)
           /\ H.current_block \in DataBlocks
           /\ FAT[H.current_block] = EOF_FAT_ENTRY
           /\ H.offset = root_directory[H.directory_index].size
           /\ Consistent(FAT, root_directory)
           /\ \A h \in Handles : /\ h # call.handle
                                 /\ handle_table[h].in_use
                                 /\ handle_table[h].mode = "WRITE"
                 => handle_table[h].directory_index # H.directory_index
<1>1. /\ up /\ call \in Call
      /\ call.handle \in Handles /\ H \in Handle
      /\ H.in_use /\ H.mode = "WRITE"
  BY DEF IInv, CallOK, TypeOK, H, Handle
<1>2. /\ H.directory_index \in Files(root_directory)
      /\ H.current_block \in
            Chain(FAT, root_directory[H.directory_index].starting_block)
      /\ FAT[H.current_block] = EOF_FAT_ENTRY
      /\ H.offset = root_directory[H.directory_index].size
  BY <1>1 DEF IInv, WritersAtEnd, H
<1>3. formatted_flag /\ Consistent(FAT, root_directory)
  BY <1>2 DEF IInv, FlagsOK, FATConsistent
<1>4. H.current_block \in DataBlocks /\ root_directory[H.directory_index] \in Entry
  BY <1>2 DEF Chain, Files, IInv, TypeOK
<1>5. \A h \in Handles : /\ h # call.handle
                         /\ handle_table[h].in_use
                         /\ handle_table[h].mode = "WRITE"
         => handle_table[h].directory_index # H.directory_index
  BY <1>1 DEF IInv, OneWriter, H
<1> QED BY <1>1, <1>2, <1>3, <1>4, <1>5 DEF H

\* One byte more in the directory.
LEMMA GrownEntry ==
    ASSUME root_directory \in [DirIndexes -> Entry],
           H.directory_index \in Files(root_directory), root_directory' = Grown
    PROVE  LET i == H.directory_index  entry == root_directory[i] IN
           /\ root_directory' \in [DirIndexes -> Entry]
           /\ Files(root_directory') = Files(root_directory)
           /\ \A k \in DirIndexes : k # i => root_directory'[k] = root_directory[k]
           /\ root_directory'[i].size = entry.size + 1
           /\ \A k \in Files(root_directory) :
                 root_directory'[k].starting_block = root_directory[k].starting_block
<1> DEFINE i == H.directory_index
<1>1. i \in DirIndexes /\ root_directory \in [DirIndexes -> Entry] /\ root_directory[i] \in Entry
  BY DEF Files
<1>2. root_directory' = [root_directory EXCEPT ![i].size = @ + 1]
  BY DEF Grown
<1> HIDE DEF i
<1>3. root_directory'[i] = [root_directory[i] EXCEPT !.size = @ + 1]
  BY <1>1, <1>2
<1>4. root_directory'[i] \in Entry
  BY <1>1, <1>3 DEF Entry
<1>5. \A k \in DirIndexes : k # i => root_directory'[k] = root_directory[k]
  BY <1>1, <1>2
<1>6. root_directory' \in [DirIndexes -> Entry]
  BY <1>1, <1>2, <1>4, <1>5
<1>7. /\ root_directory'[i].size = root_directory[i].size + 1
      /\ root_directory'[i].in_use = root_directory[i].in_use
      /\ root_directory'[i].starting_block = root_directory[i].starting_block
  BY <1>1, <1>3 DEF Entry
<1> QED BY <1>1, <1>5, <1>6, <1>7 DEF Files, i

LEMMA GrownTable ==
    ASSUME IInv, call.op = "write", root_directory' = Grown
    PROVE  LET i == H.directory_index  entry == root_directory[i] IN
           /\ root_directory' \in [DirIndexes -> Entry]
           /\ Files(root_directory') = Files(root_directory)
           /\ \A k \in DirIndexes : k # i => root_directory'[k] = root_directory[k]
           /\ root_directory'[i].size = entry.size + 1
           /\ \A k \in Files(root_directory) :
                 root_directory'[k].starting_block = root_directory[k].starting_block
BY Writing, GrownEntry DEF IInv, TypeOK

\* A step of a write() that takes no block: the file and its handle have both
\* moved by grown bytes, none or one.
LEMMA WritingIInv ==
    ASSUME IInv, call.op = "write", NEW grown \in {0, 1},
           UNCHANGED <<up, formatted_flag, FAT, disk_boot, disk_FAT, disk_root>>,
           disk_data' \in [DiskBlocks -> Contents],
           grown = 0 => UNCHANGED <<handle_table, root_directory>>,
           grown = 1 => /\ handle_table' = [handle_table EXCEPT ![call.handle].offset = @ + 1]
                        /\ root_directory' = Grown,
           call' \in Call,
           call' = Idle \/ (call'.op = "write" /\ call'.handle = call.handle)
    PROVE  IInv'
<1> DEFINE i == H.directory_index
<1>1. /\ handle_table' \in [Handles -> Handle]
      /\ \A g \in Handles : g # call.handle => handle_table'[g] = handle_table[g]
      /\ handle_table'[call.handle] = [H EXCEPT !.offset = @ + grown]
  <2>1. handle_table \in [Handles -> Handle]
    BY DEF IInv, TypeOK
  <2> QED BY <2>1, Writing DEF Handle
<1>2. /\ root_directory' \in [DirIndexes -> Entry]
      /\ Files(root_directory') = Files(root_directory)
      /\ \A k \in DirIndexes : k # i => root_directory'[k] = root_directory[k]
      /\ root_directory'[i].size = root_directory[i].size + grown
      /\ \A k \in Files(root_directory) :
            root_directory'[k].starting_block = root_directory[k].starting_block
  <2>1. CASE grown = 1
    BY <2>1, GrownTable
  <2>2. CASE grown = 0
    BY <2>2, Writing DEF IInv, TypeOK, Entry
  <2> QED BY <2>1, <2>2
<1>3. TypeOK'
  BY <1>1, <1>2 DEF IInv, TypeOK
<1>4. /\ handle_table'[call.handle].in_use
      /\ handle_table'[call.handle].mode = "WRITE"
      /\ handle_table'[call.handle].directory_index = i
      /\ handle_table'[call.handle].current_block = H.current_block
      /\ handle_table'[call.handle].offset = H.offset + grown
  BY <1>1, Writing DEF Handle
<1>5. CallOK'
  BY <1>4, Writing DEF CallOK, H, Idle
<1>6. HandlesOnFiles'
  BY <1>1, <1>2, <1>4, Writing DEF IInv, HandlesOnFiles
<1>7. OneWriter'
  <2>1. \A g \in Handles :
           /\ handle_table'[g].in_use = handle_table[g].in_use
           /\ handle_table'[g].mode = handle_table[g].mode
           /\ handle_table'[g].directory_index = handle_table[g].directory_index
    <3> SUFFICES ASSUME NEW g \in Handles
                 PROVE  /\ handle_table'[g].in_use = handle_table[g].in_use
                        /\ handle_table'[g].mode = handle_table[g].mode
                        /\ handle_table'[g].directory_index = handle_table[g].directory_index
      OBVIOUS
    <3>1. CASE g = call.handle
      <4>1. H = handle_table[g] /\ H.in_use /\ H.mode = "WRITE"
        BY <3>1, Writing
      <4> QED BY <1>4, <3>1, <4>1
    <3>2. CASE g # call.handle
      BY <1>1, <3>2
    <3> QED BY <3>1, <3>2
  <2> QED BY <2>1 DEF IInv, OneWriter
<1>8. WritersAtEnd'
  <2> SUFFICES ASSUME NEW g \in Handles, handle_table'[g].in_use,
                      handle_table'[g].mode = "WRITE"
               PROVE  LET hd == handle_table'[g]  k == hd.directory_index IN
                      /\ k \in Files(root_directory')
                      /\ hd.current_block \in Chain(FAT', root_directory'[k].starting_block)
                      /\ FAT'[hd.current_block] = EOF_FAT_ENTRY
                      /\ hd.offset = root_directory'[k].size
    BY DEF WritersAtEnd
  <2>1. CASE g = call.handle
    BY <2>1, <1>2, <1>4, Writing
  <2>2. CASE g # call.handle
    <3>1. handle_table'[g] = handle_table[g] /\ handle_table[g].directory_index # i
      BY <2>2, <1>1, Writing
    <3> QED BY <1>2, <3>1 DEF IInv, WritersAtEnd, Files
  <2> QED BY <2>1, <2>2
<1>9. FATConsistent' /\ FlagsOK' /\ DiskConsistent'
  <2>1. Consistent(FAT, root_directory')
    BY <1>2, Writing, SameFiles
  <2> QED BY <1>2, <2>1, Writing DEF IInv, FATConsistent, FlagsOK, DiskConsistent
<1> QED BY <1>3, <1>5, <1>6, <1>7, <1>8, <1>9 DEF IInv

LEMMA BufferType ==
    ASSUME IInv, call.op = "write", NEW byte \in Byte
    PROVE  /\ Filled(byte) \in Contents
           /\ Append(call.buffer, byte) \in Seq(Byte)
BY Writing DEF Filled, Contents, Call

LEMMA PutByteIInv == \A byte \in Byte : IInv /\ PutByte(byte) => IInv'
<1> SUFFICES ASSUME IInv, NEW byte \in Byte, PutByte(byte)  PROVE IInv'
  OBVIOUS
<1>1. call \in Call /\ call.op = "write"
  BY DEF PutByte, IInv, TypeOK
<1>2. call.block_offset + 1 \in 0 .. BLOCK_SIZE - 1
  BY <1>1, SizeAssumption DEF PutByte, LastOfBlock, Call
<1>3. call' \in Call /\ call'.op = "write" /\ call'.handle = call.handle
  BY <1>1, <1>2, BufferType DEF PutByte, Call
<1>4. disk_data' \in [DiskBlocks -> Contents]
  BY DEF PutByte, disk, IInv, TypeOK
<1> QED BY <1>1, <1>3, <1>4, WritingIInv DEF PutByte, disk

LEMMA NoFreeBlockIInv == \A byte \in Byte : IInv /\ NoFreeBlock(byte) => IInv'
<1> SUFFICES ASSUME IInv, NEW byte \in Byte, NoFreeBlock(byte)  PROVE IInv'
  OBVIOUS
<1>1. call.op = "write" /\ call' = Idle
  BY DEF NoFreeBlock
<1>2. disk_data' \in [DiskBlocks -> Contents]
  BY <1>1, BufferType DEF NoFreeBlock, IInv, TypeOK
<1> QED BY <1>1, <1>2, ConstantTypes, WritingIInv DEF NoFreeBlock

LEMMA WriteThrowsIInv == IInv /\ WriteThrows => IInv'
<1> SUFFICES ASSUME IInv, WriteThrows  PROVE IInv'
  OBVIOUS
<1>1. call.op = "write" /\ call' = Idle /\ disk_data' \in [DiskBlocks -> Contents]
  BY DEF WriteThrows, disk, IInv, TypeOK
<1>2. CASE UNCHANGED <<handle_table, root_directory>>
  BY <1>1, <1>2, ConstantTypes, WritingIInv DEF WriteThrows, disk
<1>3. CASE /\ handle_table' = [handle_table EXCEPT ![call.handle].offset = @ + 1]
           /\ root_directory' = Grown
  BY <1>1, <1>3, ConstantTypes, WritingIInv DEF WriteThrows, disk
<1> QED BY <1>2, <1>3 DEF WriteThrows

LEMMA WriteEndIInv == IInv /\ WriteEnd => IInv'
<1> SUFFICES ASSUME IInv, WriteEnd  PROVE IInv'
  OBVIOUS
<1>1. call.op = "write" /\ call' = Idle
  BY DEF WriteEnd
<1>2. call.block_buffer \in Contents
  BY DEF IInv, TypeOK, Call
<1>3. disk_data' \in [DiskBlocks -> Contents]
  BY <1>2 DEF WriteEnd, IInv, TypeOK
<1> QED BY <1>1, <1>3, ConstantTypes, WritingIInv DEF WriteEnd

\* The step the invariant is about: a full block, and a free one chained on.
LEMMA PutLastByteIInv == \A byte \in Byte : IInv /\ PutLastByte(byte) => IInv'
<1> SUFFICES ASSUME IInv, NEW byte \in Byte, PutLastByte(byte)  PROVE IInv'
  OBVIOUS
<1> DEFINE i == H.directory_index
           cur == H.current_block
<1>1. call.op = "write" /\ call \in Call
  BY DEF PutLastByte, IInv, TypeOK
<1>2. PICK j \in Blocks :
         /\ FirstFreeBlock(FAT, j)
         /\ FAT' = [FAT EXCEPT ![cur] = j, ![j] = EOF_FAT_ENTRY]
         /\ handle_table' = [handle_table EXCEPT ![call.handle].offset = @ + 1,
                                                 ![call.handle].current_block = j]
  BY DEF PutLastByte
<1>3. FAT[j] = FREE_FAT_ENTRY /\ FAT \in [Blocks -> Blocks] /\ cur \in Blocks
  BY <1>1, <1>2, Writing, SpecialValues DEF FirstFreeBlock, IInv, TypeOK
<1>4. /\ FAT' \in [Blocks -> Blocks]
      /\ \A b \in Blocks :
            FAT'[b] = IF b = j THEN EOF_FAT_ENTRY ELSE IF b = cur THEN j ELSE FAT[b]
  BY <1>2, <1>3, SpecialValues
<1>5. /\ Consistent(FAT', root_directory)
      /\ j \in Chain(FAT', root_directory[i].starting_block)
      /\ FAT'[j] = EOF_FAT_ENTRY
      /\ \A k \in Files(root_directory) : k # i =>
            /\ Chain(FAT', root_directory[k].starting_block)
                  = Chain(FAT, root_directory[k].starting_block)
            /\ \A b \in Chain(FAT, root_directory[k].starting_block) : FAT'[b] = FAT[b]
  <2>1. /\ i \in Files(root_directory)
        /\ cur \in Chain(FAT, root_directory[i].starting_block)
        /\ FAT[cur] = EOF_FAT_ENTRY
        /\ Consistent(FAT, root_directory)
    BY <1>1, Writing
  <2> HIDE DEF i, cur
  <2> QED BY <1>3, <1>4, <2>1, ExtendConsistent
<1>6. /\ root_directory' \in [DirIndexes -> Entry]
      /\ Files(root_directory') = Files(root_directory)
      /\ \A k \in DirIndexes : k # i => root_directory'[k] = root_directory[k]
      /\ root_directory'[i].size = root_directory[i].size + 1
      /\ \A k \in Files(root_directory) :
            root_directory'[k].starting_block = root_directory[k].starting_block
  BY <1>1, GrownTable DEF PutLastByte
<1>7. /\ handle_table' \in [Handles -> Handle]
      /\ \A g \in Handles : g # call.handle => handle_table'[g] = handle_table[g]
      /\ handle_table'[call.handle] = [H EXCEPT !.offset = @ + 1, !.current_block = j]
  <2>1. handle_table \in [Handles -> Handle]
    BY DEF IInv, TypeOK
  <2>2. call.handle \in Handles /\ H = handle_table[call.handle] /\ H \in Handle
    BY <1>1, Writing
  <2>3. handle_table'[call.handle] = [H EXCEPT !.offset = @ + 1, !.current_block = j]
    BY <1>2, <2>1, <2>2
  <2>4. \A g \in Handles : g # call.handle => handle_table'[g] = handle_table[g]
    BY <1>2, <2>1
  <2>5. [H EXCEPT !.offset = @ + 1, !.current_block = j] \in Handle
    <3>1. H.offset + 1 \in Nat
      BY <2>2 DEF Handle
    <3> HIDE DEF H
    <3> QED BY <2>2, <3>1 DEF Handle
  <2> QED BY <1>2, <2>1, <2>3, <2>4, <2>5
<1>8. /\ handle_table'[call.handle].in_use
      /\ handle_table'[call.handle].mode = "WRITE"
      /\ handle_table'[call.handle].directory_index = i
      /\ handle_table'[call.handle].current_block = j
      /\ handle_table'[call.handle].offset = H.offset + 1
  BY <1>1, <1>7, Writing DEF Handle
<1>9. call' \in Call /\ call'.op = "write" /\ call'.handle = call.handle
  <2>1. 0 \in 0 .. BLOCK_SIZE - 1
    BY SizeAssumption
  <2>2. Filled(byte) \in Contents /\ Append(call.buffer, byte) \in Seq(Byte)
    BY <1>1, BufferType
  <2> QED BY <1>1, <2>1, <2>2 DEF PutLastByte, Call
<1>10. TypeOK'
  <2>1. disk_data' \in [DiskBlocks -> Contents]
    BY <1>1, BufferType DEF PutLastByte, IInv, TypeOK
  <2> QED BY <1>4, <1>6, <1>7, <1>9, <2>1 DEF PutLastByte, IInv, TypeOK
<1>11. CallOK'
  BY <1>1, <1>8, <1>9, Writing DEF CallOK, H, PutLastByte
<1>12. HandlesOnFiles'
  BY <1>1, <1>6, <1>7, <1>8, Writing DEF IInv, HandlesOnFiles
<1>13. OneWriter'
  <2>1. \A g \in Handles :
           /\ handle_table'[g].in_use = handle_table[g].in_use
           /\ handle_table'[g].mode = handle_table[g].mode
           /\ handle_table'[g].directory_index = handle_table[g].directory_index
    <3> SUFFICES ASSUME NEW g \in Handles
                 PROVE  /\ handle_table'[g].in_use = handle_table[g].in_use
                        /\ handle_table'[g].mode = handle_table[g].mode
                        /\ handle_table'[g].directory_index = handle_table[g].directory_index
      OBVIOUS
    <3>1. CASE g = call.handle
      <4>1. H = handle_table[g] /\ H.in_use /\ H.mode = "WRITE"
        BY <1>1, <3>1, Writing
      <4> QED BY <1>8, <3>1, <4>1
    <3>2. CASE g # call.handle
      BY <1>7, <3>2
    <3> QED BY <3>1, <3>2
  <2> QED BY <2>1 DEF IInv, OneWriter
<1>14. WritersAtEnd'
  <2> SUFFICES ASSUME NEW g \in Handles, handle_table'[g].in_use,
                      handle_table'[g].mode = "WRITE"
               PROVE  LET hd == handle_table'[g]  k == hd.directory_index IN
                      /\ k \in Files(root_directory')
                      /\ hd.current_block \in Chain(FAT', root_directory'[k].starting_block)
                      /\ FAT'[hd.current_block] = EOF_FAT_ENTRY
                      /\ hd.offset = root_directory'[k].size
    BY DEF WritersAtEnd
  <2>1. CASE g = call.handle
    BY <1>1, <1>5, <1>6, <1>8, <2>1, Writing
  <2>2. CASE g # call.handle
    <3>1. /\ handle_table'[g] = handle_table[g]
          /\ handle_table[g].directory_index # i
          /\ handle_table[g].directory_index \in Files(root_directory)
      BY <1>1, <1>7, <2>2, Writing DEF IInv, WritersAtEnd
    <3> QED BY <1>5, <1>6, <3>1 DEF IInv, WritersAtEnd, Files
  <2> QED BY <2>1, <2>2
<1>15. FATConsistent' /\ FlagsOK' /\ DiskConsistent'
  <2>1. Consistent(FAT', root_directory')
    BY <1>5, <1>6, SameFiles
  <2> QED BY <1>1, <1>6, <2>1, Writing
          DEF IInv, FATConsistent, FlagsOK, DiskConsistent, PutLastByte
<1> QED BY <1>10, <1>11, <1>12, <1>13, <1>14, <1>15 DEF IInv
-----------------------------------------------------------------------------
(***************************************************************************)
(* The theorems.                                                           *)
(***************************************************************************)
LEMMA NotOpenNoWriter == \A n : NotOpen(n) => NoWriter(n)
BY DEF NotOpen, NoWriter

LEMMA NextIInv == IInv /\ [Next]_vars => IInv'
<1> SUFFICES ASSUME IInv, [Next]_vars  PROVE IInv'
  OBVIOUS
<1>1. CASE Loop
  BY <1>1, ReadByteIInv, ReadLastByteIInv, ReadEndIInv, ReadThrowsIInv, PutByteIInv,
     PutLastByteIInv, NoFreeBlockIInv, WriteEndIInv, WriteThrowsIInv, FlushRootIInv DEF Loop
<1>2. CASE Request
  BY <1>2, ConstructIInv, DestroyUnformattedIInv, FlushFATIInv, FormatIInv, OpenReadIInv,
     CreateIInv, NotOpenNoWriter, TruncateIInv, RemoveIInv, CloseIInv, ReadStartIInv,
     WriteStartIInv, DataAssumption DEF Request
<1>3. CASE \E n \in Name : NoWriter(n) /\ OpenWrite(n)
  BY <1>3, OpenWriteIInv
<1>4. CASE UNCHANGED vars
  <2>1. H' = H
    BY <1>4 DEF vars, memory, H
  <2> QED BY <1>4, <2>1 DEF vars, memory, disk, IInv, TypeOK, FlagsOK, CallOK,
             HandlesOnFiles, OneWriter, WritersAtEnd, FATConsistent, DiskConsistent
<1> QED BY <1>1, <1>2, <1>3, <1>4 DEF Next

\* Every reachable state satisfies the inductive invariant, for any numbers of
\* blocks, entries and handles, any block size, and a device of any size.
THEOREM Invariance == Spec => []IInv
<1>1. Init => IInv
  BY InitIInv
<1>2. IInv /\ [Next]_vars => IInv'
  BY NextIInv
<1> QED BY <1>1, <1>2, PTL DEF Spec

\* The variables keep their types.
THEOREM TypeCorrect == Spec => []TypeOK
<1>1. IInv => TypeOK
  BY DEF IInv
<1> QED BY <1>1, Invariance, PTL

\* The FAT and the directory in memory are consistent at every step, between two
\* bytes of a write() too: no cross-linked, unended or lost chain.
THEOREM FATStaysConsistent == Spec => []FATConsistent
<1>1. IInv => FATConsistent
  BY DEF IInv
<1> QED BY <1>1, Invariance, PTL

\* What a destructor leaves on the disk is consistent.
THEOREM DiskLeftConsistent == Spec => []DiskConsistent
<1>1. IInv => DiskConsistent
  BY DEF IInv
<1> QED BY <1>1, Invariance, PTL

\* A handle open for writing is always on the EOF block of its file, at its size.
THEOREM WritersStayAtEnd == Spec => []WritersAtEnd
<1>1. IInv => WritersAtEnd
  BY DEF IInv
<1> QED BY <1>1, Invariance, PTL
=============================================================================
