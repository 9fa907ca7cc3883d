---------------------------- MODULE Driver_proofs ----------------------------
(***************************************************************************)
(* Proofs about the disk tool and the driver.  DiskTool: arithmetic of the *)
(* layout, the inductive invariant with one lemma for each write, the      *)
(* theorems.  Driver: what a mount holds, what is mounted, what a listing  *)
(* shows and what statfs counts, behind every history of the tool.         *)
(***************************************************************************)
EXTENDS Driver, FiniteSetTheorems, SequenceTheorems, TLAPS

-----------------------------------------------------------------------------
(***************************************************************************)
(* The layout.                                                             *)
(***************************************************************************)
LEMMA Division ==
    ASSUME NEW x \in Nat, NEW b \in Nat \ {0}
    PROVE  /\ x \div b \in Nat
           /\ x = b * (x \div b) + (x % b)
           /\ x % b \in 0 .. b - 1
OBVIOUS

\* compute_sizes() rounds up: so many blocks of b entries hold a of them.
LEMMA DivUpCovers ==
    ASSUME NEW a \in Nat, NEW b \in Nat \ {0}
    PROVE  DivUp(a, b) \in Nat /\ DivUp(a, b) * b >= a
<1> DEFINE x == a + b - 1
<1>1. x \in Nat
  OBVIOUS
<1>2. x \div b \in Nat /\ x = b * (x \div b) + (x % b) /\ x % b \in 0 .. b - 1
  BY <1>1, Division
<1> QED BY <1>2 DEF DivUp

\* Every block and inode of the partition has its bit and its place in the table,
\* and what is preallocated lies inside the partition.
LEMMA Layout ==
    /\ PartitionBlocks \subseteq MapBits
    /\ PartitionBlocks \subseteq Slots
    /\ MapBits \subseteq Nat /\ Slots \subseteq Nat
    /\ RootBlock \in Nat \ {0}
    /\ RootBlock \in Preallocated
    /\ Preallocated = Metadata \cup {RootBlock}
    /\ RootBlock \notin Metadata
    /\ Preallocated \subseteq PartitionBlocks
    /\ 0 \in PartitionBlocks
    /\ 0 \in Metadata
    /\ PartitionBlocks \subseteq Nat
    /\ UNUSED_SPACE \notin MapBits
    /\ 0 \in MapBits
    /\ Metadata \subseteq PartitionBlocks
<1> DEFINE f == freemap_blocksize
           t == inodetable_blocksize
<1>1. f \in Nat /\ f * MAP_BITS >= block_count
  BY DivUpCovers, LayoutAssumption DEF freemap_blocksize
<1>2. t \in Nat /\ t * INODES_PER_BLOCK >= block_count
  BY DivUpCovers, LayoutAssumption DEF inodetable_blocksize
<1>3. /\ PartitionBlocks \subseteq MapBits /\ MapBits \subseteq Nat
  <2> DEFINE p == f * MAP_BITS
  <2>1. p \in Nat /\ p >= block_count
    BY <1>1, LayoutAssumption
  <2>2. MapBits = 0 .. p - 1
    BY DEF MapBits
  <2> HIDE DEF p
  <2> QED BY <2>1, <2>2, LayoutAssumption DEF PartitionBlocks
<1>4. /\ PartitionBlocks \subseteq Slots /\ Slots \subseteq Nat
  <2> DEFINE p == t * INODES_PER_BLOCK
  <2>1. p \in Nat /\ p >= block_count
    BY <1>2, LayoutAssumption
  <2>2. Slots = 0 .. p - 1
    BY DEF Slots
  <2> HIDE DEF p
  <2> QED BY <2>1, <2>2, LayoutAssumption DEF PartitionBlocks
<1>5. RootBlock \in Nat \ {0}
  BY <1>1, <1>2 DEF RootBlock
<1> HIDE DEF f, t
<1> QED BY <1>3, <1>4, <1>5, LayoutAssumption, ToolAssumption
        DEF Preallocated, Metadata, PartitionBlocks, total_preallocated

-----------------------------------------------------------------------------
(***************************************************************************)
(* One lemma for each write.                                               *)
(***************************************************************************)
\* As long as block 0 is not written nobody relies on the rest.
LEMMA WithoutSuper ==
    ASSUME ~ super'
    PROVE  /\ SuperComesLast' /\ EntriesOwnInodes'
           /\ (super => InodesOK /\ EntriesFit)'
           /\ (super /\ kills = 0 => TidyOK)'
BY DEF SuperComesLast, EntriesOwnInodes

LEMMA KillCounts ==
    /\ 0 \in 0 .. MaxKills
    /\ \A k \in 0 .. MaxKills : k < MaxKills => k + 1 \in 0 .. MaxKills /\ k + 1 # 0
BY ToolAssumption

\* The root directory as initialize() writes it, and with an entry more.
LEMMA FirstEntries ==
    /\ <<0, 0>> \in Seq(PartitionBlocks)
    /\ Len(<<0, 0>>) = 2 /\ Len(<<0, 0>>) >= 2
    /\ <<0, 0>>[1] = 0 /\ <<0, 0>>[2] = 0
    /\ \A i \in 1 .. Len(<<0, 0>>) : <<0, 0>>[i] = 0
    /\ 3 .. Len(<<0, 0>>) = {}
<1>1. 0 \in PartitionBlocks
  BY Layout
<1> QED BY <1>1

LEMMA FirstEnds ==
    /\ FirstEntryEnds \in Seq(Nat) /\ Len(FirstEntryEnds) = 2
    /\ FirstEntryEnds[1] = 10 /\ FirstEntryEnds[2] = 21
    /\ direntry_bytes = 9 /\ DIR_BYTES >= 21 /\ DIR_BYTES \in Nat
    /\ \A i \in 1 .. Len(FirstEntryEnds) : i = 1 \/ i = 2
BY ToolAssumption DEF FirstEntryEnds, direntry_bytes

\* Ends of entries that have a header and a character each, inside the block.
EndsFit(s) == \A i \in 1 .. Len(s) :
                 (IF i = 1 THEN 0 ELSE s[i - 1]) + direntry_bytes < s[i] /\ s[i] <= DIR_BYTES

LEMMA FirstEndsFit == EndsFit(FirstEntryEnds)
<1> SUFFICES ASSUME NEW i \in 1 .. Len(FirstEntryEnds)
             PROVE  /\ (IF i = 1 THEN 0 ELSE FirstEntryEnds[i - 1]) + direntry_bytes
                           < FirstEntryEnds[i]
                    /\ FirstEntryEnds[i] <= DIR_BYTES
  BY DEF EndsFit
<1>1. CASE i = 1
  BY <1>1, FirstEnds
<1>2. CASE i = 2
  <2>1. i - 1 = 1 /\ i # 1
    BY <1>2
  <2> QED BY <1>2, <2>1, FirstEnds
<1> QED BY <1>1, <1>2, FirstEnds

LEMMA Behind ==
    ASSUME NEW e \in Nat, NEW length \in 1 .. 127
    PROVE  e + 9 + length \in Nat /\ e + 9 < e + 9 + length
OBVIOUS

LEMMA OneMoreEnd ==
    ASSUME NEW s \in Seq(Nat), NEW length \in 1 .. 127, Len(s) >= 2, EndsFit(s),
           s[Len(s)] + direntry_bytes + length <= DIR_BYTES,
           NEW t, t = Append(s, s[Len(s)] + direntry_bytes + length)
    PROVE  t \in Seq(Nat) /\ Len(t) = Len(s) + 1 /\ EndsFit(t)
<1> DEFINE d == Len(s)
           last == s[d] + direntry_bytes + length
<1>1. d \in Nat /\ d >= 2 /\ s[d] \in Nat
  OBVIOUS
<1>2. last \in Nat /\ s[d] + direntry_bytes < last /\ last <= DIR_BYTES
  <2>1. last <= DIR_BYTES
    OBVIOUS
  <2>2. s[d] + 9 + length \in Nat /\ s[d] + 9 < s[d] + 9 + length
    BY Zenon, <1>1, Behind
  <2>3. direntry_bytes = 9
    BY DEF direntry_bytes
  <2> QED BY <2>1, <2>2, <2>3
<1>3. t = Append(s, last)
  OBVIOUS
<1> HIDE DEF last
<1>4. /\ t \in Seq(Nat) /\ Len(t) = d + 1 /\ t[d + 1] = last
      /\ \A i \in 1 .. d : t[i] = s[i]
  BY <1>2, <1>3
<1> HIDE DEF d
<1>5. ASSUME NEW i \in 1 .. d + 1
      PROVE  (IF i = 1 THEN 0 ELSE t[i - 1]) + direntry_bytes < t[i] /\ t[i] <= DIR_BYTES
  <2>1. CASE i = d + 1
    <3>1. d \in 1 .. d /\ d + 1 - 1 = d /\ d + 1 # 1
      BY <1>1
    <3>2. t[i - 1] = s[d] /\ t[i] = last /\ i # 1
      BY <1>4, <2>1, <3>1
    <3> QED BY <1>2, <3>2
  <2>2. CASE i \in 1 .. d
    <3>1. i # 1 => i - 1 \in 1 .. d
      BY <1>1, <2>2
    <3>2. t[i] = s[i] /\ (i # 1 => t[i - 1] = s[i - 1])
      BY <1>4, <2>2, <3>1
    <3>3. (IF i = 1 THEN 0 ELSE s[i - 1]) + direntry_bytes < s[i] /\ s[i] <= DIR_BYTES
      BY <2>2 DEF d, EndsFit
    <3> QED BY <3>2, <3>3
  <2>3. i = d + 1 \/ i \in 1 .. d
    BY <1>1
  <2> QED BY <2>1, <2>2, <2>3
<1> QED BY <1>4, <1>5 DEF d, EndsFit

LEMMA EntriesFitAlike ==
    EntriesFit <=> Len(entry_end) = Len(root_dir) /\ EndsFit(entry_end)
BY DEF EntriesFit, EntryAt, EndsFit

LEMMA OneLonger ==
    ASSUME NEW S, NEW s \in Seq(S), NEW n \in S
    PROVE  Len(Append(s, n)) = Len(s) + 1
OBVIOUS

LEMMA OneMoreEntry ==
    ASSUME NEW s \in Seq(PartitionBlocks), NEW n \in PartitionBlocks, NEW map,
           \A i \in 1 .. Len(s) :
              /\ s[i] \in map /\ s[i] # n
              /\ \A k \in 3 .. Len(s) : i # k => s[i] # s[k],
           n \in map
    PROVE  /\ Append(s, n) \in Seq(PartitionBlocks)
           /\ \A i \in 1 .. Len(Append(s, n)) :
                 /\ Append(s, n)[i] \in map
                 /\ \A k \in 3 .. Len(Append(s, n)) :
                       i # k => Append(s, n)[i] # Append(s, n)[k]
<1> DEFINE t == Append(s, n)
           d == Len(s)
<1>1. /\ t \in Seq(PartitionBlocks)
      /\ d \in Nat /\ Len(t) = d + 1 /\ t[d + 1] = n
      /\ \A i \in 1 .. d : t[i] = s[i]
  OBVIOUS
<1> HIDE DEF t
<1>2. ASSUME NEW i \in 1 .. d + 1
      PROVE  t[i] \in map
  BY <1>1
<1>3. ASSUME NEW i \in 1 .. d + 1, NEW k \in 3 .. d + 1, i # k
      PROVE  t[i] # t[k]
  BY <1>1, <1>3
<1>4. /\ t \in Seq(PartitionBlocks)
      /\ \A i \in 1 .. Len(t) :
            /\ t[i] \in map
            /\ \A k \in 3 .. Len(t) : i # k => t[i] # t[k]
  BY <1>1, <1>2, <1>3
<1> QED BY <1>4 DEF t

LEMMA FirstTwoStay ==
    ASSUME NEW s \in Seq(PartitionBlocks), NEW n, Len(s) >= 2
    PROVE  /\ Len(Append(s, n)) >= 2
           /\ Append(s, n)[1] = s[1] /\ Append(s, n)[2] = s[2]
OBVIOUS

LEMMA Keeps_Start ==
    ASSUME ToolInv, Start
    PROVE  ToolInv'
<1> USE DEF Start, ToolInv, toolVars, partition, directory, request, locals, At, Goto
<1>1. ToolTypeOK'
  BY Layout, ToolAssumption DEF ToolTypeOK
<1>2. StageOK'
  BY DEF StageOK, Creating
<1>3. RoomOK'
  BY DEF RoomOK
<1>4. CurrentOK'
  BY DEF CurrentOK
<1>5. SuperComesLast'
  BY DEF SuperComesLast
<1>6. EntriesOwnInodes'
  BY DEF EntriesOwnInodes
<1>7. (super => InodesOK /\ EntriesFit)'
  BY DEF InodesOK, EntriesFit, EntryAt
<1>8. (super /\ kills = 0 => TidyOK)'
  BY DEF TidyOK
<1> QED BY <1>1, <1>2, <1>3, <1>4, <1>5, <1>6, <1>7, <1>8

LEMMA Keeps_Quit ==
    ASSUME ToolInv, Quit
    PROVE  ToolInv'
<1> USE DEF Quit, ToolInv, toolVars, partition, directory, request, locals, At, Goto
<1>1. ToolTypeOK'
  BY Layout, ToolAssumption DEF ToolTypeOK
<1>2. StageOK'
  BY DEF StageOK, Creating
<1>3. RoomOK'
  BY DEF RoomOK
<1>4. CurrentOK'
  BY DEF CurrentOK
<1>5. SuperComesLast'
  BY DEF SuperComesLast
<1>6. EntriesOwnInodes'
  BY DEF EntriesOwnInodes
<1>7. (super => InodesOK /\ EntriesFit)'
  BY DEF InodesOK, EntriesFit, EntryAt
<1>8. (super /\ kills = 0 => TidyOK)'
  BY DEF TidyOK
<1> QED BY <1>1, <1>2, <1>3, <1>4, <1>5, <1>6, <1>7, <1>8

LEMMA Keeps_Kill ==
    ASSUME ToolInv, Kill
    PROVE  ToolInv'
<1> USE DEF Kill, ToolInv, toolVars, partition, directory, request, locals, At, Goto
<1>1. ToolTypeOK'
  <2>1. kills \in 0 .. MaxKills /\ kills < MaxKills /\ kills' = kills + 1
    BY DEF ToolTypeOK
  <2>2. kills' \in 0 .. MaxKills
    BY <2>1, KillCounts
  <2> QED BY <2>2, Layout DEF ToolTypeOK
<1>2. StageOK'
  BY DEF StageOK, Creating
<1>3. RoomOK'
  BY DEF RoomOK
<1>4. CurrentOK'
  BY DEF CurrentOK
<1>5. SuperComesLast'
  BY DEF SuperComesLast
<1>6. EntriesOwnInodes'
  BY DEF EntriesOwnInodes
<1>7. (super => InodesOK /\ EntriesFit)'
  BY DEF InodesOK, EntriesFit, EntryAt
<1>8. (super /\ kills = 0 => TidyOK)'
  <2>1. kills \in 0 .. MaxKills /\ kills < MaxKills /\ kills' = kills + 1
    BY DEF ToolTypeOK
  <2> QED BY <2>1, KillCounts
<1> QED BY <1>1, <1>2, <1>3, <1>4, <1>5, <1>6, <1>7, <1>8

LEMMA Keeps_clear_super ==
    ASSUME ToolInv, clear_super
    PROVE  ToolInv'
<1> USE DEF clear_super, ToolInv, toolVars, partition, directory, request, locals, At, Goto
<1>1. ToolTypeOK'
  BY Layout, ToolAssumption DEF ToolTypeOK
<1>2. StageOK'
  BY DEF StageOK, Creating
<1>3. RoomOK'
  BY DEF RoomOK
<1>4. CurrentOK'
  BY DEF CurrentOK
<1>5. ~ super'
  BY DEF StageOK
<1> QED BY <1>1, <1>2, <1>3, <1>4, <1>5, WithoutSuper

LEMMA Keeps_clear_rest ==
    ASSUME ToolInv, clear_rest
    PROVE  ToolInv'
<1> USE DEF clear_rest, ToolInv, toolVars, partition, directory, request, locals, At, Goto
<1>1. ToolTypeOK'
  <2>1. inodetable' \in [Slots -> MapBits \cup {UNUSED_SPACE}]
    BY DEF BlankTable
  <2>2. ClearedMap \subseteq MapBits
    BY DEF ClearedMap
  <2>3. root_dir' \in Seq(PartitionBlocks) /\ entry_end' \in Seq(Nat)
    BY EmptySeq
  <2> QED BY <2>1, <2>2, <2>3 DEF ToolTypeOK
<1>2. StageOK'
  BY DEF StageOK, Creating
<1>3. RoomOK'
  BY DEF RoomOK
<1>4. CurrentOK'
  BY DEF CurrentOK
<1>5. ~ super'
  BY DEF StageOK
<1> QED BY <1>1, <1>2, <1>3, <1>4, <1>5, WithoutSuper

LEMMA Keeps_write_inode_freemap ==
    ASSUME ToolInv, write_inode_freemap
    PROVE  ToolInv'
<1> USE DEF write_inode_freemap, ToolInv, toolVars, partition, directory, request, locals, At, Goto
<1>1. ToolTypeOK'
  BY Layout, ToolAssumption DEF ToolTypeOK
<1>2. StageOK'
  BY DEF StageOK, Creating
<1>3. RoomOK'
  BY DEF RoomOK
<1>4. CurrentOK'
  BY DEF CurrentOK
<1>5. ~ super'
  BY DEF StageOK
<1> QED BY <1>1, <1>2, <1>3, <1>4, <1>5, WithoutSuper

LEMMA Keeps_write_block_freemap ==
    ASSUME ToolInv, write_block_freemap
    PROVE  ToolInv'
<1> USE DEF write_block_freemap, ToolInv, toolVars, partition, directory, request, locals, At, Goto
<1>1. ToolTypeOK'
  BY Layout, ToolAssumption DEF ToolTypeOK
<1>2. StageOK'
  BY DEF StageOK, Creating
<1>3. RoomOK'
  BY DEF RoomOK
<1>4. CurrentOK'
  BY DEF CurrentOK
<1>5. ~ super'
  BY DEF StageOK
<1> QED BY <1>1, <1>2, <1>3, <1>4, <1>5, WithoutSuper

LEMMA Keeps_write_root_inode ==
    ASSUME ToolInv, write_root_inode
    PROVE  ToolInv'
<1> USE DEF write_root_inode, ToolInv, toolVars, partition, directory, request, locals, At, Goto
<1>1. ToolTypeOK'
  BY Layout, ToolAssumption DEF ToolTypeOK
<1>2. StageOK'
  BY DEF StageOK, Creating
<1>3. RoomOK'
  BY DEF RoomOK
<1>4. CurrentOK'
  BY DEF CurrentOK
<1>5. ~ super'
  BY DEF StageOK
<1> QED BY <1>1, <1>2, <1>3, <1>4, <1>5, WithoutSuper

LEMMA Keeps_write_root_dir ==
    ASSUME ToolInv, write_root_dir
    PROVE  ToolInv'
<1> USE DEF write_root_dir, ToolInv, toolVars, partition, directory, request, locals, At, Goto
<1>1. ToolTypeOK'
  <2>1. root_dir' \in Seq(PartitionBlocks) /\ entry_end' \in Seq(Nat)
    BY FirstEntries, FirstEnds
  <2> QED BY <2>1 DEF ToolTypeOK
<1>2. StageOK'
  BY DEF StageOK, Creating
<1>3. RoomOK'
  BY DEF RoomOK
<1>4. CurrentOK'
  BY DEF CurrentOK
<1>5. ~ super'
  BY DEF StageOK
<1> QED BY <1>1, <1>2, <1>3, <1>4, <1>5, WithoutSuper

LEMMA Keeps_write_super ==
    ASSUME ToolInv, write_super
    PROVE  ToolInv'
<1> USE DEF write_super, ToolInv, toolVars, partition, directory, request, locals, At, Goto
<1>1. ToolTypeOK'
  <2>1. 0 \in 0 .. MaxKills
    BY KillCounts
  <2> QED BY <2>1 DEF ToolTypeOK
<1>2. StageOK'
  BY DEF StageOK, Creating
<1>3. RoomOK'
  BY DEF RoomOK
<1>4. CurrentOK'
  BY DEF CurrentOK
<1>5. SuperComesLast'
  <2>1. inodetable'[0] = RootBlock /\ inode_freemap' = {0} /\ block_freemap' = Preallocated
    BY Layout DEF StageOK, BlankTable
  <2>2. root_dir' = <<0, 0>>
    BY DEF StageOK
  <2> QED BY <2>1, <2>2, FirstEntries DEF SuperComesLast
<1>6. EntriesOwnInodes'
  <2>1. root_dir' = <<0, 0>> /\ inode_freemap' = {0}
    BY DEF StageOK
  <2> QED BY <2>1, FirstEntries DEF EntriesOwnInodes
<1>7. (super => InodesOK /\ EntriesFit)'
  <2>1. InodesOK'
    BY Layout DEF InodesOK, StageOK, BlankTable
  <2>2. root_dir' = <<0, 0>> /\ entry_end' = FirstEntryEnds
    BY DEF StageOK
  <2>3. EntriesFit'
    <3>1. EntriesFit' <=> Len(entry_end') = Len(root_dir') /\ EndsFit(entry_end')
      BY DEF EntriesFit, EntryAt, EndsFit
    <3> QED BY <2>2, <3>1, FirstEntries, FirstEnds, FirstEndsFit
  <2> QED BY <2>1, <2>3
<1>8. (super /\ kills = 0 => TidyOK)'
  <2>1. inodetable'[0] = RootBlock /\ inode_freemap' = {0} /\ block_freemap' = Preallocated
    BY Layout DEF StageOK, BlankTable
  <2>2. RootBlock # UNUSED_SPACE
    BY Layout
  <2> QED BY <2>1, <2>2 DEF TidyOK
<1> QED BY <1>1, <1>2, <1>3, <1>4, <1>5, <1>6, <1>7, <1>8

\* HasRoom is what create_file() leaves to the user.
LEMMA Keeps_create_file ==
    ASSUME ToolInv, NEW size \in {0, 1}, NEW length \in NameLengths,
           HasRoom(size, length), create_file(size, length)
    PROVE  ToolInv'
<1> USE DEF create_file, ToolInv, toolVars, partition, directory, request, locals, At, Goto
<1>1. ToolTypeOK'
  BY Layout DEF ToolTypeOK
<1>2. StageOK'
  BY DEF StageOK, Creating, HasRoom
<1>3. RoomOK'
  BY DEF RoomOK, HasRoom
<1>4. CurrentOK'
  BY DEF CurrentOK
<1>5. SuperComesLast'
  BY DEF SuperComesLast
<1>6. EntriesOwnInodes'
  BY DEF EntriesOwnInodes
<1>7. (super => InodesOK /\ EntriesFit)'
  BY DEF InodesOK, EntriesFit, EntryAt
<1>8. (super /\ kills = 0 => TidyOK)'
  BY DEF TidyOK
<1> QED BY <1>1, <1>2, <1>3, <1>4, <1>5, <1>6, <1>7, <1>8

\* scan_freemap() stops before the end of the partition if there is room in it.
LEMMA FoundInPartition ==
    ASSUME NEW map, ~ (PartitionBlocks \subseteq map), NEW n \in MapBits, Found(map, n)
    PROVE  n \in PartitionBlocks \ map
<1>1. PICK m \in PartitionBlocks : m \notin map
  OBVIOUS
<1>2. ~ (m < n)
  BY <1>1, Layout DEF Found
<1> QED BY <1>1, <1>2, Layout, LayoutAssumption DEF Found, PartitionBlocks

\* And what is marked afterwards begins with the bits up to the one it has found.
LEMMA FoundBehind ==
    ASSUME NEW map, NEW n \in Nat, Found(map, n)
    PROVE  0 .. n \subseteq map \cup {n}
<1>1. ASSUME NEW k \in 0 .. n  PROVE k \in map \cup {n}
  <2>1. k = n \/ k \in 0 .. n - 1
    OBVIOUS
  <2> QED BY <2>1 DEF Found
<1> QED BY <1>1

LEMMA Keeps_allocate_inode ==
    ASSUME ToolInv, allocate_inode
    PROVE  ToolInv'
<1> USE DEF allocate_inode, ToolInv, directory, request, At, Goto
<1>1. PICK n \in MapBits : /\ Found(inode_freemap, n)
                          /\ current_inode' = n
                          /\ inode_freemap' = inode_freemap \cup {n}
  OBVIOUS
<1>2. n \in PartitionBlocks \ inode_freemap
  BY <1>1, FoundInPartition DEF RoomOK
<1>3. super /\ super'
  BY DEF StageOK, Creating
<1>4. n # 0 /\ n \in Slots /\ inodetable[n] = UNUSED_SPACE
  BY <1>2, <1>3, Layout DEF SuperComesLast, InodesOK
<1>5. ToolTypeOK'
  BY <1>1, <1>2 DEF ToolTypeOK
<1>6. StageOK'
  BY DEF StageOK, Creating
<1>7. RoomOK'
  BY DEF RoomOK
<1>8. CurrentOK'
  <2>1. \A i \in 1 .. Len(root_dir) : root_dir[i] # n
    BY <1>2, <1>3 DEF EntriesOwnInodes
  <2>2. current_block' = 0
    BY DEF CurrentOK
  <2> QED BY <1>1, <1>4, <2>1, <2>2 DEF CurrentOK
<1>9. SuperComesLast'
  BY <1>1 DEF SuperComesLast
<1>10. EntriesOwnInodes'
  BY <1>1 DEF EntriesOwnInodes
<1>11. InodesOK' /\ EntriesFit'
  BY <1>1, <1>2, <1>3 DEF InodesOK, EntriesFit, EntryAt, directory
<1>12. (super /\ kills = 0 => TidyOK)'
  BY <1>1, <1>4 DEF TidyOK
<1> QED BY <1>5, <1>6, <1>7, <1>8, <1>9, <1>10, <1>11, <1>12

LEMMA Keeps_add_entry ==
    ASSUME ToolInv, add_entry
    PROVE  ToolInv'
<1> USE DEF add_entry, ToolInv, request, locals, directory, At, Goto
<1>1. super /\ super'
  BY DEF StageOK, Creating
<1>2. /\ root_dir' \in Seq(PartitionBlocks)
      /\ \A i \in 1 .. Len(root_dir') :
            /\ root_dir'[i] \in inode_freemap
            /\ \A k \in 3 .. Len(root_dir') : i # k => root_dir'[i] # root_dir'[k]
  <2>1. /\ root_dir \in Seq(PartitionBlocks)
        /\ current_inode \in PartitionBlocks
        /\ current_inode \in inode_freemap
        /\ \A i \in 1 .. Len(root_dir) : root_dir[i] # current_inode
    BY DEF ToolTypeOK, CurrentOK
  <2>2. \A i \in 1 .. Len(root_dir) :
           /\ root_dir[i] \in inode_freemap
           /\ \A k \in 3 .. Len(root_dir) : i # k => root_dir[i] # root_dir[k]
    BY <1>1 DEF EntriesOwnInodes
  <2> QED BY ZenonT(30), <2>1, <2>2, OneMoreEntry
<1>11. entry_end' \in Seq(Nat) /\ EntriesFit'
  <2>1. /\ name_length \in 1 .. 127
        /\ entry_end[Len(entry_end)] + direntry_bytes + name_length <= DIR_BYTES
    BY ToolAssumption DEF RoomOK
  <2>2. /\ entry_end \in Seq(Nat) /\ root_dir \in Seq(PartitionBlocks)
        /\ current_inode \in PartitionBlocks
        /\ Len(entry_end) = Len(root_dir) /\ Len(entry_end) >= 2 /\ EndsFit(entry_end)
    BY <1>1, EntriesFitAlike DEF ToolTypeOK, SuperComesLast
  <2>3. entry_end' = Append(entry_end, entry_end[Len(entry_end)] + direntry_bytes + name_length)
    OBVIOUS
  <2>4. /\ entry_end' \in Seq(Nat) /\ Len(entry_end') = Len(entry_end) + 1
        /\ EndsFit(entry_end')
    BY ZenonT(30), <2>1, <2>2, <2>3, OneMoreEnd
  <2>5. root_dir' = Append(root_dir, current_inode)
    OBVIOUS
  <2>6. Len(root_dir') = Len(root_dir) + 1
    BY Zenon, <2>2, <2>5, OneLonger
  <2>7. EntriesFit' <=> Len(entry_end') = Len(root_dir') /\ EndsFit(entry_end')
    BY DEF EntriesFit, EntryAt, EndsFit
  <2> QED BY <2>2, <2>4, <2>6, <2>7
<1>3. ToolTypeOK'
  BY <1>2, <1>11 DEF ToolTypeOK
<1>4. StageOK'
  BY DEF StageOK, Creating
<1>5. RoomOK'
  BY DEF RoomOK, ToolTypeOK
<1>6. CurrentOK'
  BY DEF CurrentOK
<1>7. SuperComesLast'
  <2>1. root_dir \in Seq(PartitionBlocks) /\ Len(root_dir) >= 2
    BY <1>1 DEF ToolTypeOK, SuperComesLast
  <2>2. Len(root_dir') >= 2 /\ root_dir'[1] = root_dir[1] /\ root_dir'[2] = root_dir[2]
    BY <2>1, FirstTwoStay
  <2> QED BY <1>1, <2>2 DEF SuperComesLast
<1>8. EntriesOwnInodes'
  BY <1>2 DEF EntriesOwnInodes
<1>9. InodesOK'
  BY <1>1 DEF InodesOK
<1>10. (super /\ kills = 0 => TidyOK)'
  BY DEF TidyOK
<1> QED BY <1>3, <1>4, <1>5, <1>6, <1>7, <1>8, <1>9, <1>10, <1>11

LEMMA Keeps_allocate_block ==
    ASSUME ToolInv, allocate_block
    PROVE  ToolInv'
<1> USE DEF allocate_block, ToolInv, directory, request, At, Goto
<1>1. PICK n \in MapBits : /\ Found(block_freemap, n)
                          /\ current_block' = n
                          /\ block_freemap' = block_freemap \cup {n}
  OBVIOUS
<1>2. n \in MapBits \ block_freemap
  BY <1>1 DEF Found
<1>3. super /\ super'
  BY DEF StageOK, Creating
<1>4. n \notin Preallocated
  BY <1>2, <1>3 DEF SuperComesLast
<1>5. ToolTypeOK'
  BY <1>1, <1>2 DEF ToolTypeOK
<1>6. StageOK'
  BY DEF StageOK, Creating
<1>7. RoomOK'
  BY DEF RoomOK
<1>8. CurrentOK'
  <2>1. \A k \in Slots : inodetable[k] # n
    <3>1. inodetable[0] # n
      BY <1>3, <1>4, Layout DEF SuperComesLast
    <3>2. n # UNUSED_SPACE /\ n # 0
      BY <1>2, <1>4, Layout
    <3> QED BY <1>2, <1>3, <3>1, <3>2 DEF InodesOK
  <2> QED BY <1>1, <1>4, <2>1 DEF CurrentOK
<1>9. SuperComesLast'
  BY <1>1 DEF SuperComesLast
<1>10. EntriesOwnInodes'
  BY DEF EntriesOwnInodes
<1>11. InodesOK' /\ EntriesFit'
  BY <1>1, <1>3 DEF InodesOK, EntriesFit, EntryAt, directory
<1>12. (super /\ kills = 0 => TidyOK)'
  BY <1>1 DEF TidyOK
<1> QED BY <1>5, <1>6, <1>7, <1>8, <1>9, <1>10, <1>11, <1>12

LEMMA Keeps_write_inode ==
    ASSUME ToolInv, write_inode
    PROVE  ToolInv'
<1> USE DEF write_inode, ToolInv, directory, request, locals, At, Goto
<1> DEFINE n == current_inode
<1>1. super /\ super'
  BY DEF StageOK, Creating
<1>2. /\ n \in Slots \ {0} /\ n \in inode_freemap
      /\ inodetable[n] = UNUSED_SPACE
  BY <1>1, Layout DEF CurrentOK, InodesOK
<1>3. /\ inodetable'[n] = current_block
      /\ \A k \in Slots \ {n} : inodetable'[k] = inodetable[k]
      /\ inodetable' \in [Slots -> MapBits \cup {UNUSED_SPACE}]
  BY <1>2 DEF ToolTypeOK
<1>4. current_block # UNUSED_SPACE
  BY Layout DEF ToolTypeOK
<1> HIDE DEF n
<1>5. ToolTypeOK'
  BY <1>3 DEF ToolTypeOK
<1>6. StageOK'
  BY DEF StageOK, Creating
<1>7. RoomOK'
  BY DEF RoomOK
<1>8. CurrentOK'
  BY DEF CurrentOK
<1>9. SuperComesLast'
  BY <1>1, <1>2, <1>3, Layout DEF SuperComesLast
<1>10. EntriesOwnInodes'
  BY DEF EntriesOwnInodes
<1>11. InodesOK'
  <2>1. \A k \in Slots \ inode_freemap : inodetable'[k] = UNUSED_SPACE
    BY <1>1, <1>2, <1>3 DEF InodesOK
  <2>2. \/ current_block = 0
        \/ /\ current_block \in block_freemap \ Preallocated
           /\ \A k \in Slots : inodetable[k] # current_block
    BY DEF CurrentOK
  <2>3. \A k \in Slots \ {0} :
           inodetable'[k] \in {UNUSED_SPACE, 0} \cup (block_freemap \ Preallocated)
    BY <1>1, <1>3, <2>2 DEF InodesOK
  <2>4. ASSUME NEW j \in Slots \ {0}, NEW k \in Slots \ {0}, j # k,
               inodetable'[j] = inodetable'[k]
        PROVE  inodetable'[j] \in {UNUSED_SPACE, 0}
    BY <1>1, <1>3, <2>2, <2>4 DEF InodesOK
  <2> QED BY <1>1, <2>1, <2>3, <2>4 DEF InodesOK
<1>13. EntriesFit'
  BY <1>1 DEF EntriesFit, EntryAt
<1>12. (super /\ kills = 0 => TidyOK)'
  <2> HAVE super' /\ kills' = 0
  <2>1. TidyOK
    BY <1>1
  <2>2. inode_freemap \subseteq Slots
    BY <1>1, Layout DEF InodesOK
  <2>3. \A k \in inode_freemap : inodetable'[k] # UNUSED_SPACE
    BY <1>2, <1>3, <1>4, <2>1, <2>2 DEF TidyOK, n
  <2>4. ASSUME NEW b \in block_freemap \ Preallocated
        PROVE  \E k \in inode_freemap : inodetable'[k] = b
    <3>1. CASE b = current_block
      BY <1>2, <1>3, <3>1
    <3>2. CASE b # current_block
      <4>1. PICK k \in inode_freemap : inodetable[k] = b
        BY <2>1, <3>2 DEF TidyOK
      <4>2. b # UNUSED_SPACE
        BY Layout, ToolAssumption DEF ToolTypeOK
      <4> QED BY <1>2, <1>3, <2>2, <4>1, <4>2
    <3> QED BY <3>1, <3>2
  <2> QED BY <2>3, <2>4 DEF TidyOK
<1> QED BY <1>1, <1>5, <1>6, <1>7, <1>8, <1>9, <1>10, <1>11, <1>12, <1>13

LEMMA Keeps_write_data ==
    ASSUME ToolInv, write_data
    PROVE  ToolInv'
<1> USE DEF write_data, ToolInv, toolVars, partition, directory, request, locals, At, Goto
<1>1. ToolTypeOK'
  BY Layout, ToolAssumption DEF ToolTypeOK
<1>2. StageOK'
  BY DEF StageOK, Creating
<1>3. RoomOK'
  BY DEF RoomOK
<1>4. CurrentOK'
  BY DEF CurrentOK
<1>5. SuperComesLast'
  BY DEF SuperComesLast
<1>6. EntriesOwnInodes'
  BY DEF EntriesOwnInodes
<1>7. (super => InodesOK /\ EntriesFit)'
  BY DEF InodesOK, EntriesFit, EntryAt
<1>8. (super /\ kills = 0 => TidyOK)'
  BY DEF TidyOK
<1> QED BY <1>1, <1>2, <1>3, <1>4, <1>5, <1>6, <1>7, <1>8

-----------------------------------------------------------------------------
(***************************************************************************)
(* The theorems.                                                           *)
(***************************************************************************)
LEMMA ToolInitOK == ToolInit => ToolInv
<1> SUFFICES ASSUME ToolInit  PROVE ToolInv
  OBVIOUS
<1> USE DEF ToolInit, ToolInv, At
<1>1. ToolTypeOK
  <2>1. inodetable \in [Slots -> MapBits \cup {UNUSED_SPACE}]
    BY DEF BlankTable
  <2>2. ClearedMap \subseteq MapBits
    BY DEF ClearedMap
  <2>3. root_dir \in Seq(PartitionBlocks) /\ entry_end \in Seq(Nat)
    BY EmptySeq
  <2> QED BY <2>1, <2>2, <2>3, Layout, KillCounts DEF ToolTypeOK
<1>2. StageOK
  BY DEF StageOK, Creating
<1>3. RoomOK /\ CurrentOK
  BY DEF RoomOK, CurrentOK
<1>4. SuperComesLast /\ EntriesOwnInodes
  BY DEF SuperComesLast, EntriesOwnInodes
<1> QED BY <1>1, <1>2, <1>3, <1>4

LEMMA ToolNextOK == ToolInv /\ [ToolNext]_toolVars => ToolInv'
<1> SUFFICES ASSUME ToolInv, [ToolNext]_toolVars  PROVE ToolInv'
  OBVIOUS
<1>1. CASE ToolNext
  BY <1>1,
     Keeps_Start, Keeps_Quit, Keeps_Kill, Keeps_clear_super, Keeps_clear_rest,
     Keeps_write_inode_freemap, Keeps_write_block_freemap,
     Keeps_write_root_inode, Keeps_write_root_dir, Keeps_write_super,
     Keeps_allocate_inode, Keeps_add_entry, Keeps_allocate_block,
     Keeps_write_inode, Keeps_write_data, Keeps_create_file DEF ToolNext, Writes, initialize
<1>2. CASE UNCHANGED toolVars
  <2> USE <1>2 DEF toolVars, partition, directory, request, locals, ToolInv, At
  <2>1. ToolTypeOK'
    BY DEF ToolTypeOK
  <2>2. StageOK' /\ RoomOK'
    BY DEF StageOK, RoomOK, Creating
  <2>3. CurrentOK'
    BY DEF CurrentOK
  <2>4. SuperComesLast' /\ EntriesOwnInodes'
    BY DEF SuperComesLast, EntriesOwnInodes
  <2>5. (super => InodesOK /\ EntriesFit)' /\ (super /\ kills = 0 => TidyOK)'
    BY DEF InodesOK, TidyOK, EntriesFit, EntryAt
  <2> QED BY <2>1, <2>2, <2>3, <2>4, <2>5
<1> QED BY <1>1, <1>2

\* disktool keeps ToolInv: what initialize() and create_file() rely on at each of
\* their writes, and what they leave behind the super block, killed or not.
THEOREM ToolInvariance == ToolSpec => []ToolInv
BY ToolInitOK, ToolNextOK, PTL DEF ToolSpec

\* Given room, the allocators of util.c return inodes of the partition and blocks that
\* have a bit, and what create_file() writes has the right type.
THEOREM ToolTypeCorrect == ToolSpec => []ToolTypeOK
<1>1. ToolInv => ToolTypeOK
  BY DEF ToolInv
<1> QED BY <1>1, ToolInvariance, PTL

\* check_super() finds the magic number only on a partition whose maps, root inode
\* and root directory initialize() has finished, wherever it was killed before.
THEOREM SuperIsLast == ToolSpec => []SuperComesLast
<1>1. ToolInv => SuperComesLast
  BY DEF ToolInv
<1> QED BY <1>1, ToolInvariance, PTL

\* Whatever create_file() was interrupted at, every file has an inode of its own
\* that the inode free map knows of.
THEOREM FilesOwnInodes == ToolSpec => []EntriesOwnInodes
<1>1. ToolInv => EntriesOwnInodes
  BY DEF ToolInv
<1> QED BY <1>1, ToolInvariance, PTL

\* What verify_file_system() counts: for a block of the metadata itself, for any
\* other block nobody or the one inode that holds it.
LEMMA Counted ==
    ASSUME ToolInv, super
    PROVE  /\ \A b \in Metadata : counter(b) = 1
           /\ counter(RootBlock) = 1
           /\ \A b \in PartitionBlocks \ Preallocated :
                 \/ counter(b) = 0 /\ Users(b) = {}
                 \/ counter(b) = 1 /\ Users(b) # {} /\ b \in block_freemap
<1>1. /\ Allocated = inode_freemap /\ Allocated \subseteq Slots
      /\ 0 \in Allocated /\ inodetable[0] = RootBlock
      /\ \A n \in Slots \ {0} :
            inodetable[n] \in {UNUSED_SPACE, 0} \cup (block_freemap \ Preallocated)
      /\ \A n, k \in Slots \ {0} :
            n # k /\ inodetable[n] = inodetable[k] => inodetable[n] \in {UNUSED_SPACE, 0}
  BY Layout DEF ToolInv, SuperComesLast, InodesOK, Allocated
<1>2. ASSUME NEW S, S = {}  PROVE Cardinality(S) = 0
  BY <1>2, FS_EmptySet
<1>3. ASSUME NEW x  PROVE Cardinality({x}) = 1
  BY FS_Singleton
<1>4. ASSUME NEW b \in Metadata  PROVE Users(b) = {} /\ counter(b) = 1
  <2>1. Users(b) = {}
    BY <1>1, Layout, ToolAssumption DEF Users
  <2> QED BY <2>1, <1>2 DEF counter
<1>5. counter(RootBlock) = 1
  <2>1. Users(RootBlock) = {0}
    BY <1>1, Layout, ToolAssumption DEF Users
  <2>2. Cardinality(Users(RootBlock)) = 1
    BY <2>1, <1>3
  <2> QED BY <2>2, Layout DEF counter
<1>6. ASSUME NEW b \in PartitionBlocks \ Preallocated
      PROVE  \/ counter(b) = 0 /\ Users(b) = {}
             \/ counter(b) = 1 /\ Users(b) # {} /\ b \in block_freemap
  <2>1. b \notin Metadata /\ b # RootBlock /\ b # 0 /\ b # UNUSED_SPACE
    BY Layout
  <2>2. counter(b) = Cardinality(Users(b)) + 0
    BY <2>1 DEF counter
  <2>3. CASE Users(b) = {}
    <3>1. Cardinality(Users(b)) = 0
      BY <2>3, <1>2
    <3> QED BY <2>2, <2>3, <3>1
  <2>4. CASE Users(b) # {}
    <3>1. PICK n \in Users(b) : TRUE
      BY <2>4
    <3>2. n \in Slots \ {0} /\ inodetable[n] = b
      BY <1>1, <2>1 DEF Users
    <3>3. Users(b) = {n}
      BY <1>1, <2>1, <3>1, <3>2 DEF Users
    <3>4. b \in block_freemap
      BY <1>1, <2>1, <3>2
    <3>5. Cardinality(Users(b)) = 1
      BY <3>3, <1>3
    <3> QED BY <2>2, <2>4, <3>4, <3>5
  <2> QED BY <2>3, <2>4
<1> QED BY <1>4, <1>5, <1>6

LEMMA InvNoBlockTwice == ToolInv => NoBlockTwice
<1> SUFFICES ASSUME ToolInv, super
             PROVE  UsedMultipleTimes = {} /\ UnallocatedButInUse = {}
  BY DEF NoBlockTwice
<1>1. ASSUME NEW b \in PartitionBlocks
      PROVE  /\ counter(b) = 0 \/ counter(b) = 1
             /\ b \notin block_freemap => counter(b) = 0
  <2>1. CASE b \in Preallocated
    BY <2>1, Counted, Layout DEF ToolInv, SuperComesLast
  <2>2. CASE b \notin Preallocated
    BY <2>2, Counted
  <2> QED BY <2>1, <2>2
<1>2. UsedMultipleTimes = {}
  <2>1. \A b \in PartitionBlocks : ~ (counter(b) > 1)
    BY <1>1
  <2> QED BY <2>1 DEF UsedMultipleTimes
<1>3. UnallocatedButInUse = {}
  BY <1>1 DEF UnallocatedButInUse
<1> QED BY <1>2, <1>3

\* However often the tool was killed, verify_file_system() finds no block "used
\* multiple times" and none "not marked as allocated but is in use".
THEOREM BlocksUsedOnce == ToolSpec => []NoBlockTwice
BY InvNoBlockTwice, ToolInvariance, PTL

LEMMA InvVerifySilent == ToolInv => VerifySilent
<1> SUFFICES ASSUME ToolInv, At("menu"), super, kills = 0,
                    block_freemap \subseteq PartitionBlocks
             PROVE  /\ VerifyInRange /\ UsedMultipleTimes = {}
                    /\ AllocatedButNotUsed = {} /\ UnallocatedButInUse = {}
  BY DEF VerifySilent
<1>1. UsedMultipleTimes = {} /\ UnallocatedButInUse = {}
  BY InvNoBlockTwice DEF NoBlockTwice
<1>2. TidyOK
  BY DEF ToolInv
<1>3. Allocated = inode_freemap /\ inode_freemap \subseteq Slots
  BY Layout DEF ToolInv, InodesOK, Allocated
<1>4. VerifyInRange
  <2>1. ASSUME NEW n \in inode_freemap  PROVE inodetable[n] \in PartitionBlocks
    <3>1. inodetable[n] # UNUSED_SPACE
      BY <1>2 DEF TidyOK, At
    <3> QED BY <1>3, <3>1, Layout DEF ToolInv, SuperComesLast, InodesOK
  <2> QED BY <1>3, <2>1 DEF VerifyInRange
<1>5. ASSUME NEW b \in PartitionBlocks \cap block_freemap
      PROVE  counter(b) = 1
  <2>1. CASE b \in Preallocated
    BY <2>1, Counted, Layout
  <2>2. CASE b \notin Preallocated
    <3>1. PICK n \in inode_freemap : inodetable[n] = b
      BY <1>2, <2>2 DEF TidyOK, At
    <3>2. b # 0
      BY <2>2, Layout
    <3>3. n \in Users(b)
      BY <1>3, <3>1, <3>2 DEF Users
    <3> QED BY <2>2, <3>3, Counted
  <2> QED BY <2>1, <2>2
<1>6. AllocatedButNotUsed = {}
  BY <1>5 DEF AllocatedButNotUsed
<1> QED BY <1>1, <1>4, <1>6

\* On a partition whose tool was never killed verify_file_system() has nothing to
\* report after any number of files, as long as the partition has blocks for them.
THEOREM VerifierIsSilent == ToolSpec => []VerifySilent
BY InvVerifySilent, ToolInvariance, PTL

-----------------------------------------------------------------------------
(***************************************************************************)
(* What a kill costs.                                                      *)
(***************************************************************************)
\* The blocks that are marked and that no inode holds.  One of them is the block
\* create_file() has allocated and is about to write into its inode.
Unheld == {b \in block_freemap \ Preallocated : \A n \in Slots : inodetable[n] # b}
InHand == IF At("write inode") /\ current_block # 0 THEN 1 ELSE 0
LossBound == super => Cardinality(Unheld) <= kills + InHand

LEMMA UnheldFinite ==
    ToolTypeOK => IsFiniteSet(Unheld) /\ Cardinality(Unheld) \in Nat
<1> SUFFICES ASSUME ToolTypeOK  PROVE IsFiniteSet(Unheld) /\ Cardinality(Unheld) \in Nat
  OBVIOUS
<1>1. IsFiniteSet(MapBits)
  <2> DEFINE top == freemap_blocksize * MAP_BITS - 1
  <2>1. top \in Int
    BY DivUpCovers, LayoutAssumption DEF freemap_blocksize
  <2> HIDE DEF top
  <2>2. IsFiniteSet(0 .. top)
    BY <2>1, FS_Interval
  <2> QED BY <2>2 DEF MapBits, top
<1>2. Unheld \subseteq MapBits
  BY DEF Unheld, ToolTypeOK
<1>3. IsFiniteSet(Unheld)
  BY <1>1, <1>2, FS_Subset
<1> QED BY <1>3, FS_CardinalityType

LEMMA LossCounted ==
    ToolInv => kills \in Nat /\ IsFiniteSet(Unheld) /\ Cardinality(Unheld) \in Nat
<1>1. \A k \in 0 .. MaxKills : k \in Nat
  BY ToolAssumption
<1>2. ToolInv => kills \in 0 .. MaxKills /\ ToolTypeOK
  BY DEF ToolInv, ToolTypeOK
<1> QED BY <1>1, <1>2, UnheldFinite

LEMMA LossKept ==
    ASSUME ToolInv, LossBound, UNCHANGED <<super, block_freemap, inodetable, kills>>,
           InHand' \in Nat, InHand = 0 \/ UNCHANGED InHand
    PROVE  LossBound'
<1>1. Unheld' = Unheld
  BY DEF Unheld
<1>2. kills \in Nat /\ Cardinality(Unheld) \in Nat
  BY LossCounted
<1>3. kills' = kills /\ super' = super
  OBVIOUS
<1> QED BY <1>1, <1>2, <1>3 DEF LossBound

LEMMA InHandType == InHand \in {0, 1} /\ (pc # "write inode" => InHand = 0)
BY DEF InHand, At

\* The tool is killed with at most one block in hand.
LEMMA LossKill == ToolInv /\ LossBound /\ Kill => LossBound'
<1> SUFFICES ASSUME ToolInv, LossBound, Kill  PROVE LossBound'
  OBVIOUS
<1>1. Unheld' = Unheld /\ super' = super /\ kills' = kills + 1
  BY DEF Unheld, Kill, partition
<1>2. InHand' = 0 /\ InHand \in {0, 1}
  BY InHandType DEF InHand, Kill, At, Goto
<1>3. kills \in Nat /\ Cardinality(Unheld) \in Nat
  BY LossCounted
<1> QED BY <1>1, <1>2, <1>3 DEF LossBound

\* The block comes from the free ones, so it is one more, and in hand.
LEMMA LossAllocate == ToolInv /\ LossBound /\ allocate_block => LossBound'
<1> SUFFICES ASSUME ToolInv, LossBound, allocate_block  PROVE LossBound'
  OBVIOUS
<1>1. PICK n \in MapBits : /\ Found(block_freemap, n)
                           /\ current_block' = n
                           /\ block_freemap' = block_freemap \cup {n}
  BY DEF allocate_block
<1>2. n \in MapBits \ block_freemap
  BY <1>1 DEF Found
<1>3. /\ super /\ UNCHANGED <<super, inodetable, kills>>
      /\ pc = "allocate block" /\ pc' = "write inode"
  BY DEF allocate_block, ToolInv, StageOK, Creating, At, Goto
<1>4. n \notin Preallocated /\ n # 0
  BY <1>2, <1>3, Layout DEF ToolInv, SuperComesLast
<1>5. InHand = 0 /\ InHand' = 1
  BY <1>1, <1>3, <1>4, InHandType DEF InHand, At
<1>6. Unheld' \subseteq Unheld \cup {n}
  BY <1>1, <1>3 DEF Unheld
<1>7. kills \in Nat /\ IsFiniteSet(Unheld) /\ Cardinality(Unheld) \in Nat
  BY LossCounted
<1>8. n \notin Unheld
  BY <1>2 DEF Unheld
<1>9. /\ IsFiniteSet(Unheld \cup {n})
      /\ Cardinality(Unheld \cup {n}) = Cardinality(Unheld) + 1
  BY <1>7, <1>8, FS_AddElement
<1>10. Cardinality(Unheld') <= Cardinality(Unheld) + 1 /\ Cardinality(Unheld') \in Nat
  <2>1. /\ IsFiniteSet(Unheld')
        /\ Cardinality(Unheld') <= Cardinality(Unheld \cup {n})
    BY <1>6, <1>9, FS_Subset
  <2> QED BY <1>9, <2>1, FS_CardinalityType
<1>11. Cardinality(Unheld) <= kills + InHand /\ kills' = kills
  BY <1>3 DEF LossBound
<1>12. Cardinality(Unheld') <= kills' + InHand'
  BY <1>5, <1>7, <1>10, <1>11
<1> QED BY <1>12 DEF LossBound

\* The block in hand gets its inode.
LEMMA LossWritten == ToolInv /\ LossBound /\ write_inode => LossBound'
<1> SUFFICES ASSUME ToolInv, LossBound, write_inode  PROVE LossBound'
  OBVIOUS
<1>1. /\ super /\ UNCHANGED <<super, block_freemap, kills>>
      /\ pc = "write inode" /\ pc' # "write inode"
  BY DEF write_inode, ToolInv, StageOK, Creating, At, Goto
<1>2. /\ current_inode \in Slots /\ inodetable[current_inode] = UNUSED_SPACE
      /\ inodetable' = [inodetable EXCEPT ![current_inode] = current_block]
      /\ inodetable \in [Slots -> MapBits \cup {UNUSED_SPACE}]
  BY <1>1, Layout DEF write_inode, ToolInv, ToolTypeOK, CurrentOK, InodesOK
<1>3. block_freemap \subseteq MapBits
  BY DEF ToolInv, ToolTypeOK
<1>4. Unheld' \subseteq Unheld \ {current_block}
  <2> SUFFICES ASSUME NEW b \in Unheld'  PROVE b \in Unheld /\ b # current_block
    OBVIOUS
  <2>1. /\ b \in block_freemap \ Preallocated /\ b # UNUSED_SPACE
        /\ \A n \in Slots : inodetable'[n] # b
    BY <1>1, <1>3, Layout DEF Unheld
  <2>2. inodetable'[current_inode] = current_block
    BY <1>2
  <2>3. \A n \in Slots : n # current_inode => inodetable'[n] = inodetable[n]
    BY <1>2
  <2> QED BY <1>2, <2>1, <2>2, <2>3 DEF Unheld
<1>5. kills \in Nat /\ IsFiniteSet(Unheld) /\ Cardinality(Unheld) \in Nat
  BY LossCounted
<1>6. InHand' = 0
  BY <1>1, InHandType DEF InHand, At
<1>9. Cardinality(Unheld) <= kills + InHand /\ kills' = kills
  BY <1>1 DEF LossBound
<1>7. CASE current_block = 0
  <2>1. InHand = 0
    BY <1>7 DEF InHand
  <2>2. IsFiniteSet(Unheld') /\ Cardinality(Unheld') <= Cardinality(Unheld)
    BY <1>4, <1>5, FS_Subset
  <2>3. Cardinality(Unheld') \in Nat
    BY <2>2, FS_CardinalityType
  <2>4. Cardinality(Unheld') <= kills' + InHand'
    BY <1>5, <1>6, <1>9, <2>1, <2>2, <2>3
  <2> QED BY <2>4 DEF LossBound
<1>8. CASE current_block # 0
  <2>1. InHand = 1 /\ current_block \in Unheld
    BY <1>1, <1>8 DEF InHand, Unheld, ToolInv, CurrentOK, At
  <2>2. /\ IsFiniteSet(Unheld \ {current_block})
        /\ Cardinality(Unheld \ {current_block}) = Cardinality(Unheld) - 1
    BY <1>5, <2>1, FS_RemoveElement
  <2>3. /\ IsFiniteSet(Unheld')
        /\ Cardinality(Unheld') <= Cardinality(Unheld \ {current_block})
    BY <1>4, <2>2, FS_Subset
  <2>4. Cardinality(Unheld') \in Nat
    BY <2>3, FS_CardinalityType
  <2>5. Cardinality(Unheld') <= kills' + InHand'
    BY <1>5, <1>6, <1>9, <2>1, <2>2, <2>3, <2>4
  <2> QED BY <2>5 DEF LossBound
<1> QED BY <1>7, <1>8

LEMMA LossInitialize == ToolInv /\ initialize => LossBound'
<1> SUFFICES ASSUME ToolInv, initialize, super'
             PROVE  Cardinality(Unheld') <= kills' + InHand'
  BY DEF LossBound
<1>1. write_super
  BY DEF ToolInv, StageOK, At, initialize, clear_super, clear_rest, write_inode_freemap,
     write_block_freemap, write_root_inode, write_root_dir
<1>2. block_freemap' = Preallocated /\ kills' = 0 /\ pc' = "menu"
  BY <1>1 DEF write_super, ToolInv, StageOK, At, Goto
<1>3. Unheld' = {}
  BY <1>2 DEF Unheld
<1>4. Cardinality(Unheld') = 0
  BY <1>3, FS_EmptySet
<1>5. InHand' = 0
  BY <1>2 DEF InHand, At
<1> QED BY <1>2, <1>4, <1>5

LEMMA LossInit == ToolInit => LossBound
BY DEF ToolInit, LossBound

LEMMA LossNext == ToolInv /\ LossBound /\ [ToolNext]_toolVars => LossBound'
<1> SUFFICES ASSUME ToolInv, LossBound, [ToolNext]_toolVars  PROVE LossBound'
  OBVIOUS
<1>1. InHand' \in Nat
  BY DEF InHand
<1>2. CASE initialize
  BY <1>2, LossInitialize
<1>3. CASE Kill \/ allocate_block \/ write_inode
  BY <1>3, LossKill, LossAllocate, LossWritten
<1>4. CASE \/ Start \/ Quit \/ allocate_inode \/ add_entry \/ write_data
           \/ \E size \in {0, 1}, length \in NameLengths : create_file(size, length)
  <2>1. pc # "write inode" /\ UNCHANGED <<super, block_freemap, inodetable, kills>>
    BY <1>4 DEF Start, Quit, allocate_inode, add_entry, write_data, create_file, partition, At
  <2> QED BY <1>1, <2>1, InHandType, LossKept
<1>5. CASE UNCHANGED toolVars
  <2>1. UNCHANGED <<super, block_freemap, inodetable, kills>> /\ UNCHANGED InHand
    BY <1>5 DEF toolVars, partition, request, locals, InHand, At
  <2> QED BY <1>1, <2>1, LossKept
<1> QED BY <1>2, <1>3, <1>4, <1>5 DEF ToolNext, Writes

LEMMA InvOneBlock == ToolInv /\ LossBound => OneBlockPerKill
<1> SUFFICES ASSUME ToolInv, LossBound, super, At("menu")
             PROVE  Cardinality(AllocatedButNotUsed) <= kills
  BY DEF OneBlockPerKill
<1>1. AllocatedButNotUsed \subseteq Unheld
  <2> SUFFICES ASSUME NEW b \in AllocatedButNotUsed  PROVE b \in Unheld
    OBVIOUS
  <2>1. b \in PartitionBlocks /\ b \in block_freemap /\ counter(b) # 1
    BY DEF AllocatedButNotUsed
  <2>2. b \notin Preallocated
    BY <2>1, Counted, Layout
  <2>3. Users(b) = {} /\ b # 0 /\ b # UNUSED_SPACE
    BY <2>1, <2>2, Counted, Layout
  <2>4. \A n \in inode_freemap : inodetable[n] # b
    BY <2>3, Layout DEF Users, Allocated, ToolInv, InodesOK
  <2>5. \A n \in Slots \ inode_freemap : inodetable[n] # b
    BY <2>3 DEF ToolInv, InodesOK
  <2> QED BY <2>1, <2>2, <2>4, <2>5 DEF Unheld
<1>2. kills \in Nat /\ IsFiniteSet(Unheld) /\ Cardinality(Unheld) \in Nat
  BY LossCounted
<1>3. /\ IsFiniteSet(AllocatedButNotUsed)
      /\ Cardinality(AllocatedButNotUsed) <= Cardinality(Unheld)
  BY <1>1, <1>2, FS_Subset
<1>4. Cardinality(AllocatedButNotUsed) \in Nat
  BY <1>3, FS_CardinalityType
<1>5. InHand = 0
  BY DEF InHand, At
<1>6. Cardinality(Unheld) <= kills + InHand
  BY DEF LossBound
<1> QED BY <1>2, <1>3, <1>4, <1>5, <1>6

\* Each kill of the tool since initialize() costs at most one block: of what
\* create_file() was doing, only the block it had marked and not yet put into the
\* inode is lost.
THEOREM LittleIsLost == ToolSpec => []OneBlockPerKill
<1> DEFINE Inv == ToolInv /\ LossBound
<1>1. ToolInit => Inv
  BY ToolInitOK, LossInit
<1>2. Inv /\ [ToolNext]_toolVars => Inv'
  BY ToolNextOK, LossNext
<1>3. Inv => OneBlockPerKill
  BY InvOneBlock
<1> QED BY <1>1, <1>2, <1>3, PTL DEF ToolSpec
-----------------------------------------------------------------------------
(***************************************************************************)
(* The driver.                                                             *)
(***************************************************************************)
\* The root inode's block and the free maps are metadata behind the super block.
LEMMA DriverLayout ==
    /\ InodeBlock(0) \in Metadata \ {0}
    /\ 1 .. 2 * freemap_blocksize \subseteq Metadata \ {0}
    /\ freemap_blocksize * MAP_BITS \in Nat
<1>1. freemap_blocksize \in Nat /\ inodetable_blocksize \in Nat
  BY DivUpCovers, LayoutAssumption DEF freemap_blocksize, inodetable_blocksize
<1>2. inodetable_blocksize * INODES_PER_BLOCK >= 1
  <2>1. block_count >= 1
    BY Layout, LayoutAssumption DEF total_preallocated
  <2>2. inodetable_blocksize * INODES_PER_BLOCK >= block_count
    BY DivUpCovers, LayoutAssumption DEF inodetable_blocksize
  <2>3. inodetable_blocksize * INODES_PER_BLOCK \in Int
    BY <1>1, LayoutAssumption
  <2> QED BY <2>1, <2>2, <2>3, LayoutAssumption
<1>3. inodetable_blocksize # 0
  <2>1. 0 * INODES_PER_BLOCK = 0
    BY LayoutAssumption
  <2> QED BY <1>2, <2>1
<1>4. 0 \div INODES_PER_BLOCK = 0
  BY LayoutAssumption
<1>5. freemap_blocksize * MAP_BITS \in Nat
  BY <1>1, LayoutAssumption
<1> QED BY <1>1, <1>3, <1>4, <1>5 DEF InodeBlock, Metadata, RootBlock

LEMMA InMapBits ==
    ASSUME NEW b \in MapBits
    PROVE  b < freemap_blocksize * MAP_BITS
<1> DEFINE p == freemap_blocksize * MAP_BITS
<1>1. p \in Nat
  BY DriverLayout
<1>2. b \in 0 .. p - 1
  BY DEF MapBits
<1> HIDE DEF p
<1>3. b < p
  BY <1>1, <1>2
<1> QED BY <1>3 DEF p

\* While the tool does not run, the partition is what it has left.
LEMMA ToolStands ==
    ASSUME ToolInv, BitsOK, UNCHANGED toolVars
    PROVE  /\ ToolInv' /\ BitsOK'
           /\ super' = super /\ pc' = pc
           /\ root_dir' = root_dir /\ entry_end' = entry_end
<1>1. ToolInv'
  BY ToolNextOK
<1> QED BY <1>1 DEF toolVars, partition, directory, BitsOK

LEMMA Segment == \A b \in Preallocated : 0 .. b \subseteq Preallocated
BY Layout, LayoutAssumption DEF Preallocated, total_preallocated

\* The tool marks the first bit that is free.
LEMMA Keeps_BitsOK ==
    ASSUME ToolInv, BitsOK, ToolNext
    PROVE  BitsOK'
<1> USE DEF BitsOK, At, Goto
<1>1. CASE initialize
  <2>1. pc \in {"clear rest", "write inode freemap", "write block freemap"} => ~ super
    BY DEF ToolInv, StageOK
  <2> QED BY <1>1, <2>1, Segment DEF initialize, clear_super, clear_rest, write_inode_freemap,
             write_block_freemap, write_root_inode, write_root_dir, write_super
<1>2. CASE allocate_block
  <2>1. super
    BY <1>2 DEF ToolInv, StageOK, Creating, allocate_block
  <2>2. PICK n \in MapBits : Found(block_freemap, n) /\ block_freemap' = block_freemap \cup {n}
    BY <1>2 DEF allocate_block
  <2>3. n \in Nat
    BY Layout
  <2>4. 0 .. n \subseteq block_freemap'
    BY <2>2, <2>3, FoundBehind
  <2> QED BY <2>1, <2>2, <2>4
<1>3. CASE \/ allocate_inode \/ add_entry \/ write_inode \/ write_data
           \/ Start \/ Quit \/ Kill
           \/ \E size \in {0, 1}, length \in NameLengths :
                 HasRoom(size, length) /\ create_file(size, length)
  <2>1. block_freemap' = block_freemap /\ super' = super
    BY <1>3 DEF allocate_inode, add_entry, write_inode, write_data, Start, Quit, Kill,
                create_file, partition
  <2>2. pc' \notin {"write root inode", "write root directory", "write super"}
    BY <1>3 DEF allocate_inode, add_entry, write_inode, write_data, Start, Quit, Kill, create_file
  <2> QED BY <2>1, <2>2
<1> QED BY <1>1, <1>2, <1>3 DEF ToolNext, Writes

LEMMA DriverInitOK == DriverInit => DriverInv
<1> SUFFICES ASSUME DriverInit PROVE DriverInv
  OBVIOUS
<1>1. ToolInv
  BY ToolInitOK DEF DriverInit
<1>2. DriverTypeOK
  <2>1. Len(root_dir) = 0 /\ MaxCaches \in Nat /\ listing \in Seq(PartitionBlocks)
    BY DriverAssumption, EmptySeq DEF DriverInit, ToolInit
  <2>2. /\ 0 \in 0 .. MaxCaches /\ 0 \in 0 .. Len(root_dir) /\ {} \subseteq Metadata
        /\ 0 \in {0, EIO} /\ 0 \in 0 .. 1 /\ FALSE \in BOOLEAN
    BY <2>1
  <2> QED BY <2>1, <2>2 DEF DriverInit, DriverTypeOK
<1>3. MountOK /\ SuperChecked
  BY DEF DriverInit, ToolInit, MountOK, SuperChecked, Holds, MountAt
<1>4. ListingOK
  BY DEF DriverInit, ToolInit, ListingOK, ListingComplete, MountAt
<1>5. BitsOK
  BY DEF DriverInit, ToolInit, BitsOK
<1> QED BY <1>1, <1>2, <1>3, <1>4, <1>5 DEF DriverInv

LEMMA Keeps_ToolStep ==
    ASSUME DriverInv, ToolStep
    PROVE  DriverInv'
<1>1. ToolInv' /\ BitsOK'
  BY ToolNextOK, Keeps_BitsOK DEF DriverInv, ToolStep
<1>2. /\ MountAt("unmounted") /\ UNCHANGED <<driverVars>>
      /\ ctx_pos = 0 /\ listing = << >> /\ stopped = "no"
  BY DEF ToolStep, DriverInv, ListingOK, MountAt
<1>3. DriverTypeOK'
  <2>1. root_dir' \in Seq(PartitionBlocks)
    BY <1>1 DEF ToolInv, ToolTypeOK
  <2>2. ctx_pos' \in 0 .. Len(root_dir)'
    <3>1. Len(root_dir') \in Nat
      BY <2>1
    <3> QED BY <1>2, <3>1 DEF driverVars, dir_state
  <2> QED BY <1>2, <2>2 DEF DriverInv, DriverTypeOK, driverVars, sb_state, dir_state
<1>4. MountOK' /\ SuperChecked'
  BY <1>2 DEF DriverInv, MountOK, SuperChecked, Holds, MountAt, driverVars, sb_state, dir_state
<1>5. ListingOK'
  BY <1>2 DEF ListingOK, ListingComplete, MountAt, driverVars, sb_state, dir_state
<1> QED BY <1>1, <1>3, <1>4, <1>5 DEF DriverInv

\* Steps that neither list the directory nor touch the partition.
LEMMA SameListing ==
    ASSUME DriverInv, UNCHANGED toolVars, UNCHANGED dir_state,
           MountAt("mounted") => MountAt("mounted")'
    PROVE  /\ ListingOK' /\ ctx_pos' \in 0 .. Len(root_dir)'
           /\ listing' \in Seq(PartitionBlocks) /\ stopped' \in {"no", "position", "page"}
<1>1. /\ root_dir' = root_dir /\ entry_end' = entry_end
      /\ ctx_pos' = ctx_pos /\ listing' = listing /\ stopped' = stopped
  BY DEF toolVars, partition, directory, dir_state
<1> QED BY <1>1 DEF DriverInv, DriverTypeOK, ListingOK, ListingComplete, EntryAt

LEMMA Keeps_Module ==
    ASSUME DriverInv, \/ \E registered \in BOOLEAN : init_module(registered)
                      \/ cleanup_module
    PROVE  DriverInv'
<1>1. /\ UNCHANGED toolVars /\ UNCHANGED <<mount_pc, sb_state, dir_state>>
      /\ MountAt("unmounted")
  BY DEF init_module, cleanup_module
<1>2. ToolInv' /\ BitsOK' /\ super' = super /\ pc' = pc
  BY <1>1, ToolStands DEF DriverInv
<1>3. /\ ListingOK' /\ ctx_pos' \in 0 .. Len(root_dir)'
      /\ listing' \in Seq(PartitionBlocks) /\ stopped' \in {"no", "position", "page"}
  BY <1>1, SameListing DEF MountAt
<1>4. loaded' \in BOOLEAN /\ icaches' \in 0 .. MaxCaches /\ (loaded' => icaches' > 0)
  <2>1. icaches \in 0 .. MaxCaches /\ (loaded => icaches > 0)
    BY DEF DriverInv, DriverTypeOK, SuperChecked
  <2>2. CASE \E registered \in BOOLEAN : init_module(registered)
    BY <2>1, <2>2, DriverAssumption DEF init_module
  <2>3. CASE cleanup_module
    <3>1. loaded /\ loaded' = FALSE /\ icaches' = icaches - 1
      BY <2>3 DEF cleanup_module
    <3>2. icaches' \in 0 .. MaxCaches
      BY <2>1, <3>1, DriverAssumption
    <3> QED BY <3>1, <3>2
  <2> QED BY <2>2, <2>3
<1>5. DriverTypeOK' /\ MountOK' /\ SuperChecked'
  BY <1>1, <1>2, <1>3, <1>4
     DEF DriverInv, DriverTypeOK, MountOK, SuperChecked, Holds, MountAt, At, sb_state
<1> QED BY <1>2, <1>3, <1>5 DEF DriverInv

LEMMA OneLess == 1 - 1 = 0 /\ 0 \in 0 .. 1 /\ 0 \in {0, EIO}
OBVIOUS

\* A failure before the root inode is read leaves nothing of the mount behind.
LEMMA GivenBack ==
    ASSUME DriverTypeOK, GiveBack, module_refs = 1, s_root = FALSE, rc = 0
    PROVE  /\ module_refs' = 0 /\ super_sup' = FALSE /\ s_root' = FALSE
           /\ 0 \notin pinned' /\ pinned' \subseteq Metadata
           /\ rc' = 0 /\ mount_pc' = "returned"
<1>1. module_refs' = 0
  BY DEF GiveBack
<1>2. 0 \notin pinned' /\ pinned' \subseteq Metadata
  BY DEF GiveBack, DriverTypeOK
<1> QED BY <1>1, <1>2 DEF GiveBack, Continue

\* gfs_fill_super() and mount_bdev(): one case for each way a mount goes on or out.
LEMMA Keeps_Mount ==
    ASSUME DriverInv, mount_begin \/ gfs_fill_super \/ mount_bdev
    PROVE  DriverInv'
<1>1. /\ UNCHANGED toolVars /\ UNCHANGED <<loaded, icaches>> /\ UNCHANGED dir_state
      /\ ~ MountAt("mounted")
  BY DEF mount_begin, gfs_fill_super, mount_bdev, set_blocksize, set_blocksize_fails,
         allocate_super_sup, no_memory, read_super, unreadable_super, check_magic, no_magic,
         read_root, no_root_dentry, no_root_inode, GiveBack, Continue, MountAt
<1>2. ToolInv' /\ BitsOK' /\ super' = super /\ pc' = pc
  BY <1>1, ToolStands DEF DriverInv
<1>3. /\ ListingOK' /\ ctx_pos' \in 0 .. Len(root_dir)'
      /\ listing' \in Seq(PartitionBlocks) /\ stopped' \in {"no", "position", "page"}
  BY <1>1, SameListing
<1>4. 0 \in Metadata /\ InodeBlock(0) \in Metadata \ {0}
  BY Layout, DriverLayout
<1>5. /\ DriverTypeOK /\ MountOK /\ SuperChecked
  BY DEF DriverInv
<1>6. ASSUME no_memory \/ unreadable_super \/ no_magic
      PROVE  /\ module_refs' = 0 /\ super_sup' = FALSE /\ s_root' = FALSE
             /\ 0 \notin pinned' /\ pinned' \subseteq Metadata
             /\ rc' = 0 /\ mount_pc' = "returned"
             /\ 0 \in 0 .. 1 /\ 0 \in {0, EIO}
  <2>1. module_refs = 1 /\ s_root = FALSE /\ rc = 0 /\ GiveBack
    BY <1>5, <1>6 DEF MountOK, Holds, MountAt, no_memory, unreadable_super, no_magic
  <2> QED BY <1>5, <2>1, GivenBack, OneLess
<1>7. DriverTypeOK'
  <2> USE <1>1, <1>3, <1>4, <1>5 DEF DriverTypeOK, MountOK, Holds, MountAt, Continue, EIO, sb_state
  <2>1. CASE mount_begin
    BY <2>1 DEF mount_begin
  <2>2. CASE set_blocksize
    BY <2>2 DEF set_blocksize
  <2>3. CASE set_blocksize_fails
    BY <2>3 DEF set_blocksize_fails
  <2>4. CASE allocate_super_sup
    BY <2>4 DEF allocate_super_sup
  <2>5. CASE no_memory
    BY <2>5, <1>6 DEF no_memory
  <2>6. CASE read_super
    BY <2>6 DEF read_super
  <2>7. CASE unreadable_super
    BY <2>7, <1>6 DEF unreadable_super
  <2>8. CASE check_magic
    BY <2>8 DEF check_magic
  <2>9. CASE no_magic
    BY <2>9, <1>6 DEF no_magic
  <2>10. CASE read_root
    BY <2>10 DEF read_root
  <2>11. CASE no_root_dentry
    <3>1. /\ module_refs' = module_refs - 1 /\ super_sup' = FALSE
          /\ pinned' = (pinned \ {0}) \cup {InodeBlock(0)}
          /\ rc' = rc /\ s_root' = s_root /\ mount_pc' = "returned"
          /\ mount_pc = "read root"
      BY <2>11 DEF no_root_dentry
    <3>2. module_refs = 1 /\ rc = 0 /\ s_root = FALSE
      BY <3>1
    <3>3. module_refs' = 0 /\ 0 \in 0 .. 1 /\ 0 \in {0, EIO}
      BY <3>1, <3>2, OneLess
    <3>4. pinned' \subseteq Metadata /\ 0 \notin pinned'
      BY <1>4, <1>5, <3>1 DEF DriverTypeOK
    <3> QED BY <3>1, <3>2, <3>3, <3>4
  <2>12. CASE no_root_inode
    BY <2>12 DEF no_root_inode
  <2>13. CASE mount_bdev
    BY <2>13 DEF mount_bdev
  <2> QED BY <2>1, <2>2, <2>3, <2>4, <2>5, <2>6, <2>7, <2>8, <2>9, <2>10, <2>11, <2>12, <2>13 DEF gfs_fill_super
<1>8. MountOK'
  <2> USE <1>5 DEF DriverTypeOK, MountOK, Holds, MountAt, Continue, EIO, sb_state
  <2>1. CASE mount_begin
    BY <2>1 DEF mount_begin
  <2>2. CASE set_blocksize
    BY <2>2 DEF set_blocksize
  <2>3. CASE set_blocksize_fails
    BY <2>3 DEF set_blocksize_fails
  <2>4. CASE allocate_super_sup
    BY <2>4 DEF allocate_super_sup
  <2>5. CASE no_memory
    BY <2>5, <1>6 DEF no_memory
  <2>6. CASE read_super
    BY <2>6 DEF read_super
  <2>7. CASE unreadable_super
    BY <2>7, <1>6 DEF unreadable_super
  <2>8. CASE check_magic
    BY <2>8 DEF check_magic
  <2>9. CASE no_magic
    BY <2>9, <1>6 DEF no_magic
  <2>10. CASE read_root
    BY <2>10 DEF read_root
  <2>11. CASE no_root_dentry
    <3>1. /\ module_refs' = module_refs - 1 /\ super_sup' = FALSE
          /\ pinned' = (pinned \ {0}) \cup {InodeBlock(0)}
          /\ rc' = rc /\ s_root' = s_root /\ mount_pc' = "returned"
          /\ mount_pc = "read root"
      BY <2>11 DEF no_root_dentry
    <3>2. module_refs = 1 /\ rc = 0 /\ s_root = FALSE
      BY <3>1
    <3>3. module_refs' = 0 /\ 0 \in 0 .. 1 /\ 0 \in {0, EIO}
      BY <3>1, <3>2, OneLess
    <3>4. pinned' \subseteq Metadata /\ 0 \notin pinned'
      BY <1>4, <1>5, <3>1 DEF DriverTypeOK
    <3> QED BY <3>1, <3>2, <3>3, <3>4
  <2>12. CASE no_root_inode
    BY <2>12 DEF no_root_inode
  <2>13. CASE mount_bdev
    BY <2>13 DEF mount_bdev
  <2> QED BY <2>1, <2>2, <2>3, <2>4, <2>5, <2>6, <2>7, <2>8, <2>9, <2>10, <2>11, <2>12, <2>13 DEF gfs_fill_super
<1>9. SuperChecked'
  <2>1. loaded /\ At("off")
    <3>1. CASE mount_begin
      BY <3>1 DEF mount_begin
    <3>2. CASE gfs_fill_super \/ mount_bdev
      <4>1. ~ MountAt("unmounted")
        BY <3>2 DEF gfs_fill_super, mount_bdev, set_blocksize, set_blocksize_fails,
           allocate_super_sup, no_memory, read_super, unreadable_super, check_magic, no_magic,
           read_root, no_root_dentry, no_root_inode, MountAt
      <4> QED BY <1>5, <4>1 DEF SuperChecked
    <3> QED BY <3>1, <3>2
  <2>2. (MountAt("read root") \/ MountAt("mounted") \/ s_root)' => super
    <3>1. CASE check_magic
      BY <3>1 DEF check_magic
    <3>2. CASE read_root
      BY <1>5, <3>2 DEF read_root, SuperChecked
    <3>3. CASE mount_bdev
      <4>1. s_root' = s_root /\ (MountAt("mounted")' => s_root) /\ ~ MountAt("read root")'
        BY <3>3 DEF mount_bdev, Continue, MountAt
      <4> QED BY <1>5, <4>1 DEF SuperChecked
    <3>4. CASE \/ mount_begin \/ set_blocksize \/ set_blocksize_fails \/ allocate_super_sup
               \/ no_memory \/ read_super \/ unreadable_super \/ no_magic
               \/ no_root_dentry \/ no_root_inode
      <4>1. s_root' = s_root /\ ~ MountAt("mounted")' /\ ~ MountAt("read root")'
        BY <3>4 DEF mount_begin, set_blocksize, set_blocksize_fails, allocate_super_sup,
           no_memory, read_super, unreadable_super, no_magic, no_root_dentry, no_root_inode,
           GiveBack, Continue, MountAt, sb_state
      <4> QED BY <1>5, <4>1 DEF SuperChecked
    <3> QED BY <3>1, <3>2, <3>3, <3>4 DEF gfs_fill_super
  <2> QED BY <1>1, <1>2, <1>5, <2>1, <2>2 DEF SuperChecked, At
<1> QED BY <1>2, <1>3, <1>7, <1>8, <1>9 DEF DriverInv

LEMMA Keeps_Unmount ==
    ASSUME DriverInv, gfs_put_super \/ Reboot
    PROVE  DriverInv'
<1>1. /\ UNCHANGED toolVars /\ mount_pc' = "unmounted"
      /\ ctx_pos' = 0 /\ listing' = << >> /\ stopped' = "no"
  BY DEF gfs_put_super, Reboot
<1>2. /\ ToolInv' /\ BitsOK' /\ super' = super /\ pc' = pc /\ root_dir' = root_dir
      /\ Len(root_dir) \in Nat
  <2>1. ToolInv /\ BitsOK /\ root_dir \in Seq(PartitionBlocks)
    BY DEF DriverInv, ToolInv, ToolTypeOK
  <2> QED BY <1>1, <2>1, ToolStands
<1>3. DriverTypeOK /\ MountOK /\ SuperChecked
  BY DEF DriverInv
<1>4. /\ ctx_pos' \in 0 .. Len(root_dir)' /\ listing' \in Seq(PartitionBlocks)
      /\ stopped' \in {"no", "position", "page"}
  BY <1>1, <1>2, EmptySeq
<1>5. ListingOK'
  BY <1>1 DEF ListingOK, ListingComplete, MountAt
<1>6. CASE gfs_put_super
  <2>1. /\ MountAt("mounted") /\ UNCHANGED <<loaded, icaches, rc>> /\ pinned' = pinned \ {0}
        /\ super_sup' = FALSE /\ module_refs' = module_refs - 1 /\ s_root' = FALSE
    BY <1>6 DEF gfs_put_super
  <2>2. module_refs' = 0 /\ rc = 0
    BY <1>3, <2>1 DEF MountOK, Holds, MountAt
  <2>3. DriverTypeOK'
    <3>1. module_refs' \in 0 .. 1 /\ rc' \in {0, EIO}
      BY <1>3, <2>1, <2>2, OneLess DEF DriverTypeOK
    <3>2. /\ pinned' \subseteq Metadata
          /\ loaded' \in BOOLEAN /\ icaches' \in 0 .. MaxCaches
      BY <1>3, <2>1 DEF DriverTypeOK
    <3> QED BY <1>1, <1>4, <2>1, <3>1, <3>2 DEF DriverTypeOK
  <2>4. MountOK'
    BY <1>1, <2>1, <2>2 DEF MountOK, Holds, MountAt
  <2>5. SuperChecked'
    BY <1>1, <1>3, <2>1 DEF SuperChecked, MountAt
  <2> QED BY <1>2, <1>5, <2>3, <2>4, <2>5 DEF DriverInv
<1>7. CASE Reboot
  <2>1. /\ loaded' = FALSE /\ icaches' = 0 /\ rc' = 0
        /\ module_refs' = 0 /\ super_sup' = FALSE /\ pinned' = {} /\ s_root' = FALSE
    BY <1>7 DEF Reboot
  <2>2. DriverTypeOK'
    <3>1. module_refs' \in 0 .. 1 /\ rc' \in {0, EIO} /\ icaches' \in 0 .. MaxCaches
      BY <2>1, DriverAssumption
    <3>2. pinned' \subseteq Metadata /\ loaded' \in BOOLEAN
      BY <2>1
    <3> QED BY <1>1, <1>4, <2>1, <3>1, <3>2 DEF DriverTypeOK
  <2>3. MountOK'
    BY <1>1, <2>1 DEF MountOK, Holds, MountAt
  <2>4. SuperChecked'
    BY <1>1, <2>1 DEF SuperChecked, MountAt
  <2> QED BY <1>2, <1>5, <2>2, <2>3, <2>4 DEF DriverInv
<1> QED BY <1>6, <1>7

\* What is mounted is what initialize() has made.
LEMMA InvMountedIsInitialized == DriverInv => MountedIsInitialized
<1> SUFFICES ASSUME DriverInv, MountAt("mounted") PROVE MountedIsInitialized
  BY DEF MountedIsInitialized
<1>1. super /\ SuperComesLast
  BY DEF DriverInv, SuperChecked, ToolInv
<1> QED BY <1>1, Layout DEF SuperComesLast, MountedIsInitialized

\* gfs_readdir() emits one entry more.
LEMMA OneEntryMore ==
    ASSUME NEW S, NEW s \in Seq(S), NEW n \in 1 .. Len(s)
    PROVE  /\ Append(SubSeq(s, 1, n - 1), s[n]) = SubSeq(s, 1, n)
           /\ SubSeq(s, 1, Len(s)) = s
           /\ SubSeq(s, 1, n) \in Seq(S)
           /\ SubSeq(s, 1, 0) = << >>
OBVIOUS

\* An entry with another one behind it begins early enough.
LEMMA InnerInBounds ==
    ASSUME EntriesFit, entry_end \in Seq(Nat), NEW i \in 1 .. Len(root_dir), i # Len(root_dir)
    PROVE  EntryAt(i) <= LastPosition
<1>1. i \in 1 .. Len(entry_end) /\ i + 1 \in 1 .. Len(entry_end) /\ i + 1 # 1 /\ i + 1 - 1 = i
  BY DEF EntriesFit
<1>2. EntryAt(i) \in Nat /\ entry_end[i] \in Nat /\ entry_end[i + 1] \in Nat
  <2>1. \A k \in 1 .. Len(entry_end) : entry_end[k] \in Nat
    OBVIOUS
  <2>2. i # 1 => i - 1 \in 1 .. Len(entry_end)
    BY <1>1
  <2> QED BY <1>1, <2>1, <2>2 DEF EntryAt
<1>3. EntryAt(i) + direntry_bytes < entry_end[i]
  BY <1>1 DEF EntriesFit
<1>4. EntryAt(i + 1) + direntry_bytes < entry_end[i + 1] /\ entry_end[i + 1] <= DIR_BYTES
  BY <1>1 DEF EntriesFit
<1>5. EntryAt(i + 1) = entry_end[i]
  BY <1>1 DEF EntryAt
<1> QED BY <1>2, <1>3, <1>4, <1>5, ToolAssumption DEF LastPosition, direntry_bytes, sizeof_direntry

LEMMA Keeps_Directory ==
    ASSUME DriverInv,
           \/ opendir \/ gfs_readdir
           \/ \E x, y \in 0 .. freemap_blocksize : gfs_statfs(x, y)
    PROVE  DriverInv'
<1>1. /\ UNCHANGED toolVars
      /\ UNCHANGED <<loaded, icaches, mount_pc, rc, module_refs, super_sup, s_root>>
      /\ MountAt("mounted")
  BY DEF opendir, gfs_readdir, gfs_emit_entry, gfs_out_of_bounds, gfs_unreadable_page,
         Reading, gfs_statfs, sb_state
<1>2. /\ ToolInv' /\ BitsOK' /\ super' = super /\ pc' = pc
      /\ root_dir' = root_dir /\ entry_end' = entry_end
  BY <1>1, ToolStands DEF DriverInv
<1>3. gfs_get_page = root_dir /\ root_dir \in Seq(PartitionBlocks) /\ Len(root_dir) >= 2
  BY <1>1, InvMountedIsInitialized
     DEF MountedIsInitialized, gfs_get_page, gfs_get_block, DriverInv, ToolInv, ToolTypeOK
<1>4. Len(root_dir) \in Nat
  BY <1>3
<1>5. /\ ctx_pos \in 0 .. Len(root_dir) /\ listing \in Seq(PartitionBlocks)
      /\ stopped \in {"no", "position", "page"} /\ pinned \subseteq Metadata
  BY DEF DriverInv, DriverTypeOK
<1>6. /\ ctx_pos # 0 => listing = SubSeq(root_dir, 1, ctx_pos - 1)
      /\ ctx_pos = 0 => listing \in {<< >>, root_dir}
      /\ ctx_pos = 0 /\ listing # << >> => EntryAt(Len(root_dir)) <= LastPosition
  BY DEF DriverInv, ListingOK, ListingComplete
<1>7. EntryAt(Len(root_dir))' = EntryAt(Len(root_dir))
  BY <1>2 DEF EntryAt
<1>8. /\ ListingOK' /\ ctx_pos' \in 0 .. Len(root_dir) /\ listing' \in Seq(PartitionBlocks)
      /\ stopped' \in {"no", "position", "page"}
      /\ pinned' \subseteq Metadata /\ (0 \in pinned' <=> 0 \in pinned)
  <2>1. CASE opendir
    <3>1. ctx_pos' = 1 /\ listing' = << >> /\ stopped' = "no" /\ pinned' = pinned
      BY <2>1 DEF opendir, sb_state
    <3>2. SubSeq(root_dir, 1, 1 - 1) = << >> /\ 1 \in 0 .. Len(root_dir)
      BY <1>3, OneEntryMore
    <3>3. ListingOK'
      BY <1>1, <1>2, <3>1, <3>2 DEF ListingOK, ListingComplete, MountAt
    <3> QED BY <1>5, <3>1, <3>2, <3>3, EmptySeq
  <2>2. CASE gfs_emit_entry
    <3>1. /\ ctx_pos \in 1 .. Len(root_dir) /\ listing = SubSeq(root_dir, 1, ctx_pos - 1)
          /\ EntryAt(ctx_pos) <= LastPosition
      BY <1>4, <1>5, <1>6, <2>2 DEF gfs_emit_entry, InBounds
    <3>2. listing' = SubSeq(root_dir, 1, ctx_pos) /\ listing' \in Seq(PartitionBlocks)
      BY <1>3, <2>2, <3>1, OneEntryMore DEF gfs_emit_entry
    <3>3. pinned' = pinned /\ stopped' = "no"
      BY <2>2 DEF gfs_emit_entry, Reading, sb_state
    <3>4. ctx_pos' = IF ctx_pos = Len(root_dir) THEN 0 ELSE ctx_pos + 1
      BY <1>3, <2>2 DEF gfs_emit_entry, NextPos
    <3>5. ctx_pos = Len(root_dir) => listing' = root_dir
      BY <1>3, <3>1, <3>2, OneEntryMore
    <3>6. ctx_pos # Len(root_dir) => ctx_pos' # 0 /\ ctx_pos' - 1 = ctx_pos
      BY <1>4, <3>1, <3>4
    <3>7. ListingOK'
      BY <1>1, <1>2, <1>7, <3>1, <3>2, <3>3, <3>4, <3>5, <3>6 DEF ListingOK, ListingComplete, MountAt
    <3>8. ctx_pos' \in 0 .. Len(root_dir)
      BY <1>4, <3>1, <3>4
    <3> QED BY <1>5, <3>2, <3>3, <3>7, <3>8
  <2>3. CASE gfs_out_of_bounds
    <3>1. /\ ctx_pos' = ctx_pos /\ listing' = listing /\ stopped' = "position" /\ pinned' = pinned
          /\ ctx_pos # 0 \/ listing # << >>
          /\ ctx_pos # 0 => ~ (EntryAt(ctx_pos) <= LastPosition)
      BY <2>3 DEF gfs_out_of_bounds, Reading, InBounds, sb_state
    <3>2. listing = IF EntryAt(Len(root_dir)) <= LastPosition THEN root_dir
                    ELSE SubSeq(root_dir, 1, Len(root_dir) - 1)
      <4>1. CASE ctx_pos = 0
        BY <1>6, <3>1, <4>1
      <4>2. CASE ctx_pos # 0
        <5>1. ctx_pos \in 1 .. Len(root_dir)
          BY <1>4, <1>5, <4>2
        <5>2. EntriesFit /\ entry_end \in Seq(Nat)
          BY <1>1 DEF DriverInv, SuperChecked, ToolInv, ToolTypeOK
        <5>3. ctx_pos = Len(root_dir)
          BY <3>1, <4>2, <5>1, <5>2, InnerInBounds
        <5> QED BY <1>6, <3>1, <4>2, <5>3
      <4> QED BY <4>1, <4>2
    <3>3. ListingOK'
      BY <1>1, <1>2, <1>6, <1>7, <3>1, <3>2 DEF ListingOK, ListingComplete, MountAt
    <3> QED BY <1>5, <3>1, <3>3
  <2>4. CASE gfs_unreadable_page
    <3>1. ctx_pos' = ctx_pos /\ listing' = listing /\ stopped' = "page" /\ pinned' = pinned
      BY <2>4 DEF gfs_unreadable_page, Reading, sb_state
    <3>2. ListingOK'
      BY <1>1, <1>2, <1>6, <1>7, <3>1 DEF ListingOK, ListingComplete, MountAt
    <3> QED BY <1>5, <3>1, <3>2
  <2>5. CASE \E x, y \in 0 .. freemap_blocksize : gfs_statfs(x, y)
    <3>1. PICK x \in 0 .. freemap_blocksize, y \in 0 .. freemap_blocksize : gfs_statfs(x, y)
      BY <2>5
    <3>2. pinned' = pinned \cup 1 .. x \cup (freemap_blocksize + 1) .. (freemap_blocksize + y)
      BY <3>1 DEF gfs_statfs
    <3>3. /\ 1 .. x \subseteq 1 .. 2 * freemap_blocksize
          /\ (freemap_blocksize + 1) .. (freemap_blocksize + y) \subseteq 1 .. 2 * freemap_blocksize
      <4>1. freemap_blocksize \in Nat
        BY DivUpCovers, LayoutAssumption DEF freemap_blocksize
      <4> QED BY <4>1
    <3>4. pinned' \subseteq Metadata /\ (0 \in pinned' <=> 0 \in pinned)
      BY <1>5, <3>2, <3>3, DriverLayout
    <3>5. UNCHANGED dir_state
      BY <3>1 DEF gfs_statfs
    <3> QED BY <1>1, <1>2, <3>4, <3>5, SameListing DEF MountAt
  <2> QED BY <2>1, <2>2, <2>3, <2>4, <2>5 DEF gfs_readdir
<1>9. DriverTypeOK' /\ MountOK' /\ SuperChecked'
  BY <1>1, <1>2, <1>8 DEF DriverInv, DriverTypeOK, MountOK, SuperChecked, Holds, MountAt, At
<1> QED BY <1>2, <1>8, <1>9 DEF DriverInv
-----------------------------------------------------------------------------
LEMMA DriverNextOK == DriverInv /\ [DriverNext]_allVars => DriverInv'
<1> SUFFICES ASSUME DriverInv, [DriverNext]_allVars  PROVE DriverInv'
  OBVIOUS
<1>1. CASE DriverNext
  BY <1>1, Keeps_ToolStep, Keeps_Module, Keeps_Mount, Keeps_Unmount, Keeps_Directory
     DEF DriverNext
<1>2. CASE UNCHANGED allVars
  <2>1. UNCHANGED toolVars /\ UNCHANGED driverVars
    BY <1>2 DEF allVars
  <2>2. ToolInv' /\ BitsOK' /\ super' = super /\ pc' = pc /\ root_dir' = root_dir
    BY <2>1, ToolStands DEF DriverInv
  <2>3. ListingOK' /\ stopped' = stopped
    BY <2>1, SameListing DEF MountAt, driverVars, dir_state
  <2> QED BY <2>1, <2>2, <2>3 DEF DriverInv, DriverTypeOK, MountOK, SuperChecked,
             Holds, MountAt, At, driverVars, sb_state, dir_state
<1> QED BY <1>1, <1>2

\* What a mount relies on at each of its steps, over whatever the tool has left,
\* for every size of the partition.
THEOREM DriverInvariance == DriverSpec => []DriverInv
BY DriverInitOK, DriverNextOK, PTL DEF DriverSpec

\* super.c:288-345: wherever gfs_fill_super() fails it gives back the reference, the
\* structure and the buffer, and an unmount leaves none of them.
THEOREM MountsHoldTheirOwn == DriverSpec => []MountHoldsItsOwn
<1>1. DriverInv => MountHoldsItsOwn
  BY DEF DriverInv, MountOK, SuperChecked, Holds, MountHoldsItsOwn, MountAt
<1> QED BY <1>1, DriverInvariance, PTL

\* super.c:306: the magic number is enough for a mount, however often the tool was
\* killed on the partition.
THEOREM OnlyInitializedIsMounted == DriverSpec => []MountedIsInitialized
BY InvMountedIsInitialized, DriverInvariance, PTL

\* dir.c:114, 131: a listing shows each entry once and in order, up to the last one or,
\* where that begins in the block's last bytes, the one before it.
THEOREM ListingsComplete == DriverSpec => []ListingComplete
<1>1. DriverInv => ListingComplete
  BY DEF DriverInv, ListingOK
<1> QED BY <1>1, DriverInvariance, PTL

LEMMA BlockCount == IsFiniteSet(PartitionBlocks) /\ Cardinality(PartitionBlocks) = block_count
<1>1. block_count \in Int /\ block_count - 1 \in Int
  BY LayoutAssumption
<1>2. /\ IsFiniteSet(0 .. block_count - 1)
      /\ Cardinality(0 .. block_count - 1) =
            IF 0 > block_count - 1 THEN 0 ELSE (block_count - 1) - 0 + 1
  BY <1>1, FS_Interval
<1> QED BY <1>1, <1>2, LayoutAssumption DEF PartitionBlocks

LEMMA MapBitCount ==
    /\ IsFiniteSet(MapBits)
    /\ Cardinality(MapBits) = freemap_blocksize * MAP_BITS
    /\ freemap_blocksize * MAP_BITS < block_count + MAP_BITS
<1> DEFINE p == freemap_blocksize * MAP_BITS
<1>1. p \in Nat
  BY DriverLayout
<1>2. MapBits = 0 .. p - 1
  BY DEF MapBits
<1>3. p < block_count + MAP_BITS
  <2> DEFINE x == block_count + MAP_BITS - 1
  <2>1. x \in Nat
    BY LayoutAssumption
  <2>2. MAP_BITS \in Nat \ {0}
    BY LayoutAssumption
  <2>3. p = (x \div MAP_BITS) * MAP_BITS
    BY DEF freemap_blocksize, DivUp
  <2> HIDE DEF x
  <2>4. /\ x \div MAP_BITS \in Nat /\ x % MAP_BITS \in 0 .. MAP_BITS - 1
        /\ x = MAP_BITS * (x \div MAP_BITS) + (x % MAP_BITS)
    BY <2>1, <2>2, Division
  <2>5. MAP_BITS * (x \div MAP_BITS) = (x \div MAP_BITS) * MAP_BITS
    BY <2>2, <2>4
  <2>6. p <= x
    BY <1>1, <2>1, <2>2, <2>3, <2>4, <2>5
  <2> QED BY <1>1, <2>6, LayoutAssumption DEF x
<1> HIDE DEF p
<1>4. IsFiniteSet(0 .. p - 1) /\ Cardinality(0 .. p - 1) = IF 0 > p - 1 THEN 0 ELSE (p - 1) - 0 + 1
  BY <1>1, FS_Interval
<1>5. IsFiniteSet(MapBits) /\ Cardinality(MapBits) = p /\ p < block_count + MAP_BITS
  BY <1>1, <1>2, <1>3, <1>4
<1> QED BY <1>5 DEF p

\* The elements of S that are not in T.
LEMMA Complement ==
    ASSUME NEW S, IsFiniteSet(S), NEW T \in SUBSET S
    PROVE  /\ Cardinality(S \ T) = Cardinality(S) - Cardinality(T)
           /\ IsFiniteSet(T) /\ IsFiniteSet(S \ T)
           /\ Cardinality(S) \in Nat /\ Cardinality(T) \in Nat /\ Cardinality(S \ T) \in Nat
           /\ Cardinality(T) <= Cardinality(S)
<1>1. IsFiniteSet(T) /\ Cardinality(T) <= Cardinality(S)
  BY FS_Subset
<1>2. /\ IsFiniteSet(S \ T)
      /\ Cardinality(S \ T) = Cardinality(S) - Cardinality(S \cap T)
  BY <1>1, FS_Difference
<1>3. S \cap T = T
  OBVIOUS
<1> QED BY <1>1, <1>2, <1>3, FS_CardinalityType

\* super.c:189-206: statfs counts whole blocks of the map.  The tool sets a bit behind the
\* last block only when all others are set, and then the unsigned difference wraps.
THEOREM StatfsCounts == DriverSpec => []StatfsCountsFree
<1>1. ASSUME DriverInv, MountAt("mounted")
      PROVE  f_bfree(freemap_blocksize) =
                IF block_freemap \subseteq PartitionBlocks
                THEN Cardinality(PartitionBlocks \ block_freemap)
                ELSE UINT_VALUES - Cardinality(block_freemap \ PartitionBlocks)
  <2> DEFINE n == Cardinality(block_freemap)
  <2>1. block_freemap \subseteq MapBits /\ \A b \in block_freemap : 0 .. b \subseteq block_freemap
    BY <1>1 DEF DriverInv, SuperChecked, BitsOK, ToolInv, ToolTypeOK
  <2>2. {b \in block_freemap : b < freemap_blocksize * MAP_BITS} = block_freemap
    <3>1. \A b \in block_freemap : b < freemap_blocksize * MAP_BITS
      BY <2>1, DriverLayout, InMapBits
    <3> QED BY <3>1
  <2>3. f_bfree(freemap_blocksize) = (block_count - n) % UINT_VALUES
    <3>1. freemap_blocksize \in Nat
      BY DivUpCovers, LayoutAssumption DEF freemap_blocksize
    <3>2. ~ (freemap_blocksize < freemap_blocksize)
      BY <3>1
    <3> QED BY <2>2, <3>2 DEF f_bfree, gfs_freespace
  <2>4. n \in Nat /\ n <= freemap_blocksize * MAP_BITS /\ IsFiniteSet(block_freemap)
    BY <2>1, MapBitCount, Complement
  <2>5. freemap_blocksize * MAP_BITS \in Nat
    BY DriverLayout
  <2>6. CASE block_freemap \subseteq PartitionBlocks
    <3> DEFINE free == Cardinality(PartitionBlocks \ block_freemap)
    <3>1. free = block_count - n /\ free \in Nat
      BY <2>6, BlockCount, Complement
    <3> HIDE DEF free, n
    <3>2. free <= block_count
      BY <2>4, <3>1, LayoutAssumption
    <3>3. free % UINT_VALUES = free
      BY <3>1, <3>2, LayoutAssumption, DriverAssumption
    <3>4. f_bfree(freemap_blocksize) = free
      BY <2>3, <3>1, <3>3
    <3> QED BY <2>6, <3>4 DEF free
  <2>7. CASE ~ (block_freemap \subseteq PartitionBlocks)
    <3> DEFINE extra == Cardinality(block_freemap \ PartitionBlocks)
    <3>1. PICK b \in block_freemap : b \notin PartitionBlocks
      BY <2>7
    <3>2. b \in Nat /\ b >= block_count
      BY <2>1, <3>1, Layout, LayoutAssumption DEF PartitionBlocks
    <3>3. PartitionBlocks \subseteq 0 .. b
      BY <3>2, LayoutAssumption DEF PartitionBlocks
    <3>4. PartitionBlocks \subseteq block_freemap
      BY <2>1, <3>1, <3>3
    <3>5. extra = n - block_count /\ extra \in Nat
      BY <2>4, <3>4, BlockCount, Complement
    <3>6. extra # 0
      <4>1. b \in block_freemap \ PartitionBlocks /\ IsFiniteSet(block_freemap \ PartitionBlocks)
        BY <2>4, <3>1, <3>4, Complement
      <4> QED BY <4>1, FS_EmptySet
    <3> HIDE DEF extra, n
    <3>7. extra < MAP_BITS /\ extra > 0
      BY <2>4, <2>5, <3>5, <3>6, MapBitCount, LayoutAssumption
    <3>8. block_count - n = - extra
      BY <2>4, <3>5, LayoutAssumption
    <3>9. (- extra) % UINT_VALUES = UINT_VALUES - extra
      BY <3>5, <3>7, LayoutAssumption, DriverAssumption
    <3>10. f_bfree(freemap_blocksize) = UINT_VALUES - extra
      BY <2>3, <3>8, <3>9
    <3> QED BY <2>7, <3>10 DEF extra
  <2> QED BY <2>6, <2>7
<1>2. ASSUME NEW blocks_read \in 0 .. freemap_blocksize - 1
      PROVE  f_bfree(blocks_read) = block_count
  <2>1. freemap_blocksize \in Nat
    BY DivUpCovers, LayoutAssumption DEF freemap_blocksize
  <2>2. gfs_freespace(blocks_read) = 0
    BY <2>1 DEF gfs_freespace
  <2>3. block_count - 0 = block_count /\ block_count % UINT_VALUES = block_count
    BY LayoutAssumption, DriverAssumption
  <2> QED BY <2>2, <2>3 DEF f_bfree
<1>3. DriverInv => StatfsCountsFree
  BY <1>1, <1>2 DEF StatfsCountsFree
<1> QED BY <1>3, DriverInvariance, PTL
=============================================================================
