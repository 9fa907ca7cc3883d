--------------------- MODULE FileSystemExtensions_proofs ---------------------
(***************************************************************************)
(* Proofs about the specifications beside FileSystem's own: a scan of the  *)
(* directory between other calls (DirectoryScan), a process that may be    *)
(* killed at any point (FileSystemCrash), and callers with several writers *)
(* on one file (LooseSpec).                                                *)
(***************************************************************************)
EXTENDS FileSystemCounts_proofs, DirectoryScan, FileSystemCrash

-----------------------------------------------------------------------------
(***************************************************************************)
(* The scan.                                                               *)
(***************************************************************************)
\* The names that stayed are those of entries, and a scan needs an object.
ScanTypes == /\ scan_index \in Nat
             /\ reported \in [Name -> Nat]
             /\ stayed \subseteq NamesIn(root_directory)
             /\ scanning => up

ScanInv == IInv /\ NamesUnique /\ DiskNames /\ AllNamed /\ ScanTypes /\ ScanReportsEachOnce

LEMMA InitScanInv == ScanInit => ScanInv
<1> SUFFICES ASSUME ScanInit  PROVE ScanInv
  OBVIOUS
<1>1. NamesUnique /\ DiskNames
  BY EmptyRootEmpty, NoFilesNoNames DEF ScanInit, Init, NamesUnique, DiskNames
<1>2. ScanTypes /\ ScanReportsEachOnce
  BY DEF ScanInit, ScanTypes, ScanReportsEachOnce
<1> QED BY <1>1, <1>2, InitIInv, InitNamed DEF ScanInit, ScanInv

\* A step that leaves the file system alone.
LEMMA FilesLeftAlone ==
    IInv /\ NamesUnique /\ DiskNames /\ AllNamed /\ UNCHANGED vars
       => IInv' /\ NamesUnique' /\ DiskNames' /\ AllNamed'
BY NextIInv, NextNames, NextNamed

LEMMA OpenDirScanInv == ScanInv /\ open_dir => ScanInv'
<1> SUFFICES ASSUME ScanInv, open_dir  PROVE ScanInv'
  OBVIOUS
<1>1. IInv' /\ NamesUnique' /\ DiskNames' /\ AllNamed' /\ UNCHANGED <<up, root_directory>>
  BY FilesLeftAlone DEF ScanInv, open_dir, vars, memory
<1>2. ScanTypes'
  BY <1>1 DEF open_dir, Ready, ScanTypes
<1>3. ScanReportsEachOnce'
  <2> SUFFICES ASSUME NEW i \in Files(root_directory)
               PROVE  reported'[root_directory[i].name] = IF i < scan_index' THEN 1 ELSE 0
    BY <1>1 DEF ScanReportsEachOnce
  <2>1. root_directory[i].name \in Name /\ i \in Nat
    BY DEF ScanInv, AllNamed, Named, Files, DirIndexes
  <2> QED BY <2>1 DEF open_dir
<1> QED BY <1>1, <1>2, <1>3 DEF ScanInv

LEMMA FoundScanInv == ScanInv /\ next_dir_found => ScanInv'
<1> SUFFICES ASSUME ScanInv, next_dir_found  PROVE ScanInv'
  OBVIOUS
<1>1. /\ IInv' /\ NamesUnique' /\ DiskNames' /\ AllNamed'
      /\ UNCHANGED <<up, root_directory, scanning, stayed>> /\ scanning
  BY FilesLeftAlone DEF ScanInv, next_dir_found, vars, memory
<1>2. PICK i \in Ahead :
         /\ \A k \in Ahead : i <= k
         /\ scan_index' = i + 1
         /\ reported' = [reported EXCEPT ![root_directory[i].name] = @ + 1]
  BY DEF next_dir_found
<1>3. i \in Files(root_directory) /\ i \in Nat /\ scan_index <= i
  BY <1>2 DEF Ahead, Files, DirIndexes
<1>4. root_directory[i].name \in Name /\ scan_index \in Nat /\ reported \in [Name -> Nat]
  BY <1>3 DEF ScanInv, AllNamed, Named, ScanTypes
<1>5. ScanTypes'
  BY <1>1, <1>2, <1>3, <1>4 DEF ScanInv, ScanTypes
<1>6. ScanReportsEachOnce'
  <2> SUFFICES ASSUME NEW k \in Files(root_directory), root_directory[k].name \in stayed
               PROVE  reported'[root_directory[k].name] = IF k < i + 1 THEN 1 ELSE 0
    BY <1>1, <1>2 DEF ScanReportsEachOnce
  <2>1. /\ k \in Nat /\ root_directory[k].name \in Name
        /\ reported[root_directory[k].name] = IF k < scan_index THEN 1 ELSE 0
    BY <1>1 DEF ScanInv, AllNamed, Named, ScanReportsEachOnce, Files, DirIndexes
  <2>2. CASE k = i
    <3>1. reported[root_directory[i].name] = 0
      BY <1>3, <1>4, <2>1, <2>2
    <3>2. reported'[root_directory[i].name] = 1
      BY <1>2, <1>4, <3>1
    <3> QED BY <1>3, <2>2, <3>2
  <2>3. CASE k # i
    <3>1. root_directory[k].name # root_directory[i].name
      BY <1>3, <2>3 DEF ScanInv, NamesUnique, UniqueNames
    <3>2. reported'[root_directory[k].name] = reported[root_directory[k].name]
      BY <1>2, <1>4, <2>1, <3>1
    <3>3. k >= scan_index => i <= k
      BY <1>2, <2>1 DEF Ahead
    <3>4. k < scan_index <=> k < i + 1
      BY <1>3, <1>4, <2>1, <2>3, <3>3
    <3> QED BY <2>1, <3>2, <3>4
  <2> QED BY <2>2, <2>3
<1> QED BY <1>1, <1>5, <1>6 DEF ScanInv

LEMMA EndScanInv == ScanInv /\ next_dir_end => ScanInv'
<1> SUFFICES ASSUME ScanInv, next_dir_end  PROVE ScanInv'
  OBVIOUS
<1>1. /\ IInv' /\ NamesUnique' /\ DiskNames' /\ AllNamed'
      /\ UNCHANGED <<up, root_directory>>
  BY FilesLeftAlone DEF ScanInv, next_dir_end, vars, memory
<1>2. ScanTypes' /\ ScanReportsEachOnce'
  BY <1>1, SizeAssumption DEF ScanInv, next_dir_end, ScanTypes, ScanReportsEachOnce
<1> QED BY <1>1, <1>2 DEF ScanInv

\* A file that keeps its name in the directory keeps its entry, so no other call can
\* carry it past the scan or back before it.
LEMMA OtherCallScanInv == ScanInv /\ OtherCall => ScanInv'
<1> SUFFICES ASSUME ScanInv, OtherCall  PROVE ScanInv'
  OBVIOUS
<1>1. IInv' /\ NamesUnique' /\ DiskNames' /\ AllNamed'
  BY NextIInv, NextNames, NextNamed DEF ScanInv, OtherCall
<1>2. ScanTypes'
  BY DEF ScanInv, OtherCall, ScanTypes
<1>3. ScanReportsEachOnce'
  <2> SUFFICES ASSUME NEW i \in Files(root_directory'), scanning',
                      root_directory'[i].name \in stayed'
               PROVE  reported'[root_directory'[i].name] = IF i < scan_index' THEN 1 ELSE 0
    BY DEF ScanReportsEachOnce
  <2>1. scanning /\ up /\ UNCHANGED <<scan_index, reported>>
    BY DEF ScanInv, OtherCall, ScanTypes
  <2>2. /\ root_directory'[i].name \in stayed
        /\ root_directory'[i].name \in NamesIn(root_directory)
    BY DEF ScanInv, OtherCall, ScanTypes
  <2>3. i \in Files(root_directory) /\ root_directory'[i].name = root_directory[i].name
    BY <2>1, <2>2, LiveStep DEF ScanInv, OtherCall, EntriesStay, NamesIn
  <2> QED BY <2>1, <2>2, <2>3 DEF ScanInv, ScanReportsEachOnce
<1> QED BY <1>1, <1>2, <1>3 DEF ScanInv

LEMMA NextScanInv == ScanInv /\ [ScanNext]_<<vars, scanVars>> => ScanInv'
<1> SUFFICES ASSUME ScanInv, [ScanNext]_<<vars, scanVars>>  PROVE ScanInv'
  OBVIOUS
<1>1. CASE UNCHANGED <<vars, scanVars>>
  <2>1. IInv' /\ NamesUnique' /\ DiskNames' /\ AllNamed' /\ UNCHANGED <<up, root_directory>>
    BY <1>1, FilesLeftAlone DEF ScanInv, vars, memory
  <2> QED BY <1>1, <2>1 DEF ScanInv, scanVars, ScanTypes, ScanReportsEachOnce
<1> QED BY <1>1, OpenDirScanInv, FoundScanInv, EndScanInv, OtherCallScanInv DEF ScanNext

\* A file that is in the directory throughout a scan is reported exactly once, never
\* twice, whatever is created, removed, truncated or formatted between two calls of
\* next_dir() (open_dir, next_dir, open, remove).
THEOREM ScanStaysExact == ScanSpec => []ScanReportsEachOnce
<1>1. ScanInv => ScanReportsEachOnce
  BY DEF ScanInv
<1> QED BY <1>1, InitScanInv, NextScanInv, PTL DEF ScanSpec

\* When next_dir() returns false, every file that stayed has been reported once.
THEOREM ScanFinishesComplete == ScanSpec => ScanEndsComplete
<1> DEFINE Complete == scanning /\ ~scanning' /\ up' => \A n \in stayed : reported[n] = 1
<1>1. ScanInv /\ [ScanNext]_<<vars, scanVars>> => [Complete]_<<vars, scanVars>>
  <2> SUFFICES ASSUME ScanInv, ScanNext, scanning, ~scanning', up', NEW n \in stayed
               PROVE  reported[n] = 1
    OBVIOUS
  <2>1. next_dir_end
    BY DEF ScanNext, open_dir, next_dir_found, OtherCall
  <2>2. PICK i \in Files(root_directory) : root_directory[i].name = n
    BY DEF ScanInv, ScanTypes, NamesIn
  <2>3. i \in Nat /\ scan_index \in Nat /\ i \notin Ahead
    BY <2>1 DEF next_dir_end, ScanInv, ScanTypes, Files, DirIndexes
  <2>4. i < scan_index
    BY <2>2, <2>3 DEF Ahead
  <2> QED BY <2>2, <2>4 DEF ScanInv, ScanReportsEachOnce
<1> QED BY <1>1, InitScanInv, NextScanInv, PTL DEF ScanSpec, ScanEndsComplete
-----------------------------------------------------------------------------
(***************************************************************************)
(* The crash.  An object that is not torn satisfies the invariant of a     *)
(* FileSystem that never crashes; a torn one has done nothing yet.  The    *)
(* disk is good whenever it is intact, and not when there happens to be no *)
(* object, which is what DiskConsistent says where nothing crashes.        *)
(***************************************************************************)
NothingOpen == call.op = "idle" /\ NoHandles

DiskGood == /\ Consistent(disk_FAT, disk_root)
            /\ SizesMatch(disk_FAT, disk_root)
            /\ UniqueNames(disk_root)

CrashInv == /\ TypeOK /\ FlagsOK
            /\ up /\ ~torn => FullInv
            /\ ~up \/ torn => NothingOpen
            /\ intact => DiskGood

\* With no object, or a torn one, there is no call for CallOK to speak of.
LEMMA NothingOpenFits ==
    NothingOpen => CallOK /\ HandlesOnFiles /\ OneWriter /\ WritersAtEnd /\ ReadersInPlace
                   /\ CallFits
BY DEF NothingOpen, NoHandles, CallOK, HandlesOnFiles, OneWriter, WritersAtEnd, ReadersInPlace,
       CallFits

LEMMA DiscardedNothingOpen == Discarded => NothingOpen'
BY AllClosedClosed DEF Discarded, NothingOpen, NoHandles, Idle

\* Between objects, with a disk that is intact or has never been formatted, the
\* state is one of the FileSystem that does not crash.
LEMMA CrashInvBetween ==
    CrashInv /\ ~up /\ (disk_boot => intact) => FullInv
<1> SUFFICES ASSUME CrashInv, ~up, disk_boot => intact  PROVE FullInv
  OBVIOUS
<1>1. TypeOK /\ FlagsOK /\ NothingOpen
  BY DEF CrashInv
<1>2. ~formatted_flag /\ Files(root_directory) = {}
  BY <1>1 DEF FlagsOK
<1>3. disk_boot => DiskGood
  BY DEF CrashInv
<1>4. FATConsistent /\ DiskConsistent /\ DiskNames /\ DiskSizes
  BY <1>2, <1>3 DEF FATConsistent, DiskConsistent, DiskNames, DiskSizes, DiskGood
<1>5. NamesUnique /\ SizeMatchesChain
  BY <1>2, NoFilesNoNames, NoFilesNoSizes DEF NamesUnique, SizeMatchesChain
<1> QED BY <1>1, <1>4, <1>5, NothingOpenFits DEF FullInv, IInv

LEMMA InitCrashInv == CrashInit => CrashInv
<1> SUFFICES ASSUME CrashInit  PROVE CrashInv
  OBVIOUS
<1>1. TypeOK /\ FlagsOK
  BY InitIInv DEF CrashInit, IInv
<1>2. NothingOpen
  BY AllClosedClosed DEF CrashInit, Init, NothingOpen, NoHandles, Idle
<1> QED BY <1>1, <1>2 DEF CrashInit, Init, CrashInv

LEMMA CrashCrashInv == CrashInv /\ Crash => CrashInv'
<1> SUFFICES ASSUME CrashInv, Crash  PROVE CrashInv'
  OBVIOUS
<1>1. Discarded /\ UNCHANGED <<disk_boot, disk_FAT, disk_root, disk_data, intact>>
  BY DEF Crash, disk
<1>2. TypeOK'
  BY <1>1, ConstantTypes DEF Discarded, CrashInv, TypeOK
<1>3. FlagsOK'
  BY <1>1, EmptyRootEmpty DEF Discarded, FlagsOK
<1>4. NothingOpen' /\ ~up'
  BY <1>1, DiscardedNothingOpen DEF Discarded
<1>5. intact' => DiskGood'
  BY <1>1 DEF CrashInv, DiskGood
<1> QED BY <1>2, <1>3, <1>4, <1>5 DEF CrashInv

\* Formatting makes a torn object a sound one, whatever it was constructed from.
LEMMA RepairCrashInv == CrashInv /\ Repair => CrashInv'
<1> SUFFICES ASSUME CrashInv, Repair  PROVE CrashInv'
  OBVIOUS
<1>1. /\ up /\ up' /\ disk_boot' /\ formatted_flag'
      /\ FAT' = FormattedFAT /\ root_directory' = EmptyRoot
      /\ UNCHANGED <<handle_table, call, disk_FAT, disk_root, disk_data, intact>>
      /\ torn /\ torn' = FALSE
  BY DEF Repair, Ready, Format
<1>2. TypeOK' /\ FlagsOK'
  <2>1. disk_boot' = TRUE /\ formatted_flag' = TRUE /\ up' = up
    BY DEF Repair, Format
  <2>2. TypeOK'
    BY <1>1, <2>1, ConstantTypes DEF CrashInv, TypeOK
  <2> QED BY <1>1, <2>1, <2>2 DEF FlagsOK
<1>3. NothingOpen'
  BY <1>1 DEF CrashInv, NothingOpen, NoHandles
<1>4. /\ CallOK' /\ HandlesOnFiles' /\ OneWriter' /\ WritersAtEnd' /\ ReadersInPlace'
      /\ CallFits'
  BY <1>3 DEF NothingOpen, NoHandles, CallOK, HandlesOnFiles, OneWriter, WritersAtEnd,
     ReadersInPlace, CallFits
<1>5. FATConsistent' /\ NamesUnique' /\ SizeMatchesChain'
  BY <1>1, FormattedConsistent, EmptyRootEmpty, NoFilesNoNames, NoFilesNoSizes
     DEF FATConsistent, NamesUnique, SizeMatchesChain
<1>6. DiskConsistent' /\ DiskNames' /\ DiskSizes'
  BY <1>1 DEF DiskConsistent, DiskNames, DiskSizes
<1>7. FullInv'
  BY <1>2, <1>4, <1>5, <1>6 DEF FullInv, IInv
<1>8. intact' => DiskGood'
  BY <1>1 DEF CrashInv, DiskGood
<1> QED BY <1>1, <1>2, <1>7, <1>8 DEF CrashInv

\* The two tables on the disk are written by flush() and by nothing else.
LEMMA TablesWritten ==
    IInv /\ Next => \/ UNCHANGED <<disk_FAT, disk_root>>
                    \/ call'.op = "flush" /\ call.op = "idle"
                    \/ call.op = "flush" /\ FlushRoot
<1> SUFFICES ASSUME IInv, Next  PROVE \/ UNCHANGED <<disk_FAT, disk_root>>
                                      \/ call'.op = "flush" /\ call.op = "idle"
                                      \/ call.op = "flush" /\ FlushRoot
  OBVIOUS
<1>1. CASE Loop
  <2>1. ReadByte \/ ReadLastByte \/ ReadEnd \/ ReadThrows \/ WriteEnd \/ WriteThrows
           => UNCHANGED <<disk_FAT, disk_root>>
    BY DEF ReadByte, ReadLastByte, ReadEnd, ReadThrows, WriteEnd, WriteThrows, disk
  <2>2. \A byte : PutByte(byte) \/ PutLastByte(byte) \/ NoFreeBlock(byte)
           => UNCHANGED <<disk_FAT, disk_root>>
    BY DEF PutByte, PutLastByte, NoFreeBlock, disk
  <2>3. FlushRoot => call.op = "flush"
    BY DEF FlushRoot
  <2> QED BY <1>1, <2>1, <2>2, <2>3 DEF Loop
<1>2. CASE Request
  <2>1. Construct \/ DestroyUnformatted \/ Format => UNCHANGED <<disk_FAT, disk_root>>
    BY DEF Construct, DestroyUnformatted, Format, disk
  <2>2. FlushFAT => call'.op = "flush" /\ call.op = "idle"
    BY DEF FlushFAT, Idle, Ready
  <2>3. \A n : OpenRead(n) \/ Create(n) \/ Truncate(n) \/ Remove(n)
           => UNCHANGED <<disk_FAT, disk_root>>
    BY DEF OpenRead, Create, Truncate, Remove, disk
  <2>4. \A h, count : Close(h) \/ ReadStart(h, count) \/ WriteStart(h, count)
           => UNCHANGED <<disk_FAT, disk_root>>
    BY DEF Close, ReadStart, WriteStart, Start, disk
  <2> QED BY <1>2, <2>1, <2>2, <2>3, <2>4 DEF Request
<1>3. CASE \E n \in Name : NoWriter(n) /\ OpenWrite(n)
  BY <1>3 DEF OpenWrite, disk
<1> QED BY <1>1, <1>2, <1>3 DEF Next

\* A step that leaves no object leaves nothing open.
LEMMA ObjectGone == up /\ Next /\ ~up' => Discarded
<1> SUFFICES ASSUME up, Next, ~up'  PROVE Discarded
  OBVIOUS
<1>1. CASE Loop
  <2>1. ~(ReadByte \/ ReadLastByte \/ ReadEnd \/ ReadThrows \/ WriteEnd \/ WriteThrows)
    BY DEF ReadByte, ReadLastByte, ReadEnd, ReadThrows, WriteEnd, WriteThrows
  <2>2. \A byte : ~(PutByte(byte) \/ PutLastByte(byte) \/ NoFreeBlock(byte))
    BY DEF PutByte, PutLastByte, NoFreeBlock
  <2> QED BY <1>1, <2>1, <2>2 DEF Loop, FlushRoot
<1>2. CASE Request
  <2>1. ~(Construct \/ FlushFAT \/ Format)
    BY DEF Construct, FlushFAT, Format
  <2>2. \A n : ~(OpenRead(n) \/ Create(n) \/ Truncate(n) \/ Remove(n))
    BY DEF OpenRead, Create, Truncate, Remove
  <2>3. \A h, count : ~(Close(h) \/ ReadStart(h, count) \/ WriteStart(h, count))
    BY DEF Close, ReadStart, WriteStart, Start
  <2> QED BY <1>2, <2>1, <2>2, <2>3 DEF Request, DestroyUnformatted
<1>3. CASE \E n \in Name : NoWriter(n) /\ OpenWrite(n)
  BY <1>3 DEF OpenWrite
<1> QED BY <1>1, <1>2, <1>3 DEF Next

\* Between objects only a constructor runs.
LEMMA OnlyConstruct == call.op = "idle" /\ ~up /\ Next => Construct
<1> SUFFICES ASSUME call.op = "idle", ~up, Next  PROVE Construct
  OBVIOUS
<1>1. ~Loop
  BY DEF Loop, ReadByte, ReadLastByte, ReadEnd, ReadThrows, PutByte, PutLastByte,
     NoFreeBlock, WriteEnd, WriteThrows, FlushRoot
<1>2. Request => Construct
  BY DEF Request, DestroyUnformatted, FlushFAT, Format, OpenRead, Create, Truncate, Remove,
     Close, ReadStart, WriteStart, Ready
<1>3. \A n : ~OpenWrite(n)
  BY DEF OpenWrite, Ready
<1> QED BY <1>1, <1>2, <1>3 DEF Next

\* A step of an object that is not torn is one of the FileSystem that does not crash.
LEMMA SoundStepCrashInv == WholeDisk /\ CrashInv /\ up /\ ~torn /\ Step => CrashInv'
<1> SUFFICES ASSUME WholeDisk, CrashInv, up, ~torn, Step  PROVE CrashInv'
  OBVIOUS
<1>1. FullInv /\ Next /\ FullInv' /\ ~torn'
  BY NextFullInv DEF CrashInv, Step
<1>2. TypeOK' /\ FlagsOK'
  BY <1>1 DEF FullInv, IInv
<1>3. ~up' => NothingOpen'
  BY <1>1, ObjectGone, DiscardedNothingOpen
<1>4. intact' => DiskGood'
  <2> SUFFICES ASSUME intact'  PROVE DiskGood'
    OBVIOUS
  <2>1. CASE call.op = "flush" /\ FlushRoot
    <3>1. /\ disk_FAT' = FAT /\ disk_root' = root_directory /\ formatted_flag
      BY <1>1, <2>1 DEF FlushRoot, FullInv, IInv, CallOK
    <3> QED BY <1>1, <3>1
            DEF FullInv, IInv, FATConsistent, NamesUnique, SizeMatchesChain, DiskGood
  <2>2. CASE UNCHANGED <<disk_FAT, disk_root>> /\ call.op # "flush"
    <3>1. intact
      BY <2>2 DEF Step
    <3> QED BY <2>2, <3>1 DEF CrashInv, DiskGood
  <2>3. CASE call'.op = "flush" /\ call.op = "idle"
    BY <2>3 DEF Step
  <2>4. call.op = "flush" => FlushRoot
    <3> SUFFICES ASSUME call.op = "flush"  PROVE FlushRoot
      OBVIOUS
    <3>1. ~Request
      BY DEF Request, Construct, DestroyUnformatted, FlushFAT, Format, OpenRead, Create,
         Truncate, Remove, Close, ReadStart, WriteStart, Ready
    <3>2. \A n : ~OpenWrite(n)
      BY DEF OpenWrite, Ready
    <3> QED BY <1>1, <3>1, <3>2 DEF Next, Loop, ReadByte, ReadLastByte, ReadEnd, ReadThrows,
               PutByte, PutLastByte, NoFreeBlock, WriteEnd, WriteThrows
  <2> QED BY <1>1, <2>1, <2>2, <2>3, <2>4, TablesWritten DEF FullInv
<1> QED BY <1>1, <1>2, <1>3, <1>4 DEF CrashInv

\* A constructor on an intact disk, or one never formatted, makes a sound object; on
\* any other disk a torn one.
LEMMA ConstructCrashInv == WholeDisk /\ CrashInv /\ ~up /\ Step => CrashInv'
<1> SUFFICES ASSUME WholeDisk, CrashInv, ~up, Step  PROVE CrashInv'
  OBVIOUS
<1>1. NothingOpen
  BY DEF CrashInv
<1>2. Construct /\ Next
  BY <1>1, OnlyConstruct DEF NothingOpen, Step
<1>3. /\ UNCHANGED <<call, disk_boot, disk_FAT, disk_root, disk_data>>
      /\ up' /\ handle_table' = AllClosed
  BY <1>2 DEF Construct, disk
<1>4. NothingOpen'
  BY <1>1, <1>3, AllClosedClosed DEF NothingOpen, NoHandles
<1>5. TypeOK' /\ FlagsOK'
  <2>1. TypeOK'
    BY <1>2, <1>3, ConstantTypes DEF Construct, CrashInv, TypeOK
  <2>2. FlagsOK'
    BY <1>2, <1>3 DEF Construct, CrashInv, FlagsOK
  <2> QED BY <2>1, <2>2
<1>6. intact' => DiskGood'
  <2>1. intact' => intact
    BY <1>1 DEF Step, NothingOpen
  <2> QED BY <1>3, <2>1 DEF CrashInv, DiskGood
<1>7. ~torn' => FullInv'
  <2> SUFFICES ASSUME ~torn'  PROVE FullInv'
    OBVIOUS
  <2>1. disk_boot => intact
    BY DEF Step
  <2>2. FullInv
    BY <2>1, CrashInvBetween
  <2> QED BY <1>2, <2>2, NextFullInv
<1> QED BY <1>4, <1>5, <1>6, <1>7 DEF CrashInv

LEMMA NextCrashInv == WholeDisk /\ CrashInv /\ [CrashNext]_crashVars => CrashInv'
<1> SUFFICES ASSUME WholeDisk, CrashInv, [CrashNext]_crashVars  PROVE CrashInv'
  OBVIOUS
<1>1. CASE UNCHANGED crashVars
  <2>1. UNCHANGED <<vars, torn, intact>>
    BY <1>1 DEF crashVars
  <2>2. FullInv => FullInv'
    BY <2>1, NextFullInv
  <2> QED BY <2>1, <2>2 DEF vars, memory, disk, CrashInv, TypeOK, FlagsOK, NothingOpen, NoHandles,
             DiskGood
<1>2. CASE (torn => ~up) /\ Step
  BY <1>2, SoundStepCrashInv, ConstructCrashInv
<1> QED BY <1>1, <1>2, CrashCrashInv, RepairCrashInv DEF CrashNext

LEMMA CrashInvariance == WholeDisk => (CrashSpec => []CrashInv)
<1> SUFFICES ASSUME WholeDisk  PROVE CrashSpec => []CrashInv
  OBVIOUS
<1>1. CrashInv /\ [CrashNext]_crashVars => CrashInv'
  BY NextCrashInv
<1> QED BY <1>1, InitCrashInv, PTL DEF CrashSpec

\* Wherever the process is killed, except between format() of a fresh device and the
\* end of the first flush() and between the two writes of a flush(), what the next
\* constructor loads is a file system that check() accepts (flush, ~FileSystem).
THEOREM RestartStaysChecked == WholeDisk => (CrashSpec => []RestartIsChecked)
<1> SUFFICES ASSUME WholeDisk  PROVE CrashSpec => []RestartIsChecked
  OBVIOUS
<1>1. CrashInv => RestartIsChecked
  <2> SUFFICES ASSUME DiskGood  PROVE CheckReturns(disk_FAT, disk_root)
    BY DEF CrashInv, RestartIsChecked
  <2>1. \A b \in Blocks : b \in Reserved \/ b \in DataBlocks
    BY SizeAssumption DEF Blocks, Reserved, DataBlocks, BOOT_BLOCK, FAT_BLOCK, ROOT_BLOCK
  <2> QED BY <2>1 DEF DiskGood, CheckReturns, Consistent, ReservedIntact, NoCrossLink, NoLostBlocks
<1> QED BY <1>1, CrashInvariance, PTL

\* An object constructed on an intact disk keeps its FAT consistent through any
\* number of crashes, restarts and repairs by format().
THEOREM CrashStaysConsistent == WholeDisk => (CrashSpec => []StaysConsistent)
<1> SUFFICES ASSUME WholeDisk  PROVE CrashSpec => []StaysConsistent
  OBVIOUS
<1>1. CrashInv => StaysConsistent
  BY DEF CrashInv, StaysConsistent, FATConsistent, FlagsOK, FullInv, IInv
<1> QED BY <1>1, CrashInvariance, PTL
-----------------------------------------------------------------------------
(***************************************************************************)
(* LooseSpec: two handles may write to one file, and the device may be     *)
(* smaller than the FAT.  A writing handle then need not stand on the end  *)
(* of its file, nor on a block of it: another handle may have chained a    *)
(* second block behind the one both stood on, which cuts the first one's   *)
(* block off.  What holds is that no other file has that block and that it *)
(* is not free, and this is enough to keep files apart.                    *)
(***************************************************************************)
-----------------------------------------------------------------------------
(***************************************************************************)
(* Extending a chain in its middle.                                        *)
(***************************************************************************)
\* A block j chained on behind any block of a file cuts the rest of the chain off;
\* what is left ends at j.
LEMMA ChainCut ==
    ASSUME NEW f \in [Blocks -> Blocks], NEW s, Ends(f, s),
           NEW cur \in Chain(f, s),
           NEW j \in DataBlocks, j \notin Chain(f, s), NEW g,
           \A b \in Blocks : g[b] = IF b = j THEN EOF_FAT_ENTRY ELSE IF b = cur THEN j ELSE f[b]
    PROVE  Chain(g, s) \subseteq Chain(f, s) \cup {j} /\ Ends(g, s)
<1> DEFINE C == Chain(f, s)
           D == Chain(g, s)
           T == {b \in C : cur \in Chain(f, b)} \cup {j}
<1>1. C \in Closed(f) /\ s \in C /\ C \subseteq DataBlocks
  BY ChainIsClosed DEF Ends, Closed
<1>2. /\ g[j] = EOF_FAT_ENTRY
      /\ g[cur] = j /\ cur # j
      /\ \A b \in C \ {cur} : g[b] = f[b]
  BY <1>1, SpecialValues
<1>3. \A b \in C : f[b] = EOF_FAT_ENTRY => Chain(f, b) = {b}
  BY <1>1, LastInChain
<1>4. ASSUME NEW b \in T  PROVE g[b] \in T \cup {EOF_FAT_ENTRY}
  <2>1. CASE b = j \/ b = cur
    BY <1>2, <2>1
  <2>2. CASE b # j /\ b # cur
    <3>1. b \in C /\ cur \in Chain(f, b) /\ f[b] # EOF_FAT_ENTRY /\ g[b] = f[b]
      BY <1>2, <1>3, <2>2
    <3>2. f[b] \in C /\ Chain(f, b) = {b} \cup Chain(f, f[b])
      BY <1>1, <3>1, NextInChain
    <3> QED BY <2>2, <3>1, <3>2
  <2> QED BY <2>1, <2>2
<1>5. T \in Closed(g) /\ s \in T
  BY <1>1, <1>4 DEF Closed
<1>6. D \in Closed(g) /\ s \in D /\ D \subseteq T
  BY <1>5, ChainIsClosed
<1>7. j \in D
  <2> SUFFICES ASSUME j \notin D  PROVE FALSE
    OBVIOUS
  <2>1. cur \notin D
    BY <1>2, <1>6, SpecialValues DEF Closed
  <2>2. \A b \in D : b \in C /\ g[b] = f[b]
    BY <1>2, <1>6, <2>1
  <2>3. D \in Closed(f)
    BY <1>6, <2>2 DEF Closed
  <2>4. C \subseteq D
    BY <1>6, <2>3, ChainIsClosed
  <2> QED BY <2>1, <2>4
<1>8. \A d \in D : g[d] = EOF_FAT_ENTRY => d = j
  <2> SUFFICES ASSUME NEW d \in D, g[d] = EOF_FAT_ENTRY, d # j  PROVE FALSE
    OBVIOUS
  <2>1. d \in C /\ cur \in Chain(f, d)
    BY <1>6
  <2>2. d # cur
    BY <1>2, SpecialValues
  <2>3. f[d] = EOF_FAT_ENTRY
    BY <1>2, <2>1, <2>2
  <2> QED BY <1>3, <2>1, <2>2, <2>3
<1>9. Ends(g, s)
  BY <1>2, <1>6, <1>7, <1>8 DEF Ends
<1> QED BY <1>6, <1>9

\* write() fills a block for a handle that stands on no other file's block.
LEMMA ExtendSound ==
    ASSUME NEW f \in [Blocks -> Blocks], NEW r, Sound(f, r),
           NEW i \in Files(r), NEW cur \in DataBlocks,
           \A k \in Files(r) : k # i => cur \notin Chain(f, r[k].starting_block),
           NEW j \in Blocks, f[j] = FREE_FAT_ENTRY, f[cur] # FREE_FAT_ENTRY,
           NEW g,
           \A b \in Blocks : g[b] = IF b = j THEN EOF_FAT_ENTRY ELSE IF b = cur THEN j ELSE f[b]
    PROVE  /\ Sound(g, r)
           /\ j \in DataBlocks
           /\ \A k \in Files(r) : j \notin Chain(f, r[k].starting_block)
           /\ \A k \in Files(r) : k # i =>
                 Chain(g, r[k].starting_block) = Chain(f, r[k].starting_block)
           /\ Chain(g, r[i].starting_block) \subseteq Chain(f, r[i].starting_block) \cup {j}
<1> DEFINE start(k) == r[k].starting_block
<1>1. j \in DataBlocks /\ \A k \in Files(r) : j \notin Chain(f, start(k))
  BY SoundFreeBlock
<1>2. \A k \in Files(r) : Ends(f, start(k))
  BY DEF Sound, ChainsEnd
<1>3. ASSUME NEW k \in Files(r), cur \notin Chain(f, start(k))
      PROVE  Chain(g, start(k)) = Chain(f, start(k)) /\ Ends(g, start(k))
  <2>1. \A b \in Chain(f, start(k)) : b # cur /\ b # j /\ b \in Blocks
    BY <1>1, <1>3, SoundBlock, SpecialValues
  <2>2. \A b \in Chain(f, start(k)) : g[b] = f[b]
    BY <2>1
  <2> QED BY <1>2, <2>2, EndsAgrees
<1>4. /\ Chain(g, start(i)) \subseteq Chain(f, start(i)) \cup {j}
      /\ Ends(g, start(i))
  <2>1. CASE cur \in Chain(f, start(i))
    BY <1>1, <1>2, <2>1, ChainCut
  <2>2. CASE cur \notin Chain(f, start(i))
    BY <1>3, <2>2
  <2> QED BY <2>1, <2>2
<1>5. ReservedIntact(g)
  <2>1. cur \in Blocks /\ j # RESERVED_FAT_ENTRY /\ EOF_FAT_ENTRY # RESERVED_FAT_ENTRY
        /\ cur \notin Reserved /\ j \notin Reserved
    BY <1>1, SpecialValues
  <2>2. \A b \in Blocks : b # cur /\ b # j => g[b] = f[b]
    OBVIOUS
  <2>3. g[j] = EOF_FAT_ENTRY /\ (g[cur] = j \/ g[cur] = EOF_FAT_ENTRY)
    BY <2>1
  <2> QED BY <2>1, <2>2, <2>3 DEF Sound, ReservedIntact
<1>6. ChainsEnd(g, r)
  BY <1>3, <1>4 DEF ChainsEnd
<1>7. NoCrossLink(g, r)
  <2>1. ASSUME NEW k \in Files(r), k # i
        PROVE  Chain(g, start(k)) \cap Chain(g, start(i)) = {}
    <3>1. Chain(g, start(k)) = Chain(f, start(k)) /\ j \notin Chain(f, start(k))
      BY <1>1, <1>3, <2>1
    <3>2. Chain(f, start(k)) \cap Chain(f, start(i)) = {}
      BY <2>1 DEF Sound, NoCrossLink
    <3> QED BY <1>4, <3>1, <3>2
  <2>2. ASSUME NEW k \in Files(r), NEW m \in Files(r), k # i, m # i, k # m
        PROVE  Chain(g, start(k)) \cap Chain(g, start(m)) = {}
    BY <1>3, <2>2 DEF Sound, NoCrossLink
  <2> QED BY <2>1, <2>2 DEF NoCrossLink
<1> QED BY <1>1, <1>3, <1>4, <1>5, <1>6, <1>7 DEF Sound
-----------------------------------------------------------------------------
(***************************************************************************)
(* The inductive invariant.                                                *)
(***************************************************************************)
\* A call is a record.
CallFields == "op" \in DOMAIN call /\ "handle" \in DOMAIN call

Tables == /\ FAT \in [Blocks -> Blocks] /\ disk_FAT \in [Blocks -> Blocks]
          /\ root_directory \in [DirIndexes -> Entry]
          /\ disk_root \in [DirIndexes -> Entry]
          /\ handle_table \in [Handles -> Handle]
          /\ CallFields

\* No block that a handle writes to is free or of a file other than its own.
WritersApart ==
    \A h \in Handles : handle_table[h].in_use /\ handle_table[h].mode = "WRITE" =>
       LET cur == handle_table[h].current_block IN
       /\ cur \in DataBlocks
       /\ FAT[cur] # FREE_FAT_ENTRY
       /\ \A k \in Files(root_directory) : k # handle_table[h].directory_index =>
             cur \notin Chain(FAT, root_directory[k].starting_block)

LooseInv == /\ Tables /\ FlagsOK /\ CallOK /\ HandlesOnFiles /\ WritersApart
            /\ formatted_flag => Sound(FAT, root_directory)
            /\ ~up /\ disk_boot => Sound(disk_FAT, disk_root)

LEMMA NoHandlesApart ==
    (\A h \in Handles : ~handle_table'[h].in_use) => HandlesOnFiles' /\ WritersApart'
BY DEF HandlesOnFiles, WritersApart

LEMMA InitLoose == Init => LooseInv
<1> SUFFICES ASSUME Init  PROVE LooseInv
  OBVIOUS
<1>1. IInv
  BY InitIInv
<1>2. \A h \in Handles : ~handle_table[h].in_use
  BY AllClosedClosed DEF Init
<1> QED BY <1>1, <1>2 DEF Init, IInv, TypeOK, LooseInv, Tables, CallFields, WritersApart,
           Idle

\* A step of a live object that keeps the FAT, where each file starts, and each
\* writing handle on its block.
LEMMA LooseKept ==
    ASSUME LooseInv, UNCHANGED <<up, formatted_flag, FAT, disk_boot, disk_root>>, up,
           disk_FAT' \in [Blocks -> Blocks],
           CallOK', CallFields',
           root_directory' \in [DirIndexes -> Entry],
           Files(root_directory') = Files(root_directory),
           \A k \in Files(root_directory) :
              root_directory'[k].starting_block = root_directory[k].starting_block,
           handle_table' \in [Handles -> Handle],
           \A h \in Handles : handle_table'[h].in_use =>
              /\ handle_table[h].in_use
              /\ handle_table'[h].mode = handle_table[h].mode
              /\ handle_table'[h].directory_index = handle_table[h].directory_index
              /\ handle_table[h].mode = "WRITE" =>
                    handle_table'[h].current_block = handle_table[h].current_block
    PROVE  LooseInv'
<1>1. Tables' /\ FlagsOK'
  BY DEF LooseInv, Tables, FlagsOK
<1>2. HandlesOnFiles'
  BY DEF LooseInv, HandlesOnFiles
<1>3. WritersApart'
  <2> SUFFICES ASSUME NEW h \in Handles, handle_table'[h].in_use,
                      handle_table'[h].mode = "WRITE"
               PROVE  LET cur == handle_table'[h].current_block IN
                      /\ cur \in DataBlocks
                      /\ FAT'[cur] # FREE_FAT_ENTRY
                      /\ \A k \in Files(root_directory') :
                            k # handle_table'[h].directory_index =>
                            cur \notin Chain(FAT', root_directory'[k].starting_block)
    BY DEF WritersApart
  <2>1. /\ handle_table[h].in_use /\ handle_table[h].mode = "WRITE"
        /\ handle_table'[h].current_block = handle_table[h].current_block
        /\ handle_table'[h].directory_index = handle_table[h].directory_index
    OBVIOUS
  <2> QED BY <2>1 DEF LooseInv, WritersApart
<1>4. formatted_flag' => Sound(FAT', root_directory')
  BY DEF LooseInv, Sound, ChainsEnd, NoCrossLink
<1> QED BY <1>1, <1>2, <1>3, <1>4 DEF LooseInv

\* The same, when the directory does not change either and no call goes on.
LEMMA LooseHandles ==
    ASSUME LooseInv, up, UNCHANGED <<up, formatted_flag, FAT, root_directory, disk>>,
           CallOK', CallFields',
           handle_table' \in [Handles -> Handle],
           \A h \in Handles : handle_table'[h].in_use =>
              /\ handle_table[h].in_use
              /\ handle_table'[h].mode = handle_table[h].mode
              /\ handle_table'[h].directory_index = handle_table[h].directory_index
              /\ handle_table[h].mode = "WRITE" =>
                    handle_table'[h].current_block = handle_table[h].current_block
    PROVE  LooseInv'
<1>1. /\ root_directory' \in [DirIndexes -> Entry] /\ disk_FAT' \in [Blocks -> Blocks]
      /\ UNCHANGED <<disk_boot, disk_root>>
  BY DEF LooseInv, Tables, disk
<1> QED BY <1>1, LooseKept

\* The handle of a call under way, and what moving it on does to the handles.
LEMMA LooseCall ==
    ASSUME LooseInv, call.op \in {"read", "write"}
    PROVE  /\ up /\ formatted_flag
           /\ call.handle \in Handles /\ H = handle_table[call.handle] /\ H \in Handle
           /\ H.in_use
           /\ call.op = "read" <=> H.mode = "READ"
           /\ H.directory_index \in Files(root_directory)
<1>1. call.handle \in Handles /\ H.in_use /\ up /\ (call.op = "read" <=> H.mode = "READ")
  BY DEF LooseInv, CallOK
<1>2. H = handle_table[call.handle] /\ H \in Handle
  BY <1>1 DEF H, LooseInv, Tables
<1>3. H.directory_index \in Files(root_directory)
  BY <1>1, <1>2 DEF LooseInv, HandlesOnFiles
<1>4. formatted_flag
  BY <1>3 DEF LooseInv, FlagsOK
<1> QED BY <1>1, <1>2, <1>3, <1>4

LEMMA LooseMoved ==
    ASSUME LooseInv, call.op \in {"read", "write"}, NEW block \in Blocks,
           handle_table' = [handle_table EXCEPT ![call.handle] =
                               [H EXCEPT !.offset = @ + 1, !.current_block = block]]
    PROVE  /\ handle_table' \in [Handles -> Handle]
           /\ \A g \in Handles : g # call.handle => handle_table'[g] = handle_table[g]
           /\ handle_table'[call.handle].in_use
           /\ handle_table'[call.handle].mode = H.mode
           /\ handle_table'[call.handle].directory_index = H.directory_index
           /\ handle_table'[call.handle].current_block = block
<1> DEFINE moved == [H EXCEPT !.offset = @ + 1, !.current_block = block]
<1>1. /\ moved \in Handle /\ moved.in_use /\ moved.mode = H.mode
      /\ moved.directory_index = H.directory_index /\ moved.current_block = block
  <2>1. H \in Handle /\ H.in_use
    BY LooseCall
  <2>2. H.offset + 1 \in Nat
    BY <2>1 DEF Handle
  <2> HIDE DEF H
  <2> QED BY <2>1, <2>2 DEF Handle
<1> HIDE DEF moved
<1>2. /\ call.handle \in Handles /\ handle_table \in [Handles -> Handle]
      /\ handle_table' = [handle_table EXCEPT ![call.handle] = moved]
  BY LooseCall DEF LooseInv, Tables, moved
<1> QED BY <1>1, <1>2

\* The two ways the code has of moving a handle.
LEMMA OffsetMoved ==
    ASSUME LooseInv, call.op \in {"read", "write"},
           handle_table' = [handle_table EXCEPT ![call.handle].offset = @ + 1]
    PROVE  /\ H.current_block \in Blocks
           /\ handle_table' = [handle_table EXCEPT ![call.handle] =
                 [H EXCEPT !.offset = @ + 1, !.current_block = H.current_block]]
<1>1. /\ H \in Handle /\ call.handle \in Handles /\ H = handle_table[call.handle]
      /\ handle_table \in [Handles -> Handle]
  BY LooseCall DEF LooseInv, Tables
<1>2. [H EXCEPT !.offset = @ + 1, !.current_block = H.current_block] = [H EXCEPT !.offset = @ + 1]
  BY <1>1 DEF Handle
<1>3. H.current_block \in Blocks
  BY <1>1 DEF Handle
<1> QED BY <1>1, <1>2, <1>3

LEMMA BothMoved ==
    ASSUME LooseInv, call.op \in {"read", "write"}, NEW block,
           handle_table' = [handle_table EXCEPT ![call.handle].offset = @ + 1,
                                                ![call.handle].current_block = block]
    PROVE  handle_table' = [handle_table EXCEPT ![call.handle] =
                               [H EXCEPT !.offset = @ + 1, !.current_block = block]]
<1>1. /\ call.handle \in Handles /\ H = handle_table[call.handle]
      /\ handle_table \in [Handles -> Handle]
  BY LooseCall DEF LooseInv, Tables
<1>2. /\ handle_table'[call.handle] = [H EXCEPT !.offset = @ + 1, !.current_block = block]
      /\ \A g \in Handles : g # call.handle => handle_table'[g] = handle_table[g]
  BY <1>1
<1> QED BY <1>1, <1>2

\* A call that has ended, or goes on with its handle.
LEMMA LooseCallOK ==
    ASSUME LooseInv, call.op \in {"read", "write"}, up' = up,
           \/ call' = Idle
           \/ /\ call'.op = call.op /\ call'.handle = call.handle
              /\ handle_table'[call.handle].in_use
              /\ handle_table'[call.handle].mode = H.mode
    PROVE  CallOK'
<1>1. CASE call' = Idle
  BY <1>1 DEF CallOK, Idle
<1>2. CASE call' # Idle
  BY <1>2, LooseCall DEF CallOK, H
<1> QED BY <1>1, <1>2
-----------------------------------------------------------------------------
(***************************************************************************)
(* The loops.                                                              *)
(***************************************************************************)
\* A step of a call that takes no block.
LEMMA LooseLoop ==
    ASSUME LooseInv, call.op \in {"read", "write"},
           UNCHANGED <<up, formatted_flag, FAT, disk_boot, disk_FAT, disk_root>>,
           \/ call' = Idle
           \/ call'.op = call.op /\ call'.handle = call.handle /\ CallFields',
           UNCHANGED root_directory \/ root_directory' = Grown,
           \/ UNCHANGED handle_table
           \/ handle_table' = [handle_table EXCEPT ![call.handle].offset = @ + 1]
           \/ /\ call.op = "read"
              /\ handle_table' = [handle_table EXCEPT
                    ![call.handle].offset = @ + 1,
                    ![call.handle].current_block = FAT[H.current_block]]
    PROVE  LooseInv'
<1>1. /\ up /\ call.handle \in Handles /\ H = handle_table[call.handle] /\ H.in_use
      /\ H.directory_index \in Files(root_directory) /\ H \in Handle
      /\ call.op = "read" <=> H.mode = "READ"
      /\ handle_table \in [Handles -> Handle] /\ FAT \in [Blocks -> Blocks]
      /\ root_directory \in [DirIndexes -> Entry] /\ disk_FAT' \in [Blocks -> Blocks]
  BY LooseCall DEF LooseInv, Tables
<1>2. /\ root_directory' \in [DirIndexes -> Entry]
      /\ Files(root_directory') = Files(root_directory)
      /\ \A k \in Files(root_directory) :
            root_directory'[k].starting_block = root_directory[k].starting_block
  BY <1>1, GrownEntry
<1>3. H.current_block \in Blocks /\ FAT[H.current_block] \in Blocks
  BY <1>1 DEF Handle
<1>4. /\ handle_table' \in [Handles -> Handle]
      /\ \A g \in Handles : g # call.handle => handle_table'[g] = handle_table[g]
      /\ handle_table'[call.handle].in_use
      /\ handle_table'[call.handle].mode = H.mode
      /\ handle_table'[call.handle].directory_index = H.directory_index
      /\ H.mode # "READ" => handle_table'[call.handle].current_block = H.current_block
  <2>1. CASE UNCHANGED handle_table
    BY <1>1, <2>1
  <2>2. CASE handle_table' = [handle_table EXCEPT ![call.handle].offset = @ + 1]
    <3>1. handle_table' = [handle_table EXCEPT ![call.handle] =
             [H EXCEPT !.offset = @ + 1, !.current_block = H.current_block]]
      BY <2>2, OffsetMoved
    <3> QED BY <1>3, <3>1, LooseMoved
  <2>3. CASE /\ call.op = "read"
             /\ handle_table' = [handle_table EXCEPT
                   ![call.handle].offset = @ + 1,
                   ![call.handle].current_block = FAT[H.current_block]]
    <3>1. handle_table' = [handle_table EXCEPT ![call.handle] =
             [H EXCEPT !.offset = @ + 1, !.current_block = FAT[H.current_block]]]
      BY <2>3, BothMoved
    <3>2. H.mode = "READ"
      BY <1>1, <2>3
    <3>3. /\ handle_table' \in [Handles -> Handle]
          /\ \A g \in Handles : g # call.handle => handle_table'[g] = handle_table[g]
          /\ handle_table'[call.handle].in_use
          /\ handle_table'[call.handle].mode = H.mode
          /\ handle_table'[call.handle].directory_index = H.directory_index
      BY <1>3, <3>1, LooseMoved
    <3> QED BY <3>2, <3>3
  <2> QED BY <2>1, <2>2, <2>3
<1>5. CallOK' /\ CallFields'
  BY <1>4, LooseCallOK DEF CallFields, Idle
<1>6. \A h \in Handles : handle_table'[h].in_use =>
         /\ handle_table[h].in_use
         /\ handle_table'[h].mode = handle_table[h].mode
         /\ handle_table'[h].directory_index = handle_table[h].directory_index
         /\ handle_table[h].mode = "WRITE" =>
               handle_table'[h].current_block = handle_table[h].current_block
  <2> SUFFICES ASSUME NEW h \in Handles, handle_table'[h].in_use
               PROVE  /\ handle_table[h].in_use
                      /\ handle_table'[h].mode = handle_table[h].mode
                      /\ handle_table'[h].directory_index = handle_table[h].directory_index
                      /\ handle_table[h].mode = "WRITE" =>
                            handle_table'[h].current_block = handle_table[h].current_block
    OBVIOUS
  <2>1. CASE h = call.handle
    BY <1>1, <1>4, <2>1
  <2>2. CASE h # call.handle
    BY <1>4, <2>2
  <2> QED BY <2>1, <2>2
<1> QED BY <1>1, <1>2, <1>4, <1>5, <1>6, LooseKept

LEMMA LooseReading ==
    LooseInv /\ (ReadByte \/ ReadLastByte \/ ReadEnd \/ ReadThrows) => LooseInv'
<1> SUFFICES ASSUME LooseInv, ReadByte \/ ReadLastByte \/ ReadEnd \/ ReadThrows
             PROVE  LooseInv'
  OBVIOUS
<1>1. /\ call.op = "read" /\ UNCHANGED <<up, formatted_flag, FAT, root_directory>>
      /\ UNCHANGED <<disk_boot, disk_FAT, disk_root>>
  BY DEF ReadByte, ReadLastByte, ReadEnd, ReadThrows, disk
<1>2. CallFields
  BY DEF LooseInv, Tables
<1>3. call' = Idle \/ (call'.op = call.op /\ call'.handle = call.handle /\ CallFields')
  BY <1>2 DEF ReadByte, ReadLastByte, ReadEnd, ReadThrows, CallFields
<1>4. \/ UNCHANGED handle_table
      \/ handle_table' = [handle_table EXCEPT ![call.handle].offset = @ + 1]
      \/ handle_table' = [handle_table EXCEPT
            ![call.handle].offset = @ + 1,
            ![call.handle].current_block = FAT[H.current_block]]
  BY DEF ReadByte, ReadLastByte, ReadEnd, ReadThrows
<1> QED BY <1>1, <1>3, <1>4, LooseLoop

LEMMA LooseWriting ==
    LooseInv /\ (\/ WriteEnd \/ WriteThrows
                 \/ \E byte : PutByte(byte) \/ NoFreeBlock(byte)) => LooseInv'
<1> SUFFICES ASSUME LooseInv,
                    \/ WriteEnd \/ WriteThrows
                    \/ \E byte : PutByte(byte) \/ NoFreeBlock(byte)
             PROVE  LooseInv'
  OBVIOUS
<1>1. /\ call.op = "write" /\ UNCHANGED <<up, formatted_flag, FAT>>
      /\ UNCHANGED <<disk_boot, disk_FAT, disk_root>>
  BY DEF WriteEnd, WriteThrows, PutByte, NoFreeBlock, disk
<1>2. CallFields
  BY DEF LooseInv, Tables
<1>3. call' = Idle \/ (call'.op = call.op /\ call'.handle = call.handle /\ CallFields')
  BY <1>2 DEF WriteEnd, WriteThrows, PutByte, NoFreeBlock, CallFields
<1>4. UNCHANGED root_directory \/ root_directory' = Grown
  BY DEF WriteEnd, WriteThrows, PutByte, NoFreeBlock
<1>5. \/ UNCHANGED handle_table
      \/ handle_table' = [handle_table EXCEPT ![call.handle].offset = @ + 1]
  BY DEF WriteEnd, WriteThrows, PutByte, NoFreeBlock
<1> QED BY <1>1, <1>3, <1>4, <1>5, LooseLoop

\* A block is full: the file gets a free one behind the handle's block, which may no
\* longer be the file's last, nor one of the file's at all.
LEMMA LoosePutLastByte == \A byte : LooseInv /\ PutLastByte(byte) => LooseInv'
<1> SUFFICES ASSUME LooseInv, NEW byte, PutLastByte(byte)  PROVE LooseInv'
  OBVIOUS
<1> DEFINE i == H.directory_index
           cur == H.current_block
<1>1. /\ call.op = "write" /\ root_directory' = Grown
      /\ UNCHANGED <<up, formatted_flag, disk_boot, disk_FAT, disk_root>>
  BY DEF PutLastByte
<1>2. PICK j \in Blocks :
         /\ FirstFreeBlock(FAT, j)
         /\ FAT' = [FAT EXCEPT ![cur] = j, ![j] = EOF_FAT_ENTRY]
         /\ handle_table' = [handle_table EXCEPT ![call.handle].offset = @ + 1,
                                                 ![call.handle].current_block = j]
  BY DEF PutLastByte
<1>3. /\ up /\ formatted_flag
      /\ call.handle \in Handles /\ H = handle_table[call.handle] /\ H \in Handle
      /\ H.in_use /\ H.mode # "READ"
      /\ i \in Files(root_directory)
  BY <1>1, LooseCall
<1>4. H.mode = "WRITE"
  BY <1>3 DEF Handle
<1>5. /\ cur \in DataBlocks /\ cur \in Blocks /\ FAT[cur] # FREE_FAT_ENTRY
      /\ \A k \in Files(root_directory) : k # i =>
            cur \notin Chain(FAT, root_directory[k].starting_block)
  BY <1>3, <1>4, SpecialValues DEF LooseInv, WritersApart
<1>6. /\ FAT[j] = FREE_FAT_ENTRY /\ FAT \in [Blocks -> Blocks]
      /\ Sound(FAT, root_directory)
      /\ root_directory \in [DirIndexes -> Entry]
  BY <1>2, <1>3 DEF FirstFreeBlock, LooseInv, Tables
<1>7. /\ FAT' \in [Blocks -> Blocks]
      /\ \A b \in Blocks :
            FAT'[b] = IF b = j THEN EOF_FAT_ENTRY ELSE IF b = cur THEN j ELSE FAT[b]
  BY <1>2, <1>5, <1>6, SpecialValues
<1>8. /\ Sound(FAT', root_directory)
      /\ j \in DataBlocks
      /\ \A k \in Files(root_directory) :
            j \notin Chain(FAT, root_directory[k].starting_block)
      /\ \A k \in Files(root_directory) : k # i =>
            Chain(FAT', root_directory[k].starting_block)
               = Chain(FAT, root_directory[k].starting_block)
      /\ Chain(FAT', root_directory[i].starting_block)
            \subseteq Chain(FAT, root_directory[i].starting_block) \cup {j}
  <2>1. /\ i \in Files(root_directory) /\ cur \in DataBlocks
        /\ \A k \in Files(root_directory) : k # i =>
              cur \notin Chain(FAT, root_directory[k].starting_block)
    BY <1>3, <1>5
  <2>2. /\ FAT[j] = FREE_FAT_ENTRY /\ FAT[cur] # FREE_FAT_ENTRY
        /\ FAT \in [Blocks -> Blocks] /\ Sound(FAT, root_directory)
    BY <1>5, <1>6
  <2>3. \A b \in Blocks :
           FAT'[b] = IF b = j THEN EOF_FAT_ENTRY ELSE IF b = cur THEN j ELSE FAT[b]
    BY <1>7
  <2> HIDE DEF i, cur
  <2> QED BY <2>1, <2>2, <2>3, ExtendSound, SMTT(60)
<1>9. /\ root_directory' \in [DirIndexes -> Entry]
      /\ Files(root_directory') = Files(root_directory)
      /\ \A k \in Files(root_directory) :
            root_directory'[k].starting_block = root_directory[k].starting_block
  BY <1>1, <1>3, <1>6, GrownEntry
<1>10. handle_table' = [handle_table EXCEPT ![call.handle] =
                           [H EXCEPT !.offset = @ + 1, !.current_block = j]]
  BY <1>1, <1>2, BothMoved
<1>11. /\ handle_table' \in [Handles -> Handle]
       /\ \A g \in Handles : g # call.handle => handle_table'[g] = handle_table[g]
       /\ handle_table'[call.handle].in_use
       /\ handle_table'[call.handle].mode = H.mode
       /\ handle_table'[call.handle].directory_index = i
       /\ handle_table'[call.handle].current_block = j
  BY <1>1, <1>10, LooseMoved
<1>12. call'.op = call.op /\ call'.handle = call.handle /\ CallFields'
  <2>1. CallFields
    BY DEF LooseInv, Tables
  <2> QED BY <2>1 DEF PutLastByte, CallFields
<1>13. CallOK'
  BY <1>1, <1>11, <1>12, LooseCallOK
<1>14. HandlesOnFiles'
  <2>1. \A g \in Handles : handle_table'[g].in_use =>
           handle_table'[g].directory_index \in Files(root_directory)
    BY <1>3, <1>11 DEF LooseInv, HandlesOnFiles
  <2> QED BY <1>9, <2>1 DEF HandlesOnFiles
<1>15. WritersApart'
  <2> SUFFICES ASSUME NEW g \in Handles, handle_table'[g].in_use,
                      handle_table'[g].mode = "WRITE"
               PROVE  LET mine == handle_table'[g].current_block IN
                      /\ mine \in DataBlocks
                      /\ FAT'[mine] # FREE_FAT_ENTRY
                      /\ \A k \in Files(root_directory') :
                            k # handle_table'[g].directory_index =>
                            mine \notin Chain(FAT', root_directory'[k].starting_block)
    BY DEF WritersApart
  <2>1. CASE g = call.handle
    <3>1. FAT'[j] # FREE_FAT_ENTRY
      BY <1>7, SpecialValues
    <3>2. \A k \in Files(root_directory) : k # i =>
             j \notin Chain(FAT', root_directory'[k].starting_block)
      BY <1>8, <1>9
    <3> QED BY <1>8, <1>9, <1>11, <2>1, <3>1, <3>2
  <2>2. CASE g # call.handle
    <3> DEFINE mine == handle_table[g].current_block
               its == handle_table[g].directory_index
    <3>1. handle_table'[g] = handle_table[g]
      BY <1>11, <2>2
    <3>2. /\ mine \in DataBlocks /\ mine \in Blocks
          /\ FAT[mine] # FREE_FAT_ENTRY
          /\ \A k \in Files(root_directory) : k # its =>
                mine \notin Chain(FAT, root_directory[k].starting_block)
      BY <3>1, SpecialValues DEF LooseInv, WritersApart
    <3>3. mine # j
      BY <1>6, <3>2
    <3> HIDE DEF mine, its
    <3>4. FAT'[mine] # FREE_FAT_ENTRY
      BY <1>7, <1>8, <3>2, <3>3, SpecialValues
    <3>5. \A k \in Files(root_directory) : k # its =>
             mine \notin Chain(FAT', root_directory'[k].starting_block)
      BY <1>8, <1>9, <3>2, <3>3
    <3> QED BY <1>9, <3>1, <3>2, <3>4, <3>5 DEF mine, its
  <2> QED BY <2>1, <2>2
<1>16. Sound(FAT', root_directory')
  BY <1>8, <1>9 DEF Sound, ChainsEnd, NoCrossLink
<1>17. FlagsOK' /\ Tables'
  BY <1>1, <1>3, <1>7, <1>9, <1>11, <1>12 DEF LooseInv, FlagsOK, Tables
<1> QED BY <1>1, <1>3, <1>13, <1>14, <1>15, <1>16, <1>17 DEF LooseInv
-----------------------------------------------------------------------------
(***************************************************************************)
(* Construction, destruction and format.                                   *)
(***************************************************************************)
LEMMA LooseConstruct == LooseInv /\ Construct => LooseInv'
<1> SUFFICES ASSUME LooseInv, Construct  PROVE LooseInv'
  OBVIOUS
<1>1. \A h \in Handles : ~handle_table'[h].in_use
  BY AllClosedClosed DEF Construct
<1>2. HandlesOnFiles' /\ WritersApart'
  BY <1>1, NoHandlesApart
<1>3. Tables'
  BY ConstantTypes DEF Construct, disk, LooseInv, Tables, CallFields
<1>4. FlagsOK' /\ CallOK'
  BY DEF Construct, disk, LooseInv, FlagsOK, CallOK
<1>5. /\ formatted_flag' => Sound(FAT', root_directory')
      /\ up'
  BY DEF Construct, LooseInv
<1> QED BY <1>2, <1>3, <1>4, <1>5 DEF LooseInv

\* The object is gone; what counts is on the disk.
LEMMA LooseDiscarded ==
    ASSUME LooseInv, Discarded, disk_boot' => Sound(disk_FAT', disk_root'),
           disk_FAT' \in [Blocks -> Blocks], disk_root' \in [DirIndexes -> Entry]
    PROVE  LooseInv'
<1>1. \A h \in Handles : ~handle_table'[h].in_use
  BY AllClosedClosed DEF Discarded
<1>2. HandlesOnFiles' /\ WritersApart'
  BY <1>1, NoHandlesApart
<1>3. Tables'
  BY ConstantTypes DEF Discarded, Tables, CallFields, Idle
<1>4. FlagsOK' /\ CallOK'
  BY EmptyRootEmpty DEF Discarded, FlagsOK, CallOK, Idle
<1> QED BY <1>2, <1>3, <1>4 DEF Discarded, LooseInv

LEMMA LooseDestroyUnformatted == LooseInv /\ DestroyUnformatted => LooseInv'
<1> SUFFICES ASSUME LooseInv, DestroyUnformatted  PROVE LooseInv'
  OBVIOUS
<1>1. Discarded /\ UNCHANGED <<disk_boot, disk_FAT, disk_root>> /\ ~disk_boot
  BY DEF DestroyUnformatted, Ready, disk, LooseInv, FlagsOK
<1> QED BY <1>1, LooseDiscarded DEF LooseInv, Tables

LEMMA LooseFlushRoot == LooseInv /\ FlushRoot => LooseInv'
<1> SUFFICES ASSUME LooseInv, FlushRoot  PROVE LooseInv'
  OBVIOUS
<1>1. /\ Discarded /\ disk_root' = root_directory /\ disk_FAT' = FAT
      /\ Sound(FAT, root_directory)
      /\ FAT \in [Blocks -> Blocks] /\ root_directory \in [DirIndexes -> Entry]
  BY DEF FlushRoot, LooseInv, CallOK, Tables
<1> QED BY <1>1, LooseDiscarded

LEMMA LooseFlushFAT == LooseInv /\ FlushFAT => LooseInv'
<1> SUFFICES ASSUME LooseInv, FlushFAT  PROVE LooseInv'
  OBVIOUS
<1>1. /\ up /\ formatted_flag /\ disk_FAT' = FAT
      /\ UNCHANGED <<up, formatted_flag, FAT, root_directory, handle_table>>
      /\ UNCHANGED <<disk_boot, disk_root>>
      /\ FAT \in [Blocks -> Blocks] /\ root_directory \in [DirIndexes -> Entry]
      /\ handle_table \in [Handles -> Handle]
  BY DEF FlushFAT, Ready, LooseInv, Tables
<1>2. call'.op = "flush" /\ CallFields'
  BY DEF FlushFAT, CallFields, Idle
<1>3. CallOK'
  BY <1>1, <1>2 DEF CallOK
<1> QED BY <1>1, <1>2, <1>3, LooseKept

LEMMA LooseFormat == LooseInv /\ NoHandles /\ Format => LooseInv'
<1> SUFFICES ASSUME LooseInv, NoHandles, Format  PROVE LooseInv'
  OBVIOUS
<1>1. HandlesOnFiles' /\ WritersApart'
  BY NoHandlesApart DEF NoHandles, Format
<1>2. Tables'
  BY ConstantTypes DEF Format, LooseInv, Tables, CallFields
<1>3. FlagsOK' /\ CallOK'
  BY DEF Format, Ready, LooseInv, FlagsOK, CallOK
<1>4. Sound(FAT', root_directory') /\ up'
  BY FormattedConsistent, ConsistentIsSound DEF Format, Ready
<1> QED BY <1>1, <1>2, <1>3, <1>4 DEF LooseInv
-----------------------------------------------------------------------------
(***************************************************************************)
(* The calls that begin and end with nothing under way.                    *)
(***************************************************************************)
\* open() of a file that exists, whoever else has it open.
LEMMA LooseOpened ==
    ASSUME LooseInv, Ready, UNCHANGED <<up, formatted_flag, FAT, root_directory, call, disk>>,
           NEW h \in Handles, NEW opened \in Handle,
           handle_table' = [handle_table EXCEPT ![h] = opened],
           NEW i \in Files(root_directory), opened.directory_index = i,
           opened.mode = "WRITE" =>
              opened.current_block \in Chain(FAT, root_directory[i].starting_block)
    PROVE  LooseInv'
<1>1. \A g \in Handles : handle_table'[g] = IF g = h THEN opened ELSE handle_table[g]
  BY DEF LooseInv, Tables
<1>2. Tables'
  BY DEF LooseInv, Tables, disk, CallFields
<1>3. FlagsOK' /\ CallOK' /\ up'
  BY DEF Ready, LooseInv, FlagsOK, CallOK, disk
<1>4. HandlesOnFiles'
  BY <1>1 DEF LooseInv, HandlesOnFiles
<1>5. Sound(FAT, root_directory) /\ Sound(FAT', root_directory')
  BY DEF LooseInv, FlagsOK
<1>6. opened.mode = "WRITE" =>
         /\ opened.current_block \in DataBlocks
         /\ FAT[opened.current_block] # FREE_FAT_ENTRY
         /\ \A k \in Files(root_directory) : k # i =>
               opened.current_block \notin Chain(FAT, root_directory[k].starting_block)
  BY <1>5, SoundBlock
<1>7. WritersApart'
  BY <1>1, <1>6 DEF LooseInv, WritersApart
<1> QED BY <1>2, <1>3, <1>4, <1>5, <1>7 DEF LooseInv

LEMMA LooseOpenRead == \A n : LooseInv /\ OpenRead(n) => LooseInv'
<1> SUFFICES ASSUME LooseInv, NEW n, OpenRead(n)  PROVE LooseInv'
  OBVIOUS
<1>1. PICK h \in Handles, i \in DirIndexes :
         /\ Finds(i, n)
         /\ handle_table' = [handle_table EXCEPT ![h] =
               [in_use |-> TRUE, mode |-> "READ", offset |-> 0, directory_index |-> i,
                current_block |-> root_directory[i].starting_block]]
  BY DEF OpenRead
<1> DEFINE opened == [in_use |-> TRUE, mode |-> "READ", offset |-> 0,
                      directory_index |-> i,
                      current_block |-> root_directory[i].starting_block]
<1>2. i \in Files(root_directory) /\ root_directory[i] \in Entry
  BY <1>1 DEF Finds, Names, Files, LooseInv, Tables
<1>3. opened \in Handle /\ opened.mode # "WRITE" /\ opened.directory_index = i
  BY <1>2 DEF Entry, Handle
<1>4. /\ Ready /\ UNCHANGED <<up, formatted_flag, FAT, root_directory, call, disk>>
      /\ handle_table' = [handle_table EXCEPT ![h] = opened]
  BY <1>1 DEF OpenRead
<1> HIDE DEF opened
<1> QED BY <1>2, <1>3, <1>4, LooseOpened

LEMMA LooseOpenWrite == \A n : LooseInv /\ OpenWrite(n) => LooseInv'
<1> SUFFICES ASSUME LooseInv, NEW n, OpenWrite(n)  PROVE LooseInv'
  OBVIOUS
<1>1. PICK h \in Handles, i \in DirIndexes, last \in DataBlocks :
         /\ Finds(i, n)
         /\ last \in Chain(FAT, root_directory[i].starting_block)
         /\ handle_table' = [handle_table EXCEPT ![h] =
               [in_use |-> TRUE, mode |-> "WRITE", offset |-> root_directory[i].size,
                directory_index |-> i, current_block |-> last]]
  BY DEF OpenWrite, Chain
<1> DEFINE opened == [in_use |-> TRUE, mode |-> "WRITE", offset |-> root_directory[i].size,
                      directory_index |-> i, current_block |-> last]
<1>2. i \in Files(root_directory) /\ root_directory[i] \in Entry /\ last \in Blocks
  BY <1>1, SpecialValues DEF Finds, Names, Files, LooseInv, Tables
<1>3. opened \in Handle /\ opened.directory_index = i /\ opened.current_block = last
  BY <1>2 DEF Entry, Handle
<1>4. /\ Ready /\ UNCHANGED <<up, formatted_flag, FAT, root_directory, call, disk>>
      /\ handle_table' = [handle_table EXCEPT ![h] = opened]
  BY <1>1 DEF OpenWrite
<1> HIDE DEF opened
<1> QED BY <1>1, <1>2, <1>3, <1>4, LooseOpened

\* open() of a new file: its one block was free, so it is nobody's yet.
LEMMA LooseCreate == \A n \in Name : LooseInv /\ formatted_flag /\ Create(n) => LooseInv'
<1> SUFFICES ASSUME LooseInv, formatted_flag, NEW n \in Name, Create(n)  PROVE LooseInv'
  OBVIOUS
<1>1. PICK h \in Handles, i \in DirIndexes, j \in Blocks :
         /\ FirstFreeEntry(i)
         /\ FirstFreeBlock(FAT, j)
         /\ FAT' = [FAT EXCEPT ![j] = EOF_FAT_ENTRY]
         /\ root_directory' = [root_directory EXCEPT ![i] =
               [in_use |-> TRUE, name |-> n, size |-> 0, starting_block |-> j]]
         /\ handle_table' = [handle_table EXCEPT ![h] =
               [in_use |-> TRUE, mode |-> "WRITE", offset |-> 0,
                directory_index |-> i, current_block |-> j]]
  BY DEF Create
<1> DEFINE opened == [in_use |-> TRUE, mode |-> "WRITE", offset |-> 0,
                      directory_index |-> i, current_block |-> j]
           entry == [in_use |-> TRUE, name |-> n, size |-> 0, starting_block |-> j]
<1>2. i \notin Files(root_directory) /\ FAT[j] = FREE_FAT_ENTRY
  BY <1>1 DEF FirstFreeEntry, FirstFreeBlock, Files
<1>3. opened \in Handle /\ entry \in Entry
  BY DEF Entry, Handle
<1>4. \A g \in Handles : handle_table'[g] = IF g = h THEN opened ELSE handle_table[g]
  BY <1>1 DEF LooseInv, Tables
<1>5. \A k \in DirIndexes : root_directory'[k] = IF k = i THEN entry ELSE root_directory[k]
  BY <1>1 DEF LooseInv, Tables
<1>6. Files(root_directory') = Files(root_directory) \cup {i}
  BY <1>5 DEF Files
<1>7. /\ \A k \in Files(root_directory) :
            k # i /\ root_directory'[k].starting_block = root_directory[k].starting_block
      /\ root_directory'[i].starting_block = j
  BY <1>2, <1>5 DEF Files
<1>8. \A b \in Blocks : FAT'[b] = IF b = j THEN EOF_FAT_ENTRY ELSE FAT[b]
  BY <1>1 DEF LooseInv, Tables
<1>9. /\ Sound(FAT', root_directory')
      /\ j \in Chain(FAT', root_directory'[i].starting_block)
      /\ \A k \in Files(root_directory) :
            Chain(FAT', root_directory'[k].starting_block)
               = Chain(FAT, root_directory[k].starting_block)
  <2>1. FAT \in [Blocks -> Blocks] /\ Sound(FAT, root_directory)
    BY DEF LooseInv, Tables
  <2> QED BY <1>2, <1>6, <1>7, <1>8, <2>1, CreateSound
<1>10. /\ up /\ call.op = "idle"
       /\ UNCHANGED <<up, formatted_flag, call, disk_boot, disk_FAT, disk_root>>
  BY DEF Create, Ready, disk
<1>11. Tables'
  <2>1. root_directory' \in [DirIndexes -> Entry] /\ handle_table' \in [Handles -> Handle]
    BY <1>1, <1>3 DEF LooseInv, Tables
  <2>2. FAT' \in [Blocks -> Blocks]
    BY <1>1, SpecialValues DEF LooseInv, Tables
  <2> QED BY <1>10, <2>1, <2>2 DEF LooseInv, Tables, CallFields
<1>12. FlagsOK' /\ CallOK'
  BY <1>10 DEF LooseInv, FlagsOK, CallOK
<1>13. HandlesOnFiles'
  BY <1>4, <1>6 DEF LooseInv, HandlesOnFiles
<1>14. WritersApart'
  <2> SUFFICES ASSUME NEW g \in Handles, handle_table'[g].in_use,
                      handle_table'[g].mode = "WRITE"
               PROVE  LET mine == handle_table'[g].current_block IN
                      /\ mine \in DataBlocks
                      /\ FAT'[mine] # FREE_FAT_ENTRY
                      /\ \A k \in Files(root_directory') :
                            k # handle_table'[g].directory_index =>
                            mine \notin Chain(FAT', root_directory'[k].starting_block)
    BY DEF WritersApart
  <2>1. i \in Files(root_directory')
    BY <1>6
  <2>2. CASE g = h
    <3>1. FAT'[j] # FREE_FAT_ENTRY
      BY <1>8, SpecialValues
    <3> QED BY <1>4, <1>9, <2>1, <2>2, <3>1, SoundBlock
  <2>3. CASE g # h
    <3> DEFINE mine == handle_table[g].current_block
               its == handle_table[g].directory_index
    <3>1. /\ handle_table'[g] = handle_table[g]
          /\ its \in Files(root_directory) /\ its # i
          /\ mine \in DataBlocks /\ mine \in Blocks
          /\ FAT[mine] # FREE_FAT_ENTRY
          /\ \A k \in Files(root_directory) : k # its =>
                mine \notin Chain(FAT, root_directory[k].starting_block)
      BY <1>2, <1>4, <2>3, SpecialValues DEF LooseInv, WritersApart, HandlesOnFiles
    <3> HIDE DEF mine, its
    <3>2. mine # j /\ FAT'[mine] # FREE_FAT_ENTRY
      BY <1>2, <1>8, <3>1
    <3>3. Chain(FAT', root_directory'[i].starting_block) = {j}
      <4>1. j \in DataBlocks
        BY <1>9 DEF Chain
      <4> QED BY <1>7, <1>8, <4>1, ChainOfOne
    <3>4. \A k \in Files(root_directory') : k # its =>
             mine \notin Chain(FAT', root_directory'[k].starting_block)
      BY <1>6, <1>9, <3>1, <3>2, <3>3
    <3> QED BY <3>1, <3>2, <3>4 DEF mine, its
  <2> QED BY <2>2, <2>3
<1> QED BY <1>9, <1>10, <1>11, <1>12, <1>13, <1>14 DEF LooseInv

LEMMA LooseClose == \A h \in Handles : LooseInv /\ Close(h) => LooseInv'
<1> SUFFICES ASSUME LooseInv, NEW h \in Handles, Close(h)  PROVE LooseInv'
  OBVIOUS
<1>1. /\ up /\ call.op = "idle"
      /\ UNCHANGED <<up, formatted_flag, FAT, root_directory, call, disk>>
  BY DEF Close, Ready
<1>2. /\ \A g \in Handles : handle_table'[g] = IF g = h THEN ClosedHandle ELSE handle_table[g]
      /\ handle_table' \in [Handles -> Handle]
  BY ConstantTypes DEF Close, LooseInv, Tables
<1>3. CallOK' /\ CallFields'
  BY <1>1 DEF LooseInv, Tables, CallOK, CallFields
<1>4. ~ClosedHandle.in_use
  BY DEF ClosedHandle
<1> QED BY <1>1, <1>2, <1>3, <1>4, LooseHandles
-----------------------------------------------------------------------------
(***************************************************************************)
(* truncate() and remove() of a file that nobody has open.                 *)
(***************************************************************************)
LEMMA LooseFreed ==
    ASSUME LooseInv, Ready, formatted_flag,
           UNCHANGED <<up, formatted_flag, handle_table, call, disk>>,
           NEW i \in Files(root_directory),
           \A h \in Handles : handle_table[h].in_use => handle_table[h].directory_index # i,
           FAT' \in [Blocks -> Blocks], root_directory' \in [DirIndexes -> Entry],
           Sound(FAT', root_directory'),
           Files(root_directory) \ {i} \subseteq Files(root_directory'),
           Files(root_directory') \subseteq Files(root_directory),
           \A k \in Files(root_directory') :
              Chain(FAT', root_directory'[k].starting_block)
                 \subseteq Chain(FAT, root_directory[k].starting_block),
           \A b \in Blocks \ Chain(FAT, root_directory[i].starting_block) : FAT'[b] = FAT[b]
    PROVE  LooseInv'
<1>1. Tables'
  BY DEF LooseInv, Tables, CallFields, disk
<1>2. FlagsOK' /\ CallOK' /\ up'
  BY DEF Ready, LooseInv, FlagsOK, CallOK, disk
<1>3. HandlesOnFiles'
  BY DEF LooseInv, HandlesOnFiles
<1>4. WritersApart'
  <2> SUFFICES ASSUME NEW h \in Handles, handle_table'[h].in_use,
                      handle_table'[h].mode = "WRITE"
               PROVE  LET mine == handle_table'[h].current_block IN
                      /\ mine \in DataBlocks
                      /\ FAT'[mine] # FREE_FAT_ENTRY
                      /\ \A k \in Files(root_directory') :
                            k # handle_table'[h].directory_index =>
                            mine \notin Chain(FAT', root_directory'[k].starting_block)
    BY DEF WritersApart
  <2> DEFINE mine == handle_table[h].current_block
             its == handle_table[h].directory_index
  <2>1. /\ its # i /\ mine \in DataBlocks /\ mine \in Blocks
        /\ FAT[mine] # FREE_FAT_ENTRY
        /\ \A k \in Files(root_directory) : k # its =>
              mine \notin Chain(FAT, root_directory[k].starting_block)
    BY SpecialValues DEF LooseInv, WritersApart
  <2> HIDE DEF mine, its
  <2>2. FAT'[mine] # FREE_FAT_ENTRY
    BY <2>1
  <2>3. \A k \in Files(root_directory') : k # its =>
           mine \notin Chain(FAT', root_directory'[k].starting_block)
    BY <2>1
  <2> QED BY <2>1, <2>2, <2>3 DEF mine, its
<1> QED BY <1>1, <1>2, <1>3, <1>4 DEF LooseInv

LEMMA LooseTruncate ==
    \A n : LooseInv /\ formatted_flag /\ NotOpen(n) /\ Truncate(n) => LooseInv'
<1> SUFFICES ASSUME LooseInv, formatted_flag, NEW n, NotOpen(n), Truncate(n)
             PROVE  LooseInv'
  OBVIOUS
<1>1. PICK i \in DirIndexes :
         /\ Finds(i, n)
         /\ FAT' = [Freed(FAT, Chain(FAT, root_directory[i].starting_block)) EXCEPT
                       ![root_directory[i].starting_block] = EOF_FAT_ENTRY]
         /\ root_directory' = [root_directory EXCEPT ![i].size = 0]
  BY DEF Truncate
<1> DEFINE start == root_directory[i].starting_block
<1>2. i \in Files(root_directory) /\ root_directory[i] \in Entry /\ Names(i, n)
  BY <1>1 DEF Finds, Names, Files, LooseInv, Tables
<1>3. \A k \in DirIndexes : root_directory'[k] =
         IF k = i THEN [root_directory[k] EXCEPT !.size = 0] ELSE root_directory[k]
  BY <1>1 DEF LooseInv, Tables
<1>4. /\ Files(root_directory') = Files(root_directory)
      /\ \A k \in Files(root_directory) :
            root_directory'[k].starting_block = root_directory[k].starting_block
  BY <1>2, <1>3 DEF Files, Entry
<1>5. /\ FAT' \in [Blocks -> Blocks]
      /\ \A b \in Blocks : FAT'[b] = IF b = start THEN EOF_FAT_ENTRY
                                     ELSE IF b \in Chain(FAT, start) THEN FREE_FAT_ENTRY
                                     ELSE FAT[b]
  BY <1>1, SpecialValues DEF Freed, LooseInv, Tables
<1>6. root_directory' \in [DirIndexes -> Entry]
  BY <1>1 DEF LooseInv, Tables, Entry
<1>7. /\ Sound(FAT', root_directory')
      /\ Chain(FAT', start) = {start}
      /\ start \in Chain(FAT, start)
      /\ \A k \in Files(root_directory') : k # i =>
            Chain(FAT', root_directory'[k].starting_block)
               = Chain(FAT, root_directory[k].starting_block)
  <2>1. FAT \in [Blocks -> Blocks] /\ Sound(FAT, root_directory)
    BY DEF LooseInv, Tables
  <2>2. Ends(FAT, start)
    BY <1>2, <2>1 DEF Sound, ChainsEnd
  <2>3. start \in Chain(FAT, start)
    BY <2>2, ChainIsClosed DEF Ends
  <2>4. start = root_directory[i].starting_block
    OBVIOUS
  <2>5. /\ i \in Files(root_directory)
        /\ \A b \in Blocks : FAT'[b] = IF b = start THEN EOF_FAT_ENTRY
                                       ELSE IF b \in Chain(FAT, start) THEN FREE_FAT_ENTRY
                                       ELSE FAT[b]
    BY <1>2, <1>5
  <2> HIDE DEF start
  <2>6. /\ Sound(FAT', root_directory')
        /\ Chain(FAT', start) = {start}
        /\ \A k \in Files(root_directory') : k # i =>
              /\ Chain(FAT', root_directory'[k].starting_block)
                    = Chain(FAT, root_directory[k].starting_block)
              /\ \A b \in Chain(FAT, root_directory[k].starting_block) : FAT'[b] = FAT[b]
    BY <1>4, <2>1, <2>4, <2>5, TruncateSound, SMTT(60)
  <2> QED BY <2>3, <2>6
<1>8. \A h \in Handles : handle_table[h].in_use => handle_table[h].directory_index # i
  BY <1>2 DEF NotOpen, OpenOn
<1>9. \A k \in Files(root_directory') :
         Chain(FAT', root_directory'[k].starting_block)
            \subseteq Chain(FAT, root_directory[k].starting_block)
  BY <1>2, <1>4, <1>7
<1>10. \A b \in Blocks \ Chain(FAT, start) : FAT'[b] = FAT[b]
  BY <1>5, <1>7
<1>11. Ready /\ UNCHANGED <<up, formatted_flag, handle_table, call, disk>>
  BY DEF Truncate
<1> QED BY <1>2, <1>4, <1>5, <1>6, <1>7, <1>8, <1>9, <1>10, <1>11, LooseFreed

LEMMA LooseRemove ==
    \A n : LooseInv /\ formatted_flag /\ NotOpen(n) /\ Remove(n) => LooseInv'
<1> SUFFICES ASSUME LooseInv, formatted_flag, NEW n, NotOpen(n), Remove(n)
             PROVE  LooseInv'
  OBVIOUS
<1>1. PICK i \in DirIndexes :
         /\ Finds(i, n)
         /\ FAT' = Freed(FAT, Chain(FAT, root_directory[i].starting_block))
         /\ root_directory' = [root_directory EXCEPT ![i] = UnusedEntry]
  BY DEF Remove
<1>2. i \in Files(root_directory) /\ Names(i, n)
  BY <1>1 DEF Finds, Names, Files
<1>3. \A k \in DirIndexes :
         root_directory'[k] = IF k = i THEN UnusedEntry ELSE root_directory[k]
  BY <1>1 DEF LooseInv, Tables
<1>4. /\ Files(root_directory') = Files(root_directory) \ {i}
      /\ \A k \in Files(root_directory') :
            root_directory'[k].starting_block = root_directory[k].starting_block
  BY <1>3 DEF Files, UnusedEntry
<1>5. /\ FAT' \in [Blocks -> Blocks]
      /\ \A b \in Blocks :
            FAT'[b] = IF b \in Chain(FAT, root_directory[i].starting_block)
                      THEN FREE_FAT_ENTRY ELSE FAT[b]
  BY <1>1, SpecialValues DEF Freed, LooseInv, Tables
<1>6. root_directory' \in [DirIndexes -> Entry]
  BY <1>1, ConstantTypes DEF LooseInv, Tables
<1>7. /\ Sound(FAT', root_directory')
      /\ \A k \in Files(root_directory') :
            Chain(FAT', root_directory'[k].starting_block)
               = Chain(FAT, root_directory[k].starting_block)
  <2>1. FAT \in [Blocks -> Blocks] /\ Sound(FAT, root_directory)
    BY DEF LooseInv, Tables
  <2> QED BY <1>2, <1>4, <1>5, <2>1, RemoveSound
<1>8. \A h \in Handles : handle_table[h].in_use => handle_table[h].directory_index # i
  BY <1>2 DEF NotOpen, OpenOn
<1>9. Ready /\ UNCHANGED <<up, formatted_flag, handle_table, call, disk>>
  BY DEF Remove
<1> QED BY <1>2, <1>4, <1>5, <1>6, <1>7, <1>8, <1>9, LooseFreed
-----------------------------------------------------------------------------
(***************************************************************************)
(* The start of read() and write(), and the result.                        *)
(***************************************************************************)
LEMMA LooseStart ==
    ASSUME LooseInv, Ready, NEW h \in Handles, NEW count, NEW op \in {"read", "write"},
           handle_table[h].in_use, op = "read" <=> handle_table[h].mode = "READ",
           Start(op, h, count)
    PROVE  LooseInv'
<1>1. call'.op = op /\ call'.handle = h /\ CallFields'
  BY DEF Start, CallFields
<1>2. /\ up
      /\ UNCHANGED <<up, formatted_flag, FAT, root_directory, handle_table, disk>>
      /\ handle_table \in [Handles -> Handle]
  BY DEF Start, Ready, LooseInv, Tables
<1>3. CallOK'
  BY <1>1, <1>2 DEF CallOK, H
<1> QED BY <1>1, <1>2, <1>3, LooseHandles

LEMMA LooseStarts ==
    \A h \in Handles, count \in Count :
       LooseInv /\ (ReadStart(h, count) \/ WriteStart(h, count)) => LooseInv'
<1> SUFFICES ASSUME LooseInv, NEW h \in Handles, NEW count \in Count,
                    ReadStart(h, count) \/ WriteStart(h, count)
             PROVE  LooseInv'
  OBVIOUS
<1>1. CASE ReadStart(h, count)
  BY <1>1, LooseStart DEF ReadStart
<1>2. CASE WriteStart(h, count)
  <2>1. handle_table[h].mode # "READ"
    BY <1>2 DEF WriteStart
  <2> QED BY <1>2, <2>1, LooseStart DEF WriteStart
<1> QED BY <1>1, <1>2

LEMMA NextLooseInv == LooseInv /\ [LooseNext]_vars => LooseInv'
<1> SUFFICES ASSUME LooseInv, [LooseNext]_vars  PROVE LooseInv'
  OBVIOUS
<1>1. CASE Loop
  <2>1. CASE ReadByte \/ ReadLastByte \/ ReadEnd \/ ReadThrows
    BY <2>1, LooseReading
  <2>2. CASE \/ WriteEnd \/ WriteThrows
             \/ \E byte \in Byte : PutByte(byte) \/ NoFreeBlock(byte)
    BY <2>2, LooseWriting
  <2>3. CASE \E byte \in Byte : PutLastByte(byte)
    BY <2>3, LoosePutLastByte
  <2>4. CASE FlushRoot
    BY <2>4, LooseFlushRoot
  <2> QED BY <1>1, <2>1, <2>2, <2>3, <2>4 DEF Loop
<1>2. CASE Request
  <2>1. CASE Construct \/ DestroyUnformatted \/ FlushFAT \/ (NoHandles /\ Format)
    BY <2>1, LooseConstruct, LooseDestroyUnformatted, LooseFlushFAT, LooseFormat
  <2>2. CASE \E n \in Name :
                /\ formatted_flag
                /\ OpenRead(n) \/ Create(n) \/ (NotOpen(n) /\ (Truncate(n) \/ Remove(n)))
    BY <2>2, LooseOpenRead, LooseCreate, LooseTruncate, LooseRemove
  <2>3. CASE \E h \in Handles : Close(h)
    BY <2>3, LooseClose
  <2>4. CASE \E h \in Handles, count \in Count : ReadStart(h, count) \/ WriteStart(h, count)
    BY <2>4, LooseStarts
  <2> QED BY <1>2, <2>1, <2>2, <2>3, <2>4 DEF Request
<1>3. CASE \E n \in Name : formatted_flag /\ OpenWrite(n)
  BY <1>3, LooseOpenWrite
<1>4. CASE UNCHANGED vars
  BY <1>4 DEF vars, memory, disk, LooseInv, Tables, CallFields, FlagsOK, CallOK, H,
     HandlesOnFiles, WritersApart
<1> QED BY <1>1, <1>2, <1>3, <1>4 DEF LooseNext

\* Whatever handles write to one file, and however small the device is, no file
\* reaches another's blocks or the fixed ones, and every chain ends: the damage
\* that two writers do to a file (FileSystem.cpp:268-274) stays within it.
THEOREM FilesStayApart == LooseSpec => []NoFileHarmsAnother
<1>1. LooseInv => NoFileHarmsAnother
  BY DEF LooseInv, NoFileHarmsAnother, Sound
<1> QED BY <1>1, InitLoose, NextLooseInv, PTL DEF LooseSpec
=============================================================================
