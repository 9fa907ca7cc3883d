-------------------------- MODULE FileSystemCrash ---------------------------
(***************************************************************************)
(* FileSystem with a process that may die at any point, between any two    *)
(* device transfers, and be started again on the same backing file.  What  *)
(* is in memory is lost; what has been written to the device stays.        *)
(*                                                                         *)
(* Two stretches leave the device's boot block, FAT and root directory out *)
(* of step: from the format() of a fresh device to the end of the first    *)
(* flush(), and from the first to the second write of any flush().         *)
(***************************************************************************)
EXTENDS FileSystem

VARIABLES
    intact,   \* FAT and root directory on the disk were flushed together
    torn      \* an object was constructed on a disk that is not intact

crashVars == <<vars, intact, torn>>

CrashInit == Init /\ intact = FALSE /\ torn = FALSE

\* The process is killed: no destructor runs.
Crash == /\ up
         /\ Discarded
         /\ UNCHANGED <<disk, intact, torn>>

\* A step of the code, and what it does to the two observations.
Step == /\ Next
        /\ intact' = (call.op = "flush" \/ (intact /\ call'.op # "flush"))
        /\ torn' = (torn \/ (~up /\ disk_boot /\ ~intact))

\* Formatting builds both tables anew.
Repair == torn /\ Ready /\ Format /\ torn' = FALSE /\ UNCHANGED intact

CrashNext == Crash \/ Repair \/ ((torn => ~up) /\ Step)
TornNext  == Crash \/ Repair \/ Step

\* CrashSpec lets a torn object be formatted and nothing else; TornSpec lets it
\* be used.
CrashSpec == CrashInit /\ [][CrashNext]_crashVars
TornSpec  == CrashInit /\ [][TornNext]_crashVars
-----------------------------------------------------------------------------
\* Whatever is lost by a crash outside the two stretches, the next object finds
\* a FAT and a root directory that check() accepts, though data blocks have
\* since been freed, reused and overwritten (FileSystem, flush, check).
RestartIsChecked == disk_boot /\ intact => CheckReturns(disk_FAT, disk_root)

\* An object constructed on an intact disk keeps the FAT consistent.
StaysConsistent == ~torn => FATConsistent

\* The FAT's special values "are small, positive integers that are not being used
\* for any valid data block" (FileSystem.hpp:88-89): no file starts on one.
StartsOnDataBlock ==
    \A i \in Files(root_directory) : root_directory[i].starting_block \in DataBlocks
=============================================================================
