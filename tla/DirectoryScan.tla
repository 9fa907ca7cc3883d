--------------------------- MODULE DirectoryScan ----------------------------
(***************************************************************************)
(* open_dir() and next_dir() of FAT/FileSystem.cpp, called between other   *)
(* calls that create and remove files.  The object keeps one position for  *)
(* the one scan there can be.                                              *)
(***************************************************************************)
EXTENDS FileSystem

VARIABLES
    scan_index,
    scanning,    \* open_dir() was called and next_dir() has not returned false
    reported,    \* how often the scan has returned each name
    stayed       \* the names in the directory ever since open_dir()

scanVars == <<scan_index, scanning, reported, stayed>>

NamesIn(r) == {r[i].name : i \in Files(r)}

ScanInit == /\ Init
            /\ scan_index = 0
            /\ scanning = FALSE
            /\ reported = [n \in Name |-> 0]
            /\ stayed = {}

\* Variant: a second scan goes on where the first one stopped.
open_dir_stale == /\ Ready /\ formatted_flag
                  /\ scanning' = TRUE
                  /\ reported' = [n \in Name |-> 0]
                  /\ stayed' = NamesIn(root_directory)
                  /\ UNCHANGED <<vars, scan_index>>

open_dir == /\ Ready
            /\ formatted_flag
            /\ scan_index' = 0
            /\ scanning' = TRUE
            /\ reported' = [n \in Name |-> 0]
            /\ stayed' = NamesIn(root_directory)
            /\ UNCHANGED vars

\* Variant: the entry at scan_index is stepped over.
AheadStrictly == {i \in Files(root_directory) : i > scan_index}
Ahead == {i \in Files(root_directory) : i >= scan_index}

\* Skip unused entries; copy the first used one out and step over it ...
next_dir_found ==
    /\ Ready /\ scanning
    /\ \E i \in Ahead :
          /\ \A k \in Ahead : i <= k
          /\ scan_index' = i + 1
          /\ reported' = [reported EXCEPT ![root_directory[i].name] = @ + 1]
    /\ UNCHANGED <<vars, scanning, stayed>>

\* ... or come to the end of the table and return false.
next_dir_end ==
    /\ Ready /\ scanning
    /\ Ahead = {}
    /\ scan_index' = DIR_SIZE
    /\ scanning' = FALSE
    /\ UNCHANGED <<vars, reported, stayed>>

\* Any other call; a destructor ends the scan.
OtherCall == /\ Next
             /\ scanning' = (scanning /\ up')
             /\ stayed' = stayed \cap NamesIn(root_directory')
             /\ UNCHANGED <<scan_index, reported>>

ScanNext == open_dir \/ next_dir_found \/ next_dir_end \/ OtherCall

ScanSpec == ScanInit /\ [][ScanNext]_<<vars, scanVars>>
-----------------------------------------------------------------------------
\* A file that is there throughout a scan is reported by it exactly once: never
\* twice, and by the time next_dir() returns false, it has been.  Files created
\* and removed meanwhile, also into entries the scan has passed, do not matter.
ScanReportsEachOnce ==
    \A i \in Files(root_directory) :
       LET n == root_directory[i].name IN
       scanning /\ n \in stayed => reported[n] = IF i < scan_index THEN 1 ELSE 0

\* What a scan has returned by the time it ends.
ScanEndsComplete ==
    [][scanning /\ ~scanning' /\ up' => \A n \in stayed : reported[n] = 1]_<<vars, scanVars>>
=============================================================================
