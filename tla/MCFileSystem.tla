---------------------------- MODULE MCFileSystem ----------------------------
(***************************************************************************)
(* Bounds for checking FileSystem with TLC.                                *)
(***************************************************************************)
EXTENDS FileSystem, TLC

\* File names are interchangeable.
NameSymmetry == Permutations(Name)

\* One mount: the object is not used again once the disk has been flushed.
OneMount == disk_FAT = AllFree

\* The first mount may fill the disk; the later ones leave its last block free.
LastBlockFree == FAT[FAT_SIZE - 1] = FREE_FAT_ENTRY
Remounts == OneMount \/ LastBlockFree

\* Two writers of one file count its bytes twice: MaxSize bounds the files.
MaxSize == 2 * BLOCK_SIZE + 1
Misuse == OneMount /\ \A i \in DirIndexes : root_directory[i].size <= MaxSize
=============================================================================
