------------------------------ MODULE MCStore -------------------------------
(***************************************************************************)
(* Bounds for checking FileSystemStore with TLC: those of MCFileSystem.    *)
(***************************************************************************)
EXTENDS FileSystemStore, MCFileSystem
=============================================================================
