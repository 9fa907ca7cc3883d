----------------------------- MODULE FileStore ------------------------------
(***************************************************************************)
(* What FileSystem.hpp promises to a caller: named sequences of bytes that *)
(* are written at their end and read from their start, one call at a time, *)
(* and that are still there when the file system is shut down and started  *)
(* again.  Nothing is said of blocks; a write may be cut short.            *)
(***************************************************************************)
EXTENDS Integers, Sequences

CONSTANTS Name, Byte, Handles, MaxCount, Absent

VARIABLES files, handles, reply

storeVars == <<files, handles, reply>>

NotInUse == [in_use |-> FALSE, mode |-> "READ", name |-> Absent, offset |-> 0]
Opened(mode, n, offset) ==
    [in_use |-> TRUE, mode |-> mode, name |-> n, offset |-> offset]

Exists(n) == files[n] # Absent

StoreInit == /\ files = [n \in Name |-> Absent]
             /\ handles = [h \in Handles |-> NotInUse]
             /\ reply = << >>

\* The object is destroyed, or a new one constructed: only handles are lost.
Restart == /\ handles' = [h \in Handles |-> NotInUse]
           /\ UNCHANGED <<files, reply>>

MakeFileSystem == /\ files' = [n \in Name |-> Absent]
                  /\ UNCHANGED <<handles, reply>>

Open(h, n) ==
    /\ ~handles[h].in_use
    /\ \/ /\ Exists(n)
          /\ handles' = [handles EXCEPT ![h] = Opened("READ", n, 0)]
          /\ UNCHANGED files
       \/ /\ Exists(n)
          /\ handles' = [handles EXCEPT ![h] = Opened("WRITE", n, Len(files[n]))]
          /\ UNCHANGED files
       \/ /\ ~Exists(n)
          /\ handles' = [handles EXCEPT ![h] = Opened("WRITE", n, 0)]
          /\ files' = [files EXCEPT ![n] = << >>]
    /\ UNCHANGED reply

CloseHandle(h) == /\ handles[h].in_use
                  /\ handles' = [handles EXCEPT ![h] = NotInUse]
                  /\ UNCHANGED <<files, reply>>

Empty(n)  == Exists(n) /\ files' = [files EXCEPT ![n] = << >>]
             /\ UNCHANGED <<handles, reply>>
Delete(n) == Exists(n) /\ files' = [files EXCEPT ![n] = Absent]
             /\ UNCHANGED <<handles, reply>>

\* The next k bytes of the file, and all of them if fewer are left.
Read(h, k) ==
    LET file == files[handles[h].name]  offset == handles[h].offset IN
    /\ handles[h].in_use /\ handles[h].mode = "READ"
    /\ reply' = SubSeq(file, offset + 1,
                       IF offset + k < Len(file) THEN offset + k ELSE Len(file))
    /\ handles' = [handles EXCEPT ![h].offset = @ + Len(reply')]
    /\ UNCHANGED files

Return == reply' = << >> /\ UNCHANGED <<files, handles>>

Write(h, data) ==
    /\ handles[h].in_use /\ handles[h].mode = "WRITE"
    /\ files' = [files EXCEPT ![handles[h].name] = @ \o data]
    /\ handles' = [handles EXCEPT ![h].offset = @ + Len(data)]
    /\ UNCHANGED reply

StoreNext ==
    \/ Restart \/ MakeFileSystem \/ Return
    \/ \E n \in Name : Empty(n) \/ Delete(n) \/ \E h \in Handles : Open(h, n)
    \/ \E h \in Handles, k \in 1 .. MaxCount :
          CloseHandle(h) \/ Read(h, k) \/ \E data \in [1 .. k -> Byte] : Write(h, data)

StoreSpec == StoreInit /\ [][StoreNext]_storeVars
=============================================================================
