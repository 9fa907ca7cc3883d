------------------------------- MODULE Shell --------------------------------
(***************************************************************************)
(* The command loop of FAT/shell.cpp over FileSystem: one command at a     *)
(* time, check() after each, and an exception out of any of them unwinding *)
(* the FileSystem object and ending the process, which may be run again.   *)
(* The host's file system is external: a host file is a number of bytes,   *)
(* and opening one may fail.                                               *)
(***************************************************************************)
EXTENDS FileSystem

CONSTANTS
    CHUNK,       \* bytes moved at a time (1000 in shell.cpp)
    HostSizes    \* lengths of the host's files

ASSUME ChunkAssumption == CHUNK \in Count /\ HostSizes \subseteq Nat

VARIABLES
    pc,      \* where my_main() or the command stands
    done,    \* exit has been typed
    cmd      \* the command's local variables

shellVars == <<vars, pc, done, cmd>>

NoCommand == [op |-> "none", source |-> NoName, dest |-> NoName,
              in |-> -1, out |-> -1, host |-> 0, count |-> 0, problem |-> FALSE]
Command(op, source, dest, host) ==
    [NoCommand EXCEPT !.op = op, !.source = source, !.dest = dest, !.host = host]

At(here) == pc = here
Goto(there) == pc' = there
Stay == UNCHANGED <<done, cmd>>

ShellInit == Init /\ pc = "off" /\ done = FALSE /\ cmd = NoCommand
-----------------------------------------------------------------------------
(***************************************************************************)
(* main(), my_main() and the commands that are over at once.               *)
(***************************************************************************)
StartUp == /\ At("off") /\ Construct /\ Goto("prompt")
           /\ done' = FALSE /\ cmd' = NoCommand

\* dir, an unknown command, wrong usage, and vdir, change nothing.
Harmless == At("prompt") /\ Goto("check") /\ UNCHANGED vars /\ Stay

quit_op == /\ At("prompt") /\ Goto("check")
           /\ done' = TRUE /\ UNCHANGED <<vars, cmd>>

format_op == At("prompt") /\ Format /\ Goto("check") /\ Stay

vdel_op(n) == /\ At("prompt") /\ formatted_flag
              /\ Remove(n) \/ (Missing(n) /\ UNCHANGED vars)
              /\ Goto("check") /\ Stay

\* The file commands look at FAT and root_directory without asking whether the
\* disk is formatted.  If it is not, those members were never initialized: the
\* command may come back, leaving the disk as it was, or not.
vfile_op_unformatted ==
    /\ At("prompt") /\ ~formatted_flag
    /\ Goto("check") \/ Goto("lost")
    /\ UNCHANGED vars /\ Stay

Throw == Goto("unwind") /\ UNCHANGED vars /\ Stay

\* check() after every command; it throws on an unformatted disk.
Check ==
    /\ At("check")
    /\ IF /\ formatted_flag
          /\ \A h \in Handles : handle_table[h].in_use => handle_table[h].mode = "READ"
          /\ CheckReturns(FAT, root_directory)
       THEN Goto(IF done THEN "unwind" ELSE "prompt")
       ELSE Goto("unwind")
    /\ cmd' = NoCommand
    /\ UNCHANGED <<vars, done>>

\* ~FileSystem(), when my_main() returns and when an exception leaves it.
Unwind == /\ At("unwind")
          /\ \/ FlushFAT /\ UNCHANGED pc
             \/ (DestroyUnformatted \/ FlushRoot) /\ Goto("off")
          /\ Stay
-----------------------------------------------------------------------------
(***************************************************************************)
(* vcopy, vcopyin and vcopyout, which share their steps.                   *)
(***************************************************************************)
Begin(op, s, d, host, first) ==
    /\ At("prompt") /\ formatted_flag
    /\ cmd' = Command(op, s, d, host)
    /\ Goto(first)
    /\ UNCHANGED <<vars, done>>

vcopy_op(s, d) == Begin("vcopy", s, d, 0, "open source")
vcopyin_op(d)  == \E host \in HostSizes : Begin("vcopyin", NoName, d, host, "truncate")
vcopyout_op(s) == Begin("vcopyout", s, NoName, 0, "open source")

NewHandle == CHOOSE h \in Handles : handle_table'[h].in_use /\ ~handle_table[h].in_use

OpenSource ==
    /\ At("open source")
    /\ \/ /\ OpenRead(cmd.source)
          /\ cmd' = [cmd EXCEPT !.in = NewHandle]
          /\ IF cmd.op = "vcopy" THEN Goto("truncate")
             ELSE Goto("copy") \/ Goto("close")    \* no output file: close and return
          /\ UNCHANGED done
       \/ Missing(cmd.source) /\ Throw

\* Variant: the old contents of the destination are kept.
TruncateDestNot ==
    At("truncate") /\ Goto("open dest") /\ UNCHANGED vars /\ Stay

TruncateDest ==
    /\ At("truncate")
    /\ Truncate(cmd.dest) \/ (Missing(cmd.dest) /\ UNCHANGED vars)
    /\ Goto("open dest") /\ Stay

OpenDest ==
    /\ At("open dest")
    /\ \/ /\ OpenWrite(cmd.dest) \/ Create(cmd.dest)
          /\ cmd' = [cmd EXCEPT !.out = NewHandle]
          /\ Goto("copy") /\ UNCHANGED done
       \/ /\ Missing(cmd.dest)
          /\ Files(root_directory) = DirIndexes \/ FreeBlocks(FAT) = {}
          /\ Throw

\* read() from the source; a count of zero ends the loop.
AtEnd(h) == handle_table[h].offset = root_directory[handle_table[h].directory_index].size
GetChunk ==
    /\ At("copy") /\ cmd.op # "vcopyin"
    /\ \/ ReadStart(cmd.in, CHUNK) /\ Goto("read")
       \/ AtEnd(cmd.in) /\ Goto("close") /\ UNCHANGED vars
    /\ Stay

InRead ==
    /\ At("read")
    /\ \/ (ReadByte \/ ReadLastByte) /\ UNCHANGED pc /\ Stay
       \/ /\ ReadEnd
          /\ cmd' = [cmd EXCEPT !.count = Len(call.buffer)]
          /\ Goto(IF cmd.op = "vcopy" THEN "put" ELSE "copy")
          /\ UNCHANGED done

GetHostChunk ==
    /\ At("copy") /\ cmd.op = "vcopyin"
    /\ LET count == Smaller(CHUNK, cmd.host) IN
       /\ cmd' = [cmd EXCEPT !.count = count, !.host = @ - count]
       /\ Goto(IF count = 0 THEN "close" ELSE "put")
    /\ UNCHANGED <<vars, done>>

\* Variant: a chunk that does not fit is tried again.
PutChunkRetry ==
    /\ At("put")
    /\ \/ WriteStart(cmd.out, cmd.count) /\ Goto("write") /\ Stay
       \/ /\ OpenSpace(cmd.out) = 0
          /\ cmd' = [cmd EXCEPT !.problem = TRUE]
          /\ UNCHANGED <<vars, pc, done>>

\* write() to the destination; a short count is reported and the loop goes on.
PutChunk ==
    /\ At("put")
    /\ \/ WriteStart(cmd.out, cmd.count) /\ Goto("write") /\ Stay
       \/ /\ OpenSpace(cmd.out) = 0
          /\ cmd' = [cmd EXCEPT !.problem = TRUE]
          /\ Goto("copy") /\ UNCHANGED <<vars, done>>

InWrite ==
    /\ At("write")
    /\ \/ /\ \E byte \in Byte : PutByte(byte) \/ PutLastByte(byte)
          /\ UNCHANGED pc /\ Stay
       \/ /\ WriteEnd
          /\ cmd' = [cmd EXCEPT !.problem = @ \/ Len(call.buffer) < cmd.count]
          /\ Goto("copy") /\ UNCHANGED done

\* Variant: only one of the files is closed.
CloseFilesOne ==
    /\ At("close")
    /\ \E h \in {cmd.in, cmd.out} \cap Handles : Close(h)
    /\ Goto("check") /\ Stay

CloseFiles ==
    /\ At("close")
    /\ \E h \in {cmd.in, cmd.out} \cap Handles :
          /\ h = cmd.out => cmd.in = -1
          /\ Close(h)
          /\ cmd' = [cmd EXCEPT !.in = -1, !.out = IF h = @ THEN -1 ELSE @]
          /\ Goto(IF cmd'.out = -1 THEN "check" ELSE "close")
    /\ UNCHANGED done
-----------------------------------------------------------------------------
\* What the program does by itself, and what the user types.
Runs == \/ Check \/ Unwind
        \/ OpenSource \/ TruncateDest \/ OpenDest
        \/ GetChunk \/ InRead \/ GetHostChunk \/ PutChunk \/ InWrite \/ CloseFiles

Types == \/ StartUp \/ Harmless \/ quit_op \/ format_op \/ vfile_op_unformatted
         \/ \E n \in Name : vdel_op(n) \/ vcopyin_op(n) \/ vcopyout_op(n)
         \/ \E s, d \in Name : vcopy_op(s, d)

Gone == At("lost") /\ UNCHANGED shellVars

ShellNext == Runs \/ Types \/ Gone

\* The one thread of the program runs on; the user may stop typing.
ShellSpec == ShellInit /\ [][ShellNext]_shellVars /\ WF_shellVars(Runs)
-----------------------------------------------------------------------------
\* After any command on a formatted disk check() returns: the command has closed
\* what it opened and left sizes, chains and free blocks in agreement, whether its
\* copy was complete, empty, cut short by a full disk, or of a file onto itself.
CheckAccepts == At("check") /\ formatted_flag =>
                   NoHandles /\ CheckReturns(FAT, root_directory)

SizeOf(n) == {root_directory[i].size : i \in {k \in Files(root_directory) :
                                                 root_directory[k].name = n}}

\* vcopy without "problem writing destination" leaves two files of one size.
CopyIsComplete ==
    At("check") /\ cmd.op = "vcopy" /\ ~cmd.problem =>
       SizeOf(cmd.dest) = SizeOf(cmd.source) /\ SizeOf(cmd.dest) # {}

\* A copy has a problem only when it has used up the disk: no write() is cut
\* short while a block is free, nor does space turn up for a later chunk.
ProblemMeansFull == cmd.problem => FreeBlocks(FAT) = {}

\* While a copy runs no other file gains or loses a block or a byte.
OthersUntouched ==
    [][pc \notin {"prompt", "off"} /\ up' =>
          \A i \in Files(root_directory) : root_directory[i].name # cmd.dest =>
             LET start == root_directory[i].starting_block IN
             /\ root_directory'[i] = root_directory[i]
             /\ Chain(FAT', start) = Chain(FAT, start)]_shellVars

\* However the program ended, by exit or by an exception in the middle of a
\* command, the next run finds a disk that check() accepts.
NextRunIsChecked == At("off") /\ disk_boot => CheckReturns(disk_FAT, disk_root)

\* Every command comes back to the prompt or ends the program: its loops end on
\* a full disk and on a file that is copied onto itself too.
CommandTerminates ==
    pc \notin {"prompt", "off", "lost"} ~> pc \in {"prompt", "off"}
=============================================================================
