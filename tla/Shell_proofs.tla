---------------------------- MODULE Shell_proofs ----------------------------
(***************************************************************************)
(* The shell on a device that holds every block of the FAT.  One command   *)
(* after another leaves a file system that check() accepts, because each   *)
(* step keeps FullInv: the one call by which a command goes beyond what    *)
(* Next allows, the truncation of a file it has itself open, comes before  *)
(* a byte of that file has been read.                                      *)
(***************************************************************************)
EXTENDS Shell, FileSystemCounts_proofs
-----------------------------------------------------------------------------
(***************************************************************************)
(* The inductive invariant, in four parts beside FullInv.                  *)
(***************************************************************************)
Copying == {"copy", "read", "put", "write"}
Working == {"open source", "truncate", "open dest", "close"} \cup Copying

CommandType == [op : {"none", "vcopy", "vcopyin", "vcopyout"},
                source : Name \cup {NoName}, dest : Name \cup {NoName},
                in : Handles \cup {-1}, out : Handles \cup {-1},
                host : Nat, count : Nat, problem : BOOLEAN]

ShellTypeOK ==
    /\ pc \in {"off", "prompt", "check", "lost", "unwind"} \cup Working
    /\ cmd \in CommandType

\* Where the program stands tells whether the object exists and which call it is in.
PlaceOK ==
    /\ At("off") <=> ~up
    /\ call.op = "read" <=> At("read")
    /\ call.op = "write" <=> At("write")
    /\ call.op = "flush" => At("unwind")
    /\ At("read") => call.handle = cmd.in
    /\ At("write") => call.handle = cmd.out
    /\ pc \in Working => formatted_flag

\* A command that is at work has the names it needs, and makes its own steps only.
CommandOK ==
    /\ At("prompt") => cmd = NoCommand
    /\ pc \in Working => cmd.op # "none"
    /\ cmd.op \in {"vcopy", "vcopyout"} => cmd.source \in Name
    /\ cmd.op \in {"vcopy", "vcopyin"} => cmd.dest \in Name
    /\ At("open source") => cmd.op # "vcopyin"
    /\ pc \in {"truncate", "open dest", "put", "write"} => cmd.op # "vcopyout"

OpenAs(h, mode, n) ==
    /\ h \in Handles /\ handle_table[h].in_use
    /\ handle_table[h].mode = mode
    /\ root_directory[handle_table[h].directory_index].name = n

Fresh(h) == /\ handle_table[h].offset = 0
            /\ handle_table[h].current_block =
                  root_directory[handle_table[h].directory_index].starting_block

\* The open handles are the command's own: a reader of its source and a writer to
\* its destination, each from its open() to its close().
HandlesOK ==
    /\ \A h \in Handles : handle_table[h].in_use => h \in {cmd.in, cmd.out}
    /\ pc \in Working /\ cmd.in # -1 => OpenAs(cmd.in, "READ", cmd.source)
    /\ pc \in Working /\ cmd.out # -1 => OpenAs(cmd.out, "WRITE", cmd.dest)
    /\ pc \in {"prompt", "check", "lost", "open source"} => cmd.in = -1 /\ cmd.out = -1
    /\ pc \in {"truncate", "open dest"} => /\ cmd.out = -1
                                           /\ cmd.in # -1 => Fresh(cmd.in)
    /\ pc \in Working \ {"open source", "close"} /\ cmd.op # "vcopyin" => cmd.in # -1
    /\ pc \in Copying \cup {"close"} /\ cmd.op # "vcopyout" => cmd.out # -1

ShellOK == ShellTypeOK /\ PlaceOK /\ CommandOK /\ HandlesOK
ShellInv == FullInv /\ ShellOK

(***************************************************************************)
(* How far a copy has come.                                                *)
(***************************************************************************)
SizeAt(h) == root_directory[handle_table[h].directory_index].size

\* A call that was cut short fills what space there is; after it there is none.
SpaceOK ==
    /\ cmd.problem => FreeBlocks(FAT) = {} /\ pc \in Copying \cup {"close", "check"}
    /\ At("write") => Len(call.buffer) <= call.count /\ call.count <= cmd.count
    /\ At("write") /\ call.count < cmd.count =>
          OpenSpace(cmd.out) = call.count - Len(call.buffer)

\* Without a problem the destination has every byte that has been read of another
\* file, but for those of the chunk in hand.
Unhindered == cmd.op = "vcopy" /\ ~cmd.problem /\ cmd.source # cmd.dest
Copied ==
    Unhindered =>
       /\ At("open dest") => \A i \in DirIndexes : Names(i, cmd.dest) => root_directory[i].size = 0
       /\ At("copy") => handle_table[cmd.in].offset = SizeAt(cmd.out)
       /\ At("read") => handle_table[cmd.in].offset = SizeAt(cmd.out) + Len(call.buffer)
       /\ At("put") => handle_table[cmd.in].offset = SizeAt(cmd.out) + cmd.count
       /\ At("write") => handle_table[cmd.in].offset
                            = SizeAt(cmd.out) + (cmd.count - Len(call.buffer))
       /\ pc \in {"close", "check"} =>
             \E i, k \in DirIndexes : /\ Names(i, cmd.source) /\ Names(k, cmd.dest)
                                      /\ root_directory[i].size = root_directory[k].size

\* A file copied onto itself is there in the end.
DestThere == pc \in {"close", "check"} /\ cmd.op = "vcopy" =>
                \E k \in DirIndexes : Names(k, cmd.dest)

CopyInv == SpaceOK /\ Copied /\ DestThere
-----------------------------------------------------------------------------
(***************************************************************************)
(* What the shell does with a FileSystem, and that it keeps FullInv.       *)
(***************************************************************************)
Used == \/ Next
        \/ \E n \in Name : formatted_flag /\ Unread(n) /\ Truncate(n)
        \/ \E h \in Handles, count \in Nat : WriteStart(h, count)

LEMMA UsedFullInv == WholeDisk /\ FullInv /\ [Used]_vars => FullInv'
<1> SUFFICES ASSUME WholeDisk, FullInv, [Used]_vars  PROVE FullInv'
  OBVIOUS
<1>1. CASE [Next]_vars
  BY <1>1, NextFullInv
<1>2. ASSUME NEW n \in Name, formatted_flag, Unread(n), Truncate(n)  PROVE FullInv'
  <2>1. IInv' /\ Counts'
    BY <1>2, UnreadIfNotOpen, TruncateIInv, TruncateCounts DEF FullInv
  <2>2. NamesUnique'
    BY <1>2, TruncateNames DEF FullInv
  <2>3. DiskNames'
    BY <1>2 DEF Truncate, Ready, DiskNames
  <2> QED BY <2>1, <2>2, <2>3 DEF FullInv, Counts
<1>3. ASSUME NEW h \in Handles, NEW count \in Nat, WriteStart(h, count)  PROVE FullInv'
  <2>1. IInv' /\ Counts'
    BY <1>3, WriteStartIInv, WriteStartCounts DEF FullInv
  <2>2. NamesUnique' /\ DiskNames'
    BY <1>3 DEF WriteStart, Start, Ready, FullInv, NamesUnique, DiskNames
  <2> QED BY <2>1, <2>2 DEF FullInv, Counts
<1> QED BY <1>1, <1>2, <1>3 DEF Used

LEMMA NotHandle == -1 \notin Handles
BY SizeAssumption DEF Handles

\* At the prompt no handle is open.
LEMMA NoneOpen ==
    HandlesOK /\ pc \in {"prompt", "check", "lost", "open source"} => NoHandles
BY NotHandle DEF HandlesOK, NoHandles

LEMMA NoneOpenNotOpen == \A n : NoHandles => NotOpen(n)
BY DEF NoHandles, NotOpen, OpenOn

\* truncate() meets no other handle on the destination than the source's own.
LEMMA DestUnread == ShellInv /\ At("truncate") => Unread(cmd.dest)
<1> SUFFICES ASSUME ShellInv, At("truncate"), NEW h \in Handles, NEW i \in DirIndexes,
                    OpenOn(h, i), Names(i, cmd.dest)
             PROVE  /\ handle_table[h].mode = "READ" /\ handle_table[h].offset = 0
                    /\ handle_table[h].current_block = root_directory[i].starting_block
  BY DEF Unread
<1>1. h = cmd.in /\ cmd.in # -1
  BY NotHandle DEF ShellInv, ShellOK, HandlesOK, OpenOn, At
<1>2. OpenAs(cmd.in, "READ", cmd.source) /\ Fresh(cmd.in)
  BY <1>1 DEF ShellInv, ShellOK, HandlesOK, At, Working
<1> QED BY <1>1, <1>2 DEF OpenAs, Fresh, OpenOn

\* At that point the only handle open reads the source.
LEMMA DestUnwritten == ShellInv /\ At("open dest") => NoWriter(cmd.dest)
<1> SUFFICES ASSUME ShellInv, At("open dest"), NEW h \in Handles, NEW i \in DirIndexes,
                    OpenOn(h, i), handle_table[h].mode = "WRITE"
             PROVE  FALSE
  BY DEF NoWriter
<1>1. h = cmd.in /\ cmd.in # -1
  BY NotHandle DEF ShellInv, ShellOK, HandlesOK, OpenOn, At
<1>2. OpenAs(cmd.in, "READ", cmd.source)
  BY <1>1 DEF ShellInv, ShellOK, HandlesOK, At, Working
<1> QED BY <1>1, <1>2 DEF OpenAs

\* The handles a command at work holds.
LEMMA HandleIn ==
    ShellInv /\ pc \in Copying /\ cmd.op # "vcopyin" =>
       cmd.in \in Handles /\ OpenAs(cmd.in, "READ", cmd.source)
BY DEF ShellInv, ShellOK, HandlesOK, Working, Copying, OpenAs

LEMMA HandleOut ==
    ShellInv /\ pc \in Copying \cup {"close"} /\ cmd.op # "vcopyout" =>
       cmd.out \in Handles /\ OpenAs(cmd.out, "WRITE", cmd.dest)
BY DEF ShellInv, ShellOK, HandlesOK, Working, Copying, OpenAs

LEMMA StepUsed == ShellInv /\ [ShellNext]_shellVars => [Used]_vars
<1> SUFFICES ASSUME ShellInv, [ShellNext]_shellVars  PROVE [Used]_vars
  OBVIOUS
<1>1. /\ Throw => UNCHANGED vars
      /\ Harmless \/ quit_op \/ vfile_op_unformatted \/ Check \/ GetHostChunk \/ Gone
            => UNCHANGED vars
  BY DEF Throw, Harmless, quit_op, vfile_op_unformatted, Check, GetHostChunk, Gone, shellVars
<1>2. \A s, d \in Name : vcopy_op(s, d) \/ vcopyin_op(d) \/ vcopyout_op(s) => UNCHANGED vars
  BY DEF vcopy_op, vcopyin_op, vcopyout_op, Begin
<1>3. StartUp \/ format_op => Used
  BY NoneOpen DEF StartUp, format_op, ShellInv, ShellOK, At, Used, Next, Request
<1>4. ASSUME NEW n \in Name, vdel_op(n)  PROVE [Used]_vars
  BY <1>4, NoneOpen, NoneOpenNotOpen
  DEF vdel_op, ShellInv, ShellOK, At, Used, Next, Request
<1>5. Unwind => Used
  BY DEF Unwind, Used, Next, Request, Loop
<1>6. CASE OpenSource
  <2>1. formatted_flag /\ cmd.source \in Name
    BY <1>6 DEF OpenSource, At, ShellInv, ShellOK, PlaceOK, CommandOK, ShellTypeOK,
        CommandType, Working
  <2> QED BY <1>1, <1>6, <2>1 DEF OpenSource, Used, Next, Request
<1>7. CASE TruncateDest
  <2>1. formatted_flag /\ cmd.dest \in Name /\ Unread(cmd.dest)
    BY <1>7, DestUnread
    DEF TruncateDest, At, ShellInv, ShellOK, PlaceOK, CommandOK, ShellTypeOK,
        CommandType, Working
  <2> QED BY <1>7, <2>1 DEF TruncateDest, Used
<1>8. CASE OpenDest
  <2>1. formatted_flag /\ cmd.dest \in Name /\ NoWriter(cmd.dest)
    BY <1>8, DestUnwritten
    DEF OpenDest, At, ShellInv, ShellOK, PlaceOK, CommandOK, ShellTypeOK,
        CommandType, Working
  <2> QED BY <1>1, <1>8, <2>1 DEF OpenDest, Used, Next, Request
<1>9. CASE GetChunk
  <2>1. cmd.in \in Handles
    BY <1>9, HandleIn DEF GetChunk, At, Copying
  <2> QED BY <1>9, <2>1, ChunkAssumption DEF GetChunk, Used, Next, Request
<1>10. InRead \/ InWrite => Used
  BY DEF InRead, InWrite, Used, Next, Loop
<1>11. CASE PutChunk
  <2>1. cmd.out \in Handles /\ cmd.count \in Nat
    BY <1>11, HandleOut
    DEF PutChunk, At, Copying, ShellInv, ShellOK, CommandOK, ShellTypeOK, CommandType
  <2> QED BY <1>11, <2>1 DEF PutChunk, Used
<1>12. CASE CloseFiles
  BY <1>12 DEF CloseFiles, Used, Next, Request
<1>13. CASE UNCHANGED shellVars
  BY <1>13 DEF shellVars
<1> QED BY <1>1, <1>2, <1>3, <1>4, <1>5, <1>6, <1>7, <1>8, <1>9, <1>10, <1>11, <1>12, <1>13
    DEF ShellNext, Runs, Types

LEMMA ShellFullInv == WholeDisk /\ ShellInv /\ [ShellNext]_shellVars => FullInv'
BY StepUsed, UsedFullInv DEF ShellInv
-----------------------------------------------------------------------------
(***************************************************************************)
(* The rest of the invariant, step by step.                                *)
(***************************************************************************)
LEMMA InitShell == ShellInit => ShellOK
<1> SUFFICES ASSUME ShellInit  PROVE ShellOK
  OBVIOUS
<1>1. NoCommand \in CommandType
  BY DEF NoCommand, CommandType
<1>2. ShellTypeOK
  BY <1>1 DEF ShellInit, ShellTypeOK
<1>3. ~up /\ call.op = "idle" /\ pc = "off" /\ cmd.op = "none"
  BY DEF ShellInit, Init, Idle, NoCommand
<1>4. PlaceOK /\ CommandOK
  BY <1>3 DEF PlaceOK, CommandOK, At, Working, Copying
<1>5. HandlesOK
  BY <1>3, AllClosedClosed DEF HandlesOK, ShellInit, Init, Working, Copying
<1> QED BY <1>2, <1>4, <1>5 DEF ShellOK

\* The object stays as it is and no command is at work after the step.
LEMMA RestingStep ==
    ASSUME ShellInv, UNCHANGED vars, ~At("read"), ~At("write"), ~At("off"),
           pc' \in {"prompt", "check", "lost", "unwind"},
           cmd' = NoCommand \/ cmd' = cmd,
           pc' = "prompt" => cmd' = NoCommand,
           cmd' = NoCommand => NoHandles,
           pc' \in {"check", "lost"} => cmd'.in = -1 /\ cmd'.out = -1,
           call.op # "flush"
    PROVE  ShellOK'
<1>1. NoCommand \in CommandType
      /\ NoCommand.op = "none" /\ NoCommand.in = -1 /\ NoCommand.out = -1
  BY DEF NoCommand, CommandType
<1>2. ShellTypeOK'
  BY <1>1 DEF ShellInv, ShellOK, ShellTypeOK
<1>3. UNCHANGED <<up, call, handle_table, formatted_flag>>
  BY DEF vars, memory
<1>4. pc' \notin Working
  BY DEF Working, Copying
<1>5. PlaceOK'
  BY <1>3, <1>4 DEF ShellInv, ShellOK, PlaceOK, At
<1>6. CommandOK'
  <2>1. cmd' = NoCommand => cmd'.op = "none"
    BY <1>1
  <2>2. cmd' = cmd => /\ cmd'.op \in {"vcopy", "vcopyout"} => cmd'.source \in Name
                      /\ cmd'.op \in {"vcopy", "vcopyin"} => cmd'.dest \in Name
    BY DEF ShellInv, ShellOK, CommandOK
  <2> QED BY <1>4, <2>1, <2>2 DEF CommandOK, At
<1>7. HandlesOK'
  <2>1. \A h \in Handles : handle_table'[h].in_use => h \in {cmd'.in, cmd'.out}
    BY <1>1, <1>3 DEF ShellInv, ShellOK, HandlesOK, NoHandles
  <2>2. pc' \in {"prompt", "check", "lost", "open source"} => cmd'.in = -1 /\ cmd'.out = -1
    BY <1>1
  <2> HIDE DEF NoHandles
  <2> QED BY <1>4, <2>1, <2>2 DEF HandlesOK, Copying, Working
<1> QED BY <1>2, <1>5, <1>6, <1>7 DEF ShellOK

LEMMA StartUpShell == ShellInv /\ StartUp => ShellOK'
<1> SUFFICES ASSUME ShellInv, StartUp  PROVE ShellOK'
  OBVIOUS
<1>1. NoCommand \in CommandType
      /\ NoCommand.op = "none" /\ NoCommand.in = -1 /\ NoCommand.out = -1
  BY DEF NoCommand, CommandType
<1>2. up' /\ call' = call /\ handle_table' = AllClosed /\ pc' = "prompt" /\ cmd' = NoCommand
  BY DEF StartUp, Construct, Goto
<1>3. call.op = "idle"
  BY DEF StartUp, Construct, ShellInv, FullInv, IInv, CallOK
<1>4. ShellTypeOK' /\ PlaceOK' /\ CommandOK'
  BY <1>1, <1>2, <1>3 DEF ShellTypeOK, PlaceOK, CommandOK, At, Working, Copying
<1>5. HandlesOK'
  BY <1>1, <1>2, AllClosedClosed DEF HandlesOK, Working, Copying
<1> QED BY <1>4, <1>5 DEF ShellOK

\* Between calls the program stands nowhere in the middle of one.
LEMMA Between ==
    ShellInv => /\ pc \notin {"read", "write", "unwind"} => call.op = "idle"
                /\ call.op = "idle" => pc \notin {"read", "write"}
                /\ ~At("off") => up
<1> SUFFICES ASSUME ShellInv
             PROVE  /\ pc \notin {"read", "write", "unwind"} => call.op = "idle"
                    /\ call.op = "idle" => pc \notin {"read", "write"}
                    /\ ~At("off") => up
  OBVIOUS
<1>1. call.op \in {"idle", "read", "write", "flush"}
  BY DEF ShellInv, FullInv, IInv, TypeOK, Call
<1> QED BY <1>1 DEF ShellInv, ShellOK, PlaceOK, At

LEMMA OverAtOnceShell ==
    ShellInv /\ (Harmless \/ quit_op \/ vfile_op_unformatted) => ShellOK'
<1> SUFFICES ASSUME ShellInv, Harmless \/ quit_op \/ vfile_op_unformatted  PROVE ShellOK'
  OBVIOUS
<1>1. /\ pc = "prompt" /\ UNCHANGED vars /\ cmd' = cmd /\ pc' \in {"check", "lost"}
  BY DEF Harmless, quit_op, vfile_op_unformatted, At, Goto, Stay
<1>2. /\ call.op = "idle" /\ NoHandles /\ cmd.in = -1 /\ cmd.out = -1
  BY <1>1, Between, NoneOpen DEF ShellInv, ShellOK, HandlesOK
<1> QED BY <1>1, <1>2, RestingStep DEF At

LEMMA CheckShell == ShellInv /\ Check => ShellOK'
<1> SUFFICES ASSUME ShellInv, Check  PROVE ShellOK'
  OBVIOUS
<1>1. /\ pc = "check" /\ UNCHANGED vars /\ cmd' = NoCommand /\ pc' \in {"prompt", "unwind"}
  BY DEF Check, At, Goto
<1>2. call.op = "idle" /\ NoHandles
  BY <1>1, Between, NoneOpen DEF ShellInv, ShellOK
<1> QED BY <1>1, <1>2, RestingStep DEF At

LEMMA ThrowShell ==
    ShellInv /\ pc \in {"open source", "open dest"} /\ Throw => ShellOK'
<1> SUFFICES ASSUME ShellInv, pc \in {"open source", "open dest"}, Throw  PROVE ShellOK'
  OBVIOUS
<1>1. UNCHANGED vars /\ cmd' = cmd /\ pc' = "unwind" /\ call.op = "idle"
  BY Between DEF Throw, Goto, Stay
<1>2. cmd # NoCommand
  <2>1. cmd.op # "none"
    BY DEF ShellInv, ShellOK, CommandOK, Working
  <2>2. NoCommand.op = "none"
    BY DEF NoCommand
  <2> QED BY <2>1, <2>2
<1>3. ~At("read") /\ ~At("write") /\ ~At("off")
  BY DEF At
<1>4. /\ pc' = "unwind" /\ pc' \notin {"prompt", "check", "lost"}
      /\ cmd' # NoCommand /\ call.op # "flush"
  BY <1>1, <1>2
<1> QED BY <1>1, <1>3, <1>4, RestingStep

\* format and vdel change the two tables, and leave no handle on a file.
LEMMA TablesShell ==
    ASSUME ShellInv, At("prompt"), pc' = "check", UNCHANGED <<cmd, up, handle_table, call>>
    PROVE  ShellOK'
<1>1. call.op = "idle" /\ cmd = NoCommand
  BY Between DEF ShellInv, ShellOK, CommandOK, At
<1>2. ShellTypeOK' /\ PlaceOK'
  BY <1>1 DEF ShellInv, ShellOK, ShellTypeOK, PlaceOK, At, Working, Copying
<1>3. CommandOK'
  BY <1>1 DEF CommandOK, At, Working, Copying, NoCommand
<1>4. HandlesOK'
  BY DEF ShellInv, ShellOK, HandlesOK, At, Working, Copying
<1> QED BY <1>2, <1>3, <1>4 DEF ShellOK

LEMMA FormatShell == ShellInv /\ format_op => ShellOK'
BY TablesShell DEF format_op, Format, Goto, Stay

LEMMA vdelShell == \A n : ShellInv /\ vdel_op(n) => ShellOK'
BY TablesShell DEF vdel_op, Remove, Goto, Stay, vars, memory

LEMMA UnwindShell == ShellInv /\ Unwind => ShellOK'
<1> SUFFICES ASSUME ShellInv, Unwind  PROVE ShellOK'
  OBVIOUS
<1>1. pc = "unwind" /\ cmd' = cmd
  BY DEF Unwind, At, Stay
<1>2. CASE FlushFAT /\ UNCHANGED pc
  <2>1. call'.op = "flush" /\ UNCHANGED <<up, handle_table, pc, cmd>>
    BY <1>1, <1>2 DEF FlushFAT, Idle
  <2>2. ShellTypeOK' /\ PlaceOK' /\ CommandOK'
    BY <1>1, <2>1
    DEF ShellInv, ShellOK, ShellTypeOK, PlaceOK, CommandOK, At, Working, Copying
  <2>3. HandlesOK'
    BY <1>1, <2>1 DEF ShellInv, ShellOK, HandlesOK, Working, Copying
  <2> QED BY <2>2, <2>3 DEF ShellOK
<1>3. CASE (DestroyUnformatted \/ FlushRoot) /\ Goto("off")
  <2>1. ~up' /\ call'.op = "idle" /\ handle_table' = AllClosed /\ pc' = "off"
    BY <1>3 DEF DestroyUnformatted, FlushRoot, Discarded, Idle, Goto
  <2>2. ShellTypeOK' /\ PlaceOK' /\ CommandOK'
    BY <1>1, <2>1
    DEF ShellInv, ShellOK, ShellTypeOK, PlaceOK, CommandOK, At, Working, Copying
  <2>3. HandlesOK'
    BY <1>1, <2>1, AllClosedClosed DEF HandlesOK, Working, Copying
  <2> QED BY <2>2, <2>3 DEF ShellOK
<1> QED BY <1>2, <1>3 DEF Unwind

\* A command begins, with no handle yet.
LEMMA BeginShell ==
    ASSUME ShellInv, NEW op \in {"vcopy", "vcopyin", "vcopyout"},
           NEW s \in Name \cup {NoName}, NEW d \in Name \cup {NoName}, NEW host \in Nat,
           NEW first, Begin(op, s, d, host, first),
           op # "vcopyin" => s \in Name /\ first = "open source",
           op # "vcopyout" => d \in Name,
           op = "vcopyin" => first = "truncate"
    PROVE  ShellOK'
<1>1. /\ cmd'.op = op /\ cmd'.source = s /\ cmd'.dest = d /\ cmd'.in = -1 /\ cmd'.out = -1
      /\ cmd' \in CommandType
  BY DEF Begin, Command, NoCommand, CommandType
<1>2. /\ pc = "prompt" /\ pc' = first /\ formatted_flag
      /\ UNCHANGED <<up, call, handle_table, formatted_flag>>
  BY DEF Begin, At, Goto, vars, memory
<1>3. call.op = "idle" /\ up /\ NoHandles
  BY <1>2, Between, NoneOpen DEF ShellInv, ShellOK, At
<1>4. pc' \in {"open source", "truncate"}
  BY <1>2
<1>5. ShellTypeOK'
  BY <1>1, <1>4 DEF ShellTypeOK, Working
<1>6. PlaceOK'
  BY <1>2, <1>3, <1>4 DEF PlaceOK, At
<1>7. CommandOK'
  BY <1>1, <1>2, <1>4 DEF CommandOK, At
<1>8. HandlesOK'
  <2>1. \A h \in Handles : ~handle_table'[h].in_use
    BY <1>2, <1>3 DEF NoHandles
  <2>2. pc' \notin Copying \cup {"close"}
    BY <1>4 DEF Copying
  <2> QED BY <1>1, <1>2, <2>1, <2>2 DEF HandlesOK
<1> QED BY <1>5, <1>6, <1>7, <1>8 DEF ShellOK

LEMMA BeginsShell ==
    \A s, d \in Name : ShellInv /\ (vcopy_op(s, d) \/ vcopyin_op(d) \/ vcopyout_op(s)) => ShellOK'
<1> SUFFICES ASSUME ShellInv, NEW s \in Name, NEW d \in Name,
                    vcopy_op(s, d) \/ vcopyin_op(d) \/ vcopyout_op(s)
             PROVE  ShellOK'
  OBVIOUS
<1>1. CASE vcopy_op(s, d)
  BY <1>1, BeginShell DEF vcopy_op
<1>2. CASE vcopyin_op(d)
  BY <1>2, BeginShell, ChunkAssumption DEF vcopyin_op
<1>3. CASE vcopyout_op(s)
  BY <1>3, BeginShell DEF vcopyout_op
<1> QED BY <1>1, <1>2, <1>3

\* open() hands out the handle that has come into use.
LEMMA NewHandleIs ==
    ASSUME TypeOK, NEW h \in Handles, ~handle_table[h].in_use, NEW opened, opened.in_use,
           handle_table' = [handle_table EXCEPT ![h] = opened]
    PROVE  /\ NewHandle = h
           /\ \A g \in Handles : handle_table'[g] = IF g = h THEN opened ELSE handle_table[g]
<1>1. \A g \in Handles : handle_table'[g] = IF g = h THEN opened ELSE handle_table[g]
  BY DEF TypeOK
<1>2. \A g \in Handles : (handle_table'[g].in_use /\ ~handle_table[g].in_use) <=> g = h
  BY <1>1
<1>3. NewHandle = h
  BY <1>2 DEF NewHandle
<1> QED BY <1>1, <1>3

\* The fields of cmd after one of them has been assigned.
LEMMA SetIn ==
    ASSUME ShellTypeOK, NEW h \in Handles \cup {-1}, cmd' = [cmd EXCEPT !.in = h]
    PROVE  /\ cmd'.in = h
           /\ cmd'.op = cmd.op /\ cmd'.source = cmd.source /\ cmd'.dest = cmd.dest
           /\ cmd'.out = cmd.out /\ cmd'.host = cmd.host
           /\ cmd'.count = cmd.count /\ cmd'.problem = cmd.problem
           /\ cmd' \in CommandType
BY DEF ShellTypeOK, CommandType

LEMMA SetOut ==
    ASSUME ShellTypeOK, NEW h \in Handles \cup {-1}, cmd' = [cmd EXCEPT !.out = h]
    PROVE  /\ cmd'.out = h
           /\ cmd'.op = cmd.op /\ cmd'.source = cmd.source /\ cmd'.dest = cmd.dest
           /\ cmd'.in = cmd.in /\ cmd'.host = cmd.host
           /\ cmd'.count = cmd.count /\ cmd'.problem = cmd.problem
           /\ cmd' \in CommandType
BY DEF ShellTypeOK, CommandType

LEMMA OpenSourceShell == ShellInv /\ OpenSource => ShellOK'
<1> SUFFICES ASSUME ShellInv, OpenSource  PROVE ShellOK'
  OBVIOUS
<1>1. pc = "open source" /\ formatted_flag /\ up /\ NoHandles /\ call.op = "idle"
  BY Between, NoneOpen DEF OpenSource, At, ShellInv, ShellOK, PlaceOK, Working
<1>2. CASE Throw
  BY <1>1, <1>2, ThrowShell
<1>3. CASE /\ OpenRead(cmd.source)
           /\ cmd' = [cmd EXCEPT !.in = NewHandle]
           /\ IF cmd.op = "vcopy" THEN Goto("truncate") ELSE Goto("copy") \/ Goto("close")
  <2>1. PICK h \in Handles, i \in DirIndexes :
           /\ Finds(i, cmd.source)
           /\ handle_table' = [handle_table EXCEPT ![h] =
                 [in_use |-> TRUE, mode |-> "READ", offset |-> 0, directory_index |-> i,
                  current_block |-> root_directory[i].starting_block]]
    BY <1>3 DEF OpenRead
  <2> DEFINE opened == [in_use |-> TRUE, mode |-> "READ", offset |-> 0, directory_index |-> i,
                        current_block |-> root_directory[i].starting_block]
  <2>2. /\ opened.in_use /\ opened.mode = "READ" /\ opened.offset = 0
        /\ opened.directory_index = i
        /\ opened.current_block = root_directory[i].starting_block
    OBVIOUS
  <2>3. ~handle_table[h].in_use /\ TypeOK
    BY <1>1 DEF NoHandles, ShellInv, FullInv, IInv
  <2>4. handle_table' = [handle_table EXCEPT ![h] = opened]
    BY <2>1
  <2> HIDE DEF opened
  <2>5. /\ NewHandle = h
        /\ \A g \in Handles : handle_table'[g] = IF g = h THEN opened ELSE handle_table[g]
    BY <2>2, <2>3, <2>4, NewHandleIs
  <2>6. ShellTypeOK
    BY DEF ShellInv, ShellOK
  <2>7. /\ cmd'.in = h
        /\ cmd'.op = cmd.op /\ cmd'.source = cmd.source /\ cmd'.dest = cmd.dest
        /\ cmd'.out = cmd.out
        /\ cmd' \in CommandType
    BY <1>3, <2>5, <2>6, SetIn
  <2>8. /\ cmd.op \in {"vcopy", "vcopyout"} /\ cmd.out = -1
        /\ cmd.source \in Name
        /\ cmd.op = "vcopy" => cmd.dest \in Name
    BY <1>1, <2>6 DEF ShellInv, ShellOK, CommandOK, HandlesOK, At, Working, ShellTypeOK,
        CommandType
  <2>9. /\ pc' \in {"truncate", "copy", "close"}
        /\ pc' = "truncate" <=> cmd.op = "vcopy"
    BY <1>3 DEF Goto
  <2>10. UNCHANGED <<up, formatted_flag, call, root_directory>>
    BY <1>3 DEF OpenRead
  <2>11. ShellTypeOK'
    BY <2>7, <2>9 DEF ShellTypeOK, Working, Copying
  <2>12. PlaceOK'
    BY <1>1, <2>9, <2>10 DEF PlaceOK, At
  <2>13. CommandOK'
    BY <2>7, <2>8, <2>9 DEF CommandOK, At
  <2>14. OpenAs(cmd.in, "READ", cmd.source)' /\ Fresh(cmd.in)'
    BY <2>1, <2>2, <2>5, <2>7, <2>10 DEF OpenAs, Fresh, Finds, Names
  <2>15. HandlesOK'
    <3>1. \A g \in Handles : handle_table'[g].in_use => g = cmd'.in
      BY <1>1, <2>5, <2>7 DEF NoHandles
    <3>2. cmd'.in # -1
      BY <2>7, NotHandle
    <3> QED BY <2>7, <2>8, <2>9, <2>14, <3>1, <3>2 DEF HandlesOK, Copying, Working
  <2> QED BY <2>11, <2>12, <2>13, <2>15 DEF ShellOK
<1> QED BY <1>2, <1>3 DEF OpenSource

\* truncate() keeps the names and the first blocks.
LEMMA TruncateKeeps ==
    ASSUME TypeOK, NEW n, Truncate(n)
    PROVE  \A k \in DirIndexes :
              /\ root_directory'[k].in_use = root_directory[k].in_use
              /\ root_directory'[k].name = root_directory[k].name
              /\ root_directory'[k].starting_block = root_directory[k].starting_block
<1>1. PICK i \in DirIndexes : root_directory' = [root_directory EXCEPT ![i].size = 0]
  BY DEF Truncate
<1>2. \A k \in DirIndexes : root_directory'[k] =
         IF k = i THEN [root_directory[k] EXCEPT !.size = 0] ELSE root_directory[k]
  BY <1>1 DEF TypeOK
<1> QED BY <1>2 DEF TypeOK, Entry

LEMMA TruncateDestShell == ShellInv /\ TruncateDest => ShellOK'
<1> SUFFICES ASSUME ShellInv, TruncateDest  PROVE ShellOK'
  OBVIOUS
<1>1. /\ pc = "truncate" /\ pc' = "open dest" /\ cmd' = cmd
      /\ formatted_flag /\ up /\ call.op = "idle"
  BY Between DEF TruncateDest, At, Goto, Stay, ShellInv, ShellOK, PlaceOK, Working
<1>2. UNCHANGED <<up, formatted_flag, handle_table, call>>
  BY DEF TruncateDest, Truncate, vars, memory
<1>3. \A k \in DirIndexes :
         /\ root_directory'[k].name = root_directory[k].name
         /\ root_directory'[k].starting_block = root_directory[k].starting_block
  <2>1. CASE Truncate(cmd.dest)
    BY <2>1, TruncateKeeps DEF ShellInv, FullInv, IInv
  <2>2. CASE UNCHANGED vars
    BY <2>2 DEF vars, memory
  <2> QED BY <2>1, <2>2 DEF TruncateDest
<1>4. ShellTypeOK' /\ PlaceOK' /\ CommandOK'
  BY <1>1, <1>2
  DEF ShellInv, ShellOK, ShellTypeOK, PlaceOK, CommandOK, At, Working, Copying
<1>5. cmd.out = -1 /\ (cmd.op # "vcopyin" => cmd.in # -1)
  BY <1>1 DEF ShellInv, ShellOK, HandlesOK, Working
<1>6. cmd.in # -1 => OpenAs(cmd.in, "READ", cmd.source)' /\ Fresh(cmd.in)'
  <2> SUFFICES ASSUME cmd.in # -1
               PROVE  OpenAs(cmd.in, "READ", cmd.source)' /\ Fresh(cmd.in)'
    OBVIOUS
  <2>1. OpenAs(cmd.in, "READ", cmd.source) /\ Fresh(cmd.in)
    BY <1>1 DEF ShellInv, ShellOK, HandlesOK, Working
  <2>2. handle_table[cmd.in].directory_index \in DirIndexes
    BY <2>1 DEF OpenAs, ShellInv, FullInv, IInv, HandlesOnFiles, Files
  <2> QED BY <1>1, <1>2, <1>3, <2>1, <2>2 DEF OpenAs, Fresh
<1>7. HandlesOK'
  <2>1. \A h \in Handles : handle_table'[h].in_use => h \in {cmd'.in, cmd'.out}
    BY <1>1, <1>2 DEF ShellInv, ShellOK, HandlesOK
  <2> QED BY <1>1, <1>5, <1>6, <2>1 DEF HandlesOK, Copying
<1> QED BY <1>4, <1>7 DEF ShellOK

LEMMA OpenDestShell == ShellInv /\ OpenDest => ShellOK'
<1> SUFFICES ASSUME ShellInv, OpenDest  PROVE ShellOK'
  OBVIOUS
<1>1. pc = "open dest" /\ formatted_flag /\ up /\ call.op = "idle"
  BY Between DEF OpenDest, At, ShellInv, ShellOK, PlaceOK, Working
<1>2. CASE Throw
  BY <1>1, <1>2, ThrowShell
<1>3. CASE /\ OpenWrite(cmd.dest) \/ Create(cmd.dest)
           /\ cmd' = [cmd EXCEPT !.out = NewHandle]
           /\ Goto("copy")
  <2>1. PICK h \in Handles, i \in DirIndexes :
           \E opened :
              /\ FirstFreeHandle(h)
              /\ opened.in_use /\ opened.mode = "WRITE" /\ opened.directory_index = i
              /\ handle_table' = [handle_table EXCEPT ![h] = opened]
              /\ root_directory'[i].name = cmd.dest
              /\ \A k \in Files(root_directory) : root_directory'[k].name = root_directory[k].name
    <3>1. CASE OpenWrite(cmd.dest)
      <4>1. PICK h \in Handles, i \in DirIndexes, last \in Blocks :
               /\ FirstFreeHandle(h)
               /\ Finds(i, cmd.dest)
               /\ handle_table' = [handle_table EXCEPT ![h] =
                     [in_use |-> TRUE, mode |-> "WRITE", offset |-> root_directory[i].size,
                      directory_index |-> i, current_block |-> last]]
        BY <3>1, SpecialValues DEF OpenWrite, Chain
      <4>2. root_directory' = root_directory
        BY <3>1 DEF OpenWrite
      <4> DEFINE opened == [in_use |-> TRUE, mode |-> "WRITE", offset |-> root_directory[i].size,
                            directory_index |-> i, current_block |-> last]
      <4>3. opened.in_use /\ opened.mode = "WRITE" /\ opened.directory_index = i
        OBVIOUS
      <4>4. root_directory[i].name = cmd.dest
        BY <4>1 DEF Finds, Names
      <4>5. handle_table' = [handle_table EXCEPT ![h] = opened]
        BY <4>1
      <4> HIDE DEF opened
      <4> QED BY <4>1, <4>2, <4>3, <4>4, <4>5
    <3>2. CASE Create(cmd.dest)
      <4>1. PICK h \in Handles, i \in DirIndexes, j \in Blocks :
               /\ FirstFreeHandle(h)
               /\ FirstFreeEntry(i)
               /\ root_directory' = [root_directory EXCEPT ![i] =
                     [in_use |-> TRUE, name |-> cmd.dest, size |-> 0, starting_block |-> j]]
               /\ handle_table' = [handle_table EXCEPT ![h] =
                     [in_use |-> TRUE, mode |-> "WRITE", offset |-> 0,
                      directory_index |-> i, current_block |-> j]]
        BY <3>2 DEF Create
      <4> DEFINE opened == [in_use |-> TRUE, mode |-> "WRITE", offset |-> 0,
                            directory_index |-> i, current_block |-> j]
      <4>2. opened.in_use /\ opened.mode = "WRITE" /\ opened.directory_index = i
        OBVIOUS
      <4>3. root_directory'[i].name = cmd.dest
        BY <4>1 DEF ShellInv, FullInv, IInv, TypeOK
      <4>4. \A k \in Files(root_directory) : root_directory'[k] = root_directory[k]
        BY <4>1 DEF ShellInv, FullInv, IInv, TypeOK, FirstFreeEntry, Files
      <4>5. handle_table' = [handle_table EXCEPT ![h] = opened]
        BY <4>1
      <4> HIDE DEF opened
      <4> QED BY <4>1, <4>2, <4>3, <4>4, <4>5
    <3> QED BY <1>3, <3>1, <3>2
  <2>2. PICK opened :
           /\ FirstFreeHandle(h)
           /\ opened.in_use /\ opened.mode = "WRITE" /\ opened.directory_index = i
           /\ handle_table' = [handle_table EXCEPT ![h] = opened]
           /\ root_directory'[i].name = cmd.dest
           /\ \A k \in Files(root_directory) : root_directory'[k].name = root_directory[k].name
    BY <2>1
  <2>3. ~handle_table[h].in_use /\ TypeOK
    BY <2>2 DEF FirstFreeHandle, ShellInv, FullInv, IInv
  <2>4. /\ NewHandle = h
        /\ \A g \in Handles : handle_table'[g] = IF g = h THEN opened ELSE handle_table[g]
    BY <2>2, <2>3, NewHandleIs
  <2>5. ShellTypeOK /\ cmd.out = -1
    BY <1>1 DEF ShellInv, ShellOK, HandlesOK
  <2>6. /\ cmd'.out = h
        /\ cmd'.op = cmd.op /\ cmd'.source = cmd.source /\ cmd'.dest = cmd.dest
        /\ cmd'.in = cmd.in
        /\ cmd' \in CommandType
    BY <1>3, <2>4, <2>5, SetOut
  <2>7. pc' = "copy" /\ UNCHANGED <<up, formatted_flag, call>>
    BY <1>3 DEF Goto, OpenWrite, Create
  <2>8. ShellTypeOK' /\ PlaceOK' /\ CommandOK'
    BY <1>1, <2>6, <2>7
    DEF ShellInv, ShellOK, ShellTypeOK, PlaceOK, CommandOK, At, Working, Copying
  <2>9. OpenAs(cmd.out, "WRITE", cmd.dest)'
    BY <2>2, <2>4, <2>6 DEF OpenAs
  <2>10. cmd.in # -1 => OpenAs(cmd.in, "READ", cmd.source)'
    <3> SUFFICES ASSUME cmd.in # -1  PROVE OpenAs(cmd.in, "READ", cmd.source)'
      OBVIOUS
    <3>1. OpenAs(cmd.in, "READ", cmd.source)
      BY <1>1 DEF ShellInv, ShellOK, HandlesOK, Working
    <3>2. handle_table[cmd.in].directory_index \in Files(root_directory) /\ cmd.in # h
      BY <2>3, <3>1 DEF OpenAs, ShellInv, FullInv, IInv, HandlesOnFiles
    <3> QED BY <2>2, <2>4, <2>6, <3>1, <3>2 DEF OpenAs
  <2>11. HandlesOK'
    <3>1. \A g \in Handles : handle_table'[g].in_use => g \in {cmd'.in, cmd'.out}
      <4>1. \A g \in Handles : handle_table[g].in_use => g = cmd.in
        BY <2>5, NotHandle DEF ShellInv, ShellOK, HandlesOK
      <4> QED BY <2>4, <2>6, <4>1
    <3>2. cmd'.out # -1 /\ (cmd'.op # "vcopyin" => cmd'.in # -1)
      BY <1>1, <2>6, NotHandle DEF ShellInv, ShellOK, HandlesOK, Working
    <3> QED BY <2>6, <2>7, <2>9, <2>10, <3>1, <3>2 DEF HandlesOK
  <2> QED BY <2>8, <2>11 DEF ShellOK
<1> QED BY <1>2, <1>3 DEF OpenDest

\* The step keeps the command with its names and handles.
SameCopy == /\ cmd'.in = cmd.in /\ cmd'.out = cmd.out /\ cmd'.op = cmd.op
            /\ cmd'.source = cmd.source /\ cmd'.dest = cmd.dest

\* While a copy runs the open handles stay what they are, and move.
LEMMA CopyStep ==
    ASSUME ShellInv, pc \in Copying, pc' \in Copying \cup {"close"},
           \A h \in Handles :
              /\ handle_table'[h].in_use = handle_table[h].in_use
              /\ handle_table'[h].mode = handle_table[h].mode
              /\ handle_table'[h].directory_index = handle_table[h].directory_index,
           \A k \in Files(root_directory) : root_directory'[k].name = root_directory[k].name,
           UNCHANGED <<up, formatted_flag>>,
           SameCopy, cmd' \in CommandType,
           call'.op = "read" <=> pc' = "read", call'.op = "write" <=> pc' = "write",
           call'.op # "flush",
           pc' = "read" => call'.handle = cmd.in,
           pc' = "write" => call'.handle = cmd.out,
           pc' \in {"put", "write"} => cmd.op # "vcopyout"
    PROVE  ShellOK'
<1> USE DEF SameCopy
<1>1. formatted_flag /\ up /\ cmd.op # "none"
  BY Between DEF ShellInv, ShellOK, PlaceOK, CommandOK, At, Working, Copying
<1>2. ShellTypeOK' /\ pc' \in Working
  BY DEF ShellTypeOK, Working
<1>3. PlaceOK'
  <2>1. pc' # "off"
    BY DEF Copying
  <2> QED BY <1>1, <2>1 DEF PlaceOK, At
<1>4. CommandOK'
  <2>1. /\ cmd.op \in {"vcopy", "vcopyout"} => cmd.source \in Name
        /\ cmd.op \in {"vcopy", "vcopyin"} => cmd.dest \in Name
    BY DEF ShellInv, ShellOK, CommandOK
  <2>2. pc' \notin {"prompt", "open source", "truncate", "open dest"}
    BY DEF Copying
  <2> QED BY <1>1, <2>1, <2>2 DEF CommandOK, At
<1>5. ASSUME NEW h, NEW mode, NEW n, OpenAs(h, mode, n)  PROVE
         /\ h \in Handles /\ handle_table'[h].in_use /\ handle_table'[h].mode = mode
         /\ root_directory'[handle_table'[h].directory_index].name = n
  BY <1>5 DEF OpenAs, ShellInv, FullInv, IInv, HandlesOnFiles
<1>6. HandlesOK'
  <2>1. \A h \in Handles : handle_table'[h].in_use => h \in {cmd'.in, cmd'.out}
    BY DEF ShellInv, ShellOK, HandlesOK
  <2>2. /\ cmd.in # -1 => OpenAs(cmd.in, "READ", cmd.source)
        /\ cmd.out # -1 => OpenAs(cmd.out, "WRITE", cmd.dest)
        /\ cmd.op # "vcopyin" => cmd.in # -1
        /\ cmd.op # "vcopyout" => cmd.out # -1
    BY DEF ShellInv, ShellOK, HandlesOK, Working, Copying
  <2>3. /\ cmd'.in # -1 => OpenAs(cmd.in, "READ", cmd.source)'
        /\ cmd'.out # -1 => OpenAs(cmd.out, "WRITE", cmd.dest)'
    BY <1>5, <2>2 DEF OpenAs
  <2>4. pc' \notin {"prompt", "check", "lost", "open source", "truncate", "open dest"}
    BY DEF Copying
  <2> QED BY <2>1, <2>2, <2>3, <2>4 DEF HandlesOK
<1> QED BY <1>2, <1>3, <1>4, <1>6 DEF ShellOK

LEMMA SetCount ==
    ASSUME ShellTypeOK, NEW count \in Nat, cmd' = [cmd EXCEPT !.count = count]
    PROVE  SameCopy /\ cmd' \in CommandType /\ cmd'.count = count /\ cmd'.problem = cmd.problem
BY DEF ShellTypeOK, CommandType, SameCopy

LEMMA SetHost ==
    ASSUME ShellTypeOK, NEW count \in Nat, NEW host \in Nat,
           cmd' = [cmd EXCEPT !.count = count, !.host = host]
    PROVE  SameCopy /\ cmd' \in CommandType /\ cmd'.count = count /\ cmd'.problem = cmd.problem
BY DEF ShellTypeOK, CommandType, SameCopy

LEMMA SetProblem ==
    ASSUME ShellTypeOK, NEW problem \in BOOLEAN, cmd' = [cmd EXCEPT !.problem = problem]
    PROVE  SameCopy /\ cmd' \in CommandType /\ cmd'.count = cmd.count /\ cmd'.problem = problem
BY DEF ShellTypeOK, CommandType, SameCopy

\* One byte of a read() moves its handle, and one of a write() its file too.
LEMMA ReadMoves ==
    ASSUME FullInv, ReadByte \/ ReadLastByte
    PROVE  /\ call.op = "read" /\ call'.op = "read" /\ call'.handle = call.handle
           /\ call.handle \in Handles /\ Len(call.buffer) \in Nat
           /\ Len(call'.buffer) = Len(call.buffer) + 1
           /\ handle_table'[call.handle].offset = handle_table[call.handle].offset + 1
           /\ \A h \in Handles :
                 /\ handle_table'[h].in_use = handle_table[h].in_use
                 /\ handle_table'[h].mode = handle_table[h].mode
                 /\ handle_table'[h].directory_index = handle_table[h].directory_index
           /\ UNCHANGED <<up, formatted_flag, FAT, root_directory>>
<1>1. /\ call.op = "read" /\ UNCHANGED <<up, formatted_flag, FAT, root_directory>>
  BY DEF ReadByte, ReadLastByte
<1>2. /\ call \in Call /\ call.handle \in Handles /\ handle_table \in [Handles -> Handle]
  BY <1>1, Reading
<1>3. /\ call'.op = "read" /\ call'.handle = call.handle
      /\ call'.buffer = Append(call.buffer, call.block_buffer[call.block_offset])
  BY <1>1, <1>2 DEF ReadByte, ReadLastByte, Call
<1>4. Len(call'.buffer) = Len(call.buffer) + 1 /\ Len(call.buffer) \in Nat
  <2>1. call.buffer \in Seq(Byte) /\ call.block_buffer[call.block_offset] \in Byte
    BY <1>2, NextByte DEF Call, FullInv
  <2> QED BY <1>3, <2>1
<1>5. PICK block :
         \/ handle_table' = [handle_table EXCEPT ![call.handle].offset = @ + 1]
         \/ handle_table' = [handle_table EXCEPT ![call.handle].offset = @ + 1,
                                                 ![call.handle].current_block = block]
  BY DEF ReadByte, ReadLastByte
<1>6. \A h \in Handles :
         /\ handle_table'[h].in_use = handle_table[h].in_use
         /\ handle_table'[h].mode = handle_table[h].mode
         /\ handle_table'[h].directory_index = handle_table[h].directory_index
         /\ h = call.handle => handle_table'[h].offset = handle_table[h].offset + 1
  BY <1>2, <1>5 DEF Handle
<1> QED BY <1>1, <1>2, <1>3, <1>4, <1>6

LEMMA WriteMoves ==
    ASSUME FullInv, NEW byte \in Byte, PutByte(byte) \/ PutLastByte(byte)
    PROVE  /\ call.op = "write" /\ call'.op = "write" /\ call'.handle = call.handle
           /\ call'.count = call.count /\ call.handle \in Handles
           /\ Len(call.buffer) \in Nat /\ call.count \in Nat /\ Len(call.buffer) < call.count
           /\ Len(call'.buffer) = Len(call.buffer) + 1
           /\ \A h \in Handles :
                 /\ handle_table'[h].in_use = handle_table[h].in_use
                 /\ handle_table'[h].mode = handle_table[h].mode
                 /\ handle_table'[h].directory_index = handle_table[h].directory_index
                 /\ h # call.handle => handle_table'[h] = handle_table[h]
           /\ root_directory' = Grown
           /\ UNCHANGED <<up, formatted_flag>>
<1>1. /\ call.op = "write" /\ root_directory' = Grown /\ UNCHANGED <<up, formatted_flag>>
      /\ Len(call.buffer) < call.count
  BY DEF PutByte, PutLastByte, MoreBytes
<1>2. /\ call \in Call /\ call.handle \in Handles /\ handle_table \in [Handles -> Handle]
  BY <1>1, Writing DEF FullInv, IInv, TypeOK
<1>3. /\ call'.op = "write" /\ call'.handle = call.handle /\ call'.count = call.count
      /\ call'.buffer = Append(call.buffer, byte)
  BY <1>1, <1>2 DEF PutByte, PutLastByte, Call
<1>4. Len(call'.buffer) = Len(call.buffer) + 1 /\ Len(call.buffer) \in Nat /\ call.count \in Nat
  <2>1. call.buffer \in Seq(Byte) /\ call.count \in Nat
    BY <1>2 DEF Call
  <2> QED BY <1>3, <2>1
<1>5. PICK block :
         \/ handle_table' = [handle_table EXCEPT ![call.handle].offset = @ + 1]
         \/ handle_table' = [handle_table EXCEPT ![call.handle].offset = @ + 1,
                                                 ![call.handle].current_block = block]
  BY DEF PutByte, PutLastByte
<1>6. \A h \in Handles :
         /\ handle_table'[h].in_use = handle_table[h].in_use
         /\ handle_table'[h].mode = handle_table[h].mode
         /\ handle_table'[h].directory_index = handle_table[h].directory_index
         /\ h # call.handle => handle_table'[h] = handle_table[h]
  BY <1>2, <1>5 DEF Handle
<1> QED BY <1>1, <1>2, <1>3, <1>4, <1>6

LEMMA GetChunkShell == ShellInv /\ GetChunk => ShellOK'
<1> SUFFICES ASSUME ShellInv, GetChunk  PROVE ShellOK'
  OBVIOUS
<1>1. pc = "copy" /\ pc \in Copying /\ cmd' = cmd /\ cmd \in CommandType
  BY DEF GetChunk, At, Stay, Copying, ShellInv, ShellOK, ShellTypeOK
<1>2. call.op = "idle"
  BY <1>1, Between
<1>3. CASE ReadStart(cmd.in, CHUNK) /\ Goto("read")
  <2>1. /\ UNCHANGED <<up, formatted_flag, root_directory, handle_table>>
        /\ call'.op = "read" /\ call'.handle = cmd.in
    BY <1>3 DEF ReadStart, Start
  <2>2. pc' = "read" /\ pc' \in Copying
    BY <1>3 DEF Goto, Copying
  <2> QED BY <1>1, <2>1, <2>2, CopyStep DEF SameCopy
<1>4. CASE Goto("close") /\ UNCHANGED vars
  <2>1. /\ UNCHANGED <<up, formatted_flag, root_directory, handle_table, call>>
        /\ pc' = "close"
    BY <1>4 DEF vars, memory, Goto
  <2> QED BY <1>1, <1>2, <2>1, CopyStep DEF SameCopy
<1> QED BY <1>3, <1>4 DEF GetChunk

LEMMA InReadShell == ShellInv /\ InRead => ShellOK'
<1> SUFFICES ASSUME ShellInv, InRead  PROVE ShellOK'
  OBVIOUS
<1>1. pc = "read" /\ pc \in Copying /\ ShellTypeOK
  BY DEF InRead, At, Copying, ShellInv, ShellOK
<1>2. CASE (ReadByte \/ ReadLastByte) /\ UNCHANGED pc /\ Stay
  <2>1. /\ call'.op = "read" /\ call'.handle = call.handle
        /\ \A h \in Handles :
              /\ handle_table'[h].in_use = handle_table[h].in_use
              /\ handle_table'[h].mode = handle_table[h].mode
              /\ handle_table'[h].directory_index = handle_table[h].directory_index
        /\ UNCHANGED <<up, formatted_flag, root_directory>>
    BY <1>2, ReadMoves DEF ShellInv
  <2>2. call.handle = cmd.in
    BY <1>1 DEF ShellInv, ShellOK, PlaceOK, At
  <2>3. pc' = "read" /\ cmd' = cmd
    BY <1>1, <1>2 DEF Stay
  <2> QED BY <1>1, <2>1, <2>2, <2>3, CopyStep DEF ShellTypeOK, SameCopy
<1>3. CASE /\ ReadEnd
           /\ cmd' = [cmd EXCEPT !.count = Len(call.buffer)]
           /\ Goto(IF cmd.op = "vcopy" THEN "put" ELSE "copy")
  <2>1. call.op = "read" /\ Len(call.buffer) \in Nat
    BY <1>3, Reading DEF ReadEnd, ShellInv
  <2>2. SameCopy /\ cmd' \in CommandType
    BY <1>1, <1>3, <2>1, SetCount
  <2>3. /\ UNCHANGED <<up, formatted_flag, root_directory, handle_table>>
        /\ call'.op = "idle"
    BY <1>3 DEF ReadEnd, Idle
  <2>4. pc' \in {"put", "copy"} /\ (pc' = "put" => cmd.op = "vcopy")
    BY <1>3 DEF Goto
  <2>5. pc' \in Copying
    BY <2>4 DEF Copying
  <2> QED BY <1>1, <2>2, <2>3, <2>4, <2>5, CopyStep
<1> QED BY <1>2, <1>3 DEF InRead

LEMMA GetHostChunkShell == ShellInv /\ GetHostChunk => ShellOK'
<1> SUFFICES ASSUME ShellInv, GetHostChunk  PROVE ShellOK'
  OBVIOUS
<1> DEFINE count == Smaller(CHUNK, cmd.host)
<1>1. /\ pc = "copy" /\ pc \in Copying /\ ShellTypeOK /\ cmd.op = "vcopyin"
      /\ UNCHANGED <<up, formatted_flag, root_directory, handle_table, call>>
  BY DEF GetHostChunk, At, Copying, ShellInv, ShellOK, vars, memory
<1>2. call.op = "idle"
  BY <1>1, Between
<1>3. count \in Nat /\ cmd.host - count \in Nat
  <2>1. cmd.host \in Nat /\ CHUNK \in Nat
    BY <1>1, ChunkAssumption, DataAssumption DEF ShellTypeOK, CommandType
  <2> QED BY <2>1 DEF Smaller
<1>4. cmd' = [cmd EXCEPT !.count = count, !.host = cmd.host - count]
  BY <1>1 DEF GetHostChunk
<1> HIDE DEF count
<1>5. SameCopy /\ cmd' \in CommandType
  BY <1>1, <1>3, <1>4, SetHost
<1>6. pc' \in {"close", "put"}
  BY DEF GetHostChunk, Goto
<1>7. pc' \in Copying \cup {"close"}
  BY <1>6 DEF Copying
<1> QED BY <1>1, <1>2, <1>5, <1>6, <1>7, CopyStep

LEMMA PutChunkShell == ShellInv /\ PutChunk => ShellOK'
<1> SUFFICES ASSUME ShellInv, PutChunk  PROVE ShellOK'
  OBVIOUS
<1>1. pc = "put" /\ pc \in Copying /\ ShellTypeOK
  BY DEF PutChunk, At, Copying, ShellInv, ShellOK
<1>2. call.op = "idle" /\ cmd.op # "vcopyout"
  BY <1>1, Between DEF ShellInv, ShellOK, CommandOK
<1>3. CASE WriteStart(cmd.out, cmd.count) /\ Goto("write") /\ Stay
  <2>1. /\ UNCHANGED <<up, formatted_flag, root_directory, handle_table>>
        /\ call'.op = "write" /\ call'.handle = cmd.out
    BY <1>3 DEF WriteStart, Start
  <2>2. pc' = "write" /\ pc' \in Copying /\ cmd' = cmd
    BY <1>3 DEF Goto, Copying, Stay
  <2> QED BY <1>1, <1>2, <2>1, <2>2, CopyStep DEF ShellTypeOK, SameCopy
<1>4. CASE /\ cmd' = [cmd EXCEPT !.problem = TRUE]
           /\ Goto("copy") /\ UNCHANGED <<vars, done>>
  <2>1. /\ UNCHANGED <<up, formatted_flag, root_directory, handle_table, call>>
        /\ pc' = "copy" /\ pc' \in Copying
    BY <1>4 DEF vars, memory, Goto, Copying
  <2>2. SameCopy /\ cmd' \in CommandType
    BY <1>1, <1>4, SetProblem
  <2> QED BY <1>1, <1>2, <2>1, <2>2, CopyStep
<1> QED BY <1>3, <1>4 DEF PutChunk

LEMMA InWriteShell == ShellInv /\ InWrite => ShellOK'
<1> SUFFICES ASSUME ShellInv, InWrite  PROVE ShellOK'
  OBVIOUS
<1>1. pc = "write" /\ pc \in Copying /\ ShellTypeOK
  BY DEF InWrite, At, Copying, ShellInv, ShellOK
<1>2. cmd.op # "vcopyout" /\ call.handle = cmd.out
  BY <1>1 DEF ShellInv, ShellOK, CommandOK, PlaceOK, At
<1>3. ASSUME NEW byte \in Byte, PutByte(byte) \/ PutLastByte(byte), UNCHANGED pc, Stay
      PROVE  ShellOK'
  <2>1. /\ call.op = "write" /\ root_directory' = Grown
        /\ call'.op = "write" /\ call'.handle = call.handle
        /\ \A h \in Handles :
              /\ handle_table'[h].in_use = handle_table[h].in_use
              /\ handle_table'[h].mode = handle_table[h].mode
              /\ handle_table'[h].directory_index = handle_table[h].directory_index
        /\ UNCHANGED <<up, formatted_flag>>
    BY <1>3, WriteMoves DEF ShellInv
  <2>2. \A k \in Files(root_directory) : root_directory'[k].name = root_directory[k].name
    BY <2>1, GrownNames, GrownTable DEF ShellInv, FullInv
  <2>3. pc' = "write" /\ cmd' = cmd
    BY <1>1, <1>3 DEF Stay
  <2> QED BY <1>1, <1>2, <2>1, <2>2, <2>3, CopyStep DEF ShellTypeOK, SameCopy
<1>4. CASE /\ WriteEnd
           /\ cmd' = [cmd EXCEPT !.problem = @ \/ Len(call.buffer) < cmd.count]
           /\ Goto("copy")
  <2>1. /\ UNCHANGED <<up, formatted_flag, root_directory, handle_table>>
        /\ call'.op = "idle" /\ pc' = "copy" /\ pc' \in Copying
    BY <1>4 DEF WriteEnd, Idle, Goto, Copying
  <2>2. PICK problem \in BOOLEAN : cmd' = [cmd EXCEPT !.problem = problem]
    BY <1>1, <1>4 DEF ShellTypeOK
  <2>3. SameCopy /\ cmd' \in CommandType
    BY <1>1, <2>2, SetProblem
  <2> QED BY <1>1, <2>1, <2>3, CopyStep
<1> QED BY <1>3, <1>4 DEF InWrite

\* The source is closed first and the destination last.
LEMMA CloseFilesShell == ShellInv /\ CloseFiles => ShellOK'
<1> SUFFICES ASSUME ShellInv, CloseFiles  PROVE ShellOK'
  OBVIOUS
<1>1. /\ pc = "close" /\ ShellTypeOK /\ formatted_flag /\ up /\ call.op = "idle"
      /\ cmd.op # "none"
  BY Between DEF CloseFiles, At, ShellInv, ShellOK, PlaceOK, CommandOK, Working
<1>2. PICK h \in {cmd.in, cmd.out} \cap Handles :
         /\ h = cmd.out => cmd.in = -1
         /\ Close(h)
         /\ cmd' = [cmd EXCEPT !.in = -1, !.out = IF h = @ THEN -1 ELSE @]
         /\ Goto(IF cmd'.out = -1 THEN "check" ELSE "close")
  BY DEF CloseFiles
<1>3. /\ cmd' \in CommandType /\ cmd'.op = cmd.op
      /\ cmd'.source = cmd.source /\ cmd'.dest = cmd.dest
      /\ cmd'.in = -1 /\ cmd'.out = IF h = cmd.out THEN -1 ELSE cmd.out
  BY <1>1, <1>2 DEF ShellTypeOK, CommandType
<1>4. /\ handle_table' = [handle_table EXCEPT ![h] = ClosedHandle]
      /\ UNCHANGED <<up, formatted_flag, root_directory, call>>
  BY <1>2 DEF Close
<1>5. \A g \in Handles : handle_table'[g] = IF g = h THEN ClosedHandle ELSE handle_table[g]
  BY <1>4 DEF ShellInv, FullInv, IInv, TypeOK
<1>6. pc' = IF cmd'.out = -1 THEN "check" ELSE "close"
  BY <1>2 DEF Goto
<1>7. ShellTypeOK' /\ PlaceOK'
  BY <1>1, <1>3, <1>4, <1>6 DEF ShellTypeOK, PlaceOK, At, Working
<1>8. CommandOK'
  <2>1. /\ cmd.op \in {"vcopy", "vcopyout"} => cmd.source \in Name
        /\ cmd.op \in {"vcopy", "vcopyin"} => cmd.dest \in Name
    BY DEF ShellInv, ShellOK, CommandOK
  <2> QED BY <1>1, <1>3, <1>6, <2>1 DEF CommandOK, At
<1>9. \A g \in Handles : handle_table'[g].in_use => g \in {cmd'.in, cmd'.out}
  <2>1. \A g \in Handles : handle_table[g].in_use => g \in {cmd.in, cmd.out}
    BY DEF ShellInv, ShellOK, HandlesOK
  <2>2. ~ClosedHandle.in_use
    BY DEF ClosedHandle
  <2> QED BY <1>2, <1>3, <1>5, <2>1, <2>2, NotHandle
<1>10. cmd'.out # -1 => OpenAs(cmd.out, "WRITE", cmd.dest)'
  BY <1>1, <1>3, <1>4, <1>5 DEF OpenAs, ShellInv, ShellOK, HandlesOK, Working
<1>11. HandlesOK'
  <2>1. pc' \notin Copying /\ pc' \notin Working \ {"open source", "close"}
    BY <1>6 DEF Copying, Working
  <2>2. pc' \notin {"prompt", "lost", "open source", "truncate", "open dest"}
        /\ (pc' \in {"check"} => cmd'.out = -1) /\ (pc' \in {"close"} => cmd'.out # -1)
    BY <1>6
  <2> QED BY <1>3, <1>9, <1>10, <2>1, <2>2 DEF HandlesOK
<1> QED BY <1>7, <1>8, <1>11 DEF ShellOK

LEMMA GoneShell == ShellInv /\ UNCHANGED shellVars => ShellOK'
<1> SUFFICES ASSUME ShellInv, UNCHANGED shellVars  PROVE ShellOK'
  OBVIOUS
<1>1. UNCHANGED <<up, formatted_flag, root_directory, handle_table, call, pc, cmd>>
  BY DEF shellVars, vars, memory
<1>2. ShellTypeOK' /\ PlaceOK' /\ CommandOK'
  BY <1>1 DEF ShellInv, ShellOK, ShellTypeOK, PlaceOK, CommandOK, At
<1>3. HandlesOK'
  BY <1>1 DEF ShellInv, ShellOK, HandlesOK, OpenAs, Fresh
<1> QED BY <1>2, <1>3 DEF ShellOK

LEMMA NextShellInv == WholeDisk /\ ShellInv /\ [ShellNext]_shellVars => ShellInv'
<1> SUFFICES ASSUME WholeDisk, ShellInv, [ShellNext]_shellVars  PROVE ShellInv'
  OBVIOUS
<1>1. ShellOK'
  <2>1. CASE Runs
    BY <2>1, CheckShell, UnwindShell, OpenSourceShell, TruncateDestShell, OpenDestShell,
       GetChunkShell, InReadShell, GetHostChunkShell, PutChunkShell, InWriteShell,
       CloseFilesShell DEF Runs
  <2>2. CASE Types
    BY <2>2, StartUpShell, OverAtOnceShell, FormatShell, vdelShell, BeginsShell DEF Types
  <2>3. CASE Gone \/ UNCHANGED shellVars
    BY <2>3, GoneShell DEF Gone
  <2> QED BY <2>1, <2>2, <2>3 DEF ShellNext
<1> QED BY <1>1, ShellFullInv DEF ShellInv

LEMMA InitShellInv == ShellInit => ShellInv
BY InitShell, InitFullInv DEF ShellInit, ShellInv

\* Whatever is typed, in whatever order, and whenever the program ends and is run
\* again, the file system and the command at work stay as the invariant says.
THEOREM ShellInvariance == WholeDisk => (ShellSpec => []ShellInv)
<1> SUFFICES ASSUME WholeDisk  PROVE ShellSpec => []ShellInv
  OBVIOUS
<1>1. ShellInit => ShellInv
  BY InitShellInv
<1>2. ShellInv /\ [ShellNext]_shellVars => ShellInv'
  BY NextShellInv
<1> QED BY <1>1, <1>2, PTL DEF ShellSpec

\* check() returns after every command on a formatted disk: a copy that is cut
\* short, or of a file onto itself, leaves nothing for it to find (my_main, check).
THEOREM CheckAlwaysAccepts == WholeDisk => (ShellSpec => []CheckAccepts)
<1> SUFFICES ASSUME WholeDisk  PROVE ShellSpec => []CheckAccepts
  OBVIOUS
<1>1. ShellInv => CheckAccepts
  <2> SUFFICES ASSUME ShellInv, At("check"), formatted_flag
               PROVE  NoHandles /\ CheckReturns(FAT, root_directory)
    BY DEF CheckAccepts
  <2>1. NoHandles /\ Ready
    BY Between, NoneOpen DEF ShellInv, ShellOK, At, Ready
  <2> QED BY <2>1, FullInvCheckSilent DEF CheckSilent, ShellInv, NoHandles
<1> QED BY <1>1, ShellInvariance, PTL

\* What the program has left on the device when it ended, in the middle of a command
\* too, is what check() accepts when it is run again (~FileSystem, flush).
THEOREM NextRunStaysChecked == WholeDisk => (ShellSpec => []NextRunIsChecked)
<1> SUFFICES ASSUME WholeDisk  PROVE ShellSpec => []NextRunIsChecked
  OBVIOUS
<1>1. ShellInv => NextRunIsChecked
  <2> SUFFICES ASSUME ShellInv, At("off"), disk_boot
               PROVE  CheckReturns(disk_FAT, disk_root)
    BY DEF NextRunIsChecked
  <2>1. Consistent(disk_FAT, disk_root) /\ SizesMatch(disk_FAT, disk_root)
    BY DEF ShellInv, ShellOK, PlaceOK, FullInv, IInv, DiskConsistent, DiskSizes
  <2>2. \A b \in Blocks : b \in Reserved \/ b \in DataBlocks
    BY SizeAssumption DEF Blocks, Reserved, DataBlocks, BOOT_BLOCK, FAT_BLOCK, ROOT_BLOCK
  <2> QED BY <2>1, <2>2 DEF CheckReturns, Consistent, ReservedIntact, NoCrossLink, NoLostBlocks
<1> QED BY <1>1, ShellInvariance, PTL
-----------------------------------------------------------------------------
(***************************************************************************)
(* The files a command does not write to.                                  *)
(***************************************************************************)
Untouched(n) ==
    \A k \in Files(root_directory) : root_directory[k].name # n =>
       /\ root_directory'[k] = root_directory[k]
       /\ Chain(FAT', root_directory[k].starting_block)
             = Chain(FAT, root_directory[k].starting_block)

LEMMA TruncateUntouched ==
    ASSUME FullInv, formatted_flag, NEW n, Truncate(n)
    PROVE  Untouched(n)
<1>1. PICK i \in DirIndexes :
         /\ Finds(i, n)
         /\ FAT' = [Freed(FAT, Chain(FAT, root_directory[i].starting_block)) EXCEPT
                       ![root_directory[i].starting_block] = EOF_FAT_ENTRY]
         /\ root_directory' = [root_directory EXCEPT ![i].size = 0]
  BY DEF Truncate
<1> DEFINE start == root_directory[i].starting_block
<1>2. /\ i \in Files(root_directory) /\ root_directory[i].name = n
      /\ FAT \in [Blocks -> Blocks] /\ Consistent(FAT, root_directory)
  BY <1>1 DEF Finds, Names, Files, FullInv, IInv, TypeOK, FATConsistent
<1>3. \A k \in DirIndexes : k # i => root_directory'[k] = root_directory[k]
  BY <1>1 DEF FullInv, IInv, TypeOK
<1>4. /\ Files(root_directory') = Files(root_directory)
      /\ \A k \in Files(root_directory) :
            root_directory'[k].starting_block = root_directory[k].starting_block
  BY TruncateKeeps DEF FullInv, IInv, Files
<1>5. \A b \in Blocks : FAT'[b] = IF b = start THEN EOF_FAT_ENTRY
                                  ELSE IF b \in Chain(FAT, start) THEN FREE_FAT_ENTRY
                                  ELSE FAT[b]
  BY <1>1, SpecialValues DEF Freed
<1>6. \A k \in Files(root_directory') : k # i =>
         Chain(FAT', root_directory'[k].starting_block)
            = Chain(FAT, root_directory[k].starting_block)
  <2>1. start = root_directory[i].starting_block
    OBVIOUS
  <2> HIDE DEF start
  <2> QED BY <1>2, <1>4, <1>5, <2>1, TruncateConsistent
<1> QED BY <1>2, <1>3, <1>4, <1>6 DEF Untouched, Files

LEMMA CreateUntouched ==
    ASSUME FullInv, formatted_flag, NEW n, Create(n)
    PROVE  Untouched(n)
<1>1. PICK i \in DirIndexes, j \in Blocks :
         /\ FirstFreeEntry(i)
         /\ FirstFreeBlock(FAT, j)
         /\ FAT' = [FAT EXCEPT ![j] = EOF_FAT_ENTRY]
         /\ root_directory' = [root_directory EXCEPT ![i] =
               [in_use |-> TRUE, name |-> n, size |-> 0, starting_block |-> j]]
  BY DEF Create
<1>2. /\ i \notin Files(root_directory) /\ FAT[j] = FREE_FAT_ENTRY
      /\ FAT \in [Blocks -> Blocks] /\ Consistent(FAT, root_directory)
  BY <1>1 DEF FirstFreeEntry, FirstFreeBlock, Files, FullInv, IInv, TypeOK, FATConsistent
<1>3. /\ Files(root_directory') = Files(root_directory) \cup {i}
      /\ \A k \in Files(root_directory) : root_directory'[k] = root_directory[k]
      /\ root_directory'[i].starting_block = j
  BY <1>1, <1>2 DEF FullInv, IInv, TypeOK, Files
<1>4. \A b \in Blocks : FAT'[b] = IF b = j THEN EOF_FAT_ENTRY ELSE FAT[b]
  BY <1>1, <1>2
<1>5. \A k \in Files(root_directory) :
         Chain(FAT', root_directory'[k].starting_block)
            = Chain(FAT, root_directory[k].starting_block)
  BY <1>2, <1>3, <1>4, CreateConsistent
<1> QED BY <1>3, <1>5 DEF Untouched

LEMMA PutUntouched ==
    ASSUME FullInv, NEW byte \in Byte, PutByte(byte) \/ PutLastByte(byte)
    PROVE  Untouched(root_directory[H.directory_index].name)
<1> DEFINE i == H.directory_index
           cur == H.current_block
<1>1. call.op = "write" /\ root_directory' = Grown
  BY WriteMoves
<1>2. /\ i \in Files(root_directory) /\ FAT[cur] = EOF_FAT_ENTRY
      /\ cur \in Chain(FAT, root_directory[i].starting_block) /\ cur \in DataBlocks
      /\ Consistent(FAT, root_directory) /\ FAT \in [Blocks -> Blocks]
  BY <1>1, Writing DEF FullInv, IInv, TypeOK
<1>3. \A k \in DirIndexes : k # i => root_directory'[k] = root_directory[k]
  BY <1>1, GrownTable DEF FullInv
<1>4. CASE PutByte(byte)
  <2>1. FAT' = FAT
    BY <1>4 DEF PutByte
  <2> QED BY <1>3, <2>1 DEF Untouched, Files
<1>5. CASE PutLastByte(byte)
  <2>1. PICK j \in Blocks :
           /\ FirstFreeBlock(FAT, j)
           /\ FAT' = [FAT EXCEPT ![cur] = j, ![j] = EOF_FAT_ENTRY]
    BY <1>5 DEF PutLastByte
  <2>2. FAT[j] = FREE_FAT_ENTRY
    BY <2>1 DEF FirstFreeBlock
  <2>3. \A b \in Blocks :
           FAT'[b] = IF b = j THEN EOF_FAT_ENTRY ELSE IF b = cur THEN j ELSE FAT[b]
    BY <1>2, <2>1, SpecialValues
  <2>4. \A k \in Files(root_directory) : k # i =>
           Chain(FAT', root_directory[k].starting_block)
              = Chain(FAT, root_directory[k].starting_block)
    <3> HIDE DEF i, cur
    <3> QED BY <1>2, <2>2, <2>3, ExtendConsistent
  <2> QED BY <1>3, <2>4 DEF Untouched, Files
<1> QED BY <1>4, <1>5

LEMMA StepUntouched ==
    ASSUME ShellInv, ShellNext, pc \notin {"prompt", "off"}, up'
    PROVE  Untouched(cmd.dest)
<1>1. ASSUME UNCHANGED <<FAT, root_directory>>  PROVE Untouched(cmd.dest)
  BY <1>1 DEF Untouched
<1>2. CASE Check \/ GetHostChunk \/ Gone \/ Throw \/ UNCHANGED vars
  BY <1>1, <1>2 DEF Check, GetHostChunk, Gone, Throw, shellVars, vars, memory
<1>3. CASE Unwind
  BY <1>1, <1>3 DEF Unwind, FlushFAT, DestroyUnformatted, FlushRoot, Discarded
<1>4. CASE OpenSource
  BY <1>1, <1>2, <1>4 DEF OpenSource, OpenRead
<1>5. CASE TruncateDest
  <2>1. formatted_flag
    BY <1>5 DEF TruncateDest, At, ShellInv, ShellOK, PlaceOK, Working
  <2> QED BY <1>2, <1>5, <2>1, TruncateUntouched DEF TruncateDest, ShellInv
<1>6. CASE OpenDest
  <2>1. formatted_flag
    BY <1>6 DEF OpenDest, At, ShellInv, ShellOK, PlaceOK, Working
  <2>2. CASE OpenWrite(cmd.dest)
    BY <1>1, <2>2 DEF OpenWrite
  <2> QED BY <1>2, <1>6, <2>1, <2>2, CreateUntouched DEF OpenDest, ShellInv
<1>7. CASE GetChunk
  BY <1>1, <1>2, <1>7 DEF GetChunk, ReadStart, Start
<1>8. CASE InRead
  BY <1>1, <1>8 DEF InRead, ReadByte, ReadLastByte, ReadEnd
<1>9. CASE PutChunk
  BY <1>1, <1>2, <1>9 DEF PutChunk, WriteStart, Start
<1>10. CASE InWrite
  <2>1. root_directory[H.directory_index].name = cmd.dest
    <3>1. /\ pc \in Copying /\ cmd.op # "vcopyout" /\ call.handle = cmd.out
      BY <1>10 DEF InWrite, At, Copying, ShellInv, ShellOK, CommandOK, PlaceOK
    <3> QED BY <3>1, HandleOut DEF OpenAs, H
  <2>2. CASE WriteEnd
    BY <1>1, <2>2 DEF WriteEnd
  <2> QED BY <1>10, <2>1, <2>2, PutUntouched DEF InWrite, ShellInv
<1>11. CASE CloseFiles
  BY <1>1, <1>11 DEF CloseFiles, Close
<1>12. ~Types
  BY DEF Types, StartUp, Harmless, quit_op, format_op, vfile_op_unformatted, vdel_op,
         vcopyin_op, vcopyout_op, vcopy_op, Begin, At
<1> QED BY <1>2, <1>3, <1>4, <1>5, <1>6, <1>7, <1>8, <1>9, <1>10, <1>11, <1>12
    DEF ShellNext, Runs

\* No step of a copy changes the entry or the chain of a file other than the copy's
\* destination, its source included (vcopy, vcopyin, vcopyout).
THEOREM OthersStayUntouched == WholeDisk => (ShellSpec => OthersUntouched)
<1> SUFFICES ASSUME WholeDisk  PROVE ShellSpec => OthersUntouched
  OBVIOUS
<1>1. ShellInv /\ [ShellNext]_shellVars =>
         [pc \notin {"prompt", "off"} /\ up' =>
             \A i \in Files(root_directory) : root_directory[i].name # cmd.dest =>
                LET start == root_directory[i].starting_block IN
                /\ root_directory'[i] = root_directory[i]
                /\ Chain(FAT', start) = Chain(FAT, start)]_shellVars
  BY StepUntouched DEF Untouched
<1> QED BY <1>1, ShellInvariance, PTL DEF ShellSpec, OthersUntouched
-----------------------------------------------------------------------------
(***************************************************************************)
(* A copy that has a problem.                                              *)
(***************************************************************************)
LEMMA SpaceTypes ==
    ASSUME FullInv, NEW h \in Handles, handle_table[h].in_use
    PROVE  /\ SizeAt(h) \in Nat /\ handle_table[h].offset \in Nat
           /\ free_space \in Nat /\ OpenSpace(h) \in Int
           /\ SizeAt(h) % BLOCK_SIZE \in 0 .. BLOCK_SIZE - 1
<1>1. SizeAt(h) \in Nat /\ handle_table[h].offset \in Nat
  BY DEF FullInv, IInv, TypeOK, HandlesOnFiles, Files, Entry, Handle, SizeAt
<1>2. free_space \in Nat
  BY FreeSpaceType DEF FullInv, IInv, TypeOK
<1>3. SizeAt(h) % BLOCK_SIZE \in 0 .. BLOCK_SIZE - 1
  BY <1>1, SizeAssumption
<1>4. OpenSpace(h) = free_space + (BLOCK_SIZE - (SizeAt(h) % BLOCK_SIZE)) - 1
  BY DEF OpenSpace, SizeAt
<1> QED BY <1>1, <1>2, <1>3, <1>4, SizeAssumption

\* The last free byte needs a block after it: no space means that none is free.
LEMMA NoSpaceNoBlocks ==
    ASSUME FullInv, NEW h \in Handles, handle_table[h].in_use, OpenSpace(h) = 0
    PROVE  FreeBlocks(FAT) = {}
<1>1. free_space + (BLOCK_SIZE - (SizeAt(h) % BLOCK_SIZE)) - 1 = 0
  BY DEF OpenSpace, SizeAt
<1>2. free_space = 0
  BY <1>1, SpaceTypes, SizeAssumption
<1>3. Cardinality(FreeBlocks(FAT)) = 0
  BY <1>2, FreeBlocksFinite, SizeAssumption DEF free_space
<1> QED BY <1>3, FreeBlocksFinite, FS_EmptySet

\* Each byte of a write() takes one off what the next call could place.
LEMMA SpaceShrinks ==
    ASSUME FullInv, NEW byte \in Byte, PutByte(byte) \/ PutLastByte(byte), NEW h,
           h = call.handle
    PROVE  /\ OpenSpace(h)' = OpenSpace(h) - 1
           /\ SizeAt(h)' = SizeAt(h) + 1
<1> DEFINE size == SizeAt(h)
<1>1. /\ call.op = "write" /\ root_directory' = Grown /\ h \in Handles
      /\ handle_table'[h].directory_index = handle_table[h].directory_index
  BY WriteMoves
<1>2. handle_table[h].in_use /\ handle_table[h] = H
  BY <1>1, Writing DEF FullInv, H
<1>3. SizeAt(h)' = size + 1
  <2>1. root_directory'[H.directory_index].size = root_directory[H.directory_index].size + 1
    BY <1>1, GrownTable DEF FullInv
  <2> QED BY <1>1, <1>2, <2>1 DEF SizeAt
<1>4. /\ size \in Nat /\ free_space \in Nat /\ size % BLOCK_SIZE \in 0 .. BLOCK_SIZE - 1
      /\ BLOCK_SIZE \in Nat
  BY <1>1, <1>2, SpaceTypes, SizeAssumption
<1>5. OpenSpace(h) = free_space + (BLOCK_SIZE - (size % BLOCK_SIZE)) - 1
  BY DEF OpenSpace, SizeAt
<1>6. OpenSpace(h)' = free_space' + (BLOCK_SIZE - ((size + 1) % BLOCK_SIZE)) - 1
  <2>1. OpenSpace(h)' = free_space' + (BLOCK_SIZE - (SizeAt(h)' % BLOCK_SIZE)) - 1
    BY DEF OpenSpace, SizeAt
  <2> QED BY <1>3, <2>1
<1>7. call.block_offset = size % BLOCK_SIZE
  BY <1>1, <1>2, WritingCounts DEF SizeAt
<1>8. CASE PutByte(byte)
  <2>1. free_space' = free_space /\ call.block_offset # BLOCK_SIZE - 1
    BY <1>8 DEF PutByte, free_space, LastOfBlock
  <2>2. (size + 1) % BLOCK_SIZE = (size % BLOCK_SIZE) + 1
    <3> HIDE DEF size
    <3> QED BY <1>4, <1>7, <2>1, OneByteOn
  <2>3. OpenSpace(h)' = OpenSpace(h) - 1
    <3> HIDE DEF size
    <3> QED BY <1>4, <1>5, <1>6, <2>1, <2>2
  <2> QED BY <1>3, <2>3
<1>9. CASE PutLastByte(byte)
  <2>1. call.block_offset = BLOCK_SIZE - 1
    BY <1>9 DEF PutLastByte, LastOfBlock
  <2>2. (size + 1) % BLOCK_SIZE = 0
    <3> HIDE DEF size
    <3> QED BY <1>4, <1>7, <2>1, OneByteOn
  <2>3. free_space' = free_space - BLOCK_SIZE
    <3>1. Cardinality(FreeBlocks(FAT')) = Cardinality(FreeBlocks(FAT)) - 1
      BY <1>9, OneBlockTaken
    <3>2. Cardinality(FreeBlocks(FAT)) \in Nat
      BY FreeBlocksFinite
    <3> QED BY <1>4, <3>1, <3>2 DEF free_space
  <2>4. OpenSpace(h)' = OpenSpace(h) - 1
    <3> HIDE DEF size
    <3> QED BY <1>4, <1>5, <1>6, <1>7, <2>1, <2>2, <2>3
  <2> QED BY <1>3, <2>4
<1> QED BY <1>8, <1>9

LEMMA InitSpace == ShellInit => SpaceOK
BY DEF ShellInit, NoCommand, SpaceOK, At

\* No write() is begun or under way, and a problem is no news.
LEMMA QuietSpace ==
    ASSUME SpaceOK, pc' # "write",
           \/ ~cmd'.problem
           \/ /\ cmd'.problem = cmd.problem /\ FAT' = FAT
              /\ pc' \in Copying \cup {"close", "check"}
    PROVE  SpaceOK'
BY DEF SpaceOK, At

LEMMA PutChunkSpace == ShellInv /\ SpaceOK /\ PutChunk => SpaceOK'
<1> SUFFICES ASSUME ShellInv, SpaceOK, PutChunk  PROVE SpaceOK'
  OBVIOUS
<1>1. pc = "put" /\ pc \in Copying /\ ShellTypeOK /\ FullInv
  BY DEF PutChunk, At, Copying, ShellInv, ShellOK
<1>2. PICK h \in Handles : h = cmd.out /\ OpenAs(h, "WRITE", cmd.dest)
  BY <1>1, HandleOut DEF ShellInv, ShellOK, CommandOK
<1>3. handle_table[h].in_use /\ OpenSpace(h) \in Int
  BY <1>1, <1>2, SpaceTypes DEF OpenAs
<1>4. CASE WriteStart(cmd.out, cmd.count) /\ Goto("write") /\ Stay
  <2>1. /\ call'.buffer = << >> /\ call'.count = Smaller(cmd.count, OpenSpace(h))
        /\ Smaller(cmd.count, OpenSpace(h)) > 0
        /\ UNCHANGED <<FAT, root_directory, handle_table>>
    BY <1>2, <1>4 DEF WriteStart, Start
  <2>2. pc' = "write" /\ pc' \in Copying /\ cmd' = cmd
    BY <1>4 DEF Goto, Copying, Stay
  <2>3. OpenSpace(cmd.out)' = OpenSpace(h)
    BY <1>2, <2>1, <2>2 DEF OpenSpace, free_space
  <2>4. cmd.count \in Nat
    BY <1>1 DEF ShellTypeOK, CommandType
  <2>5. Len(call'.buffer) = 0
    BY <2>1
  <2>6. /\ Len(call'.buffer) <= call'.count /\ call'.count <= cmd.count
        /\ call'.count < cmd.count => OpenSpace(h) = call'.count - Len(call'.buffer)
    BY <1>3, <2>1, <2>4, <2>5 DEF Smaller
  <2>7. cmd'.problem => FreeBlocks(FAT') = {}
    BY <2>1, <2>2 DEF SpaceOK
  <2> QED BY <2>2, <2>3, <2>6, <2>7 DEF SpaceOK
<1>5. CASE /\ OpenSpace(cmd.out) = 0
           /\ Goto("copy") /\ UNCHANGED <<vars, done>>
  <2>1. FreeBlocks(FAT) = {} /\ FAT' = FAT
    BY <1>1, <1>2, <1>3, <1>5, NoSpaceNoBlocks DEF vars, memory
  <2> QED BY <1>5, <2>1 DEF SpaceOK, At, Goto, Copying
<1> QED BY <1>4, <1>5 DEF PutChunk

LEMMA InWriteSpace == ShellInv /\ SpaceOK /\ InWrite => SpaceOK'
<1> SUFFICES ASSUME ShellInv, SpaceOK, InWrite  PROVE SpaceOK'
  OBVIOUS
<1>1. pc = "write" /\ pc \in Copying /\ ShellTypeOK /\ FullInv
  BY DEF InWrite, At, Copying, ShellInv, ShellOK
<1>2. PICK h \in Handles : h = cmd.out /\ OpenAs(h, "WRITE", cmd.dest)
  BY <1>1, HandleOut DEF ShellInv, ShellOK, CommandOK
<1>3. handle_table[h].in_use /\ OpenSpace(h) \in Int /\ h = call.handle
  BY <1>1, <1>2, SpaceTypes DEF OpenAs, ShellInv, ShellOK, PlaceOK, At
<1>4. /\ cmd.problem => FreeBlocks(FAT) = {}
      /\ Len(call.buffer) <= call.count /\ call.count <= cmd.count
      /\ call.count < cmd.count => OpenSpace(h) = call.count - Len(call.buffer)
  BY <1>1, <1>2 DEF SpaceOK, At
<1>5. cmd.count \in Nat
  BY <1>1 DEF ShellTypeOK, CommandType
<1>6. ASSUME NEW byte \in Byte, PutByte(byte) \/ PutLastByte(byte), UNCHANGED pc, Stay
      PROVE  SpaceOK'
  <2>1. /\ call'.count = call.count /\ Len(call'.buffer) = Len(call.buffer) + 1
        /\ Len(call.buffer) \in Nat /\ call.count \in Nat /\ Len(call.buffer) < call.count
    BY <1>1, <1>6, WriteMoves
  <2>2. OpenSpace(h)' = OpenSpace(h) - 1
    BY <1>1, <1>3, <1>6, SpaceShrinks
  <2>3. cmd' = cmd /\ pc' = "write" /\ pc' \in Copying
    BY <1>1, <1>6 DEF Stay
  <2>4. OpenSpace(cmd.out)' = OpenSpace(h)'
    BY <1>2, <2>3 DEF OpenSpace
  <2>5. cmd.problem => FreeBlocks(FAT') = {}
    <3>1. CASE PutByte(byte)
      BY <1>4, <3>1 DEF PutByte
    <3>2. CASE PutLastByte(byte)
      BY <1>4, <3>2 DEF PutLastByte, FirstFreeBlock, FreeBlocks
    <3> QED BY <1>6, <3>1, <3>2
  <2>6. /\ Len(call'.buffer) <= call'.count /\ call'.count <= cmd.count
        /\ call'.count < cmd.count => OpenSpace(h)' = call'.count - Len(call'.buffer)
    BY <1>3, <1>4, <1>5, <2>1, <2>2
  <2> QED BY <2>3, <2>4, <2>5, <2>6 DEF SpaceOK
<1>7. CASE /\ WriteEnd
           /\ cmd' = [cmd EXCEPT !.problem = @ \/ Len(call.buffer) < cmd.count]
           /\ Goto("copy")
  <2>1. FAT' = FAT /\ pc' = "copy" /\ pc' \in Copying /\ ~MoreBytes
    BY <1>7 DEF WriteEnd, Goto, Copying
  <2>2. Len(call.buffer) < cmd.count => OpenSpace(h) = 0
    <3>1. Len(call.buffer) \in Nat /\ call.count \in Nat
      BY WritingCounts, <1>1, <1>7 DEF WriteEnd
    <3>2. ~(Len(call.buffer) < call.count)
      BY <2>1 DEF MoreBytes
    <3> QED BY <1>4, <1>5, <3>1, <3>2
  <2>3. cmd'.problem => cmd.problem \/ Len(call.buffer) < cmd.count
    BY <1>1, <1>7 DEF ShellTypeOK, CommandType
  <2>4. cmd'.problem => FreeBlocks(FAT') = {}
    BY <1>1, <1>3, <1>4, <2>1, <2>2, <2>3, NoSpaceNoBlocks
  <2> QED BY <2>1, <2>4 DEF SpaceOK, At
<1> QED BY <1>6, <1>7 DEF InWrite

LEMMA NextSpace == ShellInv /\ SpaceOK /\ [ShellNext]_shellVars => SpaceOK'
<1> SUFFICES ASSUME ShellInv, SpaceOK, [ShellNext]_shellVars  PROVE SpaceOK'
  OBVIOUS
<1> USE DEF Goto, Stay, At
<1>1. ShellTypeOK
  BY DEF ShellInv, ShellOK
<1>2. ~NoCommand.problem
  BY DEF NoCommand
<1>3. pc \notin Copying \cup {"close", "check"} => ~cmd.problem
  BY DEF SpaceOK
<1>4. StartUp \/ Check => cmd' = NoCommand /\ pc' # "write"
  BY DEF StartUp, Check
<1>5. ASSUME \/ Harmless \/ quit_op \/ format_op \/ vfile_op_unformatted \/ Unwind
             \/ TruncateDest \/ \E n \in Name : vdel_op(n)
      PROVE  ~cmd'.problem /\ pc' # "write"
  BY <1>3, <1>5 DEF Harmless, quit_op, format_op, vfile_op_unformatted, Unwind, TruncateDest,
            vdel_op, Copying
<1>6. ASSUME NEW s \in Name, NEW d \in Name, vcopy_op(s, d) \/ vcopyin_op(d) \/ vcopyout_op(s)
      PROVE  ~cmd'.problem /\ pc' # "write"
  BY <1>6 DEF vcopy_op, vcopyin_op, vcopyout_op, Begin, Command, NoCommand
<1>7. CASE OpenSource \/ OpenDest
  <2>1. ~cmd.problem /\ pc' # "write"
    BY <1>3, <1>7 DEF OpenSource, OpenDest, Throw, Copying
  <2>2. cmd'.problem = cmd.problem
    <3>1. \/ cmd' = cmd
          \/ cmd' = [cmd EXCEPT !.in = NewHandle] \/ cmd' = [cmd EXCEPT !.out = NewHandle]
      BY <1>7 DEF OpenSource, OpenDest, Throw
    <3> QED BY <1>1, <3>1 DEF ShellTypeOK, CommandType
  <2> QED BY <2>1, <2>2, QuietSpace
<1>8. CASE GetChunk \/ InRead \/ GetHostChunk
  <2>1. FAT' = FAT
    BY <1>8 DEF GetChunk, ReadStart, Start, InRead, ReadByte, ReadLastByte, ReadEnd,
          GetHostChunk, vars, memory
  <2>2. pc' \in Copying \cup {"close"} /\ pc' # "write"
    BY <1>8 DEF GetChunk, InRead, GetHostChunk, Copying
  <2>3. cmd'.problem = cmd.problem
    <3>1. \/ cmd' = cmd
          \/ cmd' = [cmd EXCEPT !.count = Len(call.buffer)]
          \/ LET count == Smaller(CHUNK, cmd.host)
             IN  cmd' = [cmd EXCEPT !.count = count, !.host = cmd.host - count]
      BY <1>1, <1>8 DEF GetChunk, InRead, GetHostChunk
    <3> QED BY <1>1, <3>1 DEF ShellTypeOK, CommandType
  <2> QED BY <2>1, <2>2, <2>3, QuietSpace
<1>9. CASE CloseFiles
  <2>1. FAT' = FAT /\ pc' \in {"close", "check"}
    BY <1>9 DEF CloseFiles, Close
  <2>2. cmd'.problem = cmd.problem
    BY <1>1, <1>9 DEF CloseFiles, ShellTypeOK, CommandType
  <2> QED BY <2>1, <2>2, QuietSpace
<1>10. CASE UNCHANGED shellVars
  <2>1. UNCHANGED <<pc, cmd, call, FAT, root_directory, handle_table>>
    BY <1>10 DEF shellVars, vars, memory
  <2>2. OpenSpace(cmd.out)' = OpenSpace(cmd.out)
    BY <2>1 DEF OpenSpace, free_space
  <2> QED BY <2>1, <2>2 DEF SpaceOK
<1> QED BY <1>2, <1>4, <1>5, <1>6, <1>7, <1>8, <1>9, <1>10, QuietSpace, PutChunkSpace,
          InWriteSpace DEF ShellNext, Runs, Types, Gone

\* "problem writing destination": as long as one block is free no write() of a copy
\* comes back short, and after one that has no block becomes free (PutChunk, write).
THEOREM ProblemsMeanFull == WholeDisk => (ShellSpec => []ProblemMeansFull)
<1> SUFFICES ASSUME WholeDisk  PROVE ShellSpec => []ProblemMeansFull
  OBVIOUS
<1>1. ShellInit => ShellInv /\ SpaceOK
  BY InitShellInv, InitSpace
<1>2. (ShellInv /\ SpaceOK) /\ [ShellNext]_shellVars => (ShellInv /\ SpaceOK)'
  BY NextShellInv, NextSpace
<1>3. ShellInv /\ SpaceOK => ProblemMeansFull
  BY DEF SpaceOK, ProblemMeansFull
<1> QED BY <1>1, <1>2, <1>3, PTL DEF ShellSpec
-----------------------------------------------------------------------------
(***************************************************************************)
(* A copy that has none.                                                   *)
(***************************************************************************)
\* The two handles of a vcopy.
LEMMA CopyHandles ==
    ASSUME ShellInv, pc \in Copying, cmd.op = "vcopy", NEW g, g = cmd.in, NEW h, h = cmd.out
    PROVE  /\ g \in Handles /\ h \in Handles /\ g # h
           /\ handle_table[g].in_use /\ handle_table[h].in_use
           /\ handle_table[g].offset \in Nat /\ SizeAt(g) \in Nat /\ SizeAt(h) \in Nat
           /\ handle_table[g].directory_index \in Files(root_directory)
           /\ handle_table[h].directory_index \in Files(root_directory)
           /\ root_directory[handle_table[g].directory_index].name = cmd.source
           /\ root_directory[handle_table[h].directory_index].name = cmd.dest
<1>1. OpenAs(g, "READ", cmd.source) /\ OpenAs(h, "WRITE", cmd.dest)
  BY HandleIn, HandleOut
<1>2. /\ handle_table[g].directory_index \in Files(root_directory)
      /\ handle_table[h].directory_index \in Files(root_directory)
  BY <1>1 DEF OpenAs, ShellInv, FullInv, IInv, HandlesOnFiles
<1>3. FullInv
  BY DEF ShellInv
<1> QED BY <1>1, <1>2, <1>3, SpaceTypes DEF OpenAs

LEMMA InitCopied == ShellInit => Copied /\ DestThere
<1> SUFFICES ASSUME ShellInit  PROVE cmd.op = "none"
  BY DEF Copied, DestThere, Unhindered
<1>1. NoCommand.op = "none"
  BY DEF NoCommand
<1> QED BY <1>1 DEF ShellInit

LEMMA QuietCopied ==
    ASSUME cmd'.op # "vcopy" \/ cmd'.problem
           \/ pc' \notin {"open dest", "copy", "read", "put", "write", "close", "check"}
    PROVE  Copied'
BY DEF Copied, Unhindered, At

LEMMA TruncateDestCopied == ShellInv /\ TruncateDest => Copied'
<1> SUFFICES ASSUME ShellInv, TruncateDest  PROVE Copied'
  OBVIOUS
<1>1. pc' = "open dest" /\ cmd' = cmd
  BY DEF TruncateDest, Goto, Stay
<1>2. ASSUME NEW k \in DirIndexes, Names(k, cmd.dest)'
      PROVE  root_directory'[k].size = 0
  <2>1. root_directory'[k].in_use /\ root_directory'[k].name = cmd.dest
    BY <1>1, <1>2 DEF Names
  <2>2. CASE Truncate(cmd.dest)
    <3>1. PICK i \in DirIndexes :
             /\ Finds(i, cmd.dest)
             /\ root_directory' = [root_directory EXCEPT ![i].size = 0]
      BY <2>2 DEF Truncate
    <3>2. Names(k, cmd.dest) /\ Names(i, cmd.dest)
      BY <2>1, <2>2, <3>1, TruncateKeeps DEF ShellInv, FullInv, IInv, Names, Finds
    <3>3. k = i
      BY <3>2 DEF Names, Files, ShellInv, FullInv, NamesUnique, UniqueNames
    <3>4. root_directory'[i] = [root_directory[i] EXCEPT !.size = 0] /\ root_directory[i] \in Entry
      BY <3>1 DEF ShellInv, FullInv, IInv, TypeOK
    <3> QED BY <3>3, <3>4 DEF Entry
  <2>3. CASE Missing(cmd.dest) /\ UNCHANGED vars
    BY <2>1, <2>3 DEF Missing, Names, vars, memory
  <2> QED BY <2>2, <2>3 DEF TruncateDest
<1>3. \A k \in DirIndexes : Names(k, cmd.dest)' => root_directory'[k].size = 0
  BY <1>2
<1> QED BY <1>1, <1>3 DEF Copied, At

LEMMA OpenDestCopied == ShellInv /\ Copied /\ OpenDest => Copied'
<1> SUFFICES ASSUME ShellInv, Copied, OpenDest, Unhindered', pc' \in {"copy"}  PROVE Copied'
  BY DEF Copied, OpenDest, Throw, Goto, At
<1>1. pc = "open dest" /\ pc' = "copy"
  BY DEF OpenDest, At
<1>2. /\ OpenWrite(cmd.dest) \/ Create(cmd.dest)
      /\ cmd' = [cmd EXCEPT !.out = NewHandle]
  BY <1>1 DEF OpenDest, Throw, Goto
<1>3. PICK h \in Handles, i \in DirIndexes :
         \E opened :
            /\ FirstFreeHandle(h)
            /\ opened.in_use /\ opened.directory_index = i
            /\ handle_table' = [handle_table EXCEPT ![h] = opened]
            /\ root_directory'[i].size = 0 \/ (Names(i, cmd.dest) /\ root_directory' = root_directory)
  <2>1. CASE OpenWrite(cmd.dest)
    <3>1. PICK h \in Handles, i \in DirIndexes, last \in Blocks :
             /\ FirstFreeHandle(h)
             /\ Finds(i, cmd.dest)
             /\ handle_table' = [handle_table EXCEPT ![h] =
                   [in_use |-> TRUE, mode |-> "WRITE", offset |-> root_directory[i].size,
                    directory_index |-> i, current_block |-> last]]
      BY <2>1, SpecialValues DEF OpenWrite, Chain
    <3>2. root_directory' = root_directory /\ Names(i, cmd.dest)
      BY <2>1, <3>1 DEF OpenWrite, Finds
    <3> DEFINE opened == [in_use |-> TRUE, mode |-> "WRITE", offset |-> root_directory[i].size,
                          directory_index |-> i, current_block |-> last]
    <3>3. opened.in_use /\ opened.directory_index = i
      OBVIOUS
    <3>4. handle_table' = [handle_table EXCEPT ![h] = opened]
      BY <3>1
    <3> HIDE DEF opened
    <3> QED BY <3>1, <3>2, <3>3, <3>4
  <2>2. CASE Create(cmd.dest)
    <3>1. PICK h \in Handles, i \in DirIndexes, j \in Blocks :
             /\ FirstFreeHandle(h)
             /\ root_directory' = [root_directory EXCEPT ![i] =
                   [in_use |-> TRUE, name |-> cmd.dest, size |-> 0, starting_block |-> j]]
             /\ handle_table' = [handle_table EXCEPT ![h] =
                   [in_use |-> TRUE, mode |-> "WRITE", offset |-> 0,
                    directory_index |-> i, current_block |-> j]]
      BY <2>2 DEF Create
    <3>2. root_directory'[i].size = 0
      BY <3>1 DEF ShellInv, FullInv, IInv, TypeOK
    <3> DEFINE opened == [in_use |-> TRUE, mode |-> "WRITE", offset |-> 0,
                          directory_index |-> i, current_block |-> j]
    <3>3. opened.in_use /\ opened.directory_index = i
      OBVIOUS
    <3>4. handle_table' = [handle_table EXCEPT ![h] = opened]
      BY <3>1
    <3> HIDE DEF opened
    <3> QED BY <3>1, <3>2, <3>3, <3>4
  <2> QED BY <1>2, <2>1, <2>2
<1>4. PICK opened :
         /\ FirstFreeHandle(h)
         /\ opened.in_use /\ opened.directory_index = i
         /\ handle_table' = [handle_table EXCEPT ![h] = opened]
         /\ root_directory'[i].size = 0 \/ (Names(i, cmd.dest) /\ root_directory' = root_directory)
  BY <1>3
<1>5. ~handle_table[h].in_use /\ TypeOK /\ ShellTypeOK
  BY <1>4 DEF FirstFreeHandle, ShellInv, ShellOK, FullInv, IInv
<1>6. /\ NewHandle = h
      /\ \A g \in Handles : handle_table'[g] = IF g = h THEN opened ELSE handle_table[g]
  BY <1>4, <1>5, NewHandleIs
<1>7. /\ cmd'.out = h /\ cmd'.in = cmd.in /\ cmd'.op = cmd.op /\ cmd'.problem = cmd.problem
      /\ cmd'.source = cmd.source /\ cmd'.dest = cmd.dest
  BY <1>2, <1>5, <1>6, SetOut
<1>8. Unhindered
  BY <1>7 DEF Unhindered
<1>9. root_directory'[i].size = 0
  BY <1>1, <1>4, <1>8 DEF Copied, At
<1>10. SizeAt(cmd.out)' = 0
  BY <1>6, <1>7, <1>9, <1>4 DEF SizeAt
<1>11. cmd.in # -1 /\ Fresh(cmd.in) /\ OpenAs(cmd.in, "READ", cmd.source)
  BY <1>1, <1>8 DEF ShellInv, ShellOK, HandlesOK, Working, Unhindered
<1>12. handle_table'[cmd'.in].offset = 0
  BY <1>5, <1>6, <1>7, <1>11 DEF Fresh, OpenAs
<1> QED BY <1>1, <1>10, <1>12 DEF Copied, At

\* Where a chunk stands after a step between open() and close().
LEMMA ChunkCopied ==
    ASSUME NEW g, NEW h, cmd'.in = g, cmd'.out = h, pc' \in Copying,
           pc' = "copy" => handle_table'[g].offset = SizeAt(h)',
           pc' = "read" => handle_table'[g].offset = SizeAt(h)' + Len(call'.buffer),
           pc' = "put" => handle_table'[g].offset = SizeAt(h)' + cmd'.count,
           pc' = "write" => handle_table'[g].offset
                               = SizeAt(h)' + (cmd'.count - Len(call'.buffer))
    PROVE  Copied'
<1>1. SizeAt(cmd.out)' = SizeAt(h)'
  BY DEF SizeAt
<1>2. pc' \notin {"open dest", "close", "check"}
  BY DEF Copying
<1> QED BY <1>1, <1>2 DEF Copied, At

LEMMA GetChunkCopied == ShellInv /\ Copied /\ GetChunk => Copied'
<1> SUFFICES ASSUME ShellInv, Copied, GetChunk, Unhindered'  PROVE Copied'
  BY DEF Copied
<1>1. pc = "copy" /\ pc \in Copying /\ cmd' = cmd
  BY DEF GetChunk, At, Stay, Copying
<1>2. Unhindered /\ cmd.op = "vcopy"
  BY <1>1 DEF Unhindered
<1>3. PICK g, h : g = cmd.in /\ h = cmd.out
  OBVIOUS
<1>4. /\ SizeAt(g) \in Nat /\ SizeAt(h) \in Nat /\ handle_table[g].offset \in Nat
      /\ handle_table[g].directory_index \in Files(root_directory)
      /\ handle_table[h].directory_index \in Files(root_directory)
      /\ root_directory[handle_table[g].directory_index].name = cmd.source
      /\ root_directory[handle_table[h].directory_index].name = cmd.dest
  BY <1>1, <1>2, <1>3, CopyHandles
<1>5. handle_table[g].offset = SizeAt(h)
  BY <1>1, <1>2, <1>3 DEF Copied, At
<1>6. CASE ReadStart(cmd.in, CHUNK) /\ Goto("read")
  <2>1. /\ call'.buffer = << >> /\ UNCHANGED <<handle_table, root_directory>>
        /\ pc' = "read" /\ pc' \in Copying
    BY <1>6 DEF ReadStart, Start, Goto, Copying
  <2>2. Len(call'.buffer) = 0
    BY <2>1
  <2>3. SizeAt(h)' = SizeAt(h)
    BY <2>1 DEF SizeAt
  <2>4. handle_table'[g].offset = SizeAt(h)' + Len(call'.buffer)
    BY <1>4, <1>5, <2>1, <2>2, <2>3
  <2> QED BY <1>1, <1>3, <2>1, <2>4, ChunkCopied
<1>7. CASE AtEnd(cmd.in) /\ Goto("close") /\ UNCHANGED vars
  <2>1. pc' = "close" /\ root_directory' = root_directory
    BY <1>7 DEF Goto, vars, memory
  <2>2. PICK i \in DirIndexes, k \in DirIndexes :
           i = handle_table[g].directory_index /\ k = handle_table[h].directory_index
    BY <1>4 DEF Files
  <2>3. Names(i, cmd.source) /\ Names(k, cmd.dest)
    BY <1>4, <2>2 DEF Names, Files
  <2>4. root_directory[i].size = root_directory[k].size
    BY <1>3, <1>5, <1>7, <2>2 DEF AtEnd, SizeAt
  <2> QED BY <1>1, <2>1, <2>3, <2>4 DEF Copied, At, Names
<1> QED BY <1>6, <1>7 DEF GetChunk

LEMMA InReadCopied == ShellInv /\ Copied /\ InRead => Copied'
<1> SUFFICES ASSUME ShellInv, Copied, InRead, Unhindered'  PROVE Copied'
  BY DEF Copied
<1>1. pc = "read" /\ pc \in Copying /\ ShellTypeOK /\ FullInv /\ call.handle = cmd.in
  BY DEF InRead, At, Copying, ShellInv, ShellOK, PlaceOK
<1>2. PICK g, h : g = cmd.in /\ h = cmd.out
  OBVIOUS
<1>3. CASE (ReadByte \/ ReadLastByte) /\ UNCHANGED pc /\ Stay
  <2>1. cmd' = cmd /\ pc' = "read"
    BY <1>1, <1>3 DEF Stay
  <2>2. Unhindered /\ cmd.op = "vcopy"
    BY <2>1 DEF Unhindered
  <2>3. /\ SizeAt(h) \in Nat /\ handle_table[g].offset \in Nat /\ h \in Handles
    BY <1>1, <1>2, <2>2, CopyHandles
  <2>4. /\ Len(call.buffer) \in Nat /\ Len(call'.buffer) = Len(call.buffer) + 1
        /\ handle_table'[g].offset = handle_table[g].offset + 1
        /\ handle_table'[h].directory_index = handle_table[h].directory_index
        /\ root_directory' = root_directory
    BY <1>1, <1>2, <1>3, <2>3, ReadMoves
  <2>5. handle_table[g].offset = SizeAt(h) + Len(call.buffer)
    BY <1>1, <1>2, <2>2 DEF Copied, At
  <2>6. SizeAt(h)' = SizeAt(h)
    BY <2>4 DEF SizeAt
  <2>7. handle_table'[g].offset = SizeAt(h)' + Len(call'.buffer)
    BY <2>3, <2>4, <2>5, <2>6
  <2> QED BY <1>1, <1>2, <2>1, <2>7, ChunkCopied
<1>4. CASE /\ ReadEnd
           /\ cmd' = [cmd EXCEPT !.count = Len(call.buffer)]
           /\ Goto(IF cmd.op = "vcopy" THEN "put" ELSE "copy")
  <2>1. call.op = "read" /\ Len(call.buffer) \in Nat
    BY <1>1, <1>4, Reading DEF ReadEnd
  <2>2. SameCopy /\ cmd'.count = Len(call.buffer) /\ cmd'.problem = cmd.problem
    BY <1>1, <1>4, <2>1, SetCount
  <2>3. Unhindered /\ cmd.op = "vcopy"
    BY <2>2 DEF Unhindered, SameCopy
  <2>4. pc' = "put" /\ pc' \in Copying /\ UNCHANGED <<handle_table, root_directory>>
    BY <1>4, <2>3 DEF Goto, Copying, ReadEnd
  <2>5. handle_table[g].offset = SizeAt(h) + Len(call.buffer)
    BY <1>1, <1>2, <2>3 DEF Copied, At
  <2>6. handle_table'[g].offset = SizeAt(h)' + cmd'.count
    BY <2>2, <2>4, <2>5 DEF SizeAt
  <2>7. cmd'.in = g /\ cmd'.out = h
    BY <1>2, <2>2 DEF SameCopy
  <2> QED BY <2>4, <2>6, <2>7, ChunkCopied
<1> QED BY <1>3, <1>4 DEF InRead

LEMMA PutChunkCopied == ShellInv /\ Copied /\ PutChunk => Copied'
<1> SUFFICES ASSUME ShellInv, Copied, PutChunk, Unhindered'  PROVE Copied'
  BY DEF Copied
<1>1. pc = "put" /\ pc \in Copying /\ ShellTypeOK
  BY DEF PutChunk, At, Copying, ShellInv, ShellOK
<1>2. PICK g, h : g = cmd.in /\ h = cmd.out
  OBVIOUS
<1>3. CASE WriteStart(cmd.out, cmd.count) /\ Goto("write") /\ Stay
  <2>1. /\ call'.buffer = << >> /\ UNCHANGED <<handle_table, root_directory>>
        /\ pc' = "write" /\ pc' \in Copying /\ cmd' = cmd
    BY <1>3 DEF WriteStart, Start, Goto, Stay, Copying
  <2>2. Unhindered /\ cmd.count \in Nat
    BY <1>1, <2>1 DEF Unhindered, ShellTypeOK, CommandType
  <2>3. handle_table[g].offset = SizeAt(h) + cmd.count
    BY <1>1, <1>2, <2>2 DEF Copied, At
  <2>4. Len(call'.buffer) = 0
    BY <2>1
  <2>5. cmd'.count - Len(call'.buffer) = cmd.count
    BY <2>1, <2>2, <2>4
  <2>6. handle_table'[g].offset = SizeAt(h)' + (cmd'.count - Len(call'.buffer))
    BY <2>1, <2>3, <2>5 DEF SizeAt
  <2> QED BY <1>2, <2>1, <2>6, ChunkCopied
<1>4. ASSUME cmd' = [cmd EXCEPT !.problem = TRUE]  PROVE FALSE
  BY <1>1, <1>4, SetProblem DEF Unhindered
<1> QED BY <1>3, <1>4 DEF PutChunk

LEMMA InWriteCopied == ShellInv /\ SpaceOK /\ Copied /\ InWrite => Copied'
<1> SUFFICES ASSUME ShellInv, SpaceOK, Copied, InWrite, Unhindered'  PROVE Copied'
  BY DEF Copied
<1>1. pc = "write" /\ pc \in Copying /\ ShellTypeOK /\ FullInv /\ call.handle = cmd.out
  BY DEF InWrite, At, Copying, ShellInv, ShellOK, PlaceOK
<1>2. PICK g, h : g = cmd.in /\ h = cmd.out
  OBVIOUS
<1>3. cmd.count \in Nat
  BY <1>1 DEF ShellTypeOK, CommandType
<1>4. ASSUME NEW byte \in Byte, PutByte(byte) \/ PutLastByte(byte), UNCHANGED pc, Stay
      PROVE  Copied'
  <2>1. cmd' = cmd /\ pc' = "write"
    BY <1>1, <1>4 DEF Stay
  <2>2. Unhindered /\ cmd.op = "vcopy"
    BY <2>1 DEF Unhindered
  <2>3. SizeAt(h) \in Nat /\ handle_table[g].offset \in Nat /\ g \in Handles /\ g # h
    BY <1>1, <1>2, <2>2, CopyHandles
  <2>4. /\ Len(call.buffer) \in Nat /\ Len(call'.buffer) = Len(call.buffer) + 1
        /\ handle_table'[g] = handle_table[g]
    BY <1>1, <1>2, <1>4, <2>3, WriteMoves
  <2>5. SizeAt(h)' = SizeAt(h) + 1
    BY <1>1, <1>2, <1>4, SpaceShrinks
  <2>6. handle_table[g].offset = SizeAt(h) + (cmd.count - Len(call.buffer))
    BY <1>1, <1>2, <2>2 DEF Copied, At
  <2>7. handle_table'[g].offset = SizeAt(h)' + (cmd'.count - Len(call'.buffer))
    BY SMTT(30), <1>3, <2>1, <2>3, <2>4, <2>5, <2>6
  <2> QED BY <1>1, <1>2, <2>1, <2>7, ChunkCopied
<1>5. CASE /\ WriteEnd
           /\ cmd' = [cmd EXCEPT !.problem = @ \/ Len(call.buffer) < cmd.count]
           /\ Goto("copy")
  <2>1. PICK problem \in BOOLEAN :
           /\ problem <=> (cmd.problem \/ Len(call.buffer) < cmd.count)
           /\ cmd' = [cmd EXCEPT !.problem = problem]
    BY <1>1, <1>5 DEF ShellTypeOK, CommandType
  <2>2. SameCopy /\ cmd'.problem = problem
    BY <1>1, <2>1, SetProblem
  <2>3. ~cmd.problem /\ ~(Len(call.buffer) < cmd.count) /\ Unhindered /\ cmd.op = "vcopy"
    BY <2>1, <2>2 DEF Unhindered, SameCopy
  <2>4. Len(call.buffer) \in Nat /\ call.count \in Nat
    BY <1>1, <1>5, WritingCounts DEF WriteEnd
  <2>5. Len(call.buffer) <= call.count /\ call.count <= cmd.count
    BY <1>1 DEF SpaceOK, At
  <2>6. cmd.count - Len(call.buffer) = 0
    BY <1>3, <2>3, <2>4, <2>5
  <2>7. handle_table[g].offset = SizeAt(h) + (cmd.count - Len(call.buffer))
    BY <1>1, <1>2, <2>3 DEF Copied, At
  <2>8. SizeAt(h) \in Nat
    BY <1>1, <1>2, <2>3, CopyHandles
  <2>9. handle_table[g].offset = SizeAt(h)
    BY <2>6, <2>7, <2>8
  <2>10. pc' = "copy" /\ pc' \in Copying /\ UNCHANGED <<handle_table, root_directory>>
    BY <1>5 DEF Goto, Copying, WriteEnd
  <2>11. handle_table'[g].offset = SizeAt(h)' /\ cmd'.in = g /\ cmd'.out = h
    BY <1>2, <2>2, <2>9, <2>10 DEF SizeAt, SameCopy
  <2> QED BY <2>10, <2>11, ChunkCopied
<1> QED BY <1>4, <1>5 DEF InWrite

LEMMA CloseFilesCopied ==
    ShellInv /\ Copied /\ DestThere /\ CloseFiles => Copied' /\ DestThere'
<1> SUFFICES ASSUME ShellInv, Copied, DestThere, CloseFiles  PROVE Copied' /\ DestThere'
  OBVIOUS
<1>1. /\ pc = "close" /\ pc' \in {"close", "check"} /\ root_directory' = root_directory
      /\ ShellTypeOK
  BY DEF CloseFiles, At, Goto, Close, ShellInv, ShellOK
<1>2. /\ cmd'.op = cmd.op /\ cmd'.source = cmd.source /\ cmd'.dest = cmd.dest
      /\ cmd'.problem = cmd.problem
  <2>1. PICK out \in Handles \cup {-1} : cmd' = [cmd EXCEPT !.in = -1, !.out = out]
    BY <1>1 DEF CloseFiles, ShellTypeOK, CommandType
  <2> QED BY <1>1, <2>1 DEF ShellTypeOK, CommandType
<1>3. \A k, n : Names(k, n)' <=> Names(k, n)
  BY <1>1 DEF Names
<1>4. Copied'
  <2> SUFFICES ASSUME Unhindered'
               PROVE  \E i, k \in DirIndexes :
                         /\ Names(i, cmd.source)' /\ Names(k, cmd.dest)'
                         /\ root_directory'[i].size = root_directory'[k].size
    BY <1>1 DEF Copied, At
  <2>1. Unhindered
    BY <1>2 DEF Unhindered
  <2>2. PICK i \in DirIndexes, k \in DirIndexes :
           /\ Names(i, cmd.source) /\ Names(k, cmd.dest)
           /\ root_directory[i].size = root_directory[k].size
    BY <1>1, <2>1 DEF Copied
  <2> QED BY <1>1, <1>2, <2>2 DEF Names
<1>5. DestThere'
  BY <1>1, <1>2 DEF DestThere, Names
<1> QED BY <1>4, <1>5

LEMMA QuietDest ==
    ASSUME cmd'.op # "vcopy" \/ pc' \notin {"close", "check"}  PROVE DestThere'
BY DEF DestThere

LEMMA GetChunkDest == ShellInv /\ GetChunk => DestThere'
<1> SUFFICES ASSUME ShellInv, GetChunk, cmd'.op = "vcopy", pc' = "close"  PROVE DestThere'
  BY QuietDest DEF GetChunk, Goto
<1>1. pc = "copy" /\ pc \in Copying /\ cmd' = cmd /\ root_directory' = root_directory
  BY DEF GetChunk, At, Stay, Copying, Goto, vars, memory
<1>2. PICK h : h = cmd.out
  OBVIOUS
<1>3. /\ handle_table[h].directory_index \in Files(root_directory)
      /\ root_directory[handle_table[h].directory_index].name = cmd.dest
  BY <1>1, <1>2, CopyHandles
<1> QED BY <1>1, <1>3 DEF DestThere, Names, Files

LEMMA NextCopied == ShellInv /\ CopyInv /\ [ShellNext]_shellVars => CopyInv'
<1> SUFFICES ASSUME ShellInv, SpaceOK, Copied, DestThere, [ShellNext]_shellVars
             PROVE  Copied' /\ DestThere'
  BY NextSpace DEF CopyInv
<1> USE DEF Goto, Stay, At
<1>1. NoCommand.op = "none" /\ (pc = "prompt" => cmd.op = "none")
  <2>1. NoCommand.op = "none"
    BY DEF NoCommand
  <2> QED BY <2>1 DEF ShellInv, ShellOK, CommandOK
<1>2. ASSUME cmd'.op = "none"  PROVE Copied' /\ DestThere'
  BY <1>2, QuietCopied, QuietDest
<1>3. StartUp \/ Check => cmd'.op = "none"
  BY <1>1 DEF StartUp, Check
<1>4. ASSUME \/ Harmless \/ quit_op \/ format_op \/ vfile_op_unformatted
             \/ \E n \in Name : vdel_op(n)
      PROVE  cmd'.op = "none"
  BY <1>1, <1>4 DEF Harmless, quit_op, format_op, vfile_op_unformatted, vdel_op
<1>5. ASSUME pc' \in {"open source", "truncate", "unwind", "off"}
      PROVE  Copied' /\ DestThere'
  BY <1>5, QuietCopied, QuietDest
<1>6. Throw \/ Unwind => pc' \in {"unwind", "off"}
  BY DEF Throw, Unwind
<1>7. ASSUME NEW s \in Name, NEW d \in Name, vcopy_op(s, d) \/ vcopyin_op(d) \/ vcopyout_op(s)
      PROVE  pc' \in {"open source", "truncate"}
  BY <1>7 DEF vcopy_op, vcopyin_op, vcopyout_op, Begin
<1>8. CASE OpenSource
  <2>1. ASSUME cmd.op # "vcopy", cmd' = [cmd EXCEPT !.in = NewHandle]
        PROVE  Copied' /\ DestThere'
    <3>1. cmd'.op = cmd.op
      BY <2>1 DEF ShellInv, ShellOK, ShellTypeOK, CommandType
    <3> QED BY <2>1, <3>1, QuietCopied, QuietDest
  <2> QED BY <1>5, <1>6, <1>8, <2>1 DEF OpenSource
<1>9. CASE TruncateDest
  BY <1>9, TruncateDestCopied, QuietDest DEF TruncateDest
<1>10. CASE OpenDest
  <2>1. pc' \in {"copy", "unwind"}
    BY <1>10 DEF OpenDest, Throw
  <2> QED BY <1>10, <2>1, OpenDestCopied, QuietDest
<1>11. CASE GetChunk
  BY <1>11, GetChunkCopied, GetChunkDest
<1>12. CASE InRead
  <2>1. pc' \notin {"close", "check"}
    BY <1>12 DEF InRead
  <2> QED BY <1>12, <2>1, InReadCopied, QuietDest
<1>13. CASE GetHostChunk
  <2>1. cmd'.op # "vcopy"
    BY <1>13 DEF GetHostChunk, ShellInv, ShellOK, ShellTypeOK, CommandType
  <2> QED BY <2>1, QuietCopied, QuietDest
<1>14. CASE PutChunk
  <2>1. pc' \notin {"close", "check"}
    BY <1>14 DEF PutChunk
  <2> QED BY <1>14, <2>1, PutChunkCopied, QuietDest
<1>15. CASE InWrite
  <2>1. pc' \notin {"close", "check"}
    BY <1>15 DEF InWrite
  <2> QED BY <1>15, <2>1, InWriteCopied, QuietDest
<1>16. CASE CloseFiles
  BY <1>16, CloseFilesCopied
<1>17. CASE UNCHANGED shellVars
  <2>1. UNCHANGED <<pc, cmd, call, root_directory, handle_table>>
    BY <1>17 DEF shellVars, vars, memory
  <2>2. SizeAt(cmd.out)' = SizeAt(cmd.out)
    BY <2>1 DEF SizeAt
  <2>3. Copied'
    BY <2>1, <2>2 DEF Copied, Unhindered, Names
  <2>4. DestThere'
    BY <2>1 DEF DestThere, Names
  <2> QED BY <2>3, <2>4
<1> QED BY <1>2, <1>3, <1>4, <1>5, <1>6, <1>7, <1>8, <1>9, <1>10, <1>11, <1>12, <1>13, <1>14,
          <1>15, <1>16, <1>17 DEF ShellNext, Runs, Types, Gone

\* vcopy() without "problem writing destination" leaves two files of one size, for
\* every chunk length and however the blocks of the two are spread.
THEOREM CopiesAreComplete == WholeDisk => (ShellSpec => []CopyIsComplete)
<1> SUFFICES ASSUME WholeDisk  PROVE ShellSpec => []CopyIsComplete
  OBVIOUS
<1>1. ShellInit => ShellInv /\ CopyInv
  BY InitShellInv, InitSpace, InitCopied DEF CopyInv
<1>2. (ShellInv /\ CopyInv) /\ [ShellNext]_shellVars => (ShellInv /\ CopyInv)'
  BY NextShellInv, NextCopied
<1>3. ShellInv /\ CopyInv => CopyIsComplete
  <2> SUFFICES ASSUME ShellInv, Copied, DestThere, pc = "check", cmd.op = "vcopy", ~cmd.problem
               PROVE  SizeOf(cmd.dest) = SizeOf(cmd.source) /\ SizeOf(cmd.dest) # {}
    BY DEF CopyInv, CopyIsComplete, At
  <2>1. ASSUME NEW k \in DirIndexes, NEW n, Names(k, n)
        PROVE  SizeOf(n) = {root_directory[k].size}
    <3>1. {i \in Files(root_directory) : root_directory[i].name = n} = {k}
      BY <2>1 DEF Names, Files, ShellInv, FullInv, NamesUnique, UniqueNames
    <3> QED BY <3>1 DEF SizeOf
  <2>2. SizeOf(cmd.dest) # {}
    BY <2>1 DEF DestThere
  <2>3. CASE cmd.source = cmd.dest
    BY <2>2, <2>3
  <2>4. CASE cmd.source # cmd.dest
    <3>1. PICK i \in DirIndexes, k \in DirIndexes :
             /\ Names(i, cmd.source) /\ Names(k, cmd.dest)
             /\ root_directory[i].size = root_directory[k].size
      BY <2>4 DEF Copied, Unhindered
    <3> QED BY <2>1, <2>2, <3>1
  <2> QED BY <2>2, <2>3, <2>4
<1> QED BY <1>1, <1>2, <1>3, PTL DEF ShellSpec
=============================================================================
