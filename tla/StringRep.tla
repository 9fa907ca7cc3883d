------------------------------ MODULE StringRep ------------------------------
(***************************************************************************)
(* The representation of spica::String: string_nodes on the heap, each     *)
(* shared by the Strings that count says, under the Big String Lock.  One  *)
(* step is what runs between two allocations or while the lock is free: an *)
(* allocation may fail, and other threads act in between.  With one thread *)
(* this is the build without pMULTITHREADED.  Operations that only read    *)
(* change no state; operator+ and operator>> are sequences of these        *)
(* operations on a string of their own.                                    *)
(***************************************************************************)
EXTENDS Integers, Sequences, FiniteSets

CONSTANTS
    Strings,      \* places for String objects
    Nodes,        \* places for string_nodes on the heap
    Threads,
    Char,
    MaxLength,    \* bound: more characters than this cannot be allocated
    NoText, NoNode, NoString, NoThread

ASSUME StringAssumption ==
    /\ IsFiniteSet(Strings) /\ IsFiniteSet(Threads)
    /\ Strings \intersect Threads = {}
    /\ MaxLength \in Nat
    /\ NoText \notin Seq(Char)
    /\ NoNode \notin Nodes
    /\ NoString \notin Strings
    /\ NoThread \notin Threads

VARIABLES
    rep,          \* the node of each String, NoNode where there is no String
    heap,         \* count and workspace of each node
    string_lock,  \* the thread that holds the lock
    call          \* the local variables of the operation each thread is in

vars == <<rep, heap, string_lock, call>>

Freed == [count |-> 0, workspace |-> NoText]
Idle  == [pc |-> "idle", op |-> "none", this |-> NoString, other |-> NoString,
          text |-> << >>, node |-> NoNode]

\* What the strings mean: a place has the text of its node from the moment its
\* constructor, or the function that returns it, has returned.
Returned(s) == \A t \in Threads : call[t].pc = "compute" => call[t].this # s
ValueOf == [s \in Strings |-> IF rep[s] # NoNode /\ Returned(s)
                              THEN heap[rep[s]].workspace
                              ELSE NoText]
Values == INSTANCE StringValues WITH value <- ValueOf
-----------------------------------------------------------------------------
\* Helpers
TextOf(s) == heap[rep[s]].workspace

\* Another String points to the node.
Share(h, n) == [h EXCEPT ![n].count = @ + 1]

\* One String less points to it: the last one frees it with its workspace.
Drop(h, n) == [h EXCEPT ![n] = IF h[n].count > 1
                               THEN [count |-> h[n].count - 1, workspace |-> h[n].workspace]
                               ELSE Freed]

\* Addresses are interchangeable: new returns one of those that are free.
SomeFree == CHOOSE n \in Nodes : heap[n].count = 0

LockFree == string_lock = NoThread
Holds(t) == string_lock = t

\* The callers: a place is constructed on while nobody uses it, operations are
\* called on Strings that are there, and none is destroyed under one.
Unused(s) == \A t \in Threads : s \notin {call[t].this, call[t].other}
Place(s)  == rep[s] = NoNode /\ Unused(s)
Alive(s)  == rep[s] # NoNode /\ Returned(s)

Call(t, op, s, o, text) ==
    /\ call[t] = Idle
    /\ call' = [call EXCEPT ![t] = [pc |-> "node", op |-> op, this |-> s, other |-> o,
                                    text |-> text, node |-> NoNode]]
    /\ UNCHANGED <<rep, heap>>

Lock(t) == LockFree /\ string_lock' = t

At(t, pc, ops) == call[t].pc = pc /\ call[t].op \in ops
GoTo(t, pc) == call' = [call EXCEPT ![t].pc = pc]
Return(t) == call' = [call EXCEPT ![t] = Idle]
-----------------------------------------------------------------------------
\* Operations that allocate nothing: one step under the lock.

copy_construct(t, s, o) ==
    /\ call[t] = Idle /\ LockFree
    /\ Place(s) /\ Alive(o)
    /\ rep' = [rep EXCEPT ![s] = rep[o]]
    /\ heap' = Share(heap, rep[o])
    /\ UNCHANGED <<string_lock, call>>

\* Variant: the assignment of a string does not take the lock.
assign_unlocked(t, s, o) ==
    /\ call[t] = Idle
    /\ Alive(s) /\ Alive(o) /\ s # o
    /\ rep' = [rep EXCEPT ![s] = rep[o]]
    /\ heap' = Share(Drop(heap, rep[s]), rep[o])
    /\ UNCHANGED <<string_lock, call>>

\* Assigned to itself a string stays as it is.
assign(t, s, o) ==
    /\ call[t] = Idle /\ LockFree
    /\ Alive(s) /\ Alive(o) /\ s # o
    /\ rep' = [rep EXCEPT ![s] = rep[o]]
    /\ heap' = Share(Drop(heap, rep[s]), rep[o])
    /\ UNCHANGED <<string_lock, call>>

destroy(t, s) ==
    /\ call[t] = Idle /\ LockFree
    /\ Alive(s) /\ Unused(s)
    /\ rep' = [rep EXCEPT ![s] = NoNode]
    /\ heap' = Drop(heap, rep[s])
    /\ UNCHANGED <<string_lock, call>>
-----------------------------------------------------------------------------
\* Operations that allocate.  The constructors and the assignment of a text do
\* so without the lock, append() and the functions with it.

construct(t, s, text) ==
    Place(s) /\ Call(t, "construct", s, NoString, text) /\ UNCHANGED string_lock

assign_text(t, s, text) ==
    Alive(s) /\ Call(t, "assign", s, NoString, text) /\ UNCHANGED string_lock

\* Variant: append() takes the lock only to put the new node in place.
append_unlocked(t, s, o) ==
    Alive(s) /\ Alive(o) /\ Call(t, "append", s, o, << >>) /\ UNCHANGED string_lock

append(t, s, o) ==
    Alive(s) /\ Alive(o) /\ Lock(t) /\ Call(t, "append", s, o, << >>)

append_text(t, s, text) ==
    Alive(s) /\ Lock(t) /\ Call(t, "append", s, NoString, text)

function(t, s, o) ==
    Place(s) /\ Alive(o) /\ Lock(t) /\ Call(t, "function", s, o, << >>)

\* std::auto_ptr< string_node > new_node( new string_node );
NewNode(t) ==
    /\ call[t].pc = "node"
    /\ \E n \in Nodes : heap[n].count = 0
    /\ heap' = [heap EXCEPT ![SomeFree] = [count |-> 1, workspace |-> NoText]]
    /\ call' = [call EXCEPT ![t] = [@ EXCEPT !.pc = "workspace", !.node = SomeFree]]
    /\ UNCHANGED <<rep, string_lock>>

\* new_node->workspace = new char[...], and the characters that go there.
Written(c) ==
    CASE c.op = "append"   -> TextOf(c.this) \o (IF c.other = NoString THEN c.text
                                                 ELSE TextOf(c.other))
      [] c.op = "function" -> << >>
      [] OTHER             -> c.text

NewWorkspace(t) ==
    /\ call[t].pc = "workspace"
    /\ Len(Written(call[t])) <= MaxLength
    /\ heap' = [heap EXCEPT ![call[t].node].workspace = Written(call[t])]
    /\ UNCHANGED string_lock

\* A constructor is done when the String has its node, and so is the result of
\* a function.
ConstructString(t) ==
    /\ At(t, "workspace", {"construct"})
    /\ NewWorkspace(t)
    /\ rep' = [rep EXCEPT ![call[t].this] = call[t].node]
    /\ Return(t)

ConstructResult(t) ==
    /\ At(t, "workspace", {"function"})
    /\ NewWorkspace(t)
    /\ rep' = [rep EXCEPT ![call[t].this] = call[t].node]
    /\ call' = [call EXCEPT ![t] = [@ EXCEPT !.pc = "compute", !.node = NoNode]]

FillNode(t) ==
    /\ At(t, "workspace", {"assign", "append"})
    /\ NewWorkspace(t)
    /\ GoTo(t, "replace")
    /\ UNCHANGED rep

\* The old node goes, the new one takes its place.
Replace(t) ==
    /\ call[t].pc = "replace"
    /\ rep' = [rep EXCEPT ![call[t].this] = call[t].node]
    /\ heap' = Drop(heap, rep[call[t].this])
    /\ Return(t)

\* operator=(const char *) and erase() take the lock only now, append() has it.
ReplaceByText(t) ==
    /\ call[t].op = "assign" /\ LockFree
    /\ Replace(t)
    /\ UNCHANGED string_lock

ReplaceByLonger(t) ==
    /\ call[t].op = "append"
    /\ Replace(t)
    /\ string_lock' = NoThread
-----------------------------------------------------------------------------
\* How a function ends: with the empty result, with a result whose workspace is
\* replaced by a new one, or with result = *this, which takes the lock again.

ReturnEmpty(t) ==
    /\ call[t].pc = "compute"
    /\ string_lock' = NoThread
    /\ Return(t)
    /\ UNCHANGED <<rep, heap>>

ReturnComputed(t) ==
    /\ call[t].pc = "compute"
    /\ \E text \in Values!Computed(TextOf(call[t].other)) :
          /\ Len(text) <= MaxLength
          /\ heap' = [heap EXCEPT ![rep[call[t].this]].workspace = text]
    /\ string_lock' = NoThread
    /\ Return(t)
    /\ UNCHANGED rep

ReturnShared(t) ==
    /\ call[t].pc = "compute"
    /\ rep' = [rep EXCEPT ![call[t].this] = rep[call[t].other]]
    /\ heap' = Share(Drop(heap, rep[call[t].this]), rep[call[t].other])
    /\ string_lock' = NoThread
    /\ Return(t)
-----------------------------------------------------------------------------
\* std::bad_alloc out of any of the allocations.  auto_ptr frees the node, the
\* destructor of result what result has, the grabber gives the lock back.

\* Variant: the lock is given back by the last statement of the operation.
UnlockedNot(t) == string_lock

Unlocked(t) == IF Holds(t) THEN NoThread ELSE string_lock

\* Variant: new_node is a plain pointer.
OutOfMemoryLeak(t) ==
    /\ call[t].pc \in {"node", "workspace"}
    /\ string_lock' = Unlocked(t)
    /\ Return(t)
    /\ UNCHANGED <<rep, heap>>

OutOfMemory(t) ==
    /\ call[t].pc \in {"node", "workspace"}
    /\ heap' = IF call[t].node = NoNode THEN heap ELSE Drop(heap, call[t].node)
    /\ string_lock' = Unlocked(t)
    /\ Return(t)
    /\ UNCHANGED rep

ResultOutOfMemory(t) ==
    /\ call[t].pc = "compute"
    /\ rep' = [rep EXCEPT ![call[t].this] = NoNode]
    /\ heap' = Drop(heap, rep[call[t].this])
    /\ string_lock' = Unlocked(t)
    /\ Return(t)
-----------------------------------------------------------------------------
Init ==
    /\ rep = [s \in Strings |-> NoNode]
    /\ heap = [n \in Nodes |-> Freed]
    /\ string_lock = NoThread
    /\ call = [t \in Threads |-> Idle]

\* What a caller may start or do at once.
Start(t) == \E s \in Strings :
    \/ destroy(t, s)
    \/ \E text \in Values!Literals : \/ construct(t, s, text)
                                     \/ assign_text(t, s, text)
                                     \/ append_text(t, s, text)
    \/ \E o \in Strings : \/ copy_construct(t, s, o)
                          \/ assign(t, s, o)
                          \/ append(t, s, o)
                          \/ function(t, s, o)

\* How an operation goes on.
Continue(t) ==
    \/ NewNode(t)
    \/ ConstructString(t) \/ ConstructResult(t) \/ FillNode(t)
    \/ ReplaceByText(t) \/ ReplaceByLonger(t)
    \/ ReturnEmpty(t) \/ ReturnComputed(t) \/ ReturnShared(t)
    \/ OutOfMemory(t) \/ ResultOutOfMemory(t)

Next == \E t \in Threads : Start(t) \/ Continue(t)

\* A thread that is in an operation goes on, unless it waits for the lock.
Spec == Init /\ [][Next]_vars /\ \A t \in Threads : WF_vars(Continue(t))
-----------------------------------------------------------------------------
Text == UNION {[1 .. k -> Char] : k \in 0 .. MaxLength}
Node == [count : Nat, workspace : Text \union {NoText}]
Operation ==
    [pc : {"idle", "node", "workspace", "replace", "compute"},
     op : {"none", "construct", "assign", "append", "function"},
     this : Strings \union {NoString}, other : Strings \union {NoString},
     text : Values!Literals, node : Nodes \union {NoNode}]

\* Every variable has its type.
TypeOK ==
    /\ rep \in [Strings -> Nodes \union {NoNode}]
    /\ heap \in [Nodes -> Node]
    /\ string_lock \in Threads \union {NoThread}
    /\ call \in [Threads -> Operation]

Owners(n) == {s \in Strings : rep[s] = n} \union {t \in Threads : call[t].node = n}

\* str.cpp:45-47: a node's count is the number of Strings that share it, a node
\* that an operation has allocated and not yet installed counting for that
\* operation: none is freed under a String or twice, and none is left behind,
\* whatever allocation has failed.
CountsOwners == \A n \in Nodes : heap[n].count = Cardinality(Owners(n))

\* str.cpp:8: a String that is there has a representation with a text, also
\* after an assignment to itself or an operation that failed half way.
NeverNull == \A s \in Strings : rep[s] # NoNode => TextOf(s) # NoText

\* An operation has the lock, the place, the String and the node it needs: the
\* node it has allocated is no other's, neither is the place it constructs on,
\* and the Strings it is called on stay.
FrameOK(t) == LET c == call[t] IN
    /\ c.pc = "idle" <=> c = Idle
    /\ c.op = "none" <=> c = Idle
    /\ c.pc # "idle" => c.this \in Strings
    /\ c.node # NoNode <=> c.pc \in {"workspace", "replace"}
    /\ c.pc = "replace" => /\ c.op \in {"assign", "append"}
                           /\ heap[c.node].workspace # NoText
    /\ c.pc = "compute" => c.op = "function"
    /\ c.op \in {"append", "function"} => Holds(t)
    /\ c.op \in {"assign", "append"} \/ c.pc = "compute" <=>
          c.pc # "idle" /\ rep[c.this] # NoNode
    /\ c.op = "function" => c.other \in Strings \ {c.this}
    /\ c.other # NoString => rep[c.other] # NoNode

Builds(t) == call[t].op \in {"construct", "function"}

Apart ==
    /\ \A t \in Threads, s \in Strings :
          call[t].node # NoNode => call[t].node # rep[s]
    /\ \A t, u \in Threads : t # u =>
          /\ call[t].node # NoNode => call[t].node # call[u].node
          /\ Builds(t) => call[t].this \notin {call[u].this, call[u].other}
    /\ \A t \in Threads, s \in Strings :
          call[t].pc = "compute" /\ s # call[t].this => rep[s] # rep[call[t].this]

\* What the proofs show by induction, and with Filled also by TLC.
RepInv == /\ TypeOK
          /\ CountsOwners
          /\ NeverNull
          /\ \A t \in Threads : FrameOK(t)
          /\ Apart

\* What is to take the place of a text is still what the operation has read: in
\* append() the lock keeps the texts it has copied from changing.  The result of
\* a function is empty until it is computed.
Filled == \A t \in Threads : LET c == call[t] IN
    /\ c.pc = "replace" => heap[c.node].workspace = Written(c)
    /\ c.pc = "compute" => TextOf(c.this) = << >>

IInv == RepInv /\ Filled

\* str.cpp:66-69: the shared representation implements strings with values of
\* their own: each operation takes effect at one moment, on its own string, and
\* one that throws leaves all strings as they are.
ImplementsStringValues == Values!Spec

\* Whatever an operation meets, it gives the lock back.
LockComesBack == \A t \in Threads : Holds(t) ~> ~Holds(t)
=============================================================================
