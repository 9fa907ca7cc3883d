--------------------------- MODULE StringRep_proofs ---------------------------
(***************************************************************************)
(* Theorems about StringRep: the reference counts are exact, no String is  *)
(* without a text, and strings that share behave as values of their own.   *)
(***************************************************************************)
EXTENDS StringRep, FiniteSetTheorems, SequenceTheorems, TLAPS

-----------------------------------------------------------------------------
(* Texts *)

\* A text is a sequence of characters that is not too long.
LEMMA TextIsSeq == \A x : x \in Text <=> x \in Seq(Char) /\ Len(x) <= MaxLength
<1>1. ASSUME NEW x \in Text PROVE x \in Seq(Char) /\ Len(x) <= MaxLength
  <2>1. PICK k \in 0 .. MaxLength : x \in [1 .. k -> Char]
    BY <1>1 DEF Text
  <2>2. k \in Nat
    BY StringAssumption
  <2> QED BY <2>1, <2>2
<1>2. ASSUME NEW x \in Seq(Char), Len(x) <= MaxLength PROVE x \in Text
  <2>1. Len(x) \in 0 .. MaxLength
    BY <1>2, StringAssumption
  <2>2. x \in [1 .. Len(x) -> Char]
    OBVIOUS
  <2> QED BY <2>1, <2>2 DEF Text
<1> QED BY <1>1, <1>2

\* NoText is no text.
LEMMA NoTextIsNone == NoText \notin Text
BY TextIsSeq, StringAssumption

\* The arguments of the callers are sequences of characters.
LEMMA LiteralIsSeq == \A x \in Values!Literals : x \in Seq(Char)
<1>1. << >> \in Seq(Char)
  OBVIOUS
<1>2. ASSUME NEW c \in Char PROVE <<c>> \in Seq(Char)
  OBVIOUS
<1> QED BY <1>1, <1>2 DEF Values!Literals

-----------------------------------------------------------------------------
(* Counting owners *)

LEMMA OwnersFinite == ASSUME NEW n PROVE IsFiniteSet(Owners(n))
<1>1. IsFiniteSet({s \in Strings : rep[s] = n})
  BY StringAssumption, FS_Subset
<1>2. IsFiniteSet({t \in Threads : call[t].node = n})
  BY StringAssumption, FS_Subset
<1> QED BY <1>1, <1>2, FS_Union DEF Owners

\* An owner more, an owner less, an owner for another.
LEMMA OneMore == ASSUME NEW S, IsFiniteSet(S), NEW x, x \notin S
                 PROVE  Cardinality(S \union {x}) = Cardinality(S) + 1
BY FS_AddElement

LEMMA OneLess ==
  ASSUME NEW S, IsFiniteSet(S), NEW x \in S
  PROVE  /\ Cardinality(S \ {x}) = Cardinality(S) - 1
         /\ Cardinality(S) \in Nat \ {0}
         /\ \A y \in S : y # x => Cardinality(S) > 1
<1>1. Cardinality(S) \in Nat
  BY FS_CardinalityType
<1>2. Cardinality(S \ {x}) = Cardinality(S) - 1 /\ IsFiniteSet(S \ {x})
  BY FS_RemoveElement
<1>3. Cardinality(S) # 0
  BY FS_EmptySet
<1>4. ASSUME NEW y \in S, y # x PROVE Cardinality(S) > 1
  <2>1. Cardinality(S \ {x}) # 0
    BY <1>2, <1>4, FS_EmptySet
  <2> QED BY <2>1, <1>1, <1>2, <1>3
<1> QED BY <1>1, <1>2, <1>3, <1>4

LEMMA Exchange ==
  ASSUME NEW S, IsFiniteSet(S), NEW x \in S, NEW y, y \notin S
  PROVE  Cardinality((S \ {x}) \union {y}) = Cardinality(S)
<1>1. IsFiniteSet(S \ {x}) /\ Cardinality(S \ {x}) = Cardinality(S) - 1
  BY FS_RemoveElement
<1>2. Cardinality((S \ {x}) \union {y}) = Cardinality(S \ {x}) + 1
  BY <1>1, FS_AddElement
<1> QED BY <1>1, <1>2, FS_CardinalityType

\* A free node has no owner.
LEMMA FreeHasNone ==
  ASSUME TypeOK, CountsOwners, NEW n \in Nodes
  PROVE  heap[n].count = 0 <=> Owners(n) = {}
BY OwnersFinite, FS_EmptySet DEF CountsOwners

\* What Drop does to a node that x owns: the count is that of the others, and
\* the workspace stays as long as there is one.
LEMMA DropNode ==
  ASSUME TypeOK, CountsOwners, NEW n \in Nodes, NEW x \in Owners(n)
  PROVE  /\ Drop(heap, n) \in [Nodes -> Node]
         /\ Drop(heap, n)[n].count = Cardinality(Owners(n) \ {x})
         /\ \A y \in Owners(n) : y # x => Drop(heap, n)[n].workspace = heap[n].workspace
         /\ \A m \in Nodes : m # n => Drop(heap, n)[m] = heap[m]
<1>1. heap \in [Nodes -> Node] /\ heap[n].count = Cardinality(Owners(n))
  BY DEF TypeOK, CountsOwners
<1>2. /\ Cardinality(Owners(n) \ {x}) = heap[n].count - 1
      /\ heap[n].count \in Nat \ {0}
      /\ \A y \in Owners(n) : y # x => heap[n].count > 1
  BY <1>1, OwnersFinite, OneLess
<1>3. Freed \in Node
  BY DEF Freed, Node
<1>4. CASE heap[n].count > 1
  BY <1>1, <1>2, <1>4 DEF Drop, Node
<1>5. CASE ~ (heap[n].count > 1)
  <2>1. heap[n].count = 1
    BY <1>2, <1>5
  <2>2. Drop(heap, n) = [heap EXCEPT ![n] = Freed]
    BY <1>5 DEF Drop
  <2> QED BY <1>1, <1>2, <1>3, <2>1, <2>2 DEF Freed
<1> QED BY <1>4, <1>5

LEMMA ShareNode ==
  ASSUME NEW h \in [Nodes -> Node], NEW n \in Nodes
  PROVE  /\ Share(h, n) \in [Nodes -> Node]
         /\ Share(h, n)[n].count = h[n].count + 1
         /\ Share(h, n)[n].workspace = h[n].workspace
         /\ \A m \in Nodes : m # n => Share(h, n)[m] = h[m]
BY DEF Share, Node

-----------------------------------------------------------------------------
(* Operations that allocate nothing *)

\* While the lock is free, no operation is in append() or a function.
LEMMA NobodyInside ==
  ASSUME RepInv, LockFree, NEW t \in Threads
  PROVE  call[t].op \notin {"append", "function"} /\ call[t].pc # "compute"
BY StringAssumption DEF RepInv, FrameOK, LockFree, Holds

\* What keeps the frame of a thread that does not move.
LEMMA FrameKept ==
  ASSUME TypeOK, NEW u \in Threads, FrameOK(u),
         call'[u] = call[u],
         call[u].op \in {"append", "function"} => string_lock' = string_lock,
         call[u].this \in Strings =>
            (rep'[call[u].this] = NoNode <=> rep[call[u].this] = NoNode),
         call[u].other \in Strings =>
            (rep'[call[u].other] = NoNode <=> rep[call[u].other] = NoNode),
         call[u].node \in Nodes =>
            heap'[call[u].node].workspace = heap[call[u].node].workspace
  PROVE  FrameOK(u)'
<1> DEFINE c == call[u]
<1>1. c \in Operation
  BY DEF TypeOK
<1>2. /\ c.pc = "idle" <=> c = Idle
      /\ c.op = "none" <=> c = Idle
      /\ c.pc # "idle" => c.this \in Strings
      /\ c.node # NoNode <=> c.pc \in {"workspace", "replace"}
      /\ c.pc = "compute" => c.op = "function"
      /\ c.op = "function" => c.other \in Strings \ {c.this}
  BY DEF FrameOK
<1>3. c.pc = "replace" => /\ c.op \in {"assign", "append"}
                          /\ heap'[c.node].workspace # NoText
  BY <1>1, <1>2 DEF FrameOK, Operation
<1>4. c.op \in {"append", "function"} => string_lock' = u
  BY DEF FrameOK, Holds
<1>5. c.op \in {"assign", "append"} \/ c.pc = "compute" <=>
         c.pc # "idle" /\ rep'[c.this] # NoNode
  BY <1>2 DEF FrameOK
<1>6. c.other # NoString => rep'[c.other] # NoNode
  BY <1>1 DEF FrameOK, Operation
<1> HIDE DEF c
<1>7. call'[u] = c
  BY DEF c
<1> QED BY <1>2, <1>3, <1>4, <1>5, <1>6, <1>7 DEF FrameOK, Holds

LEMMA CopyConstructStep ==
  ASSUME RepInv, NEW t \in Threads, NEW s \in Strings, NEW o \in Strings,
         copy_construct(t, s, o)
  PROVE  RepInv'
<1> DEFINE n == rep[o]
<1>1. /\ TypeOK /\ CountsOwners /\ NeverNull /\ Apart
      /\ \A u \in Threads : FrameOK(u)
  BY DEF RepInv
<1>2. /\ n \in Nodes
      /\ rep[s] = NoNode /\ Unused(s)
      /\ rep' = [rep EXCEPT ![s] = n] /\ heap' = Share(heap, n)
      /\ UNCHANGED <<string_lock, call>>
      /\ LockFree
  BY <1>1 DEF copy_construct, Place, Alive, TypeOK
<1>3. /\ heap' \in [Nodes -> Node]
      /\ heap'[n].count = heap[n].count + 1
      /\ \A m \in Nodes : heap'[m].workspace = heap[m].workspace
      /\ \A m \in Nodes : m # n => heap'[m] = heap[m]
  <2>1. heap \in [Nodes -> Node]
    BY <1>1 DEF TypeOK
  <2> HIDE DEF n
  <2>2. /\ Share(heap, n) \in [Nodes -> Node]
        /\ Share(heap, n)[n].count = heap[n].count + 1
        /\ Share(heap, n)[n].workspace = heap[n].workspace
        /\ \A m \in Nodes : m # n => Share(heap, n)[m] = heap[m]
    BY <2>1, <1>2, ShareNode
  <2> QED BY <2>2, <1>2
<1>4. TypeOK'
  BY <1>1, <1>2, <1>3 DEF TypeOK
<1>5. CountsOwners'
  <2> SUFFICES ASSUME NEW m \in Nodes PROVE heap'[m].count = Cardinality(Owners(m)')
    BY DEF CountsOwners
  <2>1. CASE m = n
    <3>1. Owners(m)' = Owners(m) \union {s} /\ s \notin Owners(m)
      BY <1>1, <1>2, <2>1, StringAssumption DEF Owners, TypeOK
    <3> QED BY <3>1, <2>1, <1>1, <1>3, OwnersFinite, OneMore DEF CountsOwners
  <2>2. CASE m # n
    <3>1. Owners(m)' = Owners(m)
      BY <1>1, <1>2, <2>2, StringAssumption DEF Owners, TypeOK
    <3> QED BY <3>1, <2>2, <1>1, <1>3 DEF CountsOwners
  <2> QED BY <2>1, <2>2
<1>6. NeverNull'
  BY <1>1, <1>2, <1>3 DEF NeverNull, TextOf, TypeOK
<1>7. ASSUME NEW u \in Threads PROVE FrameOK(u)'
  <2>1. call[u].op \notin {"append", "function"} /\ call[u].pc # "compute"
    BY <1>2, NobodyInside
  <2>2. s \notin {call[u].this, call[u].other}
    BY <1>2 DEF Unused
  <2> QED BY <1>1, <1>2, <1>3, <2>1, <2>2, FrameKept DEF TypeOK
<1>8. Apart'
  BY <1>1, <1>2, NobodyInside, StringAssumption DEF Apart, TypeOK, Builds
<1> QED BY <1>4, <1>5, <1>6, <1>7, <1>8 DEF RepInv
\* A thread that is in no operation.
LEMMA FrameIdle ==
  ASSUME NEW u \in Threads, call'[u] = Idle
  PROVE  FrameOK(u)'
BY DEF FrameOK, Idle

\* A String that lets go of its node.
LEMMA LetGo ==
  ASSUME TypeOK, CountsOwners, NeverNull,
         NEW s \in Strings, rep[s] # NoNode,
         rep' = [rep EXCEPT ![s] = NoNode],
         heap' = Drop(heap, rep[s]),
         \A u \in Threads : call'[u].node = call[u].node
  PROVE  /\ heap' \in [Nodes -> Node]
         /\ CountsOwners' /\ NeverNull'
         /\ \A m \in Nodes : \A y \in Owners(m) :
               y # s => heap'[m].workspace = heap[m].workspace
<1> DEFINE n == rep[s]
<1>1. n \in Nodes /\ s \in Owners(n)
  BY DEF TypeOK, Owners
<1>2. /\ heap' \in [Nodes -> Node]
      /\ heap'[n].count = Cardinality(Owners(n) \ {s})
      /\ \A y \in Owners(n) : y # s => heap'[n].workspace = heap[n].workspace
      /\ \A m \in Nodes : m # n => heap'[m] = heap[m]
  <2> HIDE DEF n
  <2>1. /\ Drop(heap, n) \in [Nodes -> Node]
        /\ Drop(heap, n)[n].count = Cardinality(Owners(n) \ {s})
        /\ \A y \in Owners(n) : y # s => Drop(heap, n)[n].workspace = heap[n].workspace
        /\ \A m \in Nodes : m # n => Drop(heap, n)[m] = heap[m]
    BY <1>1, DropNode
  <2> QED BY <2>1 DEF n
<1>3. \A m \in Nodes : Owners(m)' = IF m = n THEN Owners(m) \ {s} ELSE Owners(m)
  BY <1>1, StringAssumption DEF Owners, TypeOK
<1>4. CountsOwners'
  BY <1>2, <1>3 DEF CountsOwners
<1>5. \A m \in Nodes : \A y \in Owners(m) :
         y # s => heap'[m].workspace = heap[m].workspace
  BY <1>2
<1>6. NeverNull'
  <2> SUFFICES ASSUME NEW x \in Strings, rep'[x] # NoNode
               PROVE  heap'[rep'[x]].workspace # NoText
    BY DEF NeverNull, TextOf
  <2>1. x # s /\ rep'[x] = rep[x] /\ rep[x] \in Nodes /\ x \in Owners(rep[x])
    BY DEF TypeOK, Owners
  <2>2. heap'[rep[x]].workspace = heap[rep[x]].workspace
    BY <2>1, <1>5
  <2> QED BY <2>1, <2>2 DEF NeverNull, TextOf
<1> QED BY <1>2, <1>4, <1>5, <1>6

\* A String that lets go of its node and takes the node of another.
LEMMA TakeOver ==
  ASSUME TypeOK, CountsOwners, NeverNull,
         NEW s \in Strings, NEW o \in Strings, s # o,
         rep[s] # NoNode, rep[o] # NoNode,
         rep' = [rep EXCEPT ![s] = rep[o]],
         heap' = Share(Drop(heap, rep[s]), rep[o]),
         \A u \in Threads : call'[u].node = call[u].node
  PROVE  /\ heap' \in [Nodes -> Node]
         /\ CountsOwners' /\ NeverNull'
         /\ \A m \in Nodes : \A y \in Owners(m) :
               y # s => heap'[m].workspace = heap[m].workspace
<1> DEFINE a == rep[s]
           b == rep[o]
           D == Drop(heap, a)
<1>1. a \in Nodes /\ b \in Nodes /\ s \in Owners(a) /\ o \in Owners(b)
  BY DEF TypeOK, Owners
<1>2. /\ D \in [Nodes -> Node]
      /\ D[a].count = Cardinality(Owners(a) \ {s})
      /\ \A y \in Owners(a) : y # s => D[a].workspace = heap[a].workspace
      /\ \A m \in Nodes : m # a => D[m] = heap[m]
  <2> HIDE DEF a
  <2> QED BY <1>1, DropNode
<1>3. /\ heap' \in [Nodes -> Node]
      /\ heap'[b].count = D[b].count + 1
      /\ heap'[b].workspace = D[b].workspace
      /\ \A m \in Nodes : m # b => heap'[m] = D[m]
  <2>1. heap' = Share(D, b)
    OBVIOUS
  <2> HIDE DEF D, b
  <2>2. /\ Share(D, b) \in [Nodes -> Node]
        /\ Share(D, b)[b].count = D[b].count + 1
        /\ Share(D, b)[b].workspace = D[b].workspace
        /\ \A m \in Nodes : m # b => Share(D, b)[m] = D[m]
    BY <1>1, <1>2, ShareNode
  <2> QED BY <2>1, <2>2
<1>4. \A m \in Nodes :
         Owners(m)' = IF a = b THEN Owners(m)
                      ELSE IF m = a THEN Owners(m) \ {s}
                      ELSE IF m = b THEN Owners(m) \union {s}
                      ELSE Owners(m)
  BY <1>1, StringAssumption DEF Owners, TypeOK
<1>5. b # a => s \notin Owners(b)
  BY StringAssumption DEF Owners
<1> HIDE DEF a, b, D
<1>6. CountsOwners'
  <2> SUFFICES ASSUME NEW m \in Nodes PROVE heap'[m].count = Cardinality(Owners(m)')
    BY DEF CountsOwners
  <2>1. heap[m].count = Cardinality(Owners(m)) /\ IsFiniteSet(Owners(m))
    BY OwnersFinite DEF CountsOwners
  <2>2. CASE m = a /\ a = b
    <3>1. Cardinality(Owners(a) \ {s}) + 1 = Cardinality(Owners(a))
      BY <1>1, <2>1, <2>2, OneLess
    <3> QED BY <3>1, <1>2, <1>3, <1>4, <2>1, <2>2
  <2>3. CASE m = a /\ a # b
    BY <2>3, <1>2, <1>3, <1>4
  <2>4. CASE m = b /\ a # b
    <3>1. Cardinality(Owners(m) \union {s}) = Cardinality(Owners(m)) + 1
      BY <2>1, <2>4, <1>5, OneMore
    <3> QED BY <3>1, <2>1, <2>4, <1>2, <1>3, <1>4
  <2>5. CASE m # a /\ m # b
    BY <2>5, <2>1, <1>2, <1>3, <1>4
  <2> QED BY <2>2, <2>3, <2>4, <2>5
<1>7. \A m \in Nodes : \A y \in Owners(m) :
         y # s => heap'[m].workspace = heap[m].workspace
  BY <1>1, <1>2, <1>3
<1>8. NeverNull'
  <2> SUFFICES ASSUME NEW x \in Strings, rep'[x] # NoNode
               PROVE  heap'[rep'[x]].workspace # NoText
    BY DEF NeverNull, TextOf
  <2>1. PICK y \in Strings : y # s /\ rep'[x] = rep[y] /\ rep[y] # NoNode
    <3>1. CASE x = s
      BY <3>1 DEF TypeOK
    <3>2. CASE x # s
      BY <3>2 DEF TypeOK
    <3> QED BY <3>1, <3>2
  <2>2. rep[y] \in Nodes /\ y \in Owners(rep[y])
    BY <2>1 DEF TypeOK, Owners
  <2>3. heap'[rep[y]].workspace = heap[rep[y]].workspace
    BY <2>1, <2>2, <1>7
  <2> QED BY <2>1, <2>2, <2>3 DEF NeverNull, TextOf
<1> QED BY <1>3, <1>6, <1>7, <1>8

\* The node of a thread is no String's.
LEMMA NodeApart ==
  ASSUME RepInv, NEW u \in Threads, call[u].node \in Nodes
  PROVE  u \in Owners(call[u].node) /\ u \notin Strings
BY StringAssumption DEF Owners

LEMMA DestroyStep ==
  ASSUME RepInv, NEW t \in Threads, NEW s \in Strings, destroy(t, s)
  PROVE  RepInv'
<1>1. /\ TypeOK /\ CountsOwners /\ NeverNull /\ Apart
      /\ \A u \in Threads : FrameOK(u)
  BY DEF RepInv
<1>2. /\ rep[s] # NoNode /\ Unused(s) /\ LockFree
      /\ rep' = [rep EXCEPT ![s] = NoNode] /\ heap' = Drop(heap, rep[s])
      /\ UNCHANGED <<string_lock, call>>
  BY DEF destroy, Alive
<1>3. /\ heap' \in [Nodes -> Node]
      /\ CountsOwners' /\ NeverNull'
      /\ \A m \in Nodes : \A y \in Owners(m) :
            y # s => heap'[m].workspace = heap[m].workspace
  BY <1>1, <1>2, LetGo
<1>4. TypeOK'
  BY <1>1, <1>2, <1>3 DEF TypeOK
<1>5. ASSUME NEW u \in Threads PROVE FrameOK(u)'
  <2>1. s \notin {call[u].this, call[u].other}
    BY <1>2 DEF Unused
  <2>2. call[u].node \in Nodes => heap'[call[u].node].workspace = heap[call[u].node].workspace
    BY <1>3, NodeApart
  <2> QED BY <1>1, <1>2, <2>1, <2>2, FrameKept DEF TypeOK
<1>6. Apart'
  BY <1>1, <1>2, NobodyInside, StringAssumption DEF Apart, TypeOK, Builds
<1> QED BY <1>3, <1>4, <1>5, <1>6 DEF RepInv

LEMMA AssignStep ==
  ASSUME RepInv, NEW t \in Threads, NEW s \in Strings, NEW o \in Strings, assign(t, s, o)
  PROVE  RepInv'
<1>1. /\ TypeOK /\ CountsOwners /\ NeverNull /\ Apart
      /\ \A u \in Threads : FrameOK(u)
  BY DEF RepInv
<1>2. /\ rep[s] # NoNode /\ rep[o] # NoNode /\ s # o /\ LockFree
      /\ rep' = [rep EXCEPT ![s] = rep[o]]
      /\ heap' = Share(Drop(heap, rep[s]), rep[o])
      /\ UNCHANGED <<string_lock, call>>
  BY DEF assign, Alive
<1>3. /\ heap' \in [Nodes -> Node]
      /\ CountsOwners' /\ NeverNull'
      /\ \A m \in Nodes : \A y \in Owners(m) :
            y # s => heap'[m].workspace = heap[m].workspace
  BY <1>1, <1>2, TakeOver
<1>4. TypeOK'
  BY <1>1, <1>2, <1>3 DEF TypeOK
<1>5. ASSUME NEW u \in Threads PROVE FrameOK(u)'
  <2>1. call[u].node \in Nodes => heap'[call[u].node].workspace = heap[call[u].node].workspace
    BY <1>3, NodeApart
  <2>2. \A x \in Strings : rep'[x] = NoNode <=> rep[x] = NoNode
    BY <1>1, <1>2 DEF TypeOK
  <2> QED BY <1>1, <1>2, <2>1, <2>2, FrameKept
<1>6. Apart'
  BY <1>1, <1>2, NobodyInside, StringAssumption DEF Apart, TypeOK, Builds
<1> QED BY <1>3, <1>4, <1>5, <1>6 DEF RepInv
-----------------------------------------------------------------------------
(* Operations that allocate *)

\* A place on which an operation builds is not alive, and a String that is
\* alive is no such place.
LEMMA BuildsElsewhere ==
  ASSUME RepInv, NEW u \in Threads, Builds(u), NEW s \in Strings, Alive(s)
  PROVE  call[u].this # s
<1>1. FrameOK(u)
  BY DEF RepInv
<1>2. CASE call[u].pc = "compute"
  BY <1>2 DEF Alive, Returned
<1>3. CASE call[u].pc # "compute"
  BY <1>1, <1>3 DEF FrameOK, Builds, Alive
<1> QED BY <1>2, <1>3

\* The beginning of an operation.
LEMMA CallStep ==
  ASSUME RepInv, NEW t \in Threads,
         NEW op \in {"construct", "assign", "append", "function"},
         NEW s \in Strings, NEW o \in Strings \union {NoString}, NEW text \in Values!Literals,
         Call(t, op, s, o, text),
         op \in {"construct", "function"} => Place(s),
         op \in {"assign", "append"} => Alive(s),
         op = "function" => o # NoString,
         o # NoString => Alive(o),
         \/ op \in {"construct", "assign"} /\ UNCHANGED string_lock
         \/ Lock(t)
  PROVE  RepInv'
<1> DEFINE c == [pc |-> "node", op |-> op, this |-> s, other |-> o,
                 text |-> text, node |-> NoNode]
<1>1. /\ TypeOK /\ CountsOwners /\ NeverNull /\ Apart
      /\ \A u \in Threads : FrameOK(u)
  BY DEF RepInv
<1>2. /\ call[t] = Idle /\ call' = [call EXCEPT ![t] = c]
      /\ rep' = rep /\ heap' = heap
      /\ string_lock' \in {string_lock, t}
      /\ string_lock' # string_lock => LockFree
  BY DEF Call, Lock
<1>3. c \in Operation
  BY DEF Operation
<1>4. /\ call' \in [Threads -> Operation] /\ call'[t] = c
      /\ \A u \in Threads : u # t => call'[u] = call[u]
  BY <1>1, <1>2, <1>3 DEF TypeOK
<1>5. TypeOK'
  BY <1>1, <1>2, <1>4 DEF TypeOK
<1>6. \A u \in Threads : call'[u].node = call[u].node
  BY <1>2, <1>4 DEF Idle
<1>7. CountsOwners'
  <2>1. \A m \in Nodes : Owners(m)' = Owners(m)
    BY <1>2, <1>6 DEF Owners
  <2> QED BY <2>1, <1>1, <1>2 DEF CountsOwners
<1>8. NeverNull'
  BY <1>1, <1>2 DEF NeverNull, TextOf
<1>9. ASSUME NEW u \in Threads PROVE FrameOK(u)'
  <2>1. CASE u = t
    <3>1. op \in {"append", "function"} => string_lock' = t
      BY DEF Lock
    <3>2. op \in {"construct", "function"} => rep[s] = NoNode /\ Unused(s)
      BY DEF Place
    <3>3. op \in {"assign", "append"} => rep[s] # NoNode
      BY DEF Alive
    <3>4. o # NoString => rep[o] # NoNode
      BY DEF Alive
    <3>5. op = "function" => o \in Strings \ {s}
      BY <3>2, <3>4
    <3> QED BY <2>1, <1>2, <1>4, <3>1, <3>2, <3>3, <3>4, <3>5 DEF FrameOK, Idle, Holds
  <2>2. CASE u # t
    <3>1. call[u].op \in {"append", "function"} => string_lock' = string_lock
      BY <1>2, NobodyInside
    <3> QED BY <3>1, <2>2, <1>1, <1>2, <1>4, FrameKept
  <2> QED BY <2>1, <2>2
<1>10. Apart'
  <2>1. ASSUME NEW u \in Threads, NEW v \in Threads, u # v, Builds(u)'
        PROVE  call'[u].this \notin {call'[v].this, call'[v].other}
    <3>1. CASE u = t
      <4>1. op \in {"construct", "function"} /\ call'[u].this = s /\ call'[v] = call[v]
        BY <3>1, <2>1, <1>4 DEF Builds
      <4>2. Unused(s)
        BY <4>1 DEF Place
      <4> QED BY <4>1, <4>2 DEF Unused
    <3>2. CASE u # t
      <4>1. Builds(u) /\ call'[u] = call[u]
        BY <3>2, <2>1, <1>4 DEF Builds
      <4>2. CASE v = t
        <5>1. call[u].this # s
          BY <4>1, BuildsElsewhere DEF Place, Unused
        <5>2. o # NoString => call[u].this # o
          BY <4>1, BuildsElsewhere
        <5>3. call[u].this \in Strings
          BY <4>1, <1>1 DEF FrameOK, Builds, Idle
        <5> QED BY <5>1, <5>2, <5>3, <4>1, <4>2, <1>4, StringAssumption
      <4>3. CASE v # t
        BY <4>1, <4>3, <2>1, <1>1, <1>4 DEF Apart
      <4> QED BY <4>2, <4>3
    <3> QED BY <3>1, <3>2
  <2>2. \A u \in Threads, x \in Strings : call'[u].node # NoNode => call'[u].node # rep'[x]
    BY <1>1, <1>2, <1>6 DEF Apart
  <2>3. \A u, v \in Threads : u # v => (call'[u].node # NoNode => call'[u].node # call'[v].node)
    BY <1>1, <1>6 DEF Apart
  <2>4. ASSUME NEW u \in Threads, NEW x \in Strings, call'[u].pc = "compute", x # call'[u].this
        PROVE  rep'[x] # rep'[call'[u].this]
    <3>1. u # t /\ call'[u] = call[u]
      BY <2>4, <1>4
    <3> QED BY <3>1, <2>4, <1>1, <1>2 DEF Apart
  <2> QED BY <2>1, <2>2, <2>3, <2>4 DEF Apart
<1> QED BY <1>5, <1>7, <1>8, <1>9, <1>10 DEF RepInv

LEMMA NewNodeStep ==
  ASSUME RepInv, NEW t \in Threads, NewNode(t)
  PROVE  RepInv'
<1> DEFINE n == SomeFree
<1>1. /\ TypeOK /\ CountsOwners /\ NeverNull /\ Apart
      /\ \A u \in Threads : FrameOK(u)
  BY DEF RepInv
<1>2. /\ call[t].pc = "node" /\ n \in Nodes /\ heap[n].count = 0
      /\ heap' = [heap EXCEPT ![n] = [count |-> 1, workspace |-> NoText]]
      /\ call' = [call EXCEPT ![t] = [call[t] EXCEPT !.pc = "workspace", !.node = n]]
      /\ UNCHANGED <<rep, string_lock>>
  BY DEF NewNode, SomeFree
<1>3. Owners(n) = {}
  BY <1>1, <1>2, FreeHasNone
<1> HIDE DEF n
<1>4. /\ call' \in [Threads -> Operation]
      /\ call'[t] = [call[t] EXCEPT !.pc = "workspace", !.node = n]
      /\ \A u \in Threads : u # t => call'[u] = call[u]
  <2>1. call \in [Threads -> Operation] /\ call[t] \in Operation
    BY <1>1 DEF TypeOK
  <2>2. [call[t] EXCEPT !.pc = "workspace", !.node = n] \in Operation
    BY <2>1, <1>2 DEF Operation
  <2> QED BY <2>1, <2>2, <1>2
<1>5. TypeOK'
  BY <1>1, <1>2, <1>4 DEF TypeOK, Node
<1>6. call[t].node = NoNode /\ call[t].op # "none" /\ call[t].this \in Strings
  BY <1>1, <1>2 DEF FrameOK, Idle
<1>7. CountsOwners'
  <2>1. \A m \in Nodes : Owners(m)' = IF m = n THEN Owners(m) \union {t} ELSE Owners(m)
    BY <1>1, <1>2, <1>4, <1>6, StringAssumption DEF Owners, TypeOK, Operation
  <2>2. Cardinality(Owners(n) \union {t}) = 1
    BY <1>3, FS_Singleton
  <2> QED BY <2>1, <2>2, <1>1, <1>2 DEF CountsOwners, TypeOK, Node
<1>8. \A x \in Strings : rep[x] # n
  BY <1>3 DEF Owners
<1>9. \A u \in Threads : call[u].node # n
  BY <1>3 DEF Owners
<1>10. NeverNull'
  BY <1>1, <1>2, <1>8 DEF NeverNull, TextOf, TypeOK
<1>11. ASSUME NEW u \in Threads PROVE FrameOK(u)'
  <2>1. CASE u = t
    <3> DEFINE c == call[t]
               d == call'[t]
    <3>1. /\ d.pc = "workspace" /\ d.node = n /\ n # NoNode
          /\ d.op = c.op /\ d.this = c.this /\ d.other = c.other
          /\ d # Idle /\ c # Idle
      <4>1. c \in Operation
        BY <1>1 DEF TypeOK
      <4>2. d = [c EXCEPT !.pc = "workspace", !.node = n] /\ c.pc = "node" /\ n # NoNode
        BY <1>2, <1>4, StringAssumption
      <4>3. Idle.pc = "idle"
        BY DEF Idle
      <4> HIDE DEF c, d
      <4>4. /\ d.pc = "workspace" /\ d.node = n
            /\ d.op = c.op /\ d.this = c.this /\ d.other = c.other
        BY <4>1, <4>2 DEF Operation
      <4> QED BY <4>2, <4>3, <4>4
    <3>2. /\ c.op # "none" /\ c.this \in Strings
          /\ c.op \in {"append", "function"} => string_lock' = t
          /\ c.op \in {"assign", "append"} <=> rep'[c.this] # NoNode
          /\ c.op = "function" => c.other \in Strings \ {c.this}
          /\ c.other # NoString => rep'[c.other] # NoNode
      BY <1>1, <1>2, <1>6 DEF FrameOK, Holds
    <3> HIDE DEF c, d
    <3>3. d = call'[t]
      BY DEF d
    <3> QED BY <2>1, <3>1, <3>2, <3>3 DEF FrameOK, Holds
  <2>2. CASE u # t
    <3>1. call[u].node \in Nodes => heap'[call[u].node].workspace = heap[call[u].node].workspace
      BY <1>1, <1>2, <1>9 DEF TypeOK
    <3> QED BY <3>1, <2>2, <1>1, <1>2, <1>4, FrameKept
  <2> QED BY <2>1, <2>2
<1>12. Apart'
  BY <1>1, <1>2, <1>4, <1>8, <1>9 DEF Apart, Builds, TypeOK, Operation
<1> QED BY <1>5, <1>7, <1>10, <1>11, <1>12 DEF RepInv
\* What goes into a workspace is a text.
LEMMA WrittenIsText ==
  ASSUME RepInv, NEW t \in Threads, NewWorkspace(t)
  PROVE  Written(call[t]) \in Text
<1> DEFINE c == call[t]
<1>1. /\ TypeOK /\ NeverNull /\ FrameOK(t)
  BY DEF RepInv
<1>2. c \in Operation /\ c.pc = "workspace" /\ Len(Written(c)) <= MaxLength
  BY <1>1 DEF TypeOK, NewWorkspace
<1>3. c.text \in Seq(Char)
  BY <1>2, LiteralIsSeq DEF Operation
<1>4. \A x \in Strings : rep[x] # NoNode => TextOf(x) \in Seq(Char)
  BY <1>1, TextIsSeq DEF NeverNull, TextOf, TypeOK, Node
<1>5. /\ c.op = "append" => c.this \in Strings /\ rep[c.this] # NoNode
      /\ c.other # NoString => c.other \in Strings /\ rep[c.other] # NoNode
  BY <1>1, <1>2 DEF FrameOK, Operation
<1>6. << >> \in Seq(Char)
  OBVIOUS
<1> HIDE DEF c
<1>7. Written(c) \in Seq(Char)
  <2>1. CASE c.op = "append" /\ c.other = NoString
    <3>1. Written(c) = TextOf(c.this) \o c.text
      BY <2>1 DEF Written
    <3> QED BY <3>1, <2>1, <1>3, <1>4, <1>5, ConcatProperties
  <2>2. CASE c.op = "append" /\ c.other # NoString
    <3>1. Written(c) = TextOf(c.this) \o TextOf(c.other)
      BY <2>2 DEF Written
    <3> QED BY <3>1, <2>2, <1>4, <1>5, ConcatProperties
  <2>3. CASE c.op = "function"
    BY <2>3, <1>6 DEF Written
  <2>4. CASE c.op \notin {"append", "function"}
    BY <2>4, <1>3 DEF Written
  <2> QED BY <2>1, <2>2, <2>3, <2>4
<1> QED BY <1>2, <1>7, TextIsSeq DEF c

\* The node that t has allocated and filled becomes the node of the new String.
LEMMA InstallStep ==
  ASSUME RepInv, NEW t \in Threads,
         call[t].op \in {"construct", "function"}, NewWorkspace(t),
         rep' = [rep EXCEPT ![call[t].this] = call[t].node],
         NEW d \in Operation, call' = [call EXCEPT ![t] = d],
         d.node = NoNode
  PROVE  /\ TypeOK' /\ CountsOwners' /\ NeverNull'
         /\ \A u \in Threads : u # t => FrameOK(u)' /\ call'[u] = call[u]
         /\ call'[t] = d
         /\ call[t].this \in Strings /\ rep[call[t].this] = NoNode
         /\ call[t].node \in Nodes /\ t \in Owners(call[t].node)
         /\ rep'[call[t].this] = call[t].node
         /\ \A x \in Strings : x # call[t].this => rep'[x] = rep[x]
<1> DEFINE s == call[t].this
           n == call[t].node
           w == Written(call[t])
<1>1. /\ TypeOK /\ CountsOwners /\ NeverNull /\ Apart
      /\ \A u \in Threads : FrameOK(u)
  BY DEF RepInv
<1>2. call \in [Threads -> Operation] /\ call[t] \in Operation /\ call[t].pc = "workspace"
  BY <1>1 DEF TypeOK, NewWorkspace
<1>3. /\ s \in Strings /\ rep[s] = NoNode /\ n \in Nodes
  BY <1>1, <1>2 DEF FrameOK, Operation
<1>4. /\ heap' = [heap EXCEPT ![n].workspace = w] /\ w \in Text
      /\ UNCHANGED string_lock
  BY WrittenIsText DEF NewWorkspace
<1> HIDE DEF w
<1>5. t \in Owners(n) /\ t \notin Strings /\ s \notin Owners(n)
  BY <1>3, StringAssumption DEF Owners
<1>6. /\ call' \in [Threads -> Operation] /\ call'[t] = d
      /\ \A u \in Threads : u # t => call'[u] = call[u]
  BY <1>2
<1>7. /\ rep' \in [Strings -> Nodes \union {NoNode}] /\ rep'[s] = n
      /\ \A x \in Strings : x # s => rep'[x] = rep[x]
  BY <1>1, <1>3 DEF TypeOK
<1>8. /\ heap' \in [Nodes -> Node] /\ heap'[n].workspace = w
      /\ \A m \in Nodes : heap'[m].count = heap[m].count
      /\ \A m \in Nodes : m # n => heap'[m] = heap[m]
  BY <1>1, <1>3, <1>4 DEF TypeOK, Node
<1>9. TypeOK'
  BY <1>1, <1>4, <1>6, <1>7, <1>8 DEF TypeOK
<1>10. \A x \in Strings : rep[x] # n
  BY <1>1, <1>3, StringAssumption DEF Apart
<1>11. \A u \in Threads : u # t => call[u].node # n
  BY <1>1, <1>3, StringAssumption DEF Apart
<1> HIDE DEF s, n
<1>12. \A m \in Nodes : Owners(m)' = IF m = n THEN (Owners(m) \ {t}) \union {s} ELSE Owners(m)
  <2> SUFFICES ASSUME NEW m \in Nodes
               PROVE  Owners(m)' = IF m = n THEN (Owners(m) \ {t}) \union {s} ELSE Owners(m)
    OBVIOUS
  <2>1. {u \in Threads : call'[u].node = m} =
           IF m = n THEN {u \in Threads : call[u].node = m} \ {t}
                    ELSE {u \in Threads : call[u].node = m}
    BY <1>6, StringAssumption DEF n
  <2>2. {x \in Strings : rep'[x] = m} =
           IF m = n THEN {x \in Strings : rep[x] = m} \union {s}
                    ELSE {x \in Strings : rep[x] = m}
    BY <1>3, <1>7, StringAssumption
  <2> QED BY <2>1, <2>2, <1>3, <1>5 DEF Owners
<1>13. CountsOwners'
  <2> SUFFICES ASSUME NEW m \in Nodes PROVE heap'[m].count = Cardinality(Owners(m)')
    BY DEF CountsOwners
  <2>1. heap[m].count = Cardinality(Owners(m)) /\ IsFiniteSet(Owners(m))
    BY <1>1, OwnersFinite DEF CountsOwners
  <2>2. CASE m = n
    <3>1. Cardinality((Owners(m) \ {t}) \union {s}) = Cardinality(Owners(m))
      BY <2>1, <2>2, <1>5, Exchange
    <3> QED BY <3>1, <2>1, <2>2, <1>8, <1>12
  <2>3. CASE m # n
    BY <2>3, <2>1, <1>8, <1>12
  <2> QED BY <2>2, <2>3
<1>14. NeverNull'
  <2> SUFFICES ASSUME NEW x \in Strings, rep'[x] # NoNode
               PROVE  heap'[rep'[x]].workspace # NoText
    BY DEF NeverNull, TextOf
  <2>1. CASE x = s
    BY <2>1, <1>4, <1>7, <1>8, NoTextIsNone
  <2>2. CASE x # s
    <3>1. rep'[x] = rep[x] /\ rep[x] \in Nodes /\ rep[x] # n
      BY <2>2, <1>1, <1>7, <1>10 DEF TypeOK
    <3> QED BY <3>1, <1>1, <1>8 DEF NeverNull, TextOf
  <2> QED BY <2>1, <2>2
<1>15. ASSUME NEW u \in Threads, u # t PROVE FrameOK(u)'
  <2>1. s \notin {call[u].this, call[u].other}
    BY <1>1, <1>15 DEF Apart, Builds, s
  <2>2. call[u].node \in Nodes => heap'[call[u].node].workspace = heap[call[u].node].workspace
    BY <1>8, <1>11, <1>15
  <2> QED BY <2>1, <2>2, <1>1, <1>4, <1>6, <1>7, <1>15, FrameKept
<1> QED BY <1>3, <1>5, <1>6, <1>7, <1>9, <1>13, <1>14, <1>15 DEF s, n
LEMMA ConstructStringStep ==
  ASSUME RepInv, NEW t \in Threads, ConstructString(t)
  PROVE  RepInv'
<1> DEFINE s == call[t].this
           n == call[t].node
<1>1. /\ TypeOK /\ Apart
      /\ \A u \in Threads : FrameOK(u)
  BY DEF RepInv
<1>2. /\ call[t].pc = "workspace" /\ call[t].op = "construct"
      /\ NewWorkspace(t)
      /\ rep' = [rep EXCEPT ![s] = n]
      /\ call' = [call EXCEPT ![t] = Idle]
  BY DEF ConstructString, At, Return
<1>3. Idle \in Operation /\ Idle.node = NoNode
  BY DEF Idle, Operation, Values!Literals
<1>4. /\ TypeOK' /\ CountsOwners' /\ NeverNull'
      /\ \A u \in Threads : u # t => FrameOK(u)' /\ call'[u] = call[u]
      /\ call'[t] = Idle
      /\ s \in Strings /\ rep[s] = NoNode
      /\ n \in Nodes /\ t \in Owners(n)
      /\ rep'[s] = n
      /\ \A x \in Strings : x # s => rep'[x] = rep[x]
  BY <1>2, <1>3, InstallStep
<1>5. FrameOK(t)'
  BY <1>4, FrameIdle
<1>6. Apart'
  <2>1. ~ Builds(t)' /\ call'[t].pc # "compute" /\ call'[t].node = NoNode
    BY <1>4 DEF Builds, Idle
  <2>2. \A u \in Threads : u # t /\ call'[u].node # NoNode => call'[u].node # n
    BY <1>1, <1>4, StringAssumption DEF Apart
  <2>3. \A u \in Threads, x \in Strings :
           call'[u].node # NoNode => call'[u].node # rep'[x]
    BY <2>1, <2>2, <1>1, <1>4 DEF Apart
  <2>4. \A u, v \in Threads : u # v =>
           /\ call'[u].node # NoNode => call'[u].node # call'[v].node
           /\ Builds(u)' => call'[u].this \notin {call'[v].this, call'[v].other}
    <3> SUFFICES ASSUME NEW u \in Threads, NEW v \in Threads, u # v
                 PROVE  /\ call'[u].node # NoNode => call'[u].node # call'[v].node
                        /\ Builds(u)' => call'[u].this \notin {call'[v].this, call'[v].other}
      OBVIOUS
    <3>1. CASE u = t
      BY <3>1, <2>1
    <3>2. CASE v = t
      <4>1. Builds(u)' => call'[u].this \in Strings
        BY <3>2, <1>1, <1>4 DEF FrameOK, Builds, Idle
      <4> QED BY <4>1, <3>2, <1>4, <2>1, StringAssumption DEF Idle
    <3>3. CASE u # t /\ v # t
      BY <3>3, <1>1, <1>4 DEF Apart, Builds
    <3> QED BY <3>1, <3>2, <3>3
  <2>5. ASSUME NEW u \in Threads, NEW x \in Strings, call'[u].pc = "compute", x # call'[u].this
        PROVE  rep'[x] # rep'[call'[u].this]
    <3>1. u # t /\ call'[u] = call[u] /\ call[u].this # s
      BY <2>1, <2>5, <1>1, <1>2, <1>4 DEF Apart, Builds
    <3>2. call[u].this \in Strings /\ rep[call[u].this] # NoNode
      BY <3>1, <2>5, <1>1 DEF FrameOK
    <3>3. rep'[call[u].this] = rep[call[u].this] /\ rep[call[u].this] # n
      BY <3>1, <3>2, <1>1, <1>4, StringAssumption DEF Apart
    <3> QED BY <3>1, <3>3, <2>5, <1>1, <1>4 DEF Apart
  <2> QED BY <2>3, <2>4, <2>5 DEF Apart
<1> QED BY <1>4, <1>5, <1>6 DEF RepInv

LEMMA ConstructResultStep ==
  ASSUME RepInv, NEW t \in Threads, ConstructResult(t)
  PROVE  RepInv'
<1> DEFINE c == call[t]
           s == call[t].this
           n == call[t].node
           d == [call[t] EXCEPT !.pc = "compute", !.node = NoNode]
<1>1. /\ TypeOK /\ Apart
      /\ \A u \in Threads : FrameOK(u)
  BY DEF RepInv
<1>2. /\ call[t].pc = "workspace" /\ call[t].op = "function"
      /\ NewWorkspace(t)
      /\ rep' = [rep EXCEPT ![s] = n]
      /\ call' = [call EXCEPT ![t] = d]
  BY DEF ConstructResult, At
<1>3. /\ d \in Operation /\ d.node = NoNode /\ d.pc = "compute" /\ d.op = "function"
      /\ d.this = s /\ d.other = call[t].other
  <2>1. c \in Operation
    BY <1>1 DEF TypeOK
  <2>2. d = [c EXCEPT !.pc = "compute", !.node = NoNode]
    OBVIOUS
  <2> HIDE DEF d
  <2> QED BY <2>1, <2>2, <1>2 DEF Operation
<1> HIDE DEF d
<1>4. /\ TypeOK' /\ CountsOwners' /\ NeverNull'
      /\ \A u \in Threads : u # t => FrameOK(u)' /\ call'[u] = call[u]
      /\ call'[t] = d
      /\ s \in Strings /\ rep[s] = NoNode
      /\ n \in Nodes /\ t \in Owners(n)
      /\ rep'[s] = n
      /\ \A x \in Strings : x # s => rep'[x] = rep[x]
  BY <1>2, <1>3, InstallStep
<1>5. FrameOK(t)'
  <2>1. d # Idle
    BY <1>3 DEF Idle
  <2>2. string_lock' = t
    BY <1>1, <1>2 DEF FrameOK, Holds, NewWorkspace
  <2>3. d.other \in Strings \ {s} /\ rep'[d.other] # NoNode
    BY <1>1, <1>2, <1>3, <1>4, StringAssumption DEF FrameOK
  <2>4. rep'[s] # NoNode
    BY <1>4, StringAssumption
  <2> QED BY <2>1, <2>2, <2>3, <2>4, <1>3, <1>4 DEF FrameOK, Holds
<1>6. Apart'
  <2>1. \A u \in Threads : u # t /\ call'[u].node # NoNode => call'[u].node # n
    BY <1>1, <1>4, StringAssumption DEF Apart
  <2>2. \A u \in Threads, x \in Strings :
           call'[u].node # NoNode => call'[u].node # rep'[x]
    BY <2>1, <1>1, <1>3, <1>4 DEF Apart
  <2>3. \A u, v \in Threads : u # v =>
           /\ call'[u].node # NoNode => call'[u].node # call'[v].node
           /\ Builds(u)' => call'[u].this \notin {call'[v].this, call'[v].other}
    <3> SUFFICES ASSUME NEW u \in Threads, NEW v \in Threads, u # v
                 PROVE  /\ call'[u].node # NoNode => call'[u].node # call'[v].node
                        /\ Builds(u)' => call'[u].this \notin {call'[v].this, call'[v].other}
      OBVIOUS
    <3>1. CASE u = t
      BY <3>1, <1>1, <1>2, <1>3, <1>4 DEF Apart, Builds
    <3>2. CASE v = t
      BY <3>2, <1>1, <1>3, <1>4 DEF Apart, Builds
    <3>3. CASE u # t /\ v # t
      BY <3>3, <1>1, <1>4 DEF Apart, Builds
    <3> QED BY <3>1, <3>2, <3>3
  <2>4. ASSUME NEW u \in Threads, NEW x \in Strings, call'[u].pc = "compute", x # call'[u].this
        PROVE  rep'[x] # rep'[call'[u].this]
    <3>1. CASE u = t
      BY <3>1, <2>4, <1>1, <1>3, <1>4, StringAssumption DEF Apart
    <3>2. CASE u # t
      <4>1. call'[u] = call[u] /\ call[u].this # s
        BY <3>2, <2>4, <1>1, <1>2, <1>4 DEF Apart, Builds
      <4>2. call[u].this \in Strings /\ rep[call[u].this] # NoNode
        BY <4>1, <2>4, <1>1 DEF FrameOK
      <4>3. rep'[call[u].this] = rep[call[u].this] /\ rep[call[u].this] # n
        BY <4>1, <4>2, <1>1, <1>4, StringAssumption DEF Apart
      <4> QED BY <4>1, <4>3, <2>4, <1>1, <1>4 DEF Apart
    <3> QED BY <3>1, <3>2
  <2> QED BY <2>2, <2>3, <2>4 DEF Apart
<1> QED BY <1>4, <1>5, <1>6 DEF RepInv

LEMMA FillNodeStep ==
  ASSUME RepInv, NEW t \in Threads, FillNode(t)
  PROVE  RepInv'
<1> DEFINE c == call[t]
           n == call[t].node
           w == Written(call[t])
           d == [call[t] EXCEPT !.pc = "replace"]
<1>1. /\ TypeOK /\ CountsOwners /\ NeverNull /\ Apart
      /\ \A u \in Threads : FrameOK(u)
  BY DEF RepInv
<1>2. /\ c.pc = "workspace" /\ c.op \in {"assign", "append"}
      /\ heap' = [heap EXCEPT ![n].workspace = w] /\ w \in Text
      /\ call' = [call EXCEPT ![t] = d]
      /\ rep' = rep /\ string_lock' = string_lock
  BY WrittenIsText DEF FillNode, At, NewWorkspace, GoTo
<1> HIDE DEF w
<1>3. c \in Operation /\ n \in Nodes
  BY <1>1, <1>2 DEF TypeOK, FrameOK, Operation
<1>4. /\ d \in Operation /\ d.pc = "replace" /\ d.node = n /\ d.op = c.op
      /\ d.this = c.this /\ d.other = c.other
  <2>1. d = [c EXCEPT !.pc = "replace"] /\ n = c.node
    OBVIOUS
  <2> HIDE DEF c, d, n
  <2> QED BY <2>1, <1>3 DEF Operation
<1> HIDE DEF d
<1>5. /\ call' \in [Threads -> Operation] /\ call'[t] = d
      /\ \A u \in Threads : u # t => call'[u] = call[u]
  BY <1>1, <1>2, <1>4 DEF TypeOK
<1>6. /\ heap' \in [Nodes -> Node] /\ heap'[n].workspace = w
      /\ \A m \in Nodes : heap'[m].count = heap[m].count
      /\ \A m \in Nodes : m # n => heap'[m] = heap[m]
  BY <1>1, <1>2, <1>3 DEF TypeOK, Node
<1>7. TypeOK'
  BY <1>1, <1>2, <1>5, <1>6 DEF TypeOK
<1>8. CountsOwners'
  <2>1. \A u \in Threads : call'[u].node = call[u].node
    BY <1>4, <1>5
  <2>2. \A m \in Nodes : Owners(m)' = Owners(m)
    BY <2>1, <1>2 DEF Owners
  <2> QED BY <2>2, <1>1, <1>6 DEF CountsOwners
<1>9. NeverNull'
  BY <1>1, <1>2, <1>3, <1>6, StringAssumption DEF NeverNull, TextOf, TypeOK, Apart
<1>10. ASSUME NEW u \in Threads PROVE FrameOK(u)'
  <2>1. CASE u = t
    <3>1. heap'[d.node].workspace # NoText
      BY <1>2, <1>4, <1>6, NoTextIsNone
    <3>2. /\ c.op \notin {"none", "function"} /\ c.this \in Strings
          /\ c.op \in {"append", "function"} => string_lock' = t
          /\ rep'[c.this] # NoNode
          /\ c.other # NoString => rep'[c.other] # NoNode
          /\ n # NoNode
      BY <1>1, <1>2 DEF FrameOK, Holds
    <3>3. d # Idle
      BY <1>4 DEF Idle
    <3> HIDE DEF c, n
    <3> QED BY <2>1, <3>1, <3>2, <3>3, <1>2, <1>4, <1>5 DEF FrameOK, Holds
  <2>2. CASE u # t
    <3>1. call[u].node \in Nodes => heap'[call[u].node].workspace = heap[call[u].node].workspace
      BY <2>2, <1>1, <1>3, <1>6, StringAssumption DEF Apart
    <3> QED BY <3>1, <2>2, <1>1, <1>2, <1>5, FrameKept
  <2> QED BY <2>1, <2>2
<1>11. Apart'
  <2>1. \A u \in Threads : /\ call'[u].node = call[u].node /\ call'[u].op = call[u].op
                           /\ call'[u].this = call[u].this /\ call'[u].other = call[u].other
                           /\ call'[u].pc = "compute" => call[u].pc = "compute"
    BY <1>4, <1>5
  <2> QED BY <2>1, <1>1, <1>2 DEF Apart, Builds
<1> QED BY <1>7, <1>8, <1>9, <1>10, <1>11 DEF RepInv
-----------------------------------------------------------------------------
(* How operations end *)

\* While t holds the lock, no other thread is in append() or a function.
LEMMA OthersOutside ==
  ASSUME RepInv, NEW t \in Threads, Holds(t), NEW u \in Threads, u # t
  PROVE  call[u].op \notin {"append", "function"} /\ call[u].pc # "compute"
BY DEF RepInv, FrameOK, Holds

\* The end of an operation leaves the other threads as they are, if the other
\* Strings and the nodes of the other threads stay.
LEMMA EndStep ==
  ASSUME RepInv, NEW t \in Threads,
         call' = [call EXCEPT ![t] = Idle],
         string_lock' \in {string_lock, NoThread}, string_lock' # string_lock => Holds(t),
         rep' \in [Strings -> Nodes \union {NoNode}],
         heap' \in [Nodes -> Node],
         \A u \in Threads : u # t /\ call[u].node \in Nodes =>
            heap'[call[u].node].workspace = heap[call[u].node].workspace,
         \A x \in Strings : ~ (Builds(t) /\ x = call[t].this) =>
            (rep'[x] = NoNode <=> rep[x] = NoNode),
         \A x \in Strings : rep'[x] \notin {NoNode, call[t].node} =>
            \E y \in Strings : rep'[x] = rep[y],
         rep' = rep \/ Holds(t) \/ LockFree
  PROVE  TypeOK' /\ Apart' /\ \A u \in Threads : FrameOK(u)'
<1>1. /\ TypeOK /\ Apart
      /\ \A u \in Threads : FrameOK(u)
  BY DEF RepInv
<1>2. /\ call' \in [Threads -> Operation] /\ call'[t] = Idle
      /\ \A u \in Threads : u # t => call'[u] = call[u]
  <2>1. Idle \in Operation
    BY DEF Idle, Operation, Values!Literals
  <2> QED BY <2>1, <1>1 DEF TypeOK
<1>3. TypeOK'
  BY <1>1, <1>2 DEF TypeOK
<1>4. ASSUME NEW u \in Threads PROVE FrameOK(u)'
  <2>1. CASE u = t
    BY <2>1, <1>2, FrameIdle
  <2>2. CASE u # t
    <3>1. call[u].op \in {"append", "function"} => string_lock' = string_lock
      BY <2>2, OthersOutside
    <3>2. Builds(t) => call[t].this \notin {call[u].this, call[u].other}
      BY <2>2, <1>1 DEF Apart
    <3> QED BY <2>2, <3>1, <3>2, <1>1, <1>2, FrameKept
  <2> QED BY <2>1, <2>2
<1>5. \A u \in Threads, x \in Strings : call'[u].node # NoNode => call'[u].node # rep'[x]
  <2> SUFFICES ASSUME NEW u \in Threads, NEW x \in Strings, call'[u].node # NoNode
               PROVE  call'[u].node # rep'[x]
    OBVIOUS
  <2>1. u # t /\ call'[u] = call[u]
    BY <1>2 DEF Idle
  <2>2. CASE rep'[x] \in {NoNode, call[t].node}
    BY <2>1, <2>2, <1>1 DEF Apart
  <2>3. CASE rep'[x] \notin {NoNode, call[t].node}
    BY <2>1, <2>3, <1>1 DEF Apart
  <2> QED BY <2>2, <2>3
<1>6. \A u, v \in Threads : u # v =>
         /\ call'[u].node # NoNode => call'[u].node # call'[v].node
         /\ Builds(u)' => call'[u].this \notin {call'[v].this, call'[v].other}
  <2> SUFFICES ASSUME NEW u \in Threads, NEW v \in Threads, u # v
               PROVE  /\ call'[u].node # NoNode => call'[u].node # call'[v].node
                      /\ Builds(u)' => call'[u].this \notin {call'[v].this, call'[v].other}
    OBVIOUS
  <2>1. CASE u = t
    BY <2>1, <1>2 DEF Builds, Idle
  <2>2. CASE v = t
    <3>1. Builds(u)' => call'[u].this \in Strings
      BY <2>2, <1>1, <1>2 DEF FrameOK, Builds, Idle
    <3> QED BY <3>1, <2>2, <1>2, StringAssumption DEF Idle
  <2>3. CASE u # t /\ v # t
    BY <2>3, <1>1, <1>2 DEF Apart, Builds
  <2> QED BY <2>1, <2>2, <2>3
<1>7. \A u \in Threads, x \in Strings :
         call'[u].pc = "compute" /\ x # call'[u].this => rep'[x] # rep'[call'[u].this]
  <2> SUFFICES ASSUME NEW u \in Threads, NEW x \in Strings,
                      call'[u].pc = "compute", x # call'[u].this
               PROVE  rep'[x] # rep'[call'[u].this]
    OBVIOUS
  <2>1. u # t /\ call'[u] = call[u]
    BY <1>2 DEF Idle
  <2>2. ~ Holds(t) /\ ~ LockFree
    BY <2>1, OthersOutside, NobodyInside
  <2> QED BY <2>1, <2>2, <1>1 DEF Apart
<1> QED BY <1>3, <1>4, <1>5, <1>6, <1>7 DEF Apart

\* operator=(const char *) and append(): the new node in place of the old one.
LEMMA ReplaceStep ==
  ASSUME RepInv, NEW t \in Threads, ReplaceByText(t) \/ ReplaceByLonger(t)
  PROVE  RepInv'
<1> DEFINE s == call[t].this
           n == call[t].node
           a == rep[s]
<1>1. /\ TypeOK /\ CountsOwners /\ NeverNull /\ Apart
      /\ FrameOK(t)
  BY DEF RepInv
<1>2. /\ call[t].pc = "replace"
      /\ rep' = [rep EXCEPT ![s] = n]
      /\ heap' = Drop(heap, a)
      /\ call' = [call EXCEPT ![t] = Idle]
      /\ Holds(t) \/ LockFree
      /\ string_lock' \in {string_lock, NoThread} /\ (string_lock' # string_lock => Holds(t))
  BY <1>1 DEF ReplaceByText, ReplaceByLonger, Replace, Return, FrameOK
<1>3. /\ s \in Strings /\ n \in Nodes /\ a \in Nodes /\ a # n
      /\ heap[n].workspace # NoText /\ ~ Builds(t)
  BY <1>1, <1>2, StringAssumption DEF FrameOK, TypeOK, Operation, Apart, Builds
<1>4. s \in Owners(a) /\ t \in Owners(n) /\ t \notin Strings
  BY <1>3, StringAssumption DEF Owners
<1> HIDE DEF a
<1>5. /\ heap' \in [Nodes -> Node]
      /\ heap'[a].count = Cardinality(Owners(a) \ {s})
      /\ \A y \in Owners(a) : y # s => heap'[a].workspace = heap[a].workspace
      /\ \A m \in Nodes : m # a => heap'[m] = heap[m]
  <2>1. /\ Drop(heap, a) \in [Nodes -> Node]
        /\ Drop(heap, a)[a].count = Cardinality(Owners(a) \ {s})
        /\ \A y \in Owners(a) : y # s => Drop(heap, a)[a].workspace = heap[a].workspace
        /\ \A m \in Nodes : m # a => Drop(heap, a)[m] = heap[m]
    BY <1>1, <1>3, <1>4, DropNode
  <2> QED BY <2>1, <1>2
<1>6. /\ rep' \in [Strings -> Nodes \union {NoNode}] /\ rep'[s] = n
      /\ \A x \in Strings : x # s => rep'[x] = rep[x]
  BY <1>1, <1>2, <1>3 DEF TypeOK
<1>7. /\ call'[t].node = NoNode
      /\ \A u \in Threads : u # t => call'[u].node = call[u].node
  BY <1>1, <1>2 DEF TypeOK, Idle
<1>8. /\ \A x \in Strings : rep[x] # n
      /\ \A u \in Threads : u # t => call[u].node # n
      /\ \A u \in Threads : call[u].node # a
  BY <1>1, <1>3, StringAssumption DEF Apart, a
<1>9. rep[s] = a
  BY DEF a
<1> HIDE DEF s, n
<1>10. \A m \in Nodes : Owners(m)' = IF m = n THEN (Owners(m) \ {t}) \union {s}
                                     ELSE IF m = a THEN Owners(m) \ {s}
                                     ELSE Owners(m)
  <2> SUFFICES ASSUME NEW m \in Nodes
               PROVE  Owners(m)' = IF m = n THEN (Owners(m) \ {t}) \union {s}
                                   ELSE IF m = a THEN Owners(m) \ {s}
                                   ELSE Owners(m)
    OBVIOUS
  <2>1. {u \in Threads : call'[u].node = m} =
           IF m = n THEN {u \in Threads : call[u].node = m} \ {t}
                    ELSE {u \in Threads : call[u].node = m}
    BY <1>7, StringAssumption DEF n
  <2>2. {x \in Strings : rep'[x] = m} =
           IF m = n THEN {x \in Strings : rep[x] = m} \union {s}
           ELSE IF m = a THEN {x \in Strings : rep[x] = m} \ {s}
           ELSE {x \in Strings : rep[x] = m}
    BY <1>3, <1>6, <1>9
  <2>3. s \notin Threads
    BY <1>3, StringAssumption
  <2> QED BY <2>1, <2>2, <2>3, <1>3, <1>4 DEF Owners
<1>11. CountsOwners'
  <2> SUFFICES ASSUME NEW m \in Nodes PROVE heap'[m].count = Cardinality(Owners(m)')
    BY DEF CountsOwners
  <2>1. heap[m].count = Cardinality(Owners(m)) /\ IsFiniteSet(Owners(m))
    BY <1>1, OwnersFinite DEF CountsOwners
  <2>2. CASE m = n
    <3>1. s \notin Owners(n)
      BY <1>3, <1>8, StringAssumption DEF Owners
    <3>2. Cardinality((Owners(m) \ {t}) \union {s}) = Cardinality(Owners(m))
      BY <3>1, <2>1, <2>2, <1>4, Exchange
    <3> QED BY <3>2, <2>1, <2>2, <1>3, <1>5, <1>10
  <2>3. CASE m = a
    BY <2>3, <1>3, <1>5, <1>10
  <2>4. CASE m # n /\ m # a
    BY <2>4, <2>1, <1>5, <1>10
  <2> QED BY <2>2, <2>3, <2>4
<1>12. NeverNull'
  <2> SUFFICES ASSUME NEW x \in Strings, rep'[x] # NoNode
               PROVE  heap'[rep'[x]].workspace # NoText
    BY DEF NeverNull, TextOf
  <2>1. CASE x = s
    BY <2>1, <1>3, <1>5, <1>6
  <2>2. CASE x # s
    <3>1. rep'[x] = rep[x] /\ rep[x] \in Nodes /\ x \in Owners(rep[x])
      BY <2>2, <1>1, <1>6 DEF TypeOK, Owners
    <3>2. heap'[rep[x]].workspace = heap[rep[x]].workspace
      BY <2>2, <3>1, <1>5
    <3> QED BY <3>1, <3>2, <1>1 DEF NeverNull, TextOf
  <2> QED BY <2>1, <2>2
<1>13. TypeOK' /\ Apart' /\ \A u \in Threads : FrameOK(u)'
  <2>1. \A u \in Threads : u # t /\ call[u].node \in Nodes =>
           heap'[call[u].node].workspace = heap[call[u].node].workspace
    BY <1>5, <1>8
  <2>2. \A x \in Strings : rep'[x] = NoNode <=> rep[x] = NoNode
    BY <1>3, <1>6, <1>9, StringAssumption
  <2>3. \A x \in Strings : rep'[x] \notin {NoNode, call[t].node} =>
           \E y \in Strings : rep'[x] = rep[y]
    BY <1>6 DEF n
  <2> QED BY <2>1, <2>2, <2>3, <1>2, <1>5, <1>6, EndStep
<1> QED BY <1>11, <1>12, <1>13 DEF RepInv

\* The end of a function.
LEMMA ResultFrame ==
  ASSUME RepInv, NEW t \in Threads, call[t].pc = "compute", call' = [call EXCEPT ![t] = Idle]
  PROVE  /\ Holds(t) /\ call[t].node = NoNode /\ Builds(t)
         /\ call[t].this \in Strings /\ call[t].other \in Strings /\ call[t].this # call[t].other
         /\ rep[call[t].this] \in Nodes /\ rep[call[t].other] \in Nodes
         /\ \A u \in Threads : call'[u].node = call[u].node
         /\ \A m : Owners(m)' = {s \in Strings : rep'[s] = m} \union {u \in Threads : call[u].node = m}
<1>1. /\ TypeOK /\ FrameOK(t)
  BY DEF RepInv
<1>2. /\ Holds(t) /\ call[t].node = NoNode /\ Builds(t)
      /\ call[t].this \in Strings /\ call[t].other \in Strings /\ call[t].this # call[t].other
      /\ rep[call[t].this] \in Nodes /\ rep[call[t].other] \in Nodes
  BY <1>1, StringAssumption DEF FrameOK, TypeOK, Builds
<1>3. \A u \in Threads : call'[u].node = call[u].node
  BY <1>1, <1>2 DEF TypeOK, Idle
<1> QED BY <1>2, <1>3 DEF Owners

LEMMA ReturnEmptyStep ==
  ASSUME RepInv, NEW t \in Threads, ReturnEmpty(t)
  PROVE  RepInv'
<1>1. /\ TypeOK /\ CountsOwners /\ NeverNull
  BY DEF RepInv
<1>2. /\ call[t].pc = "compute" /\ call' = [call EXCEPT ![t] = Idle]
      /\ string_lock' = NoThread /\ rep' = rep /\ heap' = heap
  BY DEF ReturnEmpty, Return
<1>3. Holds(t) /\ \A m : Owners(m)' = Owners(m)
  BY <1>2, ResultFrame DEF Owners
<1>4. CountsOwners' /\ NeverNull'
  BY <1>1, <1>2, <1>3 DEF CountsOwners, NeverNull, TextOf
<1>5. TypeOK' /\ Apart' /\ \A u \in Threads : FrameOK(u)'
  BY <1>1, <1>2, <1>3, EndStep DEF TypeOK
<1> QED BY <1>4, <1>5 DEF RepInv
\* What a function computes from a text is a text.
LEMMA ComputedIsSeq ==
  ASSUME NEW x \in Seq(Char), NEW y \in Values!Computed(x)
  PROVE  y \in Seq(Char)
<1>1. x \o x \in Seq(Char)
  BY ConcatProperties
<1>2. SubSeq(x, 2, Len(x)) \in Seq(Char)
  <2>1. \A i \in 2 .. Len(x) : x[i] \in Char
    BY LenProperties
  <2> QED BY <2>1, SubSeqProperties
<1> QED BY <1>1, <1>2 DEF Values!Computed

LEMMA ReturnComputedStep ==
  ASSUME RepInv, NEW t \in Threads, ReturnComputed(t)
  PROVE  RepInv'
<1> DEFINE s == call[t].this
           o == call[t].other
           n == rep[s]
<1>1. /\ TypeOK /\ CountsOwners /\ NeverNull /\ Apart
  BY DEF RepInv
<1>2. PICK text \in Values!Computed(TextOf(o)) :
         /\ Len(text) <= MaxLength
         /\ heap' = [heap EXCEPT ![n].workspace = text]
  BY DEF ReturnComputed
<1>3. /\ call[t].pc = "compute" /\ call' = [call EXCEPT ![t] = Idle]
      /\ string_lock' = NoThread /\ rep' = rep
  BY DEF ReturnComputed, Return
<1>4. /\ Holds(t) /\ s \in Strings /\ n \in Nodes /\ o \in Strings /\ rep[o] \in Nodes
      /\ \A m : Owners(m)' = Owners(m)
  BY <1>3, ResultFrame DEF Owners
<1>5. text \in Text
  <2>1. TextOf(o) \in Seq(Char)
    BY <1>1, <1>4, TextIsSeq, StringAssumption DEF NeverNull, TextOf, TypeOK, Node
  <2> HIDE DEF o
  <2> QED BY <2>1, <1>2, ComputedIsSeq, TextIsSeq
<1>6. /\ heap' \in [Nodes -> Node] /\ heap'[n].workspace = text
      /\ \A m \in Nodes : heap'[m].count = heap[m].count
      /\ \A m \in Nodes : m # n => heap'[m] = heap[m]
  BY <1>1, <1>2, <1>4, <1>5 DEF TypeOK, Node
<1>7. CountsOwners'
  BY <1>1, <1>4, <1>6 DEF CountsOwners
<1>8. NeverNull'
  BY <1>1, <1>3, <1>5, <1>6, NoTextIsNone DEF NeverNull, TextOf, TypeOK
<1>9. TypeOK' /\ Apart' /\ \A u \in Threads : FrameOK(u)'
  <2>1. \A u \in Threads : u # t /\ call[u].node \in Nodes =>
           heap'[call[u].node].workspace = heap[call[u].node].workspace
    BY <1>1, <1>4, <1>6, StringAssumption DEF Apart
  <2> QED BY <2>1, <1>1, <1>3, <1>4, <1>6, EndStep DEF TypeOK
<1> QED BY <1>7, <1>8, <1>9 DEF RepInv

LEMMA ReturnSharedStep ==
  ASSUME RepInv, NEW t \in Threads, ReturnShared(t)
  PROVE  RepInv'
<1> DEFINE s == call[t].this
           o == call[t].other
<1>1. /\ TypeOK /\ CountsOwners /\ NeverNull
  BY DEF RepInv
<1>2. /\ call[t].pc = "compute" /\ call' = [call EXCEPT ![t] = Idle]
      /\ string_lock' = NoThread
      /\ rep' = [rep EXCEPT ![s] = rep[o]]
      /\ heap' = Share(Drop(heap, rep[s]), rep[o])
  BY DEF ReturnShared, Return
<1>3. /\ Holds(t) /\ Builds(t) /\ s \in Strings /\ o \in Strings /\ s # o
      /\ rep[s] \in Nodes /\ rep[o] \in Nodes
      /\ \A u \in Threads : call'[u].node = call[u].node
  BY <1>2, ResultFrame
<1> HIDE DEF s, o
<1>4. rep[s] # NoNode /\ rep[o] # NoNode
  BY <1>3, StringAssumption
<1>5. /\ heap' \in [Nodes -> Node]
      /\ CountsOwners' /\ NeverNull'
      /\ \A m \in Nodes : \A y \in Owners(m) :
            y # s => heap'[m].workspace = heap[m].workspace
  BY <1>1, <1>2, <1>3, <1>4, TakeOver
<1>6. TypeOK' /\ Apart' /\ \A u \in Threads : FrameOK(u)'
  <2>1. \A u \in Threads : u # t /\ call[u].node \in Nodes =>
           heap'[call[u].node].workspace = heap[call[u].node].workspace
    BY <1>3, <1>5, NodeApart
  <2>2. /\ rep' \in [Strings -> Nodes \union {NoNode}]
        /\ \A x \in Strings : rep'[x] = NoNode <=> rep[x] = NoNode
        /\ \A x \in Strings : rep'[x] \notin {NoNode, call[t].node} =>
              \E y \in Strings : rep'[x] = rep[y]
    BY <1>1, <1>2, <1>3, <1>4 DEF TypeOK
  <2> QED BY <2>1, <2>2, <1>2, <1>3, <1>5, EndStep
<1> QED BY <1>5, <1>6 DEF RepInv

LEMMA ResultOutOfMemoryStep ==
  ASSUME RepInv, NEW t \in Threads, ResultOutOfMemory(t)
  PROVE  RepInv'
<1> DEFINE s == call[t].this
<1>1. /\ TypeOK /\ CountsOwners /\ NeverNull
  BY DEF RepInv
<1>2. /\ call[t].pc = "compute" /\ call' = [call EXCEPT ![t] = Idle]
      /\ string_lock' = Unlocked(t)
      /\ rep' = [rep EXCEPT ![s] = NoNode]
      /\ heap' = Drop(heap, rep[s])
  BY DEF ResultOutOfMemory, Return
<1>3. /\ Holds(t) /\ Builds(t) /\ s \in Strings /\ rep[s] \in Nodes
      /\ \A u \in Threads : call'[u].node = call[u].node
  BY <1>2, ResultFrame
<1>4. s = call[t].this
  OBVIOUS
<1> HIDE DEF s
<1>5. rep[s] # NoNode
  BY <1>3, StringAssumption
<1>6. /\ heap' \in [Nodes -> Node]
      /\ CountsOwners' /\ NeverNull'
      /\ \A m \in Nodes : \A y \in Owners(m) :
            y # s => heap'[m].workspace = heap[m].workspace
  BY <1>1, <1>2, <1>3, <1>5, LetGo
<1>7. TypeOK' /\ Apart' /\ \A u \in Threads : FrameOK(u)'
  <2>1. \A u \in Threads : u # t /\ call[u].node \in Nodes =>
           heap'[call[u].node].workspace = heap[call[u].node].workspace
    BY <1>3, <1>6, NodeApart
  <2>2. /\ rep' \in [Strings -> Nodes \union {NoNode}]
        /\ \A x \in Strings : ~ (Builds(t) /\ x = s) => rep'[x] = rep[x]
        /\ \A x \in Strings : rep'[x] \notin {NoNode, call[t].node} =>
              \E y \in Strings : rep'[x] = rep[y]
    BY <1>1, <1>2, <1>3 DEF TypeOK
  <2>3. string_lock' = NoThread
    BY <1>2, <1>3 DEF Unlocked
  <2> QED BY <2>1, <2>2, <2>3, <1>2, <1>3, <1>4, <1>6, EndStep
<1> QED BY <1>6, <1>7 DEF RepInv

\* An allocation has failed: the node of t, if it has one, goes.
LEMMA OutOfMemoryStep ==
  ASSUME RepInv, NEW t \in Threads, OutOfMemory(t)
  PROVE  RepInv'
<1> DEFINE n == call[t].node
<1>1. /\ TypeOK /\ CountsOwners /\ NeverNull /\ Apart
  BY DEF RepInv
<1>2. /\ heap' = IF n = NoNode THEN heap ELSE Drop(heap, n)
      /\ call' = [call EXCEPT ![t] = Idle]
      /\ string_lock' \in {string_lock, NoThread} /\ (string_lock' # string_lock => Holds(t))
      /\ rep' = rep
  BY DEF OutOfMemory, Return, Unlocked
<1>3. n \in Nodes \union {NoNode} /\ t \notin Strings
  BY <1>1, StringAssumption DEF TypeOK, Operation
<1>4. /\ call'[t].node = NoNode
      /\ \A u \in Threads : u # t => call'[u].node = call[u].node
  BY <1>1, <1>2 DEF TypeOK, Idle
<1>5. \A m \in Nodes : Owners(m)' = IF m = n THEN Owners(m) \ {t} ELSE Owners(m)
  BY <1>2, <1>3, <1>4, StringAssumption DEF Owners
<1>6. n \in Nodes => t \in Owners(n)
  BY <1>3 DEF Owners
<1>7. /\ heap' \in [Nodes -> Node]
      /\ CountsOwners'
      /\ \A m \in Nodes : \A y \in Owners(m) :
            y # t => heap'[m].workspace = heap[m].workspace
  <2> HIDE DEF n
  <2>1. CASE n = NoNode
    <3>1. heap' = heap /\ \A m \in Nodes : Owners(m)' = Owners(m)
      BY <2>1, <1>2, <1>5, StringAssumption
    <3> QED BY <3>1, <1>1 DEF CountsOwners, TypeOK
  <2>2. CASE n \in Nodes
    <3>1. /\ Drop(heap, n) \in [Nodes -> Node]
          /\ Drop(heap, n)[n].count = Cardinality(Owners(n) \ {t})
          /\ \A y \in Owners(n) : y # t => Drop(heap, n)[n].workspace = heap[n].workspace
          /\ \A m \in Nodes : m # n => Drop(heap, n)[m] = heap[m]
      BY <2>2, <1>1, <1>6, DropNode
    <3>2. heap' = Drop(heap, n)
      BY <2>2, <1>2, StringAssumption
    <3> QED BY <2>2, <3>1, <3>2, <1>1, <1>5 DEF CountsOwners
  <2> QED BY <2>1, <2>2, <1>3
<1>8. NeverNull'
  <2> SUFFICES ASSUME NEW x \in Strings, rep[x] # NoNode
               PROVE  heap'[rep[x]].workspace # NoText
    BY <1>2 DEF NeverNull, TextOf
  <2>1. rep[x] \in Nodes /\ x \in Owners(rep[x]) /\ x # t
    BY <1>1, <1>3 DEF TypeOK, Owners
  <2> QED BY <2>1, <1>1, <1>7 DEF NeverNull, TextOf
<1>9. TypeOK' /\ Apart' /\ \A u \in Threads : FrameOK(u)'
  <2>1. \A u \in Threads : u # t /\ call[u].node \in Nodes =>
           heap'[call[u].node].workspace = heap[call[u].node].workspace
    BY <1>7, NodeApart
  <2> QED BY <2>1, <1>1, <1>2, <1>7, EndStep DEF TypeOK
<1> QED BY <1>7, <1>8, <1>9 DEF RepInv
-----------------------------------------------------------------------------
(* The invariant *)

LEMMA InitRep == Init => RepInv
<1> SUFFICES ASSUME Init PROVE RepInv
  OBVIOUS
<1>1. /\ \A t \in Threads : call[t] = Idle
      /\ \A s \in Strings : rep[s] = NoNode
      /\ \A n \in Nodes : heap[n] = Freed
  BY DEF Init
<1>2. TypeOK
  <2>1. Idle \in Operation /\ Freed \in Node
    BY DEF Idle, Operation, Values!Literals, Freed, Node
  <2> QED BY <2>1 DEF Init, TypeOK
<1>3. CountsOwners
  <2>1. \A n \in Nodes : Owners(n) = {}
    BY <1>1, StringAssumption DEF Owners, Idle
  <2> QED BY <2>1, <1>1, FS_EmptySet DEF CountsOwners, Freed
<1>4. NeverNull
  BY <1>1 DEF NeverNull
<1>5. \A t \in Threads : FrameOK(t)
  BY <1>1 DEF FrameOK, Idle
<1>6. Apart
  BY <1>1 DEF Apart, Builds, Idle
<1> QED BY <1>2, <1>3, <1>4, <1>5, <1>6 DEF RepInv

\* Every step keeps the invariant.
LEMMA StepRep == RepInv /\ [Next]_vars => RepInv'
<1> SUFFICES ASSUME RepInv, [Next]_vars PROVE RepInv'
  OBVIOUS
<1>1. CASE UNCHANGED vars
  BY <1>1 DEF vars, RepInv, TypeOK, CountsOwners, NeverNull, FrameOK, Apart,
              Owners, TextOf, Holds, Builds
<1>2. ASSUME NEW t \in Threads, Continue(t) PROVE RepInv'
  BY <1>2, NewNodeStep, ConstructStringStep, ConstructResultStep, FillNodeStep,
     ReplaceStep, ReturnEmptyStep, ReturnComputedStep, ReturnSharedStep,
     OutOfMemoryStep, ResultOutOfMemoryStep DEF Continue
<1>3. ASSUME NEW t \in Threads, NEW s \in Strings, NEW text \in Values!Literals,
             construct(t, s, text) \/ assign_text(t, s, text) \/ append_text(t, s, text)
      PROVE  RepInv'
  <2>1. CASE construct(t, s, text)
    BY <2>1, CallStep DEF construct
  <2>2. CASE assign_text(t, s, text)
    BY <2>2, CallStep DEF assign_text
  <2>3. CASE append_text(t, s, text)
    BY <2>3, CallStep DEF append_text
  <2> QED BY <1>3, <2>1, <2>2, <2>3
<1>4. ASSUME NEW t \in Threads, NEW s \in Strings, NEW o \in Strings,
             append(t, s, o) \/ function(t, s, o)
      PROVE  RepInv'
  <2>1. << >> \in Values!Literals /\ o # NoString
    BY StringAssumption DEF Values!Literals
  <2>2. CASE append(t, s, o)
    BY <2>1, <2>2, CallStep DEF append
  <2>3. CASE function(t, s, o)
    BY <2>1, <2>3, CallStep DEF function
  <2> QED BY <1>4, <2>2, <2>3
<1>5. ASSUME NEW t \in Threads, Start(t) PROVE RepInv'
  BY <1>3, <1>4, <1>5, DestroyStep, CopyConstructStep, AssignStep DEF Start
<1> QED BY <1>1, <1>2, <1>5 DEF Next

\* The invariant holds, whatever the numbers of Strings, nodes and threads.
THEOREM RepInvariant == Spec => []RepInv
<1>1. Init => RepInv
  BY InitRep
<1>2. RepInv /\ [Next]_vars => RepInv'
  BY StepRep
<1> QED BY <1>1, <1>2, PTL DEF Spec

\* str.cpp:45-47: every count is the number of Strings that share the node, so
\* none is freed while in use or left behind, also after a failed allocation.
THEOREM CountsAlwaysMatch == Spec => []CountsOwners
<1>1. RepInv => CountsOwners
  BY DEF RepInv
<1> QED BY <1>1, RepInvariant, PTL

\* str.cpp:8: a String always has a representation with a text.
THEOREM StringsHaveTexts == Spec => []NeverNull
<1>1. RepInv => NeverNull
  BY DEF RepInv
<1> QED BY <1>1, RepInvariant, PTL
-----------------------------------------------------------------------------
(* Values of their own *)

\* The text of a String that is alive, and of no other place.
LEMMA AliveHasValue ==
  ASSUME NeverNull, NEW x \in Strings
  PROVE  /\ ValueOf[x] = IF Alive(x) THEN TextOf(x) ELSE NoText
         /\ Values!Exists(x) <=> Alive(x)
BY DEF NeverNull, ValueOf, Alive, TextOf, Values!Exists

\* A step that all Strings outlive with their texts.
LEMMA Stutter ==
  ASSUME \A x \in Strings : /\ Alive(x)' <=> Alive(x)
                            /\ Alive(x) => TextOf(x)' = TextOf(x)
  PROVE  ValueOf' = ValueOf
<1>1. \A x \in Strings : (IF rep'[x] # NoNode /\ Returned(x)'
                          THEN heap'[rep'[x]].workspace ELSE NoText)
                       = (IF rep[x] # NoNode /\ Returned(x)
                          THEN heap[rep[x]].workspace ELSE NoText)
  BY DEF Alive, TextOf
<1> QED BY <1>1 DEF ValueOf

\* A step that changes the value of s.
LEMMA OneBecomes ==
  ASSUME NEW s \in Strings, NEW v,
         \A x \in Strings : x # s => /\ Alive(x)' <=> Alive(x)
                                     /\ Alive(x) => TextOf(x)' = TextOf(x),
         v = IF Alive(s)' THEN TextOf(s)' ELSE NoText
  PROVE  Values!Becomes(s, v)
<1>1. \A x \in Strings : x # s =>
         (IF rep'[x] # NoNode /\ Returned(x)'
          THEN heap'[rep'[x]].workspace ELSE NoText)
       = (IF rep[x] # NoNode /\ Returned(x)
          THEN heap[rep[x]].workspace ELSE NoText)
  BY DEF Alive, TextOf
<1>2. (IF rep'[s] # NoNode /\ Returned(s)'
       THEN heap'[rep'[s]].workspace ELSE NoText) = v
  BY DEF Alive, TextOf
<1> QED BY <1>1, <1>2 DEF ValueOf, Values!Becomes

\* The texts of the Strings do not change when a workspace is filled.
LEMMA TextsOutlive ==
  ASSUME RepInv, NEW t \in Threads, NewWorkspace(t)
  PROVE  /\ call[t].node \in Nodes
         /\ heap'[call[t].node].workspace = Written(call[t])
         /\ \A x \in Strings : rep[x] # NoNode => heap'[rep[x]] = heap[rep[x]]
<1>1. TypeOK /\ Apart /\ FrameOK(t)
  BY DEF RepInv
<1>2. call[t].node \in Nodes
  BY <1>1 DEF NewWorkspace, FrameOK, TypeOK, Operation
<1>3. heap' = [heap EXCEPT ![call[t].node].workspace = Written(call[t])]
  BY DEF NewWorkspace
<1>4. \A x \in Strings : rep[x] # NoNode => rep[x] \in Nodes /\ rep[x] # call[t].node
  BY <1>1, <1>2, StringAssumption DEF TypeOK, Apart
<1> QED BY <1>1, <1>2, <1>3, <1>4 DEF TypeOK, Node

\* Steps of the operations that no String shows.
LEMMA HiddenSteps ==
  ASSUME RepInv, NEW t \in Threads,
         \/ NewNode(t) \/ ConstructResult(t) \/ FillNode(t)
         \/ OutOfMemory(t) \/ ResultOutOfMemory(t)
  PROVE  ValueOf' = ValueOf
<1>1. /\ TypeOK /\ CountsOwners /\ NeverNull /\ Apart
      /\ \A u \in Threads : FrameOK(u)
  BY DEF RepInv
<1>2. CASE NewNode(t)
  <2>1. PICK n \in Nodes : /\ heap[n].count = 0
                           /\ heap' = [heap EXCEPT ![n] = [count |-> 1, workspace |-> NoText]]
    BY <1>2 DEF NewNode, SomeFree
  <2>2. \A x \in Strings : rep[x] # n
    BY <2>1, <1>1, FreeHasNone DEF Owners
  <2>3. \A u \in Threads : (call'[u].pc = "compute" <=> call[u].pc = "compute")
                           /\ call'[u].this = call[u].this
    BY <1>1, <1>2 DEF NewNode, TypeOK, Operation
  <2>4. \A x \in Strings : /\ Alive(x)' <=> Alive(x)
                           /\ Alive(x) => TextOf(x)' = TextOf(x)
    BY <2>1, <2>2, <2>3, <1>1, <1>2 DEF NewNode, Alive, Returned, TextOf, TypeOK
  <2> QED BY <2>4, Stutter
<1>3. CASE ConstructResult(t)
  <2> DEFINE s == call[t].this
  <2>1. /\ NewWorkspace(t) /\ call[t].pc = "workspace" /\ call[t].op = "function"
        /\ rep' = [rep EXCEPT ![s] = call[t].node]
        /\ call' = [call EXCEPT ![t] = [call[t] EXCEPT !.pc = "compute", !.node = NoNode]]
    BY <1>3 DEF ConstructResult, At
  <2>2. s \in Strings /\ rep[s] = NoNode
    BY <1>1, <2>1 DEF FrameOK
  <2>3. /\ call'[t].pc = "compute" /\ call'[t].this = s
        /\ \A u \in Threads : u # t => call'[u] = call[u]
    BY <1>1, <2>1 DEF TypeOK, Operation
  <2>4. \A x \in Strings : x # s => rep'[x] = rep[x]
    BY <1>1, <2>1, <2>2 DEF TypeOK
  <2>5. ~ Alive(s) /\ ~ Alive(s)'
    BY <2>2, <2>3 DEF Alive, Returned
  <2>6. \A x \in Strings : x # s => (Returned(x)' <=> Returned(x))
    BY <2>1, <2>3 DEF Returned
  <2>7. \A x \in Strings : /\ Alive(x)' <=> Alive(x)
                           /\ Alive(x) => TextOf(x)' = TextOf(x)
    BY <2>1, <2>4, <2>5, <2>6, TextsOutlive DEF Alive, TextOf
  <2> QED BY <2>7, Stutter
<1>4. CASE FillNode(t)
  <2>1. NewWorkspace(t) /\ rep' = rep
    BY <1>4 DEF FillNode
  <2>2. \A u \in Threads : (call'[u].pc = "compute" <=> call[u].pc = "compute")
                           /\ call'[u].this = call[u].this
    BY <1>1, <1>4 DEF FillNode, At, GoTo, TypeOK, Operation
  <2>3. \A x \in Strings : /\ Alive(x)' <=> Alive(x)
                           /\ Alive(x) => TextOf(x)' = TextOf(x)
    BY <2>1, <2>2, TextsOutlive DEF Alive, Returned, TextOf
  <2> QED BY <2>3, Stutter
<1>5. CASE OutOfMemory(t)
  <2> DEFINE n == call[t].node
  <2>1. /\ heap' = IF n = NoNode THEN heap ELSE Drop(heap, n)
        /\ call' = [call EXCEPT ![t] = Idle] /\ call[t].pc # "compute"
        /\ rep' = rep
    BY <1>5 DEF OutOfMemory, Return
  <2>2. \A x \in Strings : rep[x] # NoNode => rep[x] \in Nodes /\ (n # NoNode => rep[x] # n)
    BY <1>1 DEF TypeOK, Apart
  <2>3. \A x \in Strings : rep[x] # NoNode => heap'[rep[x]] = heap[rep[x]]
    BY <2>1, <2>2, <1>1 DEF Drop, TypeOK
  <2>4. \A u \in Threads : \/ call'[u] = call[u]
                           \/ call'[u].pc # "compute" /\ call[u].pc # "compute"
    BY <1>1, <2>1 DEF TypeOK, Idle
  <2>5. \A x \in Strings : /\ Alive(x)' <=> Alive(x)
                           /\ Alive(x) => TextOf(x)' = TextOf(x)
    BY <2>1, <2>3, <2>4 DEF Alive, Returned, TextOf
  <2> QED BY <2>5, Stutter
<1>6. CASE ResultOutOfMemory(t)
  <2>0. PICK s \in Strings : s = call[t].this
    BY <1>1, <1>6 DEF ResultOutOfMemory, FrameOK
  <2>1. /\ call[t].pc = "compute" /\ call' = [call EXCEPT ![t] = Idle]
        /\ rep' = [rep EXCEPT ![s] = NoNode]
        /\ heap' = Drop(heap, rep[s])
    BY <1>6, <2>0 DEF ResultOutOfMemory, Return
  <2>2. /\ rep[s] \in Nodes
        /\ \A x \in Strings : x # s => rep[x] # rep[s]
    BY <2>0, <2>1, <1>1, ResultFrame DEF Apart
  <2>3. /\ rep'[s] = NoNode
        /\ \A x \in Strings : x # s => rep'[x] = rep[x]
        /\ \A x \in Strings : x # s /\ rep[x] # NoNode => heap'[rep[x]] = heap[rep[x]]
    BY <2>1, <2>2, <1>1 DEF TypeOK, Drop
  <2>4. call'[t].pc = "idle" /\ \A u \in Threads : u # t => call'[u] = call[u]
    BY <2>1, <1>1 DEF TypeOK, Idle
  <2>5. ~ Alive(s) /\ ~ Alive(s)'
    BY <2>0, <2>1, <2>3 DEF Alive, Returned
  <2>6. \A x \in Strings : x # s => (Returned(x)' <=> Returned(x))
    BY <2>0, <2>4 DEF Returned
  <2>7. \A x \in Strings : /\ Alive(x)' <=> Alive(x)
                           /\ Alive(x) => TextOf(x)' = TextOf(x)
    BY <2>3, <2>5, <2>6 DEF Alive, TextOf
  <2> QED BY <2>7, Stutter
<1> QED BY <1>2, <1>3, <1>4, <1>5, <1>6
\* The beginning of an operation shows in no String.
LEMMA CallHidden ==
  ASSUME RepInv, NEW t \in Threads, NEW op, NEW s, NEW o, NEW text, Call(t, op, s, o, text)
  PROVE  ValueOf' = ValueOf
<1>1. /\ rep' = rep /\ heap' = heap /\ TypeOK
      /\ call[t] = Idle
      /\ call' = [call EXCEPT ![t] = [pc |-> "node", op |-> op, this |-> s, other |-> o,
                                      text |-> text, node |-> NoNode]]
  BY DEF Call, RepInv
<1>2. \A u \in Threads : \/ call'[u] = call[u]
                         \/ call'[u].pc # "compute" /\ call[u].pc # "compute"
  BY <1>1 DEF TypeOK, Idle
<1>3. \A x \in Strings : /\ Alive(x)' <=> Alive(x)
                         /\ Alive(x) => TextOf(x)' = TextOf(x)
  BY <1>1, <1>2 DEF Alive, Returned, TextOf
<1> QED BY <1>3, Stutter

LEMMA CopyConstructs ==
  ASSUME RepInv, NEW t \in Threads, NEW s \in Strings, NEW o \in Strings,
         copy_construct(t, s, o)
  PROVE  Values!copy_construct(s, o)
<1>1. TypeOK /\ NeverNull
  BY DEF RepInv
<1>2. /\ rep[s] = NoNode /\ Unused(s) /\ Alive(o) /\ rep[o] \in Nodes
      /\ rep' = [rep EXCEPT ![s] = rep[o]] /\ heap' = Share(heap, rep[o])
      /\ call' = call
  BY <1>1 DEF copy_construct, Place, Alive, TypeOK
<1>3. \A m \in Nodes : heap'[m].workspace = heap[m].workspace
  BY <1>1, <1>2 DEF Share, TypeOK, Node
<1>4. rep'[s] = rep[o] /\ \A x \in Strings : x # s => rep'[x] = rep[x]
  BY <1>1, <1>2 DEF TypeOK
<1>5. Alive(s)' /\ TextOf(s)' = TextOf(o) /\ ~ Alive(s)
  BY <1>2, <1>3, <1>4, StringAssumption DEF Alive, Returned, Unused, TextOf
<1>6. \A x \in Strings : x # s => /\ Alive(x)' <=> Alive(x)
                                  /\ Alive(x) => TextOf(x)' = TextOf(x)
  BY <1>1, <1>2, <1>3, <1>4 DEF Alive, Returned, TextOf, TypeOK
<1>7. Values!Becomes(s, TextOf(o))
  BY <1>5, <1>6, OneBecomes
<1>8. ValueOf[o] = TextOf(o) /\ Values!Exists(o) /\ ~ Values!Exists(s)
  BY <1>1, <1>2, <1>5, AliveHasValue
<1> QED BY <1>7, <1>8 DEF Values!copy_construct

LEMMA Destroys ==
  ASSUME RepInv, NEW t \in Threads, NEW s \in Strings, destroy(t, s)
  PROVE  Values!destroy(s)
<1>1. TypeOK /\ CountsOwners /\ NeverNull
  BY DEF RepInv
<1>2. /\ Alive(s) /\ rep[s] # NoNode
      /\ rep' = [rep EXCEPT ![s] = NoNode] /\ heap' = Drop(heap, rep[s])
      /\ call' = call
  BY DEF destroy, Alive
<1>3. \A m \in Nodes : \A y \in Owners(m) : y # s => heap'[m].workspace = heap[m].workspace
  BY <1>1, <1>2, LetGo
<1>4. \A x \in Strings : x # s => /\ Alive(x)' <=> Alive(x)
                                  /\ Alive(x) => TextOf(x)' = TextOf(x)
  BY <1>1, <1>2, <1>3 DEF Alive, Returned, TextOf, TypeOK, Owners
<1>5. ~ Alive(s)'
  BY <1>1, <1>2 DEF Alive, TypeOK
<1>6. Values!Becomes(s, NoText)
  BY <1>4, <1>5, OneBecomes
<1> QED BY <1>1, <1>2, <1>6, AliveHasValue DEF Values!destroy

LEMMA Assigns ==
  ASSUME RepInv, NEW t \in Threads, NEW s \in Strings, NEW o \in Strings, assign(t, s, o)
  PROVE  Values!assign(s, o)
<1>1. TypeOK /\ CountsOwners /\ NeverNull
  BY DEF RepInv
<1>2. /\ Alive(s) /\ Alive(o) /\ s # o /\ rep[s] # NoNode /\ rep[o] # NoNode
      /\ rep' = [rep EXCEPT ![s] = rep[o]]
      /\ heap' = Share(Drop(heap, rep[s]), rep[o])
      /\ call' = call
  BY DEF assign, Alive
<1>3. \A m \in Nodes : \A y \in Owners(m) : y # s => heap'[m].workspace = heap[m].workspace
  BY <1>1, <1>2, TakeOver
<1>4. rep'[s] = rep[o] /\ \A x \in Strings : x # s => rep'[x] = rep[x]
  BY <1>1, <1>2 DEF TypeOK
<1>5. \A x \in Strings : x # s => /\ Alive(x)' <=> Alive(x)
                                  /\ Alive(x) => TextOf(x)' = TextOf(x)
  BY <1>1, <1>2, <1>3, <1>4 DEF Alive, Returned, TextOf, TypeOK, Owners
<1>6. Alive(s)' /\ TextOf(s)' = TextOf(o)
  BY <1>1, <1>2, <1>3, <1>4 DEF Alive, Returned, TextOf, TypeOK, Owners
<1>7. Values!Becomes(s, TextOf(o))
  BY <1>5, <1>6, OneBecomes
<1> QED BY <1>1, <1>2, <1>7, AliveHasValue DEF Values!assign

LEMMA Constructs ==
  ASSUME RepInv, NEW t \in Threads, ConstructString(t)
  PROVE  \E s \in Strings, text \in Values!Literals : Values!construct(s, text)
<1>1. /\ TypeOK /\ NeverNull /\ Apart /\ FrameOK(t)
  BY DEF RepInv
<1>2. PICK s \in Strings : s = call[t].this
  BY <1>1 DEF ConstructString, At, FrameOK
<1>3. PICK text \in Values!Literals : text = call[t].text
  BY <1>1 DEF TypeOK, Operation
<1>4. /\ call[t].pc = "workspace" /\ call[t].op = "construct"
      /\ NewWorkspace(t)
      /\ rep' = [rep EXCEPT ![s] = call[t].node]
      /\ call' = [call EXCEPT ![t] = Idle]
  BY <1>2 DEF ConstructString, At, Return
<1>5. /\ call[t].node \in Nodes
      /\ heap'[call[t].node].workspace = text
      /\ \A x \in Strings : rep[x] # NoNode => heap'[rep[x]] = heap[rep[x]]
  BY <1>3, <1>4, TextsOutlive DEF Written
<1>6. rep[s] = NoNode
  BY <1>1, <1>2, <1>4 DEF FrameOK
<1>7. /\ rep'[s] = call[t].node
      /\ \A x \in Strings : x # s => rep'[x] = rep[x]
      /\ call'[t].pc = "idle" /\ \A u \in Threads : u # t => call'[u] = call[u]
  BY <1>1, <1>4 DEF TypeOK, Idle
<1>8. \A x \in Strings : x # s => /\ Alive(x)' <=> Alive(x)
                                  /\ Alive(x) => TextOf(x)' = TextOf(x)
  BY <1>4, <1>5, <1>7 DEF Alive, Returned, TextOf
<1>9. Returned(s)'
  <2> SUFFICES ASSUME NEW u \in Threads, u # t, call[u].pc = "compute" PROVE call[u].this # s
    BY <1>7 DEF Returned
  <2> QED BY <1>1, <1>2, <1>4 DEF Apart, Builds
<1>10. Alive(s)' /\ TextOf(s)' = text /\ ~ Alive(s)
  BY <1>5, <1>6, <1>7, <1>9, StringAssumption DEF Alive, TextOf
<1>11. Values!Becomes(s, text)
  BY <1>8, <1>10, OneBecomes
<1> QED BY <1>1, <1>10, <1>11, AliveHasValue DEF Values!construct
-----------------------------------------------------------------------------
(* What the other threads have allocated *)

\* A step of t does not touch what another thread has written into its node.
LEMMA NodesKept ==
  ASSUME RepInv, NEW t \in Threads, Start(t) \/ Continue(t),
         NEW u \in Threads, u # t, call[u].node \in Nodes
  PROVE  heap'[call[u].node].workspace = heap[call[u].node].workspace
<1> DEFINE k == call[u].node
<1> SUFFICES heap'[k].workspace = heap[k].workspace
  OBVIOUS
<1>1. /\ TypeOK /\ CountsOwners /\ Apart /\ FrameOK(t)
  BY DEF RepInv
<1>2. /\ k \in Nodes /\ heap \in [Nodes -> Node]
      /\ \A x \in Strings : rep[x] # k
      /\ call[t].node # k
      /\ heap[k].count # 0
  <2>1. u \in Owners(k)
    BY DEF Owners
  <2> QED BY <2>1, <1>1, FreeHasNone, StringAssumption DEF Apart, TypeOK
<1>3. \A a : a # k => Drop(heap, a)[k] = heap[k]
  BY <1>2 DEF Drop
<1>4. \A h, b : h \in [Nodes -> Node] => Share(h, b)[k].workspace = h[k].workspace
  BY <1>2 DEF Share, Node
<1>5. \A a \in Nodes : heap[a].count \in Nat
  BY <1>2 DEF Node
<1> HIDE DEF k
<1>6. ASSUME NEW s \in Strings, NEW o \in Strings, rep[s] \in Nodes,
             heap' = Share(Drop(heap, rep[s]), rep[o])
      PROVE  heap'[k].workspace = heap[k].workspace
  <2>1. Drop(heap, rep[s]) \in [Nodes -> Node]
    <3>1. s \in Owners(rep[s])
      BY DEF Owners
    <3> QED BY <3>1, <1>1, <1>6, DropNode
  <2> QED BY <2>1, <1>2, <1>3, <1>4, <1>6
<1>7. CASE Start(t)
  <2>1. ASSUME NEW s \in Strings, NEW text \in Values!Literals,
               \/ construct(t, s, text) \/ assign_text(t, s, text) \/ append_text(t, s, text)
        PROVE  heap'[k].workspace = heap[k].workspace
    BY <2>1 DEF construct, assign_text, append_text, Call
  <2>2. ASSUME NEW s \in Strings, NEW o \in Strings, append(t, s, o) \/ function(t, s, o)
        PROVE  heap'[k].workspace = heap[k].workspace
    BY <2>2 DEF append, function, Call
  <2>3. ASSUME NEW s \in Strings, destroy(t, s)
        PROVE  heap'[k].workspace = heap[k].workspace
    BY <2>3, <1>2, <1>3 DEF destroy
  <2>4. ASSUME NEW s \in Strings, NEW o \in Strings, copy_construct(t, s, o)
        PROVE  heap'[k].workspace = heap[k].workspace
    BY <2>4, <1>2, <1>4 DEF copy_construct
  <2>5. ASSUME NEW s \in Strings, NEW o \in Strings, assign(t, s, o)
        PROVE  heap'[k].workspace = heap[k].workspace
    BY <2>5, <1>1, <1>6 DEF assign, Alive, TypeOK
  <2> QED BY <1>7, <2>1, <2>2, <2>3, <2>4, <2>5 DEF Start
<1>8. CASE NewNode(t)
  BY <1>2, <1>8 DEF NewNode, SomeFree
<1>9. CASE ConstructString(t) \/ ConstructResult(t) \/ FillNode(t)
  BY <1>2, <1>9 DEF ConstructString, ConstructResult, FillNode, NewWorkspace
<1>10. CASE ReplaceByText(t) \/ ReplaceByLonger(t)
  <2>1. call[t].this \in Strings /\ heap' = Drop(heap, rep[call[t].this])
    BY <1>1, <1>10 DEF ReplaceByText, ReplaceByLonger, Replace, FrameOK
  <2> QED BY <2>1, <1>2, <1>3
<1>11. ASSUME call[t].pc = "compute"
       PROVE  call[t].this \in Strings /\ rep[call[t].this] \in Nodes /\ call[t].other \in Strings
  BY <1>1, <1>11, StringAssumption DEF FrameOK, TypeOK
<1>12. CASE ReturnEmpty(t) \/ ReturnComputed(t)
  BY <1>2, <1>11, <1>12 DEF ReturnEmpty, ReturnComputed
<1>13. CASE ReturnShared(t)
  BY <1>6, <1>11, <1>13 DEF ReturnShared
<1>14. CASE OutOfMemory(t)
  BY <1>2, <1>3, <1>14 DEF OutOfMemory
<1>15. CASE ResultOutOfMemory(t)
  BY <1>2, <1>3, <1>11, <1>15 DEF ResultOutOfMemory
<1> QED BY <1>7, <1>8, <1>9, <1>10, <1>12, <1>13, <1>14, <1>15 DEF Continue

\* While u is in append() or a function, the texts of all Strings stay as they are.
LEMMA TextsKept ==
  ASSUME RepInv, NEW t \in Threads, Start(t) \/ Continue(t),
         NEW u \in Threads, u # t, call[u].op \in {"append", "function"},
         NEW x \in Strings, rep[x] # NoNode
  PROVE  TextOf(x)' = TextOf(x)
<1>1. /\ TypeOK /\ CountsOwners /\ Apart /\ FrameOK(t)
  BY DEF RepInv
<1>2. ~ LockFree /\ ~ Holds(t)
  BY NobodyInside, OthersOutside
<1>3. rep[x] \in Nodes /\ heap[rep[x]].count # 0
  <2>1. rep[x] \in Nodes /\ x \in Owners(rep[x])
    BY <1>1 DEF TypeOK, Owners
  <2> QED BY <2>1, <1>1, FreeHasNone
<1>4. CASE Start(t)
  BY <1>2, <1>4 DEF Start, construct, assign_text, append_text, append, function, Call, Lock,
                    copy_construct, assign, destroy, TextOf
<1>5. CASE NewNode(t)
  BY <1>1, <1>3, <1>5 DEF NewNode, SomeFree, TextOf, TypeOK
<1>6. CASE ConstructString(t)
  <2>1. call[t].this \in Strings /\ rep[call[t].this] = NoNode
    BY <1>1, <1>6 DEF ConstructString, At, FrameOK
  <2>2. rep'[x] = rep[x]
    BY <2>1, <1>1, <1>6 DEF ConstructString, TypeOK
  <2> QED BY <2>2, <1>6, TextsOutlive DEF ConstructString, TextOf
<1>7. CASE FillNode(t)
  BY <1>7, TextsOutlive DEF FillNode, TextOf
<1>8. CASE OutOfMemory(t)
  BY <1>1, <1>3, <1>8 DEF OutOfMemory, Drop, TextOf, Apart, TypeOK
<1>9. ~ ReplaceByText(t) /\ ~ ReplaceByLonger(t) /\ ~ ConstructResult(t) /\ call[t].pc # "compute"
  BY <1>1, <1>2 DEF ReplaceByText, ReplaceByLonger, ConstructResult, At, FrameOK
<1> QED BY <1>4, <1>5, <1>6, <1>7, <1>8, <1>9
        DEF Continue, ReturnEmpty, ReturnComputed, ReturnShared, ResultOutOfMemory
\* What a thread has written stays what it is to write.
LEMMA FilledKept ==
  ASSUME RepInv, Filled, NEW t \in Threads, Start(t) \/ Continue(t),
         NEW u \in Threads, u # t, call[u].pc = "replace", call'[u] = call[u]
  PROVE  heap'[call[u].node].workspace = Written(call[u])'
<1> DEFINE c == call[u]
<1>1. /\ FrameOK(u) /\ c \in Operation
  BY DEF RepInv, TypeOK
<1>2. c.node \in Nodes
  BY <1>1 DEF FrameOK, Operation
<1>3. heap'[c.node].workspace = heap[c.node].workspace
  BY <1>2, NodesKept
<1>4. heap[c.node].workspace = Written(c)
  BY DEF Filled
<1>5. CASE c.op = "append"
  <2>1. PICK s \in Strings : s = c.this /\ rep[s] # NoNode
    BY <1>1, <1>5 DEF FrameOK
  <2>2. TextOf(s)' = TextOf(s)
    BY <1>5, <2>1, TextsKept
  <2>3. CASE c.other = NoString
    BY <1>3, <1>4, <1>5, <2>1, <2>2, <2>3 DEF Written, TextOf
  <2>4. CASE c.other # NoString
    <3>1. PICK o \in Strings : o = c.other /\ rep[o] # NoNode
      BY <1>1, <2>4 DEF FrameOK, Operation
    <3>2. TextOf(o)' = TextOf(o)
      BY <1>5, <3>1, TextsKept
    <3> QED BY <1>3, <1>4, <1>5, <2>1, <2>2, <2>4, <3>1, <3>2 DEF Written, TextOf
  <2> QED BY <2>3, <2>4
<1>6. CASE c.op = "assign"
  BY <1>3, <1>4, <1>6 DEF Written
<1> QED BY <1>1, <1>5, <1>6 DEF FrameOK

\* A step of one thread leaves the local variables of the others.
LEMMA OthersKept ==
  ASSUME RepInv, NEW t \in Threads, Start(t) \/ Continue(t), NEW u \in Threads, u # t
  PROVE  call'[u] = call[u]
<1>1. call \in [Threads -> Operation]
  BY DEF RepInv, TypeOK
<1>2. (\E d : call' = [call EXCEPT ![t] = d]) => call'[u] = call[u]
  BY <1>1
<1>3. call' = call \/ \E d : call' = [call EXCEPT ![t] = d]
  <2>1. CASE Start(t)
    BY <2>1 DEF Start, construct, assign_text, append_text, append, function, Call,
                copy_construct, assign, destroy
  <2>2. CASE Continue(t)
    BY <2>2 DEF Continue, NewNode, ConstructString, ConstructResult, FillNode, Replace, GoTo,
                ReplaceByText, ReplaceByLonger, ReturnEmpty, ReturnComputed, ReturnShared,
                OutOfMemory, ResultOutOfMemory, Return
  <2> QED BY <2>1, <2>2
<1> QED BY <1>2, <1>3

LEMMA StepFilled == RepInv /\ Filled /\ [Next]_vars => Filled'
<1> SUFFICES ASSUME RepInv, Filled, [Next]_vars PROVE Filled'
  OBVIOUS
<1>1. CASE UNCHANGED vars
  BY <1>1 DEF vars, Filled, Written, TextOf
<1>2. ASSUME NEW t \in Threads, Start(t) \/ Continue(t) PROVE Filled'
  <2>1. call[t] \in Operation /\ call \in [Threads -> Operation] /\ FrameOK(t)
    BY DEF RepInv, TypeOK
  <2>2. ASSUME NEW u \in Threads, u # t
        PROVE  /\ call'[u].pc = "replace" => heap'[call'[u].node].workspace = Written(call[u])'
               /\ call'[u].pc = "compute" => TextOf(call[u].this)' = << >>
    <3>1. call'[u] = call[u]
      BY <1>2, <2>2, OthersKept
    <3>2. CASE call[u].pc = "replace"
      BY <1>2, <2>2, <3>1, <3>2, FilledKept
    <3>3. CASE call[u].pc = "compute"
      <4>1. PICK s \in Strings : s = call[u].this /\ rep[s] # NoNode
        BY <3>3 DEF RepInv, FrameOK
      <4>2. TextOf(s)' = TextOf(s)
        BY <1>2, <2>2, <3>3, <4>1, TextsKept DEF RepInv, FrameOK
      <4>3. TextOf(s) = << >>
        BY <3>3, <4>1 DEF Filled
      <4> QED BY <3>1, <3>3, <4>1, <4>2, <4>3 DEF TextOf
    <3> QED BY <3>1, <3>2, <3>3
  <2>3. CASE FillNode(t)
    <3> DEFINE c == call[t]
               d == call'[t]
    <3>1. d = [c EXCEPT !.pc = "replace"] /\ NewWorkspace(t) /\ rep' = rep /\ c.op \in {"assign", "append"}
      BY <2>1, <2>3 DEF FillNode, GoTo, At
    <3>2. /\ c.op = "append" => c.this \in Strings /\ rep[c.this] # NoNode
          /\ c.other # NoString => c.other \in Strings /\ rep[c.other] # NoNode
      BY <2>1, <3>1 DEF FrameOK, Operation, Idle
    <3>3. /\ heap'[c.node].workspace = Written(c)
          /\ \A x \in Strings : rep[x] # NoNode => heap'[rep[x]] = heap[rep[x]]
      BY <3>1, TextsOutlive
    <3>4. d = call'[t] /\ c \in Operation
      BY <2>1
    <3> HIDE DEF c, d
    <3>5. /\ d.node = c.node /\ d.op = c.op /\ d.this = c.this /\ d.other = c.other /\ d.text = c.text
          /\ d.pc = "replace"
      BY <3>1, <3>4 DEF Operation
    <3>6. heap'[d.node].workspace = Written(call[t])'
      BY <3>1, <3>2, <3>3, <3>4, <3>5 DEF Written, TextOf
    <3> QED BY <2>2, <3>4, <3>5, <3>6 DEF Filled
  <2>4. CASE ConstructResult(t)
    <3>1. PICK s \in Strings : s = call[t].this /\ call[t].op = "function"
      BY <2>1, <2>4 DEF ConstructResult, At, FrameOK
    <3>2. call'[t].pc = "compute" /\ call'[t].this = s
      BY <2>1, <2>4, <3>1 DEF ConstructResult, Operation
    <3>3. rep'[s] = call[t].node
      BY <2>4, <3>1 DEF ConstructResult, RepInv, TypeOK
    <3>4. heap'[call[t].node].workspace = << >>
      BY <2>4, <3>1, TextsOutlive DEF ConstructResult, Written
    <3> QED BY <2>2, <3>2, <3>3, <3>4 DEF Filled, TextOf
  <2>5. ASSUME ~ FillNode(t), ~ ConstructResult(t)
        PROVE  call'[t].pc \notin {"replace", "compute"}
    <3>1. CASE Start(t)
      <4>1. call[t].pc = "idle" /\ (call' = call \/ call'[t].pc = "node")
        BY <2>1, <3>1 DEF Start, construct, assign_text, append_text, append, function, Call,
                          copy_construct, assign, destroy, Idle
      <4> QED BY <4>1
    <3>2. CASE NewNode(t)
      BY <2>1, <3>2 DEF NewNode, Operation
    <3>3. CASE call' = [call EXCEPT ![t] = Idle]
      BY <2>1, <3>3 DEF Idle
    <3> QED BY <1>2, <2>5, <3>1, <3>2, <3>3
            DEF Continue, ConstructString, Replace, ReplaceByText, ReplaceByLonger, ReturnEmpty,
                ReturnComputed, ReturnShared, OutOfMemory, ResultOutOfMemory, Return
  <2> QED BY <2>2, <2>3, <2>4, <2>5 DEF Filled
<1> QED BY <1>1, <1>2 DEF Next

\* The String an operation works on, and its argument, are there.
LEMMA OperandsAlive ==
  ASSUME RepInv, NEW t \in Threads, NEW x \in Strings, rep[x] # NoNode,
         \/ x = call[t].other
         \/ x = call[t].this /\ call[t].pc # "compute"
  PROVE  Alive(x)
<1> SUFFICES ASSUME NEW u \in Threads, call[u].pc = "compute", call[u].this = x PROVE FALSE
  BY DEF Alive, Returned
<1>1. Apart /\ FrameOK(u)
  BY DEF RepInv
<1>2. call[u].op = "function" /\ call[u].other # x
  BY <1>1 DEF FrameOK
<1> QED BY <1>1, <1>2 DEF Apart, Builds

\* operator=(const char *) and append().
LEMMA Replaces ==
  ASSUME IInv, NEW t \in Threads, ReplaceByText(t) \/ ReplaceByLonger(t)
  PROVE  Values!Next
<1> DEFINE c == call[t]
<1>1. RepInv /\ TypeOK /\ CountsOwners /\ NeverNull /\ Apart /\ FrameOK(t)
  BY DEF IInv, RepInv
<1>2. c \in Operation /\ c.pc = "replace"
  BY <1>1 DEF TypeOK, ReplaceByText, ReplaceByLonger, Replace
<1>3. PICK s \in Strings : s = c.this /\ rep[s] # NoNode
  BY <1>1, <1>2 DEF FrameOK
<1>4. PICK n \in Nodes : n = c.node
  BY <1>1, <1>2 DEF FrameOK, Operation
<1>5. /\ rep' = [rep EXCEPT ![s] = n] /\ heap' = Drop(heap, rep[s])
      /\ call' = [call EXCEPT ![t] = Idle]
  BY <1>3, <1>4 DEF ReplaceByText, ReplaceByLonger, Replace, Return
<1>6. Alive(s)
  BY <1>1, <1>2, <1>3, OperandsAlive
<1>7. /\ rep'[s] = n /\ \A x \in Strings : x # s => rep'[x] = rep[x]
      /\ call'[t].pc = "idle" /\ \A u \in Threads : u # t => call'[u] = call[u]
  BY <1>1, <1>5 DEF TypeOK, Idle
<1>8. rep[s] \in Nodes /\ rep[s] # n
  BY <1>1, <1>3, <1>4, StringAssumption DEF TypeOK, Apart
<1>9. heap'[n] = heap[n]
  BY <1>1, <1>5, <1>8 DEF Drop, TypeOK
<1>10. \A x \in Strings : x # s /\ rep[x] # NoNode =>
          heap'[rep[x]].workspace = heap[rep[x]].workspace
  <2>1. s \in Owners(rep[s])
    BY DEF Owners
  <2>2. /\ \A y \in Owners(rep[s]) : y # s =>
              Drop(heap, rep[s])[rep[s]].workspace = heap[rep[s]].workspace
        /\ \A m \in Nodes : m # rep[s] => Drop(heap, rep[s])[m] = heap[m]
    BY <1>1, <1>8, <2>1, DropNode
  <2> QED BY <2>2, <1>1, <1>5 DEF TypeOK, Owners
<1>11. \A x \in Strings : Returned(x)' <=> Returned(x)
  BY <1>2, <1>7 DEF Returned
<1>12. \A x \in Strings : x # s => /\ Alive(x)' <=> Alive(x)
                                   /\ Alive(x) => TextOf(x)' = TextOf(x)
  BY <1>7, <1>10, <1>11 DEF Alive, TextOf
<1>13. heap[n].workspace = Written(c)
  BY <1>2, <1>4 DEF IInv, Filled
<1>14. Alive(s)' /\ TextOf(s)' = heap[n].workspace
  BY <1>4, <1>6, <1>7, <1>9, <1>11, StringAssumption DEF Alive, TextOf
<1>15. Values!Becomes(s, heap[n].workspace)
  BY <1>12, <1>14, OneBecomes
<1>16. Values!Exists(s) /\ ValueOf[s] = TextOf(s)
  BY <1>1, <1>6, AliveHasValue
<1>17. PICK text \in Values!Literals : text = c.text
  BY <1>2 DEF Operation
<1>18. CASE c.op = "assign"
  <2>1. Values!assign_text(s, text)
    BY <1>13, <1>15, <1>16, <1>17, <1>18 DEF Written, Values!assign_text
  <2> QED BY <2>1 DEF Values!Next
<1>19. CASE c.op = "append" /\ c.other = NoString
  <2>1. Values!append_text(s, text)
    BY <1>3, <1>13, <1>15, <1>16, <1>17, <1>19 DEF Written, Values!append_text
  <2> QED BY <2>1 DEF Values!Next
<1>20. CASE c.op = "append" /\ c.other # NoString
  <2>1. PICK o \in Strings : o = c.other /\ rep[o] # NoNode
    BY <1>1, <1>2, <1>20 DEF FrameOK, Operation
  <2>2. Values!Exists(o) /\ ValueOf[o] = TextOf(o)
    BY <1>1, <2>1, OperandsAlive, AliveHasValue
  <2>3. Values!append(s, o)
    BY <1>3, <1>13, <1>15, <1>16, <1>20, <2>1, <2>2 DEF Written, Values!append
  <2> QED BY <2>3 DEF Values!Next
<1> QED BY <1>1, <1>2, <1>18, <1>19, <1>20 DEF FrameOK

\* The end of a function: its result is one of the texts that it may return.
LEMMA Returns ==
  ASSUME IInv, NEW t \in Threads, ReturnEmpty(t) \/ ReturnComputed(t) \/ ReturnShared(t)
  PROVE  Values!Next
<1>1. RepInv /\ TypeOK /\ CountsOwners /\ NeverNull /\ Apart /\ FrameOK(t)
  BY DEF IInv, RepInv
<1>2. call[t].pc = "compute" /\ call' = [call EXCEPT ![t] = Idle]
  BY DEF ReturnEmpty, ReturnComputed, ReturnShared, Return
<1>3. PICK s \in Strings, o \in Strings : /\ s = call[t].this /\ o = call[t].other /\ s # o
                                          /\ rep[s] \in Nodes /\ rep[o] \in Nodes
  BY <1>1, <1>2, ResultFrame
<1>4. /\ call'[t].pc = "idle" /\ \A u \in Threads : u # t => call'[u] = call[u]
  BY <1>1, <1>2 DEF TypeOK, Idle
<1>5. /\ Returned(s)' /\ ~ Returned(s)
      /\ \A x \in Strings : x # s => (Returned(x)' <=> Returned(x))
  <2>1. \A u \in Threads : u # t => call[u].pc # "compute"
    BY <1>1, <1>2, ResultFrame, OthersOutside
  <2> QED BY <2>1, <1>2, <1>3, <1>4 DEF Returned
<1>6. /\ ~ Values!Exists(s) /\ Values!Exists(o) /\ ValueOf[o] = TextOf(o)
  <2>1. Alive(o) /\ ~ Alive(s)
    BY <1>1, <1>3, <1>5, OperandsAlive, StringAssumption DEF Alive
  <2> QED BY <2>1, <1>1, AliveHasValue
<1>7. TextOf(s) = << >>
  BY <1>2, <1>3 DEF IInv, Filled
<1>8. \A x \in Strings : x # s => rep[x] # rep[s]
  BY <1>1, <1>2, <1>3 DEF Apart
<1>9. SUFFICES \E text \in Values!Results(TextOf(o)) : Values!Becomes(s, text)
  BY <1>6, <1>9 DEF Values!Next, Values!function
<1>10. CASE ReturnEmpty(t)
  <2>1. rep' = rep /\ heap' = heap
    BY <1>10 DEF ReturnEmpty
  <2>2. \A x \in Strings : x # s => /\ Alive(x)' <=> Alive(x)
                                    /\ Alive(x) => TextOf(x)' = TextOf(x)
    BY <2>1, <1>5 DEF Alive, TextOf
  <2>3. Alive(s)' /\ TextOf(s)' = << >>
    BY <2>1, <1>3, <1>5, <1>7, StringAssumption DEF Alive, TextOf
  <2>4. Values!Becomes(s, << >>)
    BY <2>2, <2>3, OneBecomes
  <2> QED BY <2>4 DEF Values!Results
<1>11. CASE ReturnComputed(t)
  <2>1. PICK text \in Values!Computed(TextOf(o)) :
           heap' = [heap EXCEPT ![rep[s]].workspace = text]
    BY <1>3, <1>11 DEF ReturnComputed
  <2>2. /\ rep' = rep /\ heap'[rep[s]].workspace = text
        /\ \A m \in Nodes : m # rep[s] => heap'[m] = heap[m]
    BY <2>1, <1>1, <1>3, <1>11 DEF ReturnComputed, TypeOK, Node
  <2>3. \A x \in Strings : x # s => /\ Alive(x)' <=> Alive(x)
                                    /\ Alive(x) => TextOf(x)' = TextOf(x)
    BY <2>2, <1>1, <1>5, <1>8 DEF Alive, TextOf, TypeOK
  <2>4. Alive(s)' /\ TextOf(s)' = text
    BY <2>2, <1>3, <1>5, StringAssumption DEF Alive, TextOf
  <2>5. Values!Becomes(s, text)
    BY <2>3, <2>4, OneBecomes
  <2> QED BY <2>5 DEF Values!Results
<1>12. CASE ReturnShared(t)
  <2>1. /\ rep' = [rep EXCEPT ![s] = rep[o]]
        /\ heap' = Share(Drop(heap, rep[s]), rep[o])
    BY <1>3, <1>12 DEF ReturnShared
  <2>2. /\ rep'[s] = rep[o] /\ \A x \in Strings : x # s => rep'[x] = rep[x]
        /\ \A u \in Threads : call'[u].node = call[u].node
    BY <2>1, <1>1, <1>2, <1>3, ResultFrame DEF TypeOK
  <2>3. \A m \in Nodes : \A y \in Owners(m) : y # s => heap'[m].workspace = heap[m].workspace
    <3>1. rep[s] # NoNode /\ rep[o] # NoNode
      BY <1>3, StringAssumption
    <3> QED BY <3>1, <2>1, <2>2, <1>1, <1>3, TakeOver
  <2>4. \A x \in Strings : x # s /\ rep[x] # NoNode =>
           heap'[rep[x]].workspace = heap[rep[x]].workspace
    BY <2>3, <1>1 DEF TypeOK, Owners
  <2>5. \A x \in Strings : x # s => /\ Alive(x)' <=> Alive(x)
                                    /\ Alive(x) => TextOf(x)' = TextOf(x)
    BY <2>2, <2>4, <1>5 DEF Alive, TextOf
  <2>6. Alive(s)' /\ TextOf(s)' = TextOf(o)
    BY <2>2, <2>4, <1>3, <1>5, StringAssumption DEF Alive, TextOf
  <2>7. Values!Becomes(s, TextOf(o))
    BY <2>5, <2>6, OneBecomes
  <2> QED BY <2>7 DEF Values!Results
<1> QED BY <1>10, <1>11, <1>12

\* Every step changes the value of one String, as the abstract step does, or none.
LEMMA StepRefines == IInv /\ [Next]_vars => [Values!Next]_ValueOf
<1> SUFFICES ASSUME IInv, [Next]_vars PROVE Values!Next \/ ValueOf' = ValueOf
  OBVIOUS
<1>1. RepInv
  BY DEF IInv
<1>2. CASE UNCHANGED vars
  BY <1>2 DEF vars, ValueOf, Returned
<1>3. ASSUME NEW t \in Threads, Continue(t) PROVE Values!Next \/ ValueOf' = ValueOf
  <2>1. CASE ConstructString(t)
    BY <2>1, <1>1, Constructs DEF Values!Next
  <2> QED BY <2>1, <1>1, <1>3, HiddenSteps, Replaces, Returns DEF Continue
<1>4. ASSUME NEW t \in Threads, NEW s \in Strings, NEW text \in Values!Literals,
             construct(t, s, text) \/ assign_text(t, s, text) \/ append_text(t, s, text)
      PROVE  ValueOf' = ValueOf
  BY <1>1, <1>4, CallHidden DEF construct, assign_text, append_text
<1>5. ASSUME NEW t \in Threads, NEW s \in Strings, NEW o \in Strings,
             append(t, s, o) \/ function(t, s, o)
      PROVE  ValueOf' = ValueOf
  BY <1>1, <1>5, CallHidden DEF append, function
<1>6. ASSUME NEW t \in Threads, NEW s \in Strings, NEW o \in Strings,
             copy_construct(t, s, o) \/ assign(t, s, o)
      PROVE  Values!Next
  BY <1>1, <1>6, CopyConstructs, Assigns DEF Values!Next
<1>7. ASSUME NEW t \in Threads, NEW s \in Strings, destroy(t, s)
      PROVE  Values!Next
  BY <1>1, <1>7, Destroys DEF Values!Next
<1> QED BY <1>2, <1>3, <1>4, <1>5, <1>6, <1>7 DEF Next, Start

\* The invariant that TLC checks holds for every number of Strings, nodes and
\* threads: str.cpp:45-47 and :8 with what an operation relies on in between.
THEOREM IInvariant == Spec => []IInv
<1>1. Init => Filled
  BY DEF Init, Filled, Idle
<1>2. Filled /\ RepInv /\ [Next]_vars => Filled'
  BY StepFilled
<1> QED BY <1>1, <1>2, RepInvariant, PTL DEF Spec, IInv

\* str.cpp:66-69: the shared representation implements strings with values of
\* their own, whatever the threads do and whichever allocation fails.
THEOREM Implements == Spec => ImplementsStringValues
<1>1. Init => Values!Init
  BY DEF Init, Values!Init, ValueOf
<1>2. IInv /\ [Next]_vars => [Values!Next]_ValueOf
  BY StepRefines
<1> QED BY <1>1, <1>2, IInvariant, PTL DEF Spec, ImplementsStringValues, Values!Spec
=============================================================================
