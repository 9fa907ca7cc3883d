----------------------------- MODULE StringValues -----------------------------
(***************************************************************************)
(* What spica::String promises: strings have value semantics, each         *)
(* operation changes the string it is called on, at one moment, and no     *)
(* other, and one that fails changes none.  Nothing is shared.             *)
(***************************************************************************)
EXTENDS Integers, Sequences

CONSTANTS
    Strings,      \* places for String objects
    Char,         \* characters
    NoText        \* the value of a place without a String

VARIABLE value    \* the text of every String

\* Texts the callers write into their program: arguments of type char and
\* const char *.
Literals == {<< >>} \union {<<c>> : c \in Char}

\* The values a method that returns a new string may compute from a text:
\* substr(2) and copy(2) shorten and lengthen it, erase(1, 0) returns it as
\* it is and substr(0) returns nothing.
Computed(text) == {SubSeq(text, 2, Len(text)), text \o text}
Results(text) == Computed(text) \union {text, << >>}

Exists(s) == value[s] # NoText
Becomes(s, text) == value' = [value EXCEPT ![s] = text]

construct(s, text)  == ~Exists(s) /\ Becomes(s, text)
copy_construct(s, o) == ~Exists(s) /\ Exists(o) /\ Becomes(s, value[o])
function(s, o)      == /\ ~Exists(s) /\ Exists(o)
                       /\ \E text \in Results(value[o]) : Becomes(s, text)
assign(s, o)        == Exists(s) /\ Exists(o) /\ Becomes(s, value[o])
assign_text(s, text) == Exists(s) /\ Becomes(s, text)
append(s, o)        == Exists(s) /\ Exists(o) /\ Becomes(s, value[s] \o value[o])
append_text(s, text) == Exists(s) /\ Becomes(s, value[s] \o text)
destroy(s)          == Exists(s) /\ Becomes(s, NoText)

Init == value = [s \in Strings |-> NoText]

Next == \E s \in Strings :
    \/ destroy(s)
    \/ \E text \in Literals : \/ construct(s, text)
                              \/ assign_text(s, text)
                              \/ append_text(s, text)
    \/ \E o \in Strings : \/ copy_construct(s, o)
                          \/ function(s, o)
                          \/ assign(s, o)
                          \/ append(s, o)

Spec == Init /\ [][Next]_value
=============================================================================
