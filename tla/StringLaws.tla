----------------------------- MODULE StringLaws -----------------------------
(***************************************************************************)
(* A String that grows character by character, and the laws its functions  *)
(* obey for every text it has on the way and for all arguments.            *)
(***************************************************************************)
EXTENDS StringFunctions

CONSTANT MaxText    \* bound on the length of the text

\* What is allocated for a text and its NUL is an int.
ASSUME TextAssumption == MaxText \in Nat /\ MaxText < IntMax

VARIABLE text

\* append(char)
append(ch) == text' = text \o <<ch>>

\* erase()
clear == text' = << >>

Init == text = << >>
Next == \/ Len(text) < MaxText /\ \E ch \in Char : append(ch)
        \/ clear
Spec == Init /\ [][Next]_text
-----------------------------------------------------------------------------
\* Arguments: every int (an offset of INT_MIN - 1 and an allocation of
\* INT_MAX + 1 characters are undefined), pads, needles and sets of delimiters.
Ints      == -IntMax .. IntMax
Lengths   == -1 .. IntMax - 1
Needles   == UNION {[1 .. k -> Char] : k \in 0 .. 2}
Delimiters == {Default} \union SUBSET Char

NewTexts ==
    {right(text, n, pad) : n \in Lengths, pad \in Char} \union
    {left(text, n, pad) : n \in Lengths, pad \in Char} \union
    {center(text, n, pad) : n \in Lengths, pad \in Char} \union
    {copy(text, n) : n \in -1 .. 3} \union
    {erase(text, o, n) : o \in Ints, n \in Ints} \union
    {insert(text, incoming, o, n) : incoming \in Needles, o \in Ints, n \in Ints} \union
    {substr(text, o, n) : o \in Ints, n \in Ints} \union
    {strip(text, mode, ch) : mode \in {"L", "T", "B"}, ch \in Char} \union
    {subword(text, o, n, white) : o \in Ints, n \in Ints, white \in Delimiters}

\* str.cpp:47, :598-599, :929: whatever the arguments, also counts of INT_MAX,
\* every function reads inside its text and writes what it has allocated, the
\* terminating NUL included.
BuffersFit == \A new \in NewTexts : /\ new.alloc = Len(new.text) + 1
                                    /\ \A i \in DOMAIN new.text : new.text[i] \in Char

\* str.cpp:401-404, :445-448, :490-494: a string is padded to, or cut to, exactly
\* the requested length, and centering is padding half of the room on the left
\* and the rest on the right.
PaddingExact == \A n \in Lengths, pad \in Char :
    LET r == right(text, n, pad).text
        l == left(text, n, pad).text
        c == center(text, n, pad).text
        half == right(text, Len(text) + (n - Len(text)) \div 2, pad).text
    IN  /\ {Len(r), Len(l), Len(c)} = {IF n < 0 THEN 0 ELSE n}
        /\ IsSuffix(r, Fill(pad, IntMax) \o text)
        /\ IsPrefix(l, text \o Fill(pad, IntMax))
        /\ c = left(IF n > Len(text) THEN half ELSE text, n, pad).text

\* str.cpp:54-60, :571-573, :616-630: substr() is what erase() takes out, and
\* insert() puts it back; what insert() puts in, also just past the end, erase()
\* takes out; offsets off the ends change nothing.  A copy more is the text
\* inserted behind the others.
EraseUndoesInsert ==
    /\ \A n \in 0 .. 2 : n * Len(text) + 1 \in Ints =>
          insert(copy(text, n).text, text, n * Len(text) + 1, IntMax) = copy(text, n + 1)
    /\ \A o \in Ints, n \in Ints :
          insert(erase(text, o, n).text, substr(text, o, n).text, o, IntMax) = Same(text)
    /\ \A o \in Ints, n \in Ints, incoming \in Needles :
          LET longer == insert(text, incoming, o, n).text
              added  == Len(longer) - Len(text)
          IN  /\ erase(longer, o, added) = Same(text)
              /\ o \in 1 .. Len(text) + 1 =>
                    substr(longer, o, added).text = substr(incoming, 1, n).text

\* str.cpp:668-675, :702-708, :733-741: forward and backward searches agree on
\* what there is to find, searching on from a match finds the next one, and a
\* text is found where substr() has it and not before.
SearchesAgree ==
    /\ \A ch \in Char \union {NUL}, o \in Ints :
          LET p == pos(text, ch, o)
              q == last_pos(text, ch, o)
          IN  /\ p # 0 => /\ p >= o /\ last_pos(text, ch, p - 1) < o
                          /\ \A end \in p .. IntMax : last_pos(text, ch, end) >= p
              /\ q # 0 => /\ q <= o /\ pos(text, ch, q + 1) \notin 1 .. o
                          /\ \A begin \in 1 .. q : pos(text, ch, begin) \in 1 .. q
              /\ p = 0 /\ o \in 1 .. Len(text) + 1 => last_pos(text, ch, IntMax) < o
    /\ \A needle \in Needles, o \in Ints :
          LET p == pos_text(text, needle, o)
              Matches == {i \in 1 .. Len(text) + 1 :
                             i >= o /\ substr(text, i, Len(needle)).text = needle}
          IN  o >= 1 => p = (IF Matches = {} THEN 0 ELSE Min(Matches))

\* str.cpp:770-777: what strip() removes is copies of kill_char and no more can
\* be removed; both ends are one after the other, in either order.
StripIsComplete == \A ch \in Char :
    LET leading  == strip(text, "L", ch).text
        trailing == strip(text, "T", ch).text
        both     == strip(text, "B", ch).text
    IN  /\ both = strip(leading, "T", ch).text
        /\ both = strip(trailing, "L", ch).text
        /\ text = Fill(ch, Len(text) - Len(leading)) \o leading
        /\ text = trailing \o Fill(ch, Len(text) - Len(trailing))
        /\ leading # << >> => leading[1] # ch
        /\ trailing # << >> => trailing[Len(trailing)] # ch

\* str.cpp:880-883, :960: what separates words: white space, unless the caller says what.
Separates(ch, white) == ch \in (IF white = Default THEN Blank ELSE white)

\* The maximal runs of characters that are not delimiters, first to last.
Runs(white) == {r \in (1 .. Len(text)) \X (1 .. Len(text)) :
    /\ \A i \in r[1] .. r[2] : ~Separates(text[i], white)
    /\ r[1] <= r[2]
    /\ r[1] = 1 \/ Separates(text[r[1] - 1], white)
    /\ r[2] = Len(text) \/ Separates(text[r[2] + 1], white)}

\* str.cpp:878-892, :960-964: words are the maximal runs, and subword() returns
\* them from the first to the last wanted with what is between them, for any
\* offset, any count and any set of delimiters, whether the text ends in one or
\* in a word.
WordsAreRuns == \A white \in Delimiters :
    LET runs    == Runs(white)
        Word(k) == CHOOSE r \in runs : Cardinality({s \in runs : s[1] <= r[1]}) = k
        count   == Cardinality(runs)
    IN  /\ words(text, white) = count
        /\ \A o \in Ints, n \in Ints :
              subword(text, o, n, white).text =
                IF o \in 1 .. count /\ n > 0
                THEN SubSeq(text, Word(o)[1], Word(Smaller(count, o + n - 1))[2])
                ELSE << >>
=============================================================================
