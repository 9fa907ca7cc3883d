--------------------------- MODULE StringFunctions ---------------------------
(***************************************************************************)
(* The methods of spica::String that read a text and return a new one or a *)
(* position in it.  Inside, offsets count from zero as in the code, and a  *)
(* new text comes with the number of characters allocated for it.          *)
(***************************************************************************)
EXTENDS Integers, Sequences, SequencesExt, FiniteSetsExt

CONSTANTS
    Char,      \* the characters of a text
    NUL,       \* the one that ends it
    Outside,   \* what is read beyond that
    Blank,     \* the characters that are white space by default
    Default,   \* white = 0
    IntMax     \* INT_MAX

ASSUME CharacterAssumption ==
    /\ Blank \subseteq Char
    /\ NUL \notin Char /\ Outside \notin Char
    /\ IntMax \in Nat

\* An int, which wraps.
Wrap(x) == ((x + IntMax + 1) % (2 * (IntMax + 1))) - (IntMax + 1)
Smaller(m, n) == IF m < n THEN m ELSE n

\* rep->workspace[i]; memcpy() of n characters from there; strcpy() from there.
At(text, i) == IF i \in 0 .. Len(text) - 1 THEN text[i + 1]
               ELSE IF i = Len(text) THEN NUL ELSE Outside
Piece(text, i, n) == [k \in 1 .. n |-> At(text, i + k - 1)]
Rest(text, i) == SubSeq(text, i + 1, Len(text))
Fill(ch, n) == [k \in 1 .. n |-> ch]

\* The new string: String result; with its workspace replaced; result = *this.
Result(alloc, text) == [alloc |-> alloc, text |-> text]
Empty == Result(1, << >>)
Same(text) == Result(Len(text) + 1, text)
-----------------------------------------------------------------------------
\* Padding and copying

right(text, length, pad) ==
    LET current == Len(text)
    IN  IF length <= 0 THEN Empty
        ELSE Result(length + 1, IF length < current
                                THEN Rest(text, current - length)
                                ELSE Fill(pad, length - current) \o text)

left(text, length, pad) ==
    LET current == Len(text)
    IN  IF length <= 0 THEN Empty
        ELSE Result(length + 1, IF length < current
                                THEN Piece(text, 0, length)
                                ELSE text \o Fill(pad, length - current))

\* Variant: both sides are half of the room.
centerHalves(text, length, pad) ==
    LET side == (length - Len(text)) \div 2
    IN  IF length <= 0 THEN Empty
        ELSE IF length <= Len(text) THEN left(text, length, pad)
        ELSE Result(length + 1, Fill(pad, side) \o text \o Fill(pad, side))

center(text, length, pad) ==
    LET left_side  == (length - Len(text)) \div 2
        right_side == length - Len(text) - left_side
    IN  IF length <= 0 THEN Empty
        ELSE IF length <= Len(text) THEN left(text, length, pad)
        ELSE Result(length + 1, Fill(pad, left_side) \o text \o Fill(pad, right_side))

\* strcat() of the text, count times.
copy(text, count) ==
    LET temp[k \in 0 .. count] == IF k = 0 THEN << >> ELSE temp[k - 1] \o text
    IN  IF count < 0 THEN Empty ELSE Result(count * Len(text) + 1, temp[count])
-----------------------------------------------------------------------------
\* Pieces

\* Variant: the count is trimmed by comparing the end with the length.
eraseByEnd(text, offset, count) ==
    LET o == Wrap(offset - 1)
        n == IF Wrap(o + count) > Len(text) THEN Len(text) - o ELSE count
    IN  IF o < 0 \/ count < 0 \/ o >= Len(text) \/ count = 0 THEN Same(text)
        ELSE Result(Len(text) - n + 1, Piece(text, 0, o) \o Rest(text, o + n))

erase(text, offset, count) ==
    LET o == Wrap(offset - 1)
        n == Smaller(count, Len(text) - o)
    IN  IF o < 0 \/ count < 0 \/ o >= Len(text) \/ count = 0 THEN Same(text)
        ELSE Result(Len(text) - n + 1, Piece(text, 0, o) \o Rest(text, o + n))

\* Variant: nothing is inserted just past the end.
insertInside(text, incoming, offset, count) ==
    LET o == Wrap(offset - 1)
        n == Smaller(count, Len(incoming))
    IN  IF o < 0 \/ count < 0 \/ o >= Len(text) \/ count = 0 THEN Same(text)
        ELSE Result(Len(text) + n + 1,
                    Piece(text, 0, o) \o Piece(incoming, 0, n) \o Rest(text, o))

insert(text, incoming, offset, count) ==
    LET o == Wrap(offset - 1)
        n == Smaller(count, Len(incoming))
    IN  IF o < 0 \/ count < 0 \/ o > Len(text) \/ count = 0 THEN Same(text)
        ELSE Result(Len(text) + n + 1,
                    Piece(text, 0, o) \o Piece(incoming, 0, n) \o Rest(text, o))

substr(text, offset, count) ==
    LET o == Wrap(offset - 1)
        n == Smaller(count, Len(text) - o)
    IN  IF o < 0 \/ count < 0 \/ o >= Len(text) THEN Empty
        ELSE Result(n + 1, Piece(text, o, n))

\* Where the two loops of strip() stop: the first character that is not
\* kill_char or the NUL, and the last one or the place before the first.
\* Variant: the first character is never looked at from behind.
StripEndLate(text, kill_char) ==
    Max({0} \union {i \in 0 .. Len(text) - 1 : At(text, i) # kill_char})

StripEnd(text, kill_char) ==
    Max({-1} \union {i \in 0 .. Len(text) - 1 : At(text, i) # kill_char})

StripStart(text, kill_char) ==
    Min({Len(text)} \union {i \in 0 .. Len(text) - 1 : At(text, i) # kill_char})

strip(text, mode, kill_char) ==
    LET start  == IF mode \in {"L", "B"} THEN StripStart(text, kill_char) ELSE 0
        end    == IF mode \in {"T", "B"} THEN StripEnd(text, kill_char)
                                         ELSE Len(text) - 1
        length == end - start + 1
    IN  IF text = << >> \/ start > end THEN Empty
        ELSE Result(length + 1, Piece(text, start, length))
-----------------------------------------------------------------------------
\* Positions, from one; zero if there is none.

\* The NUL can be found, just behind the text.
pos(text, needle, offset) ==
    LET o     == Wrap(offset - 1)
        found == {i \in o .. Len(text) : At(text, i) = needle}
    IN  IF o < 0 \/ o > Len(text) \/ found = {} THEN 0 ELSE Min(found) + 1

pos_text(text, needle, offset) ==
    LET o     == Wrap(offset - 1)
        found == {i \in o .. Len(text) - Len(needle) :
                     Piece(text, i, Len(needle)) = needle}
    IN  IF o < 0 \/ o > Len(text) \/ found = {} THEN 0 ELSE Min(found) + 1

\* Variant: an index off the end of the text finds nothing.
last_posInside(text, needle, offset) ==
    LET o     == Wrap(offset - 1)
        found == {i \in 0 .. o : At(text, i) = needle}
    IN  IF o < 0 \/ o > Len(text) \/ found = {} THEN 0 ELSE Max(found) + 1

last_pos(text, needle, offset) ==
    LET o     == Wrap(offset - 1)
        found == {i \in 0 .. Smaller(o, Len(text)) : At(text, i) = needle}
    IN  IF o < 0 \/ found = {} THEN 0 ELSE Max(found) + 1
-----------------------------------------------------------------------------
\* Words

\* Variant: only the first of the delimiters is compared with.
is_whiteFirst(ch, white) ==
    IF white = Default THEN ch \in Blank
    ELSE ch = NUL \/ (white # {} /\ ch = CHOOSE first \in white : TRUE)

\* strchr() finds the NUL that ends white, so that NUL is white space if the
\* caller says what is.
is_white(ch, white) == IF white = Default THEN ch \in Blank
                                          ELSE ch \in white \union {NUL}

words(text, white) ==
    LET scan[i \in 0 .. Len(text)] ==
          IF i = 0 THEN [word_count |-> 0, in_word |-> FALSE]
          ELSE LET in_word == ~is_white(text[i], white)
                   begins  == in_word /\ ~scan[i - 1].in_word
               IN  [word_count |-> scan[i - 1].word_count + (IF begins THEN 1 ELSE 0),
                    in_word    |-> in_word]
    IN  scan[Len(text)].word_count

\* The scans of subword().  Two of them do not look for the NUL; one that meets
\* nothing to stop it goes on outside.
Scanned(text, stops) == Min({Len(text) + 1} \union stops)
SkipWhite(text, i, white) ==
    Scanned(text, {j \in i .. Len(text) : ~is_white(At(text, j), white)})
SkipWord(text, i, white) ==
    Scanned(text, {j \in i .. Len(text) : is_white(At(text, j), white)})
EndOfWord(text, i, white) ==
    Scanned(text, {j \in i .. Len(text) : is_white(At(text, j), white) \/ At(text, j) = NUL})

\* The beginning of word number offset, from zero, and the end of the word
\* number count, from one, that begins there or later.
Start(text, offset, white) ==
    LET start[k \in 0 .. offset] ==
          IF k = 0 THEN SkipWhite(text, 0, white)
          ELSE SkipWhite(text, SkipWord(text, start[k - 1], white), white)
    IN  start[offset]
End(text, start, count, white) ==
    LET end[k \in 1 .. count] ==
          EndOfWord(text, IF k = 1 THEN start
                          ELSE SkipWhite(text, end[k - 1], white), white)
    IN  end[count]

subword(text, offset, count, white) ==
    LET o       == Wrap(offset - 1)
        current == words(text, white)
        n       == Smaller(count, current - o)
        start   == Start(text, o, white)
        length  == End(text, start, n, white) - start
    IN  IF o < 0 \/ count < 0 \/ o >= current \/ n = 0 THEN Empty
        ELSE Result(length + 1, Piece(text, start, length))
=============================================================================
