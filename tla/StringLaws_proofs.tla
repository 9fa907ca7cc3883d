------------------------- MODULE StringLaws_proofs --------------------------
(***************************************************************************)
(* Proofs about StringLaws: the laws of the functions of strings, for      *)
(* every text and every int.                                               *)
(***************************************************************************)
EXTENDS StringLaws, FiniteSetTheorems, SequenceTheorems, WellFoundedInduction, TLAPS

-----------------------------------------------------------------------------
(***************************************************************************)
(* The least and the greatest of a set of integers.                        *)
(***************************************************************************)
LEMMA LeastNat ==
    ASSUME NEW T, T \subseteq Nat, T # {}
    PROVE  \E x \in T : \A y \in T : x <= y
<1>1. PICK x \in T : \A y \in T : ~(<<y, x>> \in OpToRel(<, Nat))
  BY NatLessThanWellFounded, WFMin
<1>2. ASSUME NEW y \in T, y < x  PROVE FALSE
  <2>1. <<y, x>> \in Nat \X Nat /\ <<y, x>>[1] < <<y, x>>[2]
    BY <1>2
  <2>2. <<y, x>> \in OpToRel(<, Nat)
    BY <2>1 DEF OpToRel
  <2> QED BY <1>1, <2>2
<1>3. \A y \in T : x <= y
  BY <1>2
<1> QED BY <1>3

LEMMA Least ==
    ASSUME NEW S, S \subseteq Int, S # {}, NEW low \in Int, \A x \in S : low <= x
    PROVE  Min(S) \in S /\ \A x \in S : Min(S) <= x
<1> DEFINE T == {n \in Nat : low + n \in S}
<1>1. \A x \in S : x - low \in T
  BY SMT
<1>2. PICK n \in T : \A m \in T : n <= m
  <2>1. T # {} /\ T \subseteq Nat
    BY <1>1
  <2> HIDE DEF T
  <2> QED BY <2>1, LeastNat
<1>3. low + n \in S /\ \A x \in S : low + n <= x
  <2>1. low + n \in S /\ n \in Nat
    BY <1>2
  <2>2. ASSUME NEW x \in S  PROVE low + n <= x
    <3>1. n <= x - low
      BY <1>1, <1>2
    <3> QED BY <2>1, <3>1
  <2> QED BY <2>1, <2>2
<1> QED BY <1>3 DEF Min

LEMMA Greatest ==
    ASSUME NEW S, S \subseteq Int, S # {}, NEW high \in Int, \A x \in S : x <= high
    PROVE  Max(S) \in S /\ \A x \in S : x <= Max(S)
<1> DEFINE T == {n \in Nat : high - n \in S}
<1>1. \A x \in S : high - x \in T
  BY SMT
<1>2. PICK n \in T : \A m \in T : n <= m
  <2>1. T # {} /\ T \subseteq Nat
    BY <1>1
  <2> HIDE DEF T
  <2> QED BY <2>1, LeastNat
<1>3. high - n \in S /\ \A x \in S : x <= high - n
  <2>1. high - n \in S /\ n \in Nat
    BY <1>2
  <2>2. ASSUME NEW x \in S  PROVE x <= high - n
    <3>1. n <= high - x
      BY <1>1, <1>2
    <3> QED BY <2>1, <3>1
  <2> QED BY <2>1, <2>2
<1> QED BY <1>3 DEF Max

LEMMA MinIs ==
    ASSUME NEW S, S \subseteq Int, NEW x \in S, \A y \in S : x <= y
    PROVE  Min(S) = x
<1>1. Min(S) \in S /\ Min(S) <= x
  BY Least, x \in Int
<1>2. x <= Min(S) /\ Min(S) \in Int
  BY <1>1
<1> QED BY <1>1, <1>2

LEMMA MaxIs ==
    ASSUME NEW S, S \subseteq Int, NEW x \in S, \A y \in S : y <= x
    PROVE  Max(S) = x
<1>1. Max(S) \in S /\ x <= Max(S)
  BY Greatest, x \in Int
<1>2. Max(S) <= x /\ Max(S) \in Int
  BY <1>1
<1> QED BY <1>1, <1>2
-----------------------------------------------------------------------------
(***************************************************************************)
(* Texts.                                                                  *)
(***************************************************************************)
LEMMA FillIs ==
    ASSUME NEW ch \in Char, NEW n \in Nat
    PROVE  /\ Fill(ch, n) \in Seq(Char) /\ Len(Fill(ch, n)) = n
           /\ \A k \in 1 .. n : Fill(ch, n)[k] = ch
<1>1. Fill(ch, n) \in [1 .. n -> Char] /\ \A k \in 1 .. n : Fill(ch, n)[k] = ch
  BY DEF Fill
<1> QED BY <1>1

\* n characters of a text, from index i.
LEMMA PieceIs ==
    ASSUME NEW x \in Seq(Char), NEW i \in Nat, NEW n \in Nat, i + n <= Len(x)
    PROVE  /\ Piece(x, i, n) \in Seq(Char) /\ Len(Piece(x, i, n)) = n
           /\ \A k \in 1 .. n : Piece(x, i, n)[k] = x[i + k]
<1>1. Len(x) \in Nat /\ \A k \in 1 .. Len(x) : x[k] \in Char
  OBVIOUS
<1>2. ASSUME NEW k \in 1 .. n
      PROVE  At(x, i + k - 1) = x[i + k] /\ x[i + k] \in Char
  <2>1. i + k - 1 \in 0 .. Len(x) - 1 /\ (i + k - 1) + 1 = i + k /\ i + k \in 1 .. Len(x)
    BY <1>1
  <2> QED BY <1>1, <2>1 DEF At
<1>3. /\ Piece(x, i, n) \in [1 .. n -> Char]
      /\ \A k \in 1 .. n : Piece(x, i, n)[k] = x[i + k]
  BY <1>2 DEF Piece
<1> QED BY <1>3

LEMMA RestIs ==
    ASSUME NEW x \in Seq(Char), NEW i \in 0 .. Len(x)
    PROVE  /\ Rest(x, i) \in Seq(Char) /\ Len(Rest(x, i)) = Len(x) - i
           /\ \A k \in 1 .. Len(x) - i : Rest(x, i)[k] = x[i + k]
<1>1. Len(x) \in Nat /\ \A k \in 1 .. Len(x) : x[k] \in Char
  OBVIOUS
<1>2. /\ Rest(x, i) \in Seq(Char)
      /\ Len(Rest(x, i)) = IF i + 1 <= Len(x) THEN Len(x) - (i + 1) + 1 ELSE 0
      /\ \A k \in 1 .. Len(x) - (i + 1) + 1 : Rest(x, i)[k] = x[(i + 1) + k - 1]
  <2>1. i + 1 \in Int /\ Len(x) \in Int
    BY <1>1
  <2>2. \A k \in i + 1 .. Len(x) : x[k] \in Char
    BY <1>1
  <2> QED BY <2>1, <2>2, SubSeqProperties DEF Rest
<1>3. Len(Rest(x, i)) = Len(x) - i
  BY <1>1, <1>2
<1>4. ASSUME NEW k \in 1 .. Len(x) - i  PROVE Rest(x, i)[k] = x[i + k]
  <2>1. k \in 1 .. Len(x) - (i + 1) + 1 /\ (i + 1) + k - 1 = i + k
    BY <1>1
  <2> QED BY <1>2, <2>1
<1> QED BY <1>2, <1>3, <1>4

\* Two texts of one length with the same characters are the same text.
LEMMA SameText ==
    ASSUME NEW x \in Seq(Char), NEW y \in Seq(Char), Len(x) = Len(y),
           \A k \in 1 .. Len(x) : x[k] = y[k]
    PROVE  x = y
OBVIOUS

LEMMA PrefixIs ==
    ASSUME NEW x \in Seq(Char), NEW y \in Seq(Char), Len(x) <= Len(y),
           \A k \in 1 .. Len(x) : x[k] = y[k]
    PROVE  IsPrefix(x, y)
<1>1. /\ Len(x) \in Nat /\ Len(y) \in Nat
      /\ \A k \in 1 .. Len(x) : x[k] \in Char /\ y[k] \in Char
  OBVIOUS
<1> DEFINE m == Len(x)
<1>2. /\ SubSeq(x, 1, m) \in Seq(Char) /\ SubSeq(y, 1, m) \in Seq(Char)
      /\ Len(SubSeq(x, 1, m)) = IF 1 <= m THEN m - 1 + 1 ELSE 0
      /\ Len(SubSeq(y, 1, m)) = IF 1 <= m THEN m - 1 + 1 ELSE 0
      /\ \A k \in 1 .. m - 1 + 1 : SubSeq(x, 1, m)[k] = x[1 + k - 1]
      /\ \A k \in 1 .. m - 1 + 1 : SubSeq(y, 1, m)[k] = y[1 + k - 1]
  <2>1. 1 \in Int /\ m \in Int
    BY <1>1
  <2> QED BY <1>1, <2>1, SubSeqProperties
<1>3. /\ Len(SubSeq(x, 1, m)) = m /\ Len(SubSeq(y, 1, m)) = m
  BY <1>1, <1>2
<1>4. ASSUME NEW k \in 1 .. m  PROVE SubSeq(x, 1, m)[k] = SubSeq(y, 1, m)[k]
  <2>1. k \in 1 .. m - 1 + 1 /\ 1 + k - 1 = k
    BY <1>1
  <2> QED BY <1>2, <2>1
<1>5. SubSeq(x, 1, m) = SubSeq(y, 1, m)
  <2> HIDE DEF m
  <2> QED BY <1>2, <1>3, <1>4, SameText
<1> QED BY <1>5 DEF IsPrefix

LEMMA ReverseIs ==
    ASSUME NEW x \in Seq(Char)
    PROVE  /\ Reverse(x) \in Seq(Char) /\ Len(Reverse(x)) = Len(x)
           /\ \A k \in 1 .. Len(x) : Reverse(x)[k] = x[(Len(x) - k) + 1]
<1>1. Len(x) \in Nat /\ \A k \in 1 .. Len(x) : x[k] \in Char
  OBVIOUS
<1>2. \A k \in 1 .. Len(x) : (Len(x) - k) + 1 \in 1 .. Len(x)
  BY <1>1
<1>3. Reverse(x) \in [1 .. Len(x) -> Char]
  BY <1>1, <1>2 DEF Reverse
<1>4. \A k \in 1 .. Len(x) : Reverse(x)[k] = x[(Len(x) - k) + 1]
  BY DEF Reverse
<1> QED BY <1>1, <1>3, <1>4

LEMMA SuffixIs ==
    ASSUME NEW x \in Seq(Char), NEW y \in Seq(Char), Len(x) <= Len(y),
           \A k \in 1 .. Len(x) : x[k] = y[Len(y) - Len(x) + k]
    PROVE  IsSuffix(x, y)
<1>1. Len(x) \in Nat /\ Len(y) \in Nat
  OBVIOUS
<1>2. ASSUME NEW k \in 1 .. Len(x)
      PROVE  Reverse(x)[k] = Reverse(y)[k]
  <2>1. /\ (Len(x) - k) + 1 \in 1 .. Len(x) /\ k \in 1 .. Len(y)
        /\ Len(y) - Len(x) + ((Len(x) - k) + 1) = (Len(y) - k) + 1
    BY <1>1
  <2>2. x[(Len(x) - k) + 1] = y[(Len(y) - k) + 1]
    BY <2>1
  <2> QED BY <2>1, <2>2, ReverseIs
<1> QED BY <1>2, ReverseIs, PrefixIs DEF IsSuffix

LEMMA Joined ==
    ASSUME NEW x \in Seq(Char), NEW y \in Seq(Char)
    PROVE  /\ x \o y \in Seq(Char) /\ Len(x \o y) = Len(x) + Len(y)
           /\ \A k \in 1 .. Len(x) : (x \o y)[k] = x[k]
           /\ \A k \in Len(x) + 1 .. Len(x) + Len(y) : (x \o y)[k] = y[k - Len(x)]
OBVIOUS

Texts(x, y, z) == x \in Seq(Char) /\ y \in Seq(Char) /\ z \in Seq(Char)

LEMMA JoinAssociates ==
    ASSUME NEW x, NEW y, NEW z, Texts(x, y, z)
    PROVE  (x \o y) \o z = x \o (y \o z)
BY DEF Texts
-----------------------------------------------------------------------------
(***************************************************************************)
(* Padding.                                                                *)
(***************************************************************************)
LEMMA PaddedBefore ==
    ASSUME NEW x \in Seq(Char), NEW pad \in Char, NEW n \in Nat
    PROVE  /\ Fill(pad, n) \o x \in Seq(Char) /\ Len(Fill(pad, n) \o x) = n + Len(x)
           /\ \A k \in 1 .. n : (Fill(pad, n) \o x)[k] = pad
           /\ \A k \in n + 1 .. n + Len(x) : (Fill(pad, n) \o x)[k] = x[k - n]
<1> DEFINE f == Fill(pad, n)
<1>1. f \in Seq(Char) /\ Len(f) = n /\ \A k \in 1 .. n : f[k] = pad
  BY FillIs
<1> HIDE DEF f
<1>2. /\ f \o x \in Seq(Char) /\ Len(f \o x) = n + Len(x)
      /\ \A k \in 1 .. n : (f \o x)[k] = f[k]
      /\ \A k \in n + 1 .. n + Len(x) : (f \o x)[k] = x[k - n]
  BY <1>1
<1> QED BY <1>1, <1>2 DEF f

LEMMA PaddedBehind ==
    ASSUME NEW x \in Seq(Char), NEW pad \in Char, NEW n \in Nat
    PROVE  /\ x \o Fill(pad, n) \in Seq(Char) /\ Len(x \o Fill(pad, n)) = Len(x) + n
           /\ \A k \in 1 .. Len(x) : (x \o Fill(pad, n))[k] = x[k]
           /\ \A k \in Len(x) + 1 .. Len(x) + n : (x \o Fill(pad, n))[k] = pad
<1> DEFINE f == Fill(pad, n)
<1>1. f \in Seq(Char) /\ Len(f) = n /\ \A k \in 1 .. n : f[k] = pad
  BY FillIs
<1> HIDE DEF f
<1>2. /\ x \o f \in Seq(Char) /\ Len(x \o f) = Len(x) + n
      /\ \A k \in 1 .. Len(x) : (x \o f)[k] = x[k]
      /\ \A k \in Len(x) + 1 .. Len(x) + n : (x \o f)[k] = f[k - Len(x)]
  BY <1>1
<1>3. \A k \in Len(x) + 1 .. Len(x) + n : k - Len(x) \in 1 .. n
  <2>1. Len(x) \in Nat
    OBVIOUS
  <2> QED BY <2>1
<1> QED BY <1>1, <1>2, <1>3 DEF f

LEMMA RightIs ==
    ASSUME NEW x \in Seq(Char), NEW n \in Int, NEW pad \in Char,
           NEW room \in Nat, n <= room
    PROVE  /\ Len(right(x, n, pad).text) = IF n < 0 THEN 0 ELSE n
           /\ IsSuffix(right(x, n, pad).text, Fill(pad, room) \o x)
<1> DEFINE r == right(x, n, pad).text
           y == Fill(pad, room) \o x
<1>1. Len(x) \in Nat /\ y \in Seq(Char) /\ Len(y) = room + Len(x)
  <2>1. Len(x) \in Nat
    OBVIOUS
  <2> QED BY <2>1, PaddedBefore
<1>2. /\ \A k \in 1 .. room : y[k] = pad
      /\ \A k \in room + 1 .. room + Len(x) : y[k] = x[k - room]
  BY PaddedBefore
<1> HIDE DEF y
<1>3. CASE n <= 0
  <2>1. r = << >>
    BY <1>3 DEF right, Empty, Result
  <2>2. IsSuffix(<< >>, y)
    <3>1. << >> \in Seq(Char) /\ Len(<< >>) = 0
      OBVIOUS
    <3>2. Len(<< >>) <= Len(y) /\ \A k \in 1 .. Len(<< >>) : FALSE
      BY <1>1, <3>1
    <3> QED BY <1>1, <3>1, <3>2, SuffixIs
  <2> QED BY <1>3, <2>1, <2>2 DEF y
<1>4. CASE n > 0 /\ n < Len(x)
  <2>1. r = Rest(x, Len(x) - n)
    BY <1>1, <1>4 DEF right, Result
  <2>2. Len(x) - n \in 0 .. Len(x) /\ Len(x) - (Len(x) - n) = n
    BY <1>1, <1>4
  <2>3. r \in Seq(Char) /\ Len(r) = n /\ \A k \in 1 .. n : r[k] = x[Len(x) - n + k]
    BY <2>1, <2>2, RestIs
  <2>4. ASSUME NEW k \in 1 .. n  PROVE r[k] = y[Len(y) - n + k]
    <3>1. /\ Len(y) - n + k \in room + 1 .. room + Len(x)
          /\ Len(y) - n + k - room = Len(x) - n + k
      BY <1>1, <1>4
    <3>2. y[Len(y) - n + k] = x[Len(y) - n + k - room]
      BY <1>2, <3>1
    <3> QED BY <2>3, <3>1, <3>2
  <2>5. Len(r) <= Len(y)
    BY <1>1, <1>4, <2>3
  <2>6. IsSuffix(r, y)
    <3> HIDE DEF r
    <3> QED BY <1>1, <2>3, <2>4, <2>5, SuffixIs
  <2> QED BY <1>4, <2>3, <2>6 DEF y
<1>5. CASE n > 0 /\ ~(n < Len(x))
  <2> DEFINE f == Fill(pad, n - Len(x))
  <2>1. r = f \o x
    BY <1>5 DEF right, Result
  <2>2. n - Len(x) \in Nat
    BY <1>1, <1>5
  <2>3. f \in Seq(Char) /\ Len(f) = n - Len(x) /\ \A k \in 1 .. n - Len(x) : f[k] = pad
    BY <2>2, FillIs
  <2> HIDE DEF f
  <2>4. r \in Seq(Char) /\ Len(r) = n
    <3>1. r \in Seq(Char) /\ Len(r) = Len(f) + Len(x)
      BY <2>1, <2>3, Joined
    <3> QED BY <1>1, <2>3, <3>1
  <2>5. ASSUME NEW k \in 1 .. n  PROVE r[k] = y[Len(y) - n + k]
    <3>1. CASE k <= n - Len(x)
      <4>1. k \in 1 .. n - Len(x) /\ Len(y) - n + k \in 1 .. room
        BY <1>1, <1>5, <3>1
      <4>2. r[k] = pad
        BY <2>1, <2>3, <4>1, Joined
      <4>3. y[Len(y) - n + k] = pad
        BY <1>2, <4>1
      <4> QED BY <4>2, <4>3
    <3>2. CASE ~(k <= n - Len(x))
      <4>1. /\ k \in (n - Len(x)) + 1 .. (n - Len(x)) + Len(x)
            /\ Len(y) - n + k \in room + 1 .. room + Len(x)
            /\ Len(y) - n + k - room = k - (n - Len(x))
        BY <1>1, <1>5, <3>2
      <4>2. r[k] = x[k - (n - Len(x))]
        BY <2>1, <2>3, <4>1, Joined
      <4>3. y[Len(y) - n + k] = x[Len(y) - n + k - room]
        BY <1>2, <4>1
      <4> QED BY <4>1, <4>2, <4>3
    <3> QED BY <3>1, <3>2
  <2>6. Len(r) <= Len(y)
    BY <1>1, <1>5, <2>4
  <2>7. IsSuffix(r, y)
    <3> HIDE DEF r
    <3> QED BY <1>1, <2>4, <2>5, <2>6, SuffixIs
  <2> QED BY <1>5, <2>4, <2>7 DEF y
<1> QED BY <1>1, <1>3, <1>4, <1>5

LEMMA RightIsText ==
    ASSUME NEW x \in Seq(Char), NEW n \in Int, NEW pad \in Char
    PROVE  right(x, n, pad).text \in Seq(Char)
<1>1. Len(x) \in Nat
  OBVIOUS
<1>2. CASE n <= 0
  <2>1. << >> \in Seq(Char)
    OBVIOUS
  <2> QED BY <1>2, <2>1 DEF right, Empty, Result
<1>3. CASE n > 0 /\ n < Len(x)
  <2>1. Len(x) - n \in 0 .. Len(x)
    BY <1>1, <1>3
  <2>2. Rest(x, Len(x) - n) \in Seq(Char)
    BY <2>1, RestIs
  <2> QED BY <1>1, <1>3, <2>2 DEF right, Result
<1>4. CASE n > 0 /\ ~(n < Len(x))
  <2>1. n - Len(x) \in Nat
    BY <1>1, <1>4
  <2>2. Fill(pad, n - Len(x)) \o x \in Seq(Char)
    BY <2>1, PaddedBefore
  <2> QED BY <1>4, <2>2 DEF right, Result
<1> QED BY <1>1, <1>2, <1>3, <1>4

LEMMA LeftIs ==
    ASSUME NEW x \in Seq(Char), NEW n \in Int, NEW pad \in Char,
           NEW room \in Nat, n <= room
    PROVE  /\ Len(left(x, n, pad).text) = IF n < 0 THEN 0 ELSE n
           /\ IsPrefix(left(x, n, pad).text, x \o Fill(pad, room))
<1> DEFINE l == left(x, n, pad).text
           y == x \o Fill(pad, room)
<1>1. Len(x) \in Nat /\ y \in Seq(Char) /\ Len(y) = Len(x) + room
  <2>1. Len(x) \in Nat
    OBVIOUS
  <2>2. y \in Seq(Char) /\ Len(y) = Len(x) + room
    BY PaddedBehind
  <2> QED BY <2>1, <2>2
<1>2. /\ \A k \in 1 .. Len(x) : y[k] = x[k]
      /\ \A k \in Len(x) + 1 .. Len(x) + room : y[k] = pad
  <2>1. \A k \in 1 .. Len(x) : y[k] = x[k]
    BY PaddedBehind
  <2>2. \A k \in Len(x) + 1 .. Len(x) + room : y[k] = pad
    BY PaddedBehind
  <2> QED BY <2>1, <2>2
<1> HIDE DEF y
<1>3. CASE n <= 0
  <2>1. l = << >>
    BY <1>3 DEF left, Empty, Result
  <2>2. IsPrefix(<< >>, y)
    <3>1. << >> \in Seq(Char) /\ Len(<< >>) = 0
      OBVIOUS
    <3>2. Len(<< >>) <= Len(y) /\ \A k \in 1 .. Len(<< >>) : FALSE
      BY <1>1, <3>1
    <3> QED BY <1>1, <3>1, <3>2, PrefixIs
  <2> QED BY <1>3, <2>1, <2>2 DEF y
<1>4. CASE n > 0 /\ n < Len(x)
  <2>1. l = Piece(x, 0, n)
    BY <1>1, <1>4 DEF left, Result
  <2>2. n \in Nat /\ 0 + n <= Len(x)
    BY <1>1, <1>4
  <2>3. l \in Seq(Char) /\ Len(l) = n /\ \A k \in 1 .. n : l[k] = x[0 + k]
    <3> DEFINE y0 == Piece(x, 0, n)
    <3>1. /\ y0 \in Seq(Char) /\ Len(y0) = n
          /\ \A k \in 1 .. n : y0[k] = x[0 + k]
      BY <2>2, 0 \in Nat, PieceIs
    <3> QED BY <2>1, <3>1
  <2>4. ASSUME NEW k \in 1 .. n  PROVE l[k] = y[k]
    <3>1. k \in 1 .. Len(x) /\ 0 + k = k
      BY <1>1, <1>4
    <3>2. y[k] = x[k]
      BY <1>2, <3>1
    <3> QED BY <2>3, <3>1, <3>2
  <2>5. Len(l) <= Len(y)
    BY <1>1, <1>4, <2>3
  <2>6. IsPrefix(l, y)
    <3> HIDE DEF l
    <3> QED BY <1>1, <2>3, <2>4, <2>5, PrefixIs
  <2> QED BY <1>4, <2>3, <2>6 DEF y
<1>5. CASE n > 0 /\ ~(n < Len(x))
  <2> DEFINE f == Fill(pad, n - Len(x))
  <2>1. l = x \o f
    BY <1>5 DEF left, Result
  <2>2. n - Len(x) \in Nat
    BY <1>1, <1>5
  <2>3. f \in Seq(Char) /\ Len(f) = n - Len(x) /\ \A k \in 1 .. n - Len(x) : f[k] = pad
    BY <2>2, FillIs
  <2> HIDE DEF f
  <2>4. l \in Seq(Char) /\ Len(l) = n
    <3>1. l \in Seq(Char) /\ Len(l) = Len(x) + Len(f)
      BY <2>1, <2>3, Joined
    <3> QED BY <1>1, <2>3, <3>1
  <2>5. ASSUME NEW k \in 1 .. n  PROVE l[k] = y[k]
    <3>1. CASE k <= Len(x)
      <4>1. k \in 1 .. Len(x)
        BY <1>1, <3>1
      <4> QED BY <1>2, <2>1, <2>3, <4>1
    <3>2. CASE ~(k <= Len(x))
      <4>1. /\ k \in Len(x) + 1 .. Len(x) + Len(f)
            /\ k \in Len(x) + 1 .. Len(x) + room
            /\ k - Len(x) \in 1 .. n - Len(x) /\ k - Len(x) \in 1 .. room
        BY <1>1, <1>5, <2>3, <3>2
      <4>2. l[k] = pad
        BY <2>1, <2>3, <4>1, Joined
      <4>3. y[k] = pad
        BY <1>2, <4>1
      <4> QED BY <4>2, <4>3
    <3> QED BY <3>1, <3>2
  <2>6. Len(l) <= Len(y)
    BY <1>1, <1>5, <2>4
  <2>7. IsPrefix(l, y)
    <3> HIDE DEF l
    <3> QED BY <1>1, <2>4, <2>5, <2>6, PrefixIs
  <2> QED BY <1>5, <2>4, <2>7 DEF y
<1> QED BY <1>1, <1>3, <1>4, <1>5

\* center() is right() for half of the room and then left() for the rest.
LEMMA CenterIs ==
    ASSUME NEW x \in Seq(Char), NEW n \in Int, NEW pad \in Char
    PROVE  LET half == right(x, Len(x) + (n - Len(x)) \div 2, pad).text
           IN  center(x, n, pad).text
                 = left(IF n > Len(x) THEN half ELSE x, n, pad).text
<1> DEFINE d == (n - Len(x)) \div 2
           half == right(x, Len(x) + d, pad).text
<1>1. Len(x) \in Nat
  OBVIOUS
<1>2. CASE n <= Len(x)
  <2>1. CASE n <= 0
    BY <1>1, <1>2, <2>1 DEF center, left, Empty, Result
  <2>2. CASE n > 0
    BY <1>1, <1>2, <2>2 DEF center
  <2> QED BY <2>1, <2>2
<1>3. CASE n > Len(x)
  <2>1. d \in Nat /\ 0 <= n - (Len(x) + d) /\ n - Len(x) - d = n - (Len(x) + d)
    BY <1>1, <1>3
  <2> DEFINE f == Fill(pad, d)
             g == Fill(pad, n - Len(x) - d)
  <2>2. f \in Seq(Char) /\ Len(f) = d
    BY <2>1, FillIs
  <2>3. half = f \o x
    <3>1. CASE Len(x) + d <= 0
      <4>1. half = << >>
        BY <3>1 DEF right, Empty, Result
      <4>2. Len(x) = 0 /\ d = 0
        BY <1>1, <2>1, <3>1
      <4>3. x = << >> /\ f = << >>
        <5> HIDE DEF f
        <5> QED BY <2>2, <4>2
      <4>4. << >> \o << >> = << >>
        OBVIOUS
      <4> QED BY <4>1, <4>3, <4>4
    <3>2. CASE ~(Len(x) + d <= 0)
      <4>1. ~(Len(x) + d < Len(x)) /\ Len(x) + d - Len(x) = d
        BY <1>1, <2>1
      <4>2. \A m \in Int : ~(m <= 0) /\ ~(m < Len(x))
                     => right(x, m, pad).text = Fill(pad, m - Len(x)) \o x
        BY DEF right, Result
      <4>3. Len(x) + d \in Int /\ ~(Len(x) + d <= 0)
        BY <1>1, <2>1, <3>2
      <4>4. right(x, Len(x) + d, pad).text = Fill(pad, (Len(x) + d) - Len(x)) \o x
        <5> HIDE DEF d
        <5> QED BY <4>1, <4>2, <4>3
      <4> QED BY <4>1, <4>4
    <3> QED BY <3>1, <3>2
  <2>4. half \in Seq(Char) /\ Len(half) = Len(x) + d
    <3> HIDE DEF half, f
    <3>1. half \in Seq(Char) /\ Len(half) = Len(f) + Len(x)
      BY <2>2, <2>3, Joined
    <3> QED BY <1>1, <2>1, <2>2, <3>1
  <2>5. center(x, n, pad).text = f \o x \o g
    <3>1. ~(n <= 0) /\ ~(n <= Len(x))
      BY <1>1, <1>3
    <3> QED BY <3>1 DEF center, Result
  <2>6. left(half, n, pad).text = half \o Fill(pad, n - Len(half))
    <3> HIDE DEF half, d
    <3>1. ~(n <= 0) /\ ~(n < Len(half))
      BY <1>1, <1>3, <2>1, <2>4
    <3> QED BY <3>1 DEF left, Result
  <2>7. Fill(pad, n - Len(half)) = g
    <3> HIDE DEF half, d
    <3> QED BY <2>1, <2>4
  <2>8. center(x, n, pad).text = left(half, n, pad).text
    BY <2>3, <2>5, <2>6, <2>7
  <2> QED BY <1>3, <2>8
<1> QED BY <1>1, <1>2, <1>3

\* The laws of right(), left() and center(), str.cpp:401-404, :445-448,
\* :490-494, of any text: padded or cut to exactly the length asked for.
THEOREM PaddingIsExact ==
    ASSUME text \in Seq(Char)
    PROVE  PaddingExact
<1>1. IntMax \in Nat
  BY CharacterAssumption
<1>2. ASSUME NEW n \in Lengths, NEW pad \in Char
      PROVE  LET r == right(text, n, pad).text
                 l == left(text, n, pad).text
                 c == center(text, n, pad).text
                 half == right(text, Len(text) + (n - Len(text)) \div 2, pad).text
             IN  /\ {Len(r), Len(l), Len(c)} = {IF n < 0 THEN 0 ELSE n}
                 /\ IsSuffix(r, Fill(pad, IntMax) \o text)
                 /\ IsPrefix(l, text \o Fill(pad, IntMax))
                 /\ c = left(IF n > Len(text) THEN half ELSE text, n, pad).text
  <2> DEFINE r == right(text, n, pad).text
             l == left(text, n, pad).text
             c == center(text, n, pad).text
             d == (n - Len(text)) \div 2
             half == right(text, Len(text) + d, pad).text
             start == IF n > Len(text) THEN half ELSE text
  <2>1. n \in Int /\ n <= IntMax /\ Len(text) \in Nat
    BY <1>1 DEF Lengths
  <2>2. /\ Len(r) = (IF n < 0 THEN 0 ELSE n)
        /\ IsSuffix(r, Fill(pad, IntMax) \o text)
    BY <1>1, <2>1, RightIs
  <2>3. /\ Len(l) = (IF n < 0 THEN 0 ELSE n)
        /\ IsPrefix(l, text \o Fill(pad, IntMax))
    BY <1>1, <2>1, LeftIs
  <2>4. c = left(start, n, pad).text
    BY <2>1, CenterIs
  <2>5. start \in Seq(Char)
    BY <2>1, RightIsText
  <2>6. Len(c) = IF n < 0 THEN 0 ELSE n
    <3> HIDE DEF start
    <3>1. Len(left(start, n, pad).text) = IF n < 0 THEN 0 ELSE n
      BY <1>1, <2>1, <2>5, LeftIs
    <3> QED BY <2>4, <3>1
  <2>7. {Len(r), Len(l), Len(c)} = {IF n < 0 THEN 0 ELSE n}
    BY <2>2, <2>3, <2>6
  <2> QED BY <2>2, <2>3, <2>4, <2>7
<1> QED BY <1>2 DEF PaddingExact
-----------------------------------------------------------------------------
(***************************************************************************)
(* Stripping.                                                              *)
(***************************************************************************)
\* Where the copies of ch at the front of x end, and where those at its end
\* begin.
FrontEnds(x, ch, s) ==
    /\ s \in 0 .. Len(x)
    /\ \A i \in 1 .. s : x[i] = ch
    /\ s < Len(x) => x[s + 1] # ch
BackBegins(x, ch, e) ==
    /\ e \in -1 .. Len(x) - 1
    /\ \A i \in e + 2 .. Len(x) : x[i] = ch
    /\ e >= 0 => x[e + 1] # ch

LEMMA AtIs ==
    ASSUME NEW x \in Seq(Char), NEW i \in 0 .. Len(x) - 1
    PROVE  At(x, i) = x[i + 1]
BY DEF At

LEMMA StripStartIs ==
    ASSUME NEW x \in Seq(Char), NEW ch \in Char
    PROVE  FrontEnds(x, ch, StripStart(x, ch))
<1> DEFINE S == {Len(x)} \union {i \in 0 .. Len(x) - 1 : At(x, i) # ch}
           s == Min(S)
<1>1. Len(x) \in Nat
  OBVIOUS
<1>2. S \subseteq 0 .. Len(x) /\ S # {}
  BY <1>1
<1>3. s \in S /\ \A y \in S : s <= y
  <2>1. S \subseteq Int /\ 0 \in Int /\ \A y \in S : 0 <= y
    BY <1>1, <1>2
  <2> HIDE DEF S
  <2> QED BY <1>2, <2>1, Least
<1>4. ASSUME NEW i \in 1 .. s  PROVE x[i] = ch
  <2>1. i - 1 \in 0 .. Len(x) - 1 /\ i - 1 < s /\ (i - 1) + 1 = i /\ s \in Int
    <3> HIDE DEF s, S
    <3> QED BY <1>1, <1>2, <1>3
  <2>2. i - 1 \notin S
    <3> HIDE DEF s, S
    <3> QED BY <1>3, <2>1
  <2>3. At(x, i - 1) = ch
    BY <2>1, <2>2
  <2> QED BY <2>1, <2>3, AtIs
<1>5. ASSUME s < Len(x)  PROVE x[s + 1] # ch
  <2>1. s # Len(x)
    <3> HIDE DEF s
    <3> QED BY <1>1, <1>5
  <2>2. s \in 0 .. Len(x) - 1 /\ At(x, s) # ch
    <3> HIDE DEF s
    <3> QED BY <1>3, <2>1
  <2> HIDE DEF s
  <2> QED BY <2>2, AtIs
<1>6. s \in 0 .. Len(x)
  <2> HIDE DEF s, S
  <2> QED BY <1>2, <1>3
<1> QED BY <1>4, <1>5, <1>6 DEF FrontEnds, StripStart

LEMMA StripEndIs ==
    ASSUME NEW x \in Seq(Char), NEW ch \in Char
    PROVE  BackBegins(x, ch, StripEnd(x, ch))
<1> DEFINE S == {-1} \union {i \in 0 .. Len(x) - 1 : At(x, i) # ch}
           e == Max(S)
<1>1. Len(x) \in Nat
  OBVIOUS
<1>2. S \subseteq -1 .. Len(x) - 1 /\ S # {}
  BY <1>1
<1>3. e \in S /\ \A y \in S : y <= e
  <2>1. S \subseteq Int /\ Len(x) - 1 \in Int /\ \A y \in S : y <= Len(x) - 1
    BY <1>1, <1>2
  <2> HIDE DEF S
  <2> QED BY <1>2, <2>1, Greatest
<1>4. e \in -1 .. Len(x) - 1
  <2> HIDE DEF e, S
  <2> QED BY <1>2, <1>3
<1>5. ASSUME NEW i \in e + 2 .. Len(x)  PROVE x[i] = ch
  <2>1. i - 1 \in 0 .. Len(x) - 1 /\ i - 1 > e /\ (i - 1) + 1 = i
    <3> HIDE DEF e, S
    <3> QED BY <1>1, <1>4
  <2>2. i - 1 \notin S
    <3> HIDE DEF e, S
    <3> QED BY <1>3, <1>4, <2>1
  <2>3. At(x, i - 1) = ch
    BY <2>1, <2>2
  <2> QED BY <2>1, <2>3, AtIs
<1>6. ASSUME e >= 0  PROVE x[e + 1] # ch
  <2>1. e # -1
    <3> HIDE DEF e
    <3> QED BY <1>6
  <2>2. e \in 0 .. Len(x) - 1 /\ At(x, e) # ch
    <3> HIDE DEF e
    <3> QED BY <1>3, <2>1
  <2> HIDE DEF e
  <2> QED BY <2>2, AtIs
<1> QED BY <1>4, <1>5, <1>6 DEF BackBegins, StripEnd

LEMMA FrontIsOne ==
    ASSUME NEW x \in Seq(Char), NEW ch, NEW s, NEW t,
           FrontEnds(x, ch, s), FrontEnds(x, ch, t)
    PROVE  s = t
<1>1. Len(x) \in Nat /\ s \in 0 .. Len(x) /\ t \in 0 .. Len(x)
  BY DEF FrontEnds
<1>2. ASSUME NEW u, NEW v, FrontEnds(x, ch, u), FrontEnds(x, ch, v)
      PROVE  ~(u < v)
  <2>1. ASSUME u < v  PROVE FALSE
    <3>1. u < Len(x) /\ u + 1 \in 1 .. v
      BY <1>1, <1>2, <2>1 DEF FrontEnds
    <3> QED BY <1>2, <3>1 DEF FrontEnds
  <2> QED BY <2>1
<1>3. ~(s < t) /\ ~(t < s)
  BY <1>2
<1> QED BY <1>1, <1>3

LEMMA BackIsOne ==
    ASSUME NEW x \in Seq(Char), NEW ch, NEW e, NEW f,
           BackBegins(x, ch, e), BackBegins(x, ch, f)
    PROVE  e = f
<1>1. Len(x) \in Nat /\ e \in -1 .. Len(x) - 1 /\ f \in -1 .. Len(x) - 1
  BY DEF BackBegins
<1>2. ASSUME NEW u, NEW v, BackBegins(x, ch, u), BackBegins(x, ch, v)
      PROVE  ~(u < v)
  <2>1. ASSUME u < v  PROVE FALSE
    <3>1. v >= 0 /\ v + 1 \in u + 2 .. Len(x)
      BY <1>1, <1>2, <2>1 DEF BackBegins
    <3> QED BY <1>2, <3>1 DEF BackBegins
  <2> QED BY <2>1
<1>3. ~(e < f) /\ ~(f < e)
  BY <1>2
<1> QED BY <1>1, <1>3

\* Either everything is ch, or the front ends before the back begins.
LEMMA FrontBeforeBack ==
    ASSUME NEW x \in Seq(Char), NEW ch, NEW s, NEW e,
           FrontEnds(x, ch, s), BackBegins(x, ch, e)
    PROVE  (s = Len(x) /\ e = -1) \/ s <= e
<1>1. Len(x) \in Nat /\ s \in 0 .. Len(x) /\ e \in -1 .. Len(x) - 1
  BY DEF FrontEnds, BackBegins
<1>2. ASSUME e >= 0, s > e  PROVE FALSE
  <2>1. e + 1 \in 1 .. s
    BY <1>1, <1>2
  <2> QED BY <1>2, <2>1 DEF FrontEnds, BackBegins
<1>3. ASSUME s < Len(x), s > e  PROVE FALSE
  <2>1. s + 1 \in e + 2 .. Len(x)
    BY <1>1, <1>3
  <2> QED BY <1>3, <2>1 DEF FrontEnds, BackBegins
<1> QED BY <1>1, <1>2, <1>3

LEMMA LeadingIs ==
    ASSUME NEW x \in Seq(Char), NEW ch \in Char
    PROVE  LET s == StripStart(x, ch)
               r == strip(x, "L", ch).text
           IN  /\ r \in Seq(Char) /\ Len(r) = Len(x) - s
               /\ \A k \in 1 .. Len(x) - s : r[k] = x[s + k]
<1> DEFINE s == StripStart(x, ch)
           r == strip(x, "L", ch).text
<1>1. Len(x) \in Nat /\ s \in 0 .. Len(x)
  BY StripStartIs DEF FrontEnds
<1>2. r = IF x = << >> \/ s > Len(x) - 1 THEN << >>
          ELSE Piece(x, s, (Len(x) - 1) - s + 1)
  BY DEF strip, Empty, Result
<1> HIDE DEF s, r
<1>3. ASSUME s = Len(x)
      PROVE  /\ r \in Seq(Char) /\ Len(r) = Len(x) - s
             /\ \A k \in 1 .. Len(x) - s : r[k] = x[s + k]
  <2>1. r = << >>
    BY <1>1, <1>2, <1>3
  <2> QED BY <1>1, <1>3, <2>1
<1>4. ASSUME s < Len(x)
      PROVE  /\ r \in Seq(Char) /\ Len(r) = Len(x) - s
             /\ \A k \in 1 .. Len(x) - s : r[k] = x[s + k]
  <2>1. x # << >> /\ ~(s > Len(x) - 1) /\ (Len(x) - 1) - s + 1 = Len(x) - s
    BY <1>1, <1>4
  <2>2. r = Piece(x, s, Len(x) - s)
    BY <1>2, <2>1
  <2>3. s \in Nat /\ Len(x) - s \in Nat /\ s + (Len(x) - s) <= Len(x)
    BY <1>1
  <2> QED BY <2>2, <2>3, PieceIs
<1> QED BY <1>1, <1>3, <1>4 DEF s, r

LEMMA TrailingIs ==
    ASSUME NEW x \in Seq(Char), NEW ch \in Char
    PROVE  LET e == StripEnd(x, ch)
               r == strip(x, "T", ch).text
           IN  /\ r \in Seq(Char) /\ Len(r) = e + 1
               /\ \A k \in 1 .. e + 1 : r[k] = x[k]
<1> DEFINE e == StripEnd(x, ch)
           r == strip(x, "T", ch).text
<1>1. Len(x) \in Nat /\ e \in -1 .. Len(x) - 1
  BY StripEndIs DEF BackBegins
<1>2. r = IF x = << >> \/ 0 > e THEN << >> ELSE Piece(x, 0, e - 0 + 1)
  BY DEF strip, Empty, Result
<1> HIDE DEF e, r
<1>3. ASSUME e = -1
      PROVE  /\ r \in Seq(Char) /\ Len(r) = e + 1
             /\ \A k \in 1 .. e + 1 : r[k] = x[k]
  <2>1. r = << >>
    BY <1>1, <1>2, <1>3
  <2> QED BY <1>1, <1>3, <2>1
<1>4. ASSUME e >= 0
      PROVE  /\ r \in Seq(Char) /\ Len(r) = e + 1
             /\ \A k \in 1 .. e + 1 : r[k] = x[k]
  <2>1. x # << >> /\ ~(0 > e) /\ e - 0 + 1 = e + 1
    BY <1>1, <1>4
  <2>2. r = Piece(x, 0, e + 1)
    BY <1>2, <2>1
  <2>3. e + 1 \in Nat /\ 0 + (e + 1) <= Len(x)
    BY <1>1
  <2>4. r \in Seq(Char) /\ Len(r) = e + 1 /\ \A k \in 1 .. e + 1 : r[k] = x[0 + k]
    <3> DEFINE n == e + 1
    <3>1. n \in Nat /\ 0 \in Nat /\ 0 + n <= Len(x)
      BY <2>3
    <3> HIDE DEF n
    <3>2. /\ Piece(x, 0, n) \in Seq(Char) /\ Len(Piece(x, 0, n)) = n
          /\ \A k \in 1 .. n : Piece(x, 0, n)[k] = x[0 + k]
      BY <3>1, PieceIs
    <3> QED BY <2>2, <3>2 DEF n
  <2>5. \A k \in 1 .. e + 1 : 0 + k = k
    BY <1>1
  <2> QED BY <2>4, <2>5
<1> QED BY <1>1, <1>3, <1>4 DEF e, r

LEMMA BothIs ==
    ASSUME NEW x \in Seq(Char), NEW ch \in Char
    PROVE  LET s == StripStart(x, ch)
               e == StripEnd(x, ch)
               r == strip(x, "B", ch).text
           IN  /\ s > e => r = << >>
               /\ s <= e => /\ r \in Seq(Char) /\ Len(r) = e - s + 1
                            /\ \A k \in 1 .. e - s + 1 : r[k] = x[s + k]
<1> DEFINE s == StripStart(x, ch)
           e == StripEnd(x, ch)
           r == strip(x, "B", ch).text
<1>1. Len(x) \in Nat /\ s \in 0 .. Len(x) /\ e \in -1 .. Len(x) - 1
  BY StripStartIs, StripEndIs DEF FrontEnds, BackBegins
<1>2. r = IF x = << >> \/ s > e THEN << >> ELSE Piece(x, s, e - s + 1)
  BY DEF strip, Empty, Result
<1> HIDE DEF s, e, r
<1>3. ASSUME s <= e
      PROVE  /\ r \in Seq(Char) /\ Len(r) = e - s + 1
             /\ \A k \in 1 .. e - s + 1 : r[k] = x[s + k]
  <2>1. x # << >> /\ ~(s > e)
    BY <1>1, <1>3
  <2>2. s \in Nat /\ e - s + 1 \in Nat /\ s + (e - s + 1) <= Len(x)
    BY <1>1, <1>3
  <2> QED BY <1>2, <2>1, <2>2, PieceIs
<1> QED BY <1>2, <1>3 DEF s, e, r

\* strip(kill_char, 'B') is both ends, one after the other.
LEMMA BothAreOneByOne ==
    ASSUME NEW x \in Seq(Char), NEW ch \in Char
    PROVE  /\ strip(x, "B", ch).text = strip(strip(x, "L", ch).text, "T", ch).text
           /\ strip(x, "B", ch).text = strip(strip(x, "T", ch).text, "L", ch).text
<1> DEFINE s == StripStart(x, ch)
           e == StripEnd(x, ch)
           l == strip(x, "L", ch).text
           t == strip(x, "T", ch).text
           b == strip(x, "B", ch).text
<1>1. /\ FrontEnds(x, ch, s) /\ BackBegins(x, ch, e)
      /\ (s = Len(x) /\ e = -1) \/ s <= e
  BY StripStartIs, StripEndIs, FrontBeforeBack
<1>2. /\ Len(x) \in Nat /\ s \in 0 .. Len(x) /\ e \in -1 .. Len(x) - 1
      /\ \A i \in 1 .. s : x[i] = ch
      /\ s < Len(x) => x[s + 1] # ch
      /\ \A i \in e + 2 .. Len(x) : x[i] = ch
      /\ e >= 0 => x[e + 1] # ch
  BY <1>1 DEF FrontEnds, BackBegins
<1>3. l \in Seq(Char) /\ Len(l) = Len(x) - s /\ \A k \in 1 .. Len(x) - s : l[k] = x[s + k]
  BY LeadingIs
<1>4. t \in Seq(Char) /\ Len(t) = e + 1 /\ \A k \in 1 .. e + 1 : t[k] = x[k]
  BY TrailingIs
<1>5. /\ s > e => b = << >>
      /\ s <= e => /\ b \in Seq(Char) /\ Len(b) = e - s + 1
                   /\ \A k \in 1 .. e - s + 1 : b[k] = x[s + k]
  BY BothIs
<1> HIDE DEF s, e, l, t, b
<1>6. CASE s = Len(x) /\ e = -1
  <2>1. l = << >> /\ t = << >> /\ b = << >>
    BY <1>2, <1>3, <1>4, <1>5, <1>6
  <2>2. strip(<< >>, "T", ch).text = << >> /\ strip(<< >>, "L", ch).text = << >>
    BY DEF strip, Empty, Result
  <2> QED BY <2>1, <2>2 DEF l, t, b
<1>7. CASE s <= e
  <2>1. StripEnd(l, ch) = e - s
    <3>1. BackBegins(l, ch, e - s)
      <4>1. e - s \in -1 .. Len(l) - 1
        BY <1>2, <1>3, <1>7
      <4>2. ASSUME NEW i \in (e - s) + 2 .. Len(l)  PROVE l[i] = ch
        <5>1. i \in 1 .. Len(x) - s /\ s + i \in e + 2 .. Len(x)
          BY <1>2, <1>3, <1>7
        <5> QED BY <1>2, <1>3, <5>1
      <4>3. l[(e - s) + 1] # ch
        <5>1. (e - s) + 1 \in 1 .. Len(x) - s /\ s + ((e - s) + 1) = e + 1 /\ e >= 0
          BY <1>2, <1>7
        <5>2. l[(e - s) + 1] = x[e + 1]
          BY <1>3, <5>1
        <5> QED BY <1>2, <5>1, <5>2
      <4> QED BY <4>1, <4>2, <4>3 DEF BackBegins
    <3> QED BY <1>3, <3>1, StripEndIs, BackIsOne
  <2>2. strip(l, "T", ch).text = b
    <3> DEFINE y == strip(l, "T", ch).text
    <3>1. y \in Seq(Char) /\ Len(y) = (e - s) + 1 /\ \A k \in 1 .. (e - s) + 1 : y[k] = l[k]
      BY <1>3, <2>1, TrailingIs
    <3> HIDE DEF y
    <3>2. ASSUME NEW k \in 1 .. (e - s) + 1  PROVE y[k] = b[k]
      <4>1. k \in 1 .. Len(x) - s
        BY <1>2
      <4> QED BY <1>3, <1>5, <1>7, <3>1, <4>1
    <3> QED BY <1>5, <1>7, <3>1, <3>2, SameText DEF y
  <2>3. StripStart(t, ch) = s
    <3>1. FrontEnds(t, ch, s)
      <4>1. s \in 0 .. Len(t)
        BY <1>2, <1>4, <1>7
      <4>2. ASSUME NEW i \in 1 .. s  PROVE t[i] = ch
        <5>1. i \in 1 .. e + 1
          BY <1>2, <1>7
        <5> QED BY <1>2, <1>4, <5>1
      <4>3. t[s + 1] # ch
        <5>1. s + 1 \in 1 .. e + 1 /\ s < Len(x)
          BY <1>2, <1>7
        <5> QED BY <1>2, <1>4, <5>1
      <4> QED BY <4>1, <4>2, <4>3 DEF FrontEnds
    <3> QED BY <1>4, <3>1, StripStartIs, FrontIsOne
  <2>4. strip(t, "L", ch).text = b
    <3> DEFINE y == strip(t, "L", ch).text
    <3>1. y \in Seq(Char) /\ Len(y) = Len(t) - s /\ \A k \in 1 .. Len(t) - s : y[k] = t[s + k]
      BY <1>4, <2>3, LeadingIs
    <3>2. Len(t) - s = e - s + 1
      BY <1>2, <1>4
    <3> HIDE DEF y
    <3>3. ASSUME NEW k \in 1 .. e - s + 1  PROVE y[k] = b[k]
      <4>1. s + k \in 1 .. e + 1
        BY <1>2
      <4> QED BY <1>4, <1>5, <1>7, <3>1, <3>2, <4>1
    <3> QED BY <1>5, <1>7, <3>1, <3>2, <3>3, SameText DEF y
  <2> QED BY <2>2, <2>4 DEF l, t, b
<1> QED BY <1>1, <1>6, <1>7 DEF s, e

\* What is stripped off the front is copies of ch, and what is left begins with
\* something else.
LEMMA FrontIsStripped ==
    ASSUME NEW x \in Seq(Char), NEW ch \in Char
    PROVE  LET l == strip(x, "L", ch).text
           IN  /\ x = Fill(ch, Len(x) - Len(l)) \o l
               /\ l # << >> => l[1] # ch
<1> DEFINE s == StripStart(x, ch)
           l == strip(x, "L", ch).text
           y == Fill(ch, s) \o l
<1>1. /\ Len(x) \in Nat /\ s \in 0 .. Len(x)
      /\ \A i \in 1 .. s : x[i] = ch
      /\ s < Len(x) => x[s + 1] # ch
  BY StripStartIs DEF FrontEnds
<1>2. l \in Seq(Char) /\ Len(l) = Len(x) - s /\ \A k \in 1 .. Len(x) - s : l[k] = x[s + k]
  BY LeadingIs
<1>3. /\ y \in Seq(Char) /\ Len(y) = s + Len(l)
      /\ \A k \in 1 .. s : y[k] = ch
      /\ \A k \in s + 1 .. s + Len(l) : y[k] = l[k - s]
  <2>1. s \in Nat
    <3> HIDE DEF s
    <3> QED BY <1>1
  <2> HIDE DEF s, l
  <2> QED BY <1>2, <2>1, PaddedBefore
<1>4. Len(x) - Len(l) = s
  <2> HIDE DEF s, l
  <2> QED BY <1>1, <1>2
<1>5. x = y
  <2> HIDE DEF s, l, y
  <2>1. Len(y) = Len(x)
    BY <1>1, <1>2, <1>3
  <2>2. ASSUME NEW k \in 1 .. Len(x)  PROVE x[k] = y[k]
    <3>1. CASE k <= s
      BY <1>1, <1>3, <3>1
    <3>2. CASE ~(k <= s)
      <4>1. /\ k \in s + 1 .. s + Len(l) /\ k - s \in 1 .. Len(x) - s
            /\ s + (k - s) = k
        BY <1>1, <1>2, <3>2
      <4>2. y[k] = l[k - s]
        BY <1>3, <4>1
      <4>3. l[k - s] = x[s + (k - s)]
        BY <1>2, <4>1
      <4> QED BY <4>1, <4>2, <4>3
    <3> QED BY <3>1, <3>2
  <2> QED BY <1>3, <2>1, <2>2, SameText
<1>6. ASSUME l # << >>  PROVE l[1] # ch
  <2> HIDE DEF s, l
  <2>1. s < Len(x) /\ 1 \in 1 .. Len(x) - s
    BY <1>1, <1>2, <1>6
  <2> QED BY <1>1, <1>2, <2>1
<1> QED BY <1>4, <1>5, <1>6

LEMMA BackIsStripped ==
    ASSUME NEW x \in Seq(Char), NEW ch \in Char
    PROVE  LET t == strip(x, "T", ch).text
           IN  /\ x = t \o Fill(ch, Len(x) - Len(t))
               /\ t # << >> => t[Len(t)] # ch
<1> DEFINE e == StripEnd(x, ch)
           t == strip(x, "T", ch).text
           y == t \o Fill(ch, Len(x) - (e + 1))
<1>1. /\ Len(x) \in Nat /\ e \in -1 .. Len(x) - 1
      /\ \A i \in e + 2 .. Len(x) : x[i] = ch
      /\ e >= 0 => x[e + 1] # ch
  BY StripEndIs DEF BackBegins
<1>2. t \in Seq(Char) /\ Len(t) = e + 1 /\ \A k \in 1 .. e + 1 : t[k] = x[k]
  BY TrailingIs
<1>3. /\ y \in Seq(Char) /\ Len(y) = Len(t) + (Len(x) - (e + 1))
      /\ \A k \in 1 .. Len(t) : y[k] = t[k]
      /\ \A k \in Len(t) + 1 .. Len(t) + (Len(x) - (e + 1)) : y[k] = ch
  <2>1. Len(x) - (e + 1) \in Nat
    <3> HIDE DEF e
    <3> QED BY <1>1
  <2> DEFINE n == Len(x) - (e + 1)
  <2>2. t \in Seq(Char)
    BY <1>2
  <2> HIDE DEF e, t, n
  <2>3. n \in Nat
    BY <2>1 DEF n
  <2>4. /\ t \o Fill(ch, n) \in Seq(Char) /\ Len(t \o Fill(ch, n)) = Len(t) + n
        /\ \A k \in 1 .. Len(t) : (t \o Fill(ch, n))[k] = t[k]
        /\ \A k \in Len(t) + 1 .. Len(t) + n : (t \o Fill(ch, n))[k] = ch
    BY <2>2, <2>3, PaddedBehind
  <2> QED BY <2>4 DEF n
<1>4. x = y
  <2> HIDE DEF e, t, y
  <2>1. Len(y) = Len(x)
    BY <1>1, <1>2, <1>3
  <2>2. ASSUME NEW k \in 1 .. Len(x)  PROVE x[k] = y[k]
    <3>1. CASE k <= e + 1
      <4>1. k \in 1 .. e + 1
        BY <1>1, <3>1
      <4> QED BY <1>2, <1>3, <4>1
    <3>2. CASE ~(k <= e + 1)
      <4>1. /\ k \in e + 2 .. Len(x)
            /\ k \in Len(t) + 1 .. Len(t) + (Len(x) - (e + 1))
        BY <1>1, <1>2, <3>2
      <4> QED BY <1>1, <1>3, <4>1
    <3> QED BY <3>1, <3>2
  <2> QED BY <1>3, <2>1, <2>2, SameText
<1>5. ASSUME t # << >>  PROVE t[Len(t)] # ch
  <2> HIDE DEF e, t
  <2>1. e >= 0 /\ e + 1 \in 1 .. e + 1
    BY <1>1, <1>2, <1>5
  <2> QED BY <1>1, <1>2, <2>1
<1> QED BY <1>2, <1>4, <1>5

\* The law of strip(), str.cpp:770-777, of any text: what is removed is copies
\* of kill_char, no more can be, and the order of the ends does not matter.
THEOREM StrippingIsComplete ==
    ASSUME text \in Seq(Char)
    PROVE  StripIsComplete
BY BothAreOneByOne, FrontIsStripped, BackIsStripped DEF StripIsComplete
-----------------------------------------------------------------------------
(***************************************************************************)
(* Searching.                                                              *)
(***************************************************************************)
\* What an int can hold is not changed by wrapping it.
LEMMA WrapIsIdentity ==
    ASSUME NEW x \in Int, -(IntMax + 1) <= x, x <= IntMax
    PROVE  Wrap(x) = x
<1>1. IntMax \in Nat
  BY CharacterAssumption
<1> DEFINE a == x + IntMax + 1
           b == 2 * (IntMax + 1)
<1>2. a \in Nat /\ b \in Nat /\ b > 0 /\ a < b
  BY <1>1
<1>3. a % b = a
  <2> HIDE DEF a, b
  <2> QED BY <1>2
<1>4. a - (IntMax + 1) = x
  BY <1>1
<1> QED BY <1>3, <1>4 DEF Wrap

\* Where in a text with its NUL a character is found, counting from one.
FoundAt(x, ch, i) == i \in 1 .. Len(x) + 1 /\ At(x, i - 1) = ch

\* p is the first such place from o on.
FirstAt(x, ch, o, p) ==
    /\ p = 0 => (o \in 1 .. Len(x) + 1 => \A i \in Int : i >= o => ~FoundAt(x, ch, i))
    /\ p # 0 => /\ o \in 1 .. Len(x) + 1
                /\ p \in o .. Len(x) + 1 /\ FoundAt(x, ch, p)
                /\ \A i \in Int : i >= o /\ i < p => ~FoundAt(x, ch, i)

\* q is the last such place up to o.
LastAt(x, ch, o, q) ==
    /\ q = 0 => \A i \in Int : i <= o => ~FoundAt(x, ch, i)
    /\ q # 0 => /\ q \in 1 .. Len(x) + 1 /\ q <= o /\ FoundAt(x, ch, q)
                /\ \A i \in Int : i > q /\ i <= o => ~FoundAt(x, ch, i)

LEMMA PosIsFirst ==
    ASSUME NEW x \in Seq(Char), NEW ch, NEW o \in -IntMax .. IntMax + 1
    PROVE  FirstAt(x, ch, o, pos(x, ch, o))
<1> DEFINE found == {i \in o - 1 .. Len(x) : At(x, i) = ch}
           p == pos(x, ch, o)
           m == Min(found)
<1>1. Len(x) \in Nat /\ IntMax \in Nat /\ o \in Int
  BY CharacterAssumption
<1>2. Wrap(o - 1) = o - 1
  <2>1. o - 1 \in Int /\ -(IntMax + 1) <= o - 1 /\ o - 1 <= IntMax
    BY <1>1
  <2> QED BY <2>1, WrapIsIdentity
<1>3. p = IF o - 1 < 0 \/ o - 1 > Len(x) \/ found = {} THEN 0 ELSE m + 1
  BY <1>2 DEF pos
<1>4. \A i \in Int : FoundAt(x, ch, i) /\ i >= o => i - 1 \in found
  BY <1>1 DEF FoundAt
<1>5. \A i \in found : o >= 1 => FoundAt(x, ch, i + 1)
  BY <1>1 DEF FoundAt
<1>6. found \subseteq Int /\ \A i \in found : o - 1 <= i /\ i <= Len(x)
  BY <1>1
<1>7. found # {} => m \in found /\ \A i \in found : m <= i
  <2>1. o - 1 \in Int
    BY <1>1
  <2> HIDE DEF found
  <2> QED BY <1>6, <2>1, Least
<1> HIDE DEF found, p, m
<1>8. CASE o - 1 < 0 \/ o - 1 > Len(x)
  <2>1. p = 0 /\ o \notin 1 .. Len(x) + 1
    BY <1>1, <1>3, <1>8
  <2> QED BY <2>1 DEF FirstAt, p
<1>9. CASE found = {}
  <2>1. p = 0
    BY <1>3, <1>9
  <2>2. \A i \in Int : i >= o => ~FoundAt(x, ch, i)
    BY <1>4, <1>9
  <2> QED BY <2>1, <2>2 DEF FirstAt, p
<1>10. CASE ~(o - 1 < 0 \/ o - 1 > Len(x)) /\ found # {}
  <2>1. p = m + 1 /\ m \in found /\ o \in 1 .. Len(x) + 1
    BY <1>1, <1>3, <1>7, <1>10
  <2>2. m \in Int /\ o - 1 <= m /\ m <= Len(x)
    BY <1>6, <2>1
  <2>3. p # 0 /\ p \in o .. Len(x) + 1 /\ FoundAt(x, ch, p)
    <3>1. p # 0 /\ p \in o .. Len(x) + 1
      BY <1>1, <2>1, <2>2
    <3>2. o >= 1
      BY <2>1
    <3> QED BY <1>5, <2>1, <3>1, <3>2
  <2>4. ASSUME NEW i \in Int, i >= o, i < p, FoundAt(x, ch, i)  PROVE FALSE
    <3>1. i - 1 \in found
      BY <1>4, <2>4
    <3>2. m <= i - 1
      BY <1>7, <3>1
    <3> QED BY <2>1, <2>2, <2>4, <3>2
  <2> QED BY <2>1, <2>3, <2>4 DEF FirstAt, p
<1> QED BY <1>8, <1>9, <1>10

LEMMA LastPosIsLast ==
    ASSUME NEW x \in Seq(Char), NEW ch, NEW o \in -IntMax .. IntMax + 1
    PROVE  LastAt(x, ch, o, last_pos(x, ch, o))
<1> DEFINE most == Smaller(o - 1, Len(x))
           found == {i \in 0 .. most : At(x, i) = ch}
           q == last_pos(x, ch, o)
           m == Max(found)
<1>1. Len(x) \in Nat /\ IntMax \in Nat /\ o \in Int
  BY CharacterAssumption
<1>2. Wrap(o - 1) = o - 1
  <2>1. o - 1 \in Int /\ -(IntMax + 1) <= o - 1 /\ o - 1 <= IntMax
    BY <1>1
  <2> QED BY <2>1, WrapIsIdentity
<1>3. q = IF o - 1 < 0 \/ found = {} THEN 0 ELSE m + 1
  BY <1>2 DEF last_pos
<1>4. most \in Int /\ most <= o - 1 /\ most <= Len(x) /\ (most = o - 1 \/ most = Len(x))
  BY <1>1 DEF Smaller
<1> HIDE DEF most
<1>5. \A i \in Int : FoundAt(x, ch, i) /\ i <= o => i - 1 \in found
  BY <1>1, <1>4 DEF FoundAt
<1>6. \A i \in found : FoundAt(x, ch, i + 1)
  BY <1>1, <1>4 DEF FoundAt
<1>7. found \subseteq Int /\ \A i \in found : 0 <= i /\ i <= most
  BY <1>1, <1>4
<1>8. found # {} => m \in found /\ \A i \in found : i <= m
  <2> HIDE DEF found
  <2> QED BY <1>4, <1>7, Greatest
<1> HIDE DEF found, q, m
<1>9. CASE o - 1 < 0 \/ found = {}
  <2>1. q = 0
    BY <1>3, <1>9
  <2>2. ASSUME NEW i \in Int, i <= o, FoundAt(x, ch, i)  PROVE FALSE
    <3>1. i - 1 \in found
      BY <1>5, <2>2
    <3>2. i >= 1
      BY <2>2 DEF FoundAt
    <3> QED BY <1>1, <1>9, <2>2, <3>1, <3>2
  <2> QED BY <2>1, <2>2 DEF LastAt, q
<1>10. CASE ~(o - 1 < 0 \/ found = {})
  <2>1. q = m + 1 /\ m \in found
    BY <1>3, <1>8, <1>10
  <2>2. m \in Int /\ 0 <= m /\ m <= most
    BY <1>7, <2>1
  <2>3. q # 0 /\ q \in 1 .. Len(x) + 1 /\ q <= o /\ FoundAt(x, ch, q)
    <3>1. q # 0 /\ q \in 1 .. Len(x) + 1 /\ q <= o
      BY <1>1, <1>4, <2>1, <2>2
    <3> QED BY <1>6, <2>1, <3>1
  <2>4. ASSUME NEW i \in Int, i > q, i <= o, FoundAt(x, ch, i)  PROVE FALSE
    <3>1. i - 1 \in found
      BY <1>5, <2>4
    <3>2. i - 1 <= m
      BY <1>8, <3>1
    <3> QED BY <2>1, <2>2, <2>4, <3>2
  <2> QED BY <2>1, <2>3, <2>4 DEF LastAt, q
<1> QED BY <1>9, <1>10

\* Forward and backward searches agree on the characters there are to find.
LEMMA CharacterSearchesAgree ==
    ASSUME NEW x \in Seq(Char), Len(x) < IntMax, NEW ch, NEW o \in -IntMax .. IntMax
    PROVE  LET p == pos(x, ch, o)
               q == last_pos(x, ch, o)
           IN  /\ p # 0 => /\ p >= o /\ last_pos(x, ch, p - 1) < o
                           /\ \A end \in p .. IntMax : last_pos(x, ch, end) >= p
               /\ q # 0 => /\ q <= o /\ pos(x, ch, q + 1) \notin 1 .. o
                           /\ \A begin \in 1 .. q : pos(x, ch, begin) \in 1 .. q
               /\ p = 0 /\ o \in 1 .. Len(x) + 1 => last_pos(x, ch, IntMax) < o
<1> DEFINE p == pos(x, ch, o)
           q == last_pos(x, ch, o)
<1>1. Len(x) \in Nat /\ IntMax \in Nat /\ o \in Int
  BY CharacterAssumption
<1>2. FirstAt(x, ch, o, p) /\ LastAt(x, ch, o, q)
  <2>1. o \in -IntMax .. IntMax + 1
    BY <1>1
  <2> QED BY <2>1, PosIsFirst, LastPosIsLast
<1> HIDE DEF p, q
<1>3. \A i : FoundAt(x, ch, i) => i \in 1 .. Len(x) + 1 /\ i \in Int
  BY <1>1 DEF FoundAt
<1>4. ASSUME p # 0  PROVE p >= o /\ last_pos(x, ch, p - 1) < o
  <2> DEFINE r == last_pos(x, ch, p - 1)
  <2>1. /\ o \in 1 .. Len(x) + 1 /\ p \in o .. Len(x) + 1
        /\ \A i \in Int : i >= o /\ i < p => ~FoundAt(x, ch, i)
    BY <1>2, <1>4 DEF FirstAt
  <2>2. p - 1 \in -IntMax .. IntMax + 1
    BY <1>1, <2>1
  <2>3. LastAt(x, ch, p - 1, r)
    BY <2>2, LastPosIsLast
  <2> HIDE DEF r
  <2>4. CASE r = 0
    BY <1>1, <2>1, <2>4 DEF r
  <2>5. CASE r # 0
    <3>1. r \in Int /\ r <= p - 1 /\ FoundAt(x, ch, r)
      BY <1>1, <2>3, <2>5 DEF LastAt
    <3>2. ~(r >= o)
      BY <1>1, <2>1, <3>1
    <3> QED BY <1>1, <2>1, <3>1, <3>2 DEF r
  <2> QED BY <1>1, <2>1, <2>4, <2>5
<1>5. ASSUME p # 0, NEW end \in p .. IntMax  PROVE last_pos(x, ch, end) >= p
  <2> DEFINE r == last_pos(x, ch, end)
  <2>1. o \in 1 .. Len(x) + 1 /\ p \in o .. Len(x) + 1 /\ FoundAt(x, ch, p)
    BY <1>2, <1>5 DEF FirstAt
  <2>2. end \in -IntMax .. IntMax + 1 /\ p \in Int /\ p <= end
    BY <1>1, <2>1
  <2>3. LastAt(x, ch, end, r)
    BY <2>2, LastPosIsLast
  <2> HIDE DEF r
  <2>4. r # 0
    BY <2>1, <2>2, <2>3 DEF LastAt
  <2>5. r \in Int /\ ~(p > r)
    BY <1>1, <2>1, <2>2, <2>3, <2>4 DEF LastAt
  <2> QED BY <2>2, <2>5 DEF r
<1>6. ASSUME q # 0  PROVE q <= o /\ pos(x, ch, q + 1) \notin 1 .. o
  <2> DEFINE r == pos(x, ch, q + 1)
  <2>1. /\ q \in 1 .. Len(x) + 1 /\ q <= o
        /\ \A i \in Int : i > q /\ i <= o => ~FoundAt(x, ch, i)
    BY <1>2, <1>6 DEF LastAt
  <2>2. q + 1 \in -IntMax .. IntMax + 1
    BY <1>1, <2>1
  <2>3. FirstAt(x, ch, q + 1, r)
    BY <2>2, PosIsFirst
  <2> HIDE DEF r
  <2>4. ASSUME r \in 1 .. o  PROVE FALSE
    <3>1. r # 0 /\ r \in Int /\ r <= o
      BY <1>1, <2>4
    <3>2. r \in q + 1 .. Len(x) + 1 /\ FoundAt(x, ch, r)
      BY <2>3, <3>1 DEF FirstAt
    <3>3. r > q
      BY <1>1, <2>1, <3>2
    <3> QED BY <2>1, <3>1, <3>2, <3>3
  <2> QED BY <2>1, <2>4 DEF r
<1>7. ASSUME q # 0, NEW begin \in 1 .. q  PROVE pos(x, ch, begin) \in 1 .. q
  <2> DEFINE r == pos(x, ch, begin)
  <2>1. q \in 1 .. Len(x) + 1 /\ FoundAt(x, ch, q)
    BY <1>2, <1>7 DEF LastAt
  <2>2. /\ begin \in -IntMax .. IntMax + 1 /\ begin \in 1 .. Len(x) + 1
        /\ q \in Int /\ q >= begin /\ begin \in Int /\ begin >= 1
    BY <1>1, <2>1
  <2>3. FirstAt(x, ch, begin, r)
    BY <2>2, PosIsFirst
  <2> HIDE DEF r
  <2>4. r # 0
    BY <2>1, <2>2, <2>3 DEF FirstAt
  <2>5. r \in begin .. Len(x) + 1 /\ ~(q < r)
    BY <2>1, <2>2, <2>3, <2>4 DEF FirstAt
  <2> QED BY <1>1, <2>2, <2>5 DEF r
<1>8. ASSUME p = 0, o \in 1 .. Len(x) + 1  PROVE last_pos(x, ch, IntMax) < o
  <2> DEFINE r == last_pos(x, ch, IntMax)
  <2>1. \A i \in Int : i >= o => ~FoundAt(x, ch, i)
    BY <1>2, <1>8 DEF FirstAt
  <2>2. IntMax \in -IntMax .. IntMax + 1
    BY <1>1
  <2>3. LastAt(x, ch, IntMax, r)
    BY <2>2, LastPosIsLast
  <2> HIDE DEF r
  <2>4. CASE r = 0
    BY <1>1, <1>8, <2>4 DEF r
  <2>5. CASE r # 0
    <3>1. r \in Int /\ FoundAt(x, ch, r)
      BY <1>1, <2>3, <2>5 DEF LastAt
    <3>2. ~(r >= o)
      BY <2>1, <3>1
    <3> QED BY <1>1, <3>1, <3>2 DEF r
  <2> QED BY <2>4, <2>5
<1> QED BY <1>4, <1>5, <1>6, <1>7, <1>8 DEF p, q

\* pos() of a text is the first place where substr() has it.
LEMMA TextSearchIsSubstr ==
    ASSUME NEW x \in Seq(Char), Len(x) < IntMax, NEW needle \in Seq(Char),
           NEW o \in 1 .. IntMax
    PROVE  LET Matches == {i \in 1 .. Len(x) + 1 :
                              i >= o /\ substr(x, i, Len(needle)).text = needle}
           IN  pos_text(x, needle, o) = IF Matches = {} THEN 0 ELSE Min(Matches)
<1> DEFINE n == Len(needle)
           found == {i \in o - 1 .. Len(x) - n : Piece(x, i, n) = needle}
           Matches == {i \in 1 .. Len(x) + 1 : i >= o /\ substr(x, i, n).text = needle}
           p == pos_text(x, needle, o)
           m == Min(found)
<1>1. Len(x) \in Nat /\ IntMax \in Nat /\ n \in Nat /\ o \in Int /\ o >= 1 /\ o <= IntMax
  BY CharacterAssumption
<1>2. Wrap(o - 1) = o - 1
  <2>1. o - 1 \in Int /\ -(IntMax + 1) <= o - 1 /\ o - 1 <= IntMax
    BY <1>1
  <2> QED BY <2>1, WrapIsIdentity
<1>3. p = IF o - 1 < 0 \/ o - 1 > Len(x) \/ found = {} THEN 0 ELSE m + 1
  BY <1>2 DEF pos_text
<1>4. ASSUME NEW i \in 1 .. Len(x) + 1
      PROVE  substr(x, i, n).text = needle
                <=> i - 1 <= Len(x) - n /\ Piece(x, i - 1, n) = needle
  <2>1. i \in Int /\ i - 1 \in 0 .. Len(x)
    BY <1>1
  <2>2. Wrap(i - 1) = i - 1
    <3>1. i - 1 \in Int /\ -(IntMax + 1) <= i - 1 /\ i - 1 <= IntMax
      BY <1>1
    <3> QED BY <3>1, WrapIsIdentity
  <2> DEFINE k == Smaller(n, Len(x) - (i - 1))
  <2>3. substr(x, i, n).text = IF i - 1 < 0 \/ n < 0 \/ i - 1 >= Len(x) THEN << >>
                               ELSE Piece(x, i - 1, k)
    BY <2>2 DEF substr, Empty, Result
  <2>4. /\ k \in Nat /\ (i - 1) + k <= Len(x)
        /\ i - 1 <= Len(x) - n <=> k = n
    BY <1>1, <2>1 DEF Smaller
  <2> HIDE DEF k
  <2>5. Piece(x, i - 1, k) \in Seq(Char) /\ Len(Piece(x, i - 1, k)) = k
    <3>1. i - 1 \in Nat
      BY <2>1
    <3> QED BY <2>4, <3>1, PieceIs
  <2>6. CASE i - 1 < Len(x)
    <3>1. substr(x, i, n).text = Piece(x, i - 1, k)
      BY <1>1, <2>1, <2>3, <2>6
    <3>2. Piece(x, i - 1, k) = needle => k = n
      BY <2>5
    <3> QED BY <2>4, <3>1, <3>2
  <2>7. CASE i - 1 = Len(x)
    <3>1. substr(x, i, n).text = << >> /\ k = 0
      <4>1. substr(x, i, n).text = << >>
        BY <1>1, <2>1, <2>3, <2>7
      <4>2. k = 0
        BY <1>1, <2>1, <2>4, <2>7
      <4> QED BY <4>1, <4>2
    <3>2. Piece(x, i - 1, k) = << >>
      <4> DEFINE y == Piece(x, i - 1, k)
      <4>1. y \in Seq(Char) /\ Len(y) = 0
        BY <2>5, <3>1
      <4> HIDE DEF y
      <4>2. y = << >>
        BY <4>1
      <4> QED BY <4>2 DEF y
    <3>3. << >> = needle => k = n
      BY <3>1
    <3> QED BY <2>4, <3>1, <3>2, <3>3
  <2> QED BY <1>1, <2>1, <2>6, <2>7
<1>5. \A i \in Matches : i - 1 \in found
  <2> SUFFICES ASSUME NEW i \in Matches  PROVE i - 1 \in found
    OBVIOUS
  <2>1. i \in 1 .. Len(x) + 1 /\ i >= o /\ substr(x, i, n).text = needle
    OBVIOUS
  <2>2. i - 1 <= Len(x) - n /\ Piece(x, i - 1, n) = needle
    BY <1>4, <2>1
  <2> HIDE DEF Matches
  <2>3. i - 1 \in o - 1 .. Len(x) - n
    BY <1>1, <2>1, <2>2
  <2> QED BY <2>2, <2>3
<1>6. \A i \in found : i + 1 \in Matches
  <2> SUFFICES ASSUME NEW i \in found  PROVE i + 1 \in Matches
    OBVIOUS
  <2>1. i \in o - 1 .. Len(x) - n /\ Piece(x, i, n) = needle
    OBVIOUS
  <2> HIDE DEF found
  <2>2. i + 1 \in 1 .. Len(x) + 1 /\ i + 1 >= o /\ (i + 1) - 1 = i /\ i <= Len(x) - n
    BY <1>1, <2>1
  <2>3. substr(x, i + 1, n).text = needle
    BY <1>4, <2>1, <2>2
  <2> QED BY <2>2, <2>3
<1>7. found \subseteq o - 1 .. Len(x) - n /\ Matches \subseteq 1 .. Len(x) + 1
  OBVIOUS
<1> HIDE DEF found, Matches, p, m
<1>8. CASE found = {}
  <2>1. Matches = {} /\ p = 0
    BY <1>3, <1>5, <1>8
  <2> QED BY <2>1 DEF Matches, p
<1>9. CASE found # {}
  <2>1. m \in found /\ \A i \in found : m <= i
    <3>1. found \subseteq Int /\ o - 1 \in Int /\ \A i \in found : o - 1 <= i
      BY <1>1, <1>7
    <3> QED BY <1>9, <3>1, Least DEF m
  <2>2. m \in Int /\ o - 1 <= m /\ m <= Len(x)
    BY <1>1, <1>7, <2>1
  <2>3. p = m + 1
    BY <1>1, <1>3, <1>9, <2>2
  <2>4. m + 1 \in Matches /\ Matches \subseteq Int
    BY <1>1, <1>6, <1>7, <2>1
  <2>5. ASSUME NEW i \in Matches  PROVE m + 1 <= i
    <3>1. m <= i - 1 /\ i \in Int
      BY <1>5, <2>1, <2>4
    <3> QED BY <2>2, <3>1
  <2>6. Min(Matches) = m + 1
    BY <2>4, <2>5, MinIs
  <2> QED BY <2>3, <2>4, <2>6 DEF Matches, p
<1> QED BY <1>8, <1>9

\* The law of pos() and last_pos(), str.cpp:668-675, :702-708, :733-741, of any
\* text whose length is less than INT_MAX: the searches agree on what there is
\* to find.
THEOREM SearchingAgrees ==
    ASSUME text \in Seq(Char), Len(text) < IntMax
    PROVE  SearchesAgree
<1>1. IntMax \in Nat
  BY CharacterAssumption
<1>2. ASSUME NEW ch \in Char \union {NUL}, NEW o \in Ints
      PROVE  LET p == pos(text, ch, o)
                 q == last_pos(text, ch, o)
             IN  /\ p # 0 => /\ p >= o /\ last_pos(text, ch, p - 1) < o
                             /\ \A end \in p .. IntMax : last_pos(text, ch, end) >= p
                 /\ q # 0 => /\ q <= o /\ pos(text, ch, q + 1) \notin 1 .. o
                             /\ \A begin \in 1 .. q : pos(text, ch, begin) \in 1 .. q
                 /\ p = 0 /\ o \in 1 .. Len(text) + 1 => last_pos(text, ch, IntMax) < o
  BY CharacterSearchesAgree DEF Ints
<1>3. ASSUME NEW needle \in Needles, NEW o \in Ints, o >= 1
      PROVE  LET Matches == {i \in 1 .. Len(text) + 1 :
                                i >= o /\ substr(text, i, Len(needle)).text = needle}
             IN  pos_text(text, needle, o) = IF Matches = {} THEN 0 ELSE Min(Matches)
  <2>1. needle \in Seq(Char)
    <3>1. PICK k \in 0 .. 2 : needle \in [1 .. k -> Char]
      BY DEF Needles
    <3> QED BY <3>1
  <2>2. o \in 1 .. IntMax
    BY <1>1, <1>3 DEF Ints
  <2> QED BY <2>1, <2>2, TextSearchIsSubstr
<1> QED BY <1>2, <1>3 DEF SearchesAgree
-----------------------------------------------------------------------------
(***************************************************************************)
(* Induction and recursion over the natural numbers.                       *)
(***************************************************************************)
LEMMA Induction ==
    ASSUME NEW T, 0 \in T, \A m \in Nat : m \in T => m + 1 \in T
    PROVE  \A m \in Nat : m \in T
<1> DEFINE U == {m \in Nat : m \notin T}
<1>1. SUFFICES ASSUME U # {}  PROVE FALSE
  OBVIOUS
<1>2. PICK m \in U : \A k \in U : m <= k
  <2>1. U \subseteq Nat
    OBVIOUS
  <2> HIDE DEF U
  <2> QED BY <1>1, <2>1, LeastNat
<1>3. m \in Nat /\ m # 0 /\ m \notin T
  OBVIOUS
<1>4. m - 1 \in Nat /\ m - 1 \notin U
  <2>1. m - 1 \in Nat /\ ~(m <= m - 1)
    BY <1>3
  <2> HIDE DEF U
  <2> QED BY <1>2, <2>1
<1>5. m - 1 \in T /\ (m - 1) + 1 = m
  BY <1>3, <1>4
<1> QED BY <1>3, <1>4, <1>5

\* A function each of whose values comes from the one before is there.
Steps(S, base, step) == base \in S /\ step \in [Nat -> [S -> S]]
Iterates(S, base, step, n, f) ==
    /\ f \in [0 .. n -> S]
    /\ \A k \in 0 .. n : f[k] = IF k = 0 THEN base ELSE step[k][f[k - 1]]

LEMMA RecursiveFunction ==
    ASSUME NEW S, NEW base, NEW step, Steps(S, base, step)
    PROVE  \A n \in Nat : \E f : Iterates(S, base, step, n, f)
<1> DEFINE Rule(f, n) == Iterates(S, base, step, n, f)
           T == {n \in Nat : \E f : Rule(f, n)}
<1> USE DEF Steps, Iterates
<1>1. 0 \in T
  <2>1. Rule([k \in 0 .. 0 |-> base], 0)
    OBVIOUS
  <2> HIDE DEF Rule
  <2> QED BY <2>1
<1>2. ASSUME NEW m \in Nat, m \in T  PROVE m + 1 \in T
  <2>1. PICK f : Rule(f, m)
    BY <1>2
  <2> DEFINE g == [k \in 0 .. m + 1 |-> IF k <= m THEN f[k] ELSE step[k][f[m]]]
  <2>2. \A k \in 0 .. m : g[k] = f[k]
    OBVIOUS
  <2>3. f[m] \in S
    BY <2>1
  <2>4. m + 1 \in 0 .. m + 1 /\ ~(m + 1 <= m) /\ m + 1 # 0 /\ (m + 1) - 1 = m /\ m \in 0 .. m
    OBVIOUS
  <2>5. g[m + 1] = step[m + 1][f[m]] /\ step[m + 1][f[m]] \in S
    <3>1. m + 1 \in Nat
      OBVIOUS
    <3> QED BY <2>3, <2>4, <3>1
  <2>6. \A k \in 0 .. m + 1 : k \in 0 .. m \/ k = m + 1
    OBVIOUS
  <2>7. g \in [0 .. m + 1 -> S]
    <3>1. \A k \in 0 .. m + 1 : (IF k <= m THEN f[k] ELSE step[k][f[m]]) \in S
      <4> SUFFICES ASSUME NEW k \in 0 .. m + 1
                   PROVE  (IF k <= m THEN f[k] ELSE step[k][f[m]]) \in S
        OBVIOUS
      <4>1. CASE k \in 0 .. m
        BY <2>1, <4>1
      <4>2. CASE k = m + 1
        BY <2>4, <2>5, <4>2
      <4> QED BY <2>6, <4>1, <4>2
    <3> QED BY <3>1
  <2> HIDE DEF g
  <2>8. ASSUME NEW k \in 0 .. m + 1
        PROVE  g[k] = IF k = 0 THEN base ELSE step[k][g[k - 1]]
    <3>1. CASE k \in 0 .. m
      <4>1. k # 0 => k - 1 \in 0 .. m
        BY <3>1
      <4> QED BY <2>1, <2>2, <3>1, <4>1
    <3>2. CASE k = m + 1
      BY <2>2, <2>4, <2>5, <3>2
    <3> QED BY <2>6, <3>1, <3>2
  <2>9. Rule(g, m + 1)
    BY <2>7, <2>8
  <2> HIDE DEF Rule
  <2> QED BY <2>9
<1>3. \A n \in Nat : n \in T
  <2> HIDE DEF T
  <2> QED BY <1>1, <1>2, Induction
<1> QED BY <1>3
-----------------------------------------------------------------------------
(***************************************************************************)
(* Copying.                                                                *)
(***************************************************************************)
\* The texts that copy() builds up in temp.
Copies(x, n, temp) ==
    temp = [k \in 0 .. n |-> IF k = 0 THEN << >> ELSE temp[k - 1] \o x]

LEMMA CopiesAreThere ==
    ASSUME NEW x \in Seq(Char), NEW n \in Nat
    PROVE  \E temp : Copies(x, n, temp)
<1> DEFINE S == Seq(Char)
           step == [k \in Nat |-> [s \in S |-> s \o x]]
<1>1. Steps(S, << >>, step)
  BY DEF Steps
<1>2. \A s \in S, k \in Nat : step[k][s] = s \o x
  OBVIOUS
<1> HIDE DEF step
<1>3. PICK f : Iterates(S, << >>, step, n, f)
  BY <1>1, RecursiveFunction
<1>4. ASSUME NEW k \in 0 .. n
      PROVE  f[k] = IF k = 0 THEN << >> ELSE f[k - 1] \o x
  <2>1. k # 0 => k - 1 \in 0 .. n /\ k \in Nat
    OBVIOUS
  <2>2. k # 0 => f[k - 1] \in S
    BY <1>3, <2>1 DEF Iterates
  <2> QED BY <1>2, <1>3, <2>1, <2>2 DEF Iterates
<1> QED BY <1>3, <1>4 DEF Copies, Iterates

LEMMA CopyIs ==
    ASSUME NEW x \in Seq(Char), NEW n \in Nat
    PROVE  \E temp : Copies(x, n, temp) /\ copy(x, n) = Result(n * Len(x) + 1, temp[n])
<1> DEFINE temp == CHOOSE f : Copies(x, n, f)
<1>1. Copies(x, n, temp)
  BY CopiesAreThere
<1>2. copy(x, n) = Result(n * Len(x) + 1, temp[n])
  BY DEF copy, Copies
<1> QED BY <1>1, <1>2

LEMMA CopiesAre ==
    ASSUME NEW x \in Seq(Char), NEW n \in Nat, NEW temp, Copies(x, n, temp)
    PROVE  \A k \in 0 .. n : temp[k] \in Seq(Char) /\ Len(temp[k]) = k * Len(x)
<1> DEFINE T == {k \in Nat : k <= n => temp[k] \in Seq(Char) /\ Len(temp[k]) = k * Len(x)}
<1>1. Len(x) \in Nat
  OBVIOUS
<1>2. \A k \in 0 .. n : temp[k] = IF k = 0 THEN << >> ELSE temp[k - 1] \o x
  BY DEF Copies
<1>3. 0 \in T
  <2>1. temp[0] = << >>
    BY <1>2
  <2>2. << >> \in Seq(Char) /\ Len(<< >>) = 0 /\ 0 * Len(x) = 0
    BY <1>1
  <2> QED BY <2>1, <2>2
<1>4. ASSUME NEW k \in Nat, k \in T  PROVE k + 1 \in T
  <2> SUFFICES ASSUME k + 1 <= n
               PROVE  temp[k + 1] \in Seq(Char) /\ Len(temp[k + 1]) = (k + 1) * Len(x)
    OBVIOUS
  <2>1. temp[k] \in Seq(Char) /\ Len(temp[k]) = k * Len(x)
    BY <1>4
  <2>2. k + 1 \in 0 .. n /\ k + 1 # 0 /\ (k + 1) - 1 = k
    OBVIOUS
  <2>3. temp[k + 1] = temp[k] \o x
    BY <1>2, <2>2
  <2>4. temp[k] \o x \in Seq(Char) /\ Len(temp[k] \o x) = k * Len(x) + Len(x)
    BY <2>1
  <2>5. k * Len(x) + Len(x) = (k + 1) * Len(x)
    BY <1>1
  <2> QED BY <2>3, <2>4, <2>5
<1>5. \A k \in Nat : k \in T
  <2> HIDE DEF T
  <2> QED BY <1>3, <1>4, Induction
<1> QED BY <1>5

\* However often a text is copied, one copy more is the text behind the others.
LEMMA CopyGrows ==
    ASSUME NEW x \in Seq(Char), NEW n \in Nat
    PROVE  /\ copy(x, n).text \in Seq(Char)
           /\ Len(copy(x, n).text) = n * Len(x)
           /\ copy(x, n).alloc = n * Len(x) + 1
           /\ copy(x, n + 1).text = copy(x, n).text \o x
<1>1. PICK t : Copies(x, n, t) /\ copy(x, n) = Result(n * Len(x) + 1, t[n])
  BY CopyIs
<1>2. PICK u : Copies(x, n + 1, u) /\ copy(x, n + 1) = Result((n + 1) * Len(x) + 1, u[n + 1])
  BY CopyIs
<1>3. t[n] \in Seq(Char) /\ Len(t[n]) = n * Len(x)
  BY <1>1, CopiesAre
<1>4. /\ \A k \in 0 .. n : t[k] = IF k = 0 THEN << >> ELSE t[k - 1] \o x
      /\ \A k \in 0 .. n + 1 : u[k] = IF k = 0 THEN << >> ELSE u[k - 1] \o x
  <2>1. \A k \in 0 .. n : t[k] = IF k = 0 THEN << >> ELSE t[k - 1] \o x
    BY <1>1 DEF Copies
  <2>2. \A k \in 0 .. n + 1 : u[k] = IF k = 0 THEN << >> ELSE u[k - 1] \o x
    BY <1>2 DEF Copies
  <2> QED BY <2>1, <2>2
<1> DEFINE T == {k \in Nat : k <= n => u[k] = t[k]}
<1>5. 0 \in T
  BY <1>4
<1>6. ASSUME NEW k \in Nat, k \in T  PROVE k + 1 \in T
  <2> SUFFICES ASSUME k + 1 <= n  PROVE u[k + 1] = t[k + 1]
    OBVIOUS
  <2>1. u[k] = t[k]
    BY <1>6
  <2>2. k + 1 \in 0 .. n /\ k + 1 \in 0 .. n + 1 /\ k + 1 # 0 /\ (k + 1) - 1 = k
    OBVIOUS
  <2> QED BY <1>4, <2>1, <2>2
<1>7. u[n] = t[n]
  <2>1. \A k \in Nat : k \in T
    <3> HIDE DEF T
    <3> QED BY <1>5, <1>6, Induction
  <2> QED BY <2>1
<1>8. u[n + 1] = u[n] \o x
  <2>1. n + 1 \in 0 .. n + 1 /\ n + 1 # 0 /\ (n + 1) - 1 = n
    OBVIOUS
  <2> QED BY <1>4, <2>1
<1> QED BY <1>1, <1>2, <1>3, <1>7, <1>8 DEF Result
-----------------------------------------------------------------------------
(***************************************************************************)
(* Cutting and splicing.                                                   *)
(***************************************************************************)
LEMMA JoinTakenApart ==
    ASSUME NEW x \in Seq(Char), NEW y \in Seq(Char)
    PROVE  /\ Piece(x \o y, 0, Len(x)) = x
           /\ Rest(x \o y, Len(x)) = y
<1> DEFINE z == x \o y
           p == Piece(z, 0, Len(x))
           r == Rest(z, Len(x))
<1>1. Len(x) \in Nat /\ Len(y) \in Nat
  OBVIOUS
<1>2. /\ z \in Seq(Char) /\ Len(z) = Len(x) + Len(y)
      /\ \A k \in 1 .. Len(x) : z[k] = x[k]
      /\ \A k \in Len(x) + 1 .. Len(x) + Len(y) : z[k] = y[k - Len(x)]
  BY Joined
<1> HIDE DEF z
<1>3. /\ p \in Seq(Char) /\ Len(p) = Len(x)
      /\ \A k \in 1 .. Len(x) : p[k] = z[0 + k]
  <2>1. 0 \in Nat /\ 0 + Len(x) <= Len(z)
    BY <1>1, <1>2
  <2> QED BY <1>1, <1>2, <2>1, PieceIs
<1>4. /\ r \in Seq(Char) /\ Len(r) = Len(z) - Len(x)
      /\ \A k \in 1 .. Len(z) - Len(x) : r[k] = z[Len(x) + k]
  <2>1. Len(x) \in 0 .. Len(z)
    BY <1>1, <1>2
  <2> QED BY <1>2, <2>1, RestIs
<1> HIDE DEF p, r
<1>5. p = x
  <2>1. ASSUME NEW k \in 1 .. Len(x)  PROVE p[k] = x[k]
    <3>1. 0 + k = k
      OBVIOUS
    <3> QED BY <1>2, <1>3, <3>1
  <2> QED BY <1>3, <2>1, SameText
<1>6. r = y
  <2>1. Len(z) - Len(x) = Len(y)
    BY <1>1, <1>2
  <2>2. ASSUME NEW k \in 1 .. Len(y)  PROVE r[k] = y[k]
    <3>1. Len(x) + k \in Len(x) + 1 .. Len(x) + Len(y) /\ (Len(x) + k) - Len(x) = k
      BY <1>1
    <3>2. z[Len(x) + k] = y[k]
      BY <1>2, <3>1
    <3> QED BY <1>4, <2>1, <3>2
  <2> QED BY <1>4, <2>1, <2>2, SameText
<1> QED BY <1>5, <1>6 DEF p, r, z

LEMMA PieceOfJoin ==
    ASSUME NEW x \in Seq(Char), NEW y \in Seq(Char), NEW i \in Nat, NEW n \in Nat,
           i + n <= Len(x)
    PROVE  Piece(x \o y, i, n) = Piece(x, i, n)
<1> DEFINE z == x \o y
           p == Piece(z, i, n)
           q == Piece(x, i, n)
<1>1. Len(x) \in Nat /\ Len(y) \in Nat
  OBVIOUS
<1>2. /\ z \in Seq(Char) /\ Len(z) = Len(x) + Len(y)
      /\ \A k \in 1 .. Len(x) : z[k] = x[k]
  BY Joined
<1> HIDE DEF z
<1>3. p \in Seq(Char) /\ Len(p) = n /\ \A k \in 1 .. n : p[k] = z[i + k]
  <2>1. i + n <= Len(z)
    BY <1>1, <1>2
  <2> QED BY <1>2, <2>1, PieceIs
<1>4. q \in Seq(Char) /\ Len(q) = n /\ \A k \in 1 .. n : q[k] = x[i + k]
  BY PieceIs
<1> HIDE DEF p, q
<1>5. ASSUME NEW k \in 1 .. n  PROVE p[k] = q[k]
  <2>1. i + k \in 1 .. Len(x)
    BY <1>1
  <2> QED BY <1>2, <1>3, <1>4, <2>1
<1>6. p = q
  BY <1>3, <1>4, <1>5, SameText
<1> QED BY <1>6 DEF p, q, z

LEMMA PieceBehind ==
    ASSUME NEW x \in Seq(Char), NEW y \in Seq(Char), NEW n \in Nat, n <= Len(y)
    PROVE  Piece(x \o y, Len(x), n) = Piece(y, 0, n)
<1> DEFINE z == x \o y
           p == Piece(z, Len(x), n)
           q == Piece(y, 0, n)
<1>1. Len(x) \in Nat /\ Len(y) \in Nat
  OBVIOUS
<1>2. /\ z \in Seq(Char) /\ Len(z) = Len(x) + Len(y)
      /\ \A k \in Len(x) + 1 .. Len(x) + Len(y) : z[k] = y[k - Len(x)]
  BY Joined
<1> HIDE DEF z
<1>3. p \in Seq(Char) /\ Len(p) = n /\ \A k \in 1 .. n : p[k] = z[Len(x) + k]
  <2>1. Len(x) + n <= Len(z)
    BY <1>1, <1>2
  <2> QED BY <1>1, <1>2, <2>1, PieceIs
<1>4. q \in Seq(Char) /\ Len(q) = n /\ \A k \in 1 .. n : q[k] = y[0 + k]
  <2>1. 0 \in Nat /\ 0 + n <= Len(y)
    BY <1>1
  <2> QED BY <2>1, PieceIs
<1> HIDE DEF p, q
<1>5. ASSUME NEW k \in 1 .. n  PROVE p[k] = q[k]
  <2>1. /\ Len(x) + k \in Len(x) + 1 .. Len(x) + Len(y)
        /\ (Len(x) + k) - Len(x) = 0 + k
    BY <1>1
  <2>2. z[Len(x) + k] = y[0 + k]
    BY <1>2, <2>1
  <2> QED BY <1>3, <1>4, <2>2
<1>6. p = q
  BY <1>3, <1>4, <1>5, SameText
<1> QED BY <1>6 DEF p, q, z

\* A text is what is before a place and what is from there on.
LEMMA TextParted ==
    ASSUME NEW x \in Seq(Char), NEW i \in 0 .. Len(x), NEW n \in Nat, i + n <= Len(x)
    PROVE  Piece(x, i, n) \o Rest(x, i + n) = Rest(x, i)
<1> DEFINE p == Piece(x, i, n)
           r == Rest(x, i + n)
           q == Rest(x, i)
<1>1. Len(x) \in Nat /\ i \in Nat /\ i + n \in 0 .. Len(x)
  OBVIOUS
<1>2. p \in Seq(Char) /\ Len(p) = n /\ \A k \in 1 .. n : p[k] = x[i + k]
  BY <1>1, PieceIs
<1>3. /\ r \in Seq(Char) /\ Len(r) = Len(x) - (i + n)
      /\ \A k \in 1 .. Len(x) - (i + n) : r[k] = x[(i + n) + k]
  BY <1>1, RestIs
<1>4. /\ q \in Seq(Char) /\ Len(q) = Len(x) - i
      /\ \A k \in 1 .. Len(x) - i : q[k] = x[i + k]
  BY RestIs
<1> HIDE DEF p, r, q
<1>5. /\ p \o r \in Seq(Char) /\ Len(p \o r) = Len(p) + Len(r)
      /\ \A k \in 1 .. Len(p) : (p \o r)[k] = p[k]
      /\ \A k \in Len(p) + 1 .. Len(p) + Len(r) : (p \o r)[k] = r[k - Len(p)]
  BY <1>2, <1>3, Joined
<1>6. Len(p \o r) = Len(q)
  BY <1>1, <1>2, <1>3, <1>4, <1>5
<1>7. ASSUME NEW k \in 1 .. Len(q)  PROVE (p \o r)[k] = q[k]
  <2>1. CASE k <= n
    <3>1. k \in 1 .. n /\ k \in 1 .. Len(x) - i
      BY <1>1, <1>4, <2>1
    <3> QED BY <1>2, <1>4, <1>5, <3>1
  <2>2. CASE ~(k <= n)
    <3>1. /\ k \in Len(p) + 1 .. Len(p) + Len(r) /\ k - Len(p) \in 1 .. Len(x) - (i + n)
          /\ (i + n) + (k - Len(p)) = i + k /\ k \in 1 .. Len(x) - i
      BY <1>1, <1>2, <1>3, <1>4, <2>2
    <3>2. (p \o r)[k] = r[k - Len(p)] /\ r[k - Len(p)] = x[(i + n) + (k - Len(p))]
      BY <1>3, <1>5, <3>1
    <3> QED BY <1>4, <3>1, <3>2
  <2> QED BY <2>1, <2>2
<1>8. p \o r = q
  BY <1>4, <1>5, <1>6, <1>7, SameText
<1> QED BY <1>8 DEF p, r, q

\* What erase() and insert() put together.
Cut(x, i, n) == Piece(x, 0, i) \o Rest(x, i + n)
Splice(x, i, y) == Piece(x, 0, i) \o y \o Rest(x, i)

LEMMA RestOfAll ==
    ASSUME NEW x \in Seq(Char)
    PROVE  Rest(x, 0) = x
<1>1. Len(x) \in Nat /\ 0 \in 0 .. Len(x) /\ Len(x) - 0 = Len(x)
  OBVIOUS
<1>2. /\ Rest(x, 0) \in Seq(Char) /\ Len(Rest(x, 0)) = Len(x)
      /\ \A k \in 1 .. Len(x) : Rest(x, 0)[k] = x[0 + k]
  BY <1>1, RestIs
<1>3. \A k \in 1 .. Len(x) : 0 + k = k
  OBVIOUS
<1> QED BY <1>2, <1>3, SameText

LEMMA PartsAre ==
    ASSUME NEW x \in Seq(Char), NEW i \in 0 .. Len(x)
    PROVE  /\ Piece(x, 0, i) \in Seq(Char) /\ Len(Piece(x, 0, i)) = i
           /\ Rest(x, i) \in Seq(Char) /\ Len(Rest(x, i)) = Len(x) - i
           /\ Piece(x, 0, i) \o Rest(x, i) = x
<1>1. 0 \in Nat /\ i \in Nat /\ 0 + i <= Len(x) /\ 0 + i = i /\ 0 \in 0 .. Len(x)
  OBVIOUS
<1>2. Piece(x, 0, i) \o Rest(x, 0 + i) = Rest(x, 0)
  BY <1>1, TextParted
<1> QED BY <1>1, <1>2, PieceIs, RestIs, RestOfAll

LEMMA SpliceIs ==
    ASSUME NEW x \in Seq(Char), NEW i \in 0 .. Len(x), NEW y \in Seq(Char)
    PROVE  /\ Splice(x, i, y) \in Seq(Char)
           /\ Len(Splice(x, i, y)) = Len(x) + Len(y)
           /\ Piece(Splice(x, i, y), i, Len(y)) = y
           /\ Cut(Splice(x, i, y), i, Len(y)) = x
           /\ Splice(x, i, << >>) = x
<1> DEFINE p == Piece(x, 0, i)
           r == Rest(x, i)
           z == (p \o y) \o r
<1>1. Len(x) \in Nat /\ Len(y) \in Nat /\ i \in Nat /\ << >> \in Seq(Char)
  OBVIOUS
<1>2. /\ p \in Seq(Char) /\ Len(p) = i /\ r \in Seq(Char) /\ Len(r) = Len(x) - i
      /\ p \o r = x
  BY PartsAre
<1> HIDE DEF p, r
<1>3. /\ p \o y \in Seq(Char) /\ Len(p \o y) = i + Len(y)
      /\ y \o r \in Seq(Char) /\ Len(y \o r) = Len(y) + Len(r)
      /\ z \in Seq(Char) /\ Len(z) = (i + Len(y)) + (Len(x) - i)
  <2>1. p \o y \in Seq(Char) /\ Len(p \o y) = i + Len(y)
    BY <1>2, Joined
  <2>2. z \in Seq(Char) /\ Len(z) = Len(p \o y) + Len(r)
    BY <1>2, <2>1, Joined
  <2>3. y \o r \in Seq(Char) /\ Len(y \o r) = Len(y) + Len(r)
    BY <1>2, Joined
  <2> QED BY <1>2, <2>1, <2>2, <2>3
<1>4. Len(z) = Len(x) + Len(y)
  BY <1>1, <1>3
<1>5. Piece(z, i, Len(y)) = y
  <2>1. z = p \o (y \o r)
    <3>1. Texts(p, y, r)
      BY <1>2 DEF Texts
    <3> QED BY <3>1, JoinAssociates
  <2>2. Piece(p \o (y \o r), Len(p), Len(y)) = Piece(y \o r, 0, Len(y))
    <3> DEFINE w == y \o r
    <3>1. w \in Seq(Char) /\ Len(y) <= Len(w)
      BY <1>1, <1>2, <1>3
    <3> HIDE DEF w
    <3>2. Piece(p \o w, Len(p), Len(y)) = Piece(w, 0, Len(y))
      BY <1>1, <1>2, <3>1, PieceBehind
    <3> QED BY <3>2 DEF w
  <2>3. Piece(y \o r, 0, Len(y)) = y
    BY <1>2, JoinTakenApart
  <2> QED BY <1>2, <2>1, <2>2, <2>3
<1>6. Piece(z, 0, i) = p
  <2>1. 0 \in Nat /\ 0 + i <= Len(p \o y)
    BY <1>1, <1>3
  <2>2. Piece(z, 0, i) = Piece(p \o y, 0, i)
    <3> DEFINE w == p \o y
    <3>1. w \in Seq(Char) /\ 0 + i <= Len(w)
      BY <1>3, <2>1
    <3> HIDE DEF w
    <3>2. Piece(w \o r, 0, i) = Piece(w, 0, i)
      BY <1>1, <1>2, <2>1, <3>1, PieceOfJoin
    <3> QED BY <3>2 DEF w
  <2>3. Piece(p \o y, 0, Len(p)) = p
    BY <1>2, JoinTakenApart
  <2> QED BY <1>2, <2>2, <2>3
<1>7. Rest(z, i + Len(y)) = r
  <2>1. Rest(z, Len(p \o y)) = r
    BY <1>2, <1>3, JoinTakenApart
  <2> QED BY <1>3, <2>1
<1>8. Cut(z, i, Len(y)) = x
  BY <1>2, <1>6, <1>7 DEF Cut
<1>9. (p \o << >>) \o r = x
  <2>1. p \o << >> = p
    BY <1>2
  <2> QED BY <1>2, <2>1
<1> QED BY <1>3, <1>4, <1>5, <1>8, <1>9 DEF Splice, p, r

LEMMA CutIs ==
    ASSUME NEW x \in Seq(Char), NEW i \in Nat, NEW n \in Nat, i + n <= Len(x)
    PROVE  /\ Cut(x, i, n) \in Seq(Char)
           /\ Len(Cut(x, i, n)) = Len(x) - n
           /\ Splice(Cut(x, i, n), i, Piece(x, i, n)) = x
           /\ Cut(x, i, 0) = x
<1> DEFINE p == Piece(x, 0, i)
           q == Piece(x, i, n)
           r == Rest(x, i + n)
           z == p \o r
<1>1. Len(x) \in Nat /\ i \in 0 .. Len(x) /\ i + n \in 0 .. Len(x)
  OBVIOUS
<1>2. p \in Seq(Char) /\ Len(p) = i /\ p \o Rest(x, i) = x
  BY <1>1, PartsAre
<1>3. q \in Seq(Char) /\ Len(q) = n
  BY PieceIs
<1>4. r \in Seq(Char) /\ Len(r) = Len(x) - (i + n)
  BY <1>1, RestIs
<1>5. q \o r = Rest(x, i)
  BY <1>1, TextParted
<1> HIDE DEF p, q, r
<1>6. z \in Seq(Char) /\ Len(z) = Len(p) + Len(r)
  BY <1>2, <1>4, Joined
<1>7. Len(z) = Len(x) - n
  BY <1>1, <1>2, <1>4, <1>6
<1>8. Piece(z, 0, i) = p /\ Rest(z, i) = r
  <2>1. Piece(p \o r, 0, Len(p)) = p /\ Rest(p \o r, Len(p)) = r
    BY <1>2, <1>4, JoinTakenApart
  <2>2. Piece(z, 0, Len(p)) = p /\ Rest(z, Len(p)) = r
    BY <2>1
  <2>3. Len(p) = i
    BY <1>2
  <2> HIDE DEF z
  <2> QED BY <2>2, <2>3
<1>9. (p \o q) \o r = x
  <2>1. (p \o q) \o r = p \o (q \o r)
    <3>1. Texts(p, q, r)
      BY <1>2, <1>3, <1>4 DEF Texts
    <3> QED BY <3>1, JoinAssociates
  <2> QED BY <1>2, <1>5, <2>1
<1>10. Splice(z, i, q) = x
  BY <1>8, <1>9 DEF Splice
<1>11. Cut(x, i, 0) = x
  <2>1. i + 0 = i
    OBVIOUS
  <2> QED BY <1>2, <2>1 DEF Cut, p
<1> QED BY <1>6, <1>7, <1>10, <1>11 DEF Cut, p, q, r
-----------------------------------------------------------------------------
(***************************************************************************)
(* Erasing and inserting.                                                  *)
(***************************************************************************)
\* No offset that an int can hold overflows when it is made to count from zero.
LEMMA OffsetFits ==
    ASSUME NEW o \in Ints
    PROVE  /\ o \in Int /\ IntMax \in Nat
           /\ Wrap(o - 1) = o - 1
<1>1. o \in Int /\ IntMax \in Nat /\ -IntMax <= o /\ o <= IntMax
  BY CharacterAssumption DEF Ints
<1>2. o - 1 \in Int /\ -(IntMax + 1) <= o - 1 /\ o - 1 <= IntMax
  BY <1>1
<1> QED BY <1>1, <1>2, WrapIsIdentity

LEMMA EraseIs ==
    ASSUME NEW x \in Seq(Char), NEW o \in Ints, NEW n \in Int
    PROVE  erase(x, o, n) =
              IF o - 1 < 0 \/ n <= 0 \/ o - 1 >= Len(x) THEN Same(x)
              ELSE LET m == Smaller(n, Len(x) - (o - 1))
                   IN  Result(Len(x) - m + 1, Cut(x, o - 1, m))
<1>1. Wrap(o - 1) = o - 1
  BY OffsetFits
<1>2. n < 0 \/ n = 0 <=> n <= 0
  OBVIOUS
<1> QED BY <1>1, <1>2 DEF erase, Cut

LEMMA InsertIs ==
    ASSUME NEW x \in Seq(Char), NEW y \in Seq(Char), NEW o \in Ints, NEW n \in Int
    PROVE  insert(x, y, o, n) =
              IF o - 1 < 0 \/ n <= 0 \/ o - 1 > Len(x) THEN Same(x)
              ELSE LET m == Smaller(n, Len(y))
                   IN  Result(Len(x) + m + 1, Splice(x, o - 1, Piece(y, 0, m)))
<1>1. Wrap(o - 1) = o - 1
  BY OffsetFits
<1>2. n < 0 \/ n = 0 <=> n <= 0
  OBVIOUS
<1> QED BY <1>1, <1>2 DEF insert, Splice

LEMMA SubstrIs ==
    ASSUME NEW x \in Seq(Char), NEW o \in Ints, NEW n \in Int
    PROVE  substr(x, o, n) =
              IF o - 1 < 0 \/ n < 0 \/ o - 1 >= Len(x) THEN Empty
              ELSE LET m == Smaller(n, Len(x) - (o - 1))
                   IN  Result(m + 1, Piece(x, o - 1, m))
<1>1. Wrap(o - 1) = o - 1
  BY OffsetFits
<1> QED BY <1>1 DEF substr

LEMMA NothingIsEmpty ==
    ASSUME NEW x \in Seq(Char), NEW i \in Nat, i <= Len(x)
    PROVE  Piece(x, i, 0) = << >>
<1> DEFINE p == Piece(x, i, 0)
<1>1. 0 \in Nat /\ i + 0 <= Len(x)
  OBVIOUS
<1>2. p \in Seq(Char) /\ Len(p) = 0
  BY <1>1, PieceIs
<1> HIDE DEF p
<1>3. p = << >>
  BY <1>2
<1> QED BY <1>3 DEF p

LEMMA EmptySubstr ==
    ASSUME NEW x \in Seq(Char), NEW o \in Ints, NEW n \in Int, n <= 0
    PROVE  substr(x, o, n).text = << >>
<1>1. o \in Int /\ Len(x) \in Nat
  BY OffsetFits
<1>2. CASE o - 1 < 0 \/ n < 0 \/ o - 1 >= Len(x)
  BY <1>2, SubstrIs DEF Empty, Result
<1>3. CASE ~(o - 1 < 0 \/ n < 0 \/ o - 1 >= Len(x))
  <2>1. Smaller(n, Len(x) - (o - 1)) = 0 /\ o - 1 \in Nat /\ o - 1 <= Len(x)
    BY <1>1, <1>3 DEF Smaller
  <2>2. substr(x, o, n) = Result(0 + 1, Piece(x, o - 1, 0))
    BY <1>3, <2>1, SubstrIs
  <2> QED BY <2>1, <2>2, NothingIsEmpty DEF Result
<1> QED BY <1>2, <1>3

LEMMA AllOfIt ==
    ASSUME NEW x \in Seq(Char)
    PROVE  Piece(x, 0, Len(x)) = x
<1>1. Len(x) \in Nat /\ 0 \in Nat /\ 0 + Len(x) <= Len(x)
  OBVIOUS
<1>2. /\ Piece(x, 0, Len(x)) \in Seq(Char) /\ Len(Piece(x, 0, Len(x))) = Len(x)
      /\ \A k \in 1 .. Len(x) : Piece(x, 0, Len(x))[k] = x[0 + k]
  BY <1>1, PieceIs
<1>3. \A k \in 1 .. Len(x) : 0 + k = k
  OBVIOUS
<1> QED BY <1>2, <1>3, SameText

\* Inserting a whole text, with a count that is not less than its length.
LEMMA InsertWhole ==
    ASSUME NEW x \in Seq(Char), NEW y \in Seq(Char), NEW o \in Ints,
           0 <= o - 1, o - 1 <= Len(x), IntMax >= 1, Len(y) <= IntMax
    PROVE  insert(x, y, o, IntMax) = Result(Len(x) + Len(y) + 1, Splice(x, o - 1, y))
<1>1. o \in Int /\ IntMax \in Int /\ Len(x) \in Nat /\ Len(y) \in Nat
  BY OffsetFits
<1>2. Smaller(IntMax, Len(y)) = Len(y)
  BY <1>1 DEF Smaller
<1>3. ~(o - 1 < 0 \/ IntMax <= 0 \/ o - 1 > Len(x))
  BY <1>1
<1>4. insert(x, y, o, IntMax)
        = Result(Len(x) + Len(y) + 1, Splice(x, o - 1, Piece(y, 0, Len(y))))
  <2>1. insert(x, y, o, IntMax) =
          IF o - 1 < 0 \/ IntMax <= 0 \/ o - 1 > Len(x) THEN Same(x)
          ELSE LET m == Smaller(IntMax, Len(y))
               IN  Result(Len(x) + m + 1, Splice(x, o - 1, Piece(y, 0, m)))
    BY <1>1, InsertIs
  <2> QED BY <1>2, <1>3, <2>1
<1> QED BY <1>4, AllOfIt

LEMMA InsertNothing ==
    ASSUME NEW x \in Seq(Char), NEW o \in Ints, IntMax >= 1
    PROVE  insert(x, << >>, o, IntMax) = Same(x)
<1> DEFINE none == << >>
<1>1. /\ o \in Int /\ IntMax \in Int /\ Len(x) \in Nat
      /\ none \in Seq(Char) /\ Len(none) = 0
  BY OffsetFits
<1> HIDE DEF none
<1> SUFFICES insert(x, none, o, IntMax) = Same(x)
  BY DEF none
<1>2. CASE o - 1 < 0 \/ o - 1 > Len(x)
  <2>1. IntMax \in Int /\ (o - 1 < 0 \/ IntMax <= 0 \/ o - 1 > Len(x))
    BY <1>1, <1>2
  <2> QED BY <1>1, <2>1, InsertIs
<1>3. CASE 0 <= o - 1 /\ o - 1 <= Len(x)
  <2>1. Len(none) <= IntMax
    BY <1>1
  <2>2. insert(x, none, o, IntMax) = Result(Len(x) + Len(none) + 1, Splice(x, o - 1, none))
    BY <1>1, <1>3, <2>1, InsertWhole
  <2>3. o - 1 \in 0 .. Len(x) /\ Len(x) + Len(none) + 1 = Len(x) + 1
    BY <1>1, <1>3
  <2>4. Splice(x, o - 1, << >>) = x
    BY <1>1, <2>3, SpliceIs
  <2> QED BY <2>2, <2>3, <2>4 DEF Same, none
<1> QED BY <1>1, <1>2, <1>3

\* substr() is what erase() takes out, and insert() puts it back.
LEMMA InsertUndoesErase ==
    ASSUME NEW x \in Seq(Char), Len(x) < IntMax, NEW o \in Ints, NEW n \in Int
    PROVE  insert(erase(x, o, n).text, substr(x, o, n).text, o, IntMax) = Same(x)
<1>1. o \in Int /\ IntMax \in Nat /\ Len(x) \in Nat /\ IntMax >= 1 /\ << >> \in Seq(Char)
      /\ Len(<< >>) = 0
  BY OffsetFits
<1>2. CASE o - 1 < 0
  <2>1. erase(x, o, n) = Same(x)
    BY <1>2, EraseIs
  <2>2. substr(x, o, n) = Empty
    BY <1>2, SubstrIs
  <2>3. insert(x, << >>, o, IntMax) = Same(x)
    BY <1>1, InsertNothing
  <2> QED BY <2>1, <2>2, <2>3 DEF Same, Empty, Result
<1>3. CASE o - 1 >= 0 /\ (n <= 0 \/ o - 1 >= Len(x))
  <2>1. erase(x, o, n) = Same(x)
    BY <1>3, EraseIs
  <2>2. substr(x, o, n).text = << >>
    <3>1. CASE n <= 0
      BY <3>1, EmptySubstr
    <3>2. CASE o - 1 >= Len(x)
      BY <3>2, SubstrIs DEF Empty, Result
    <3> QED BY <1>3, <3>1, <3>2
  <2>3. insert(x, << >>, o, IntMax) = Same(x)
    BY <1>1, InsertNothing
  <2> QED BY <2>1, <2>2, <2>3 DEF Same, Result
<1>4. CASE ~(o - 1 < 0) /\ ~(n <= 0) /\ ~(o - 1 >= Len(x))
  <2> DEFINE m == Smaller(n, Len(x) - (o - 1))
             c == Cut(x, o - 1, m)
             p == Piece(x, o - 1, m)
  <2>1. m \in Nat /\ o - 1 \in Nat /\ (o - 1) + m <= Len(x) /\ m <= Len(x)
    BY <1>1, <1>4 DEF Smaller
  <2>2. erase(x, o, n) = Result(Len(x) - m + 1, c)
    BY <1>4, EraseIs
  <2>3. substr(x, o, n) = Result(m + 1, p)
    <3>1. ~(o - 1 < 0 \/ n < 0 \/ o - 1 >= Len(x))
      BY <1>4
    <3> QED BY <3>1, SubstrIs
  <2> HIDE DEF m
  <2>4. c \in Seq(Char) /\ Len(c) = Len(x) - m /\ Splice(c, o - 1, p) = x
    BY <2>1, CutIs
  <2>5. p \in Seq(Char) /\ Len(p) = m
    BY <2>1, PieceIs
  <2> HIDE DEF c, p
  <2>6. insert(c, p, o, IntMax) = Result(Len(c) + Len(p) + 1, Splice(c, o - 1, p))
    <3>1. 0 <= o - 1 /\ o - 1 <= Len(c) /\ Len(p) <= IntMax
      BY <1>1, <2>1, <2>4, <2>5
    <3> QED BY <1>1, <2>4, <2>5, <3>1, InsertWhole
  <2>7. Len(c) + Len(p) + 1 = Len(x) + 1
    BY <1>1, <2>1, <2>4, <2>5
  <2> QED BY <2>2, <2>3, <2>4, <2>6, <2>7 DEF Same, Result
<1> QED BY <1>1, <1>2, <1>3, <1>4

\* What insert() puts in erase() takes out.
LEMMA EraseUndoesInsertion ==
    ASSUME NEW x \in Seq(Char), Len(x) < IntMax, NEW y \in Seq(Char),
           NEW o \in Ints, NEW n \in Int
    PROVE  LET longer == insert(x, y, o, n).text
               added  == Len(longer) - Len(x)
           IN  /\ erase(longer, o, added) = Same(x)
               /\ o \in 1 .. Len(x) + 1 =>
                     substr(longer, o, added).text = substr(y, 1, n).text
<1> DEFINE longer == insert(x, y, o, n).text
           added  == Len(longer) - Len(x)
<1>1. o \in Int /\ IntMax \in Nat /\ Len(x) \in Nat /\ Len(y) \in Nat /\ IntMax >= 1
  BY OffsetFits
<1>2. 1 \in Ints /\ 1 - 1 = 0
  BY <1>1 DEF Ints
<1>3. CASE o - 1 < 0 \/ n <= 0 \/ o - 1 > Len(x)
  <2>1. longer = x
    BY <1>3, InsertIs DEF Same, Result
  <2>2. added = 0
    BY <1>1, <2>1
  <2>3. erase(x, o, 0) = Same(x)
    BY EraseIs
  <2>4. ASSUME o \in 1 .. Len(x) + 1  PROVE substr(x, o, 0).text = substr(y, 1, n).text
    <3>1. n <= 0 /\ o - 1 \in Nat /\ o - 1 <= Len(x)
      BY <1>1, <1>3, <2>4
    <3>2. substr(x, o, 0).text = << >>
      BY <1>1, <3>1, EmptySubstr
    <3>3. substr(y, 1, n).text = << >>
      BY <1>1, <1>2, <3>1, EmptySubstr
    <3> QED BY <3>2, <3>3
  <2> HIDE DEF longer
  <2>5. erase(longer, o, added) = Same(x)
    BY <2>1, <2>2, <2>3
  <2>6. o \in 1 .. Len(x) + 1 => substr(longer, o, added).text = substr(y, 1, n).text
    BY <2>1, <2>2, <2>4
  <2> QED BY <2>5, <2>6 DEF longer
<1>4. CASE ~(o - 1 < 0) /\ ~(n <= 0) /\ ~(o - 1 > Len(x))
  <2> DEFINE m == Smaller(n, Len(y))
             p == Piece(y, 0, m)
  <2>1. m \in Nat /\ 0 + m <= Len(y) /\ o - 1 \in 0 .. Len(x) /\ o - 1 \in Nat /\ 0 \in Nat
    BY <1>1, <1>4 DEF Smaller
  <2>2. longer = Splice(x, o - 1, p)
    BY <1>4, InsertIs DEF Result
  <2>3. p \in Seq(Char) /\ Len(p) = m
    BY <2>1, PieceIs
  <2>4. substr(y, 1, n).text = p
    <3>1. CASE Len(y) = 0
      <4>1. m = 0 /\ 0 <= Len(y)
        BY <1>1, <2>1, <3>1
      <4>2. p = << >>
        BY <4>1, NothingIsEmpty
      <4>3. substr(y, 1, n) = Empty
        <5>1. 1 - 1 >= Len(y)
          BY <3>1
        <5> QED BY <1>2, <5>1, SubstrIs
      <4> QED BY <4>2, <4>3 DEF Empty, Result
    <3>2. CASE Len(y) # 0
      <4>1. ~(1 - 1 < 0 \/ n < 0 \/ 1 - 1 >= Len(y)) /\ Len(y) - (1 - 1) = Len(y)
        BY <1>1, <1>4, <3>2
      <4>2. substr(y, 1, n) = Result(m + 1, p)
        BY <1>2, <4>1, SubstrIs
      <4> QED BY <4>2 DEF Result
    <3> QED BY <3>1, <3>2
  <2> HIDE DEF longer, m, p
  <2>5. /\ longer \in Seq(Char) /\ Len(longer) = Len(x) + m
        /\ Piece(longer, o - 1, m) = p /\ Cut(longer, o - 1, m) = x
        /\ Splice(x, o - 1, << >>) = x
    <3> DEFINE z == Splice(x, o - 1, p)
    <3>1. o - 1 \in 0 .. Len(x) /\ p \in Seq(Char)
      BY <2>1, <2>3
    <3>2. /\ z \in Seq(Char) /\ Len(z) = Len(x) + Len(p)
          /\ Piece(z, o - 1, Len(p)) = p /\ Cut(z, o - 1, Len(p)) = x
          /\ Splice(x, o - 1, << >>) = x
      BY <3>1, SpliceIs
    <3>3. longer = z /\ Len(p) = m
      BY <2>2, <2>3
    <3> HIDE DEF z
    <3> QED BY <3>2, <3>3
  <2>6. added = m
    BY <1>1, <2>1, <2>5
  <2>7. CASE m = 0
    <3>1. p = << >>
      BY <2>3, <2>7
    <3>2. longer = x
      BY <2>2, <2>5, <3>1
    <3>3. erase(x, o, 0) = Same(x)
      BY EraseIs
    <3>4. substr(x, o, 0).text = << >>
      BY <1>1, <2>1, EmptySubstr
    <3>5. erase(longer, o, added) = Same(x) /\ substr(longer, o, added).text = p
      BY <2>6, <2>7, <3>1, <3>2, <3>3, <3>4
    <3> QED BY <2>4, <3>5 DEF longer
  <2>8. CASE m # 0
    <3>1. m > 0 /\ 0 <= o - 1 /\ o - 1 < Len(longer) /\ m <= Len(longer) - (o - 1)
      BY <1>1, <2>1, <2>5, <2>8
    <3>2. /\ ~(o - 1 < 0 \/ m <= 0 \/ o - 1 >= Len(longer))
          /\ ~(o - 1 < 0 \/ m < 0 \/ o - 1 >= Len(longer))
          /\ Smaller(m, Len(longer) - (o - 1)) = m
          /\ Len(longer) - m + 1 = Len(x) + 1
      <4>1. Smaller(m, Len(longer) - (o - 1)) = m
        <5> DEFINE room == Len(longer) - (o - 1)
        <5>1. m \in Int /\ room \in Int /\ m <= room
          BY <1>1, <2>1, <2>5, <3>1
        <5> HIDE DEF room
        <5>2. Smaller(m, room) = m
          BY <5>1 DEF Smaller
        <5> QED BY <5>2 DEF room
      <4> QED BY <1>1, <2>1, <2>5, <3>1, <4>1
    <3>3. m \in Int /\ longer \in Seq(Char)
      BY <2>1, <2>5
    <3>4. erase(longer, o, m) = Result(Len(longer) - m + 1, Cut(longer, o - 1, m))
      BY <3>3, <3>2, EraseIs
    <3>5. substr(longer, o, m) = Result(m + 1, Piece(longer, o - 1, m))
      BY <3>3, <3>2, SubstrIs
    <3>6. erase(longer, o, added) = Same(x)
      BY <2>5, <2>6, <3>2, <3>4 DEF Same
    <3>7. substr(longer, o, added).text = p
      BY <2>5, <2>6, <3>5 DEF Result
    <3> QED BY <2>4, <3>6, <3>7 DEF longer
  <2> QED BY <2>7, <2>8
<1> QED BY <1>3, <1>4
-----------------------------------------------------------------------------
LEMMA NothingBehind ==
    ASSUME NEW x \in Seq(Char)
    PROVE  Rest(x, Len(x)) = << >>
<1> DEFINE r == Rest(x, Len(x))
<1>1. Len(x) \in 0 .. Len(x) /\ Len(x) - Len(x) = 0
  OBVIOUS
<1>2. r \in Seq(Char) /\ Len(r) = 0
  BY <1>1, RestIs
<1> HIDE DEF r
<1>3. r = << >>
  BY <1>2
<1> QED BY <1>3 DEF r

\* A copy more is the text inserted behind the others.
LEMMA CopyIsInsert ==
    ASSUME NEW x \in Seq(Char), NEW n \in Nat, n * Len(x) + 1 \in Ints, Len(x) < IntMax
    PROVE  insert(copy(x, n).text, x, n * Len(x) + 1, IntMax) = copy(x, n + 1)
<1> DEFINE c == copy(x, n).text
           o == n * Len(x) + 1
           size == n * Len(x)
<1>1. Len(x) \in Nat /\ IntMax \in Nat /\ IntMax >= 1
  BY OffsetFits
<1>2. size \in Nat
  BY <1>1
<1>3. /\ c \in Seq(Char) /\ Len(c) = size
      /\ copy(x, n + 1).text = c \o x
  BY CopyGrows
<1>4. copy(x, n + 1) = Result((n + 1) * Len(x) + 1, c \o x)
  <2>1. n + 1 \in Nat
    OBVIOUS
  <2>2. PICK temp : copy(x, n + 1) = Result((n + 1) * Len(x) + 1, temp[n + 1])
    BY <2>1, CopyIs
  <2>3. copy(x, n + 1).text = temp[n + 1]
    BY <2>2 DEF Result
  <2> QED BY <1>3, <2>2, <2>3
<1>5. size + Len(x) + 1 = (n + 1) * Len(x) + 1
  BY <1>1
<1> HIDE DEF c
<1>6. o - 1 = size
  <2> HIDE DEF size
  <2>1. (size + 1) - 1 = size
    BY <1>2
  <2> QED BY <2>1 DEF size
<1> HIDE DEF size
<1>7. o \in Ints /\ 0 <= o - 1 /\ o - 1 <= Len(c) /\ Len(x) <= IntMax
  <2> HIDE DEF o
  <2>1. 0 <= o - 1 /\ o - 1 <= Len(c) /\ Len(x) <= IntMax
    BY <1>1, <1>2, <1>3, <1>6
  <2>2. o \in Ints
    BY DEF o
  <2> QED BY <2>1, <2>2
<1> HIDE DEF o
<1>8. insert(c, x, o, IntMax) = Result(Len(c) + Len(x) + 1, Splice(c, o - 1, x))
  BY <1>1, <1>3, <1>7, InsertWhole
<1>9. Splice(c, size, x) = c \o x
  <2>1. Piece(c, 0, Len(c)) = c /\ Rest(c, Len(c)) = << >>
    BY <1>3, AllOfIt, NothingBehind
  <2>2. c \o x \in Seq(Char)
    BY <1>3, Joined
  <2>3. (c \o x) \o << >> = c \o x
    <3> DEFINE z == c \o x
    <3>1. z \in Seq(Char)
      BY <2>2
    <3> HIDE DEF z
    <3>2. z \o << >> = z
      BY <3>1
    <3> QED BY <3>2 DEF z
  <2> QED BY <1>3, <2>1, <2>3 DEF Splice
<1>10. insert(c, x, o, IntMax) = copy(x, n + 1)
  BY <1>3, <1>4, <1>5, <1>6, <1>8, <1>9
<1> QED BY <1>10 DEF c, o

LEMMA NeedlesAreTexts == \A y \in Needles : y \in Seq(Char)
<1> SUFFICES ASSUME NEW y \in Needles  PROVE y \in Seq(Char)
  OBVIOUS
<1>1. PICK k \in 0 .. 2 : y \in [1 .. k -> Char]
  BY DEF Needles
<1> QED BY <1>1

\* The law of insert(), erase(), substr() and copy(), str.cpp:54-60, :571-573,
\* :616-630, of any text: each undoes the other, for all ints.
THEOREM ErasingUndoesInserting ==
    ASSUME text \in Seq(Char), Len(text) < IntMax
    PROVE  EraseUndoesInsert
<1>1. IntMax \in Nat /\ Len(text) \in Nat /\ \A n \in Ints : n \in Int
  BY CharacterAssumption DEF Ints
<1>2. ASSUME NEW n \in 0 .. 2, n * Len(text) + 1 \in Ints
      PROVE  insert(copy(text, n).text, text, n * Len(text) + 1, IntMax) = copy(text, n + 1)
  <2>1. n \in Nat
    OBVIOUS
  <2> QED BY <1>2, <2>1, CopyIsInsert
<1>3. ASSUME NEW o \in Ints, NEW n \in Ints
      PROVE  insert(erase(text, o, n).text, substr(text, o, n).text, o, IntMax) = Same(text)
  BY <1>1, InsertUndoesErase
<1>4. ASSUME NEW o \in Ints, NEW n \in Ints, NEW incoming \in Needles
      PROVE  LET longer == insert(text, incoming, o, n).text
                 added  == Len(longer) - Len(text)
             IN  /\ erase(longer, o, added) = Same(text)
                 /\ o \in 1 .. Len(text) + 1 =>
                       substr(longer, o, added).text = substr(incoming, 1, n).text
  BY <1>1, NeedlesAreTexts, EraseUndoesInsertion
<1> QED BY <1>2, <1>3, <1>4 DEF EraseUndoesInsert
-----------------------------------------------------------------------------
(***************************************************************************)
(* Words: what is in one, where one begins, and how many have begun.       *)
(***************************************************************************)
InWord(x, w, i) == i \in 1 .. Len(x) /\ ~is_white(x[i], w)
Beginnings(x, w) == {i \in 1 .. Len(x) : InWord(x, w, i) /\ ~InWord(x, w, i - 1)}
BegunBy(x, w, m) == {i \in Beginnings(x, w) : i <= m}
CountTo(x, w, m) == Cardinality(BegunBy(x, w, m))

\* The text that ends behind place m begins there with no word.
Between(x, w, m) == m \in 0 .. Len(x) /\ ~(InWord(x, w, m) /\ InWord(x, w, m + 1))

IsRun(x, w, r) ==
    /\ r \in (1 .. Len(x)) \X (1 .. Len(x))
    /\ \A i \in r[1] .. r[2] : ~is_white(x[i], w)
    /\ r[1] <= r[2]
    /\ r[1] = 1 \/ is_white(x[r[1] - 1], w)
    /\ r[2] = Len(x) \/ is_white(x[r[2] + 1], w)
RunsOf(x, w) == {r \in (1 .. Len(x)) \X (1 .. Len(x)) : IsRun(x, w, r)}

LEMMA RunIs ==
    ASSUME NEW x \in Seq(Char), NEW w, NEW r \in RunsOf(x, w)
    PROVE  /\ r[1] \in 1 .. Len(x) /\ r[2] \in 1 .. Len(x) /\ r[1] <= r[2]
           /\ r = <<r[1], r[2]>>
           /\ \A i \in r[1] .. r[2] : InWord(x, w, i)
           /\ ~InWord(x, w, r[1] - 1) /\ ~InWord(x, w, r[2] + 1)
           /\ r[1] \in Beginnings(x, w)
<1>1. IsRun(x, w, r) /\ Len(x) \in Nat
  BY DEF RunsOf
<1>2. r[1] \in 1 .. Len(x) /\ r[2] \in 1 .. Len(x) /\ r[1] <= r[2] /\ r = <<r[1], r[2]>>
  BY <1>1 DEF IsRun
<1>3. ASSUME NEW i \in r[1] .. r[2]  PROVE InWord(x, w, i)
  <2>1. i \in 1 .. Len(x)
    BY <1>1, <1>2
  <2> QED BY <1>1, <2>1 DEF IsRun, InWord
<1>4. ~InWord(x, w, r[1] - 1)
  <2>1. CASE r[1] = 1
    <3>1. r[1] - 1 \notin 1 .. Len(x)
      BY <2>1
    <3> QED BY <3>1 DEF InWord
  <2>2. CASE is_white(x[r[1] - 1], w)
    BY <2>2 DEF InWord
  <2> QED BY <1>1, <2>1, <2>2 DEF IsRun
<1>5. ~InWord(x, w, r[2] + 1)
  <2>1. CASE r[2] = Len(x)
    <3>1. r[2] + 1 \notin 1 .. Len(x)
      BY <1>1, <2>1
    <3> QED BY <3>1 DEF InWord
  <2>2. CASE is_white(x[r[2] + 1], w)
    BY <2>2 DEF InWord
  <2> QED BY <1>1, <2>1, <2>2 DEF IsRun
<1>6. r[1] \in r[1] .. r[2]
  BY <1>2
<1> QED BY <1>2, <1>3, <1>4, <1>5, <1>6 DEF Beginnings

LEMMA RunFrom ==
    ASSUME NEW x \in Seq(Char), NEW w, NEW b \in Beginnings(x, w)
    PROVE  \E r \in RunsOf(x, w) : r[1] = b
<1> DEFINE E == {e \in Nat : b <= e /\ e <= Len(x) /\ ~InWord(x, w, e + 1)}
<1>1. /\ Len(x) \in Nat /\ b \in 1 .. Len(x)
      /\ InWord(x, w, b) /\ ~InWord(x, w, b - 1)
  BY DEF Beginnings
<1>2. Len(x) \in E
  <2>1. Len(x) + 1 \notin 1 .. Len(x)
    BY <1>1
  <2> QED BY <1>1, <2>1 DEF InWord
<1>3. PICK e \in E : \A f \in E : e <= f
  <2>1. E \subseteq Nat /\ E # {}
    BY <1>2
  <2> HIDE DEF E
  <2> QED BY <2>1, LeastNat
<1>4. e \in Nat /\ b <= e /\ e <= Len(x) /\ ~InWord(x, w, e + 1)
  OBVIOUS
<1>5. ASSUME NEW i \in b .. e  PROVE InWord(x, w, i)
  <2>1. CASE i = b
    BY <1>1, <2>1
  <2>2. CASE i # b
    <3>1. i - 1 \in Nat /\ b <= i - 1 /\ i - 1 <= Len(x) /\ ~(e <= i - 1) /\ (i - 1) + 1 = i
      BY <1>1, <1>4, <2>2
    <3>2. i - 1 \notin E
      <4> HIDE DEF E
      <4> QED BY <1>3, <3>1
    <3> QED BY <3>1, <3>2
  <2> QED BY <2>1, <2>2
<1> DEFINE r == <<b, e>>
<1>6. r \in (1 .. Len(x)) \X (1 .. Len(x)) /\ r[1] = b /\ r[2] = e
  BY <1>1, <1>4
<1>7. \A i \in b .. e : ~is_white(x[i], w)
  BY <1>5 DEF InWord
<1>8. b = 1 \/ is_white(x[b - 1], w)
  <2>1. b # 1 => b - 1 \in 1 .. Len(x)
    BY <1>1
  <2> QED BY <1>1, <2>1 DEF InWord
<1>9. e = Len(x) \/ is_white(x[e + 1], w)
  <2>1. e # Len(x) => e + 1 \in 1 .. Len(x)
    BY <1>1, <1>4
  <2> QED BY <1>4, <2>1 DEF InWord
<1>10. IsRun(x, w, r)
  <2> HIDE DEF r
  <2> QED BY <1>4, <1>6, <1>7, <1>8, <1>9 DEF IsRun
<1>11. r \in RunsOf(x, w) /\ r[1] = b
  <2> HIDE DEF r
  <2> QED BY <1>6, <1>10 DEF RunsOf
<1> QED BY <1>11

LEMMA RunIsOne ==
    ASSUME NEW x \in Seq(Char), NEW w, NEW r \in RunsOf(x, w), NEW s \in RunsOf(x, w),
           r[1] = s[1]
    PROVE  r = s
<1>1. ASSUME NEW p \in RunsOf(x, w), NEW q \in RunsOf(x, w), p[1] = q[1], p[2] < q[2]
      PROVE  FALSE
  <2>1. /\ p[1] \in Int /\ p[2] \in Int /\ q[2] \in Int /\ p[1] <= p[2]
        /\ ~InWord(x, w, p[2] + 1)
        /\ \A i \in q[1] .. q[2] : InWord(x, w, i)
    BY RunIs
  <2>2. p[2] + 1 \in q[1] .. q[2]
    BY <1>1, <2>1
  <2> QED BY <2>1, <2>2
<1>2. /\ r = <<r[1], r[2]>> /\ s = <<s[1], s[2]>>
      /\ r[2] \in Int /\ s[2] \in Int
  BY RunIs
<1>3. ~(r[2] < s[2]) /\ ~(s[2] < r[2])
  BY <1>1
<1>4. r[2] = s[2]
  BY <1>2, <1>3
<1> QED BY <1>2, <1>4

\* As many runs begin up to a place as words have begun.
LEMMA RunsCounted ==
    ASSUME NEW x \in Seq(Char), NEW w, NEW m \in Int
    PROVE  /\ IsFiniteSet(BegunBy(x, w, m)) /\ CountTo(x, w, m) \in Nat
           /\ Cardinality({s \in RunsOf(x, w) : s[1] <= m}) = CountTo(x, w, m)
<1> DEFINE S == {s \in RunsOf(x, w) : s[1] <= m}
           T == BegunBy(x, w, m)
           f == [b \in T |-> CHOOSE s \in S : s[1] = b]
<1>1. IsFiniteSet(T) /\ Cardinality(T) \in Nat
  <2>1. T \subseteq 1 .. Len(x) /\ Len(x) \in Int
    BY DEF BegunBy, Beginnings
  <2>2. IsFiniteSet(1 .. Len(x))
    BY <2>1, FS_Interval
  <2> QED BY <2>1, <2>2, FS_Subset, FS_CardinalityType
<1>2. ASSUME NEW b \in T  PROVE f[b] \in S /\ f[b][1] = b
  <2>1. b \in Beginnings(x, w) /\ b <= m
    BY DEF BegunBy
  <2>2. \E s \in S : s[1] = b
    BY <2>1, RunFrom
  <2> QED BY <2>2
<1>3. ASSUME NEW s \in S  PROVE s[1] \in T /\ f[s[1]] = s
  <2>1. s \in RunsOf(x, w) /\ s[1] <= m
    OBVIOUS
  <2>2. s[1] \in T
    BY <2>1, RunIs DEF BegunBy
  <2>3. f[s[1]] \in RunsOf(x, w) /\ f[s[1]][1] = s[1]
    BY <1>2, <2>2
  <2>4. f[s[1]] = s
    <3> HIDE DEF f, S, T
    <3> QED BY <2>1, <2>3, RunIsOne
  <2> QED BY <2>2, <2>4
<1>4. DOMAIN f = T /\ f = [b \in T |-> f[b]]
  OBVIOUS
<1> HIDE DEF f, S, T
<1>5. f \in Bijection(T, S)
  <2>1. f \in [T -> S]
    BY <1>2, <1>4
  <2>2. \A a, b \in T : f[a] = f[b] => a = b
    BY <1>2
  <2>3. \A s \in S : \E b \in T : f[b] = s
    BY <1>3
  <2> QED BY <2>1, <2>2, <2>3 DEF Bijection, Injection, Surjection, IsInjective
<1>6. ExistsBijection(T, S)
  BY <1>5 DEF ExistsBijection
<1>7. Cardinality(S) = Cardinality(T)
  BY <1>1, <1>6, FS_Bijection
<1> QED BY <1>1, <1>7 DEF S, T, CountTo
-----------------------------------------------------------------------------
LEMMA NoneBegun ==
    ASSUME NEW x \in Seq(Char), NEW w
    PROVE  CountTo(x, w, 0) = 0
<1>1. BegunBy(x, w, 0) = {}
  BY DEF BegunBy, Beginnings
<1> QED BY <1>1, FS_EmptySet DEF CountTo

LEMMA OneMoreBegun ==
    ASSUME NEW x \in Seq(Char), NEW w, NEW m \in 1 .. Len(x)
    PROVE  CountTo(x, w, m) = CountTo(x, w, m - 1)
                              + IF m \in Beginnings(x, w) THEN 1 ELSE 0
<1> DEFINE S == BegunBy(x, w, m - 1)
           T == BegunBy(x, w, m)
           B == Beginnings(x, w)
<1>1. m \in Int /\ m - 1 \in Int /\ B \subseteq Int
  BY DEF Beginnings
<1>2. IsFiniteSet(S) /\ Cardinality(S) \in Nat
  BY <1>1, RunsCounted DEF CountTo
<1>3. \A i \in Int : i <= m <=> i <= m - 1 \/ i = m
  BY <1>1
<1>4. CASE m \in B
  <2>1. T = S \union {m} /\ m \notin S
    BY <1>1, <1>3, <1>4 DEF BegunBy
  <2> HIDE DEF S, T, B
  <2>2. Cardinality(T) = Cardinality(S) + 1
    BY <1>2, <2>1, FS_AddElement
  <2> QED BY <1>4, <2>2 DEF CountTo, S, T, B
<1>5. CASE m \notin B
  <2>1. T = S
    BY <1>1, <1>3, <1>5 DEF BegunBy
  <2>2. Cardinality(T) = Cardinality(S) + 0
    BY <1>2, <2>1
  <2> HIDE DEF S, T, B
  <2> QED BY <1>5, <2>2 DEF CountTo, S, T, B
<1> QED BY <1>4, <1>5

LEMMA CountGrows ==
    ASSUME NEW x \in Seq(Char), NEW w, NEW m \in Int, NEW n \in Int, m <= n
    PROVE  CountTo(x, w, m) <= CountTo(x, w, n)
<1> DEFINE S == BegunBy(x, w, m)
           T == BegunBy(x, w, n)
<1>1. S \subseteq T
  <2>1. Beginnings(x, w) \subseteq Int
    BY DEF Beginnings
  <2> QED BY <2>1 DEF BegunBy
<1>2. IsFiniteSet(T)
  BY RunsCounted
<1> HIDE DEF S, T
<1> QED BY <1>1, <1>2, FS_Subset DEF CountTo, S, T

LEMMA NoMoreBegun ==
    ASSUME NEW x \in Seq(Char), NEW w, NEW m \in Int, NEW n \in Int, m <= n,
           \A i \in m + 1 .. n : i \notin Beginnings(x, w)
    PROVE  CountTo(x, w, n) = CountTo(x, w, m)
<1>1. Beginnings(x, w) \subseteq Int
  BY DEF Beginnings
<1>2. ASSUME NEW i \in Beginnings(x, w)  PROVE i <= m <=> i <= n
  <2>1. i \in Int /\ i \notin m + 1 .. n
    BY <1>1, <1>2
  <2> QED BY <2>1
<1>3. BegunBy(x, w, m) = BegunBy(x, w, n)
  BY <1>2 DEF BegunBy
<1> QED BY <1>3 DEF CountTo

\* The number of a run, the first being one, tells it from the others.
Nth(x, w, k, r) == r \in RunsOf(x, w) /\ CountTo(x, w, r[1]) = k

LEMMA LaterRun ==
    ASSUME NEW x \in Seq(Char), NEW w,
           NEW r \in RunsOf(x, w), NEW s \in RunsOf(x, w), r[1] < s[1]
    PROVE  /\ CountTo(x, w, r[1]) < CountTo(x, w, s[1])
           /\ r[2] < s[1]
<1>1. /\ r[1] \in 1 .. Len(x) /\ s[1] \in 1 .. Len(x) /\ r[2] \in Int
      /\ s[1] \in Beginnings(x, w) /\ r[1] <= s[1] - 1
      /\ \A i \in r[1] .. r[2] : InWord(x, w, i)
      /\ ~InWord(x, w, s[1] - 1)
  BY RunIs
<1>2. CountTo(x, w, s[1]) = CountTo(x, w, s[1] - 1) + 1
  BY <1>1, OneMoreBegun
<1>3. r[1] \in Int /\ s[1] - 1 \in Int
  BY <1>1
<1>4. CountTo(x, w, r[1]) <= CountTo(x, w, s[1] - 1)
  BY <1>1, <1>3, CountGrows
<1>5. CountTo(x, w, r[1]) \in Nat /\ CountTo(x, w, s[1] - 1) \in Nat
  BY <1>3, RunsCounted
<1>6. r[2] < s[1]
  <2>1. s[1] - 1 \notin r[1] .. r[2]
    BY <1>1
  <2> QED BY <1>1, <2>1
<1> QED BY <1>2, <1>4, <1>5, <1>6

LEMMA NthIsOne ==
    ASSUME NEW x \in Seq(Char), NEW w, NEW k, NEW r, NEW s,
           Nth(x, w, k, r), Nth(x, w, k, s)
    PROVE  r = s
<1>1. r \in RunsOf(x, w) /\ s \in RunsOf(x, w)
      /\ CountTo(x, w, r[1]) = k /\ CountTo(x, w, s[1]) = k
  BY DEF Nth
<1>2. r[1] \in Int /\ s[1] \in Int
  BY <1>1, RunIs
<1>3. k \in Nat
  BY <1>1, <1>2, RunsCounted
<1>4. ~(r[1] < s[1]) /\ ~(s[1] < r[1])
  <2>1. ASSUME r[1] < s[1]  PROVE FALSE
    <3>1. k < k
      BY <1>1, <2>1, LaterRun
    <3> QED BY <1>3, <3>1
  <2>2. ASSUME s[1] < r[1]  PROVE FALSE
    <3>1. k < k
      BY <1>1, <2>2, LaterRun
    <3> QED BY <1>3, <3>1
  <2> QED BY <2>1, <2>2
<1>5. r[1] = s[1]
  BY <1>2, <1>4
<1> QED BY <1>1, <1>5, RunIsOne
-----------------------------------------------------------------------------
(***************************************************************************)
(* Counting words.                                                         *)
(***************************************************************************)
\* What words() has counted, and whether it is in a word, after each character.
Scans(x, w, scan) ==
    scan = [i \in 0 .. Len(x) |->
              IF i = 0 THEN [word_count |-> 0, in_word |-> FALSE]
              ELSE LET in_word == ~is_white(x[i], w)
                       begins  == in_word /\ ~scan[i - 1].in_word
                   IN  [word_count |-> scan[i - 1].word_count + (IF begins THEN 1 ELSE 0),
                        in_word    |-> in_word]]

\* It is what has begun up to there, and whether there is a word there.
LEMMA ScansAreThere ==
    ASSUME NEW x \in Seq(Char), NEW w
    PROVE  Scans(x, w, [i \in 0 .. Len(x) |->
                          [word_count |-> CountTo(x, w, i), in_word |-> InWord(x, w, i)]])
<1> DEFINE f == [i \in 0 .. Len(x) |->
                   [word_count |-> CountTo(x, w, i), in_word |-> InWord(x, w, i)]]
           next(i) == LET in_word == ~is_white(x[i], w)
                          begins  == in_word /\ ~f[i - 1].in_word
                      IN  [word_count |-> f[i - 1].word_count + (IF begins THEN 1 ELSE 0),
                           in_word    |-> in_word]
<1>1. Len(x) \in Nat
  OBVIOUS
<1>2. f[0] = [word_count |-> 0, in_word |-> FALSE]
  <2>1. 0 \in 0 .. Len(x) /\ 0 \notin 1 .. Len(x)
    BY <1>1
  <2>2. CountTo(x, w, 0) = 0 /\ InWord(x, w, 0) = FALSE
    BY <2>1, NoneBegun DEF InWord
  <2> QED BY <2>1, <2>2
<1>3. ASSUME NEW i \in 1 .. Len(x)  PROVE f[i] = next(i)
  <2>1. i \in 0 .. Len(x) /\ i - 1 \in 0 .. Len(x)
    BY <1>1
  <2>2. /\ f[i - 1].word_count = CountTo(x, w, i - 1)
        /\ f[i - 1].in_word = InWord(x, w, i - 1)
        /\ f[i] = [word_count |-> CountTo(x, w, i), in_word |-> InWord(x, w, i)]
    BY <2>1
  <2>3. InWord(x, w, i) = ~is_white(x[i], w)
    BY DEF InWord
  <2>4. CountTo(x, w, i) = CountTo(x, w, i - 1)
           + (IF ~is_white(x[i], w) /\ ~InWord(x, w, i - 1) THEN 1 ELSE 0)
    <3>1. i \in Beginnings(x, w) <=> ~is_white(x[i], w) /\ ~InWord(x, w, i - 1)
      BY DEF Beginnings, InWord
    <3> QED BY <3>1, OneMoreBegun
  <2> HIDE DEF f
  <2> QED BY <2>2, <2>3, <2>4
<1>4. ASSUME NEW i \in 0 .. Len(x)
      PROVE  f[i] = IF i = 0 THEN [word_count |-> 0, in_word |-> FALSE] ELSE next(i)
  <2>1. i # 0 => i \in 1 .. Len(x)
    BY <1>1
  <2> HIDE DEF f, next
  <2> QED BY <1>2, <1>3, <2>1
<1>5. f = [i \in 0 .. Len(x) |-> f[i]]
  OBVIOUS
<1> HIDE DEF f
<1>6. f = [i \in 0 .. Len(x) |->
             IF i = 0 THEN [word_count |-> 0, in_word |-> FALSE] ELSE next(i)]
  <2> HIDE DEF next
  <2> QED BY <1>4, <1>5
<1>7. Scans(x, w, f)
  BY <1>6 DEF Scans
<1> QED BY <1>7 DEF f

LEMMA ScansAreOne ==
    ASSUME NEW x \in Seq(Char), NEW w, NEW f, NEW g, Scans(x, w, f), Scans(x, w, g)
    PROVE  f[Len(x)] = g[Len(x)]
<1> DEFINE T == {i \in Nat : i <= Len(x) => f[i] = g[i]}
           step(i, s) == LET in_word == ~is_white(x[i], w)
                             begins  == in_word /\ ~s.in_word
                         IN  [word_count |-> s.word_count + (IF begins THEN 1 ELSE 0),
                              in_word    |-> in_word]
           base == [word_count |-> 0, in_word |-> FALSE]
<1>1. Len(x) \in Nat
  OBVIOUS
<1>2. /\ \A i \in 0 .. Len(x) : f[i] = IF i = 0 THEN base ELSE step(i, f[i - 1])
      /\ \A i \in 0 .. Len(x) : g[i] = IF i = 0 THEN base ELSE step(i, g[i - 1])
  <2>1. \A i \in 0 .. Len(x) : f[i] = IF i = 0 THEN base ELSE step(i, f[i - 1])
    BY DEF Scans
  <2>2. \A i \in 0 .. Len(x) : g[i] = IF i = 0 THEN base ELSE step(i, g[i - 1])
    BY DEF Scans
  <2> QED BY <2>1, <2>2
<1> HIDE DEF step, base
<1>3. 0 \in T
  BY <1>1, <1>2
<1>4. ASSUME NEW i \in Nat, i \in T  PROVE i + 1 \in T
  <2> SUFFICES ASSUME i + 1 <= Len(x)  PROVE f[i + 1] = g[i + 1]
    OBVIOUS
  <2>1. f[i] = g[i]
    BY <1>1, <1>4
  <2>2. i + 1 \in 0 .. Len(x) /\ i + 1 # 0 /\ (i + 1) - 1 = i
    BY <1>1
  <2> QED BY <1>2, <2>1, <2>2
<1>5. \A i \in Nat : i \in T
  <2> HIDE DEF T
  <2> QED BY <1>3, <1>4, Induction
<1> QED BY <1>1, <1>5

LEMMA WordsAreCounted ==
    ASSUME NEW x \in Seq(Char), NEW w
    PROVE  words(x, w) = CountTo(x, w, Len(x))
<1> DEFINE f == [i \in 0 .. Len(x) |->
                   [word_count |-> CountTo(x, w, i), in_word |-> InWord(x, w, i)]]
           scan == CHOOSE g : Scans(x, w, g)
<1>1. Scans(x, w, f)
  BY ScansAreThere
<1>2. Scans(x, w, scan)
  BY <1>1
<1>3. scan[Len(x)] = f[Len(x)]
  <2> HIDE DEF f, scan
  <2> QED BY <1>1, <1>2, ScansAreOne
<1>4. words(x, w) = scan[Len(x)].word_count
  BY DEF words, Scans
<1>5. f[Len(x)].word_count = CountTo(x, w, Len(x))
  <2>1. Len(x) \in 0 .. Len(x)
    OBVIOUS
  <2> QED BY <2>1
<1> HIDE DEF f, scan
<1> QED BY <1>3, <1>4, <1>5
-----------------------------------------------------------------------------
(***************************************************************************)
(* The scans of subword().                                                 *)
(***************************************************************************)
LEMMA ScannedIsNat ==
    ASSUME NEW x \in Seq(Char), NEW stops, stops \subseteq Nat
    PROVE  Scanned(x, stops) \in Nat
<1> DEFINE top == Len(x) + 1
           S == {top} \union stops
<1>1. top \in Nat
  OBVIOUS
<1> HIDE DEF top
<1>2. S \subseteq Nat /\ S # {}
  BY <1>1
<1> HIDE DEF S
<1>3. S \subseteq Int /\ 0 \in Int /\ \A y \in S : 0 <= y
  BY <1>2
<1>4. Min(S) \in S
  BY <1>2, <1>3, Least
<1> QED BY <1>2, <1>4 DEF Scanned, S, top

LEMMA ScannedIs ==
    ASSUME NEW x \in Seq(Char), NEW stops, stops \subseteq 0 .. Len(x), NEW j \in stops,
           \A k \in stops : j <= k
    PROVE  Scanned(x, stops) = j
<1> DEFINE top == Len(x) + 1
           S == {top} \union stops
<1>1. top \in Int /\ j <= top /\ stops \subseteq Int
  <2>1. Len(x) \in Nat /\ j \in 0 .. Len(x)
    OBVIOUS
  <2> QED BY <2>1
<1> HIDE DEF top
<1>2. S \subseteq Int /\ j \in S /\ \A y \in S : j <= y
  BY <1>1
<1> HIDE DEF S
<1>3. Min(S) = j
  BY <1>2, MinIs
<1> QED BY <1>3 DEF Scanned, S, top

LEMMA ScansAreNat ==
    ASSUME NEW x \in Seq(Char), NEW w, NEW i \in Nat
    PROVE  /\ SkipWhite(x, i, w) \in Nat /\ SkipWord(x, i, w) \in Nat
           /\ EndOfWord(x, i, w) \in Nat
<1>1. SkipWhite(x, i, w) \in Nat
  <2>1. {j \in i .. Len(x) : ~is_white(At(x, j), w)} \subseteq Nat
    OBVIOUS
  <2> QED BY <2>1, ScannedIsNat DEF SkipWhite
<1>2. SkipWord(x, i, w) \in Nat
  <2>1. {j \in i .. Len(x) : is_white(At(x, j), w)} \subseteq Nat
    OBVIOUS
  <2> QED BY <2>1, ScannedIsNat DEF SkipWord
<1>3. EndOfWord(x, i, w) \in Nat
  <2>1. {j \in i .. Len(x) : is_white(At(x, j), w) \/ At(x, j) = NUL} \subseteq Nat
    OBVIOUS
  <2> QED BY <2>1, ScannedIsNat DEF EndOfWord
<1> QED BY <1>1, <1>2, <1>3

\* Behind index i of a text is the character whose place is i + 1.
LEMMA WhiteIs ==
    ASSUME NEW x \in Seq(Char), NEW w, NEW j \in 0 .. Len(x)
    PROVE  /\ j < Len(x) => /\ is_white(At(x, j), w) <=> ~InWord(x, w, j + 1)
                            /\ At(x, j) # NUL
           /\ j = Len(x) => At(x, j) = NUL
<1>1. Len(x) \in Nat /\ \A i \in 1 .. Len(x) : x[i] \in Char
  OBVIOUS
<1>2. CASE j < Len(x)
  <2>1. j \in 0 .. Len(x) - 1 /\ j + 1 \in 1 .. Len(x)
    BY <1>1, <1>2
  <2>2. At(x, j) = x[j + 1] /\ x[j + 1] \in Char
    BY <1>1, <2>1, AtIs
  <2> QED BY <1>1, <1>2, <2>1, <2>2, CharacterAssumption DEF InWord
<1>3. CASE j = Len(x)
  <2>1. j \notin 0 .. Len(x) - 1
    BY <1>1, <1>3
  <2> QED BY <1>1, <1>3, <2>1 DEF At
<1> QED BY <1>1, <1>2, <1>3

\* If another word begins behind a place that is in none, skipping white space
\* from there finds it.
LEMMA NextRun ==
    ASSUME NEW x \in Seq(Char), NEW w, NEW i, Between(x, w, i),
           CountTo(x, w, i) < CountTo(x, w, Len(x))
    PROVE  \E s \in RunsOf(x, w) :
              /\ i < s[1] /\ CountTo(x, w, s[1]) = CountTo(x, w, i) + 1
              /\ SkipWhite(x, i, w) = s[1] - 1
<1> DEFINE Q == {q \in Nat : i < q /\ InWord(x, w, q)}
<1>1. Len(x) \in Nat /\ i \in 0 .. Len(x) /\ i \in Int /\ Len(x) \in Int /\ i <= Len(x)
  BY DEF Between
<1>2. CountTo(x, w, i) \in Nat
  BY <1>1, RunsCounted
<1>3. Q # {}
  <2> SUFFICES ASSUME Q = {}  PROVE FALSE
    OBVIOUS
  <2>1. ASSUME NEW c \in i + 1 .. Len(x)  PROVE c \notin Beginnings(x, w)
    <3>1. c \in Nat /\ i < c
      BY <1>1
    <3>2. ~InWord(x, w, c)
      BY <3>1
    <3> QED BY <3>2 DEF Beginnings
  <2>2. CountTo(x, w, Len(x)) = CountTo(x, w, i)
    BY <1>1, <2>1, NoMoreBegun
  <2> QED BY <1>2, <2>2
<1>4. PICK q \in Q : \A c \in Q : q <= c
  <2>1. Q \subseteq Nat
    OBVIOUS
  <2> HIDE DEF Q
  <2> QED BY <1>3, <2>1, LeastNat
<1>5. q \in 1 .. Len(x) /\ i < q /\ InWord(x, w, q) /\ q \in Int
  BY DEF InWord
<1>6. ASSUME NEW c \in i + 1 .. q - 1  PROVE ~InWord(x, w, c)
  <2>1. c \in Nat /\ i < c /\ ~(q <= c)
    BY <1>1, <1>5
  <2>2. c \notin Q
    <3> HIDE DEF Q
    <3> QED BY <1>4, <2>1
  <2> QED BY <2>1, <2>2
<1> HIDE DEF Q
<1>7. q \in Beginnings(x, w)
  <2>1. ~InWord(x, w, q - 1)
    <3>1. CASE q = i + 1
      <4>1. q - 1 = i
        BY <1>1, <3>1
      <4> QED BY <1>5, <3>1, <4>1 DEF Between
    <3>2. CASE q # i + 1
      <4>1. q - 1 \in i + 1 .. q - 1
        BY <1>1, <1>5, <3>2
      <4> QED BY <1>6, <4>1
    <3> QED BY <3>1, <3>2
  <2> QED BY <1>5, <2>1 DEF Beginnings
<1>8. CountTo(x, w, q) = CountTo(x, w, i) + 1
  <2>1. CountTo(x, w, q) = CountTo(x, w, q - 1) + 1
    BY <1>5, <1>7, OneMoreBegun
  <2>2. CountTo(x, w, q - 1) = CountTo(x, w, i)
    <3>1. q - 1 \in Int /\ i <= q - 1
      BY <1>1, <1>5
    <3>2. \A c \in i + 1 .. q - 1 : c \notin Beginnings(x, w)
      BY <1>6 DEF Beginnings
    <3> QED BY <1>1, <3>1, <3>2, NoMoreBegun
  <2> QED BY <2>1, <2>2
<1>9. SkipWhite(x, i, w) = q - 1
  <2> DEFINE stops == {j \in i .. Len(x) : ~is_white(At(x, j), w)}
  <2>1. q - 1 \in 0 .. Len(x) /\ q - 1 \in i .. Len(x) /\ q - 1 < Len(x) /\ (q - 1) + 1 = q
    BY <1>1, <1>5
  <2>2. ~is_white(At(x, q - 1), w)
    BY <1>5, <2>1, WhiteIs
  <2>3. ASSUME NEW k \in stops  PROVE q - 1 <= k
    <3>1. k \in i .. Len(x) /\ ~is_white(At(x, k), w)
      OBVIOUS
    <3>2. ASSUME k < q - 1  PROVE FALSE
      <4>1. k \in 0 .. Len(x) /\ k < Len(x) /\ k + 1 \in i + 1 .. q - 1
        BY <1>1, <1>5, <3>1, <3>2
      <4> QED BY <1>6, <3>1, <4>1, WhiteIs
    <3> QED BY <1>1, <1>5, <3>1, <3>2
  <2>4. stops \subseteq 0 .. Len(x) /\ q - 1 \in stops
    <3>1. \A j \in i .. Len(x) : j \in 0 .. Len(x)
      BY <1>1
    <3> QED BY <2>1, <2>2, <3>1
  <2> HIDE DEF stops
  <2>5. Scanned(x, stops) = q - 1
    BY <2>3, <2>4, ScannedIs
  <2> QED BY <2>5 DEF SkipWhite, stops
<1>10. PICK s \in RunsOf(x, w) : s[1] = q
  BY <1>7, RunFrom
<1> QED BY <1>5, <1>8, <1>9, <1>10

\* From the beginning of a word its end is found, by the scan that does not
\* look for the NUL only if the text goes on behind it.
LEMMA EndOfRun ==
    ASSUME NEW x \in Seq(Char), NEW w, NEW s \in RunsOf(x, w)
    PROVE  /\ EndOfWord(x, s[1] - 1, w) = s[2]
           /\ s[2] < Len(x) => SkipWord(x, s[1] - 1, w) = s[2]
           /\ Between(x, w, s[2])
           /\ CountTo(x, w, s[2]) = CountTo(x, w, s[1])
<1>1. /\ Len(x) \in Nat /\ s[1] \in 1 .. Len(x) /\ s[2] \in 1 .. Len(x) /\ s[1] <= s[2]
      /\ s[1] \in Int /\ s[2] \in Int
      /\ \A i \in s[1] .. s[2] : InWord(x, w, i)
      /\ ~InWord(x, w, s[2] + 1)
  BY RunIs
<1>2. ASSUME NEW j \in s[1] - 1 .. Len(x), j < s[2]
      PROVE  ~is_white(At(x, j), w) /\ At(x, j) # NUL
  <2>1. j \in 0 .. Len(x) /\ j < Len(x) /\ j + 1 \in s[1] .. s[2]
    BY <1>1, <1>2
  <2> QED BY <1>1, <2>1, WhiteIs
<1>3. s[2] \in 0 .. Len(x) /\ s[2] \in s[1] - 1 .. Len(x)
  BY <1>1
<1>4. /\ s[2] < Len(x) => is_white(At(x, s[2]), w)
      /\ s[2] = Len(x) => At(x, s[2]) = NUL
  BY <1>1, <1>3, WhiteIs
<1>5. \A j \in s[1] - 1 .. Len(x) : j \in 0 .. Len(x) /\ j \in Int
  BY <1>1
<1>6. EndOfWord(x, s[1] - 1, w) = s[2]
  <2> DEFINE stops == {j \in s[1] - 1 .. Len(x) : is_white(At(x, j), w) \/ At(x, j) = NUL}
  <2>1. stops \subseteq 0 .. Len(x) /\ s[2] \in stops
    <3>1. s[2] < Len(x) \/ s[2] = Len(x)
      BY <1>1
    <3> QED BY <1>3, <1>4, <1>5, <3>1
  <2>2. ASSUME NEW k \in stops  PROVE s[2] <= k
    <3>1. ~(k < s[2]) /\ k \in Int
      BY <1>2, <1>5
    <3> QED BY <1>1, <3>1
  <2> HIDE DEF stops
  <2>3. Scanned(x, stops) = s[2]
    BY <2>1, <2>2, ScannedIs
  <2> QED BY <2>3 DEF EndOfWord, stops
<1>7. ASSUME s[2] < Len(x)  PROVE SkipWord(x, s[1] - 1, w) = s[2]
  <2> DEFINE stops == {j \in s[1] - 1 .. Len(x) : is_white(At(x, j), w)}
  <2>1. stops \subseteq 0 .. Len(x) /\ s[2] \in stops
    BY <1>3, <1>4, <1>5, <1>7
  <2>2. ASSUME NEW k \in stops  PROVE s[2] <= k
    <3>1. ~(k < s[2]) /\ k \in Int
      BY <1>2, <1>5
    <3> QED BY <1>1, <3>1
  <2> HIDE DEF stops
  <2>3. Scanned(x, stops) = s[2]
    BY <2>1, <2>2, ScannedIs
  <2> QED BY <2>3 DEF SkipWord, stops
<1>8. CountTo(x, w, s[2]) = CountTo(x, w, s[1])
  <2>1. ASSUME NEW c \in s[1] + 1 .. s[2]  PROVE c \notin Beginnings(x, w)
    <3>1. c - 1 \in s[1] .. s[2]
      BY <1>1
    <3> QED BY <1>1, <3>1 DEF Beginnings
  <2> QED BY <1>1, <2>1, NoMoreBegun
<1> QED BY <1>1, <1>3, <1>6, <1>7, <1>8 DEF Between
-----------------------------------------------------------------------------
\* The indexes at which subword() finds the words to begin.
Starts(x, w, o, start) ==
    start = [k \in 0 .. o |->
               IF k = 0 THEN SkipWhite(x, 0, w)
               ELSE SkipWhite(x, SkipWord(x, start[k - 1], w), w)]

LEMMA StartsAreThere ==
    ASSUME NEW x \in Seq(Char), NEW w, NEW o \in Nat
    PROVE  \E start : Starts(x, w, o, start)
<1> DEFINE base == SkipWhite(x, 0, w)
           step == [k \in Nat |-> [s \in Nat |-> SkipWhite(x, SkipWord(x, s, w), w)]]
<1>1. base \in Nat /\ \A s \in Nat : SkipWhite(x, SkipWord(x, s, w), w) \in Nat
  BY ScansAreNat
<1>2. Steps(Nat, base, step)
  BY <1>1 DEF Steps
<1>3. \A s \in Nat, k \in Nat : step[k][s] = SkipWhite(x, SkipWord(x, s, w), w)
  OBVIOUS
<1> HIDE DEF step, base
<1>4. PICK f : Iterates(Nat, base, step, o, f)
  BY <1>2, RecursiveFunction
<1>5. ASSUME NEW k \in 0 .. o
      PROVE  f[k] = IF k = 0 THEN base ELSE SkipWhite(x, SkipWord(x, f[k - 1], w), w)
  <2>1. k # 0 => k - 1 \in 0 .. o /\ k \in Nat
    OBVIOUS
  <2>2. k # 0 => f[k - 1] \in Nat
    BY <1>4, <2>1 DEF Iterates
  <2> QED BY <1>3, <1>4, <2>1, <2>2 DEF Iterates
<1>6. f = [k \in 0 .. o |-> f[k]]
  BY <1>4 DEF Iterates
<1>7. f = [k \in 0 .. o |-> IF k = 0 THEN base
                            ELSE SkipWhite(x, SkipWord(x, f[k - 1], w), w)]
  BY <1>5, <1>6
<1> QED BY <1>7 DEF Starts, base

LEMMA StartIs ==
    ASSUME NEW x \in Seq(Char), NEW w, NEW o \in Nat, o < CountTo(x, w, Len(x))
    PROVE  \E r : Nth(x, w, o + 1, r) /\ Start(x, o, w) = r[1] - 1
<1> DEFINE start == CHOOSE f : Starts(x, w, o, f)
           Found(k) == \E r : Nth(x, w, k + 1, r) /\ start[k] = r[1] - 1
           T == {k \in Nat : k <= o => Found(k)}
           count == CountTo(x, w, Len(x))
<1>1. Starts(x, w, o, start)
  BY StartsAreThere
<1>2. Start(x, o, w) = start[o]
  BY DEF Start, Starts
<1>3. \A k \in 0 .. o : start[k] = IF k = 0 THEN SkipWhite(x, 0, w)
                                   ELSE SkipWhite(x, SkipWord(x, start[k - 1], w), w)
  <2> HIDE DEF start
  <2> QED BY <1>1 DEF Starts
<1> HIDE DEF start
<1>4. Len(x) \in Nat /\ count \in Nat
  <2>1. Len(x) \in Nat /\ Len(x) \in Int
    OBVIOUS
  <2> QED BY <2>1, RunsCounted
<1>5. 0 \in T
  <2>1. Between(x, w, 0)
    <3>1. 0 \notin 1 .. Len(x) /\ 0 \in 0 .. Len(x)
      BY <1>4
    <3> QED BY <3>1 DEF Between, InWord
  <2>2. CountTo(x, w, 0) = 0
    BY NoneBegun
  <2>3. CountTo(x, w, 0) < count
    BY <1>4, <2>2
  <2>4. PICK s \in RunsOf(x, w) : /\ CountTo(x, w, s[1]) = CountTo(x, w, 0) + 1
                                  /\ SkipWhite(x, 0, w) = s[1] - 1
    BY <2>1, <2>3, NextRun
  <2>5. Nth(x, w, 0 + 1, s)
    BY <2>2, <2>4 DEF Nth
  <2>6. start[0] = s[1] - 1
    BY <1>3, <2>4
  <2> QED BY <2>5, <2>6
<1>6. ASSUME NEW k \in Nat, k \in T  PROVE k + 1 \in T
  <2> SUFFICES ASSUME k + 1 <= o  PROVE Found(k + 1)
    OBVIOUS
  <2>1. PICK r : Nth(x, w, k + 1, r) /\ start[k] = r[1] - 1
    BY <1>6
  <2>2. r \in RunsOf(x, w) /\ CountTo(x, w, r[1]) = k + 1
    BY <2>1 DEF Nth
  <2>3. /\ r[2] < Len(x) => SkipWord(x, r[1] - 1, w) = r[2]
        /\ Between(x, w, r[2])
        /\ CountTo(x, w, r[2]) = k + 1
    BY <2>2, EndOfRun
  <2>4. r[2] \in 1 .. Len(x)
    BY <2>2, RunIs
  <2>5. k + 1 < count /\ r[2] < Len(x)
    <3>1. k + 1 < count
      BY <1>4
    <3>2. r[2] # Len(x)
      BY <1>4, <2>3, <3>1
    <3> QED BY <1>4, <2>4, <3>1, <3>2
  <2>6. PICK s \in RunsOf(x, w) : /\ CountTo(x, w, s[1]) = CountTo(x, w, r[2]) + 1
                                  /\ SkipWhite(x, r[2], w) = s[1] - 1
    BY <2>3, <2>5, NextRun
  <2>7. k + 1 \in 0 .. o /\ k + 1 # 0 /\ (k + 1) - 1 = k
    OBVIOUS
  <2>8. start[k + 1] = s[1] - 1
    BY <1>3, <2>1, <2>3, <2>5, <2>6, <2>7
  <2>9. Nth(x, w, (k + 1) + 1, s)
    BY <2>3, <2>6 DEF Nth
  <2> QED BY <2>8, <2>9
<1>7. \A k \in Nat : k \in T
  <2> HIDE DEF T
  <2> QED BY <1>5, <1>6, Induction
<1>8. Found(o)
  BY <1>7
<1> QED BY <1>2, <1>8

\* The indexes at which it finds the words after that to end.
Ends(x, w, from, n, end) ==
    end = [k \in 1 .. n |->
             EndOfWord(x, IF k = 1 THEN from ELSE SkipWhite(x, end[k - 1], w), w)]

LEMMA EndsAreThere ==
    ASSUME NEW x \in Seq(Char), NEW w, NEW from \in Nat, NEW n \in Nat, n # 0
    PROVE  \E end : Ends(x, w, from, n, end)
<1> DEFINE base == EndOfWord(x, from, w)
           step == [k \in Nat |-> [s \in Nat |-> EndOfWord(x, SkipWhite(x, s, w), w)]]
<1>1. base \in Nat /\ \A s \in Nat : EndOfWord(x, SkipWhite(x, s, w), w) \in Nat
  BY ScansAreNat
<1>2. Steps(Nat, base, step)
  BY <1>1 DEF Steps
<1>3. \A s \in Nat, k \in Nat : step[k][s] = EndOfWord(x, SkipWhite(x, s, w), w)
  OBVIOUS
<1> HIDE DEF step, base
<1>4. PICK f : Iterates(Nat, base, step, n - 1, f)
  <2>1. n - 1 \in Nat
    OBVIOUS
  <2> QED BY <1>2, <2>1, RecursiveFunction
<1> DEFINE end == [k \in 1 .. n |-> f[k - 1]]
<1>5. ASSUME NEW k \in 1 .. n
      PROVE  end[k] = EndOfWord(x, IF k = 1 THEN from ELSE SkipWhite(x, end[k - 1], w), w)
  <2>1. end[k] = f[k - 1] /\ k - 1 \in 0 .. n - 1
    OBVIOUS
  <2>2. CASE k = 1
    <3>1. k - 1 = 0
      BY <2>2
    <3>2. f[k - 1] = base
      BY <1>4, <2>1, <3>1 DEF Iterates
    <3> HIDE DEF end
    <3> QED BY <2>1, <2>2, <3>2 DEF base
  <2>3. CASE k # 1
    <3>1. k - 1 \in 1 .. n /\ k - 1 # 0 /\ (k - 1) - 1 \in 0 .. n - 1 /\ k - 1 \in Nat
      BY <2>3
    <3>2. f[k - 1] = step[k - 1][f[(k - 1) - 1]] /\ f[(k - 1) - 1] \in Nat
      BY <1>4, <2>1, <3>1 DEF Iterates
    <3>3. end[k - 1] = f[(k - 1) - 1]
      BY <3>1
    <3> HIDE DEF end
    <3>4. end[k] = EndOfWord(x, SkipWhite(x, end[k - 1], w), w)
      BY <1>3, <2>1, <3>1, <3>2, <3>3
    <3> QED BY <2>3, <3>4
  <2> QED BY <2>2, <2>3
<1>6. end = [k \in 1 .. n |-> end[k]]
  OBVIOUS
<1> HIDE DEF end
<1>7. end = [k \in 1 .. n |->
               EndOfWord(x, IF k = 1 THEN from ELSE SkipWhite(x, end[k - 1], w), w)]
  BY <1>5, <1>6
<1> QED BY <1>7 DEF Ends

LEMMA EndIs ==
    ASSUME NEW x \in Seq(Char), NEW w, NEW o \in Nat, NEW n \in Nat, n # 0,
           o + n <= CountTo(x, w, Len(x)), NEW r, Nth(x, w, o + 1, r)
    PROVE  \E s : Nth(x, w, o + n, s) /\ End(x, r[1] - 1, n, w) = s[2]
<1> DEFINE end == CHOOSE f : Ends(x, w, r[1] - 1, n, f)
           Found(k) == \E s : Nth(x, w, (o + 1) + k, s) /\ end[k + 1] = s[2]
           T == {k \in Nat : k < n => Found(k)}
           count == CountTo(x, w, Len(x))
<1>1. r \in RunsOf(x, w)
  BY DEF Nth
<1>2. r[1] - 1 \in Nat
  BY <1>1, RunIs
<1>3. Ends(x, w, r[1] - 1, n, end)
  BY <1>2, EndsAreThere
<1>4. End(x, r[1] - 1, n, w) = end[n]
  BY DEF End, Ends
<1>5. \A k \in 1 .. n : end[k] = EndOfWord(x, IF k = 1 THEN r[1] - 1
                                              ELSE SkipWhite(x, end[k - 1], w), w)
  <2> HIDE DEF end
  <2> QED BY <1>3 DEF Ends
<1> HIDE DEF end
<1>6. Len(x) \in Nat /\ count \in Nat
  <2>1. Len(x) \in Nat /\ Len(x) \in Int
    OBVIOUS
  <2> QED BY <2>1, RunsCounted
<1>7. 0 \in T
  <2>1. end[0 + 1] = EndOfWord(x, r[1] - 1, w)
    <3>1. 0 + 1 = 1 /\ 1 \in 1 .. n
      OBVIOUS
    <3> QED BY <1>5, <3>1
  <2>2. end[0 + 1] = r[2]
    BY <1>1, <2>1, EndOfRun
  <2>3. (o + 1) + 0 = o + 1
    OBVIOUS
  <2> QED BY <2>2, <2>3
<1>8. ASSUME NEW k \in Nat, k \in T  PROVE k + 1 \in T
  <2> SUFFICES ASSUME k + 1 < n  PROVE Found(k + 1)
    OBVIOUS
  <2>1. PICK p : Nth(x, w, (o + 1) + k, p) /\ end[k + 1] = p[2]
    BY <1>8
  <2>2. p \in RunsOf(x, w) /\ CountTo(x, w, p[1]) = (o + 1) + k
    BY <2>1 DEF Nth
  <2>3. Between(x, w, p[2]) /\ CountTo(x, w, p[2]) = (o + 1) + k
    BY <2>2, EndOfRun
  <2>4. (o + 1) + k < count
    BY <1>6
  <2>5. CountTo(x, w, p[2]) < CountTo(x, w, Len(x))
    BY <2>3, <2>4
  <2>6. PICK s \in RunsOf(x, w) : /\ CountTo(x, w, s[1]) = CountTo(x, w, p[2]) + 1
                                  /\ SkipWhite(x, p[2], w) = s[1] - 1
    BY <2>3, <2>5, NextRun
  <2>7. /\ (k + 1) + 1 \in 1 .. n /\ (k + 1) + 1 # 1 /\ ((k + 1) + 1) - 1 = k + 1
        /\ ((o + 1) + k) + 1 = (o + 1) + (k + 1)
    OBVIOUS
  <2>8. end[(k + 1) + 1] = EndOfWord(x, s[1] - 1, w)
    BY <1>5, <2>1, <2>6, <2>7
  <2>9. EndOfWord(x, s[1] - 1, w) = s[2]
    BY EndOfRun
  <2>10. Nth(x, w, (o + 1) + (k + 1), s)
    BY <2>3, <2>6, <2>7 DEF Nth
  <2> QED BY <2>8, <2>9, <2>10
<1>9. \A k \in Nat : k \in T
  <2> HIDE DEF T
  <2> QED BY <1>7, <1>8, Induction
<1>10. Found(n - 1)
  <2>1. n - 1 \in Nat /\ n - 1 < n
    OBVIOUS
  <2> HIDE DEF Found
  <2> QED BY <1>9, <2>1
<1>11. (o + 1) + (n - 1) = o + n /\ (n - 1) + 1 = n
  OBVIOUS
<1> QED BY <1>4, <1>10, <1>11

\* What subword() returns is from the beginning of one word to the end of
\* another.
LEMMA SubwordIs ==
    ASSUME NEW x \in Seq(Char), NEW w, NEW o \in Ints, NEW n \in Int
    PROVE  LET count == CountTo(x, w, Len(x))
           IN  IF o \in 1 .. count /\ n > 0
               THEN \E r, s : /\ Nth(x, w, o, r) /\ Nth(x, w, Smaller(count, o + n - 1), s)
                              /\ r[1] <= s[2]
                              /\ subword(x, o, n, w)
                                   = Result((s[2] - (r[1] - 1)) + 1,
                                            Piece(x, r[1] - 1, s[2] - (r[1] - 1)))
               ELSE subword(x, o, n, w) = Empty
<1> DEFINE count == CountTo(x, w, Len(x))
           m == Smaller(n, count - (o - 1))
<1>1. o \in Int /\ Wrap(o - 1) = o - 1 /\ words(x, w) = count
  BY OffsetFits, WordsAreCounted
<1>2. Len(x) \in Nat /\ count \in Nat
  <2>1. Len(x) \in Nat /\ Len(x) \in Int
    OBVIOUS
  <2> QED BY <2>1, RunsCounted
<1> HIDE DEF count
<1>3. subword(x, o, n, w) =
        IF o - 1 < 0 \/ n < 0 \/ o - 1 >= count \/ m = 0 THEN Empty
        ELSE Result((End(x, Start(x, o - 1, w), m, w) - Start(x, o - 1, w)) + 1,
                    Piece(x, Start(x, o - 1, w),
                          End(x, Start(x, o - 1, w), m, w) - Start(x, o - 1, w)))
  BY <1>1 DEF subword
<1>4. CASE ~(o \in 1 .. count /\ n > 0)
  <2>1. o - 1 < 0 \/ n < 0 \/ o - 1 >= count \/ m = 0
    BY <1>1, <1>2, <1>4 DEF Smaller
  <2>2. subword(x, o, n, w) = Empty
    BY <1>3, <2>1
  <2> QED BY <1>4, <2>2 DEF count
<1>5. CASE o \in 1 .. count /\ n > 0
  <2>1. /\ o - 1 \in Nat /\ o - 1 < count /\ m \in Nat /\ m # 0 /\ (o - 1) + m <= count
        /\ (o - 1) + 1 = o
    BY <1>1, <1>2, <1>5 DEF Smaller
  <2>2. (o - 1) + m = Smaller(count, o + n - 1)
    BY <1>1, <1>2, <1>5 DEF Smaller
  <2>3. ~(o - 1 < 0 \/ n < 0 \/ o - 1 >= count \/ m = 0)
    BY <1>1, <1>2, <1>5, <2>1
  <2> HIDE DEF m
  <2>4. PICK r : Nth(x, w, (o - 1) + 1, r) /\ Start(x, o - 1, w) = r[1] - 1
    BY <2>1, StartIs DEF count
  <2>5. PICK s : Nth(x, w, (o - 1) + m, s) /\ End(x, r[1] - 1, m, w) = s[2]
    BY <2>1, <2>4, EndIs DEF count
  <2>6. r \in RunsOf(x, w) /\ s \in RunsOf(x, w)
        /\ CountTo(x, w, r[1]) = (o - 1) + 1 /\ CountTo(x, w, s[1]) = (o - 1) + m
    BY <2>4, <2>5 DEF Nth
  <2>7. r[1] <= s[2]
    <3>1. r[1] \in Int /\ s[1] \in Int /\ s[2] \in Int /\ s[1] <= s[2]
      BY <2>6, RunIs
    <3>2. ~(s[1] < r[1])
      <4>1. ~((o - 1) + m < (o - 1) + 1)
        BY <1>1, <2>1
      <4> QED BY <2>6, <4>1, LaterRun
    <3> QED BY <3>1, <3>2
  <2>8. subword(x, o, n, w) = Result((s[2] - (r[1] - 1)) + 1,
                                     Piece(x, r[1] - 1, s[2] - (r[1] - 1)))
    BY <1>3, <2>3, <2>4, <2>5
  <2>9. Nth(x, w, o, r) /\ Nth(x, w, Smaller(count, o + n - 1), s)
    BY <2>1, <2>2, <2>4, <2>5
  <2> QED BY <1>5, <2>7, <2>8, <2>9 DEF count
<1> QED BY <1>4, <1>5
-----------------------------------------------------------------------------
LEMMA PieceIsSubSeq ==
    ASSUME NEW x \in Seq(Char), NEW a \in 1 .. Len(x), NEW b \in 1 .. Len(x), a <= b
    PROVE  Piece(x, a - 1, b - (a - 1)) = SubSeq(x, a, b)
<1> DEFINE n == b - (a - 1)
           p == Piece(x, a - 1, n)
           q == SubSeq(x, a, b)
<1>1. /\ Len(x) \in Nat /\ \A k \in 1 .. Len(x) : x[k] \in Char
      /\ a \in Int /\ b \in Int /\ 1 <= a /\ b <= Len(x)
  OBVIOUS
<1>2. a - 1 \in Nat /\ n \in Nat /\ (a - 1) + n <= Len(x)
  BY <1>1
<1>3. p \in Seq(Char) /\ Len(p) = n /\ \A k \in 1 .. n : p[k] = x[(a - 1) + k]
  <2> HIDE DEF n
  <2> QED BY <1>2, PieceIs
<1>4. /\ q \in Seq(Char)
      /\ Len(q) = IF a <= b THEN b - a + 1 ELSE 0
      /\ \A k \in 1 .. b - a + 1 : q[k] = x[a + k - 1]
  <2>1. \A k \in a .. b : x[k] \in Char
    BY <1>1
  <2> QED BY <1>1, <2>1, SubSeqProperties
<1>5. b - a + 1 = n /\ n \in Nat
  BY <1>1
<1> HIDE DEF n, p, q
<1>6. Len(q) = n
  BY <1>4, <1>5
<1>7. ASSUME NEW k \in 1 .. n  PROVE p[k] = q[k]
  <2>1. (a - 1) + k = a + k - 1 /\ k \in 1 .. b - a + 1
    BY <1>1, <1>5
  <2> QED BY <1>3, <1>4, <2>1
<1>8. p = q
  BY <1>3, <1>4, <1>6, <1>7, SameText
<1> QED BY <1>8 DEF p, q, n

\* A character of a text is no NUL: it is white space exactly if it separates.
LEMMA SeparatorsAreWhite ==
    ASSUME NEW ch \in Char, NEW white
    PROVE  Separates(ch, white) = is_white(ch, white)
<1>1. ch # NUL
  BY CharacterAssumption
<1>2. CASE white = Default
  BY <1>2 DEF Separates, is_white
<1>3. CASE white # Default
  BY <1>1, <1>3 DEF Separates, is_white
<1> QED BY <1>2, <1>3

\* The law of words() and subword(), str.cpp:878-892, :960-964, of any text and
\* any delimiters: words are the maximal runs of what is not a delimiter, and a
\* subword is from the beginning of its first run to the end of its last.
THEOREM WordsBeingRuns ==
    ASSUME text \in Seq(Char)
    PROVE  WordsAreRuns
<1> DEFINE runs(w)    == Runs(w)
           Word(w, k) == CHOOSE r \in runs(w) :
                            Cardinality({s \in runs(w) : s[1] <= r[1]}) = k
           count(w)   == Cardinality(runs(w))
<1>1. \A w : runs(w) = RunsOf(text, w)
  <2>1. \A i \in 1 .. Len(text) : \A w : Separates(text[i], w) = is_white(text[i], w)
    BY SeparatorsAreWhite
  <2>2. ASSUME NEW w, NEW q \in (1 .. Len(text)) \X (1 .. Len(text))
        PROVE  q \in runs(w) <=> IsRun(text, w, q)
    <3>1. q[1] \in 1 .. Len(text) /\ q[2] \in 1 .. Len(text) /\ Len(text) \in Nat
      BY <2>2
    <3>2. q[1] .. q[2] \subseteq 1 .. Len(text)
      BY <3>1
    <3>3. q[1] = 1 \/ q[1] - 1 \in 1 .. Len(text)
      BY <3>1
    <3>4. q[2] = Len(text) \/ q[2] + 1 \in 1 .. Len(text)
      BY <3>1
    <3> QED BY <2>1, <3>2, <3>3, <3>4 DEF Runs, IsRun
  <2> QED BY <2>2 DEF Runs, RunsOf
<1>2. ASSUME NEW w  PROVE count(w) = CountTo(text, w, Len(text))
  <2> DEFINE S == {s \in RunsOf(text, w) : s[1] <= Len(text)}
  <2>1. Len(text) \in Int
    OBVIOUS
  <2>2. \A s \in RunsOf(text, w) : s[1] <= Len(text)
    BY <2>1, RunIs
  <2>3. S = RunsOf(text, w)
    BY <2>2
  <2>4. Cardinality(S) = CountTo(text, w, Len(text))
    BY <2>1, RunsCounted
  <2> QED BY <1>1, <2>3, <2>4
<1>3. ASSUME NEW w, NEW k, NEW r, Nth(text, w, k, r)  PROVE Word(w, k) = r
  <2> DEFINE Number(q) == Cardinality({s \in RunsOf(text, w) : s[1] <= q[1]})
  <2>1. ASSUME NEW q \in RunsOf(text, w)  PROVE Number(q) = CountTo(text, w, q[1])
    <3>1. q[1] \in Int
      BY RunIs
    <3> QED BY <3>1, RunsCounted
  <2> DEFINE c == CHOOSE q \in RunsOf(text, w) : Number(q) = k
  <2>2. Word(w, k) = c
    BY <1>1
  <2> HIDE DEF Number, Word
  <2>3. r \in RunsOf(text, w) /\ Number(r) = k
    BY <1>3, <2>1 DEF Nth
  <2>4. c \in RunsOf(text, w) /\ Number(c) = k
    BY <2>3
  <2> HIDE DEF c
  <2>5. Nth(text, w, k, c)
    BY <2>1, <2>4 DEF Nth
  <2>6. c = r
    BY <1>3, <2>5, NthIsOne
  <2> QED BY <2>2, <2>6
<1> HIDE DEF Word, count
<1>4. ASSUME NEW w, NEW o \in Ints, NEW n \in Ints
      PROVE  subword(text, o, n, w).text =
               IF o \in 1 .. count(w) /\ n > 0
               THEN SubSeq(text, Word(w, o)[1], Word(w, Smaller(count(w), o + n - 1))[2])
               ELSE << >>
  <2>1. n \in Int
    BY CharacterAssumption DEF Ints
  <2>2. CASE o \in 1 .. count(w) /\ n > 0
    <3>1. PICK r, s : /\ Nth(text, w, o, r) /\ Nth(text, w, Smaller(count(w), o + n - 1), s)
                      /\ r[1] <= s[2]
                      /\ subword(text, o, n, w)
                           = Result((s[2] - (r[1] - 1)) + 1,
                                    Piece(text, r[1] - 1, s[2] - (r[1] - 1)))
      BY <1>2, <2>1, <2>2, SubwordIs
    <3>2. Word(w, o) = r /\ Word(w, Smaller(count(w), o + n - 1)) = s
      BY <1>3, <3>1
    <3>3. r[1] \in 1 .. Len(text) /\ s[2] \in 1 .. Len(text)
      BY <3>1, RunIs DEF Nth
    <3>4. subword(text, o, n, w).text = SubSeq(text, r[1], s[2])
      <4>1. subword(text, o, n, w).text = Piece(text, r[1] - 1, s[2] - (r[1] - 1))
        BY <3>1 DEF Result
      <4>2. r[1] <= s[2]
        BY <3>1
      <4>3. Piece(text, r[1] - 1, s[2] - (r[1] - 1)) = SubSeq(text, r[1], s[2])
        BY <3>3, <4>2, PieceIsSubSeq
      <4> QED BY <4>1, <4>3
    <3> QED BY <2>2, <3>2, <3>4
  <2>3. CASE ~(o \in 1 .. count(w) /\ n > 0)
    <3>1. subword(text, o, n, w) = Empty
      BY <1>2, <2>1, <2>3, SubwordIs
    <3> QED BY <2>3, <3>1 DEF Empty, Result
  <2> QED BY <2>2, <2>3
<1>5. \A w : words(text, w) = count(w)
  BY <1>2, WordsAreCounted
<1> QED BY <1>4, <1>5 DEF WordsAreRuns, Word, count
-----------------------------------------------------------------------------
(***************************************************************************)
(* What the functions read and write.                                      *)
(***************************************************************************)
\* A new string has characters only, and room for them and the NUL.
Fits(new) == new.text \in Seq(Char) /\ new.alloc = Len(new.text) + 1

LEMMA NewFits ==
    ASSUME NEW t \in Seq(Char), NEW n, n = Len(t) + 1
    PROVE  Fits(Result(n, t))
BY DEF Fits, Result

LEMMA EmptyFits == Fits(Empty)
<1>1. << >> \in Seq(Char) /\ 1 = Len(<< >>) + 1
  OBVIOUS
<1> QED BY <1>1, NewFits DEF Empty

LEMMA SameFits ==
    ASSUME NEW x \in Seq(Char)
    PROVE  Fits(Same(x))
BY NewFits DEF Same

LEMMA RightFits ==
    ASSUME NEW x \in Seq(Char), NEW n \in Int, NEW pad \in Char
    PROVE  Fits(right(x, n, pad))
<1>1. CASE n <= 0
  BY <1>1, EmptyFits DEF right
<1>2. CASE ~(n <= 0)
  <2>1. n \in Nat /\ n <= n /\ ~(n < 0)
    BY <1>2
  <2>2. Len(right(x, n, pad).text) = n
    BY <2>1, RightIs
  <2>3. right(x, n, pad).alloc = n + 1
    BY <1>2 DEF right, Result
  <2> QED BY <2>2, <2>3, RightIsText DEF Fits
<1> QED BY <1>1, <1>2

LEMMA LeftFits ==
    ASSUME NEW x \in Seq(Char), NEW n \in Int, NEW pad \in Char
    PROVE  Fits(left(x, n, pad))
<1>1. Len(x) \in Nat
  OBVIOUS
<1>2. CASE n <= 0
  BY <1>2, EmptyFits DEF left
<1>3. CASE ~(n <= 0) /\ n < Len(x)
  <2>1. n \in Nat /\ 0 \in Nat /\ 0 + n <= Len(x)
    BY <1>1, <1>3
  <2>2. Piece(x, 0, n) \in Seq(Char) /\ Len(Piece(x, 0, n)) = n
    BY <2>1, PieceIs
  <2>3. left(x, n, pad) = Result(n + 1, Piece(x, 0, n))
    BY <1>3 DEF left
  <2> QED BY <2>2, <2>3, NewFits
<1>4. CASE ~(n <= 0) /\ ~(n < Len(x))
  <2> DEFINE t == x \o Fill(pad, n - Len(x))
  <2>1. n - Len(x) \in Nat /\ Len(x) + (n - Len(x)) = n
    BY <1>1, <1>4
  <2>2. t \in Seq(Char) /\ Len(t) = n
    BY <2>1, PaddedBehind
  <2>3. left(x, n, pad) = Result(n + 1, t)
    BY <1>4 DEF left
  <2> HIDE DEF t
  <2> QED BY <2>2, <2>3, NewFits
<1> QED BY <1>2, <1>3, <1>4

LEMMA CenterFits ==
    ASSUME NEW x \in Seq(Char), NEW n \in Int, NEW pad \in Char
    PROVE  Fits(center(x, n, pad))
<1> DEFINE half == right(x, Len(x) + (n - Len(x)) \div 2, pad).text
           from == IF n > Len(x) THEN half ELSE x
           l == left(from, n, pad)
<1>1. Len(x) \in Nat /\ (n - Len(x)) \div 2 \in Int
  <2>1. Len(x) \in Nat
    OBVIOUS
  <2> QED BY <2>1
<1>2. center(x, n, pad).text = l.text
  BY CenterIs
<1>3. from \in Seq(Char)
  <2>1. Len(x) + (n - Len(x)) \div 2 \in Int
    BY <1>1
  <2> QED BY <2>1, RightIsText
<1> HIDE DEF from
<1>4. Fits(l)
  BY <1>3, LeftFits
<1>5. CASE n <= 0
  BY <1>5, EmptyFits DEF center
<1>6. CASE ~(n <= 0) /\ n <= Len(x)
  <2>1. center(x, n, pad) = left(x, n, pad)
    BY <1>6 DEF center
  <2> QED BY <2>1, LeftFits
<1>7. CASE ~(n <= 0) /\ ~(n <= Len(x))
  <2>1. center(x, n, pad).alloc = n + 1
    BY <1>7 DEF center, Result
  <2>2. l.alloc = n + 1
    BY <1>7 DEF left, Result
  <2> HIDE DEF l
  <2> QED BY <1>2, <1>4, <2>1, <2>2 DEF Fits
<1> QED BY <1>5, <1>6, <1>7

LEMMA CopyFits ==
    ASSUME NEW x \in Seq(Char), NEW n \in Int
    PROVE  Fits(copy(x, n))
<1>1. CASE n < 0
  BY <1>1, EmptyFits DEF copy
<1>2. CASE ~(n < 0)
  <2>1. n \in Nat
    BY <1>2
  <2> QED BY <2>1, CopyGrows DEF Fits
<1> QED BY <1>1, <1>2

LEMMA EraseFits ==
    ASSUME NEW x \in Seq(Char), NEW o \in Ints, NEW n \in Int
    PROVE  Fits(erase(x, o, n))
<1>1. o \in Int /\ Len(x) \in Nat
  BY OffsetFits
<1>2. CASE o - 1 < 0 \/ n <= 0 \/ o - 1 >= Len(x)
  BY <1>2, EraseIs, SameFits
<1>3. CASE ~(o - 1 < 0 \/ n <= 0 \/ o - 1 >= Len(x))
  <2> DEFINE m == Smaller(n, Len(x) - (o - 1))
             c == Cut(x, o - 1, m)
  <2>1. erase(x, o, n) = Result(Len(x) - m + 1, c)
    BY <1>3, EraseIs
  <2>2. m \in Nat /\ o - 1 \in Nat /\ (o - 1) + m <= Len(x)
    BY <1>1, <1>3 DEF Smaller
  <2> HIDE DEF m
  <2>3. c \in Seq(Char) /\ Len(c) = Len(x) - m
    BY <2>2, CutIs
  <2> HIDE DEF c
  <2> QED BY <2>1, <2>3, NewFits
<1> QED BY <1>2, <1>3

LEMMA InsertFits ==
    ASSUME NEW x \in Seq(Char), NEW y \in Seq(Char), NEW o \in Ints, NEW n \in Int
    PROVE  Fits(insert(x, y, o, n))
<1>1. o \in Int /\ Len(x) \in Nat /\ Len(y) \in Nat
  BY OffsetFits
<1>2. CASE o - 1 < 0 \/ n <= 0 \/ o - 1 > Len(x)
  BY <1>2, InsertIs, SameFits
<1>3. CASE ~(o - 1 < 0 \/ n <= 0 \/ o - 1 > Len(x))
  <2> DEFINE m == Smaller(n, Len(y))
             p == Piece(y, 0, m)
             z == Splice(x, o - 1, p)
  <2>1. insert(x, y, o, n) = Result(Len(x) + m + 1, z)
    BY <1>3, InsertIs
  <2>2. m \in Nat /\ 0 \in Nat /\ 0 + m <= Len(y) /\ o - 1 \in 0 .. Len(x)
    BY <1>1, <1>3 DEF Smaller
  <2> HIDE DEF m
  <2>3. p \in Seq(Char) /\ Len(p) = m
    BY <2>2, PieceIs
  <2> HIDE DEF p
  <2>4. z \in Seq(Char) /\ Len(z) = Len(x) + m
    BY <2>2, <2>3, SpliceIs
  <2> HIDE DEF z
  <2> QED BY <2>1, <2>4, NewFits
<1> QED BY <1>2, <1>3

LEMMA SubstrFits ==
    ASSUME NEW x \in Seq(Char), NEW o \in Ints, NEW n \in Int
    PROVE  Fits(substr(x, o, n))
<1>1. o \in Int /\ Len(x) \in Nat
  BY OffsetFits
<1>2. CASE o - 1 < 0 \/ n < 0 \/ o - 1 >= Len(x)
  BY <1>2, SubstrIs, EmptyFits
<1>3. CASE ~(o - 1 < 0 \/ n < 0 \/ o - 1 >= Len(x))
  <2> DEFINE m == Smaller(n, Len(x) - (o - 1))
             p == Piece(x, o - 1, m)
  <2>1. substr(x, o, n) = Result(m + 1, p)
    BY <1>3, SubstrIs
  <2>2. m \in Nat /\ o - 1 \in Nat /\ (o - 1) + m <= Len(x)
    BY <1>1, <1>3 DEF Smaller
  <2> HIDE DEF m
  <2>3. p \in Seq(Char) /\ Len(p) = m
    BY <2>2, PieceIs
  <2> HIDE DEF p
  <2> QED BY <2>1, <2>3, NewFits
<1> QED BY <1>2, <1>3

LEMMA StripFits ==
    ASSUME NEW x \in Seq(Char), NEW mode, NEW ch \in Char
    PROVE  Fits(strip(x, mode, ch))
<1> DEFINE start == IF mode \in {"L", "B"} THEN StripStart(x, ch) ELSE 0
           end   == IF mode \in {"T", "B"} THEN StripEnd(x, ch) ELSE Len(x) - 1
           n     == end - start + 1
           p     == Piece(x, start, n)
<1>1. Len(x) \in Nat
  OBVIOUS
<1>2. start \in 0 .. Len(x) /\ end \in -1 .. Len(x) - 1
  <2>1. StripStart(x, ch) \in 0 .. Len(x) /\ StripEnd(x, ch) \in -1 .. Len(x) - 1
    BY StripStartIs, StripEndIs DEF FrontEnds, BackBegins
  <2>2. 0 \in 0 .. Len(x) /\ Len(x) - 1 \in -1 .. Len(x) - 1
    BY <1>1
  <2> QED BY <2>1, <2>2
<1>3. strip(x, mode, ch) = IF x = << >> \/ start > end THEN Empty ELSE Result(n + 1, p)
  BY DEF strip
<1> HIDE DEF start, end
<1>4. CASE x = << >> \/ start > end
  BY <1>3, <1>4, EmptyFits
<1>5. CASE ~(x = << >> \/ start > end)
  <2>1. start \in Nat /\ n \in Nat /\ start + n <= Len(x)
    BY <1>1, <1>2, <1>5
  <2> HIDE DEF n
  <2>2. p \in Seq(Char) /\ Len(p) = n
    BY <2>1, PieceIs
  <2> HIDE DEF p
  <2> QED BY <1>3, <1>5, <2>2, NewFits
<1> QED BY <1>4, <1>5

LEMMA SubwordFits ==
    ASSUME NEW x \in Seq(Char), NEW w, NEW o \in Ints, NEW n \in Int
    PROVE  Fits(subword(x, o, n, w))
<1> DEFINE count == CountTo(x, w, Len(x))
<1>1. CASE o \in 1 .. count /\ n > 0
  <2>1. PICK r, s : /\ Nth(x, w, o, r) /\ Nth(x, w, Smaller(count, o + n - 1), s)
                    /\ r[1] <= s[2]
                    /\ subword(x, o, n, w)
                         = Result((s[2] - (r[1] - 1)) + 1,
                                  Piece(x, r[1] - 1, s[2] - (r[1] - 1)))
    BY <1>1, SubwordIs
  <2> DEFINE m == s[2] - (r[1] - 1)
             p == Piece(x, r[1] - 1, m)
  <2>2. r[1] \in 1 .. Len(x) /\ s[2] \in 1 .. Len(x)
    BY <2>1, RunIs DEF Nth
  <2>3. r[1] - 1 \in Nat /\ m \in Nat /\ (r[1] - 1) + m <= Len(x)
    <3>1. r[1] <= s[2] /\ Len(x) \in Nat
      BY <2>1
    <3> QED BY <2>2, <3>1
  <2>4. subword(x, o, n, w) = Result(m + 1, p)
    BY <2>1
  <2> HIDE DEF m
  <2>5. p \in Seq(Char) /\ Len(p) = m
    BY <2>3, PieceIs
  <2> HIDE DEF p
  <2> QED BY <2>4, <2>5, NewFits
<1>2. CASE ~(o \in 1 .. count /\ n > 0)
  BY <1>2, SubwordIs, EmptyFits
<1> QED BY <1>1, <1>2

\* The law of memory, str.cpp:47, :598-599, :929, of any text: whatever the
\* arguments, a function reads only characters of its text and of the one it is
\* given, and writes exactly what it has allocated.
THEOREM EveryBufferFits ==
    ASSUME text \in Seq(Char)
    PROVE  BuffersFit
<1>1. /\ \A n \in Ints : n \in Int
      /\ \A n \in Lengths : n \in Int
      /\ \A n \in -1 .. 3 : n \in Int
  BY CharacterAssumption DEF Ints, Lengths
<1>2. ASSUME NEW new \in NewTexts  PROVE Fits(new)
  <2>1. CASE \E n \in Lengths, pad \in Char : new = right(text, n, pad)
    BY <1>1, <2>1, RightFits
  <2>2. CASE \E n \in Lengths, pad \in Char : new = left(text, n, pad)
    BY <1>1, <2>2, LeftFits
  <2>3. CASE \E n \in Lengths, pad \in Char : new = center(text, n, pad)
    BY <1>1, <2>3, CenterFits
  <2>4. CASE \E n \in -1 .. 3 : new = copy(text, n)
    BY <1>1, <2>4, CopyFits
  <2>5. CASE \E o \in Ints, n \in Ints : new = erase(text, o, n)
    BY <1>1, <2>5, EraseFits
  <2>6. CASE \E incoming \in Needles, o \in Ints, n \in Ints :
                new = insert(text, incoming, o, n)
    BY <1>1, <2>6, NeedlesAreTexts, InsertFits
  <2>7. CASE \E o \in Ints, n \in Ints : new = substr(text, o, n)
    BY <1>1, <2>7, SubstrFits
  <2>8. CASE \E mode \in {"L", "T", "B"}, ch \in Char : new = strip(text, mode, ch)
    BY <2>8, StripFits
  <2>9. CASE \E o \in Ints, n \in Ints, white \in Delimiters :
                new = subword(text, o, n, white)
    BY <1>1, <2>9, SubwordFits
  <2> QED BY <2>1, <2>2, <2>3, <2>4, <2>5, <2>6, <2>7, <2>8, <2>9 DEF NewTexts
<1>3. ASSUME NEW new \in NewTexts
      PROVE  /\ new.alloc = Len(new.text) + 1
             /\ \A i \in DOMAIN new.text : new.text[i] \in Char
  <2>1. new.text \in Seq(Char) /\ new.alloc = Len(new.text) + 1
    BY <1>2 DEF Fits
  <2> DEFINE t == new.text
  <2>2. t \in Seq(Char)
    BY <2>1
  <2> HIDE DEF t
  <2>3. \A i \in DOMAIN t : t[i] \in Char
    BY <2>2
  <2> QED BY <2>1, <2>3 DEF t
<1> QED BY <1>3 DEF BuffersFit
-----------------------------------------------------------------------------
(***************************************************************************)
(* The text stays one whose length is an int.                              *)
(***************************************************************************)
TextInv == text \in Seq(Char) /\ Len(text) <= MaxText

\* The text is always one of characters, as long as it may get.
LEMMA TextInvariance == Spec => []TextInv
<1>1. Init => TextInv
  BY TextAssumption DEF Init, TextInv
<1>2. TextInv /\ [Next]_text => TextInv'
  <2> SUFFICES ASSUME TextInv, [Next]_text  PROVE TextInv'
    OBVIOUS
  <2>1. MaxText \in Nat /\ Len(text) \in Nat
    BY TextAssumption DEF TextInv
  <2>2. ASSUME Len(text) < MaxText, NEW ch \in Char, append(ch)  PROVE TextInv'
    <3>1. text' \in Seq(Char) /\ Len(text') = Len(text) + 1
      BY <2>2 DEF TextInv, append
    <3> QED BY <2>1, <2>2, <3>1 DEF TextInv
  <2>3. CASE clear
    BY <2>1, <2>3 DEF TextInv, clear
  <2>4. CASE UNCHANGED text
    BY <2>4 DEF TextInv
  <2> QED BY <2>2, <2>3, <2>4 DEF Next
<1> QED BY <1>1, <1>2, PTL DEF Spec

\* Whatever text has been appended, str.cpp:401-404, :445-448, :490-494 pad and
\* cut it exactly.
THEOREM PaddingStaysExact == Spec => []PaddingExact
<1>1. TextInv => PaddingExact
  BY PaddingIsExact DEF TextInv
<1> QED BY <1>1, TextInvariance, PTL

\* Whatever text has been appended, str.cpp:770-777 strip it completely.
THEOREM StripStaysComplete == Spec => []StripIsComplete
<1>1. TextInv => StripIsComplete
  BY StrippingIsComplete DEF TextInv
<1> QED BY <1>1, TextInvariance, PTL

\* Whatever text has been appended, str.cpp:668-675, :702-708, :733-741 agree on
\* what there is to find in it.
THEOREM SearchesStayAgreed == Spec => []SearchesAgree
<1>1. TextInv => SearchesAgree
  <2> SUFFICES ASSUME TextInv  PROVE SearchesAgree
    OBVIOUS
  <2>1. Len(text) < IntMax
    BY TextAssumption, CharacterAssumption DEF TextInv
  <2> QED BY <2>1, SearchingAgrees DEF TextInv
<1> QED BY <1>1, TextInvariance, PTL

\* Whatever text has been appended, str.cpp:54-60, :571-573, :616-630 undo each
\* other.
THEOREM EraseStillUndoesInsert == Spec => []EraseUndoesInsert
<1>1. TextInv => EraseUndoesInsert
  <2> SUFFICES ASSUME TextInv  PROVE EraseUndoesInsert
    OBVIOUS
  <2>1. Len(text) < IntMax
    BY TextAssumption, CharacterAssumption DEF TextInv
  <2> QED BY <2>1, ErasingUndoesInserting DEF TextInv
<1> QED BY <1>1, TextInvariance, PTL

\* Whatever text has been appended, str.cpp:878-892, :960-964 take its maximal
\* runs of what is not a delimiter for its words.
THEOREM WordsStayRuns == Spec => []WordsAreRuns
<1>1. TextInv => WordsAreRuns
  BY WordsBeingRuns DEF TextInv
<1> QED BY <1>1, TextInvariance, PTL

\* Whatever text has been appended, str.cpp:47, :598-599, :929 stay inside the
\* text and inside what they allocate.
THEOREM BuffersAlwaysFit == Spec => []BuffersFit
<1>1. TextInv => BuffersFit
  BY EveryBufferFits DEF TextInv
<1> QED BY <1>1, TextInvariance, PTL
=============================================================================
