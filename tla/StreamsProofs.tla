---------------------------- MODULE StreamsProofs ----------------------------
(***************************************************************************)
(* What holds of an answer on its way, for every script, every cut and      *)
(* every failure of its stream.                                            *)
(*                                                                         *)
(*   StoredCorrect  no part of a text is stored                            *)
(*   TypeCorrect    every variable keeps its type                          *)
(*   PageCorrect    a whole answer is stored and shown                     *)
(*   TextCorrect    the scanner reads the texts that were written          *)
(*                                                                         *)
(* The JSON is a flattened sequence of pieces, so the proofs take it apart *)
(* piece by piece: the lemmas on sequences and on the JSON come first.     *)
(***************************************************************************)
EXTENDS Streams, SequenceTheorems, FiniteSetTheorems, WellFoundedInduction, TLAPS

(* Sequences of sequences, flattened.  The step from n to n + 1 is taken    *)
(* by the least element of a set of naturals.                              *)

LEMMA SetInduction ==
  ASSUME NEW S, 0 \in S, \A n \in Nat : n \in S => n + 1 \in S
  PROVE  Nat \subseteq S
<1> SUFFICES ASSUME ~(Nat \subseteq S) PROVE FALSE
  OBVIOUS
<1> DEFINE T == Nat \ S
           R == OpToRel(<, Nat)
<1>1. IsWellFoundedOn(R, Nat)
  BY NatLessThanWellFounded
<1>2. \A x, y \in Nat : x < y => <<x, y>> \in R
  BY DEF OpToRel
<1>3. T \subseteq Nat /\ T # {}
  OBVIOUS
<1> HIDE DEF T, R
<1>4. PICK x \in T : \A y \in T : <<y, x>> \notin R
  BY <1>1, <1>3, WFMin
<1> USE DEF T
<1>5. x \in Nat /\ x # 0
  BY <1>4
<1>6. x - 1 \in Nat /\ x - 1 \notin S
  BY <1>4, <1>5
<1>7. x - 1 \in T /\ x - 1 < x
  BY <1>5, <1>6
<1>8. <<x - 1, x>> \in R
  BY <1>2, <1>5, <1>6, <1>7
<1>9. <<x - 1, x>> \notin R
  BY <1>4, <1>7
<1> QED
  BY <1>8, <1>9

(* The prefixes of a flattened sequence, up to the one of its first n parts. *)
Flattens(f, seqs, n) ==
  \A i \in 1..n : f[i] = IF i = 1 THEN seqs[i] ELSE f[i - 1] \o seqs[i]

LEMMA FlattensUnique ==
  ASSUME NEW seqs, NEW n \in Nat, NEW f, NEW g, Flattens(f, seqs, n), Flattens(g, seqs, n)
  PROVE  \A i \in 1..n : f[i] = g[i]
<1> DEFINE A == {m \in Nat : m \in 1..n => f[m] = g[m]}
<1>1. 0 \in A
  OBVIOUS
<1>2. ASSUME NEW m \in Nat, m \in A
      PROVE  m + 1 \in A
  BY <1>2 DEF Flattens
<1> HIDE DEF A
<1>3. Nat \subseteq A
  BY <1>1, <1>2, SetInduction
<1> QED
  BY <1>3 DEF A

LEMMA FlattensExists ==
  ASSUME NEW S, NEW seqs \in Seq(Seq(S))
  PROVE  \E f \in [1..Len(seqs) -> Seq(S)] : Flattens(f, seqs, Len(seqs))
<1> DEFINE P(n) == \E f \in [1..n -> Seq(S)] : Flattens(f, seqs, n)
           A == {n \in Nat : n <= Len(seqs) => P(n)}
<1>1. P(0)
  <2> DEFINE f == [i \in 1..0 |-> <<>>]
  <2>1. f \in [1..0 -> Seq(S)]
    OBVIOUS
  <2>2. Flattens(f, seqs, 0)
    BY DEF Flattens
  <2> QED
    BY <2>1, <2>2
<1>2. ASSUME NEW n \in Nat, P(n), n + 1 <= Len(seqs)
      PROVE  P(n + 1)
  <2>1. PICK g \in [1..n -> Seq(S)] : Flattens(g, seqs, n)
    BY <1>2
  <2> DEFINE e == IF n = 0 THEN seqs[1] ELSE g[n] \o seqs[n + 1]
             f == [i \in 1..(n + 1) |-> IF i <= n THEN g[i] ELSE e]
  <2>2. seqs[n + 1] \in Seq(S)
    BY <1>2
  <2>3. e \in Seq(S)
    BY <1>2, <2>1, <2>2
  <2> HIDE DEF e
  <2>4. /\ f[n + 1] = e
        /\ \A i \in 1..n : f[i] = g[i]
    OBVIOUS
  <2>5. f \in [1..(n + 1) -> Seq(S)]
    BY <1>2, <2>1, <2>3
  <2> HIDE DEF f
  <2> USE DEF e
  <2>6. ASSUME NEW i \in 1..(n + 1)
        PROVE  f[i] = IF i = 1 THEN seqs[i] ELSE f[i - 1] \o seqs[i]
    <3>1. CASE i = n + 1
      BY <1>2, <2>4, <3>1
    <3>2. CASE i # n + 1
      <4>1. i \in 1..n /\ (i # 1 => i - 1 \in 1..n)
        BY <1>2, <2>6, <3>2
      <4> QED
        BY <2>1, <2>4, <4>1 DEF Flattens
    <3> QED
      BY <3>1, <3>2
  <2>7. Flattens(f, seqs, n + 1)
    BY <2>6 DEF Flattens
  <2> QED
    BY <2>5, <2>7
<1> HIDE DEF P
<1>3. 0 \in A
  BY <1>1
<1>4. ASSUME NEW n \in Nat, n \in A
      PROVE  n + 1 \in A
  BY <1>2, <1>4
<1>5. Len(seqs) \in Nat
  OBVIOUS
<1> HIDE DEF A
<1>6. Len(seqs) \in A
  BY <1>3, <1>4, <1>5, SetInduction
<1>7. P(Len(seqs))
  BY <1>6 DEF A
<1> QED
  BY <1>7 DEF P

LEMMA FlattenIs ==
  ASSUME NEW S, NEW seqs \in Seq(Seq(S)), seqs # <<>>, NEW f, Flattens(f, seqs, Len(seqs))
  PROVE  FlattenSeq(seqs) = f[Len(seqs)]
<1> DEFINE FirstParts(g) == [i \in 1..Len(seqs) |-> IF i = 1 THEN seqs[i] ELSE g[i - 1] \o seqs[i]]
           g == CHOOSE g : g = FirstParts(g)
           h == [i \in 1..Len(seqs) |-> f[i]]
<1>1. Len(seqs) \in Nat \ {0} /\ DOMAIN seqs = 1..Len(seqs)
  OBVIOUS
<1>2. FlattenSeq(seqs) = g[Len(seqs)]
  BY <1>1 DEF FlattenSeq
<1>3. h = FirstParts(h)
  BY <1>1 DEF Flattens
<1>4. g = FirstParts(g)
  BY <1>3
<1>5. Flattens(g, seqs, Len(seqs))
  BY <1>1, <1>4 DEF Flattens
<1> HIDE DEF g
<1> QED
  BY <1>1, <1>2, <1>5, FlattensUnique

LEMMA FlattenEmpty == FlattenSeq(<<>>) = <<>>
BY DEF FlattenSeq

LEMMA FlattenType ==
  ASSUME NEW S, NEW seqs \in Seq(Seq(S))
  PROVE  FlattenSeq(seqs) \in Seq(S)
<1>1. CASE seqs = <<>>
  <2>1. <<>> \in Seq(S)
    OBVIOUS
  <2> QED
    BY <1>1, <2>1, FlattenEmpty
<1>2. CASE seqs # <<>>
  <2>1. PICK f \in [1..Len(seqs) -> Seq(S)] : Flattens(f, seqs, Len(seqs))
    BY FlattensExists
  <2>2. Len(seqs) \in 1..Len(seqs)
    BY <1>2
  <2>3. FlattenSeq(seqs) = f[Len(seqs)]
    BY <1>2, <2>1, FlattenIs, Zenon
  <2> QED
    BY <2>1, <2>2, <2>3, Zenon
<1> QED
  BY <1>1, <1>2

LEMMA FlattenAppend ==
  ASSUME NEW S, NEW seqs \in Seq(Seq(S)), NEW e \in Seq(S)
  PROVE  FlattenSeq(Append(seqs, e)) = FlattenSeq(seqs) \o e
<1> DEFINE more == Append(seqs, e)
           n == Len(seqs)
<1>1. more \in Seq(Seq(S)) /\ more # <<>> /\ n \in Nat
  BY AppendProperties
<1>2. /\ Len(more) = n + 1 /\ more[n + 1] = e
      /\ \A i \in 1..n : more[i] = seqs[i]
  OBVIOUS
<1> HIDE DEF more
<1>3. PICK f \in [1..Len(more) -> Seq(S)] : Flattens(f, more, Len(more))
  BY <1>1, FlattensExists
<1>4. FlattenSeq(more) = f[n + 1]
  BY <1>1, <1>2, <1>3, FlattenIs
<1> HIDE DEF n
<1>5. \A i \in 1..(n + 1) : f[i] = IF i = 1 THEN more[i] ELSE f[i - 1] \o more[i]
  BY <1>2, <1>3 DEF Flattens
<1>8. ASSUME NEW i \in 1..n
      PROVE  f[i] = IF i = 1 THEN seqs[i] ELSE f[i - 1] \o seqs[i]
  <2>1. i \in 1..(n + 1) /\ more[i] = seqs[i]
    BY <1>1, <1>2, <1>8
  <2> QED
    BY <1>5, <2>1
<1>9. Flattens(f, seqs, n)
  BY <1>8 DEF Flattens
<1>6. CASE n = 0
  <2>1. f[n + 1] = e
    BY <1>2, <1>5, <1>6
  <2>2. seqs = <<>>
    BY <1>6 DEF n
  <2>3. <<>> \o e = e
    OBVIOUS
  <2> QED
    BY <1>4, <2>1, <2>2, <2>3, FlattenEmpty DEF more
<1>7. CASE n # 0
  <2>1. f[n + 1] = f[n] \o e
    <3>1. n + 1 \in 1..(n + 1) /\ n + 1 # 1 /\ (n + 1) - 1 = n
      BY <1>1, <1>7
    <3> QED
      BY <1>2, <1>5, <3>1
  <2>2. FlattenSeq(seqs) = f[n]
    BY <1>9, <1>7, FlattenIs DEF n
  <2> QED
    BY <1>4, <2>1, <2>2 DEF more
<1> QED
  BY <1>6, <1>7

LEMMA FlattenConcat ==
  ASSUME NEW S, NEW s \in Seq(Seq(S)), NEW t \in Seq(Seq(S))
  PROVE  FlattenSeq(s \o t) = FlattenSeq(s) \o FlattenSeq(t)
<1> DEFINE Q(k) == FlattenSeq(s \o SubSeq(t, 1, k)) = FlattenSeq(s) \o FlattenSeq(SubSeq(t, 1, k))
           A == {k \in Nat : k <= Len(t) => Q(k)}
<1>1. Q(0)
  <2>1. SubSeq(t, 1, 0) = <<>> /\ s \o <<>> = s
    OBVIOUS
  <2>2. FlattenSeq(s) \o <<>> = FlattenSeq(s)
    BY FlattenType, ConcatEmptySeq
  <2> QED
    BY <2>1, <2>2, FlattenEmpty
<1>2. ASSUME NEW k \in Nat, Q(k), k + 1 <= Len(t)
      PROVE  Q(k + 1)
  <2> DEFINE u == SubSeq(t, 1, k)
             e == t[k + 1]
  <2>1. u \in Seq(Seq(S)) /\ e \in Seq(S)
    BY <1>2
  <2>2. SubSeq(t, 1, k + 1) = Append(u, e)
    BY <1>2
  <2> HIDE DEF u, e
  <2>3. s \o Append(u, e) = Append(s \o u, e) /\ s \o u \in Seq(Seq(S))
    BY <2>1
  <2>4. /\ FlattenSeq(Append(u, e)) = FlattenSeq(u) \o e
        /\ FlattenSeq(Append(s \o u, e)) = FlattenSeq(s \o u) \o e
    BY <2>1, <2>3, FlattenAppend
  <2>5. FlattenSeq(s \o u) = FlattenSeq(s) \o FlattenSeq(u)
    BY <1>2 DEF u
  <2>6. (FlattenSeq(s) \o FlattenSeq(u)) \o e = FlattenSeq(s) \o (FlattenSeq(u) \o e)
    <3> DEFINE x == FlattenSeq(s)
               y == FlattenSeq(u)
    <3>1. x \in Seq(S) /\ y \in Seq(S)
      BY <2>1, FlattenType
    <3> HIDE DEF x, y
    <3>2. (x \o y) \o e = x \o (y \o e)
      BY ONLY <2>1, <3>1, ConcatAssociative, SMTT(20)
    <3> QED
      BY <3>2 DEF x, y
  <2> QED
    BY <2>2, <2>3, <2>4, <2>5, <2>6
<1> HIDE DEF Q
<1>3. 0 \in A
  BY <1>1
<1>4. ASSUME NEW k \in Nat, k \in A
      PROVE  k + 1 \in A
  BY <1>2, <1>4
<1>5. Len(t) \in Nat /\ SubSeq(t, 1, Len(t)) = t
  OBVIOUS
<1> HIDE DEF A
<1>6. Len(t) \in A
  BY <1>3, <1>4, <1>5, SetInduction
<1>7. Q(Len(t))
  BY <1>6 DEF A
<1> QED
  BY <1>5, <1>7 DEF Q

LEMMA FlattenOne ==
  ASSUME NEW S, NEW e \in Seq(S)
  PROVE  FlattenSeq(<<e>>) = e
<1>1. <<>> \in Seq(Seq(S))
  OBVIOUS
<1>2. Append(<<>>, e) = <<e>> /\ <<>> \o e = e
  OBVIOUS
<1> QED
  BY <1>1, <1>2, FlattenEmpty, FlattenAppend

(* What is left of a flattened sequence after its first n parts. *)
After(seqs, n) == FlattenSeq(SubSeq(seqs, n + 1, Len(seqs)))

LEMMA AfterAll ==
  ASSUME NEW S, NEW seqs \in Seq(Seq(S))
  PROVE  /\ After(seqs, 0) = FlattenSeq(seqs)
         /\ After(seqs, Len(seqs)) = <<>>
         /\ \A n \in 0..Len(seqs) : After(seqs, n) \in Seq(S)
<1>1. SubSeq(seqs, 0 + 1, Len(seqs)) = seqs
  OBVIOUS
<1>2. SubSeq(seqs, Len(seqs) + 1, Len(seqs)) = <<>>
  OBVIOUS
<1>3. ASSUME NEW n \in 0..Len(seqs)
      PROVE  SubSeq(seqs, n + 1, Len(seqs)) \in Seq(Seq(S))
  OBVIOUS
<1> QED
  BY <1>1, <1>2, <1>3, FlattenEmpty, FlattenType DEF After

LEMMA AfterStep ==
  ASSUME NEW S, NEW seqs \in Seq(Seq(S)), NEW n \in 0..(Len(seqs) - 1)
  PROVE  After(seqs, n) = seqs[n + 1] \o After(seqs, n + 1)
<1> DEFINE e == seqs[n + 1]
           t == SubSeq(seqs, n + 2, Len(seqs))
<1>1. e \in Seq(S) /\ t \in Seq(Seq(S)) /\ <<e>> \in Seq(Seq(S))
  OBVIOUS
<1>2. SubSeq(seqs, n + 1, Len(seqs)) = <<e>> \o t
  OBVIOUS
<1>3. (n + 1) + 1 = n + 2
  OBVIOUS
<1> HIDE DEF e, t
<1>4. FlattenSeq(<<e>> \o t) = FlattenSeq(<<e>>) \o FlattenSeq(t)
  BY <1>1, FlattenConcat
<1>5. FlattenSeq(<<e>>) = e
  BY <1>1, FlattenOne
<1> QED
  BY <1>2, <1>3, <1>4, <1>5 DEF After, e, t

LEMMA AfterSplit ==
  ASSUME NEW S, NEW seqs \in Seq(Seq(S)), NEW n \in 0..Len(seqs)
  PROVE  FlattenSeq(seqs) = FlattenSeq(SubSeq(seqs, 1, n)) \o After(seqs, n)
<1> DEFINE s == SubSeq(seqs, 1, n)
           t == SubSeq(seqs, n + 1, Len(seqs))
<1>1. s \in Seq(Seq(S)) /\ t \in Seq(Seq(S))
  OBVIOUS
<1>2. SubSeq(seqs, 1, n) \o SubSeq(seqs, n + 1, Len(seqs)) = SubSeq(seqs, 1, Len(seqs))
  <2>1. /\ 1 \in 1..(Len(seqs) + 1) /\ n \in (1 - 1)..Len(seqs) /\ Len(seqs) \in n..Len(seqs)
        /\ seqs \in Seq(Seq(S))
    OBVIOUS
  <2> QED
    BY ONLY <2>1, ConcatAdjacentSubSeq
<1>3. SubSeq(seqs, 1, Len(seqs)) = seqs
  OBVIOUS
<1>4. seqs = s \o t
  BY <1>2, <1>3
<1> HIDE DEF s, t
<1> QED
  BY <1>1, <1>4, FlattenConcat DEF After, s, t

-----------------------------------------------------------------------------
(* The JSON of an input, part by part. *)
Letters(t) == [i \in DOMAIN t |-> Escaped(t[i])]
Commaed(parts) == [i \in DOMAIN parts |-> IF i = 1 THEN parts[i] ELSE <<",">> \o parts[i]]
PairTexts(pairs) == [i \in DOMAIN pairs |-> Quoted(pairs[i][1]) \o <<":">> \o Json(pairs[i][2])]
Body(pairs) == Commaed(PairTexts(pairs))
FlatPairs == Seq(Seq(Chars) \X (Value \cup List))

One(c) == <<c>>

LEMMA MarkChars ==
  /\ Quote \in Chars /\ Back \in Chars /\ "{" \in Chars /\ "}" \in Chars /\ "[" \in Chars
  /\ "]" \in Chars /\ ":" \in Chars /\ "," \in Chars /\ "n" \in Chars /\ "u" \in Chars /\ "e" \in Chars
BY StreamsAssumption DEF StreamsAssumption, Marks

LEMMA OneType ==
  ASSUME NEW S, NEW c \in S
  PROVE  <<c>> \in Seq(S) /\ <<c>> # <<>> /\ Len(<<c>>) = 1
OBVIOUS

LEMMA AppendIs ==
  ASSUME NEW S, NEW s \in Seq(S), NEW c \in S
  PROVE  Append(s, c) = s \o <<c>> /\ Append(s, c) \in Seq(S)
OBVIOUS

LEMMA TwoType ==
  ASSUME NEW S, NEW c \in S, NEW d \in S
  PROVE  <<c, d>> \in Seq(S) /\ <<c, d>> = <<c>> \o <<d>>
<1>1. <<c, d>> = Append(<<c>>, d)
  OBVIOUS
<1> QED
  BY <1>1, OneType, AppendIs

LEMMA ThreeType ==
  ASSUME NEW S, NEW c \in S, NEW d \in S, NEW e \in S
  PROVE  <<c, d, e>> \in Seq(S)
OBVIOUS

LEMMA ConcatType ==
  ASSUME NEW S, NEW s \in Seq(S), NEW t \in Seq(S)
  PROVE  s \o t \in Seq(S)
OBVIOUS

LEMMA ConcatThree ==
  ASSUME NEW S, NEW s \in Seq(S), NEW t \in Seq(S), NEW u \in Seq(S)
  PROVE  s \o t \o u \in Seq(S) /\ s \o t \o u = s \o (t \o u)
BY ConcatAssociative, ConcatType

LEMMA ConcatAt ==
  ASSUME NEW S, NEW s \in Seq(S), NEW t \in Seq(S), NEW i \in DOMAIN (s \o t)
  PROVE  \/ i \in DOMAIN s /\ (s \o t)[i] = s[i]
         \/ \E j \in DOMAIN t : (s \o t)[i] = t[j]
<1>1. CASE i <= Len(s)
  BY <1>1
<1>2. CASE i > Len(s)
  <2>1. i - Len(s) \in DOMAIN t /\ (s \o t)[i] = t[i - Len(s)]
    BY <1>2
  <2> QED
    BY <2>1
<1> QED
  BY <1>1, <1>2

LEMMA FunctionType ==
  ASSUME NEW S, NEW n \in Nat, NEW f \in [1..n -> S]
  PROVE  f \in Seq(S) /\ Len(f) = n
OBVIOUS

LEMMA MarkSeqs ==
  /\ One(Quote) \in Seq(Chars) /\ One(Back) \in Seq(Chars) /\ One("{") \in Seq(Chars) /\ One("}") \in Seq(Chars)
  /\ One("[") \in Seq(Chars) /\ One("]") \in Seq(Chars) /\ One(":") \in Seq(Chars) /\ One(",") \in Seq(Chars)
BY MarkChars, OneType DEF One

LEMMA EscapedType ==
  ASSUME NEW c \in Chars
  PROVE  Escaped(c) \in Seq(Chars)
<1>1. c \in {Quote, Back} => Escaped(c) = <<Back, c>>
  BY DEF Escaped, Quote, Back
<1>2. c = "\n" => Escaped(c) = <<Back, "n">>
  BY DEF Escaped, Quote, Back
<1>3. c = "e'" => Escaped(c) = <<Back, "u", "e">>
  BY DEF Escaped, Quote, Back
<1>4. c \notin {Quote, Back, "\n", "e'"} => Escaped(c) = <<c>>
  BY DEF Escaped
<1> QED
  <2>1. <<Back, c>> \in Seq(Chars) /\ <<c>> \in Seq(Chars)
    BY MarkChars, OneType, TwoType
  <2>2. <<Back, "n">> \in Seq(Chars)
    BY MarkChars, TwoType
  <2>3. <<Back, "u", "e">> \in Seq(Chars)
    BY MarkChars, ThreeType
  <2> QED
    BY <1>1, <1>2, <1>3, <1>4, <2>1, <2>2, <2>3

LEMMA LettersType ==
  ASSUME NEW t \in Seq(Chars)
  PROVE  Letters(t) \in Seq(Seq(Chars)) /\ Len(Letters(t)) = Len(t)
<1>1. \A i \in 1..Len(t) : Escaped(t[i]) \in Seq(Chars)
  BY EscapedType
<1> QED
  BY <1>1, FunctionType DEF Letters

LEMMA QuotedIs ==
  ASSUME NEW t \in Seq(Chars)
  PROVE  /\ Quoted(t) = One(Quote) \o FlattenSeq(Letters(t)) \o One(Quote)
         /\ Quoted(t) \in Seq(Chars) /\ Quoted(t) # <<>>
<1>1. Quoted(t) = One(Quote) \o FlattenSeq(Letters(t)) \o One(Quote)
  BY DEF Quoted, Letters, One
<1>2. FlattenSeq(Letters(t)) \in Seq(Chars)
  BY LettersType, FlattenType
<1>3. One(Quote) \in Seq(Chars)
  BY MarkSeqs
<1> HIDE DEF Quoted
<1>4. Quoted(t) \in Seq(Chars)
  BY <1>1, <1>2, <1>3, ConcatThree
<1>5. Quoted(t) # <<>>
  <2>1. One(Quote) # <<>>
    BY DEF One
  <2> QED
    BY <1>1, <1>2, <1>3, <2>1, ConcatThree, ConcatType, ConcatEqualIffEmpty
<1> QED
  BY <1>1, <1>4, <1>5

LEMMA CommaedType ==
  ASSUME NEW parts \in Seq(Seq(Chars))
  PROVE  Commaed(parts) \in Seq(Seq(Chars)) /\ Len(Commaed(parts)) = Len(parts)
<1>1. ASSUME NEW i \in 1..Len(parts)
      PROVE  parts[i] \in Seq(Chars) /\ One(",") \o parts[i] \in Seq(Chars)
  <2>1. parts[i] \in Seq(Chars)
    OBVIOUS
  <2> QED
    BY <2>1, MarkSeqs, ConcatType
<1>2. Commaed(parts) = [i \in 1..Len(parts) |-> IF i = 1 THEN parts[i] ELSE One(",") \o parts[i]]
  BY DEF Commaed, One
<1>3. \A i \in 1..Len(parts) : (IF i = 1 THEN parts[i] ELSE One(",") \o parts[i]) \in Seq(Chars)
  BY <1>1
<1>4. Commaed(parts) \in [1..Len(parts) -> Seq(Chars)]
  BY <1>2, <1>3, Zenon
<1>5. Len(parts) \in Nat
  OBVIOUS
<1> QED
  BY <1>4, <1>5, FunctionType

LEMMA JoinedType ==
  ASSUME NEW parts \in Seq(Seq(Chars))
  PROVE  Joined(parts) = FlattenSeq(Commaed(parts)) /\ Joined(parts) \in Seq(Chars)
BY CommaedType, FlattenType DEF Joined, Commaed, One

LEMMA FlatType ==
  ASSUME NEW v \in Value \cup List
  PROVE  Flat(v) \in Seq(Chars) /\ Json(v) = Flat(v)
<1>1. v.kind \in {"text", "num", "list"}
  BY DEF Value, List
<1>5. Json(v) = Flat(v)
  BY <1>1 DEF Json
<1>2. CASE v.kind = "text"
  <2>1. v.of \in Seq(Chars)
    BY <1>2 DEF Value, List
  <2> QED
    BY <1>2, <1>5, <2>1, QuotedIs DEF Flat
<1>3. CASE v.kind = "num"
  BY <1>3, <1>5 DEF Value, List, Flat
<1>4. CASE v.kind = "list"
  <2>1. v.of \in Seq(Seq(Chars))
    BY <1>4 DEF Value, List
  <2> DEFINE parts == [i \in DOMAIN v.of |-> Quoted(v.of[i])]
  <2>2. \A i \in 1..Len(v.of) : Quoted(v.of[i]) \in Seq(Chars)
    BY <2>1, QuotedIs
  <2>3. parts \in Seq(Seq(Chars))
    <3>1. parts \in [1..Len(v.of) -> Seq(Chars)] /\ Len(v.of) \in Nat
      BY <2>1, <2>2
    <3> QED
      BY <3>1, FunctionType
  <2>4. Flat(v) = One("[") \o Joined(parts) \o One("]")
    BY <1>4 DEF Flat, One
  <2> HIDE DEF parts
  <2>6. Joined(parts) \in Seq(Chars)
    BY <2>3, JoinedType
  <2> QED
    <3>1. One("[") \o Joined(parts) \o One("]") \in Seq(Chars)
      BY <2>6, MarkSeqs, ConcatThree
    <3> QED
      BY <1>5, <2>4, <3>1
<1> QED
  BY <1>1, <1>2, <1>3, <1>4, <1>5

(* A pair's text, given the text of its value. *)
LEMMA PairType ==
  ASSUME NEW k \in Seq(Chars), NEW w \in Seq(Chars)
  PROVE  Quoted(k) \o One(":") \o w \in Seq(Chars) /\ Quoted(k) \o One(":") \o w # <<>>
<1>1. Quoted(k) \in Seq(Chars) /\ Quoted(k) # <<>> /\ One(":") \in Seq(Chars)
  BY QuotedIs, MarkSeqs
<1> QED
  BY <1>1, ConcatThree, ConcatType, ConcatEqualIffEmpty

LEMMA ObjectType ==
  ASSUME NEW pairs, NEW n \in Nat, DOMAIN pairs = 1..n,
         \A i \in 1..n : pairs[i][1] \in Seq(Chars) /\ Json(pairs[i][2]) \in Seq(Chars)
  PROVE  /\ PairTexts(pairs) \in Seq(Seq(Chars)) /\ Len(PairTexts(pairs)) = n
         /\ Body(pairs) \in Seq(Seq(Chars)) /\ Len(Body(pairs)) = n
         /\ Source(pairs) = One("{") \o FlattenSeq(Body(pairs)) \o One("}")
         /\ Source(pairs) \in Seq(Chars)
<1>1. \A i \in 1..n : Quoted(pairs[i][1]) \o One(":") \o Json(pairs[i][2]) \in Seq(Chars)
  BY PairType
<1>2. PairTexts(pairs) \in Seq(Seq(Chars)) /\ Len(PairTexts(pairs)) = n
  BY <1>1, FunctionType DEF PairTexts, One
<1>3. Body(pairs) \in Seq(Seq(Chars)) /\ Len(Body(pairs)) = n
  BY <1>2, CommaedType DEF Body
<1>4. Source(pairs) = One("{") \o Joined(PairTexts(pairs)) \o One("}")
  BY DEF Source, Object, PairTexts, One
<1>5. Joined(PairTexts(pairs)) = FlattenSeq(Body(pairs)) /\ Joined(PairTexts(pairs)) \in Seq(Chars)
  BY <1>2, JoinedType DEF Body
<1>7. Source(pairs) \in Seq(Chars)
  <2>1. One("{") \o Joined(PairTexts(pairs)) \o One("}") \in Seq(Chars)
    BY <1>5, MarkSeqs, ConcatThree
  <2> QED
    BY <1>4, <2>1
<1> QED
  BY <1>2, <1>3, <1>4, <1>5, <1>7

LEMMA DataJson ==
  ASSUME NEW pairs \in FlatPairs, NEW v, v.kind = "data", v.of = pairs
  PROVE  Json(v) = Source(pairs) /\ Json(v) \in Seq(Chars)
<1>1. \A i \in 1..Len(pairs) : pairs[i][1] \in Seq(Chars) /\ pairs[i][2] \in Value \cup List
  BY DEF FlatPairs
<1>2. \A i \in DOMAIN pairs : Flat(pairs[i][2]) = Json(pairs[i][2]) /\ Json(pairs[i][2]) \in Seq(Chars)
  BY <1>1, FlatType DEF FlatPairs
<1>3. Json(v) = Object(pairs, Flat)
  BY DEF Json
<1>4. [i \in DOMAIN pairs |-> Quoted(pairs[i][1]) \o One(":") \o Flat(pairs[i][2])]
        = [i \in DOMAIN pairs |-> Quoted(pairs[i][1]) \o One(":") \o Json(pairs[i][2])]
  BY <1>2
<1>5. Object(pairs, Flat) = Source(pairs)
  BY <1>4 DEF Object, Source, One
<1>6. Source(pairs) \in Seq(Chars)
  <2>1. Len(pairs) \in Nat /\ DOMAIN pairs = 1..Len(pairs)
    BY DEF FlatPairs
  <2> QED
    BY <1>1, <1>2, <2>1, ObjectType
<1> QED
  BY <1>3, <1>5, <1>6

LEMMA JsonType ==
  ASSUME NEW v \in Value \cup List \cup Data
  PROVE  Json(v) \in Seq(Chars)
<1>1. CASE v \in Value \cup List
  BY <1>1, FlatType
<1>2. CASE v \in Data
  BY <1>2, DataJson DEF Data, FlatPairs
<1> QED
  BY <1>1, <1>2

LEMMA SourceType ==
  ASSUME NEW doc \in Input
  PROVE  /\ PairTexts(doc) \in Seq(Seq(Chars)) /\ Len(PairTexts(doc)) = Len(doc)
         /\ Body(doc) \in Seq(Seq(Chars)) /\ Len(Body(doc)) = Len(doc)
         /\ Source(doc) = One("{") \o FlattenSeq(Body(doc)) \o One("}")
         /\ Source(doc) \in Seq(Chars)
<1>1. \A i \in 1..Len(doc) : doc[i][1] \in Seq(Chars) /\ doc[i][2] \in Value \cup List \cup Data
  BY DEF Input
<1>2. \A i \in 1..Len(doc) : Json(doc[i][2]) \in Seq(Chars)
  BY <1>1, JsonType
<1>3. Len(doc) \in Nat /\ DOMAIN doc = 1..Len(doc)
  BY DEF Input
<1> QED
  BY <1>1, <1>2, <1>3, ObjectType

-----------------------------------------------------------------------------
(* What is stored is whole. *)

(* A turn after which an agent has no further one. *)
(* How far the model has got in what it says: an LLM compute makes one call *)
(* in one turn.                                                            *)
ScriptInv ==
  /\ script \in Scripts /\ turn \in 1..MaxTurns
  /\ script.kind = "llm" => turn = 1 /\ block = 1 /\ runner # "calls"
  /\ script.kind = "agent" => runner # "write"
  /\ call \in Nat \ {0}

(* The texts of some pairs are texts the model has written to their end,    *)
(* and a field of the record is given a text or a number.                  *)
Whole(pairs) ==
  \A i \in DOMAIN pairs :
    pairs[i][2].kind = "text" => <<pairs[i][1], pairs[i][2].of>> \in AllTexts
Given(pairs) == \A i \in DOMAIN pairs : pairs[i][1] \in Fields => pairs[i][2] \in Value
Fit(pairs) == Whole(pairs) /\ Given(pairs)

(* That is so of the pairs of an input, and of those of the data in it.     *)
Proper(doc) ==
  /\ doc \in Input /\ Fit(doc)
  /\ \A i \in DOMAIN doc : doc[i][2].kind = "data" => Fit(doc[i][2].of)
ProperCall(c) ==
  /\ c \in Call /\ Proper(c.doc)
  /\ c.tool = "update" => \A i \in DOMAIN c.doc : c.doc[i][1] = <<"d">> => c.doc[i][2].kind = "data"

(* The calls of a message that has ended, whether it was cut off or not.    *)
SaidInv == said \in Seq(Call) /\ \A n \in DOMAIN said : ProperCall(said[n])

(* The output an LLM compute holds has no part of a text either. *)
ResultInv == script.kind = "llm" => Whole(result)

WholeInv == ScriptInv /\ SaidInv /\ ResultInv /\ StoredWhole

-----------------------------------------------------------------------------
(* What the calls of a script carry, and what a cut leaves of it. *)

LEMMA ScriptShape ==
  ASSUME NEW s \in Scripts
  PROVE  /\ s.kind \in {"llm", "agent"}
         /\ s.turns \in Seq(Seq(Call)) /\ 1 \in DOMAIN s.turns
         /\ s.kind = "llm" => Len(s.turns) = 1 /\ Len(s.turns[1]) = 1
BY StreamsAssumption DEF StreamsAssumption

LEMMA CallShape ==
  ASSUME NEW s \in Scripts, NEW n \in DOMAIN s.turns, NEW b \in DOMAIN s.turns[n]
  PROVE  /\ s.turns[n][b] \in Call /\ s.turns[n][b].doc \in Input
         /\ Texts(s.turns[n][b].doc) \subseteq AllTexts
         /\ \A pairs \in Nested(s.turns[n][b].doc) : Sound(pairs)
         /\ s.turns[n][b].tool = "update" =>
              \A p \in ToSet(s.turns[n][b].doc) : p[1] = <<"d">> => p[2] \in Data
<1>1. s.turns[n] \in Seq(Call) /\ s.turns[n][b] \in Call
  BY ScriptShape
<1>2. s.turns[n][b].doc \in Inputs(s)
  BY DEF Inputs
<1>3. \A pairs \in Nested(s.turns[n][b].doc) : Sound(pairs)
  BY StreamsAssumption DEF StreamsAssumption
<1>4. s.turns[n][b].tool = "update" =>
        \A p \in ToSet(s.turns[n][b].doc) : p[1] = <<"d">> => p[2] \in Data
  BY StreamsAssumption DEF StreamsAssumption
<1> QED
  BY <1>1, <1>2, <1>3, <1>4 DEF Call, AllTexts

(* The values of an input are records of a kind and a content. *)
LEMMA PairShape ==
  ASSUME NEW doc \in Input, NEW i \in DOMAIN doc
  PROVE  /\ doc[i] = <<doc[i][1], doc[i][2]>> /\ doc[i] \in ToSet(doc)
         /\ doc[i][1] \in Seq(Chars) /\ doc[i][2] \in Value \cup List \cup Data
         /\ doc[i][2].kind = "data" <=> doc[i][2] \in Data
<1>1. doc[i] \in Seq(Chars) \X (Value \cup List \cup Data)
  BY DEF Input
<1>2. doc[i][2] \in Value \cup List \cup Data
  BY <1>1
<1>3. doc[i][2].kind = "data" <=> doc[i][2] \in Data
  BY <1>2 DEF Value, List, Data
<1>4. doc[i] \in ToSet(doc)
  BY DEF ToSet
<1> QED
  BY <1>1, <1>2, <1>3, <1>4

(* Pairs whose texts are among an input's, and that are sound. *)
LEMMA FitPairs ==
  ASSUME NEW pairs, TextsOf(pairs) \subseteq AllTexts, Sound(pairs)
  PROVE  Fit(pairs)
<1>1. ASSUME NEW i \in DOMAIN pairs, pairs[i][2].kind = "text"
      PROVE  <<pairs[i][1], pairs[i][2].of>> \in TextsOf(pairs)
  BY <1>1 DEF TextsOf, ToSet
<1> QED
  BY <1>1 DEF Fit, Whole, Given, Sound

LEMMA CallProper ==
  ASSUME NEW s \in Scripts, NEW n \in DOMAIN s.turns, NEW b \in DOMAIN s.turns[n]
  PROVE  ProperCall(s.turns[n][b])
<1> DEFINE c == s.turns[n][b]
           doc == c.doc
<1>1. /\ c \in Call /\ doc \in Input /\ Texts(doc) \subseteq AllTexts
      /\ \A pairs \in Nested(doc) : Sound(pairs)
      /\ c.tool = "update" => \A p \in ToSet(doc) : p[1] = <<"d">> => p[2] \in Data
  BY CallShape
<1> HIDE DEF c
<1>2. \A pairs \in Nested(doc) : Fit(pairs)
  <2> SUFFICES ASSUME NEW pairs \in Nested(doc)
               PROVE  Fit(pairs)
    OBVIOUS
  <2>1. TextsOf(pairs) \subseteq AllTexts
    BY <1>1 DEF Texts
  <2> QED
    BY <1>1, <2>1, FitPairs
<1>3. Fit(doc)
  BY <1>2 DEF Nested
<1>4. ASSUME NEW i \in DOMAIN doc
      PROVE  /\ doc[i][2].kind = "data" => Fit(doc[i][2].of)
             /\ c.tool = "update" /\ doc[i][1] = <<"d">> => doc[i][2].kind = "data"
  <2>1. doc[i] \in ToSet(doc) /\ (doc[i][2].kind = "data" <=> doc[i][2] \in Data)
    BY <1>1, PairShape
  <2>2. doc[i][2].kind = "data" => doc[i][2].of \in Nested(doc)
    BY <2>1 DEF Nested
  <2> QED
    BY <1>1, <1>2, <2>1, <2>2
<1>5. Proper(doc)
  BY <1>1, <1>3, <1>4 DEF Proper
<1>6. ProperCall(c)
  BY <1>1, <1>4, <1>5 DEF ProperCall
<1> QED
  BY <1>6 DEF c

(* The calls of a message; behind the last one there is none. *)
LEMMA MessageProper ==
  ASSUME NEW s \in Scripts, NEW n
  PROVE  Message(s, n) \in Seq(Call) /\ \A b \in DOMAIN Message(s, n) : ProperCall(Message(s, n)[b])
<1>1. CASE n \in DOMAIN s.turns
  <2>1. Message(s, n) = s.turns[n] /\ s.turns[n] \in Seq(Call)
    BY <1>1, ScriptShape DEF Message
  <2> QED
    BY <1>1, <2>1, CallProper
<1>2. CASE n \notin DOMAIN s.turns
  BY <1>2 DEF Message
<1> QED
  BY <1>1, <1>2

LEMMA OneBlock ==
  ASSUME NEW s \in Scripts, s.kind = "llm"
  PROVE  1 \in DOMAIN s.turns /\ Message(s, 1) = s.turns[1] /\ DOMAIN Message(s, 1) = 1..1
BY ScriptShape DEF Message

-----------------------------------------------------------------------------
(* The pairs before a cut, and what is left of the last one. *)
CutBy(pairs, m, v) == Append(SubSeq(pairs, 1, m - 1), <<pairs[m][1], v>>)

LEMMA CutByType ==
  ASSUME NEW S, NEW pairs \in Seq(S), NEW m \in DOMAIN pairs, NEW v, <<pairs[m][1], v>> \in S
  PROVE  CutBy(pairs, m, v) \in Seq(S)
BY DEF CutBy

(* What a cut leaves of a value is of its kind, and of a text the text. *)
LEMMA PartIs ==
  ASSUME NEW v \in Value \cup List, NEW w \in Parts(v)
  PROVE  /\ w \in Value \cup List /\ w.kind = v.kind /\ v.kind # "data"
         /\ v \in Value => w \in Value
         /\ v.kind = "text" => w = v
<1>1. CASE v.kind = "text"
  BY <1>1 DEF Parts, Value, List
<1>2. CASE v.kind = "num"
  <2>1. v \in Value
    BY <1>2 DEF List
  <2>2. PICK k \in DOMAIN v.of : w = [v EXCEPT !.of = SubSeq(v.of, 1, k)]
    BY <1>2 DEF Parts
  <2>3. SubSeq(v.of, 1, k) \in Seq(Chars)
    BY <2>1 DEF Value
  <2> QED
    BY <1>2, <2>1, <2>2, <2>3 DEF Value
<1>3. CASE v.kind = "list"
  <2>1. v \in List
    BY <1>3 DEF Value
  <2>2. PICK k \in 0..Len(v.of) : w = [v EXCEPT !.of = SubSeq(v.of, 1, k)]
    BY <1>3 DEF Parts
  <2>3. SubSeq(v.of, 1, k) \in Seq(Seq(Chars))
    BY <2>1, <2>2 DEF List
  <2> QED
    BY <1>3, <2>1, <2>2, <2>3 DEF List, Value
<1> QED
  BY <1>1, <1>2, <1>3 DEF Value, List

(* A cut of fit pairs is fit. *)
LEMMA CutFit ==
  ASSUME NEW S, NEW pairs \in Seq(S), Fit(pairs), NEW m \in DOMAIN pairs, NEW v,
         v.kind = pairs[m][2].kind,
         pairs[m][2].kind = "text" => v = pairs[m][2],
         pairs[m][2] \in Value => v \in Value
  PROVE  Fit(CutBy(pairs, m, v))
<1> DEFINE d == CutBy(pairs, m, v)
<1>1. /\ DOMAIN d = 1..m /\ m \in 1..Len(pairs)
      /\ \A i \in 1..(m - 1) : d[i] = pairs[i]
      /\ d[m] = <<pairs[m][1], v>>
  BY DEF CutBy
<1> HIDE DEF d
<1>2. SUFFICES ASSUME NEW i \in DOMAIN d
               PROVE  /\ d[i][2].kind = "text" => <<d[i][1], d[i][2].of>> \in AllTexts
                      /\ d[i][1] \in Fields => d[i][2] \in Value
  BY <1>2 DEF Fit, Whole, Given, d
<1>3. CASE i = m
  <2>1. d[i][1] = pairs[m][1] /\ d[i][2] = v
    BY <1>1, <1>3
  <2> QED
    BY <2>1 DEF Fit, Whole, Given
<1>4. CASE i # m
  <2>1. i \in DOMAIN pairs /\ d[i] = pairs[i]
    BY <1>1, <1>4
  <2> QED
    BY <2>1 DEF Fit, Whole, Given
<1> QED
  BY <1>3, <1>4

LEMMA FlatCutFit ==
  ASSUME NEW pairs \in FlatPairs, Fit(pairs), NEW d \in CutAt(pairs, Parts)
  PROVE  d \in FlatPairs /\ Fit(d)
<1>1. CASE d = <<>>
  BY <1>1 DEF FlatPairs, Fit, Whole, Given
<1>2. ASSUME NEW m \in DOMAIN pairs, NEW v \in Parts(pairs[m][2]), d = CutBy(pairs, m, v)
      PROVE  d \in FlatPairs /\ Fit(d)
  <2>1. /\ pairs \in Seq(Seq(Chars) \X (Value \cup List))
        /\ pairs[m][1] \in Seq(Chars) /\ pairs[m][2] \in Value \cup List
    BY DEF FlatPairs
  <2>2. /\ v \in Value \cup List /\ v.kind = pairs[m][2].kind
        /\ pairs[m][2] \in Value => v \in Value
        /\ pairs[m][2].kind = "text" => v = pairs[m][2]
    BY <2>1, PartIs
  <2>3. <<pairs[m][1], v>> \in Seq(Chars) \X (Value \cup List)
    BY <2>1, <2>2
  <2>4. d \in FlatPairs
    BY <1>2, <2>1, <2>3, CutByType DEF FlatPairs
  <2>5. Fit(d)
    BY <1>2, <2>1, <2>2, CutFit
  <2> QED
    BY <2>4, <2>5
<1> QED
  BY <1>1, <1>2 DEF CutAt, CutBy

LEMMA AllPartIs ==
  ASSUME NEW v \in Value \cup List \cup Data, v.kind = "data" => Fit(v.of), NEW w \in AllParts(v)
  PROVE  /\ w \in Value \cup List \cup Data /\ w.kind = v.kind
         /\ v \in Value => w \in Value
         /\ v.kind = "text" => w = v
         /\ w.kind = "data" => Fit(w.of)
<1>1. CASE v.kind = "data"
  <2>1. v \in Data /\ v.of \in FlatPairs
    BY <1>1 DEF Value, List, Data, FlatPairs
  <2>2. PICK d \in CutAt(v.of, Parts) : w = [v EXCEPT !.of = d]
    BY <1>1 DEF AllParts
  <2>3. d \in FlatPairs /\ Fit(d)
    BY <1>1, <2>1, FlatCutFit
  <2>4. w = [kind |-> "data", of |-> d]
    BY <1>1, <2>1, <2>2 DEF Data
  <2>5. w \in Data
    BY <2>3, <2>4 DEF Data, FlatPairs
  <2>6. v \notin Value
    BY <1>1 DEF Value
  <2> QED
    BY <1>1, <2>3, <2>4, <2>5, <2>6
<1>2. CASE v.kind # "data"
  <2>1. v \in Value \cup List
    BY <1>2 DEF Data
  <2>2. w \in Parts(v)
    BY <1>2 DEF AllParts
  <2> QED
    BY <1>2, <2>1, <2>2, PartIs
<1> QED
  BY <1>1, <1>2

(* A cut of a proper input is proper, and has its pairs under their keys,   *)
(* each of its kind.                                                       *)
LEMMA CutsProper ==
  ASSUME NEW doc, Proper(doc), NEW d \in Cuts(doc)
  PROVE  /\ Proper(d)
         /\ \A i \in DOMAIN d : i \in DOMAIN doc /\ d[i][1] = doc[i][1] /\ d[i][2].kind = doc[i][2].kind
<1>1. CASE d = <<>>
  BY <1>1 DEF Proper, Input, Fit, Whole, Given
<1>2. ASSUME NEW m \in DOMAIN doc, NEW v \in AllParts(doc[m][2]), d = CutBy(doc, m, v)
      PROVE  /\ Proper(d)
             /\ \A i \in DOMAIN d : i \in DOMAIN doc /\ d[i][1] = doc[i][1] /\ d[i][2].kind = doc[i][2].kind
  <2>1. /\ doc \in Seq(Seq(Chars) \X (Value \cup List \cup Data)) /\ Fit(doc)
        /\ doc[m][1] \in Seq(Chars) /\ doc[m][2] \in Value \cup List \cup Data
        /\ \A i \in DOMAIN doc : doc[i][2].kind = "data" => Fit(doc[i][2].of)
    BY PairShape DEF Proper, Input
  <2>2. /\ v \in Value \cup List \cup Data /\ v.kind = doc[m][2].kind
        /\ doc[m][2] \in Value => v \in Value
        /\ doc[m][2].kind = "text" => v = doc[m][2]
        /\ v.kind = "data" => Fit(v.of)
    BY <2>1, AllPartIs
  <2>3. <<doc[m][1], v>> \in Seq(Chars) \X (Value \cup List \cup Data)
    BY <2>1, <2>2
  <2>4. d \in Input
    BY <1>2, <2>1, <2>3, CutByType DEF Input
  <2>5. Fit(d)
    BY <1>2, <2>1, <2>2, CutFit
  <2> DEFINE P == Seq(Chars) \X (Value \cup List \cup Data)
  <2>6. doc \in Seq(P)
    BY <2>1
  <2> HIDE DEF P
  <2>7. ASSUME NEW i \in DOMAIN d
        PROVE  i \in DOMAIN doc /\ d[i][1] = doc[i][1]
               /\ (d[i][2] = doc[i][2] \/ (i = m /\ d[i][2] = v))
    <3>1. /\ DOMAIN d = 1..m /\ m \in 1..Len(doc)
          /\ \A j \in 1..(m - 1) : d[j] = doc[j]
          /\ d[m] = <<doc[m][1], v>>
      BY <1>2, <2>6 DEF CutBy
    <3>2. CASE i = m
      BY <3>1, <3>2
    <3>3. CASE i # m
      <4>1. i \in DOMAIN doc /\ d[i] = doc[i]
        BY <2>6, <3>1, <3>3
      <4> QED
        BY <4>1
    <3> QED
      BY <3>2, <3>3
  <2>8. \A i \in DOMAIN d : d[i][2].kind = "data" => Fit(d[i][2].of)
    BY <2>1, <2>2, <2>7
  <2> QED
    BY <2>2, <2>4, <2>5, <2>7, <2>8 DEF Proper
<1> QED
  BY <1>1, <1>2 DEF Cuts, CutAt, CutBy

(* The data of an update is a part of what the call says. *)
LEMMA DataFit ==
  ASSUME NEW c, ProperCall(c), c.tool = "update"
  PROVE  Fit(DataOf(c.doc))
<1> DEFINE doc == c.doc
<1>1. /\ \A i \in DOMAIN doc : doc[i][2].kind = "data" => Fit(doc[i][2].of)
      /\ \A i \in DOMAIN doc : doc[i][1] = <<"d">> => doc[i][2].kind = "data"
  BY DEF ProperCall, Proper
<1> HIDE DEF doc
<1>2. CASE <<"d">> \notin Keys(doc)
  BY <1>2 DEF DataOf, Fit, Whole, Given, doc
<1>3. CASE <<"d">> \in Keys(doc)
  <2> DEFINE i == CHOOSE i \in DOMAIN doc : doc[i][1] = <<"d">>
  <2>1. i \in DOMAIN doc /\ doc[i][1] = <<"d">>
    BY <1>3 DEF Keys
  <2>2. DataOf(doc) = doc[i][2].of
    BY <1>3 DEF DataOf, Get
  <2> HIDE DEF i
  <2> QED
    BY <1>1, <2>1, <2>2 DEF doc
<1> QED
  BY <1>2, <1>3

(* Whole pairs leave the record whole. *)
LEMMA MergeWhole ==
  ASSUME StoredWhole, NEW pairs, Whole(pairs),
         \A f \in Fields : row'[f] = row[f] \/ (f \in Keys(pairs) /\ row'[f] = Get(pairs, f))
  PROVE  StoredWhole'
<1> SUFFICES ASSUME NEW f \in Fields, row'[f].kind = "text"
             PROVE  row'[f] = Initial[f] \/ <<f, row'[f].of>> \in AllTexts
  BY DEF StoredWhole
<1>1. CASE f \in Keys(pairs) /\ row'[f] = Get(pairs, f)
  <2> DEFINE i == CHOOSE i \in DOMAIN pairs : pairs[i][1] = f
  <2>1. i \in DOMAIN pairs /\ pairs[i][1] = f
    BY <1>1 DEF Keys
  <2>2. row'[f] = pairs[i][2]
    BY <1>1 DEF Get
  <2> HIDE DEF i
  <2> QED
    BY <2>1, <2>2 DEF Whole
<1>2. CASE row'[f] = row[f]
  BY <1>2 DEF StoredWhole
<1> QED
  BY <1>1, <1>2

-----------------------------------------------------------------------------
(* The steps. *)

LEMMA InitWhole == Init => WholeInv
<1> SUFFICES ASSUME Init
             PROVE  WholeInv
  OBVIOUS
<1>1. ScriptInv
  BY StreamsAssumption DEF Init, ScriptInv, StreamsAssumption
<1>2. SaidInv /\ ResultInv /\ StoredWhole
  BY DEF Init, SaidInv, ResultInv, Whole, StoredWhole
<1> QED
  BY <1>1, <1>2 DEF WholeInv

LEMMA StartWhole ==
  ASSUME WholeInv, Start
  PROVE  WholeInv'
<1>1. ScriptInv'
  BY StreamsAssumption DEF Start, Begin, ScriptInv, StreamsAssumption
<1>2. Whole(<<>>)
  BY DEF Whole
<1>3. SaidInv'
  BY DEF Start, Begin, SaidInv
<1>4. ResultInv' /\ StoredWhole'
  BY <1>2 DEF Start, WholeInv, ResultInv, StoredWhole, Whole
<1> QED
  BY <1>1, <1>3, <1>4 DEF WholeInv

(* The thread and the page change neither the output nor the record. *)
Aside == UNCHANGED <<script, turn, runner, call, result, row>>

LEMMA AsideWhole ==
  ASSUME WholeInv, Aside, script.kind = "llm" => block' = block, SaidInv'
  PROVE  WholeInv'
<1>1. ScriptInv'
  BY DEF WholeInv, ScriptInv, Aside
<1>2. ResultInv' /\ StoredWhole'
  BY DEF WholeInv, ResultInv, StoredWhole, Whole, Aside
<1> QED
  BY <1>1, <1>2 DEF WholeInv

LEMMA SaidKept ==
  ASSUME WholeInv, UNCHANGED said
  PROVE  SaidInv'
BY DEF WholeInv, SaidInv

(* The calls of a message that has been cut off: those before the cut, and  *)
(* what there is of the one it came in.                                    *)
LEMMA CutSaid ==
  ASSUME WholeInv, block \in DOMAIN Blocks, NEW doc \in Partial, NEW last,
         last = <<>> \/ last = <<[tool |-> Blocks[block].tool, doc |-> doc]>>,
         said' = SubSeq(Blocks, 1, block - 1) \o last
  PROVE  SaidInv'
<1> DEFINE c == [tool |-> Blocks[block].tool, doc |-> doc]
           first == SubSeq(Blocks, 1, block - 1)
<1>1. Blocks \in Seq(Call) /\ \A b \in DOMAIN Blocks : ProperCall(Blocks[b])
  BY MessageProper DEF WholeInv, ScriptInv, Blocks
<1>2. ProperCall(Blocks[block]) /\ Proper(Doc) /\ doc \in Cuts(Doc) /\ Blocks[block] \in Call
  BY <1>1 DEF Doc, Partial, ProperCall
<1>3. /\ Proper(doc)
      /\ \A i \in DOMAIN doc : i \in DOMAIN Doc /\ doc[i][1] = Doc[i][1] /\ doc[i][2].kind = Doc[i][2].kind
  BY <1>2, CutsProper
<1>4. c \in Call /\ c.tool = Blocks[block].tool /\ c.doc = doc
  BY <1>2, <1>3 DEF Call, Proper
<1>5. ProperCall(c)
  BY <1>2, <1>3, <1>4 DEF ProperCall, Doc
<1>6. first \in Seq(Call) /\ \A n \in DOMAIN first : n \in DOMAIN Blocks /\ first[n] = Blocks[n]
  BY <1>1
<1>7. said' = first \o last /\ (last = <<>> \/ last = <<c>>)
  OBVIOUS
<1> HIDE DEF c, first
<1>8. last \in Seq(Call) /\ \A n \in DOMAIN last : last[n] = c
  <2>1. CASE last = <<>>
    BY <2>1
  <2>2. CASE last = <<c>>
    BY <1>4, <2>2
  <2> QED
    BY <1>7, <2>1, <2>2
<1>9. said' \in Seq(Call)
  BY <1>6, <1>7, <1>8, ConcatType
<1>10. ASSUME NEW n \in DOMAIN said'
       PROVE  ProperCall(said'[n])
  <2>1. /\ first \in Seq(Call) /\ last \in Seq(Call)
        /\ n \in DOMAIN (first \o last) /\ said'[n] = (first \o last)[n]
    BY <1>6, <1>7, <1>8, <1>10
  <2>2. \/ n \in DOMAIN first /\ (first \o last)[n] = first[n]
        \/ \E m \in DOMAIN last : (first \o last)[n] = last[m]
    BY ONLY <2>1, ConcatAt
  <2> QED
    BY <1>1, <1>5, <1>6, <1>8, <2>1, <2>2
<1> QED
  BY <1>9, <1>10 DEF SaidInv

LEMMA ProducerWhole ==
  ASSUME WholeInv, Producer, block \in Nat \ {0}
  PROVE  WholeInv'
<1>1. Aside
  BY DEF Producer, Receive, EndBlock, EndStream, CutStream, FailStream, Rest, Aside
<1>2. script.kind = "llm" => block' = block
  BY DEF Producer, Receive, EndBlock, EndStream, CutStream, FailStream
<1>3. SaidInv'
  <2>1. CASE Receive \/ EndBlock \/ FailStream
    BY <2>1, SaidKept DEF Receive, EndBlock, FailStream
  <2>2. CASE EndStream
    BY <2>2, MessageProper DEF EndStream, WholeInv, ScriptInv, SaidInv, Blocks
  <2>3. CASE CutStream
    <3>1. block \in DOMAIN Blocks
      <4>1. Blocks \in Seq(Call)
        BY MessageProper DEF WholeInv, ScriptInv, Blocks
      <4> QED
        BY <2>3, <4>1 DEF CutStream, Streaming
    <3>2. PICK doc \in Partial, begun \in {TRUE, pos > 0} :
            said' = SubSeq(Blocks, 1, block - 1) \o
                    IF begun THEN <<[tool |-> Blocks[block].tool, doc |-> doc]>> ELSE <<>>
      BY <2>3 DEF CutStream
    <3> DEFINE last == IF begun THEN <<[tool |-> Blocks[block].tool, doc |-> doc]>> ELSE <<>>
    <3>3. last = <<>> \/ last = <<[tool |-> Blocks[block].tool, doc |-> doc]>>
      OBVIOUS
    <3>4. said' = SubSeq(Blocks, 1, block - 1) \o last
      BY <3>2
    <3> HIDE DEF last
    <3> QED
      BY <3>1, <3>3, <3>4, CutSaid
  <2> QED
    BY <2>1, <2>2, <2>3 DEF Producer
<1> QED
  BY <1>1, <1>2, <1>3, AsideWhole

(* A step of the runner that stays clear of the record and of the turn. *)
LEMMA RunnerWhole ==
  ASSUME WholeInv, UNCHANGED <<script, turn, block, said, row>>,
         UNCHANGED result \/ Whole(result') \/ script.kind = "agent",
         call' \in Nat \ {0},
         runner' = "calls" => script.kind = "agent",
         runner' = "write" => script.kind = "llm"
  PROVE  WholeInv'
<1>1. script.kind \in {"llm", "agent"}
  BY ScriptShape DEF WholeInv, ScriptInv
<1>2. ScriptInv'
  BY <1>1 DEF WholeInv, ScriptInv
<1>3. ResultInv' /\ StoredWhole'
  BY <1>1 DEF WholeInv, ResultInv, StoredWhole, Whole
<1> QED
  BY <1>2, <1>3, SaidKept DEF WholeInv

LEMMA TakeEndWhole ==
  ASSUME WholeInv, TakeEnd
  PROVE  WholeInv'
<1>1. Proper(Doc)
  <2>1. script \in Scripts /\ script.kind = "llm" /\ turn = 1 /\ block = 1
    BY DEF WholeInv, ScriptInv, TakeEnd
  <2>2. block \in DOMAIN Blocks
    BY <2>1, OneBlock DEF Blocks
  <2> QED
    BY <2>1, <2>2, MessageProper DEF Blocks, Doc, ProperCall
<1>2. Whole(Parsed)
  <2>1. Parsed = <<>> \/ Parsed \in Cuts(Doc)
    BY DEF Parsed
  <2>2. Whole(<<>>)
    BY DEF Whole
  <2>3. \A d \in Cuts(Doc) : Whole(d)
    BY <1>1, CutsProper DEF Proper, Fit
  <2> QED
    BY <2>1, <2>2, <2>3
<1>3. Whole(result')
  BY <1>2 DEF TakeEnd
<1> QED
  BY <1>3, RunnerWhole DEF TakeEnd, Took, thread, WholeInv, ScriptInv

LEMMA TakeMessageWhole ==
  ASSUME WholeInv, TakeMessage
  PROVE  WholeInv'
BY RunnerWhole DEF TakeMessage, Took, thread, WholeInv, ScriptInv

LEMMA CallToolWhole ==
  ASSUME WholeInv, CallTool
  PROVE  WholeInv'
<1>1. call \in DOMAIN said /\ call \in Nat \ {0} /\ ProperCall(said[call])
  BY DEF WholeInv, ScriptInv, SaidInv, CallTool
<1>2. ScriptInv' /\ SaidInv' /\ ResultInv'
  BY <1>1 DEF WholeInv, ScriptInv, SaidInv, ResultInv, Whole, CallTool, thread
<1>3. ASSUME UNCHANGED row
      PROVE  StoredWhole'
  BY <1>3 DEF WholeInv, StoredWhole
<1>4. ASSUME said[call].tool = "update", row' = Update(DataOf(said[call].doc))
      PROVE  StoredWhole'
  <2> DEFINE data == DataOf(said[call].doc)
  <2>1. Whole(data)
    BY <1>1, <1>4, DataFit DEF Fit
  <2>2. \A f \in Filled(data) : f \in Keys(data)
    BY DEF Filled, Keys
  <2> HIDE DEF data
  <2>3. \A f \in Fields : row'[f] = row[f] \/ (f \in Keys(data) /\ row'[f] = Get(data, f))
    BY <1>4, <2>2 DEF Update, data
  <2> QED
    BY <2>1, <2>3, MergeWhole DEF WholeInv
<1>5. StoredWhole'
  BY <1>3, <1>4 DEF CallTool
<1> QED
  BY <1>2, <1>5 DEF WholeInv

LEMMA NextTurnWhole ==
  ASSUME WholeInv, NextTurn
  PROVE  WholeInv'
<1>1. script \in Scripts /\ script.kind = "agent" /\ turn \in 1..MaxTurns /\ MaxTurns \in Nat
  BY ScriptShape, StreamsAssumption DEF WholeInv, ScriptInv, NextTurn, StreamsAssumption
<1>2. CASE turn < MaxTurns
  <2>1. turn' = turn + 1 /\ runner' = "consuming" /\ said' = <<>>
        /\ UNCHANGED <<script, call, result, row>>
    BY <1>2 DEF NextTurn, Begin
  <2>2. ScriptInv' /\ SaidInv'
    BY <1>1, <1>2, <2>1 DEF WholeInv, ScriptInv, SaidInv
  <2> QED
    BY <1>1, <2>1, <2>2 DEF WholeInv, ResultInv, StoredWhole
<1>3. CASE ~(turn < MaxTurns)
  <2>1. UNCHANGED <<script, turn, block, said, row, result, call>> /\ runner' = "done"
    BY <1>3 DEF NextTurn, End, thread
  <2> QED
    BY <2>1, RunnerWhole DEF WholeInv, ScriptInv
<1> QED
  BY <1>2, <1>3

LEMMA WriteWhole ==
  ASSUME WholeInv, Write
  PROVE  WholeInv'
<1>1. script.kind = "llm" /\ Whole(result)
  BY ScriptShape DEF WholeInv, ScriptInv, ResultInv, Write
<1>2. ScriptInv' /\ SaidInv' /\ ResultInv'
  BY DEF WholeInv, ScriptInv, SaidInv, ResultInv, Whole, Write, End, thread
<1>3. ASSUME UNCHANGED row
      PROVE  StoredWhole'
  BY <1>3 DEF WholeInv, StoredWhole
<1>4. ASSUME row' = Merge(result)
      PROVE  StoredWhole'
  <2>1. \A f \in Fields : row'[f] = row[f] \/ (f \in Keys(result) /\ row'[f] = Get(result, f))
    BY <1>4 DEF Merge
  <2> QED
    BY <1>1, <2>1, MergeWhole DEF WholeInv
<1> QED
  BY <1>2, <1>3, <1>4 DEF WholeInv, Write

LEMMA StepWhole ==
  ASSUME WholeInv, block \in Nat \ {0}, [Next]_vars
  PROVE  WholeInv'
<1>1. CASE Start
  BY <1>1, StartWhole
<1>2. CASE Producer
  BY <1>2, ProducerWhole
<1>3. CASE Publish \/ TakeError
  BY <1>3, RunnerWhole DEF Publish, TakeError, Took, End, thread, page, WholeInv, ScriptInv
<1>4. CASE TakeEnd
  BY <1>4, TakeEndWhole
<1>5. CASE TakeMessage
  BY <1>5, TakeMessageWhole
<1>6. CASE TakeDone
  BY <1>6, RunnerWhole, ScriptShape DEF TakeDone, Took, End, thread, WholeInv, ScriptInv
<1>7. CASE CallTool
  BY <1>7, CallToolWhole
<1>8. CASE NextTurn
  BY <1>8, NextTurnWhole
<1>9. CASE Write
  BY <1>9, WriteWhole
<1>10. CASE PublishUpdated
  BY <1>10, RunnerWhole DEF PublishUpdated, End, thread, WholeInv, ScriptInv
<1>11. CASE Drop \/ Reconnect
  BY <1>11, AsideWhole, SaidKept DEF Drop, Reconnect, Aside, thread
<1>12. CASE UNCHANGED vars
  BY <1>12, AsideWhole, SaidKept DEF vars, Aside, thread
<1> QED
  BY <1>1, <1>2, <1>3, <1>4, <1>5, <1>6, <1>7, <1>8, <1>9, <1>10, <1>11, <1>12 DEF Next, Runner

LEMMA StepBlock ==
  ASSUME block \in Nat \ {0}, [Next]_vars
  PROVE  block' \in Nat \ {0}
BY DEF Next, Start, Begin, Producer, Receive, EndBlock, EndStream, CutStream, FailStream, Runner, Publish,
       TakeError, TakeEnd, TakeMessage, TakeDone, CallTool, NextTurn, Write, PublishUpdated, Drop,
       Reconnect, thread, vars

(* The text of a field is the initial one or one the model has written to   *)
(* its end, for every script, every cut of the stream and every text: what  *)
(* parsed_object closes (ai_provider.py 212) and the runner stores          *)
(* (compute_runner.py 563) has no part of a text in it.                     *)
THEOREM StoredCorrect == Spec => []StoredWhole
<1> DEFINE Inv == WholeInv /\ block \in Nat \ {0}
<1>1. Init => Inv
  BY InitWhole DEF Init
<1>2. Inv /\ [Next]_vars => Inv'
  BY StepWhole, StepBlock
<1>3. Inv => StoredWhole
  BY DEF WholeInv
<1> HIDE DEF Inv
<1> QED
  BY <1>1, <1>2, <1>3, PTL DEF Spec

-----------------------------------------------------------------------------
(* The types. *)

States == {"seek_key", "in_key", "seek_colon", "seek_value", "in_string", "in_other", "done"}
ScanType == [at : States, key : Seq(Chars), val : Seq(Chars), esc : BOOLEAN, depth : Nat]
Scan(at, key, val, esc, depth) == [at |-> at, key |-> key, val |-> val, esc |-> esc, depth |-> depth]

Types == {"field_delta", "field_done", "done", "error", "end"}
Events == {e \in [type : Types, field : Seq(Chars), value : Value \cup List \cup Data] :
             e.field \in Fields => e.value \in Value}
Spoken == {e \in Events : e.type \in {"field_delta", "field_done"}}

(* The thread is at the block the model is in, and the scanner inside its   *)
(* object, or before or behind it.                                         *)
ThreadInv ==
  /\ runner = "idle" => json = <<>> /\ pos = 0 /\ producer = "off" /\ queue = <<>>
  /\ runner # "idle" => json = JsonOf(Blocks, block)
  /\ block \in Nat \ {0} /\ pos \in 0..Len(json) /\ json \in Seq(Chars)
  /\ pos = 0 => scan = Fresh
  /\ scan \in ScanType
  /\ pos > 0 /\ scan.at # "done" => scan.depth > 0
  /\ queue \in Seq(Events) /\ told \in Seq(Spoken)

PageInv ==
  /\ producer \in {"off", "open"}
  /\ runner \in {"idle", "consuming", "calls", "write", "publish", "done"}
  /\ outcome \in {"none", "success", "error", "crashed"}
  /\ script.kind = "llm" => Given(result)
  /\ row \in [Fields -> Value]
  /\ cell \in [Fields -> Seq(Chars)] /\ streaming \in [Fields -> BOOLEAN]
  /\ online \in BOOLEAN /\ drops \in 0..MaxDrops /\ round \in 0..MaxRounds /\ lost \in BOOLEAN

LEMMA TypeFromInv ==
  ASSUME WholeInv, ThreadInv, PageInv
  PROVE  TypeOK
<1>1. script \in Scripts /\ turn \in 1..MaxTurns /\ call \in Nat /\ said \in Seq(Call)
  BY DEF WholeInv, ScriptInv, SaidInv
<1>2. /\ \A i \in DOMAIN queue : queue[i].type \in Types
      /\ \A i \in DOMAIN told : told[i].type \in {"field_delta", "field_done"}
  BY DEF ThreadInv, Events, Spoken
<1> QED
  BY <1>1, <1>2 DEF ThreadInv, PageInv, TypeOK, ScanType, States, Types

-----------------------------------------------------------------------------
(* The scanner. *)

LEMMA FreshType == Fresh \in ScanType
<1>1. <<>> \in Seq(Chars)
  OBVIOUS
<1> QED
  BY <1>1 DEF Fresh, ScanType, States

LEMMA ScanIs ==
  ASSUME NEW at \in States, NEW key \in Seq(Chars), NEW val \in Seq(Chars), NEW esc \in BOOLEAN,
         NEW depth \in Nat
  PROVE  Scan(at, key, val, esc, depth) \in ScanType
BY DEF Scan, ScanType

LEMMA ScanFields ==
  ASSUME NEW s \in ScanType
  PROVE  /\ s = Scan(s.at, s.key, s.val, s.esc, s.depth)
         /\ s.at \in States /\ s.key \in Seq(Chars) /\ s.val \in Seq(Chars) /\ s.esc \in BOOLEAN
         /\ s.depth \in Nat
BY DEF Scan, ScanType

LEMMA MarksApart ==
  /\ Quote # Back /\ Quote # "{" /\ Quote # "}" /\ Quote # "[" /\ Quote # "]" /\ Quote # ":" /\ Quote # ","
  /\ Back # "{" /\ Back # "}" /\ Back # "[" /\ Back # "]" /\ Back # ":" /\ Back # ","
  /\ Back # "n" /\ Back # "u" /\ Back # "e" /\ Quote # "n" /\ Quote # "u" /\ Quote # "e"
BY DEF Quote, Back

LEMMA OpenIs ==
  ASSUME NEW s \in ScanType
  PROVE  Open(s) = Scan("seek_key", s.key, s.val, s.esc, s.depth + 1)
<1> DEFINE d == s.depth + 1
<1> HIDE DEF d
<1>1. [s EXCEPT !.at = "seek_key", !.depth = d] = [[s EXCEPT !.at = "seek_key"] EXCEPT !.depth = d]
  OBVIOUS
<1>2. [s EXCEPT !.at = "seek_key"] = Scan("seek_key", s.key, s.val, s.esc, s.depth)
  BY DEF Scan, ScanType
<1>3. [Scan("seek_key", s.key, s.val, s.esc, s.depth) EXCEPT !.depth = d] = Scan("seek_key", s.key, s.val, s.esc, d)
  BY DEF Scan
<1>4. [s EXCEPT !.at = "seek_key", !.depth = d] = Scan("seek_key", s.key, s.val, s.esc, d)
  BY ONLY <1>1, <1>2, <1>3
<1> QED
  BY <1>4 DEF d, Open

LEMMA CloseIs ==
  ASSUME NEW s \in ScanType
  PROVE  Close(s) = Scan(IF s.depth <= 1 THEN "done" ELSE "seek_key", s.key, s.val, s.esc, s.depth - 1)
<1> DEFINE d == s.depth - 1
           a == IF s.depth <= 1 THEN "done" ELSE "seek_key"
<1> HIDE DEF d, a
<1>1. [s EXCEPT !.at = a, !.depth = d] = [[s EXCEPT !.at = a] EXCEPT !.depth = d]
  OBVIOUS
<1>2. [s EXCEPT !.at = a] = Scan(a, s.key, s.val, s.esc, s.depth)
  BY DEF Scan, ScanType
<1>3. [Scan(a, s.key, s.val, s.esc, s.depth) EXCEPT !.depth = d] = Scan(a, s.key, s.val, s.esc, d)
  BY DEF Scan
<1>4. [s EXCEPT !.at = a, !.depth = d] = Scan(a, s.key, s.val, s.esc, d)
  BY ONLY <1>1, <1>2, <1>3
<1> QED
  BY <1>4 DEF d, a, Close

LEMMA ValueIs ==
  ASSUME NEW s \in ScanType
  PROVE  [s EXCEPT !.at = "in_string", !.val = <<>>] = Scan("in_string", s.key, <<>>, s.esc, s.depth)
<1>1. [s EXCEPT !.at = "in_string", !.val = <<>>] = [[s EXCEPT !.at = "in_string"] EXCEPT !.val = <<>>]
  OBVIOUS
<1>2. [s EXCEPT !.at = "in_string"] = Scan("in_string", s.key, s.val, s.esc, s.depth)
  BY DEF Scan, ScanType
<1>3. [Scan("in_string", s.key, s.val, s.esc, s.depth) EXCEPT !.val = <<>>] = Scan("in_string", s.key, <<>>, s.esc, s.depth)
  BY DEF Scan
<1>4. [s EXCEPT !.at = "in_string", !.val = <<>>] = Scan("in_string", s.key, <<>>, s.esc, s.depth)
  BY ONLY <1>1, <1>2, <1>3
<1> QED
  BY <1>4

LEMMA SeekKeyIs ==
  ASSUME NEW s \in ScanType, NEW c
  PROVE  /\ c = Quote => SeekKey(s, c) = Scan("in_key", <<>>, s.val, s.esc, s.depth)
         /\ c = "{" => SeekKey(s, c) = Open(s)
         /\ c = "}" => SeekKey(s, c) = Close(s)
         /\ c \notin {Quote, "{", "}"} => SeekKey(s, c) = s
<1>1. c = Quote => SeekKey(s, c) = Scan("in_key", <<>>, s.val, s.esc, s.depth)
  BY DEF SeekKey, Scan, ScanType, Quote
<1> QED
  BY <1>1 DEF SeekKey, Quote

LEMMA InKeyIs ==
  ASSUME NEW s \in ScanType, NEW c
  PROVE  /\ s.esc => InKey(s, c) = Scan(s.at, Append(s.key, c), s.val, FALSE, s.depth)
         /\ ~s.esc /\ c = Back => InKey(s, c) = Scan(s.at, s.key, s.val, TRUE, s.depth)
         /\ ~s.esc /\ c = Quote => InKey(s, c) = Scan("seek_colon", s.key, s.val, s.esc, s.depth)
         /\ ~s.esc /\ c \notin {Quote, Back} => InKey(s, c) = Scan(s.at, Append(s.key, c), s.val, s.esc, s.depth)
<1>1. s.esc => InKey(s, c) = Scan(s.at, Append(s.key, c), s.val, FALSE, s.depth)
  BY DEF InKey, Scan, ScanType
<1>2. ~s.esc /\ c = Back => InKey(s, c) = Scan(s.at, s.key, s.val, TRUE, s.depth)
  BY DEF InKey, Scan, ScanType
<1>3. ~s.esc /\ c = Quote => InKey(s, c) = Scan("seek_colon", s.key, s.val, s.esc, s.depth)
  BY MarksApart DEF InKey, Scan, ScanType
<1>4. ~s.esc /\ c \notin {Quote, Back} => InKey(s, c) = Scan(s.at, Append(s.key, c), s.val, s.esc, s.depth)
  BY DEF InKey, Scan, ScanType
<1> QED
  BY <1>1, <1>2, <1>3, <1>4

LEMMA SeekValueIs ==
  ASSUME NEW s \in ScanType, NEW c
  PROVE  /\ c = Quote => SeekValue(s, c) = Scan("in_string", s.key, <<>>, s.esc, s.depth)
         /\ c = "{" => SeekValue(s, c) = Open(s)
         /\ c \notin {Quote, "{"} => SeekValue(s, c) = Scan("in_other", s.key, s.val, s.esc, s.depth)
<1>1. c = Quote => SeekValue(s, c) = Scan("in_string", s.key, <<>>, s.esc, s.depth)
  <2>1. c = Quote => SeekValue(s, c) = [s EXCEPT !.at = "in_string", !.val = <<>>]
    BY MarksApart DEF SeekValue
  <2>2. [s EXCEPT !.at = "in_string", !.val = <<>>] = Scan("in_string", s.key, <<>>, s.esc, s.depth)
    BY ValueIs
  <2> QED
    BY <2>1, <2>2
<1>2. c = "{" => SeekValue(s, c) = Open(s)
  BY MarksApart DEF SeekValue
<1>3. c \notin {Quote, "{"} => SeekValue(s, c) = Scan("in_other", s.key, s.val, s.esc, s.depth)
  BY DEF SeekValue, Scan, ScanType
<1> QED
  BY <1>1, <1>2, <1>3

LEMMA InOtherIs ==
  ASSUME NEW s \in ScanType, NEW c
  PROVE  /\ c = "," => InOther(s, c) = Scan("seek_key", s.key, s.val, s.esc, s.depth)
         /\ c = "}" => InOther(s, c) = Close(s)
         /\ c \notin {",", "}"} => InOther(s, c) = s
<1>1. c = "," => InOther(s, c) = Scan("seek_key", s.key, s.val, s.esc, s.depth)
  BY DEF InOther, Scan, ScanType
<1> QED
  BY <1>1 DEF InOther

LEMMA InStringIs ==
  ASSUME NEW s \in ScanType, NEW c
  PROVE  /\ s.esc => InString(s, c) = Scan(s.at, s.key, Append(s.val, Decode(c)), FALSE, s.depth)
         /\ ~s.esc /\ c = Back => InString(s, c) = Scan(s.at, s.key, s.val, TRUE, s.depth)
         /\ ~s.esc /\ c = Quote => InString(s, c) = Scan("seek_key", <<>>, <<>>, s.esc, s.depth)
         /\ ~s.esc /\ c \notin {Quote, Back} => InString(s, c) = Scan(s.at, s.key, Append(s.val, c), s.esc, s.depth)
<1>1. s.esc => InString(s, c) = Scan(s.at, s.key, Append(s.val, Decode(c)), FALSE, s.depth)
  BY DEF InString, Scan, ScanType
<1>2. ~s.esc /\ c = Back => InString(s, c) = Scan(s.at, s.key, s.val, TRUE, s.depth)
  BY DEF InString, Scan, ScanType
<1>3. ~s.esc /\ c = Quote => InString(s, c) = Scan("seek_key", <<>>, <<>>, s.esc, s.depth)
  BY MarksApart DEF InString, Scan, ScanType
<1>4. ~s.esc /\ c \notin {Quote, Back} => InString(s, c) = Scan(s.at, s.key, Append(s.val, c), s.esc, s.depth)
  BY DEF InString, Scan, ScanType
<1> QED
  BY <1>1, <1>2, <1>3, <1>4

LEMMA AdvanceIs ==
  ASSUME NEW s \in ScanType, NEW c
  PROVE  /\ s.at = "seek_key" => Advance(s, c) = SeekKey(s, c)
         /\ s.at = "in_key" => Advance(s, c) = InKey(s, c)
         /\ s.at = "seek_colon" /\ c = ":" => Advance(s, c) = Scan("seek_value", s.key, s.val, s.esc, s.depth)
         /\ s.at = "seek_colon" /\ c # ":" => Advance(s, c) = s
         /\ s.at = "seek_value" => Advance(s, c) = SeekValue(s, c)
         /\ s.at = "in_string" => Advance(s, c) = InString(s, c)
         /\ s.at = "in_other" => Advance(s, c) = InOther(s, c)
         /\ s.at = "done" => Advance(s, c) = s
<1>1. s.at = "seek_colon" /\ c = ":" => Advance(s, c) = Scan("seek_value", s.key, s.val, s.esc, s.depth)
  BY DEF Advance, Scan, ScanType
<1> QED
  BY <1>1 DEF Advance

LEMMA EmptyType == <<>> \in Seq(Chars)
OBVIOUS

LEMMA AtStates ==
  /\ "seek_key" \in States /\ "in_key" \in States /\ "seek_colon" \in States /\ "seek_value" \in States
  /\ "in_string" \in States /\ "in_other" \in States /\ "done" \in States
BY DEF States

LEMMA DepthOf ==
  ASSUME NEW at, NEW key, NEW val, NEW esc, NEW depth
  PROVE  /\ Scan(at, key, val, esc, depth).at = at /\ Scan(at, key, val, esc, depth).depth = depth
         /\ Scan(at, key, val, esc, depth).key = key /\ Scan(at, key, val, esc, depth).val = val
         /\ Scan(at, key, val, esc, depth).esc = esc
BY DEF Scan

LEMMA CloseType ==
  ASSUME NEW s \in ScanType, s.depth > 0
  PROVE  Close(s) \in ScanType /\ (Close(s).at # "done" => Close(s).depth > 0)
<1> DEFINE a == IF s.depth <= 1 THEN "done" ELSE "seek_key"
<1>1. s.depth \in Nat /\ s.depth - 1 \in Nat
  BY ScanFields
<1>2. Close(s) = Scan(a, s.key, s.val, s.esc, s.depth - 1)
  BY CloseIs
<1>3. a \in States /\ (a # "done" => s.depth - 1 > 0)
  BY <1>1, AtStates
<1> HIDE DEF a
<1>4. Close(s).at = a /\ Close(s).depth = s.depth - 1
  BY <1>2, DepthOf
<1>5. Close(s) \in ScanType
  BY <1>1, <1>2, <1>3, ScanFields, ScanIs
<1> QED
  BY <1>3, <1>4, <1>5

LEMMA OpenType ==
  ASSUME NEW s \in ScanType
  PROVE  Open(s) \in ScanType /\ Open(s).depth > 0
<1> DEFINE d == s.depth + 1
<1>1. s.depth \in Nat
  BY ScanFields
<1>2. d \in Nat /\ d > 0
  BY <1>1
<1>3. Open(s) = Scan("seek_key", s.key, s.val, s.esc, d)
  BY OpenIs
<1> HIDE DEF d
<1>4. Open(s).depth = d
  BY <1>3, DepthOf
<1>5. Open(s) \in ScanType
  <2>1. "seek_key" \in States /\ s.key \in Seq(Chars) /\ s.val \in Seq(Chars) /\ s.esc \in BOOLEAN
    BY ScanFields, AtStates, Zenon
  <2>2. Scan("seek_key", s.key, s.val, s.esc, d) \in ScanType
    BY <1>2, <2>1, ScanIs, Zenon
  <2> QED
    BY <1>3, <2>2, Zenon
<1> QED
  BY <1>2, <1>4, <1>5

LEMMA DecodeType ==
  ASSUME NEW c \in Chars
  PROVE  Decode(c) \in Chars
BY StreamsAssumption DEF StreamsAssumption, Decode

(* A step of the scanner that opens and closes no object. *)
LEMMA ScanType1 ==
  ASSUME NEW s \in ScanType, s.depth > 0, NEW t, NEW at \in States, NEW key \in Seq(Chars),
         NEW val \in Seq(Chars), NEW esc \in BOOLEAN, t = Scan(at, key, val, esc, s.depth)
  PROVE  t \in ScanType /\ t.depth > 0
<1>1. t.depth = s.depth
  BY DepthOf
<1> QED
  BY <1>1, ScanFields, ScanIs

LEMMA AdvanceType ==
  ASSUME NEW s \in ScanType, NEW c \in Chars,
         \/ s.depth > 0
         \/ s.at = "done"
         \/ s.at = "seek_key" /\ c = "{"
  PROVE  Advance(s, c) \in ScanType /\ (Advance(s, c).at # "done" => Advance(s, c).depth > 0)
<1>1. CASE s.at = "done"
  BY <1>1, AdvanceIs
<1>2. CASE s.at = "seek_key" /\ c = "{"
  <2>1. Advance(s, c) = Open(s)
    BY <1>2, AdvanceIs, SeekKeyIs, Zenon
  <2> QED
    BY <2>1, OpenType, Zenon
<1>3. CASE s.depth > 0 /\ c = "}" /\ s.at \in {"seek_key", "in_other"}
  <2>1. Advance(s, c) = Close(s)
    <3>1. CASE s.at = "seek_key"
      BY <1>3, <3>1, AdvanceIs, SeekKeyIs, Zenon
    <3>2. CASE s.at = "in_other"
      BY <1>3, <3>2, AdvanceIs, InOtherIs, Zenon
    <3> QED
      BY <1>3, <3>1, <3>2
  <2> QED
    BY <1>3, <2>1, CloseType
<1>4. CASE s.depth > 0 /\ c = "{" /\ s.at = "seek_value"
  <2>1. Advance(s, c) = Open(s)
    BY <1>4, AdvanceIs, SeekValueIs, Zenon
  <2> QED
    BY <2>1, OpenType, Zenon
<1>5. CASE /\ s.depth > 0 /\ ~(c = "}" /\ s.at \in {"seek_key", "in_other"})
           /\ ~(c = "{" /\ s.at \in {"seek_key", "seek_value"}) /\ s.at # "done"
  <2>1. /\ s.at \in States /\ s.key \in Seq(Chars) /\ s.val \in Seq(Chars) /\ s.esc \in BOOLEAN
        /\ s = Scan(s.at, s.key, s.val, s.esc, s.depth)
    BY ScanFields
  <2>2. <<>> \in Seq(Chars)
    BY EmptyType
  <2>3. Append(s.key, c) \in Seq(Chars)
    BY <2>1, AppendIs
  <2>4. Append(s.val, c) \in Seq(Chars) /\ Append(s.val, Decode(c)) \in Seq(Chars)
    BY <2>1, DecodeType, AppendIs
  <2>5. ASSUME s.at = "seek_key"
        PROVE  Advance(s, c) = Scan("in_key", <<>>, s.val, s.esc, s.depth) \/ Advance(s, c) = s
    BY <1>5, <2>5, AdvanceIs, SeekKeyIs, Zenon
  <2>6. ASSUME s.at = "in_key"
        PROVE  \/ Advance(s, c) = Scan(s.at, Append(s.key, c), s.val, FALSE, s.depth)
               \/ Advance(s, c) = Scan(s.at, s.key, s.val, TRUE, s.depth)
               \/ Advance(s, c) = Scan("seek_colon", s.key, s.val, s.esc, s.depth)
               \/ Advance(s, c) = Scan(s.at, Append(s.key, c), s.val, s.esc, s.depth)
    <3>1. Advance(s, c) = InKey(s, c)
      BY <2>6, AdvanceIs, Zenon
    <3> QED
      BY <3>1, InKeyIs, Zenon
  <2>7. ASSUME s.at = "seek_colon"
        PROVE  Advance(s, c) = Scan("seek_value", s.key, s.val, s.esc, s.depth) \/ Advance(s, c) = s
    BY <2>7, AdvanceIs, Zenon
  <2>8. ASSUME s.at = "seek_value"
        PROVE  \/ Advance(s, c) = Scan("in_string", s.key, <<>>, s.esc, s.depth)
               \/ Advance(s, c) = Scan("in_other", s.key, s.val, s.esc, s.depth)
    <3>1. Advance(s, c) = SeekValue(s, c) /\ c # "{"
      BY <1>5, <2>8, AdvanceIs, Zenon
    <3> QED
      BY <3>1, SeekValueIs, Zenon
  <2>9. ASSUME s.at = "in_string"
        PROVE  \/ Advance(s, c) = Scan(s.at, s.key, Append(s.val, Decode(c)), FALSE, s.depth)
               \/ Advance(s, c) = Scan(s.at, s.key, s.val, TRUE, s.depth)
               \/ Advance(s, c) = Scan("seek_key", <<>>, <<>>, s.esc, s.depth)
               \/ Advance(s, c) = Scan(s.at, s.key, Append(s.val, c), s.esc, s.depth)
    <3>1. Advance(s, c) = InString(s, c)
      BY <2>9, AdvanceIs, Zenon
    <3> QED
      BY <3>1, InStringIs, Zenon
  <2>10. ASSUME s.at = "in_other"
         PROVE  Advance(s, c) = Scan("seek_key", s.key, s.val, s.esc, s.depth) \/ Advance(s, c) = s
    <3>1. Advance(s, c) = InOther(s, c) /\ c # "}"
      BY <1>5, <2>10, AdvanceIs, Zenon
    <3> QED
      BY <3>1, InOtherIs, Zenon
  <2>11. TRUE \in BOOLEAN /\ FALSE \in BOOLEAN
    OBVIOUS
  <2>12. Advance(s, c) # s =>
           \E at \in States, key \in Seq(Chars), val \in Seq(Chars), esc \in BOOLEAN :
             Advance(s, c) = Scan(at, key, val, esc, s.depth)
    <3>1. CASE s.at = "seek_key"
      BY <2>1, <2>2, <2>5, <3>1, AtStates, Zenon
    <3>2. CASE s.at = "in_key"
      BY <2>1, <2>3, <2>6, <2>11, <3>2, AtStates, Zenon
    <3>3. CASE s.at = "seek_colon"
      BY <2>1, <2>7, <3>3, AtStates, Zenon
    <3>4. CASE s.at = "seek_value"
      BY <2>1, <2>2, <2>8, <3>4, AtStates, Zenon
    <3>5. CASE s.at = "in_string"
      BY <2>1, <2>2, <2>4, <2>9, <2>11, <3>5, AtStates, Zenon
    <3>6. CASE s.at = "in_other"
      BY <2>1, <2>10, <3>6, AtStates, Zenon
    <3> QED
      BY <1>5, <2>1, <3>1, <3>2, <3>3, <3>4, <3>5, <3>6 DEF States
  <2> QED
    BY <1>5, <2>12, ScanType1
<1> QED
  BY <1>1, <1>2, <1>3, <1>4, <1>5

LEMMA SpokenEvent ==
  ASSUME NEW type \in {"field_delta", "field_done"}, NEW k \in Seq(Chars), NEW t \in Seq(Chars)
  PROVE  Event(type, k, Text(t)) \in Spoken
<1>1. Text(t) \in Value
  BY DEF Text, Value
<1> QED
  BY <1>1 DEF Event, Events, Types, Spoken

LEMMA TextEvent ==
  ASSUME NEW type \in {"field_delta", "field_done"}, NEW k \in Seq(Chars), NEW t \in Seq(Chars)
  PROVE  <<Event(type, k, Text(t))>> \in Seq(Events) /\ <<Event(type, k, Text(t))>> \in Seq(Spoken)
<1>1. Text(t) \in Value
  BY DEF Text, Value
<1>2. Event(type, k, Text(t)) \in Events /\ Event(type, k, Text(t)) \in Spoken
  BY <1>1 DEF Event, Events, Types, Spoken
<1> QED
  BY <1>2, OneType

LEMMA EmittedType ==
  ASSUME NEW s \in ScanType, NEW c \in Chars
  PROVE  Emitted(s, c) \in Seq(Events) /\ Emitted(s, c) \in Seq(Spoken)
<1>1. <<>> \in Seq(Events) /\ <<>> \in Seq(Spoken)
  OBVIOUS
<1>2. s.key \in Seq(Chars) /\ s.val \in Seq(Chars) /\ <<IF s.esc THEN Decode(c) ELSE c>> \in Seq(Chars)
  BY DecodeType, OneType DEF ScanType
<1> QED
  BY <1>1, <1>2, TextEvent DEF Emitted

LEMMA SignalType ==
  ASSUME NEW type \in Types
  PROVE  <<Signal(type)>> \in Seq(Events) /\ Signal(type) \in Events
<1>1. <<>> \in Seq(Chars)
  OBVIOUS
<1>2. Text(<<>>) \in Value
  BY <1>1 DEF Text, Value
<1>3. Signal(type) \in Events
  BY <1>1, <1>2 DEF Signal, Event, Events
<1> QED
  BY <1>3, OneType

-----------------------------------------------------------------------------
(* The block the thread is at, and what is parsed. *)

LEMMA FinishType ==
  ASSUME NEW doc \in Input, Given(doc)
  PROVE  Finish(doc) \in Seq(Events)
<1> DEFINE F(i) == IF doc[i][2].kind = "text" THEN <<>> ELSE <<Event("field_done", doc[i][1], doc[i][2])>>
<1>1. \A i \in 1..Len(doc) : F(i) \in Seq(Events)
  <2> SUFFICES ASSUME NEW i \in 1..Len(doc)
               PROVE  F(i) \in Seq(Events)
    OBVIOUS
  <2>1. <<>> \in Seq(Events)
    OBVIOUS
  <2>2. doc[i][1] \in Seq(Chars) /\ doc[i][2] \in Value \cup List \cup Data
    BY DEF Input
  <2>3. doc[i][1] \in Fields => doc[i][2] \in Value
    BY DEF Input, Given
  <2>4. Event("field_done", doc[i][1], doc[i][2]) \in Events
    BY <2>2, <2>3 DEF Event, Events, Types
  <2>5. <<Event("field_done", doc[i][1], doc[i][2])>> \in Seq(Events)
    BY <2>4, OneType
  <2> QED
    BY <2>1, <2>5
<1>2. Len(doc) \in Nat /\ DOMAIN doc = 1..Len(doc)
  BY DEF Input
<1>3. Finish(doc) = FlattenSeq([i \in 1..Len(doc) |-> F(i)])
  BY <1>2 DEF Finish
<1> HIDE DEF F
<1>4. [i \in 1..Len(doc) |-> F(i)] \in Seq(Seq(Events))
  <2>1. [i \in 1..Len(doc) |-> F(i)] \in [1..Len(doc) -> Seq(Events)]
    BY <1>1
  <2> QED
    BY <1>2, <2>1, FunctionType
<1> QED
  BY <1>3, <1>4, FlattenType

LEMMA FirstIs ==
  ASSUME NEW S, NEW c \in S, NEW s \in Seq(S)
  PROVE  /\ One(c) \o s \in Seq(S) /\ One(c) \o s # <<>> /\ (One(c) \o s)[1] = c
         /\ Head(One(c) \o s) = c /\ Tail(One(c) \o s) = s
BY DEF One

(* The JSON of an input begins with a brace. *)
LEMMA SourceHead ==
  ASSUME NEW doc \in Input
  PROVE  Source(doc) \in Seq(Chars) /\ Source(doc) # <<>> /\ Source(doc)[1] = "{"
<1> DEFINE x == FlattenSeq(Body(doc))
<1>1. x \in Seq(Chars)
  BY SourceType, FlattenType
<1>2. Source(doc) = One("{") \o x \o One("}") /\ Source(doc) \in Seq(Chars)
  BY SourceType
<1> HIDE DEF x
<1>3. ASSUME NEW a \in Seq(Chars), NEW z \in Seq(Chars)
      PROVE  a \o x \o z = a \o (x \o z) /\ x \o z \in Seq(Chars)
  BY ONLY <1>1, <1>3, ConcatThree, ConcatType
<1>4. Source(doc) = One("{") \o (x \o One("}")) /\ x \o One("}") \in Seq(Chars)
  BY <1>2, <1>3, MarkSeqs, Zenon
<1> DEFINE y == x \o One("}")
<1> HIDE DEF y
<1>5. y \in Seq(Chars) /\ Source(doc) = One("{") \o y
  BY <1>4, Zenon DEF y
<1>6. "{" \in Chars
  BY MarkChars
<1>7. One("{") \o y # <<>> /\ (One("{") \o y)[1] = "{"
  BY <1>5, <1>6, FirstIs, Zenon
<1> QED
  BY <1>2, <1>5, <1>7, Zenon

(* The block the thread is at, and what it has received of it. *)
LEMMA BlockFacts ==
  ASSUME WholeInv, ThreadInv, runner # "idle"
  PROVE  /\ script \in Scripts /\ Blocks \in Seq(Call)
         /\ json = JsonOf(Blocks, block)
         /\ json # <<>> => block \in DOMAIN Blocks
         /\ block \in DOMAIN Blocks => Doc \in Input /\ Proper(Doc)
                                       /\ json = Source(Doc)
                                       /\ json \in Seq(Chars) /\ json # <<>> /\ json[1] = "{"
<1>1. script \in Scripts
  BY DEF WholeInv, ScriptInv
<1>2. Blocks \in Seq(Call) /\ \A b \in DOMAIN Blocks : ProperCall(Blocks[b])
  BY <1>1, MessageProper DEF Blocks
<1>3. json = JsonOf(Blocks, block)
  BY DEF ThreadInv
<1>4. block \in DOMAIN Blocks => Doc \in Input /\ Proper(Doc)
  BY <1>2 DEF Doc, ProperCall, Proper
<1>5. block \in DOMAIN Blocks => json = Source(Doc)
  BY <1>3 DEF JsonOf, Doc
<1>6. json # <<>> => block \in DOMAIN Blocks
  BY <1>3 DEF JsonOf
<1> QED
  BY <1>1, <1>2, <1>3, <1>4, <1>5, <1>6, SourceHead

(* What the script says of the block. *)
LEMMA DocSound ==
  ASSUME script \in Scripts, block \in DOMAIN Blocks
  PROVE  /\ turn \in DOMAIN script.turns /\ block \in DOMAIN script.turns[turn]
         /\ Doc = script.turns[turn][block].doc
         /\ \A pairs \in Nested(Doc) : Sound(pairs)
         /\ Sound(Doc)
<1>1. turn \in DOMAIN script.turns /\ Blocks = script.turns[turn]
  BY DEF Blocks, Message
<1>2. \A pairs \in Nested(Doc) : Sound(pairs)
  BY <1>1, CallShape DEF Doc
<1> QED
  BY <1>1, <1>2 DEF Doc, Nested

LEMMA JsonOfType ==
  ASSUME NEW blocks \in Seq(Call), NEW b
  PROVE  JsonOf(blocks, b) \in Seq(Chars)
<1>0. b \in DOMAIN blocks => blocks[b] \in Call
  OBVIOUS
<1>1. b \in DOMAIN blocks => blocks[b].doc \in Input
  BY <1>0 DEF Call
<1>2. b \in DOMAIN blocks => JsonOf(blocks, b) \in Seq(Chars)
  BY <1>1, SourceType DEF JsonOf
<1> QED
  BY <1>2, EmptyType DEF JsonOf

LEMMA ParsedType ==
  ASSUME WholeInv, ThreadInv, runner # "idle", block \in DOMAIN Blocks
  PROVE  Parsed \in Input /\ Given(Parsed)
<1>1. Parsed = <<>> \/ Parsed \in Cuts(Doc)
  BY DEF Parsed
<1>2. <<>> \in Cuts(Doc)
  BY DEF Cuts, CutAt
<1>3. Proper(Parsed)
  BY <1>1, <1>2, BlockFacts, CutsProper
<1> QED
  BY <1>3 DEF Proper, Fit

-----------------------------------------------------------------------------
(* The thread. *)

LEMMA InitThread == Init => ThreadInv
<1> SUFFICES ASSUME Init
             PROVE  ThreadInv
  OBVIOUS
<1>1. <<>> \in Seq(Chars) /\ <<>> \in Seq(Events) /\ <<>> \in Seq(Spoken) /\ Len(<<>>) = 0
  OBVIOUS
<1> QED
  BY <1>1, FreshType DEF Init, ThreadInv

(* A block begins. *)
LEMMA BlockBegins ==
  ASSUME runner' # "idle", script' \in Scripts,
         block' \in Nat \ {0}, json' = JsonOf(Message(script', turn'), block'), pos' = 0, scan' = Fresh,
         queue' \in Seq(Events), told' = <<>>
  PROVE  ThreadInv'
<1>1. json' \in Seq(Chars)
  BY MessageProper, JsonOfType
<1>2. 0 \in 0..Len(json') /\ <<>> \in Seq(Spoken)
  BY <1>1
<1> QED
  BY <1>1, <1>2, FreshType DEF ThreadInv, Blocks

LEMMA ThreadKept ==
  ASSUME ThreadInv, UNCHANGED <<script, turn, block, json, pos, scan, told>>, runner # "idle", runner' # "idle",
         queue' \in Seq(Events)
  PROVE  ThreadInv'
BY DEF ThreadInv, Blocks

LEMMA ReceiveThread ==
  ASSUME WholeInv, ThreadInv, Receive
  PROVE  ThreadInv'
<1> DEFINE c == json[pos + 1]
<1>1. runner # "idle" /\ runner' = runner /\ UNCHANGED <<script, turn, block, json>> /\ pos' = pos + 1
  BY DEF Receive, Streaming, ThreadInv, Rest
<1>2. pos \in Nat /\ pos + 1 \in 1..Len(json) /\ json \in Seq(Chars) /\ scan \in ScanType
  BY DEF Receive, ThreadInv
<1>3. c \in Chars
  BY <1>2
<1>4. json # <<>>
  BY <1>2
<1>5. json[1] = "{"
  BY <1>1, <1>4, BlockFacts
<1>6. \/ scan.depth > 0
      \/ scan.at = "done"
      \/ (scan.at = "seek_key" /\ c = "{")
  <2>1. CASE pos = 0
    <3>1. scan = Fresh
      BY <2>1 DEF ThreadInv
    <3>2. c = json[1]
      BY <2>1
    <3> QED
      BY <1>5, <3>1, <3>2 DEF Fresh
  <2>2. CASE pos # 0
    <3>1. pos > 0 /\ scan.at # "done" => scan.depth > 0
      BY DEF ThreadInv
    <3>2. pos > 0
      BY <1>2, <2>2
    <3>3. scan.depth > 0 \/ scan.at = "done"
      BY <3>1, <3>2, Zenon
    <3> QED
      BY <3>3, Zenon
  <2> QED
    BY <2>1, <2>2
<1>7. /\ scan' = Advance(scan, c)
      /\ queue' = queue \o Emitted(scan, c) /\ told' = told \o Emitted(scan, c)
  BY DEF Receive
<1> HIDE DEF c
<1>8. scan' \in ScanType /\ (scan'.at # "done" => scan'.depth > 0)
  BY <1>2, <1>3, <1>6, <1>7, AdvanceType
<1>9. queue' \in Seq(Events) /\ told' \in Seq(Spoken)
  <2>1. /\ queue \in Seq(Events) /\ Emitted(scan, c) \in Seq(Events)
        /\ told \in Seq(Spoken) /\ Emitted(scan, c) \in Seq(Spoken)
    BY <1>2, <1>3, EmittedType DEF ThreadInv
  <2> QED
    BY <1>7, <2>1, ConcatType
<1>10. pos' \in 0..Len(json') /\ pos' # 0
  BY <1>1, <1>2
<1> QED
  BY <1>1, <1>8, <1>9, <1>10 DEF ThreadInv, Blocks

LEMMA EndBlockThread ==
  ASSUME WholeInv, ThreadInv, EndBlock
  PROVE  ThreadInv'
<1>1. /\ runner # "idle" /\ runner' = runner /\ UNCHANGED <<script, turn>>
      /\ block' = block + 1 /\ json' = JsonOf(Blocks, block + 1) /\ pos' = 0 /\ scan' = Fresh
      /\ told' = <<>>
  BY DEF EndBlock, Streaming, ThreadInv, Rest
<1>2. block \in Nat \ {0} /\ block <= Len(Blocks)
  BY DEF EndBlock, Streaming, ThreadInv
<1>3. script \in Scripts /\ block \in DOMAIN Blocks
  <2>1. script \in Scripts /\ Blocks \in Seq(Call)
    BY <1>1, BlockFacts
  <2> QED
    BY <1>2, <2>1
<1>4. queue' = queue \o Finish(Parsed)
  BY DEF EndBlock
<1>5. Finish(Parsed) \in Seq(Events)
  BY <1>1, <1>3, ParsedType, FinishType
<1>6. queue' \in Seq(Events)
  <2>1. queue \in Seq(Events)
    BY DEF ThreadInv
  <2> QED
    BY <1>4, <1>5, <2>1, ConcatType
<1> QED
  BY <1>1, <1>2, <1>3, <1>6, BlockBegins DEF Blocks

LEMMA SignalThread ==
  ASSUME ThreadInv, EndStream \/ FailStream
  PROVE  ThreadInv'
<1>1. "end" \in Types /\ "error" \in Types
  BY DEF Types
<1>2. queue \in Seq(Events) /\ runner # "idle"
  BY DEF ThreadInv, EndStream, FailStream
<1>3. queue' = Append(queue, Signal("end")) \/ queue' = Append(queue, Signal("error"))
  BY DEF EndStream, FailStream
<1>4. queue' \in Seq(Events)
  BY <1>1, <1>2, <1>3, SignalType, AppendIs
<1>5. UNCHANGED <<script, turn, block, json, pos, scan, told, runner>>
  BY DEF EndStream, FailStream, Rest
<1> QED
  BY <1>2, <1>4, <1>5, ThreadKept

LEMMA CutStreamThread ==
  ASSUME WholeInv, ThreadInv, CutStream
  PROVE  ThreadInv'
<1>1. runner # "idle" /\ UNCHANGED <<script, turn, block, json, pos, scan, told, runner>>
  BY DEF CutStream, Streaming, ThreadInv, Rest
<1>2. block \in DOMAIN Blocks
  <2>1. Blocks \in Seq(Call)
    BY <1>1, BlockFacts
  <2> QED
    BY <2>1 DEF CutStream, Streaming, ThreadInv
<1>3. Finish(Parsed) \in Seq(Events) /\ queue \in Seq(Events) /\ Signal("end") \in Events
  BY <1>1, <1>2, ParsedType, FinishType, SignalType DEF ThreadInv, Types
<1>4. Append(Finish(Parsed), Signal("end")) \in Seq(Events)
  BY <1>3, AppendIs
<1>5. queue' = queue \o Append(Finish(Parsed), Signal("end"))
  BY DEF CutStream
<1>6. queue' \in Seq(Events)
  BY <1>3, <1>4, <1>5, ConcatType
<1> QED
  BY <1>1, <1>6, ThreadKept

LEMMA TakeEndThread ==
  ASSUME WholeInv, ThreadInv, TakeEnd
  PROVE  ThreadInv'
<1>1. script \in Scripts /\ turn = 1 /\ block = 1 /\ block \in DOMAIN Blocks /\ runner # "idle"
  BY OneBlock DEF WholeInv, ScriptInv, TakeEnd, Took, Blocks
<1>2. Finish(Parsed) \in Seq(Events)
  BY <1>1, ParsedType, FinishType
<1>3. Signal("done") \in Events
  BY SignalType DEF Types
<1>4. queue' \in Seq(Events)
  BY <1>2, <1>3, AppendIs DEF TakeEnd
<1>5. UNCHANGED <<script, turn, block, json, pos, scan, told, runner>>
  BY DEF TakeEnd, thread
<1> QED
  BY <1>1, <1>4, <1>5, ThreadKept

LEMMA RunnerThread ==
  ASSUME WholeInv, ThreadInv, Runner
  PROVE  ThreadInv'
<1>0. queue \in Seq(Events) /\ <<>> \in Seq(Events)
  BY DEF ThreadInv
<1>1. CASE Publish
  <2>1. queue # <<>> /\ queue' = Tail(queue) /\ runner # "idle"
    BY <1>1 DEF Publish, Took
  <2>2. queue' \in Seq(Events)
    BY <1>0, <2>1
  <2>3. UNCHANGED <<script, turn, block, json, pos, scan, told, runner>>
    BY <1>1 DEF Publish, thread
  <2> QED
    BY <2>1, <2>2, <2>3, ThreadKept
<1>2. CASE TakeError
  BY <1>0, <1>2, ThreadKept DEF TakeError, Took, End, thread
<1>3. CASE TakeEnd
  BY <1>3, TakeEndThread
<1>4. CASE TakeMessage
  <2>1. queue' = <<Signal("done")>> \/ queue' = <<>>
    BY <1>4 DEF TakeMessage
  <2>2. queue' \in Seq(Events)
    BY <1>0, <2>1, SignalType DEF Types
  <2>3. runner # "idle" /\ runner' # "idle" /\ UNCHANGED <<script, turn, block, json, pos, scan, told>>
    BY <1>4 DEF TakeMessage, Took, thread
  <2> QED
    BY <2>2, <2>3, ThreadKept
<1>5. CASE TakeDone
  BY <1>0, <1>5, ThreadKept DEF TakeDone, Took, End, thread
<1>6. CASE CallTool
  BY <1>0, <1>6, ThreadKept DEF CallTool, thread
<1>7. CASE NextTurn
  <2>1. CASE turn < MaxTurns
    <3>1. script' \in Scripts
      BY <1>7, NextTurnWhole DEF WholeInv, ScriptInv
    <3>2. /\ runner' = "consuming" /\ queue' = queue /\ block' = 1 /\ pos' = 0 /\ scan' = Fresh
          /\ json' = JsonOf(Message(script', turn'), block') /\ told' = <<>>
      BY <1>7, <2>1 DEF NextTurn, Begin
    <3> QED
      BY <1>0, <3>1, <3>2, BlockBegins
  <2>2. CASE ~(turn < MaxTurns)
    BY <1>0, <1>7, <2>2, ThreadKept DEF NextTurn, End, thread
  <2> QED
    BY <2>1, <2>2
<1>8. CASE Write
  BY <1>0, <1>8, ThreadKept DEF Write, End, thread
<1>9. CASE PublishUpdated
  BY <1>0, <1>9, ThreadKept DEF PublishUpdated, End, thread
<1> QED
  BY <1>1, <1>2, <1>3, <1>4, <1>5, <1>6, <1>7, <1>8, <1>9 DEF Runner

LEMMA StepThread ==
  ASSUME WholeInv, ThreadInv, [Next]_vars
  PROVE  ThreadInv'
<1>1. CASE Start
  <2>1. script' \in Scripts
    BY <1>1 DEF Start
  <2>2. /\ runner' = "consuming" /\ queue' = <<>> /\ block' = 1 /\ pos' = 0 /\ scan' = Fresh
        /\ json' = JsonOf(Message(script', turn'), block') /\ told' = <<>>
    BY <1>1 DEF Start, Begin
  <2>3. <<>> \in Seq(Events)
    OBVIOUS
  <2> QED
    BY <2>1, <2>2, <2>3, BlockBegins
<1>2. CASE Producer
  BY <1>2, ReceiveThread, EndBlockThread, CutStreamThread, SignalThread DEF Producer
<1>3. CASE Runner
  BY <1>3, RunnerThread
<1>4. CASE Drop \/ Reconnect \/ UNCHANGED vars
  BY <1>4 DEF Drop, Reconnect, vars, thread, ThreadInv, Blocks
<1> QED
  BY <1>1, <1>2, <1>3, <1>4 DEF Next

-----------------------------------------------------------------------------
(* The runner, the record and the page. *)

(* What the page holds. *)
CellInv == cell \in [Fields -> Seq(Chars)] /\ streaming \in [Fields -> BOOLEAN] /\ lost \in BOOLEAN

LEMMA OfType ==
  ASSUME NEW v \in Value
  PROVE  v.of \in Seq(Chars)
BY DEF Value

LEMMA InitPage == Init => PageInv
<1> SUFFICES ASSUME Init
             PROVE  PageInv
  OBVIOUS
<1>1. Initial \in [Fields -> Value] /\ MaxTurns \in Nat \ {0} /\ MaxRounds \in Nat /\ MaxDrops \in Nat
  BY StreamsAssumption DEF StreamsAssumption
<1>2. [f \in Fields |-> Initial[f].of] \in [Fields -> Seq(Chars)]
  BY <1>1, OfType
<1>3. Given(<<>>)
  BY DEF Given
<1>4. drops \in 0..MaxDrops /\ round \in 0..MaxRounds
  BY <1>1 DEF Init
<1>5. cell \in [Fields -> Seq(Chars)] /\ streaming \in [Fields -> BOOLEAN] /\ row \in [Fields -> Value]
  BY <1>1, <1>2 DEF Init
<1>6. Given(result)
  BY <1>3 DEF Init
<1> QED
  BY <1>4, <1>5, <1>6 DEF Init, PageInv

LEMMA ShowType ==
  ASSUME PageInv, NEW e \in Events, Show(e)
  PROVE  CellInv'
<1>1. cell \in [Fields -> Seq(Chars)] /\ streaming \in [Fields -> BOOLEAN] /\ lost' \in BOOLEAN
  BY DEF PageInv, Show
<1>2. CASE ~online \/ e.field \notin Fields
  BY <1>1, <1>2 DEF Show, CellInv
<1>3. CASE online /\ e.field \in Fields
  <2>1. e.value.of \in Seq(Chars)
    BY <1>3, OfType DEF Events
  <2> DEFINE old == IF streaming[e.field] THEN cell[e.field] ELSE <<>>
  <2>2. old \in Seq(Chars)
    BY <1>1, <1>3, EmptyType
  <2>3. cell[e.field] \in Seq(Chars)
    BY <1>1, <1>3
  <2>4. CASE e.type = "field_done"
    <3>1. cell' = [cell EXCEPT ![e.field] = e.value.of] /\ UNCHANGED streaming
      BY <1>3, <2>4 DEF Show
    <3> QED
      BY <1>1, <2>1, <3>1 DEF CellInv
  <2>5. CASE e.type # "field_done"
    <3> DEFINE new == old \o e.value.of
    <3>1. cell' = [cell EXCEPT ![e.field] = new] /\ streaming' = [streaming EXCEPT ![e.field] = TRUE]
      BY <1>3, <2>5 DEF Show
    <3>2. new \in Seq(Chars)
      BY <2>1, <2>2, ConcatType
    <3> HIDE DEF new
    <3> QED
      BY <1>1, <3>1, <3>2 DEF CellInv
  <2> QED
    BY <2>4, <2>5
<1> QED
  BY <1>2, <1>3 DEF PageInv

LEMMA ShowRowType ==
  ASSUME PageInv, NEW r \in [Fields -> Value], ShowRow(r)
  PROVE  CellInv'
<1>1. [f \in Fields |-> r[f].of] \in [Fields -> Seq(Chars)]
  BY OfType
<1> QED
  BY <1>1 DEF PageInv, ShowRow, CellInv

(* A step that leaves the record and the output alone. *)
LEMMA PageKept ==
  ASSUME PageInv, UNCHANGED <<turn, script, row, round>>, UNCHANGED result \/ script.kind # "llm",
         producer' \in {"off", "open"},
         runner' \in {"idle", "consuming", "calls", "write", "publish", "done"},
         outcome' \in {"none", "success", "error", "crashed"},
         online' \in BOOLEAN, drops' \in 0..MaxDrops, CellInv'
  PROVE  PageInv'
BY DEF PageInv, CellInv, Given

LEMMA CellKept ==
  ASSUME PageInv, UNCHANGED <<cell, streaming, lost>>
  PROVE  CellInv'
BY DEF PageInv, CellInv

LEMMA ProducerPage ==
  ASSUME PageInv, Producer
  PROVE  PageInv'
<1>1. UNCHANGED Rest /\ producer' \in {"off", "open"}
  BY DEF Producer, Receive, EndBlock, EndStream, CutStream, FailStream, PageInv
<1> QED
  BY <1>1, PageKept, CellKept DEF Rest, page, PageInv

LEMMA TakeEndPage ==
  ASSUME WholeInv, ThreadInv, PageInv, TakeEnd
  PROVE  PageInv'
<1>1. block \in DOMAIN Blocks /\ runner # "idle"
  BY OneBlock DEF WholeInv, ScriptInv, TakeEnd, Took, Blocks
<1>2. Given(Parsed)
  BY <1>1, ParsedType
<1>3. Given(result')
  BY <1>2 DEF TakeEnd
<1> QED
  BY <1>3 DEF TakeEnd, PageInv, thread, page

(* Given pairs leave the record its type. *)
LEMMA MergeType ==
  ASSUME NEW pairs, Given(pairs), NEW f \in Fields, f \in Keys(pairs)
  PROVE  Get(pairs, f) \in Value
<1> DEFINE i == CHOOSE i \in DOMAIN pairs : pairs[i][1] = f
<1>1. i \in DOMAIN pairs /\ pairs[i][1] = f
  BY DEF Keys
<1>2. Get(pairs, f) = pairs[i][2]
  BY DEF Get
<1> HIDE DEF i
<1> QED
  BY <1>1, <1>2 DEF Given

LEMMA CallToolPage ==
  ASSUME WholeInv, PageInv, CallTool
  PROVE  PageInv'
<1>1. CASE UNCHANGED <<row, cell, streaming, lost>>
  BY <1>1 DEF CallTool, PageInv, thread, Given
<1>2. ASSUME said[call].tool = "update", row' = Update(DataOf(said[call].doc)), ShowRow(row')
      PROVE  PageInv'
  <2> DEFINE data == DataOf(said[call].doc)
  <2>1. Given(data)
    <3>1. ProperCall(said[call])
      BY DEF WholeInv, ScriptInv, SaidInv, CallTool
    <3> QED
      BY <1>2, <3>1, DataFit DEF Fit
  <2>2. \A f \in Filled(data) : f \in Keys(data)
    BY DEF Filled, Keys
  <2> HIDE DEF data
  <2>3. row' = Update(data)
    BY <1>2 DEF data
  <2>4. \A f \in Fields : (IF f \in Filled(data) THEN Get(data, f) ELSE row[f]) \in Value
    BY <2>1, <2>2, MergeType DEF PageInv
  <2>5. row' \in [Fields -> Value]
    BY <2>3, <2>4 DEF Update
  <2>6. CellInv'
    BY <1>2, <2>5, ShowRowType
  <2> QED
    BY <2>5, <2>6 DEF CallTool, PageInv, CellInv, thread, Given
<1> QED
  BY <1>1, <1>2 DEF CallTool

LEMMA WritePage ==
  ASSUME WholeInv, PageInv, Write
  PROVE  PageInv'
<1>1. Given(result)
  BY ScriptShape DEF WholeInv, ScriptInv, Write, PageInv
<1>2. \A f \in Fields : (IF f \in Keys(result) THEN Get(result, f) ELSE row[f]) \in Value
  BY <1>1, MergeType DEF PageInv
<1>3. Merge(result) \in [Fields -> Value]
  BY <1>2 DEF Merge
<1>4. row' \in [Fields -> Value]
  BY <1>3 DEF Write, PageInv
<1>5. runner' \in {"publish", "done"} /\ outcome' \in {"none", "success", "error", "crashed"}
  BY DEF Write, End, PageInv
<1> QED
  BY <1>4, <1>5 DEF Write, PageInv, thread, page, Given

LEMMA RunnerPage ==
  ASSUME WholeInv, ThreadInv, PageInv, Runner
  PROVE  PageInv'
<1>0. /\ cell \in [Fields -> Seq(Chars)] /\ row \in [Fields -> Value] /\ queue \in Seq(Events)
      /\ producer \in {"off", "open"} /\ outcome \in {"none", "success", "error", "crashed"}
      /\ runner \in {"idle", "consuming", "calls", "write", "publish", "done"}
      /\ online \in BOOLEAN /\ drops \in 0..MaxDrops
  BY DEF PageInv, ThreadInv
<1>1. CASE Publish
  <2>1. Head(queue) \in Events
    BY <1>0, <1>1 DEF Publish, Took
  <2>2. CellInv'
    BY <1>1, <2>1, ShowType DEF Publish
  <2> QED
    BY <1>0, <1>1, <2>2, PageKept DEF Publish, thread
<1>2. CASE TakeError
  BY <1>0, <1>2, PageKept, CellKept DEF TakeError, End, thread, page
<1>3. CASE TakeEnd
  BY <1>3, TakeEndPage
<1>4. CASE TakeMessage
  <2>1. script.kind # "llm" /\ runner' \in {"idle", "consuming", "calls", "write", "publish", "done"}
    BY <1>0, <1>4 DEF TakeMessage
  <2> QED
    BY <1>0, <1>4, <2>1, PageKept, CellKept DEF TakeMessage, thread, page
<1>5. CASE TakeDone
  <2>1. /\ runner' \in {"idle", "consuming", "calls", "write", "publish", "done"}
        /\ outcome' \in {"none", "success", "error", "crashed"}
    BY <1>0, <1>5 DEF TakeDone, End
  <2> QED
    BY <1>0, <1>5, <2>1, PageKept, CellKept DEF TakeDone, thread, page
<1>6. CASE CallTool
  BY <1>6, CallToolPage
<1>7. CASE NextTurn
  <2>1. CASE turn < MaxTurns
    <3>1. turn' = turn + 1 /\ producer' = "open" /\ runner' = "consuming" /\ outcome' = outcome
      BY <1>7, <2>1 DEF NextTurn, Begin
    <3> QED
      BY <1>7, <3>1 DEF NextTurn, PageInv, page, Given
  <2>2. CASE ~(turn < MaxTurns)
    BY <1>0, <1>7, <2>2, PageKept, CellKept DEF NextTurn, End, thread, page
  <2> QED
    BY <2>1, <2>2
<1>8. CASE Write
  BY <1>8, WritePage
<1>9. CASE PublishUpdated
  <2>1. CellInv'
    BY <1>0, <1>9, ShowRowType DEF PublishUpdated
  <2> QED
    BY <1>0, <1>9, <2>1, PageKept DEF PublishUpdated, End, thread
<1> QED
  BY <1>1, <1>2, <1>3, <1>4, <1>5, <1>6, <1>7, <1>8, <1>9 DEF Runner

LEMMA StepPage ==
  ASSUME WholeInv, ThreadInv, PageInv, [Next]_vars
  PROVE  PageInv'
<1>1. CASE Start
  <2>1. MaxTurns \in Nat \ {0} /\ MaxRounds \in Nat
    BY StreamsAssumption DEF StreamsAssumption
  <2>2. round' \in 0..MaxRounds
    BY <1>1, <2>1 DEF Start, PageInv
  <2>3. Given(result')
    BY <1>1 DEF Start, Given
  <2> QED
    BY <1>1, <2>2, <2>3 DEF Start, Begin, PageInv
<1>2. CASE Producer
  BY <1>2, ProducerPage
<1>3. CASE Runner
  BY <1>3, RunnerPage
<1>4. CASE Drop
  <2>1. drops' \in 0..MaxDrops
    BY <1>4, StreamsAssumption DEF Drop, PageInv, StreamsAssumption
  <2> QED
    BY <1>4, <2>1, PageKept, CellKept DEF Drop, thread, PageInv
<1>5. CASE Reconnect
  BY <1>5, PageKept, CellKept DEF Reconnect, thread, PageInv
<1>6. CASE UNCHANGED vars
  BY <1>6 DEF vars, thread, page, PageInv, Given
<1> QED
  BY <1>1, <1>2, <1>3, <1>4, <1>5, <1>6 DEF Next

(* Every variable keeps its type.                                          *)
THEOREM TypeCorrect == Spec => []TypeOK
<1> DEFINE Inv == WholeInv /\ ThreadInv /\ PageInv
<1>1. Init => Inv
  BY InitWhole, InitThread, InitPage
<1>2. Inv /\ [Next]_vars => Inv'
  BY StepWhole, StepThread, StepPage DEF ThreadInv
<1>3. Inv => TypeOK
  BY TypeFromInv
<1> HIDE DEF Inv
<1> QED
  BY <1>1, <1>2, <1>3, PTL DEF Spec

-----------------------------------------------------------------------------
(* The JSON of an input is that of no shorter cut of it. *)

LEMMA LenType ==
  ASSUME NEW S, NEW s \in Seq(S)
  PROVE  Len(s) \in Nat /\ DOMAIN s = 1..Len(s) /\ (s # <<>> => Len(s) > 0)
OBVIOUS

LEMMA ConcatLen ==
  ASSUME NEW S, NEW s \in Seq(S), NEW t \in Seq(S)
  PROVE  Len(s \o t) = Len(s) + Len(t)
OBVIOUS

LEMMA SameLetters ==
  ASSUME NEW S, NEW s \in Seq(S), NEW t \in Seq(S), Len(s) = Len(t), \A i \in 1..Len(s) : s[i] = t[i]
  PROVE  s = t
OBVIOUS

LEMMA PrefixAppend ==
  ASSUME NEW S, NEW s \in Seq(S), NEW m \in 1..Len(s), NEW e \in S
  PROVE  /\ SubSeq(s, 1, m - 1) \in Seq(S)
         /\ Append(SubSeq(s, 1, m - 1), e) \in Seq(S) /\ Len(Append(SubSeq(s, 1, m - 1), e)) = m
         /\ Append(SubSeq(s, 1, m - 1), e)[m] = e
         /\ \A i \in 1..(m - 1) : Append(SubSeq(s, 1, m - 1), e)[i] = s[i]
OBVIOUS

(* The text of one pair, with the comma before it. *)
PairText(p, i) ==
  LET text == Quoted(p[1]) \o One(":") \o Json(p[2]) IN IF i = 1 THEN text ELSE One(",") \o text

LEMMA BodyAt ==
  ASSUME NEW doc \in Input
  PROVE  /\ Body(doc) \in Seq(Seq(Chars)) /\ Len(Body(doc)) = Len(doc) /\ Len(doc) \in Nat
         /\ \A i \in 1..Len(doc) : Body(doc)[i] = PairText(doc[i], i)
<1>1. DOMAIN doc = 1..Len(doc) /\ Len(doc) \in Nat
  BY DEF Input
<1>2. DOMAIN PairTexts(doc) = 1..Len(doc)
  BY <1>1 DEF PairTexts
<1>3. \A i \in 1..Len(doc) : PairTexts(doc)[i] = Quoted(doc[i][1]) \o One(":") \o Json(doc[i][2])
  BY <1>1 DEF PairTexts, One
<1>4. \A i \in 1..Len(doc) : Body(doc)[i] = IF i = 1 THEN PairTexts(doc)[i] ELSE One(",") \o PairTexts(doc)[i]
  BY <1>2 DEF Body, Commaed, One
<1> QED
  BY <1>1, <1>3, <1>4, SourceType DEF PairText

(* The pair up to its value: the text is this and the value. *)
Before(k, i) == (IF i = 1 THEN <<>> ELSE One(",")) \o (Quoted(k) \o One(":"))

LEMMA BeforeType ==
  ASSUME NEW k \in Seq(Chars), NEW i
  PROVE  Before(k, i) \in Seq(Chars) /\ Before(k, i) # <<>>
<1> DEFINE c == IF i = 1 THEN <<>> ELSE One(",")
           q == Quoted(k) \o One(":")
<1>1. c \in Seq(Chars)
  BY EmptyType, MarkSeqs
<1>2. Quoted(k) \in Seq(Chars) /\ Quoted(k) # <<>> /\ One(":") \in Seq(Chars)
  BY QuotedIs, MarkSeqs
<1>3. q \in Seq(Chars) /\ q # <<>>
  BY <1>2, ConcatType, ConcatEqualIffEmpty
<1>4. Before(k, i) = c \o q
  BY DEF Before
<1> HIDE DEF c, q
<1> QED
  BY <1>1, <1>3, <1>4, ConcatType, ConcatEqualIffEmpty

LEMMA PairTextIs ==
  ASSUME NEW k \in Seq(Chars), NEW v \in Value \cup List \cup Data, NEW i
  PROVE  /\ PairText(<<k, v>>, i) = Before(k, i) \o Json(v)
         /\ PairText(<<k, v>>, i) \in Seq(Chars) /\ PairText(<<k, v>>, i) # <<>>
<1> DEFINE q == Quoted(k) \o One(":")
           j == Json(v)
<1>1. Quoted(k) \in Seq(Chars) /\ One(":") \in Seq(Chars) /\ One(",") \in Seq(Chars)
  BY QuotedIs, MarkSeqs
<1>2. q \in Seq(Chars)
  BY <1>1, ConcatType
<1>3. j \in Seq(Chars)
  BY JsonType
<1>4. PairText(<<k, v>>, i) = IF i = 1 THEN q \o j ELSE One(",") \o (q \o j)
  BY DEF PairText
<1>5. Before(k, i) = IF i = 1 THEN <<>> \o q ELSE One(",") \o q
  BY DEF Before
<1> HIDE DEF q, j
<1>6. <<>> \o q = q
  BY <1>2
<1>7. One(",") \o (q \o j) = (One(",") \o q) \o j
  <2>1. ASSUME NEW a \in Seq(Chars)
        PROVE  a \o (q \o j) = (a \o q) \o j
    BY ONLY <1>2, <1>3, <2>1, ConcatThree
  <2> QED
    BY <1>1, <2>1, Zenon
<1>8. PairText(<<k, v>>, i) = Before(k, i) \o j
  <2>1. CASE i = 1
    BY <1>4, <1>5, <1>6, <2>1, Zenon
  <2>2. CASE i # 1
    BY <1>4, <1>5, <1>7, <2>2, Zenon
  <2> QED
    BY <2>1, <2>2
<1>9. Before(k, i) \o j \in Seq(Chars) /\ Before(k, i) \o j # <<>>
  <2>1. Before(k, i) \in Seq(Chars) /\ Before(k, i) # <<>>
    BY BeforeType
  <2> QED
    BY <1>3, <2>1, ConcatType, ConcatEqualIffEmpty
<1> QED
  BY <1>8, <1>9 DEF j

(* A cut in the value of one pair. *)
LEMMA CutBody ==
  ASSUME NEW doc \in Input, NEW m \in 1..Len(doc), NEW v \in Value \cup List \cup Data,
         NEW d \in Input, d = Append(SubSeq(doc, 1, m - 1), <<doc[m][1], v>>)
  PROVE  Body(d) = Append(SubSeq(Body(doc), 1, m - 1), PairText(<<doc[m][1], v>>, m))
<1> DEFINE B == Body(doc)
           p == <<doc[m][1], v>>
           t == PairText(p, m)
           x == Append(SubSeq(B, 1, m - 1), t)
           P == Seq(Chars) \X (Value \cup List \cup Data)
<1>1. /\ B \in Seq(Seq(Chars)) /\ Len(B) = Len(doc) /\ Len(doc) \in Nat
      /\ \A i \in 1..Len(doc) : B[i] = PairText(doc[i], i)
  BY BodyAt
<1>2. /\ Body(d) \in Seq(Seq(Chars)) /\ Len(Body(d)) = Len(d)
      /\ \A i \in 1..Len(d) : Body(d)[i] = PairText(d[i], i)
  BY BodyAt
<1>3. doc[m][1] \in Seq(Chars)
  BY DEF Input
<1>4. t \in Seq(Chars)
  BY <1>3, PairTextIs
<1>5. p \in P /\ doc \in Seq(P)
  BY <1>3 DEF Input
<1> HIDE DEF B, p, P
<1>6. Len(d) = m /\ d[m] = p /\ \A j \in 1..(m - 1) : d[j] = doc[j]
  <2>1. d = Append(SubSeq(doc, 1, m - 1), p)
    BY DEF p
  <2> QED
    BY <1>5, <2>1, PrefixAppend
<1>7. Body(d)[m] = t
  <2>1. m \in 1..Len(d)
    BY <1>6
  <2>2. Body(d)[m] = PairText(d[m], m)
    BY <1>2, <2>1
  <2> QED
    BY <1>6, <2>2 DEF t
<1> HIDE DEF t
<1>8. m \in 1..Len(B)
  BY <1>1
<1>9. /\ x \in Seq(Seq(Chars)) /\ Len(x) = m /\ x[m] = t
      /\ \A i \in 1..(m - 1) : x[i] = B[i]
  BY <1>1, <1>4, <1>8, PrefixAppend
<1> HIDE DEF x
<1>10. \A i \in 1..m : Body(d)[i] = x[i]
  <2> SUFFICES ASSUME NEW i \in 1..m
               PROVE  Body(d)[i] = x[i]
    OBVIOUS
  <2>1. CASE i = m
    BY <1>7, <1>9, <2>1
  <2>2. CASE i # m
    <3>1. i \in 1..(m - 1) /\ i \in 1..Len(d) /\ i \in 1..Len(doc)
      BY <1>1, <1>6, <2>2
    <3>2. Body(d)[i] = PairText(d[i], i) /\ d[i] = doc[i]
      BY <1>2, <1>6, <3>1, Zenon
    <3>3. x[i] = B[i]
      BY <1>9, <3>1, Zenon
    <3>4. B[i] = PairText(doc[i], i)
      BY <1>1, <3>1, Zenon
    <3> QED
      BY <3>2, <3>3, <3>4, Zenon
  <2> QED
    BY <2>1, <2>2
<1>11. Body(d) = x
  BY ONLY <1>2, <1>6, <1>9, <1>10, SameLetters
<1> QED
  BY <1>11 DEF x, t, p, B

(* With an element behind it that is not empty, a prefix has more to come.  *)
LEMMA AfterMore ==
  ASSUME NEW S, NEW seqs \in Seq(Seq(S)), NEW n \in 0..(Len(seqs) - 1), seqs[n + 1] # <<>>
  PROVE  After(seqs, n) \in Seq(S) /\ Len(After(seqs, n)) > 0
<1> DEFINE e == seqs[n + 1]
           z == After(seqs, n + 1)
<1>1. After(seqs, n) = e \o z
  BY AfterStep
<1>2. n + 1 \in 1..Len(seqs) /\ n + 1 \in 0..Len(seqs)
  OBVIOUS
<1>3. e \in Seq(S) /\ e # <<>> /\ z \in Seq(S)
  BY <1>2, AfterAll
<1> HIDE DEF e, z
<1>4. Len(e) > 0 /\ Len(e) \in Nat /\ Len(z) \in Nat /\ e \o z \in Seq(S)
  BY <1>3, LenType, ConcatType
<1>5. Len(e \o z) = Len(e) + Len(z)
  BY <1>3, ConcatLen
<1> QED
  BY <1>1, <1>4, <1>5

LEMMA SourceLen ==
  ASSUME NEW x \in Input
  PROVE  Len(Source(x)) = Len(FlattenSeq(Body(x))) + 2 /\ Len(FlattenSeq(Body(x))) \in Nat
<1> DEFINE b == FlattenSeq(Body(x))
           o == One("{")
           c == One("}")
<1>1. b \in Seq(Chars) /\ Source(x) = o \o b \o c
  BY SourceType, FlattenType
<1>2. o \in Seq(Chars) /\ c \in Seq(Chars) /\ Len(o) = 1 /\ Len(c) = 1
  BY MarkSeqs DEF One
<1> HIDE DEF b, o, c
<1>3. o \o b \in Seq(Chars)
  BY <1>1, <1>2, ConcatType
<1>4. Len(Source(x)) = (1 + Len(b)) + 1 /\ Len(b) \in Nat
  BY <1>1, <1>2, <1>3, ConcatLen, LenType
<1> QED
  BY <1>4 DEF b

(* The JSON of a cut is shorter, unless nothing was cut off.                *)
LEMMA CutLength ==
  ASSUME NEW doc \in Input, NEW m \in 1..Len(doc), NEW v \in Value \cup List \cup Data,
         NEW d \in Input, d = Append(SubSeq(doc, 1, m - 1), <<doc[m][1], v>>),
         v = doc[m][2] \/ Len(Json(v)) < Len(Json(doc[m][2]))
  PROVE  d = doc \/ Len(Source(d)) < Len(Source(doc))
<1> DEFINE B == Body(doc)
           k == doc[m][1]
           w == doc[m][2]
           s == SubSeq(B, 1, m - 1)
           t == PairText(<<k, v>>, m)
           u == PairText(<<k, w>>, m)
           rest == After(B, m)
<1>1. /\ B \in Seq(Seq(Chars)) /\ Len(B) = Len(doc) /\ Len(doc) \in Nat
      /\ \A i \in 1..Len(doc) : B[i] = PairText(doc[i], i)
  BY BodyAt
<1>2. k \in Seq(Chars) /\ w \in Value \cup List \cup Data /\ doc[m] = <<k, w>>
  BY DEF Input
<1>3. B[m] = u
  BY <1>1, <1>2
<1>4. /\ t \in Seq(Chars) /\ u \in Seq(Chars) /\ t = Before(k, m) \o Json(v) /\ u = Before(k, m) \o Json(w)
      /\ Before(k, m) \in Seq(Chars) /\ Json(v) \in Seq(Chars) /\ Json(w) \in Seq(Chars)
  BY <1>2, PairTextIs, BeforeType, JsonType
<1>5. Body(d) = Append(s, t)
  BY CutBody
<1>16. v = w \/ Len(Json(v)) < Len(Json(w))
  OBVIOUS
<1> HIDE DEF B, k, w, t, u
<1>6. /\ Len(t) = Len(Before(k, m)) + Len(Json(v)) /\ Len(u) = Len(Before(k, m)) + Len(Json(w))
      /\ Len(t) \in Nat /\ Len(u) \in Nat /\ Len(Before(k, m)) \in Nat
      /\ Len(Json(v)) \in Nat /\ Len(Json(w)) \in Nat
  BY <1>4, ConcatLen, LenType
<1>7. m \in 1..Len(B) /\ m - 1 \in 0..Len(B) /\ m \in 0..Len(B)
  BY <1>1
<1>8. s \in Seq(Seq(Chars))
  BY <1>1, <1>7
<1> DEFINE start == FlattenSeq(s)
<1> HIDE DEF s
<1>9. start \in Seq(Chars) /\ rest \in Seq(Chars)
  BY <1>1, <1>7, <1>8, FlattenType, AfterAll
<1>10. FlattenSeq(Body(d)) = start \o t
  BY <1>4, <1>5, <1>8, FlattenAppend
<1>11. FlattenSeq(B) = start \o (u \o rest)
  <2>1. FlattenSeq(B) = start \o After(B, m - 1)
    BY <1>1, <1>7, AfterSplit DEF s
  <2>2. After(B, m - 1) = B[m] \o After(B, m)
    <3>1. m - 1 \in 0..(Len(B) - 1) /\ (m - 1) + 1 = m
      BY <1>1
    <3> QED
      BY <1>1, <3>1, AfterStep
  <2> QED
    BY <1>3, <2>1, <2>2
<1> HIDE DEF start, rest
<1>12. /\ Len(FlattenSeq(Body(d))) = Len(start) + Len(t)
       /\ Len(FlattenSeq(B)) = Len(start) + (Len(u) + Len(rest))
       /\ Len(start) \in Nat /\ Len(rest) \in Nat
  <2>1. u \o rest \in Seq(Chars)
    BY <1>4, <1>9, ConcatType
  <2> QED
    BY <1>4, <1>9, <1>10, <1>11, <2>1, ConcatLen, LenType
<1>13. /\ Len(Source(d)) = Len(FlattenSeq(Body(d))) + 2 /\ Len(FlattenSeq(Body(d))) \in Nat
       /\ Len(Source(doc)) = Len(FlattenSeq(B)) + 2 /\ Len(FlattenSeq(B)) \in Nat
  BY SourceLen DEF B
<1>14. CASE m = Len(B) /\ v = w
  <2>1. d = Append(SubSeq(doc, 1, m - 1), doc[m]) /\ m = Len(doc)
    BY <1>1, <1>2, <1>14 DEF k, w
  <2> QED
    BY <2>1 DEF Input
<1>15. CASE v # w
  <2>1. Len(Json(v)) < Len(Json(w))
    BY <1>15, <1>16
  <2> QED
    BY ONLY <1>6, <1>12, <1>13, <2>1
<1>17. CASE m # Len(B)
  <2>1. m \in 0..(Len(B) - 1) /\ m + 1 \in 1..Len(doc)
    BY <1>1, <1>7, <1>17
  <2>3. B[m + 1] # <<>>
    <3>1. doc[m + 1][1] \in Seq(Chars) /\ doc[m + 1][2] \in Value \cup List \cup Data
          /\ doc[m + 1] = <<doc[m + 1][1], doc[m + 1][2]>>
      BY <2>1 DEF Input
    <3>2. PairText(doc[m + 1], m + 1) # <<>>
      BY <3>1, PairTextIs, Zenon
    <3> QED
      BY <1>1, <2>1, <3>2
  <2>6. Len(rest) > 0
    BY <1>1, <2>1, <2>3, AfterMore DEF rest
  <2>7. Len(Json(v)) <= Len(Json(w))
    BY <1>6, <1>16
  <2> QED
    BY ONLY <1>6, <1>12, <1>13, <2>6, <2>7
<1> QED
  BY <1>14, <1>15, <1>17

LEMMA LenThree ==
  ASSUME NEW S, NEW s \in Seq(S), NEW t \in Seq(S), NEW u \in Seq(S)
  PROVE  Len(s \o t \o u) = Len(s) + Len(t) + Len(u)
BY ConcatType, ConcatLen

LEMMA Framed ==
  ASSUME NEW S, NEW o \in Seq(S), NEW c \in Seq(S), NEW x \in Seq(S), NEW y \in Seq(S),
         o \o x \o c = o \o y \o c
  PROVE  Len(x) = Len(y)
<1>1. Len(o) + Len(x) + Len(c) = Len(o) + Len(y) + Len(c)
  BY LenThree
<1>2. Len(o) \in Nat /\ Len(c) \in Nat /\ Len(x) \in Nat /\ Len(y) \in Nat
  BY LenType
<1> QED
  BY ONLY <1>1, <1>2

LEMMA LastAppend ==
  ASSUME NEW S, NEW s \in Seq(S), s # <<>>
  PROVE  s = Append(SubSeq(s, 1, Len(s) - 1), s[Len(s)])
OBVIOUS

LEMMA NumberText ==
  ASSUME NEW v \in Value, v.kind = "num", NEW k \in 1..Len(v.of), NEW w,
         w = [v EXCEPT !.of = SubSeq(@, 1, k)]
  PROVE  w \in Value /\ (w = v \/ Len(Json(w)) < Len(Json(v)))
<1>1. v = [kind |-> "num", of |-> v.of] /\ v.of \in Seq(Chars)
  BY DEF Value
<1>2. SubSeq(v.of, 1, k) \in Seq(Chars) /\ Len(SubSeq(v.of, 1, k)) = k
  BY <1>1
<1>3. w = [kind |-> "num", of |-> SubSeq(v.of, 1, k)]
  BY <1>1
<1>4. w \in Value /\ w.kind = "num" /\ w.of = SubSeq(v.of, 1, k)
  BY <1>2, <1>3 DEF Value
<1>5. Json(w) = SubSeq(v.of, 1, k)
  BY <1>4 DEF Json, Flat
<1>6. Json(v) = v.of
  BY DEF Json, Flat
<1>7. CASE k = Len(v.of)
  <2>1. SubSeq(v.of, 1, k) = v.of
    BY <1>1, <1>7
  <2> QED
    BY <1>1, <1>3, <1>4, <2>1
<1>8. CASE k # Len(v.of)
  <2>1. k < Len(v.of)
    BY <1>1, <1>8
  <2> QED
    BY <1>2, <1>4, <1>5, <1>6, <2>1
<1> QED
  BY <1>7, <1>8

(* The elements of a list, with the commas between them. *)
Elements(l) == Commaed([i \in DOMAIN l |-> Quoted(l[i])])

LEMMA ElementsIs ==
  ASSUME NEW l \in Seq(Seq(Chars))
  PROVE  /\ Elements(l) \in Seq(Seq(Chars)) /\ Len(Elements(l)) = Len(l) /\ Len(l) \in Nat
         /\ \A i \in 1..Len(l) : /\ Elements(l)[i] = IF i = 1 THEN Quoted(l[i]) ELSE One(",") \o Quoted(l[i])
                                 /\ Elements(l)[i] # <<>>
<1> DEFINE parts == [i \in DOMAIN l |-> Quoted(l[i])]
<1>1. \A i \in 1..Len(l) : Quoted(l[i]) \in Seq(Chars) /\ Quoted(l[i]) # <<>>
  BY QuotedIs
<1>2. Len(l) \in Nat /\ DOMAIN l = 1..Len(l)
  OBVIOUS
<1>3. parts \in [1..Len(l) -> Seq(Chars)] /\ \A i \in 1..Len(l) : parts[i] = Quoted(l[i])
  BY <1>1, <1>2
<1>4. Elements(l) = Commaed(parts)
  BY DEF Elements
<1> HIDE DEF parts
<1>5. parts \in Seq(Seq(Chars)) /\ Len(parts) = Len(l) /\ DOMAIN parts = 1..Len(l)
  BY <1>2, <1>3, FunctionType
<1>6. Elements(l) \in Seq(Seq(Chars)) /\ Len(Elements(l)) = Len(l)
  BY <1>4, <1>5, CommaedType
<1>7. \A i \in 1..Len(l) : Elements(l)[i] = IF i = 1 THEN Quoted(l[i]) ELSE One(",") \o Quoted(l[i])
  BY <1>3, <1>4, <1>5 DEF Commaed, One
<1>8. \A i \in 1..Len(l) : One(",") \o Quoted(l[i]) # <<>>
  <2> DEFINE o == One(",")
  <2>1. o \in Seq(Chars)
    BY MarkSeqs
  <2> HIDE DEF o
  <2>2. \A q \in Seq(Chars) : q # <<>> => o \o q # <<>>
    BY <2>1
  <2> QED
    BY <1>1, <2>2 DEF o
<1> QED
  BY <1>1, <1>2, <1>6, <1>7, <1>8

LEMMA ListJson ==
  ASSUME NEW l \in Seq(Seq(Chars)), NEW v, v = [kind |-> "list", of |-> l]
  PROVE  /\ v \in List /\ Len(Json(v)) = Len(FlattenSeq(Elements(l))) + 2
         /\ Len(FlattenSeq(Elements(l))) \in Nat
<1> DEFINE parts == [i \in DOMAIN l |-> Quoted(l[i])]
           x == FlattenSeq(Elements(l))
           o == One("[")
           c == One("]")
<1>1. v \in List /\ v.kind = "list" /\ v.of = l
  BY DEF List
<1>2. Json(v) = o \o Joined(parts) \o c
  BY <1>1 DEF Json, Flat, One
<1>3. Joined(parts) = x
  BY DEF Joined, Elements, Commaed
<1>4. x \in Seq(Chars)
  BY ElementsIs, FlattenType
<1>5. o \in Seq(Chars) /\ c \in Seq(Chars) /\ Len(o) = 1 /\ Len(c) = 1
  BY MarkSeqs DEF One
<1> HIDE DEF x, o, c, parts
<1>6. Json(v) = o \o x \o c
  BY <1>2, <1>3
<1>8. Len(o \o x \o c) = Len(o) + Len(x) + Len(c)
  <2>1. o \o x \in Seq(Chars) /\ Len(o \o x) = Len(o) + Len(x)
    BY ONLY <1>4, <1>5, ConcatType, ConcatLen
  <2> DEFINE y == o \o x
  <2> HIDE DEF y
  <2>2. Len(y \o c) = Len(y) + Len(c)
    BY ONLY <1>5, <2>1, ConcatLen DEF y
  <2> QED
    BY <2>1, <2>2 DEF y
<1>9. Len(x) \in Nat
  BY ONLY <1>4, LenType, Zenon
<1>7. Len(Json(v)) = Len(x) + 2 /\ Len(x) \in Nat
  BY ONLY <1>5, <1>6, <1>8, <1>9
<1> QED
  BY <1>1, <1>7 DEF x

LEMMA ListText ==
  ASSUME NEW v \in List, NEW k \in 0..Len(v.of), NEW w, w = [v EXCEPT !.of = SubSeq(@, 1, k)]
  PROVE  w = v \/ Len(Json(w)) < Len(Json(v))
<1> DEFINE l == v.of
           h == SubSeq(l, 1, k)
           E == Elements(l)
<1>1. v = [kind |-> "list", of |-> l] /\ l \in Seq(Seq(Chars)) /\ Len(l) \in Nat
  BY DEF List
<1>2. w = [kind |-> "list", of |-> h]
  BY <1>1 DEF List
<1>3. h \in Seq(Seq(Chars)) /\ Len(h) = k /\ \A i \in 1..k : h[i] = l[i]
  BY <1>1
<1>4. k = Len(l) => h = l
  BY <1>1
<1>5. /\ E \in Seq(Seq(Chars)) /\ Len(E) = Len(l)
      /\ \A i \in 1..Len(l) : /\ E[i] = IF i = 1 THEN Quoted(l[i]) ELSE One(",") \o Quoted(l[i])
                              /\ E[i] # <<>>
  BY <1>1, ElementsIs
<1>6. /\ Elements(h) \in Seq(Seq(Chars)) /\ Len(Elements(h)) = k
      /\ \A i \in 1..k : Elements(h)[i] = IF i = 1 THEN Quoted(h[i]) ELSE One(",") \o Quoted(h[i])
  BY <1>3, ElementsIs
<1>11. /\ Len(Json(v)) = Len(FlattenSeq(E)) + 2 /\ Len(FlattenSeq(E)) \in Nat
       /\ Len(Json(w)) = Len(FlattenSeq(Elements(h))) + 2 /\ Len(FlattenSeq(Elements(h))) \in Nat
  BY <1>1, <1>2, <1>3, ListJson
<1>12. k \in 0..Len(l)
  OBVIOUS
<1> HIDE DEF l, h, E
<1>7. CASE k = Len(l)
  BY <1>1, <1>2, <1>4, <1>7
<1>8. CASE k # Len(l)
  <2>0. E \in Seq(Seq(Chars)) /\ Len(E) = Len(l) /\ Len(l) \in Nat
    BY <1>1, <1>5, Zenon
  <2>1. k \in 0..(Len(E) - 1) /\ k \in 0..Len(E) /\ k + 1 \in 1..Len(l)
    BY <1>8, <1>12, <2>0
  <2>9. E[k + 1] # <<>>
    BY <1>5, <2>1, Zenon
  <2>2. SubSeq(E, 1, k) \in Seq(Seq(Chars)) /\ Len(SubSeq(E, 1, k)) = k
        /\ \A i \in 1..k : SubSeq(E, 1, k)[i] = E[i]
    BY <2>0, <2>1
  <2>3. \A i \in 1..k : Elements(h)[i] = SubSeq(E, 1, k)[i]
    <3> SUFFICES ASSUME NEW i \in 1..k
                 PROVE  Elements(h)[i] = E[i]
      BY <2>2
    <3>1. h[i] = l[i] /\ i \in 1..Len(l)
      BY <1>3, <1>12, <2>0
    <3>2. E[i] = IF i = 1 THEN Quoted(l[i]) ELSE One(",") \o Quoted(l[i])
      BY <1>5, <3>1, Zenon
    <3>3. Elements(h)[i] = IF i = 1 THEN Quoted(h[i]) ELSE One(",") \o Quoted(h[i])
      BY <1>6, Zenon
    <3> QED
      BY ONLY <3>1, <3>2, <3>3, Zenon
  <2>4. Elements(h) = SubSeq(E, 1, k)
    BY ONLY <1>6, <2>2, <2>3, SameLetters
  <2>5. FlattenSeq(E) = FlattenSeq(Elements(h)) \o After(E, k)
    BY <2>0, <2>1, <2>4, AfterSplit
  <2>6. After(E, k) \in Seq(Chars) /\ Len(After(E, k)) > 0
    BY <2>0, <2>1, <2>9, AfterMore
  <2>7. FlattenSeq(Elements(h)) \in Seq(Chars)
    BY <1>6, FlattenType
  <2>8. Len(FlattenSeq(E)) = Len(FlattenSeq(Elements(h))) + Len(After(E, k)) /\ Len(After(E, k)) \in Nat
    BY <2>5, <2>6, <2>7, ConcatLen, LenType
  <2> QED
    BY ONLY <1>11, <2>6, <2>8
<1> QED
  BY <1>7, <1>8

(* What a cut leaves of a value is shorter, or all of it. *)
LEMMA PartText ==
  ASSUME NEW v \in Value \cup List, NEW w \in Parts(v)
  PROVE  w = v \/ Len(Json(w)) < Len(Json(v))
<1>1. CASE v.kind = "text"
  BY <1>1, PartIs
<1>2. CASE v.kind = "num"
  <2>1. v \in Value
    BY <1>2 DEF List
  <2>2. PICK k \in DOMAIN v.of : w = [v EXCEPT !.of = SubSeq(@, 1, k)]
    BY <1>2 DEF Parts
  <2>3. k \in 1..Len(v.of)
    BY <2>1 DEF Value
  <2> QED
    BY <1>2, <2>1, <2>2, <2>3, NumberText
<1>3. CASE v.kind = "list"
  <2>1. v \in List
    BY <1>3 DEF Value
  <2>2. PICK k \in 0..Len(v.of) : w = [v EXCEPT !.of = SubSeq(@, 1, k)]
    BY <1>3 DEF Parts
  <2> QED
    BY <2>1, <2>2, ListText
<1> QED
  BY <1>1, <1>2, <1>3 DEF Value, List

LEMMA EmptyShorter ==
  ASSUME NEW doc \in Input, doc # <<>>
  PROVE  Len(Source(<<>>)) < Len(Source(doc))
<1> DEFINE B == Body(doc)
<1>1. B \in Seq(Seq(Chars)) /\ Len(B) = Len(doc) /\ \A i \in 1..Len(doc) : B[i] = PairText(doc[i], i)
  BY BodyAt
<1>2. 1 \in 1..Len(doc) /\ Len(doc) \in Nat
  BY DEF Input
<1>3. doc[1][1] \in Seq(Chars) /\ doc[1][2] \in Value \cup List \cup Data
      /\ doc[1] = <<doc[1][1], doc[1][2]>>
  BY <1>2 DEF Input
<1>4. PairText(doc[1], 1) # <<>>
  BY <1>3, PairTextIs, Zenon
<1>5. Len(Source(doc)) = Len(FlattenSeq(B)) + 2 /\ Len(FlattenSeq(B)) \in Nat
  BY SourceLen
<1> HIDE DEF B
<1>6. 0 \in 0..(Len(B) - 1) /\ 0 + 1 = 1 /\ B[1] # <<>>
  BY <1>1, <1>2, <1>4
<1>7. Len(After(B, 0)) > 0
  BY <1>1, <1>6, AfterMore
<1>8. FlattenSeq(B) = After(B, 0)
  BY <1>1, AfterAll
<1>9. <<>> \in Input
  BY DEF Input
<1>10. FlattenSeq(Body(<<>>)) = <<>>
  <2>1. Len(Body(<<>>)) = Len(<<>>) /\ Body(<<>>) \in Seq(Seq(Chars))
    BY <1>9, BodyAt
  <2>2. Body(<<>>) = <<>>
    BY <2>1
  <2> QED
    BY <2>2, FlattenEmpty
<1>11. Len(Source(<<>>)) = 0 + 2
  BY <1>9, <1>10, SourceLen
<1>12. Len(FlattenSeq(B)) > 0
  BY <1>7, <1>8
<1> DEFINE x == Len(Source(<<>>))
           y == Len(Source(doc))
           z == Len(FlattenSeq(B))
<1>13. x = 0 + 2 /\ y = z + 2 /\ z \in Nat /\ z > 0
  BY ONLY <1>5, <1>11, <1>12, Zenon
<1> HIDE DEF x, y, z
<1>14. x < y
  BY ONLY <1>13
<1> QED
  BY <1>14 DEF x, y

LEMMA FlatInput ==
  ASSUME NEW pairs \in FlatPairs
  PROVE  pairs \in Input
BY DEF FlatPairs, Input

LEMMA FlatCutShorter ==
  ASSUME NEW pairs \in FlatPairs, NEW d \in CutAt(pairs, Parts)
  PROVE  d \in FlatPairs /\ (d = pairs \/ Len(Source(d)) < Len(Source(pairs)))
<1>1. CASE d = <<>>
  <2>1. d \in FlatPairs
    BY <1>1 DEF FlatPairs
  <2> QED
    BY <1>1, <2>1, FlatInput, EmptyShorter
<1>2. ASSUME NEW m \in DOMAIN pairs, NEW v \in Parts(pairs[m][2]), d = CutBy(pairs, m, v)
      PROVE  d \in FlatPairs /\ (d = pairs \/ Len(Source(d)) < Len(Source(pairs)))
  <2>1. /\ pairs \in Seq(Seq(Chars) \X (Value \cup List)) /\ m \in 1..Len(pairs)
        /\ pairs[m][1] \in Seq(Chars) /\ pairs[m][2] \in Value \cup List
    BY DEF FlatPairs
  <2>2. v \in Value \cup List /\ (v = pairs[m][2] \/ Len(Json(v)) < Len(Json(pairs[m][2])))
    BY <2>1, PartIs, PartText
  <2>3. <<pairs[m][1], v>> \in Seq(Chars) \X (Value \cup List)
    BY <2>1, <2>2
  <2>4. d \in FlatPairs
    BY <1>2, <2>1, <2>3, CutByType DEF FlatPairs
  <2>5. d = Append(SubSeq(pairs, 1, m - 1), <<pairs[m][1], v>>)
    BY <1>2 DEF CutBy
  <2>6. pairs \in Input /\ d \in Input /\ v \in Value \cup List \cup Data
    BY <2>2, <2>4, FlatInput
  <2> QED
    BY <2>1, <2>2, <2>4, <2>5, <2>6, CutLength
<1> QED
  BY <1>1, <1>2 DEF CutAt, CutBy

LEMMA AllPartText ==
  ASSUME NEW v \in Value \cup List \cup Data, NEW w \in AllParts(v)
  PROVE  w \in Value \cup List \cup Data /\ (w = v \/ Len(Json(w)) < Len(Json(v)))
<1>1. CASE v.kind = "data"
  <2>1. v \in Data /\ v.of \in FlatPairs /\ v = [kind |-> "data", of |-> v.of]
    BY <1>1 DEF Value, List, Data, FlatPairs
  <2>2. PICK d \in CutAt(v.of, Parts) : w = [v EXCEPT !.of = d]
    BY <1>1 DEF AllParts
  <2>3. d \in FlatPairs /\ (d = v.of \/ Len(Source(d)) < Len(Source(v.of)))
    BY <2>1, FlatCutShorter
  <2>4. w = [kind |-> "data", of |-> d]
    BY <2>1, <2>2
  <2>5. w \in Data /\ w.kind = "data" /\ w.of = d
    BY <2>3, <2>4 DEF Data, FlatPairs
  <2>6. Json(w) = Source(d) /\ Json(v) = Source(v.of)
    BY <1>1, <2>1, <2>3, <2>5, DataJson
  <2> QED
    BY <2>1, <2>3, <2>4, <2>5, <2>6
<1>2. CASE v.kind # "data"
  <2>1. v \in Value \cup List
    BY <1>2 DEF Data
  <2>2. w \in Parts(v)
    BY <1>2 DEF AllParts
  <2> QED
    BY <2>1, <2>2, PartIs, PartText
<1> QED
  BY <1>1, <1>2

(* The whole JSON is that of no shorter input. *)
LEMMA CutsApart ==
  ASSUME NEW doc \in Input, NEW d \in Cuts(doc), Source(d) = Source(doc)
  PROVE  d = doc
<1>1. Len(Source(doc)) \in Nat
  BY SourceHead, LenType
<1>2. CASE d = <<>>
  BY <1>1, <1>2, EmptyShorter
<1>3. ASSUME NEW m \in DOMAIN doc, NEW v \in AllParts(doc[m][2]), d = CutBy(doc, m, v)
      PROVE  d = doc
  <2>1. /\ doc \in Seq(Seq(Chars) \X (Value \cup List \cup Data)) /\ m \in 1..Len(doc)
        /\ doc[m][1] \in Seq(Chars) /\ doc[m][2] \in Value \cup List \cup Data
    BY DEF Input
  <2>2. /\ v \in Value \cup List \cup Data
        /\ v = doc[m][2] \/ Len(Json(v)) < Len(Json(doc[m][2]))
    BY <2>1, AllPartText
  <2>3. <<doc[m][1], v>> \in Seq(Chars) \X (Value \cup List \cup Data)
    BY <2>1, <2>2
  <2>4. d \in Input
    BY <1>3, <2>1, <2>3, CutByType DEF Input
  <2>5. d = Append(SubSeq(doc, 1, m - 1), <<doc[m][1], v>>)
    BY <1>3 DEF CutBy
  <2>6. d = doc \/ Len(Source(d)) < Len(Source(doc))
    BY <2>1, <2>2, <2>4, <2>5, CutLength
  <2> QED
    BY <1>1, <2>6
<1> QED
  BY <1>2, <1>3 DEF Cuts, CutAt, CutBy

(* The input is one of its cuts: the last one. *)
LEMMA LastCut ==
  ASSUME NEW S, NEW pairs \in Seq(S), pairs # <<>>, \A i \in DOMAIN pairs : pairs[i] = <<pairs[i][1], pairs[i][2]>>
  PROVE  LET m == Len(pairs) IN m \in DOMAIN pairs /\ pairs = CutBy(pairs, m, pairs[m][2])
<1>1. Len(pairs) \in DOMAIN pairs
  OBVIOUS
<1>2. pairs = Append(SubSeq(pairs, 1, Len(pairs) - 1), pairs[Len(pairs)])
  BY LastAppend
<1> QED
  BY <1>1, <1>2 DEF CutBy

LEMMA WholePart ==
  ASSUME NEW v \in Value \cup List, v.kind = "num" => v.of # <<>>
  PROVE  v \in Parts(v)
<1>1. CASE v.kind = "text"
  BY <1>1 DEF Parts
<1>2. CASE v.kind = "num"
  <2>1. v \in Value /\ v.of \in Seq(Chars) /\ v.of # <<>>
    BY <1>2 DEF Value, List
  <2>2. Len(v.of) \in DOMAIN v.of /\ SubSeq(v.of, 1, Len(v.of)) = v.of
    BY <2>1
  <2>3. v = [v EXCEPT !.of = SubSeq(@, 1, Len(v.of))]
    BY <2>1, <2>2 DEF Value
  <2> QED
    BY <1>2, <2>2, <2>3 DEF Parts
<1>3. CASE v.kind = "list"
  <2>1. v \in List /\ v.of \in Seq(Seq(Chars))
    BY <1>3 DEF Value, List
  <2>2. Len(v.of) \in 0..Len(v.of) /\ SubSeq(v.of, 1, Len(v.of)) = v.of
    BY <2>1
  <2>3. v = [v EXCEPT !.of = SubSeq(@, 1, Len(v.of))]
    BY <2>1, <2>2 DEF List
  <2> QED
    BY <1>3, <2>2, <2>3 DEF Parts
<1> QED
  BY <1>1, <1>2, <1>3 DEF Value, List

LEMMA FlatWholeCut ==
  ASSUME NEW pairs \in FlatPairs, Sound(pairs)
  PROVE  pairs \in CutAt(pairs, Parts)
<1>1. CASE pairs = <<>>
  BY <1>1 DEF CutAt
<1>2. CASE pairs # <<>>
  <2> DEFINE P == Seq(Chars) \X (Value \cup List)
             m == Len(pairs)
  <2>0. pairs \in Seq(P) /\ \A i \in DOMAIN pairs : pairs[i] = <<pairs[i][1], pairs[i][2]>>
    BY DEF FlatPairs
  <2> HIDE DEF P
  <2>1. m \in DOMAIN pairs /\ pairs = CutBy(pairs, m, pairs[m][2])
    BY <1>2, <2>0, LastCut
  <2> HIDE DEF m
  <2>2. pairs[m][2] \in Value \cup List
    BY <2>1 DEF FlatPairs
  <2>3. pairs[m][2].kind = "num" => pairs[m][2].of # <<>>
    BY <2>1 DEF Sound
  <2>4. pairs[m][2] \in Parts(pairs[m][2])
    BY <2>2, <2>3, WholePart
  <2>5. pairs \in {CutBy(pairs, m, v) : v \in Parts(pairs[m][2])}
    BY <2>1, <2>4
  <2> QED
    BY <2>1, <2>5 DEF CutAt, CutBy
<1> QED
  BY <1>1, <1>2

LEMMA WholeCut ==
  ASSUME NEW doc \in Input, \A pairs \in Nested(doc) : Sound(pairs)
  PROVE  doc \in Cuts(doc)
<1>1. CASE doc = <<>>
  BY <1>1 DEF Cuts, CutAt
<1>2. CASE doc # <<>>
  <2> DEFINE P == Seq(Chars) \X (Value \cup List \cup Data)
             m == Len(doc)
             v == doc[m][2]
  <2>0. doc \in Seq(P) /\ \A i \in DOMAIN doc : doc[i] = <<doc[i][1], doc[i][2]>>
    BY PairShape DEF Input
  <2> HIDE DEF P
  <2>1. m \in DOMAIN doc /\ doc = CutBy(doc, m, doc[m][2])
    BY <1>2, <2>0, LastCut
  <2> HIDE DEF m
  <2>2. v \in Value \cup List \cup Data /\ doc[m] \in ToSet(doc)
    BY <2>1, PairShape
  <2>3. v \in AllParts(v)
    <3>1. CASE v.kind = "data"
      <4>1. v \in Data /\ v.of \in FlatPairs /\ v = [v EXCEPT !.of = v.of]
        BY <2>2, <3>1 DEF Value, List, Data, FlatPairs
      <4>2. v.of \in Nested(doc)
        BY <2>2, <3>1 DEF Nested
      <4>3. v.of \in CutAt(v.of, Parts)
        BY <4>1, <4>2, FlatWholeCut
      <4> QED
        BY <3>1, <4>1, <4>3 DEF AllParts
    <3>2. CASE v.kind # "data"
      <4>1. v \in Value \cup List
        BY <2>2, <3>2 DEF Data
      <4>2. v.kind = "num" => v.of # <<>>
        BY <2>1 DEF Sound, Nested
      <4> QED
        BY <3>2, <4>1, <4>2, WholePart DEF AllParts
    <3> QED
      BY <3>1, <3>2
  <2>4. doc \in {CutBy(doc, m, x) : x \in AllParts(doc[m][2])}
    BY <2>1, <2>3
  <2> QED
    BY <2>1, <2>4 DEF Cuts, CutAt, CutBy
<1> QED
  BY <1>1, <1>2

LEMMA CountType ==
  ASSUME NEW text \in Seq(Chars), NEW c
  PROVE  Count(text, c) \in Nat
<1>1. IsFiniteSet(DOMAIN text)
  BY FS_Interval
<1>2. {i \in DOMAIN text : text[i] = c} \in SUBSET DOMAIN text
  OBVIOUS
<1>3. IsFiniteSet({i \in DOMAIN text : text[i] = c})
  BY <1>1, <1>2, FS_Subset
<1> QED
  BY <1>3, FS_CardinalityType DEF Count

(* A whole answer with its braces closed parses to what the model wrote.   *)
LEMMA ParsedWhole ==
  ASSUME WholeInv, ThreadInv, runner # "idle", block \in DOMAIN Blocks, pos = Len(json), Balanced
  PROVE  Parsed = Doc
<1>1. /\ Doc \in Input /\ json = Source(Doc) /\ json \in Seq(Chars)
      /\ \A pairs \in Nested(Doc) : Sound(pairs)
  BY BlockFacts, DocSound
<1>2. SubSeq(json, 1, pos) = json
  BY <1>1
<1>3. Closed(json) = json
  <2>1. Count(json, "{") \in Nat /\ Count(json, "}") \in Nat
    BY <1>1, CountType
  <2> DEFINE a == Count(json, "{")
             b == Count(json, "}")
  <2>2. a <= b
    BY DEF Balanced
  <2> HIDE DEF a, b
  <2>3. a \in Nat /\ b \in Nat
    BY <2>1, Zenon DEF a, b
  <2>4. ~(a - b > 0)
    BY ONLY <2>2, <2>3
  <2> QED
    BY <2>4, Zenon DEF Closed, a, b
<1> DEFINE fits == {d \in Cuts(Doc) : Source(d) = Closed(SubSeq(json, 1, pos))}
<1>4. fits = {Doc}
  <2>1. Doc \in fits
    BY <1>1, <1>2, <1>3, WholeCut
  <2>2. \A d \in fits : d = Doc
    BY <1>1, <1>2, <1>3, CutsApart
  <2> QED
    BY <2>1, <2>2
<1>5. Parsed = IF fits = {} THEN <<>> ELSE CHOOSE d \in fits : TRUE
  BY DEF Parsed
<1> HIDE DEF fits
<1> QED
  BY <1>4, <1>5

-----------------------------------------------------------------------------
(* A whole answer: its parse, what is stored of it, and what is shown. *)

Final == {"end", "error", "done"}

(* The last event of a stream follows the end of its thread, and the event  *)
(* of the output its parse.                                                *)
QueueInv ==
  \A i \in DOMAIN queue : /\ queue[i].type \in Final => producer = "off"
                          /\ queue[i].type = "done" => result = Parsed

(* From there on the thread adds nothing to what was parsed. *)
Held == runner \in {"write", "publish"} \/ (runner = "done" /\ outcome = "success")
HeldInv == Held => producer = "off" /\ result = Parsed

(* What is stored of it and shown. *)
Stored == Keys(result) \cap Fields # {} /\ (runner = "publish" \/ (runner = "done" /\ outcome = "success"))
StoredInv == Stored => \A f \in Fields \cap Keys(result) : row[f] = Get(result, f)
ShownInv == Stored /\ runner = "done" /\ ~lost => \A f \in Fields : cell[f] = row[f].of

AnswerInv == script.kind = "llm" => QueueInv /\ HeldInv /\ StoredInv /\ ShownInv

(* The parse of what has been received. *)
ParsedFrom(text, n, doc) ==
  LET fits == {d \in Cuts(doc) : Source(d) = Closed(SubSeq(text, 1, n))}
  IN  IF fits = {} THEN <<>> ELSE CHOOSE d \in fits : TRUE

LEMMA ParsedKept ==
  ASSUME UNCHANGED <<script, turn, block, json, pos>>
  PROVE  Parsed' = Parsed
<1>1. Parsed = ParsedFrom(json, pos, Doc) /\ Parsed' = ParsedFrom(json', pos', Doc')
  BY DEF Parsed, ParsedFrom
<1>2. Doc' = Doc
  BY DEF Doc, Blocks
<1> QED
  BY <1>1, <1>2

LEMMA TailAt ==
  ASSUME NEW S, NEW s \in Seq(S), s # <<>>, NEW i \in DOMAIN Tail(s)
  PROVE  i + 1 \in DOMAIN s /\ Tail(s)[i] = s[i + 1]
OBVIOUS

LEMMA AppendAt ==
  ASSUME NEW S, NEW s \in Seq(S), NEW e \in S, NEW i \in DOMAIN Append(s, e)
  PROVE  (i \in DOMAIN s /\ Append(s, e)[i] = s[i]) \/ Append(s, e)[i] = e
OBVIOUS

LEMMA EmittedEvents ==
  ASSUME NEW s \in ScanType, NEW c \in Chars, NEW i \in DOMAIN Emitted(s, c)
  PROVE  Emitted(s, c)[i].type \notin Final
<1>1. \/ Emitted(s, c) = <<>>
      \/ Emitted(s, c) = <<Event("field_done", s.key, Text(s.val))>>
      \/ Emitted(s, c) = <<Event("field_delta", s.key, Text(<<IF s.esc THEN Decode(c) ELSE c>>))>>
  BY DEF Emitted
<1>2. \A e : i \in DOMAIN <<e>> => <<e>>[i] = e
  OBVIOUS
<1>3. \A k, v : Event("field_done", k, v).type \notin Final /\ Event("field_delta", k, v).type \notin Final
  BY DEF Event, Final
<1> QED
  BY <1>1, <1>2, <1>3

LEMMA FinishEvents ==
  ASSUME NEW doc \in Input
  PROVE  \A i \in DOMAIN Finish(doc) : /\ Finish(doc)[i].type \notin Final
                                      /\ Finish(doc)[i].value.kind # "text"
<1> DEFINE V == {v \in Value \cup List \cup Data : v.kind # "text"}
           E == [type : {"field_done"}, field : Seq(Chars), value : V]
           F(i) == IF doc[i][2].kind = "text" THEN <<>> ELSE <<Event("field_done", doc[i][1], doc[i][2])>>
<1>1. \A i \in 1..Len(doc) : F(i) \in Seq(E)
  <2> SUFFICES ASSUME NEW i \in 1..Len(doc)
               PROVE  F(i) \in Seq(E)
    OBVIOUS
  <2>1. <<>> \in Seq(E)
    OBVIOUS
  <2>2. doc[i][1] \in Seq(Chars) /\ doc[i][2] \in Value \cup List \cup Data
    BY DEF Input
  <2>3. doc[i][2].kind # "text" => Event("field_done", doc[i][1], doc[i][2]) \in E
    BY <2>2 DEF Event
  <2> HIDE DEF E
  <2>4. doc[i][2].kind # "text" => <<Event("field_done", doc[i][1], doc[i][2])>> \in Seq(E)
    BY <2>3, OneType
  <2> QED
    BY <2>1, <2>4
<1>2. Len(doc) \in Nat /\ DOMAIN doc = 1..Len(doc)
  BY DEF Input
<1>3. Finish(doc) = FlattenSeq([i \in 1..Len(doc) |-> F(i)])
  BY <1>2 DEF Finish
<1> HIDE DEF F, E
<1>4. [i \in 1..Len(doc) |-> F(i)] \in Seq(Seq(E))
  <2>1. [i \in 1..Len(doc) |-> F(i)] \in [1..Len(doc) -> Seq(E)]
    BY <1>1
  <2> QED
    BY <1>2, <2>1, FunctionType
<1>5. Finish(doc) \in Seq(E)
  BY <1>3, <1>4, FlattenType
<1>6. \A i \in DOMAIN Finish(doc) : Finish(doc)[i] \in E
  BY <1>5
<1> QED
  BY <1>6 DEF E, Final

LEMMA InitAnswer == Init => AnswerInv
BY DEF Init, AnswerInv, QueueInv, HeldInv, StoredInv, ShownInv, Held, Stored

LEMMA StartAnswer ==
  ASSUME Start
  PROVE  AnswerInv'
BY DEF Start, AnswerInv, QueueInv, HeldInv, StoredInv, ShownInv, Held, Stored

(* A step that adds events before the end of the stream, or the end. *)
LEMMA ProducerAnswer ==
  ASSUME WholeInv, ThreadInv, AnswerInv, Producer
  PROVE  AnswerInv'
<1> SUFFICES ASSUME script.kind = "llm"
             PROVE  QueueInv' /\ HeldInv' /\ StoredInv' /\ ShownInv'
  BY DEF AnswerInv, Producer, Receive, EndBlock, EndStream, CutStream, FailStream, Rest
<1>1. producer = "open" /\ QueueInv /\ HeldInv
  BY DEF AnswerInv, Producer, Receive, EndBlock, EndStream, CutStream, FailStream, Streaming
<1>2. UNCHANGED Rest
  BY DEF Producer, Receive, EndBlock, EndStream, CutStream, FailStream
<1>3. ~Held /\ ~Held'
  BY <1>1, <1>2 DEF HeldInv, Held, Rest
<1>4. HeldInv' /\ StoredInv' /\ ShownInv'
  BY <1>3 DEF HeldInv, StoredInv, ShownInv, Held, Stored
<1>5. \A i \in DOMAIN queue : queue[i].type \notin Final
  BY <1>1 DEF QueueInv
<1>6. queue \in Seq(Events) /\ scan \in ScanType
  BY DEF ThreadInv
<1>7. "done" \in Final
  BY DEF Final
<1>8. QueueInv'
  <2>1. CASE Receive
    <3> DEFINE c == json[pos + 1]
               new == Emitted(scan, c)
    <3>1. c \in Chars
      BY <2>1 DEF Receive, ThreadInv
    <3>2. queue' = queue \o new
      BY <2>1 DEF Receive
    <3>3. new \in Seq(Events) /\ \A i \in DOMAIN new : new[i].type \notin Final
      BY <1>6, <3>1, EmittedType, EmittedEvents
    <3> HIDE DEF new
    <3>4. \A i \in DOMAIN queue' : queue'[i].type \notin Final
      BY <1>5, <1>6, <3>2, <3>3, ConcatAt
    <3> QED
      BY <1>7, <3>4 DEF QueueInv
  <2>2. CASE EndBlock \/ CutStream
    BY <2>2 DEF EndBlock, CutStream
  <2>3. CASE EndStream \/ FailStream
    <3>1. PICK t \in {"end", "error"} : queue' = Append(queue, Signal(t))
      BY <2>3 DEF EndStream, FailStream
    <3>2. Signal(t) \in Events /\ Signal(t).type # "done"
      BY SignalType DEF Types, Signal, Event
    <3>3. \A i \in DOMAIN queue' : queue'[i].type # "done"
      BY <1>5, <1>6, <1>7, <3>1, <3>2, AppendAt
    <3>4. producer' = "off"
      BY <2>3 DEF EndStream, FailStream
    <3> QED
      BY <3>3, <3>4 DEF QueueInv
  <2> QED
    BY <2>1, <2>2, <2>3 DEF Producer
<1> QED
  BY <1>4, <1>8

LEMMA RunnerAnswer ==
  ASSUME WholeInv, ThreadInv, PageInv, AnswerInv, Runner
  PROVE  AnswerInv'
<1>0. UNCHANGED script
  BY DEF Runner, Publish, TakeError, TakeEnd, TakeMessage, TakeDone, CallTool, NextTurn, Write, PublishUpdated
<1> SUFFICES ASSUME script.kind = "llm"
             PROVE  QueueInv' /\ HeldInv' /\ StoredInv' /\ ShownInv'
  BY <1>0 DEF AnswerInv
<1>1. /\ QueueInv /\ HeldInv /\ StoredInv /\ ShownInv /\ runner # "calls" /\ queue \in Seq(Events)
  BY DEF AnswerInv, WholeInv, ScriptInv, ThreadInv
<1>2. ~TakeMessage /\ ~CallTool /\ ~NextTurn
  BY <1>1 DEF TakeMessage, CallTool, NextTurn
<1>3. UNCHANGED thread /\ UNCHANGED <<turn, producer>>
  BY <1>2 DEF Runner, Publish, TakeError, TakeEnd, TakeDone, Write, PublishUpdated, thread
<1>4. Parsed' = Parsed
  BY <1>0, <1>3, ParsedKept DEF thread
<1>5. CASE Publish
  <2>1. ~Held' /\ queue # <<>> /\ queue' = Tail(queue) /\ result' = result
    BY <1>5 DEF Publish, Took, Held
  <2>2. \A i \in DOMAIN queue' : i + 1 \in DOMAIN queue /\ queue'[i] = queue[i + 1]
    BY <1>1, <2>1, TailAt
  <2>3. QueueInv'
    BY <1>1, <1>3, <1>4, <2>1, <2>2 DEF QueueInv
  <2> QED
    BY <2>1, <2>3 DEF HeldInv, StoredInv, ShownInv, Held, Stored
<1>6. CASE TakeError
  BY <1>6 DEF TakeError, End, QueueInv, HeldInv, StoredInv, ShownInv, Held, Stored
<1>7. CASE TakeEnd
  <2>1. ~Held' /\ result' = Parsed
    BY <1>7 DEF TakeEnd, Took, Held
  <2>2. producer = "off"
    <3>1. queue # <<>> /\ queue[1].type = "end" /\ 1 \in DOMAIN queue
      BY <1>1, <1>7 DEF TakeEnd, Took
    <3> QED
      BY <1>1, <3>1 DEF QueueInv, Final
  <2>3. QueueInv'
    BY <1>3, <1>4, <2>1, <2>2 DEF QueueInv
  <2> QED
    BY <2>1, <2>3 DEF HeldInv, StoredInv, ShownInv, Held, Stored
<1>8. CASE TakeDone
  <2>1. queue' = <<>> /\ runner' = "write" /\ result' = result
    BY <1>8 DEF TakeDone
  <2>2. producer = "off" /\ result = Parsed
    <3>1. queue # <<>> /\ queue[1].type = "done" /\ 1 \in DOMAIN queue
      BY <1>1, <1>8 DEF TakeDone, Took
    <3> QED
      BY <1>1, <3>1 DEF QueueInv, Final
  <2> QED
    BY <1>3, <1>4, <2>1, <2>2 DEF QueueInv, HeldInv, StoredInv, ShownInv, Held, Stored
<1>9. CASE Write
  <2>1. producer = "off" /\ result = Parsed /\ UNCHANGED <<queue, result>>
    BY <1>1, <1>9 DEF Write, HeldInv, Held
  <2>2. QueueInv' /\ HeldInv'
    BY <1>1, <1>3, <1>4, <2>1 DEF QueueInv, HeldInv
  <2>3. CASE Keys(result) \cap Fields = {}
    <3>1. Keys(result') \cap Fields = {}
      BY <2>1, <2>3
    <3>2. ~Stored'
      BY <3>1 DEF Stored, Keys
    <3> QED
      BY <2>2, <3>2 DEF StoredInv, ShownInv
  <2>4. CASE row' = Merge(result) /\ runner' = "publish"
    <3>1. \A f \in Fields \cap Keys(result) : row'[f] = Get(result, f)
      BY <2>4 DEF Merge
    <3>2. \A f \in Fields \cap Keys(result') : row'[f] = Get(result', f)
      BY <2>1, <3>1
    <3>3. StoredInv' /\ ShownInv'
      BY <2>4, <3>2 DEF StoredInv, ShownInv, Keys, Get
    <3> QED
      BY <2>2, <3>3
  <2>5. CASE runner' = "done" /\ outcome' = "crashed"
    BY <2>2, <2>5 DEF StoredInv, ShownInv, Stored
  <2> QED
    BY <1>9, <2>3, <2>4, <2>5 DEF Write, End
<1>10. CASE PublishUpdated
  <2>1. /\ producer = "off" /\ result = Parsed /\ UNCHANGED <<queue, result, row, online>>
        /\ runner = "publish" /\ runner' = "done"
    BY <1>1, <1>10 DEF PublishUpdated, HeldInv, Held, End
  <2>2. QueueInv' /\ HeldInv'
    BY <1>1, <1>3, <1>4, <2>1 DEF QueueInv, HeldInv
  <2>3. StoredInv'
    BY <1>1, <2>1 DEF StoredInv, Stored, Keys, Get
  <2>4. ShownInv'
    BY <1>10, <2>1 DEF PublishUpdated, ShowRow, ShownInv
  <2> QED
    BY <2>2, <2>3, <2>4
<1> QED
  BY <1>2, <1>5, <1>6, <1>7, <1>8, <1>9, <1>10 DEF Runner

LEMMA StepAnswer ==
  ASSUME WholeInv, ThreadInv, PageInv, AnswerInv, [Next]_vars
  PROVE  AnswerInv'
<1>1. CASE Start
  BY <1>1, StartAnswer
<1>2. CASE Producer
  BY <1>2, ProducerAnswer
<1>3. CASE Runner
  BY <1>3, RunnerAnswer
<1>4. CASE Drop \/ Reconnect \/ UNCHANGED vars
  <2>1. UNCHANGED <<script, turn, thread, queue, runner, result, outcome, row, cell, lost>>
    BY <1>4 DEF Drop, Reconnect, vars, page
  <2>2. Parsed' = Parsed
    BY <2>1, ParsedKept DEF thread
  <2> QED
    BY <2>1, <2>2 DEF AnswerInv, QueueInv, HeldInv, StoredInv, ShownInv, Held, Stored, thread, Keys, Get
<1> QED
  BY <1>1, <1>2, <1>3, <1>4 DEF Next

LEMMA PageFromInv ==
  ASSUME WholeInv, ThreadInv, AnswerInv
  PROVE  PageShowsRecord
<1> SUFFICES ASSUME Answered, Balanced, ~lost, Keys(Doc) \cap Fields # {}
             PROVE  /\ \A f \in Fields : cell[f] = row[f].of
                    /\ \A f \in Fields \cap Keys(Doc) : row[f] = Get(Doc, f)
  BY DEF PageShowsRecord
<1>1. /\ script.kind = "llm" /\ runner = "done" /\ outcome = "success" /\ pos = Len(json)
      /\ HeldInv /\ StoredInv /\ ShownInv
  BY DEF Answered, WholeAnswer, AnswerInv
<1>2. block \in DOMAIN Blocks
  BY <1>1, OneBlock DEF WholeInv, ScriptInv, Blocks
<1>3. result = Doc
  BY <1>1, <1>2, ParsedWhole DEF HeldInv, Held
<1>4. Stored
  BY <1>1, <1>3 DEF Stored
<1> QED
  BY <1>1, <1>3, <1>4 DEF StoredInv, ShownInv

(* After a whole answer with an output field the record holds it and every  *)
(* cell of the page what the record holds.                                 *)
THEOREM PageCorrect == Spec => []PageShowsRecord
<1> DEFINE Inv == WholeInv /\ ThreadInv /\ PageInv /\ AnswerInv
<1>1. Init => Inv
  BY InitWhole, InitThread, InitPage, InitAnswer
<1>2. Inv /\ [Next]_vars => Inv'
  BY StepWhole, StepThread, StepPage, StepAnswer DEF ThreadInv
<1>3. Inv => PageShowsRecord
  BY PageFromInv
<1> HIDE DEF Inv
<1> QED
  BY <1>1, <1>2, <1>3, PTL DEF Spec

-----------------------------------------------------------------------------
(* What there is to tell of each pair of an input. *)
PairEvents(p) == IF p[2].kind = "text" THEN TextEvents(p[1], p[2].of) ELSE DataEvents(p[2])
Telling(pairs) == [i \in DOMAIN pairs |-> PairEvents(pairs[i])]

(* Of a text after its first n letters. *)
Untold(k, t, n) == SubSeq(TextEvents(k, t), n + 1, Len(t) + 1)

(* An object of the JSON while it is read: its pairs, how deep it is, what  *)
(* follows it and what there is to tell then; and what follows one of its   *)
(* pairs, and is to be told then.                                          *)
Follow(c, m) == After(Body(c.pairs), m) \o (One("}") \o c.rest)
Outer(doc) == [pairs |-> doc, depth |-> 1, rest |-> <<>>, todo |-> <<>>]
Inner(doc, n) == [pairs |-> doc[n][2].of, depth |-> 2, rest |-> Follow(Outer(doc), n),
                  todo |-> After(Telling(doc), n)]
Frames(doc) == {Outer(doc)} \cup {Inner(doc, n) : n \in {m \in DOMAIN doc : doc[m][2].kind = "data"}}
Later(c, m) == After(Telling(c.pairs), m) \o c.todo
Now(c, i) == PairEvents(c.pairs[i]) \o Later(c, i)
Told(doc) == doc \in Input /\ \A pairs \in Nested(doc) : Sound(pairs) /\ PlainPairs(pairs)

(* What there is of a pair and behind it. *)
AfterColon(c, i) == Json(c.pairs[i][2]) \o Follow(c, i)
AfterKey(c, i) == One(":") \o AfterColon(c, i)
AfterQuote(c, i) == FlattenSeq(Letters(c.pairs[i][1])) \o (One(Quote) \o AfterKey(c, i))
PairRest(c, i) == One(Quote) \o AfterQuote(c, i)

(* Sequences of characters, put together. *)
LEMMA Join ==
  ASSUME NEW s \in Seq(Chars), NEW t \in Seq(Chars)
  PROVE  /\ s \o t \in Seq(Chars) /\ (s # <<>> \/ t # <<>> => s \o t # <<>>)
         /\ \A u \in Seq(Chars) : s \o t \o u = s \o (t \o u)
<1>1. s \o t \in Seq(Chars)
  BY ConcatType
<1>2. s # <<>> \/ t # <<>> => s \o t # <<>>
  BY ConcatEqualIffEmpty
<1>3. ASSUME NEW u \in Seq(Chars)
      PROVE  s \o t \o u = s \o (t \o u)
  BY ConcatThree
<1> QED
  BY <1>1, <1>2, <1>3

LEMMA Assoc ==
  ASSUME NEW s \in Seq(Chars), NEW t \in Seq(Chars), NEW u \in Seq(Chars)
  PROVE  s \o t \o u = s \o (t \o u)
BY ConcatThree

LEMMA OneChar ==
  ASSUME NEW c \in Chars, NEW s \in Seq(Chars)
  PROVE  /\ One(c) \in Seq(Chars) /\ One(c) # <<>> /\ One(c) \o s \in Seq(Chars) /\ One(c) \o s # <<>>
         /\ Head(One(c) \o s) = c /\ Tail(One(c) \o s) = s
<1>1. One(c) \in Seq(Chars) /\ One(c) # <<>>
  BY OneType DEF One
<1> QED
  BY <1>1, FirstIs

LEMMA EmptyJoin ==
  ASSUME NEW s \in Seq(Chars)
  PROVE  <<>> \o s = s /\ s \o <<>> = s
OBVIOUS

LEMMA FollowType ==
  ASSUME NEW c, c.pairs \in Input, c.rest \in Seq(Chars), NEW m \in 0..Len(c.pairs)
  PROVE  Follow(c, m) \in Seq(Chars) /\ Follow(c, m) # <<>>
<1>1. Body(c.pairs) \in Seq(Seq(Chars)) /\ Len(Body(c.pairs)) = Len(c.pairs)
  BY BodyAt
<1>2. After(Body(c.pairs), m) \in Seq(Chars)
  BY <1>1, AfterAll
<1>3. "}" \in Chars
  BY MarkChars
<1>4. One("}") \o c.rest \in Seq(Chars) /\ One("}") \o c.rest # <<>>
  BY <1>3, OneChar, Zenon
<1> QED
  BY <1>2, <1>4, Join, Zenon DEF Follow

LEMMA FollowEnd ==
  ASSUME NEW c, c.pairs \in Input, c.rest \in Seq(Chars)
  PROVE  Follow(c, Len(c.pairs)) = One("}") \o c.rest
<1>1. Body(c.pairs) \in Seq(Seq(Chars)) /\ Len(Body(c.pairs)) = Len(c.pairs)
  BY BodyAt
<1>2. After(Body(c.pairs), Len(c.pairs)) = <<>>
  BY <1>1, AfterAll
<1>3. "}" \in Chars
  BY MarkChars
<1>4. One("}") \o c.rest \in Seq(Chars)
  BY <1>3, OneChar, Zenon
<1> QED
  BY <1>2, <1>4, EmptyJoin, Zenon DEF Follow

(* What a pair consists of. *)
LEMMA PairFacts ==
  ASSUME NEW c, c.pairs \in Input, c.rest \in Seq(Chars), NEW i \in 1..Len(c.pairs)
  PROVE  /\ c.pairs[i][1] \in Seq(Chars) /\ c.pairs[i][2] \in Value \cup List \cup Data
         /\ c.pairs[i] = <<c.pairs[i][1], c.pairs[i][2]>>
         /\ Follow(c, i) \in Seq(Chars) /\ Json(c.pairs[i][2]) \in Seq(Chars)
         /\ AfterColon(c, i) \in Seq(Chars) /\ AfterKey(c, i) \in Seq(Chars)
         /\ AfterQuote(c, i) \in Seq(Chars) /\ PairRest(c, i) \in Seq(Chars)
<1>1. /\ c.pairs[i][1] \in Seq(Chars) /\ c.pairs[i][2] \in Value \cup List \cup Data
      /\ c.pairs[i] = <<c.pairs[i][1], c.pairs[i][2]>> /\ i \in 0..Len(c.pairs)
  BY DEF Input
<1>2. Follow(c, i) \in Seq(Chars) /\ Json(c.pairs[i][2]) \in Seq(Chars)
  BY <1>1, FollowType, JsonType
<1>3. AfterColon(c, i) \in Seq(Chars)
  BY <1>2, Join DEF AfterColon
<1>4. ":" \in Chars /\ Quote \in Chars
  BY MarkChars
<1>5. AfterKey(c, i) \in Seq(Chars)
  BY <1>3, <1>4, OneChar, Zenon DEF AfterKey
<1>6. One(Quote) \o AfterKey(c, i) \in Seq(Chars)
  BY <1>4, <1>5, OneChar, Zenon
<1>7. FlattenSeq(Letters(c.pairs[i][1])) \in Seq(Chars)
  BY <1>1, LettersType, FlattenType
<1>8. AfterQuote(c, i) \in Seq(Chars)
  BY <1>6, <1>7, Join, Zenon DEF AfterQuote
<1>9. PairRest(c, i) \in Seq(Chars)
  BY <1>4, <1>8, OneChar, Zenon DEF PairRest
<1> QED
  BY <1>1, <1>2, <1>3, <1>5, <1>8, <1>9

LEMMA PairSplit ==
  ASSUME NEW c, c.pairs \in Input, c.rest \in Seq(Chars), NEW i \in 1..Len(c.pairs)
  PROVE  Before(c.pairs[i][1], i) \o Json(c.pairs[i][2]) \o Follow(c, i)
           = (IF i = 1 THEN <<>> ELSE One(",")) \o PairRest(c, i)
<1> DEFINE k == c.pairs[i][1]
           j == Json(c.pairs[i][2])
           f == Follow(c, i)
           x == IF i = 1 THEN <<>> ELSE One(",")
           l == FlattenSeq(Letters(k))
           q == One(Quote)
           o == One(":")
<1>1. k \in Seq(Chars) /\ j \in Seq(Chars) /\ f \in Seq(Chars)
  BY PairFacts
<1>2. l \in Seq(Chars)
  BY <1>1, LettersType, FlattenType
<1>3. q \in Seq(Chars) /\ o \in Seq(Chars)
  BY MarkSeqs
<1>4. x \in Seq(Chars)
  BY EmptyType, MarkSeqs
<1>5. Quoted(k) = q \o l \o q
  BY <1>1, QuotedIs
<1>6. Before(k, i) = x \o (q \o l \o q \o o)
  BY <1>5 DEF Before
<1>7. PairRest(c, i) = q \o (l \o (q \o (o \o (j \o f))))
  BY DEF PairRest, AfterQuote, AfterKey, AfterColon
<1> HIDE DEF k, j, f, x, l, q, o
<1>8. x \o (q \o l \o q \o o) \o j \o f = x \o (q \o (l \o (q \o (o \o (j \o f)))))
  <2>1. q \o l \o q \o o = q \o (l \o (q \o o))
    <3>1. q \o l \o q = q \o (l \o q) /\ l \o q \in Seq(Chars)
      BY ONLY <1>2, <1>3, Assoc, ConcatType
    <3>2. q \o (l \o q) \o o = q \o (l \o q \o o)
      BY ONLY <1>3, <3>1, Assoc
    <3>3. l \o q \o o = l \o (q \o o)
      BY ONLY <1>2, <1>3, Assoc
    <3> QED
      BY <3>1, <3>2, <3>3
  <2> DEFINE z == l \o (q \o o)
             w == j \o f
  <2>2. q \o o \in Seq(Chars) /\ z \in Seq(Chars) /\ q \o z \in Seq(Chars) /\ w \in Seq(Chars)
    BY <1>1, <1>2, <1>3, Join
  <2> HIDE DEF w
  <2>3. z \o w = l \o (q \o (o \o w))
    <3>1. z \o w = l \o (q \o o \o w)
      BY ONLY <1>2, <2>2, Assoc DEF z
    <3>2. q \o o \o w = q \o (o \o w)
      BY ONLY <1>3, <2>2, Assoc
    <3> QED
      BY <3>1, <3>2
  <2> HIDE DEF z
  <2>4. x \o (q \o z) \o j \o f = x \o (q \o z) \o w
    <3>1. x \o (q \o z) \in Seq(Chars)
      BY ONLY <1>4, <2>2, ConcatType
    <3> DEFINE y == x \o (q \o z)
    <3> HIDE DEF y
    <3>2. y \in Seq(Chars)
      BY <3>1 DEF y
    <3>3. y \o j \o f = y \o (j \o f)
      BY ONLY <1>1, <3>2, Assoc
    <3> QED
      BY <3>3 DEF y, w
  <2>5. x \o (q \o z) \o w = x \o (q \o z \o w)
    BY ONLY <1>4, <2>2, Assoc
  <2>6. q \o z \o w = q \o (z \o w)
    BY ONLY <1>3, <2>2, Assoc
  <2> QED
    BY <2>1, <2>3, <2>4, <2>5, <2>6 DEF z, w
<1> QED
  BY <1>6, <1>7, <1>8 DEF k, j, f, x

LEMMA FollowMore ==
  ASSUME NEW c, c.pairs \in Input, c.rest \in Seq(Chars), NEW m \in 0..(Len(c.pairs) - 1)
  PROVE  /\ m + 1 \in 1..Len(c.pairs)
         /\ Follow(c, m) = (IF m = 0 THEN <<>> ELSE One(",")) \o PairRest(c, m + 1)
<1> DEFINE B == Body(c.pairs)
           i == m + 1
           e == One("}") \o c.rest
<1>1. /\ B \in Seq(Seq(Chars)) /\ Len(B) = Len(c.pairs) /\ Len(c.pairs) \in Nat
      /\ \A n \in 1..Len(c.pairs) : B[n] = PairText(c.pairs[n], n)
  BY BodyAt
<1>2. i \in 1..Len(c.pairs) /\ i \in 0..Len(B) /\ m \in 0..(Len(B) - 1) /\ (i = 1 <=> m = 0)
  BY <1>1
<1>3. /\ c.pairs[i][1] \in Seq(Chars) /\ c.pairs[i][2] \in Value \cup List \cup Data
      /\ c.pairs[i] = <<c.pairs[i][1], c.pairs[i][2]>> /\ Json(c.pairs[i][2]) \in Seq(Chars)
  BY <1>2, PairFacts
<1> HIDE DEF B
<1>4. After(B, m) = B[i] \o After(B, i)
  BY <1>1, <1>2, AfterStep
<1>5. B[i] = Before(c.pairs[i][1], i) \o Json(c.pairs[i][2]) /\ B[i] \in Seq(Chars)
  <2>1. B[i] = PairText(c.pairs[i], i)
    BY <1>1, <1>2
  <2> QED
    <3>1. /\ PairText(<<c.pairs[i][1], c.pairs[i][2]>>, i) = Before(c.pairs[i][1], i) \o Json(c.pairs[i][2])
          /\ PairText(<<c.pairs[i][1], c.pairs[i][2]>>, i) \in Seq(Chars)
      BY <1>3, PairTextIs
    <3>2. c.pairs[i] = <<c.pairs[i][1], c.pairs[i][2]>>
      BY <1>3
    <3> QED
      BY <2>1, <3>1, <3>2, Zenon
<1>6. After(B, i) \in Seq(Chars)
  BY <1>1, <1>2, AfterAll
<1>7. "}" \in Chars
  BY MarkChars
<1>8. e \in Seq(Chars)
  BY <1>7, OneChar, Zenon
<1> HIDE DEF i, e
<1>9. After(B, m) \o e = B[i] \o (After(B, i) \o e)
  <2>1. B[i] \o After(B, i) \o e = B[i] \o (After(B, i) \o e)
    BY <1>5, <1>6, <1>8, Assoc, Zenon
  <2> QED
    BY <1>4, <2>1, Zenon
<1>10. Follow(c, m) = B[i] \o Follow(c, i)
  BY <1>9, Zenon DEF Follow, B, e
<1>11. Follow(c, m) = (IF i = 1 THEN <<>> ELSE One(",")) \o PairRest(c, i)
  BY <1>2, <1>5, <1>10, PairSplit, Zenon
<1> QED
  BY <1>2, <1>11, Zenon DEF i

-----------------------------------------------------------------------------
(* What there is to tell, pair by pair. *)
LEMMA OneLeft ==
  ASSUME NEW S, NEW s \in Seq(S), NEW n \in 1..Len(s)
  PROVE  SubSeq(s, n, n) = <<s[n]>>
<1>1. s[n] \in S /\ SubSeq(s, n, n) \in Seq(S) /\ Len(SubSeq(s, n, n)) = 1 /\ SubSeq(s, n, n)[1] = s[n]
  OBVIOUS
<1>2. <<s[n]>> \in Seq(S) /\ Len(<<s[n]>>) = 1 /\ <<s[n]>>[1] = s[n]
  BY <1>1
<1> DEFINE p == SubSeq(s, n, n)
           q == <<s[n]>>
<1> HIDE DEF p, q
<1>3. p \in Seq(S) /\ q \in Seq(S) /\ Len(p) = 1 /\ Len(q) = 1 /\ p[1] = q[1]
  BY <1>1, <1>2 DEF p, q
<1>4. p = q
  BY ONLY <1>3
<1> QED
  BY <1>4 DEF p, q

LEMMA EmptyFirst ==
  ASSUME NEW S, NEW s \in Seq(S)
  PROVE  <<>> \o s = s
OBVIOUS

LEMMA TextEventsIs ==
  ASSUME NEW k \in Seq(Chars), NEW t \in Seq(Chars)
  PROVE  /\ TextEvents(k, t) \in Seq(Spoken) /\ Len(TextEvents(k, t)) = Len(t) + 1
         /\ \A i \in 1..Len(t) : TextEvents(k, t)[i] = Event("field_delta", k, Text(<<t[i]>>))
         /\ TextEvents(k, t)[Len(t) + 1] = Event("field_done", k, Text(t))
<1> DEFINE d(i) == Event("field_delta", k, Text(<<t[i]>>))
           z == Event("field_done", k, Text(t))
           q == [i \in 1..Len(t) |-> d(i)]
<1>1. \A i \in 1..Len(t) : d(i) \in Spoken
  <2> SUFFICES ASSUME NEW i \in 1..Len(t)
               PROVE  d(i) \in Spoken
    OBVIOUS
  <2>1. <<t[i]>> \in Seq(Chars)
    BY OneType
  <2> QED
    BY <2>1, SpokenEvent
<1>2. z \in Spoken
  BY SpokenEvent
<1>3. TextEvents(k, t) = Append(q, z) /\ Len(t) \in Nat
  BY DEF TextEvents
<1> HIDE DEF d, z
<1>4. q \in [1..Len(t) -> Spoken] /\ \A i \in 1..Len(t) : q[i] = d(i)
  BY <1>1
<1> HIDE DEF q
<1>5. q \in Seq(Spoken) /\ Len(q) = Len(t)
  BY <1>3, <1>4, FunctionType
<1>6. /\ Append(q, z) \in Seq(Spoken) /\ Len(Append(q, z)) = Len(q) + 1
      /\ \A i \in 1..Len(q) : Append(q, z)[i] = q[i]
      /\ Append(q, z)[Len(q) + 1] = z
  BY <1>2, <1>5
<1> QED
  BY <1>3, <1>4, <1>5, <1>6 DEF d, z

LEMMA UntoldIs ==
  ASSUME NEW k \in Seq(Chars), NEW t \in Seq(Chars), NEW n \in 0..Len(t)
  PROVE  /\ Untold(k, t, n) \in Seq(Spoken)
         /\ n = 0 => Untold(k, t, n) = TextEvents(k, t)
         /\ n # Len(t) => Untold(k, t, n) = <<Event("field_delta", k, Text(<<t[n + 1]>>))>> \o Untold(k, t, n + 1)
         /\ n = Len(t) => Untold(k, t, n) = <<Event("field_done", k, Text(t))>>
<1> DEFINE w == TextEvents(k, t)
<1>1. w \in Seq(Spoken) /\ Len(w) = Len(t) + 1 /\ Len(t) \in Nat
  BY TextEventsIs
<1>2. n # Len(t) => w[n + 1] = Event("field_delta", k, Text(<<t[n + 1]>>))
  <2>1. n # Len(t) => n + 1 \in 1..Len(t)
    OBVIOUS
  <2> QED
    BY <2>1, TextEventsIs
<1>3. w[Len(t) + 1] = Event("field_done", k, Text(t))
  BY TextEventsIs
<1>4. Untold(k, t, n) = SubSeq(w, n + 1, Len(w)) /\ Untold(k, t, n + 1) = SubSeq(w, (n + 1) + 1, Len(w))
  BY <1>1 DEF Untold
<1> HIDE DEF w
<1>5. SubSeq(w, n + 1, Len(w)) \in Seq(Spoken)
  BY <1>1
<1>6. n = 0 => SubSeq(w, n + 1, Len(w)) = w
  BY <1>1
<1>7. n # Len(t) => SubSeq(w, n + 1, Len(w)) = <<w[n + 1]>> \o SubSeq(w, (n + 1) + 1, Len(w))
  BY <1>1
<1>8. n = Len(t) => SubSeq(w, n + 1, Len(w)) = <<w[Len(t) + 1]>>
  <2>1. Len(w) \in 1..Len(w)
    BY <1>1
  <2>2. SubSeq(w, Len(w), Len(w)) = <<w[Len(w)]>>
    BY <1>1, <2>1, OneLeft
  <2> QED
    BY <1>1, <2>2
<1> QED
  BY <1>2, <1>3, <1>4, <1>5, <1>6, <1>7, <1>8 DEF w

LEMMA SimpleEvents ==
  ASSUME NEW p, p[1] \in Seq(Chars), p[2] \in Value \cup List
  PROVE  /\ PairEvents(p) \in Seq(Spoken)
         /\ PairEvents(p) = IF p[2].kind = "text" THEN TextEvents(p[1], p[2].of) ELSE <<>>
<1>1. p[2].kind # "data"
  BY DEF Value, List
<1>2. PairEvents(p) = IF p[2].kind = "text" THEN TextEvents(p[1], p[2].of) ELSE <<>>
  BY <1>1 DEF PairEvents, DataEvents
<1>3. p[2].kind = "text" => p[2].of \in Seq(Chars)
  BY DEF Value, List
<1>4. p[2].kind = "text" => TextEvents(p[1], p[2].of) \in Seq(Spoken)
  BY <1>3, TextEventsIs
<1> QED
  BY <1>2, <1>4

LEMMA FlatTelling ==
  ASSUME NEW pairs \in FlatPairs
  PROVE  /\ Telling(pairs) \in Seq(Seq(Spoken))
         /\ EventsOf(pairs, NoEvents) = FlattenSeq(Telling(pairs))
<1> DEFINE q(i) == IF pairs[i][2].kind = "text" THEN TextEvents(pairs[i][1], pairs[i][2].of) ELSE <<>>
<1>1. \A i \in DOMAIN pairs : pairs[i][1] \in Seq(Chars) /\ pairs[i][2] \in Value \cup List
  BY DEF FlatPairs
<1>2. \A i \in DOMAIN pairs : PairEvents(pairs[i]) \in Seq(Spoken) /\ PairEvents(pairs[i]) = q(i)
  BY <1>1, SimpleEvents
<1>3. EventsOf(pairs, NoEvents) = FlattenSeq([i \in DOMAIN pairs |-> q(i)])
  BY DEF EventsOf, NoEvents
<1> HIDE DEF q
<1>4. Telling(pairs) = [i \in DOMAIN pairs |-> q(i)]
  BY <1>2 DEF Telling
<1>5. DOMAIN pairs = 1..Len(pairs) /\ Len(pairs) \in Nat
  BY DEF FlatPairs
<1>6. Telling(pairs) \in [1..Len(pairs) -> Seq(Spoken)]
  BY <1>2, <1>5 DEF Telling
<1> QED
  BY <1>3, <1>4, <1>5, <1>6, FunctionType

LEMMA PairEventsType ==
  ASSUME NEW p, p[1] \in Seq(Chars), p[2] \in Value \cup List \cup Data
  PROVE  /\ PairEvents(p) \in Seq(Spoken)
         /\ p[2].kind = "text" => PairEvents(p) = TextEvents(p[1], p[2].of)
         /\ p[2].kind \in {"num", "list"} => PairEvents(p) = <<>>
         /\ p[2].kind = "data" => PairEvents(p) = FlattenSeq(Telling(p[2].of))
<1>1. CASE p[2] \in Value \cup List
  <2>1. p[2].kind # "data"
    BY <1>1 DEF Value, List
  <2> QED
    BY <1>1, <2>1, SimpleEvents
<1>2. CASE p[2] \in Data
  <2>1. p[2].kind = "data" /\ p[2].of \in FlatPairs
    BY <1>2 DEF Data, FlatPairs
  <2>2. PairEvents(p) = EventsOf(p[2].of, NoEvents)
    BY <2>1 DEF PairEvents, DataEvents
  <2>3. FlattenSeq(Telling(p[2].of)) \in Seq(Spoken)
    BY <2>1, FlatTelling, FlattenType
  <2> QED
    BY <2>1, <2>2, <2>3, FlatTelling
<1> QED
  BY <1>1, <1>2

LEMMA TellingType ==
  ASSUME NEW pairs \in Input
  PROVE  /\ Telling(pairs) \in Seq(Seq(Spoken)) /\ Len(Telling(pairs)) = Len(pairs) /\ Len(pairs) \in Nat
         /\ \A i \in 1..Len(pairs) : Telling(pairs)[i] = PairEvents(pairs[i])
         /\ ToTell(pairs) = FlattenSeq(Telling(pairs))
<1>1. DOMAIN pairs = 1..Len(pairs) /\ Len(pairs) \in Nat
  BY DEF Input
<1>2. \A i \in 1..Len(pairs) : pairs[i][1] \in Seq(Chars) /\ pairs[i][2] \in Value \cup List \cup Data
  BY <1>1 DEF Input
<1>3. \A i \in 1..Len(pairs) : PairEvents(pairs[i]) \in Seq(Spoken)
  BY <1>2, PairEventsType
<1>4. Telling(pairs) \in [1..Len(pairs) -> Seq(Spoken)] /\ \A i \in 1..Len(pairs) : Telling(pairs)[i] = PairEvents(pairs[i])
  BY <1>1, <1>3 DEF Telling
<1>5. ToTell(pairs) = FlattenSeq(Telling(pairs))
  BY DEF ToTell, EventsOf, Telling, PairEvents
<1> QED
  BY <1>1, <1>4, <1>5, FunctionType

(* What is to be told behind a pair: the next one, and in the end what      *)
(* there is behind the object.                                             *)
LEMMA LaterType ==
  ASSUME NEW c, c.pairs \in Input, c.todo \in Seq(Spoken), NEW m \in 0..Len(c.pairs)
  PROVE  Later(c, m) \in Seq(Spoken)
<1>1. After(Telling(c.pairs), m) \in Seq(Spoken)
  BY TellingType, AfterAll
<1> QED
  BY <1>1, ConcatType DEF Later

LEMMA NowType ==
  ASSUME NEW c, c.pairs \in Input, c.todo \in Seq(Spoken), NEW i \in 1..Len(c.pairs)
  PROVE  Now(c, i) \in Seq(Spoken) /\ Later(c, i) \in Seq(Spoken) /\ PairEvents(c.pairs[i]) \in Seq(Spoken)
<1>1. c.pairs[i][1] \in Seq(Chars) /\ c.pairs[i][2] \in Value \cup List \cup Data /\ i \in 0..Len(c.pairs)
  BY DEF Input
<1>2. PairEvents(c.pairs[i]) \in Seq(Spoken) /\ Later(c, i) \in Seq(Spoken)
  BY <1>1, PairEventsType, LaterType
<1> QED
  BY <1>2, ConcatType DEF Now

LEMMA LaterEnd ==
  ASSUME NEW c, c.pairs \in Input, c.todo \in Seq(Spoken)
  PROVE  Later(c, Len(c.pairs)) = c.todo
<1>1. After(Telling(c.pairs), Len(c.pairs)) = <<>>
  BY TellingType, AfterAll
<1> QED
  BY <1>1 DEF Later

LEMMA LaterMore ==
  ASSUME NEW c, c.pairs \in Input, c.todo \in Seq(Spoken), NEW m \in 0..(Len(c.pairs) - 1)
  PROVE  Later(c, m) = Now(c, m + 1)
<1> DEFINE T == Telling(c.pairs)
           x == PairEvents(c.pairs[m + 1])
           y == After(T, m + 1)
           z == c.todo
<1>1. T \in Seq(Seq(Spoken)) /\ Len(T) = Len(c.pairs) /\ m + 1 \in 1..Len(c.pairs) /\ m + 1 \in 0..Len(T)
  BY TellingType
<1>2. T[m + 1] = x
  BY <1>1, TellingType
<1>3. x \in Seq(Spoken)
  BY <1>1, NowType
<1>4. y \in Seq(Spoken)
  BY <1>1, AfterAll
<1>5. After(T, m) = x \o y
  BY <1>1, <1>2, AfterStep
<1>6. Later(c, m) = After(T, m) \o z /\ Now(c, m + 1) = x \o (y \o z)
  BY DEF Later, Now
<1> HIDE DEF T, x, y, z
<1>7. x \o y \o z = x \o (y \o z)
  <2>1. z \in Seq(Spoken)
    BY DEF z
  <2> QED
    BY ONLY <1>3, <1>4, <2>1, ConcatThree
<1> QED
  BY <1>5, <1>6, <1>7

(* A text in the middle of an object. *)
LEMMA NowText ==
  ASSUME NEW c, c.pairs \in Input, c.todo \in Seq(Spoken), NEW i \in 1..Len(c.pairs), NEW k, NEW t,
         k = c.pairs[i][1], t = c.pairs[i][2].of, c.pairs[i][2].kind = "text"
  PROVE  /\ Now(c, i) = Untold(k, t, 0) \o Later(c, i)
         /\ \A n \in 0..Len(t) :
              /\ Untold(k, t, n) \o Later(c, i) \in Seq(Spoken)
              /\ n # Len(t) => Untold(k, t, n) \o Later(c, i)
                                 = <<Event("field_delta", k, Text(<<t[n + 1]>>))>> \o (Untold(k, t, n + 1) \o Later(c, i))
              /\ n = Len(t) => Untold(k, t, n) \o Later(c, i) = <<Event("field_done", k, Text(t))>> \o Later(c, i)
<1>1. k \in Seq(Chars) /\ c.pairs[i][2] \in Value \cup List \cup Data
  BY DEF Input
<1>2. t \in Seq(Chars)
  BY <1>1 DEF Value, List, Data
<1>3. Later(c, i) \in Seq(Spoken)
  BY NowType
<1>4. PairEvents(c.pairs[i]) = TextEvents(k, t)
  BY <1>1, PairEventsType
<1>5. 0 \in 0..Len(t) /\ Untold(k, t, 0) = TextEvents(k, t)
  <2>1. 0 \in 0..Len(t)
    BY <1>2
  <2> QED
    BY <1>1, <1>2, <2>1, UntoldIs
<1>6. ASSUME NEW n \in 0..Len(t), n # Len(t)
      PROVE  Untold(k, t, n) \o Later(c, i)
               = <<Event("field_delta", k, Text(<<t[n + 1]>>))>> \o (Untold(k, t, n + 1) \o Later(c, i))
  <2> DEFINE x == <<Event("field_delta", k, Text(<<t[n + 1]>>))>>
             y == Untold(k, t, n + 1)
             z == Later(c, i)
  <2>1. n + 1 \in 1..Len(t) /\ n + 1 \in 0..Len(t)
    BY <1>2, <1>6
  <2>2. <<t[n + 1]>> \in Seq(Chars)
    BY <1>2, <2>1, OneType
  <2>3. x \in Seq(Spoken) /\ y \in Seq(Spoken)
    BY <1>1, <1>2, <2>1, <2>2, TextEvent, UntoldIs
  <2>4. Untold(k, t, n) = x \o y
    BY <1>1, <1>2, <1>6, UntoldIs, Zenon
  <2>5. z \in Seq(Spoken)
    BY <1>3
  <2> HIDE DEF x, y, z
  <2>6. x \o y \o z = x \o (y \o z)
    BY ONLY <2>3, <2>5, ConcatAssociative, SMTT(20)
  <2> QED
    BY <2>4, <2>6 DEF x, y, z
<1>7. \A n \in 0..Len(t) : Untold(k, t, n) \o Later(c, i) \in Seq(Spoken)
  BY <1>1, <1>2, <1>3, UntoldIs, ConcatType
<1>8. \A n \in 0..Len(t) : n = Len(t) =>
        Untold(k, t, n) \o Later(c, i) = <<Event("field_done", k, Text(t))>> \o Later(c, i)
  BY <1>1, <1>2, UntoldIs
<1> QED
  BY <1>4, <1>5, <1>6, <1>7, <1>8 DEF Now

-----------------------------------------------------------------------------
KeyOf(c, i) == c.pairs[i][1]
ValueOf(c, i) == c.pairs[i][2]
Special == {Quote, Back, "\n"}
Second(x) == IF x = "\n" THEN "n" ELSE x

(* The letters of a text after the first n, or in the middle of the escape *)
(* of the next one, and what follows them.                                 *)
Spelt(s, r, t, n, z) ==
  \/ ~s.esc /\ r = After(Letters(t), n) \o z
  \/ /\ s.esc /\ n < Len(t) /\ t[n + 1] \in Special
     /\ r = One(Second(t[n + 1])) \o (After(Letters(t), n + 1) \o z)

(* Where the scanner is, what it has before it, and what it has yet to tell. *)
IsStart(doc, s, r, e) == s = Fresh /\ r = Source(doc) /\ e = ToTell(doc)
IsDone(s, r, e) == s.at = "done" /\ r = <<>> /\ e = <<>>
IsGap(s, r, e, c, m) ==
  s.at = "seek_key" /\ ~s.esc /\ s.depth = c.depth /\ r = Follow(c, m) /\ e = Later(c, m)
IsPair(s, r, e, c, i) ==
  s.at = "seek_key" /\ ~s.esc /\ s.depth = c.depth /\ r = PairRest(c, i) /\ e = Now(c, i)
IsKey(s, r, e, c, i, n) ==
  /\ s.at = "in_key" /\ s.depth = c.depth /\ s.key = SubSeq(KeyOf(c, i), 1, n)
  /\ Spelt(s, r, KeyOf(c, i), n, One(Quote) \o AfterKey(c, i)) /\ e = Now(c, i)
IsColon(s, r, e, c, i) ==
  /\ s.at = "seek_colon" /\ ~s.esc /\ s.depth = c.depth /\ s.key = KeyOf(c, i) /\ r = AfterKey(c, i)
  /\ e = Now(c, i)
IsValue(s, r, e, c, i) ==
  /\ s.at = "seek_value" /\ ~s.esc /\ s.depth = c.depth /\ s.key = KeyOf(c, i) /\ r = AfterColon(c, i)
  /\ e = Now(c, i)
IsString(s, r, e, c, i, n) ==
  /\ ValueOf(c, i).kind = "text" /\ s.at = "in_string" /\ s.depth = c.depth
  /\ s.key = KeyOf(c, i) /\ s.val = SubSeq(ValueOf(c, i).of, 1, n)
  /\ Spelt(s, r, ValueOf(c, i).of, n, One(Quote) \o Follow(c, i))
  /\ e = Untold(KeyOf(c, i), ValueOf(c, i).of, n) \o Later(c, i)
IsOther(s, r, e, c, i) ==
  /\ s.at = "in_other" /\ ~s.esc /\ s.depth = c.depth /\ e = Later(c, i)
  /\ \E w \in Seq(Chars \ {",", "}"}) : r = w \o Follow(c, i)

InPair(s, r, e, c, i) ==
  \/ IsPair(s, r, e, c, i) \/ IsColon(s, r, e, c, i) \/ IsValue(s, r, e, c, i) \/ IsOther(s, r, e, c, i)
  \/ \E n \in 0..Len(KeyOf(c, i)) : IsKey(s, r, e, c, i, n)
  \/ \E n \in 0..Len(ValueOf(c, i).of) : IsString(s, r, e, c, i, n)
Stage(doc, s, r, e) ==
  \/ IsStart(doc, s, r, e) \/ IsDone(s, r, e)
  \/ \E c \in Frames(doc) : \/ \E m \in 0..Len(c.pairs) : IsGap(s, r, e, c, m)
                            \/ \E i \in 1..Len(c.pairs) : InPair(s, r, e, c, i)

LEMMA FrameType ==
  ASSUME NEW doc, Told(doc), NEW c \in Frames(doc)
  PROVE  /\ c.pairs \in Input /\ c.rest \in Seq(Chars) /\ c.pairs \in Nested(doc)
         /\ Sound(c.pairs) /\ PlainPairs(c.pairs) /\ c.todo \in Seq(Spoken)
         /\ \/ c.depth = 1 /\ c = Outer(doc)
            \/ /\ c.depth = 2 /\ c.pairs \in FlatPairs
               /\ \E n \in 1..Len(doc) : c.rest = Follow(Outer(doc), n) /\ c.todo = After(Telling(doc), n)
<1>1. doc \in Input /\ \A pairs \in Nested(doc) : Sound(pairs) /\ PlainPairs(pairs)
  BY DEF Told
<1>2. Outer(doc).pairs = doc /\ Outer(doc).depth = 1 /\ Outer(doc).rest = <<>> /\ Outer(doc).todo = <<>>
  BY DEF Outer
<1>3. CASE c = Outer(doc)
  <2>1. doc \in Nested(doc)
    BY DEF Nested
  <2>2. <<>> \in Seq(Spoken)
    OBVIOUS
  <2> QED
    BY <1>1, <1>2, <1>3, <2>1, <2>2, EmptyType
<1>4. ASSUME NEW n \in DOMAIN doc, doc[n][2].kind = "data", c = Inner(doc, n)
      PROVE  /\ c.pairs \in FlatPairs /\ c.rest = Follow(Outer(doc), n) /\ n \in 1..Len(doc)
             /\ c.pairs \in Nested(doc) /\ c.depth = 2 /\ c.rest \in Seq(Chars)
             /\ c.todo = After(Telling(doc), n) /\ c.todo \in Seq(Spoken)
  <2>1. n \in 1..Len(doc) /\ doc[n][2] \in Value \cup List \cup Data
    BY <1>1 DEF Input
  <2>2. doc[n][2] \in Data
    BY <1>4, <2>1 DEF Value, List, Data
  <2>3. doc[n][2].of \in FlatPairs
    BY <2>2 DEF Data, FlatPairs
  <2>4. doc[n][2].of \in Nested(doc)
    <3>1. doc[n] \in ToSet(doc)
      BY DEF ToSet
    <3> QED
      BY <1>4, <3>1 DEF Nested
  <2>5. /\ c.pairs = doc[n][2].of /\ c.depth = 2 /\ c.rest = Follow(Outer(doc), n)
        /\ c.todo = After(Telling(doc), n)
    BY <1>4 DEF Inner
  <2>6. n \in 0..Len(Outer(doc).pairs)
    BY <1>2, <2>1
  <2>7. Follow(Outer(doc), n) \in Seq(Chars)
    BY <1>1, <1>2, <2>6, EmptyType, FollowType
  <2>8. After(Telling(doc), n) \in Seq(Spoken)
    <3>1. n \in 0..Len(Telling(doc))
      BY <1>1, <2>1, TellingType
    <3> QED
      BY <1>1, <3>1, TellingType, AfterAll
  <2> QED
    BY <2>1, <2>3, <2>4, <2>5, <2>7, <2>8
<1>5. FlatPairs \subseteq Input
  BY DEF FlatPairs, Input
<1>6. CASE c \in {Inner(doc, n) : n \in {m \in DOMAIN doc : doc[m][2].kind = "data"}}
  <2>1. PICK n \in DOMAIN doc : doc[n][2].kind = "data" /\ c = Inner(doc, n)
    BY <1>6
  <2> QED
    BY <1>1, <1>4, <1>5, <2>1
<1> QED
  BY <1>3, <1>6 DEF Frames

(* The next letter of a text. *)
LEMMA LetterStep ==
  ASSUME NEW t \in Seq(Chars), "e'" \notin ToSet(t), NEW z \in Seq(Chars), NEW n \in 0..(Len(t) - 1)
  PROVE  /\ n + 1 \in 0..Len(t) /\ t[n + 1] \in Chars
         /\ After(Letters(t), n + 1) \o z \in Seq(Chars)
         /\ SubSeq(t, 1, n + 1) = Append(SubSeq(t, 1, n), t[n + 1])
         /\ t[n + 1] \in Special => After(Letters(t), n) \o z
                                     = One(Back) \o (One(Second(t[n + 1])) \o (After(Letters(t), n + 1) \o z))
         /\ t[n + 1] \notin Special => After(Letters(t), n) \o z = One(t[n + 1]) \o (After(Letters(t), n + 1) \o z)
<1> DEFINE x == t[n + 1]
           a == After(Letters(t), n + 1)
           b == After(Letters(t), n)
           e == Escaped(x)
           y == Second(x)
<1>1. n + 1 \in 0..Len(t) /\ n + 1 \in 1..Len(t) /\ x \in Chars /\ SubSeq(t, 1, n + 1) = Append(SubSeq(t, 1, n), x)
  OBVIOUS
<1>2. x # "e'"
  BY <1>1 DEF ToSet
<1>3. Letters(t) \in Seq(Seq(Chars)) /\ Len(Letters(t)) = Len(t)
  BY LettersType
<1>4. n \in 0..(Len(Letters(t)) - 1) /\ n + 1 \in 0..Len(Letters(t))
  BY <1>1, <1>3
<1>5. Letters(t)[n + 1] = e
  BY <1>1 DEF Letters
<1>6. b = e \o a
  BY <1>3, <1>4, <1>5, AfterStep
<1>7. a \in Seq(Chars)
  BY <1>3, <1>4, AfterAll
<1>8. e \in Seq(Chars)
  BY <1>1, EscapedType
<1>9. y \in Chars
  BY <1>1, MarkChars DEF Second
<1>10. x \in Special => e = One(Back) \o One(y)
  <2> SUFFICES ASSUME x \in Special
               PROVE  e = One(Back) \o One(y)
    OBVIOUS
  <2>1. e = <<Back, y>>
    BY DEF Special, Second, Escaped, Quote, Back
  <2>2. Back \in Chars
    BY MarkChars
  <2> HIDE DEF y, e
  <2> QED
    BY <1>9, <2>1, <2>2, TwoType DEF One
<1>11. x \notin Special => e = One(x)
  BY <1>2 DEF Special, Escaped, One
<1>12. n + 1 \in 0..Len(t) /\ x \in Chars
  BY <1>1
<1> HIDE DEF x, a, b, e, y
<1>13. a \o z \in Seq(Chars) /\ b \o z = e \o (a \o z)
  BY <1>6, <1>7, <1>8, ConcatType, Assoc
<1>14. ASSUME x \in Special
       PROVE  b \o z = One(Back) \o (One(y) \o (a \o z))
  <2> DEFINE o == One(Back)
             p == One(y)
             w == a \o z
  <2>1. o \in Seq(Chars) /\ p \in Seq(Chars)
    BY <1>9, MarkSeqs, OneChar, EmptyType
  <2> HIDE DEF o, p, w
  <2>2. w \in Seq(Chars) /\ b \o z = o \o p \o w
    BY <1>10, <1>13, <1>14 DEF o, p, w
  <2>3. o \o p \o w = o \o (p \o w)
    BY <2>1, <2>2, Assoc
  <2> QED
    BY <2>2, <2>3 DEF o, p, w
<1> QED
  BY <1>1, <1>11, <1>13, <1>14 DEF x, a, b, y

-----------------------------------------------------------------------------
(* Steps of the scanner, field by field. *)
LEMMA KeyBegins ==
  ASSUME NEW s \in ScanType, s.at = "seek_key"
  PROVE  LET t == Advance(s, Quote) IN
           t.at = "in_key" /\ t.key = <<>> /\ t.val = s.val /\ t.esc = s.esc /\ t.depth = s.depth
<1>1. Advance(s, Quote) = Scan("in_key", <<>>, s.val, s.esc, s.depth)
  BY AdvanceIs, SeekKeyIs, Zenon
<1> QED
  BY <1>1, DepthOf

LEMMA Opens ==
  ASSUME NEW s \in ScanType, s.at = "seek_key" \/ s.at = "seek_value"
  PROVE  LET t == Advance(s, "{") IN
           t.at = "seek_key" /\ t.esc = s.esc /\ t.depth = s.depth + 1
<1>1. Advance(s, "{") = Open(s)
  <2>1. s.at = "seek_key" => Advance(s, "{") = Open(s)
    BY AdvanceIs, SeekKeyIs, Zenon
  <2>2. s.at = "seek_value" => Advance(s, "{") = Open(s)
    BY AdvanceIs, SeekValueIs, Zenon
  <2> QED
    BY <2>1, <2>2
<1> DEFINE d == s.depth + 1
<1>2. Advance(s, "{") = Scan("seek_key", s.key, s.val, s.esc, d)
  BY <1>1, OpenIs
<1> DEFINE t == Advance(s, "{")
<1> HIDE DEF d, t
<1>3. t = Scan("seek_key", s.key, s.val, s.esc, d)
  BY <1>2, Zenon DEF t
<1>4. t.at = "seek_key" /\ t.esc = s.esc /\ t.depth = d
  BY ONLY <1>3 DEF Scan
<1> QED
  BY <1>4, Zenon DEF d, t

LEMMA Closes ==
  ASSUME NEW s \in ScanType, s.at = "seek_key" \/ s.at = "in_other"
  PROVE  LET t == Advance(s, "}") IN
           /\ t.esc = s.esc /\ t.depth = s.depth - 1
           /\ t.at = IF s.depth <= 1 THEN "done" ELSE "seek_key"
<1>1. Advance(s, "}") = Close(s)
  <2>1. s.at = "seek_key" => Advance(s, "}") = Close(s)
    BY AdvanceIs, SeekKeyIs, Zenon
  <2>2. s.at = "in_other" => Advance(s, "}") = Close(s)
    BY AdvanceIs, InOtherIs, Zenon
  <2> QED
    BY <2>1, <2>2
<1> DEFINE d == s.depth - 1
           a == IF s.depth <= 1 THEN "done" ELSE "seek_key"
<1>2. Advance(s, "}") = Scan(a, s.key, s.val, s.esc, d)
  BY <1>1, CloseIs
<1> DEFINE t == Advance(s, "}")
<1> HIDE DEF d, a, t
<1>3. t = Scan(a, s.key, s.val, s.esc, d)
  BY <1>2, Zenon DEF t
<1>4. t.at = a /\ t.esc = s.esc /\ t.depth = d
  BY ONLY <1>3 DEF Scan
<1> QED
  BY <1>4, Zenon DEF d, a, t

LEMMA Separates ==
  ASSUME NEW s \in ScanType, s.at = "seek_key" \/ s.at = "in_other"
  PROVE  LET t == Advance(s, ",") IN
           t.at = "seek_key" /\ t.esc = s.esc /\ t.depth = s.depth
<1>1. CASE s.at = "seek_key"
  <2>1. "," \notin {Quote, "{", "}"}
    BY MarksApart
  <2>2. Advance(s, ",") = s
    BY <1>1, <2>1, AdvanceIs, SeekKeyIs, Zenon
  <2> QED
    BY <1>1, <2>2, Zenon
<1>2. CASE s.at = "in_other"
  <2> DEFINE t == Advance(s, ",")
  <2>1. t = Scan("seek_key", s.key, s.val, s.esc, s.depth)
    BY <1>2, AdvanceIs, InOtherIs, Zenon
  <2> HIDE DEF t
  <2>2. t.at = "seek_key" /\ t.esc = s.esc /\ t.depth = s.depth
    BY ONLY <2>1 DEF Scan
  <2> QED
    BY <2>2, Zenon DEF t
<1> QED
  BY <1>1, <1>2

LEMMA Passes ==
  ASSUME NEW s \in ScanType, s.at = "in_other", NEW x, x \notin {",", "}"}
  PROVE  Advance(s, x) = s
BY AdvanceIs, InOtherIs, Zenon

LEMMA KeyLetter ==
  ASSUME NEW s \in ScanType, s.at = "in_key", NEW x
  PROVE  LET t == Advance(s, x) IN
           /\ t.depth = s.depth
           /\ s.esc => t.at = "in_key" /\ t.key = Append(s.key, x) /\ ~t.esc
           /\ ~s.esc /\ x = Back => t.at = "in_key" /\ t.key = s.key /\ t.esc
           /\ ~s.esc /\ x = Quote => t.at = "seek_colon" /\ t.key = s.key /\ ~t.esc
           /\ ~s.esc /\ x \notin {Quote, Back} => t.at = "in_key" /\ t.key = Append(s.key, x) /\ ~t.esc
<1>1. Advance(s, x) = InKey(s, x)
  BY AdvanceIs, Zenon
<1>2. CASE s.esc
  <2>1. Advance(s, x) = Scan(s.at, Append(s.key, x), s.val, FALSE, s.depth)
    BY <1>1, <1>2, InKeyIs, Zenon
  <2>2. /\ Advance(s, x).at = s.at /\ Advance(s, x).key = Append(s.key, x)
        /\ Advance(s, x).val = s.val /\ Advance(s, x).esc = FALSE /\ Advance(s, x).depth = s.depth
    BY ONLY <2>1 DEF Scan
  <2> QED
    BY <1>2, <2>2, Zenon
<1>3. CASE ~s.esc /\ x = Back
  <2>1. Advance(s, x) = Scan(s.at, s.key, s.val, TRUE, s.depth)
    BY <1>1, <1>3, InKeyIs, Zenon
  <2>2. /\ Advance(s, x).at = s.at /\ Advance(s, x).key = s.key
        /\ Advance(s, x).val = s.val /\ Advance(s, x).esc = TRUE /\ Advance(s, x).depth = s.depth
    BY ONLY <2>1 DEF Scan
  <2> QED
    BY <1>3, <2>2, MarksApart, Zenon
<1>4. CASE ~s.esc /\ x = Quote
  <2>1. Advance(s, x) = Scan("seek_colon", s.key, s.val, s.esc, s.depth)
    BY <1>1, <1>4, InKeyIs, Zenon
  <2>2. /\ Advance(s, x).at = "seek_colon" /\ Advance(s, x).key = s.key
        /\ Advance(s, x).val = s.val /\ Advance(s, x).esc = s.esc /\ Advance(s, x).depth = s.depth
    BY ONLY <2>1 DEF Scan
  <2> QED
    BY <1>4, <2>2, MarksApart, Zenon
<1>5. CASE ~s.esc /\ x \notin {Quote, Back}
  <2>1. Advance(s, x) = Scan(s.at, Append(s.key, x), s.val, s.esc, s.depth)
    BY <1>1, <1>5, InKeyIs, Zenon
  <2>2. /\ Advance(s, x).at = s.at /\ Advance(s, x).key = Append(s.key, x)
        /\ Advance(s, x).val = s.val /\ Advance(s, x).esc = s.esc /\ Advance(s, x).depth = s.depth
    BY ONLY <2>1 DEF Scan
  <2> QED
    BY <1>5, <2>2, Zenon
<1> QED
  BY <1>2, <1>3, <1>4, <1>5

LEMMA Colon ==
  ASSUME NEW s \in ScanType, s.at = "seek_colon"
  PROVE  LET t == Advance(s, ":") IN
           t.at = "seek_value" /\ t.key = s.key /\ t.esc = s.esc /\ t.depth = s.depth
<1>1. Advance(s, ":") = Scan("seek_value", s.key, s.val, s.esc, s.depth)
  BY AdvanceIs, Zenon
<1> QED
  BY <1>1, DepthOf

LEMMA TextBegins ==
  ASSUME NEW s \in ScanType, s.at = "seek_value"
  PROVE  LET t == Advance(s, Quote) IN
           t.at = "in_string" /\ t.key = s.key /\ t.val = <<>> /\ t.esc = s.esc /\ t.depth = s.depth
<1>1. Advance(s, Quote) = Scan("in_string", s.key, <<>>, s.esc, s.depth)
  BY AdvanceIs, SeekValueIs, Zenon
<1> QED
  BY <1>1, DepthOf

LEMMA OtherBegins ==
  ASSUME NEW s \in ScanType, s.at = "seek_value", NEW x, x \notin {Quote, "{"}
  PROVE  LET t == Advance(s, x) IN t.at = "in_other" /\ t.esc = s.esc /\ t.depth = s.depth
<1>1. Advance(s, x) = Scan("in_other", s.key, s.val, s.esc, s.depth)
  BY AdvanceIs, SeekValueIs, Zenon
<1> QED
  BY ONLY <1>1 DEF Scan

LEMMA TextLetter ==
  ASSUME NEW s \in ScanType, s.at = "in_string", NEW x
  PROVE  LET t == Advance(s, x) IN
           /\ t.depth = s.depth
           /\ s.esc => t.at = "in_string" /\ t.key = s.key /\ t.val = Append(s.val, Decode(x)) /\ ~t.esc
           /\ ~s.esc /\ x = Back => t.at = "in_string" /\ t.key = s.key /\ t.val = s.val /\ t.esc
           /\ ~s.esc /\ x = Quote => t.at = "seek_key" /\ ~t.esc
           /\ ~s.esc /\ x \notin {Quote, Back} =>
                t.at = "in_string" /\ t.key = s.key /\ t.val = Append(s.val, x) /\ ~t.esc
<1>1. Advance(s, x) = InString(s, x)
  BY AdvanceIs, Zenon
<1>2. CASE s.esc
  <2>1. Advance(s, x) = Scan(s.at, s.key, Append(s.val, Decode(x)), FALSE, s.depth)
    BY <1>1, <1>2, InStringIs, Zenon
  <2>2. /\ Advance(s, x).at = s.at /\ Advance(s, x).key = s.key
        /\ Advance(s, x).val = Append(s.val, Decode(x)) /\ Advance(s, x).esc = FALSE /\ Advance(s, x).depth = s.depth
    BY ONLY <2>1 DEF Scan
  <2> QED
    BY <1>2, <2>2, Zenon
<1>3. CASE ~s.esc /\ x = Back
  <2>1. Advance(s, x) = Scan(s.at, s.key, s.val, TRUE, s.depth)
    BY <1>1, <1>3, InStringIs, Zenon
  <2>2. /\ Advance(s, x).at = s.at /\ Advance(s, x).key = s.key
        /\ Advance(s, x).val = s.val /\ Advance(s, x).esc = TRUE /\ Advance(s, x).depth = s.depth
    BY ONLY <2>1 DEF Scan
  <2> QED
    BY <1>3, <2>2, MarksApart, Zenon
<1>4. CASE ~s.esc /\ x = Quote
  <2>1. Advance(s, x) = Scan("seek_key", <<>>, <<>>, s.esc, s.depth)
    BY <1>1, <1>4, InStringIs, Zenon
  <2>2. /\ Advance(s, x).at = "seek_key" /\ Advance(s, x).key = <<>>
        /\ Advance(s, x).val = <<>> /\ Advance(s, x).esc = s.esc /\ Advance(s, x).depth = s.depth
    BY ONLY <2>1 DEF Scan
  <2> QED
    BY <1>4, <2>2, MarksApart, Zenon
<1>5. CASE ~s.esc /\ x \notin {Quote, Back}
  <2>1. Advance(s, x) = Scan(s.at, s.key, Append(s.val, x), s.esc, s.depth)
    BY <1>1, <1>5, InStringIs, Zenon
  <2>2. /\ Advance(s, x).at = s.at /\ Advance(s, x).key = s.key
        /\ Advance(s, x).val = Append(s.val, x) /\ Advance(s, x).esc = s.esc /\ Advance(s, x).depth = s.depth
    BY ONLY <2>1 DEF Scan
  <2> QED
    BY <1>5, <2>2, Zenon
<1> QED
  BY <1>2, <1>3, <1>4, <1>5

-----------------------------------------------------------------------------
(* What the scanner has before it, and the step that takes it there. *)

LEMMA PairStage ==
  ASSUME NEW doc, NEW c \in Frames(doc), NEW i \in 1..Len(c.pairs), NEW s, NEW r, NEW e, InPair(s, r, e, c, i)
  PROVE  Stage(doc, s, r, e)
BY DEF Stage

LEMMA GapStage ==
  ASSUME NEW doc, NEW c \in Frames(doc), NEW m \in 0..Len(c.pairs), NEW s, NEW r, NEW e, IsGap(s, r, e, c, m)
  PROVE  Stage(doc, s, r, e)
BY DEF Stage

LEMMA KeyStage ==
  ASSUME NEW doc, NEW c \in Frames(doc), NEW i \in 1..Len(c.pairs), NEW s, NEW r, NEW e,
         NEW n \in 0..Len(KeyOf(c, i)), IsKey(s, r, e, c, i, n)
  PROVE  Stage(doc, s, r, e)
BY PairStage DEF InPair

LEMMA StringStage ==
  ASSUME NEW doc, NEW c \in Frames(doc), NEW i \in 1..Len(c.pairs), NEW s, NEW r, NEW e,
         NEW n \in 0..Len(ValueOf(c, i).of), IsString(s, r, e, c, i, n)
  PROVE  Stage(doc, s, r, e)
BY PairStage DEF InPair

(* The first character of what is left, and the rest. *)
LEMMA Ahead ==
  ASSUME NEW x \in Chars, NEW z \in Seq(Chars), NEW r, r = One(x) \o z
  PROVE  r # <<>> /\ Head(r) = x /\ Tail(r) = z
BY OneChar

(* A word over some of the characters. *)
LEMMA WordAhead ==
  ASSUME NEW S, NEW w \in Seq(S), w # <<>>
  PROVE  Head(w) \in S /\ Tail(w) \in Seq(S) /\ w = One(Head(w)) \o Tail(w)
BY DEF One

LEMMA WordType ==
  ASSUME NEW T, NEW w \in Seq(Chars \ T)
  PROVE  w \in Seq(Chars)
OBVIOUS

LEMMA InRange ==
  ASSUME NEW n \in Nat, NEW i \in 1..n
  PROVE  i \in 0..n /\ i # 0
OBVIOUS

LEMMA PairCount ==
  ASSUME NEW c, c.pairs \in Input
  PROVE  Len(c.pairs) \in Nat
BY DEF Input

LEMMA OuterType ==
  ASSUME NEW doc, Told(doc)
  PROVE  /\ Outer(doc) \in Frames(doc) /\ Outer(doc).pairs = doc /\ Outer(doc).depth = 1
         /\ Outer(doc).rest = <<>> /\ Outer(doc).todo = <<>> /\ doc \in Input
         /\ \A m \in 0..Len(doc) : Later(Outer(doc), m) = After(Telling(doc), m)
         /\ Later(Outer(doc), 0) = ToTell(doc)
<1>1. /\ Outer(doc) \in Frames(doc) /\ Outer(doc).pairs = doc /\ Outer(doc).depth = 1
      /\ Outer(doc).rest = <<>> /\ Outer(doc).todo = <<>> /\ doc \in Input
  BY DEF Frames, Outer, Told
<1>2. ASSUME NEW m \in 0..Len(doc)
      PROVE  Later(Outer(doc), m) = After(Telling(doc), m)
  <2>1. After(Telling(doc), m) \in Seq(Spoken)
    BY <1>1, TellingType, AfterAll
  <2> DEFINE x == After(Telling(doc), m)
  <2>2. x \o <<>> = x
    <3> HIDE DEF x
    <3>1. x \in Seq(Spoken)
      BY <2>1 DEF x
    <3> QED
      BY <3>1
  <2> QED
    BY <1>1, <2>2 DEF Later
<1>3. After(Telling(doc), 0) = ToTell(doc) /\ 0 \in 0..Len(doc)
  BY <1>1, TellingType, AfterAll
<1> QED
  BY <1>1, <1>2, <1>3

(* The text of an object and what follows it. *)
LEMMA ObjectText ==
  ASSUME NEW c, c.pairs \in Input, c.rest \in Seq(Chars)
  PROVE  Source(c.pairs) \o c.rest = One("{") \o Follow(c, 0)
<1> DEFINE x == FlattenSeq(Body(c.pairs))
           o == One("{")
           e == One("}")
           z == c.rest
<1>1. x \in Seq(Chars) /\ Body(c.pairs) \in Seq(Seq(Chars))
  BY SourceType, FlattenType
<1>2. Source(c.pairs) = o \o x \o e
  BY SourceType
<1>3. o \in Seq(Chars) /\ e \in Seq(Chars)
  BY MarkSeqs
<1>4. Follow(c, 0) = x \o (e \o z)
  BY <1>1, AfterAll DEF Follow
<1> HIDE DEF x, o, e, z
<1>5. z \in Seq(Chars)
  BY DEF z
<1>6. o \o x \o e \o z = o \o (x \o (e \o z))
  <2> DEFINE y == o \o x
             u == e \o z
  <2>1. x \in Seq(Chars) /\ o \in Seq(Chars)
    BY <1>1, <1>3
  <2>2. e \in Seq(Chars) /\ z \in Seq(Chars)
    BY <1>3, <1>5
  <2>3. y \in Seq(Chars)
    BY ONLY <2>1, ConcatType
  <2>4. u \in Seq(Chars)
    BY ONLY <2>2, ConcatType
  <2> HIDE DEF y, u
  <2>5. y \o e \o z = y \o (e \o z)
    BY ONLY <2>2, <2>3, Assoc
  <2>6. o \o x \o u = o \o (x \o u)
    BY ONLY <2>1, <2>4, Assoc
  <2> QED
    BY <2>5, <2>6, Zenon DEF y, u
<1> QED
  BY <1>2, <1>4, <1>6, Zenon DEF o, z

LEMMA StartStep ==
  ASSUME NEW doc, Told(doc), NEW s, NEW r, NEW e, IsStart(doc, s, r, e)
  PROVE  r # <<>> /\ Stage(doc, Advance(s, Head(r)), Tail(r), e)
<1> DEFINE c == Outer(doc)
           t == Advance(s, "{")
<1>1. c \in Frames(doc) /\ c.pairs = doc /\ c.depth = 1 /\ c.rest = <<>> /\ doc \in Input
  BY OuterType
<1>2. c.rest \in Seq(Chars) /\ c.pairs \in Input /\ 0 \in 0..Len(c.pairs)
  <2>1. Len(doc) \in Nat
    BY <1>1 DEF Input
  <2> QED
    BY <1>1, <2>1, EmptyType
<1>3. s \in ScanType /\ s.at = "seek_key" /\ ~s.esc /\ s.depth = 0
  BY FreshType DEF IsStart, Fresh
<1> HIDE DEF c
<1>4. r = One("{") \o Follow(c, 0)
  <2>1. Source(c.pairs) \o c.rest = One("{") \o Follow(c, 0)
    BY <1>2, ObjectText
  <2>2. Source(doc) \o <<>> = Source(doc)
    BY <1>1, SourceType, EmptyJoin
  <2> QED
    BY <1>1, <2>1, <2>2, Zenon DEF IsStart
<1>12. e = Later(c, 0)
  BY OuterType DEF IsStart, c
<1>5. Follow(c, 0) \in Seq(Chars)
  BY <1>2, FollowType
<1>6. "{" \in Chars
  BY MarkChars
<1>7. r # <<>> /\ Head(r) = "{" /\ Tail(r) = Follow(c, 0)
  BY <1>4, <1>5, <1>6, Ahead, Zenon
<1>8. t.at = "seek_key" /\ t.esc = s.esc /\ t.depth = s.depth + 1
  BY <1>3, Opens
<1> HIDE DEF t
<1>9. t.at = "seek_key" /\ ~t.esc /\ t.depth = 1
  BY <1>3, <1>8
<1>10. IsGap(t, Follow(c, 0), e, c, 0)
  BY <1>1, <1>9, <1>12 DEF IsGap
<1>11. Stage(doc, t, Follow(c, 0), e)
  BY <1>1, <1>2, <1>10, GapStage
<1> QED
  BY <1>7, <1>11, Zenon DEF t

(* After a pair there is the comma of the next one, or the object ends. *)
LEMMA FollowStep ==
  ASSUME NEW doc, Told(doc), NEW c \in Frames(doc), NEW m \in 0..Len(c.pairs), NEW s \in ScanType,
         s.at = "seek_key" \/ s.at = "in_other", ~s.esc, s.depth = c.depth,
         m # 0 \/ m = Len(c.pairs), NEW r, r = Follow(c, m), NEW e, e = Later(c, m)
  PROVE  r # <<>> /\ Stage(doc, Advance(s, Head(r)), Tail(r), e)
<1>1. /\ c.pairs \in Input /\ c.rest \in Seq(Chars) /\ c.todo \in Seq(Spoken)
      /\ \/ c.depth = 1 /\ c = Outer(doc)
         \/ /\ c.depth = 2
            /\ \E n \in 1..Len(doc) : c.rest = Follow(Outer(doc), n) /\ c.todo = After(Telling(doc), n)
  BY FrameType
<1>2. CASE m = Len(c.pairs)
  <2> DEFINE t == Advance(s, "}")
  <2>1. r = One("}") \o c.rest
    BY <1>1, <1>2, FollowEnd
  <2>2. "}" \in Chars
    BY MarkChars
  <2>3. r # <<>> /\ Head(r) = "}" /\ Tail(r) = c.rest
    BY <1>1, <2>1, <2>2, Ahead, Zenon
  <2>4. t.esc = s.esc /\ t.depth = s.depth - 1 /\ t.at = IF s.depth <= 1 THEN "done" ELSE "seek_key"
    BY Closes
  <2> HIDE DEF t
  <2>7. e = c.todo
    BY <1>1, <1>2, LaterEnd
  <2>5. CASE c.depth = 1 /\ c = Outer(doc)
    <3>1. t.at = "done"
      BY <2>4, <2>5
    <3>2. c.rest = <<>> /\ e = <<>>
      BY <2>5, <2>7 DEF Outer
    <3>3. Stage(doc, t, c.rest, e)
      BY <3>1, <3>2 DEF Stage, IsDone
    <3> QED
      BY <2>3, <3>3, Zenon DEF t
  <2>6. ASSUME c.depth = 2, NEW n \in 1..Len(doc), c.rest = Follow(Outer(doc), n), c.todo = After(Telling(doc), n)
        PROVE  r # <<>> /\ Stage(doc, Advance(s, Head(r)), Tail(r), e)
    <3>1. /\ Outer(doc) \in Frames(doc) /\ Outer(doc).pairs = doc /\ Outer(doc).depth = 1
      BY OuterType
    <3>2. t.at = "seek_key" /\ ~t.esc /\ t.depth = 1
      BY <2>4, <2>6
    <3>4. n \in 0..Len(Outer(doc).pairs) /\ n \in 0..Len(doc)
      <4>1. doc \in Input
        BY OuterType
      <4> QED
        BY <3>1, <4>1
    <3>6. e = Later(Outer(doc), n)
      BY <2>6, <2>7, <3>4, OuterType
    <3>3. IsGap(t, c.rest, e, Outer(doc), n)
      BY <2>6, <3>1, <3>2, <3>6 DEF IsGap
    <3>5. Stage(doc, t, c.rest, e)
      BY <3>1, <3>3, <3>4, GapStage
    <3> QED
      BY <2>3, <3>5, Zenon DEF t
  <2> QED
    BY <1>1, <2>5, <2>6
<1>3. CASE m # Len(c.pairs)
  <2> DEFINE t == Advance(s, ",")
  <2>1. m \in 0..(Len(c.pairs) - 1) /\ m # 0
    BY <1>3
  <2>2. m + 1 \in 1..Len(c.pairs) /\ Follow(c, m) = One(",") \o PairRest(c, m + 1)
    BY <1>1, <2>1, FollowMore
  <2>3. PairRest(c, m + 1) \in Seq(Chars) /\ "," \in Chars
    BY <1>1, <2>2, PairFacts, MarkChars
  <2>4. r # <<>> /\ Head(r) = "," /\ Tail(r) = PairRest(c, m + 1)
    BY <2>2, <2>3, Ahead, Zenon
  <2>5. t.at = "seek_key" /\ t.esc = s.esc /\ t.depth = s.depth
    BY Separates
  <2> HIDE DEF t
  <2>8. e = Now(c, m + 1)
    BY <1>1, <2>1, LaterMore
  <2>6. IsPair(t, PairRest(c, m + 1), e, c, m + 1)
    BY <2>5, <2>8 DEF IsPair
  <2>7. Stage(doc, t, PairRest(c, m + 1), e)
    BY <2>2, <2>6, PairStage DEF InPair
  <2> QED
    BY <2>4, <2>7, Zenon DEF t
<1> QED
  BY <1>2, <1>3

LEMMA PairStep ==
  ASSUME NEW doc, Told(doc), NEW c \in Frames(doc), NEW i \in 1..Len(c.pairs), NEW s \in ScanType,
         NEW r, NEW e, IsPair(s, r, e, c, i)
  PROVE  r # <<>> /\ Stage(doc, Advance(s, Head(r)), Tail(r), e)
<1> DEFINE t == Advance(s, Quote)
           k == KeyOf(c, i)
           z == One(Quote) \o AfterKey(c, i)
<1>1. c.pairs \in Input /\ c.rest \in Seq(Chars)
  BY FrameType
<1>2. k \in Seq(Chars) /\ AfterQuote(c, i) \in Seq(Chars)
  BY <1>1, PairFacts DEF KeyOf
<1>3. s.at = "seek_key" /\ ~s.esc /\ s.depth = c.depth /\ r = One(Quote) \o AfterQuote(c, i) /\ e = Now(c, i)
  BY DEF IsPair, PairRest
<1>4. r # <<>> /\ Head(r) = Quote /\ Tail(r) = AfterQuote(c, i)
  BY <1>2, <1>3, MarkChars, Ahead
<1>5. t.at = "in_key" /\ t.key = <<>> /\ t.esc = s.esc /\ t.depth = s.depth
  BY <1>3, KeyBegins
<1>6. AfterQuote(c, i) = After(Letters(k), 0) \o z
  BY <1>2, LettersType, AfterAll DEF AfterQuote, KeyOf
<1> HIDE DEF t, k, z
<1>7. SubSeq(k, 1, 0) = <<>> /\ 0 \in 0..Len(k)
  BY <1>2
<1>8. Spelt(t, AfterQuote(c, i), k, 0, z)
  BY <1>3, <1>5, <1>6 DEF Spelt
<1>9. IsKey(t, AfterQuote(c, i), e, c, i, 0)
  BY <1>3, <1>5, <1>7, <1>8 DEF IsKey, k, z
<1>10. Stage(doc, t, AfterQuote(c, i), e)
  BY <1>7, <1>9, KeyStage DEF k
<1> QED
  BY <1>4, <1>10 DEF t

LEMMA GapStep ==
  ASSUME NEW doc, Told(doc), NEW c \in Frames(doc), NEW m \in 0..Len(c.pairs), NEW s \in ScanType,
         NEW r, NEW e, IsGap(s, r, e, c, m)
  PROVE  r # <<>> /\ Stage(doc, Advance(s, Head(r)), Tail(r), e)
<1>1. CASE m # 0 \/ m = Len(c.pairs)
  BY <1>1, FollowStep DEF IsGap
<1>2. CASE m = 0 /\ m # Len(c.pairs)
  <2>1. c.pairs \in Input /\ c.rest \in Seq(Chars) /\ c.todo \in Seq(Spoken)
    BY FrameType
  <2>2. Len(c.pairs) \in Nat /\ m \in 0..(Len(c.pairs) - 1)
    BY <1>2, <2>1 DEF Input
  <2>3. 1 \in 1..Len(c.pairs) /\ Follow(c, m) = <<>> \o PairRest(c, 1)
    <3>1. m + 1 \in 1..Len(c.pairs) /\ Follow(c, m) = <<>> \o PairRest(c, m + 1)
      BY <1>2, <2>1, <2>2, FollowMore
    <3>2. m + 1 = 1
      BY ONLY <1>2
    <3> QED
      BY <3>1, <3>2, Zenon
  <2>4. PairRest(c, 1) \in Seq(Chars)
    BY <2>1, <2>3, PairFacts
  <2>6. e = Now(c, 1)
    <3>1. Later(c, m) = Now(c, m + 1) /\ m + 1 = 1
      BY <1>2, <2>1, <2>2, LaterMore
    <3> QED
      BY <3>1 DEF IsGap
  <2>5. IsPair(s, r, e, c, 1)
    BY <2>3, <2>4, <2>6, EmptyJoin DEF IsGap, IsPair
  <2> QED
    BY <2>3, <2>5, PairStep
<1> QED
  BY <1>1, <1>2

LEMMA OtherStep ==
  ASSUME NEW doc, Told(doc), NEW c \in Frames(doc), NEW i \in 1..Len(c.pairs), NEW s \in ScanType,
         NEW r, NEW e, IsOther(s, r, e, c, i)
  PROVE  r # <<>> /\ Stage(doc, Advance(s, Head(r)), Tail(r), e)
<1>1. s.at = "in_other" /\ ~s.esc /\ s.depth = c.depth /\ e = Later(c, i)
  BY DEF IsOther
<1>2. PICK w \in Seq(Chars \ {",", "}"}) : r = w \o Follow(c, i)
  BY DEF IsOther
<1>3. c.pairs \in Input /\ c.rest \in Seq(Chars) /\ Follow(c, i) \in Seq(Chars)
  BY FrameType, PairFacts
<1>4. CASE w = <<>>
  <2>1. r = Follow(c, i)
    BY <1>2, <1>3, <1>4, EmptyJoin
  <2>2. i \in 0..Len(c.pairs) /\ i # 0
    <3>1. Len(c.pairs) \in Nat
      BY <1>3, PairCount, Zenon
    <3> QED
      BY <3>1, InRange, Zenon
  <2> QED
    BY <1>1, <2>1, <2>2, FollowStep
<1>5. CASE w # <<>>
  <2> DEFINE x == Head(w)
             v == Tail(w)
             S == Chars \ {",", "}"}
             f == Follow(c, i)
  <2>1. x \in S /\ v \in Seq(S) /\ w = One(x) \o v
    BY <1>5, WordAhead, Zenon
  <2>2. x \in Chars /\ x \notin {",", "}"} /\ v \in Seq(Chars)
    BY <2>1, WordType, Zenon
  <2>3. Advance(s, x) = s
    BY <1>1, <2>2, Passes, Zenon
  <2>4. One(x) \in Seq(Chars)
    BY <2>2, OneType DEF One
  <2> HIDE DEF x, v, S, f
  <2>5. f \in Seq(Chars) /\ v \o f \in Seq(Chars)
    BY <1>3, <2>2, ConcatType DEF f
  <2>6. r = One(x) \o (v \o f)
    <3>1. One(x) \o v \o f = One(x) \o (v \o f)
      BY <2>2, <2>4, <2>5, Assoc
    <3> QED
      BY <1>2, <2>1, <3>1 DEF f
  <2>7. r # <<>> /\ Head(r) = x /\ Tail(r) = v \o f
    BY <2>2, <2>5, <2>6, Ahead
  <2>8. IsOther(s, v \o f, e, c, i)
    BY <1>1, <2>1 DEF IsOther, S, f
  <2>9. Stage(doc, s, v \o f, e)
    BY <2>8, PairStage DEF InPair
  <2> QED
    BY <2>3, <2>7, <2>9
<1> QED
  BY <1>4, <1>5

LEMMA ColonStep ==
  ASSUME NEW doc, Told(doc), NEW c \in Frames(doc), NEW i \in 1..Len(c.pairs), NEW s \in ScanType,
         NEW r, NEW e, IsColon(s, r, e, c, i)
  PROVE  r # <<>> /\ Stage(doc, Advance(s, Head(r)), Tail(r), e)
<1> DEFINE t == Advance(s, ":")
<1>1. s.at = "seek_colon" /\ ~s.esc /\ s.depth = c.depth /\ s.key = KeyOf(c, i)
      /\ r = One(":") \o AfterColon(c, i) /\ e = Now(c, i)
  BY DEF IsColon, AfterKey
<1>2. AfterColon(c, i) \in Seq(Chars) /\ ":" \in Chars
  BY FrameType, PairFacts, MarkChars
<1>3. r # <<>> /\ Head(r) = ":" /\ Tail(r) = AfterColon(c, i)
  BY <1>1, <1>2, Ahead, Zenon
<1>4. t.at = "seek_value" /\ t.key = s.key /\ t.esc = s.esc /\ t.depth = s.depth
  BY <1>1, Colon
<1> HIDE DEF t
<1>5. IsValue(t, AfterColon(c, i), e, c, i)
  BY <1>1, <1>4 DEF IsValue
<1>6. Stage(doc, t, AfterColon(c, i), e)
  BY <1>5, PairStage DEF InPair
<1> QED
  BY <1>3, <1>6, Zenon DEF t

LEMMA SpecialIs ==
  ASSUME NEW x \in Special
  PROVE  /\ Decode(Second(x)) = x /\ Back # Quote
         /\ x # "\n" => Second(x) = x
BY DEF Special, Decode, Second, Quote, Back

LEMMA NextLetter ==
  ASSUME NEW t \in Seq(Chars), NEW n \in 0..Len(t), n # Len(t)
  PROVE  n \in 0..(Len(t) - 1) /\ n < Len(t) /\ Len(t) \in Nat
OBVIOUS

LEMMA WholeText ==
  ASSUME NEW t \in Seq(Chars)
  PROVE  SubSeq(t, 1, Len(t)) = t
OBVIOUS

(* What the scanner finds next in a text: its end, the escape of a letter, *)
(* or a letter.                                                            *)
TextEnds(s, r, t, n, z) == ~s.esc /\ r = z /\ SubSeq(t, 1, n) = t
TextEscapes(s, r, t, n, z) ==
  ~s.esc /\ r # <<>> /\ Head(r) = Back /\ \A u : u.esc => Spelt(u, Tail(r), t, n, z)
TextGoesOn(s, r, t, n, z) ==
  /\ r # <<>> /\ n + 1 \in 0..Len(t) /\ t[n + 1] \in Chars
  /\ SubSeq(t, 1, n + 1) = Append(SubSeq(t, 1, n), t[n + 1])
  /\ \A u : ~u.esc => Spelt(u, Tail(r), t, n + 1, z)
  /\ \/ ~s.esc /\ Head(r) = t[n + 1] /\ Head(r) \notin {Quote, Back}
     \/ s.esc /\ t[n + 1] \in Special /\ Head(r) = Second(t[n + 1])

LEMMA SpeltStep ==
  ASSUME NEW t \in Seq(Chars), "e'" \notin ToSet(t), NEW z \in Seq(Chars), NEW n \in 0..Len(t),
         NEW s, s.esc \in BOOLEAN, NEW r, Spelt(s, r, t, n, z)
  PROVE  TextEnds(s, r, t, n, z) \/ TextEscapes(s, r, t, n, z) \/ TextGoesOn(s, r, t, n, z)
<1> DEFINE x == t[n + 1]
           w == After(Letters(t), n + 1) \o z
           b == After(Letters(t), n) \o z
<1>1. CASE ~s.esc /\ n = Len(t)
  <2>1. r = b
    BY <1>1 DEF Spelt
  <2>2. After(Letters(t), n) = <<>>
    BY <1>1, LettersType, AfterAll
  <2>3. r = z
    BY <2>1, <2>2, EmptyJoin, Zenon
  <2>4. SubSeq(t, 1, n) = t
    BY <1>1, WholeText
  <2> QED
    BY <1>1, <2>3, <2>4 DEF TextEnds
<1>2. ASSUME n # Len(t)
      PROVE  /\ n + 1 \in 0..Len(t) /\ x \in Chars /\ w \in Seq(Chars) /\ n < Len(t)
             /\ SubSeq(t, 1, n + 1) = Append(SubSeq(t, 1, n), x)
             /\ x \in Special => b = One(Back) \o (One(Second(x)) \o w)
             /\ x \notin Special => b = One(x) \o w
  <2>1. n \in 0..(Len(t) - 1) /\ n < Len(t)
    BY <1>2, NextLetter, Zenon
  <2> QED
    BY <2>1, LetterStep, Zenon
<1>3. \A u : ~u.esc => Spelt(u, w, t, n + 1, z)
  BY DEF Spelt
<1>4. \A u : u.esc /\ n < Len(t) /\ x \in Special => Spelt(u, One(Second(x)) \o w, t, n, z)
  BY DEF Spelt
<1>5. Back \in Chars
  BY MarkChars
<1>6. CASE ~s.esc /\ n # Len(t) /\ x \in Special
  <2>1. r = One(Back) \o (One(Second(x)) \o w)
    BY <1>2, <1>6, Zenon DEF Spelt
  <2>2. Second(x) \in Chars
    BY <1>2, <1>6, MarkChars DEF Second
  <2> HIDE DEF x, w, b
  <2>3. One(Second(x)) \o w \in Seq(Chars)
    <3>1. w \in Seq(Chars)
      BY <1>2, <1>6
    <3> QED
      BY <2>2, <3>1, OneChar, Zenon
  <2> DEFINE q == One(Second(x)) \o w
  <2> HIDE DEF q
  <2>4. q \in Seq(Chars) /\ r = One(Back) \o q
    BY <2>1, <2>3, Zenon DEF q
  <2>5. r # <<>> /\ Head(r) = Back /\ Tail(r) = q
    BY <1>5, <2>4, Ahead, Zenon
  <2> QED
    BY <1>2, <1>4, <1>6, <2>5, Zenon DEF TextEscapes, q
<1>7. CASE ~s.esc /\ n # Len(t) /\ x \notin Special
  <2>1. r = One(x) \o w
    BY <1>2, <1>7, Zenon DEF Spelt
  <2>2. x \notin {Quote, Back}
    BY <1>7 DEF Special
  <2> HIDE DEF x, w, b
  <2>3. r # <<>> /\ Head(r) = x /\ Tail(r) = w
    BY <1>2, <1>7, <2>1, Ahead, Zenon
  <2> QED
    BY <1>2, <1>3, <1>7, <2>2, <2>3, Zenon DEF x, TextGoesOn
<1>8. CASE s.esc
  <2>1. n < Len(t) /\ x \in Special /\ r = One(Second(x)) \o w
    BY <1>8, Zenon DEF Spelt
  <2>2. n # Len(t)
    BY ONLY <2>1
  <2>3. Second(x) \in Chars
    BY <1>2, <2>2, MarkChars DEF Second
  <2> HIDE DEF x, w, b
  <2>4. r # <<>> /\ Head(r) = Second(x) /\ Tail(r) = w
    BY <1>2, <2>1, <2>2, <2>3, Ahead, Zenon
  <2> QED
    BY <1>2, <1>3, <1>8, <2>1, <2>2, <2>4, Zenon DEF x, TextGoesOn
<1> QED
  BY <1>1, <1>6, <1>7, <1>8

LEMMA KeyStep ==
  ASSUME NEW doc, Told(doc), NEW c \in Frames(doc), NEW i \in 1..Len(c.pairs), NEW s \in ScanType,
         NEW n \in 0..Len(KeyOf(c, i)), NEW r, NEW e, IsKey(s, r, e, c, i, n)
  PROVE  r # <<>> /\ Stage(doc, Advance(s, Head(r)), Tail(r), e)
<1> DEFINE t == Advance(s, Head(r))
           k == KeyOf(c, i)
           z == One(Quote) \o AfterKey(c, i)
<1>1. c.pairs \in Input /\ c.rest \in Seq(Chars) /\ PlainPairs(c.pairs)
  BY FrameType
<1>2. k \in Seq(Chars) /\ AfterKey(c, i) \in Seq(Chars) /\ Quote \in Chars
  BY <1>1, PairFacts, MarkChars DEF KeyOf
<1>3. z \in Seq(Chars)
  BY <1>2, OneChar, Zenon
<1>4. "e'" \notin ToSet(k) /\ "\n" \notin ToSet(k)
  <2>1. i \in DOMAIN c.pairs
    BY <1>1 DEF Input
  <2> QED
    BY <1>1, <2>1 DEF PlainPairs, KeyOf
<1>5. /\ s.at = "in_key" /\ s.depth = c.depth /\ s.key = SubSeq(k, 1, n)
      /\ Spelt(s, r, k, n, z) /\ s.esc \in BOOLEAN /\ e = Now(c, i)
  BY DEF IsKey, ScanType
<1>6. /\ t.depth = s.depth
      /\ s.esc => t.at = "in_key" /\ t.key = Append(s.key, Head(r)) /\ ~t.esc
      /\ ~s.esc /\ Head(r) = Back => t.at = "in_key" /\ t.key = s.key /\ t.esc
      /\ ~s.esc /\ Head(r) = Quote => t.at = "seek_colon" /\ t.key = s.key /\ ~t.esc
      /\ ~s.esc /\ Head(r) \notin {Quote, Back} => t.at = "in_key" /\ t.key = Append(s.key, Head(r)) /\ ~t.esc
  BY <1>5, KeyLetter
<1>7. IsKey(t, Tail(r), e, c, i, n) \/ (n + 1 \in 0..Len(k) /\ IsKey(t, Tail(r), e, c, i, n + 1)) =>
        Stage(doc, t, Tail(r), e)
  BY KeyStage
<1> HIDE DEF t, k, z
<1>8. CASE TextEnds(s, r, k, n, z)
  <2>1. r # <<>> /\ Head(r) = Quote /\ Tail(r) = AfterKey(c, i)
    BY <1>2, <1>8, Ahead, Zenon DEF z, TextEnds
  <2>2. IsColon(t, AfterKey(c, i), e, c, i)
    BY <1>5, <1>6, <1>8, <2>1 DEF IsColon, k, TextEnds
  <2> QED
    BY <2>1, <2>2, PairStage DEF InPair, t
<1>9. CASE TextEscapes(s, r, k, n, z)
  <2>1. IsKey(t, Tail(r), e, c, i, n)
    BY <1>5, <1>6, <1>9 DEF IsKey, k, z, TextEscapes
  <2> QED
    BY <1>7, <1>9, <2>1 DEF t, TextEscapes
<1>10. CASE TextGoesOn(s, r, k, n, z)
  <2>1. Head(r) = k[n + 1]
    <3>1. k[n + 1] # "\n"
      BY <1>2, <1>4, <1>10 DEF ToSet, TextGoesOn
    <3> QED
      BY <1>10, <3>1, SpecialIs DEF TextGoesOn
  <2>2. t.at = "in_key" /\ t.key = Append(s.key, Head(r)) /\ ~t.esc
    BY <1>6, <1>10 DEF TextGoesOn
  <2>3. IsKey(t, Tail(r), e, c, i, n + 1)
    BY <1>5, <1>6, <1>10, <2>1, <2>2 DEF IsKey, k, z, TextGoesOn
  <2> QED
    BY <1>7, <1>10, <2>3 DEF t, TextGoesOn
<1>11. n \in 0..Len(k)
  BY DEF k
<1>12. TextEnds(s, r, k, n, z) \/ TextEscapes(s, r, k, n, z) \/ TextGoesOn(s, r, k, n, z)
  <2>1. k \in Seq(Chars) /\ "e'" \notin ToSet(k) /\ z \in Seq(Chars) /\ n \in 0..Len(k)
        /\ s.esc \in BOOLEAN /\ Spelt(s, r, k, n, z)
    BY <1>2, <1>3, <1>4, <1>5, <1>11, Zenon
  <2> QED
    BY ONLY <2>1, SpeltStep
<1> QED
  BY <1>8, <1>9, <1>10, <1>12, Zenon DEF t

LEMMA TextSaid ==
  ASSUME NEW doc, Told(doc), NEW c \in Frames(doc), NEW i \in 1..Len(c.pairs), ValueOf(c, i).kind = "text"
  PROVE  ValueOf(c, i).of \in Seq(Chars) /\ "e'" \notin ToSet(ValueOf(c, i).of)
<1>1. c.pairs \in Input /\ PlainPairs(c.pairs)
  BY FrameType
<1>2. i \in DOMAIN c.pairs /\ c.pairs[i][2] \in Value \cup List \cup Data
  BY <1>1 DEF Input
<1>3. c.pairs[i][2].of \in Seq(Chars)
  BY <1>2 DEF ValueOf, Value, List, Data
<1> QED
  BY <1>1, <1>2, <1>3 DEF ValueOf, PlainPairs

(* The step tells the next of what there is to tell. *)
Tells(doc, s, r, e) ==
  \E y \in Seq(Spoken) : e = Emitted(s, Head(r)) \o y /\ Stage(doc, Advance(s, Head(r)), Tail(r), y)

(* What a step of the scanner tells: nothing outside a text and at the      *)
(* start of an escape, the text at its end, and its letters.               *)
LEMMA Silent ==
  ASSUME NEW s, NEW x, s.at # "in_string" \/ (x = Back /\ ~s.esc)
  PROVE  Emitted(s, x) = <<>>
BY DEF Emitted

LEMMA TellsText ==
  ASSUME NEW s, s.at = "in_string", ~s.esc
  PROVE  Emitted(s, Quote) = <<Event("field_done", s.key, Text(s.val))>>
BY DEF Emitted, Quote, Back

LEMMA TellsLetter ==
  ASSUME NEW s, s.at = "in_string", NEW x, s.esc \/ x \notin {Quote, Back}
  PROVE  Emitted(s, x) = <<Event("field_delta", s.key, Text(<<IF s.esc THEN Decode(x) ELSE x>>))>>
BY DEF Emitted

(* NowText, of the key and the text of the pair. *)
LEMMA TextNow ==
  ASSUME NEW c, c.pairs \in Input, c.todo \in Seq(Spoken), NEW i \in 1..Len(c.pairs), ValueOf(c, i).kind = "text"
  PROVE  \A m \in 0..Len(ValueOf(c, i).of) :
           /\ Untold(KeyOf(c, i), ValueOf(c, i).of, m) \o Later(c, i) \in Seq(Spoken)
           /\ m # Len(ValueOf(c, i).of) =>
                Untold(KeyOf(c, i), ValueOf(c, i).of, m) \o Later(c, i)
                  = <<Event("field_delta", KeyOf(c, i), Text(<<ValueOf(c, i).of[m + 1]>>))>>
                      \o (Untold(KeyOf(c, i), ValueOf(c, i).of, m + 1) \o Later(c, i))
           /\ m = Len(ValueOf(c, i).of) =>
                Untold(KeyOf(c, i), ValueOf(c, i).of, m) \o Later(c, i)
                  = <<Event("field_done", KeyOf(c, i), Text(ValueOf(c, i).of))>> \o Later(c, i)
<1>1. KeyOf(c, i) = c.pairs[i][1] /\ ValueOf(c, i).of = c.pairs[i][2].of /\ c.pairs[i][2].kind = "text"
  BY DEF KeyOf, ValueOf
<1> QED
  BY <1>1, NowText, Zenon

LEMMA StringStep ==
  ASSUME NEW doc, Told(doc), NEW c \in Frames(doc), NEW i \in 1..Len(c.pairs), NEW s \in ScanType,
         NEW n \in 0..Len(ValueOf(c, i).of), NEW r, NEW e, IsString(s, r, e, c, i, n)
  PROVE  r # <<>> /\ Tells(doc, s, r, e)
<1> DEFINE t == Advance(s, Head(r))
           k == ValueOf(c, i).of
           z == One(Quote) \o Follow(c, i)
           g == KeyOf(c, i)
           u(m) == Untold(g, k, m) \o Later(c, i)
<1>1. c.pairs \in Input /\ c.rest \in Seq(Chars) /\ ValueOf(c, i).kind = "text" /\ c.todo \in Seq(Spoken)
  BY FrameType DEF IsString
<1>2. k \in Seq(Chars) /\ "e'" \notin ToSet(k)
  BY <1>1, TextSaid
<1>3. Quote \in Chars /\ Follow(c, i) \in Seq(Chars) /\ Later(c, i) \in Seq(Spoken)
  BY <1>1, PairFacts, MarkChars, NowType
<1>4. z \in Seq(Chars)
  BY <1>3, OneChar, Zenon
<1>5. /\ s.at = "in_string" /\ s.depth = c.depth /\ s.key = g /\ s.val = SubSeq(k, 1, n)
      /\ Spelt(s, r, k, n, z) /\ s.esc \in BOOLEAN /\ n \in 0..Len(k) /\ e = u(n)
  BY DEF IsString, ScanType
<1>6. /\ t.depth = s.depth
      /\ s.esc => t.at = "in_string" /\ t.key = s.key /\ t.val = Append(s.val, Decode(Head(r))) /\ ~t.esc
      /\ ~s.esc /\ Head(r) = Back => t.at = "in_string" /\ t.key = s.key /\ t.val = s.val /\ t.esc
      /\ ~s.esc /\ Head(r) = Quote => t.at = "seek_key" /\ ~t.esc
      /\ ~s.esc /\ Head(r) \notin {Quote, Back} =>
           t.at = "in_string" /\ t.key = s.key /\ t.val = Append(s.val, Head(r)) /\ ~t.esc
  BY <1>5, TextLetter
<1>7. \A y : IsString(t, Tail(r), y, c, i, n) \/ (n + 1 \in 0..Len(k) /\ IsString(t, Tail(r), y, c, i, n + 1)) =>
        Stage(doc, t, Tail(r), y)
  BY StringStage
<1>12. \A m \in 0..Len(k) :
         /\ u(m) \in Seq(Spoken)
         /\ m # Len(k) => u(m) = <<Event("field_delta", g, Text(<<k[m + 1]>>))>> \o u(m + 1)
         /\ m = Len(k) => u(m) = <<Event("field_done", g, Text(k))>> \o Later(c, i)
  BY <1>1, TextNow, Zenon
<1>13. IsString(t, Tail(r), u(n), c, i, n) <=>
         /\ ValueOf(c, i).kind = "text" /\ t.at = "in_string" /\ t.depth = c.depth
         /\ t.key = g /\ t.val = SubSeq(k, 1, n) /\ Spelt(t, Tail(r), k, n, z)
  BY DEF IsString
<1>14. IsString(t, Tail(r), u(n + 1), c, i, n + 1) <=>
         /\ ValueOf(c, i).kind = "text" /\ t.at = "in_string" /\ t.depth = c.depth
         /\ t.key = g /\ t.val = SubSeq(k, 1, n + 1) /\ Spelt(t, Tail(r), k, n + 1, z)
  BY DEF IsString
<1> HIDE DEF t, k, z, g, u
<1>8. CASE TextEnds(s, r, k, n, z)
  <2>1. r # <<>> /\ Head(r) = Quote /\ Tail(r) = Follow(c, i)
    BY <1>3, <1>8, Ahead, Zenon DEF z, TextEnds
  <2>2. i \in 0..Len(c.pairs)
    <3>1. Len(c.pairs) \in Nat
      BY <1>1, PairCount, Zenon
    <3> QED
      BY <3>1, InRange, Zenon
  <2>3. IsGap(t, Follow(c, i), Later(c, i), c, i)
    BY <1>5, <1>6, <1>8, <2>1 DEF IsGap, TextEnds
  <2>4. Stage(doc, t, Tail(r), Later(c, i))
    BY <2>1, <2>2, <2>3, GapStage, Zenon
  <2>5. s.val = k /\ n = Len(k)
    <3>1. s.val = k /\ SubSeq(k, 1, n) = k
      BY <1>5, <1>8 DEF TextEnds
    <3>2. Len(SubSeq(k, 1, n)) = n
      BY <1>2, <1>5
    <3> QED
      BY <3>1, <3>2
  <2>6. Emitted(s, Quote) = <<Event("field_done", g, Text(k))>>
    BY <1>5, <1>8, <2>5, TellsText DEF TextEnds
  <2>7. e = Emitted(s, Head(r)) \o Later(c, i)
    BY <1>5, <1>12, <2>1, <2>5, <2>6
  <2> QED
    BY <1>3, <2>1, <2>4, <2>7, Zenon DEF t, Tells
<1>9. CASE TextEscapes(s, r, k, n, z)
  <2>1. IsString(t, Tail(r), u(n), c, i, n)
    BY <1>1, <1>5, <1>6, <1>9, <1>13 DEF TextEscapes
  <2>2. Emitted(s, Head(r)) = <<>>
    BY <1>9, Silent DEF TextEscapes
  <2>3. e \in Seq(Spoken)
    BY <1>5, <1>12
  <2>4. e = <<>> \o e
    BY <2>3
  <2> QED
    BY <1>5, <1>7, <1>9, <2>1, <2>2, <2>3, <2>4, Zenon DEF t, TextEscapes, Tells
<1>10. CASE TextGoesOn(s, r, k, n, z)
  <2>1. t.at = "in_string" /\ t.key = s.key /\ t.val = Append(s.val, k[n + 1]) /\ ~t.esc
    BY <1>6, <1>10, SpecialIs DEF TextGoesOn
  <2>2. IsString(t, Tail(r), u(n + 1), c, i, n + 1)
    BY <1>1, <1>5, <1>6, <1>10, <1>14, <2>1 DEF TextGoesOn
  <2>3. s.esc \/ Head(r) \notin {Quote, Back}
    BY <1>10 DEF TextGoesOn
  <2>4. (IF s.esc THEN Decode(Head(r)) ELSE Head(r)) = k[n + 1]
    BY <1>10, SpecialIs DEF TextGoesOn
  <2>5. Emitted(s, Head(r)) = <<Event("field_delta", g, Text(<<k[n + 1]>>))>>
    BY <1>5, <2>3, <2>4, TellsLetter
  <2>6. n # Len(k) /\ n + 1 \in 0..Len(k)
    BY <1>5, <1>10 DEF TextGoesOn
  <2>7. e = Emitted(s, Head(r)) \o u(n + 1) /\ u(n + 1) \in Seq(Spoken)
    BY <1>5, <1>12, <2>5, <2>6
  <2>8. Stage(doc, t, Tail(r), u(n + 1))
    BY <1>7, <2>2, <2>6, Zenon
  <2> QED
    BY <1>10, <2>7, <2>8, Zenon DEF t, TextGoesOn, Tells
<1>11. TextEnds(s, r, k, n, z) \/ TextEscapes(s, r, k, n, z) \/ TextGoesOn(s, r, k, n, z)
  <2>1. k \in Seq(Chars) /\ "e'" \notin ToSet(k) /\ z \in Seq(Chars) /\ n \in 0..Len(k)
        /\ s.esc \in BOOLEAN /\ Spelt(s, r, k, n, z)
    BY <1>2, <1>4, <1>5, Zenon
  <2> QED
    BY ONLY <2>1, SpeltStep
<1> QED
  BY <1>8, <1>9, <1>10, <1>11, Zenon

LEMMA NumIs ==
  ASSUME NEW v \in Value \cup List \cup Data, v.kind = "num"
  PROVE  Json(v) = v.of
BY DEF Json, Flat

LEMMA TextIs ==
  ASSUME NEW v \in Value \cup List \cup Data, v.kind = "text"
  PROVE  Json(v) = Quoted(v.of) /\ v.of \in Seq(Chars)
BY DEF Json, Flat, Value, List, Data

LEMMA ListIs ==
  ASSUME NEW v \in Value \cup List \cup Data, v.kind = "list"
  PROVE  /\ Json(v) = Flat(v) /\ Flat(v) \in Seq(Chars)
         /\ \E y \in Seq(Chars) : Flat(v) = One("[") \o y
<1>1. v.of \in Seq(Seq(Chars)) /\ v \in Value \cup List
  BY DEF Value, List, Data
<1>2. Json(v) = Flat(v) /\ Flat(v) \in Seq(Chars)
  BY <1>1, FlatType
<1> DEFINE p == [i \in DOMAIN v.of |-> Quoted(v.of[i])]
           x == Joined(p)
           o == One("[")
           e == One("]")
<1>3. p \in Seq(Seq(Chars))
  <2>1. \A i \in DOMAIN v.of : Quoted(v.of[i]) \in Seq(Chars)
    BY <1>1, QuotedIs
  <2>2. Len(v.of) \in Nat /\ DOMAIN v.of = 1..Len(v.of)
    BY <1>1
  <2> QED
    BY <2>1, <2>2, FunctionType
<1>4. Flat(v) = o \o x \o e
  BY DEF Flat, One
<1> HIDE DEF p
<1>5. x \in Seq(Chars) /\ o \in Seq(Chars) /\ e \in Seq(Chars)
  BY <1>3, JoinedType, MarkSeqs
<1> HIDE DEF x, o, e
<1>6. o \o x \o e = o \o (x \o e) /\ x \o e \in Seq(Chars)
  BY <1>5, Assoc, ConcatType
<1> QED
  BY <1>2, <1>4, <1>6 DEF o

(* A word without some of the characters is one over the others. *)
LEMMA Without ==
  ASSUME NEW S, NEW T, NEW w \in Seq(S), T \cap ToSet(w) = {}
  PROVE  w \in Seq(S \ T)
<1>1. \A i \in 1..Len(w) : w[i] \in S \ T
  BY DEF ToSet
<1>2. DOMAIN w = 1..Len(w) /\ Len(w) \in Nat /\ w = [i \in 1..Len(w) |-> w[i]]
  OBVIOUS
<1>3. w \in [1..Len(w) -> S \ T]
  BY <1>1, <1>2
<1> QED
  BY <1>2, <1>3, FunctionType

LEMMA NumWord ==
  ASSUME NEW w \in Seq(Chars \ Marks)
  PROVE  w \in Seq(Chars \ {",", "}"})
<1>1. Chars \ Marks \subseteq Chars \ {",", "}"}
  BY DEF Marks
<1> DEFINE A == Chars \ Marks
           B == Chars \ {",", "}"}
<1>2. w \in Seq(A) /\ A \subseteq B
  BY <1>1
<1> HIDE DEF A, B
<1>3. w \in Seq(B)
  BY <1>2
<1> QED
  BY <1>3 DEF B

(* A word that the scanner passes over, from its first character. *)
LEMMA OtherBegun ==
  ASSUME NEW doc, Told(doc), NEW c \in Frames(doc), NEW i \in 1..Len(c.pairs), NEW s \in ScanType,
         NEW r, NEW e, IsValue(s, r, e, c, i), NEW w \in Seq(Chars \ {",", "}"}), w # <<>>,
         Head(w) \notin {Quote, "{"}, Json(ValueOf(c, i)) = w,
         ValueOf(c, i).kind \in {"num", "list"}
  PROVE  r # <<>> /\ Stage(doc, Advance(s, Head(r)), Tail(r), e)
<1> DEFINE x == Head(w)
           v == Tail(w)
           f == Follow(c, i)
           t == Advance(s, x)
<1>1. x \in Chars \ {",", "}"} /\ v \in Seq(Chars \ {",", "}"}) /\ w = One(x) \o v
  BY WordAhead, Zenon
<1>2. c.pairs \in Input /\ c.rest \in Seq(Chars) /\ f \in Seq(Chars)
  BY FrameType, PairFacts
<1>3. x \in Chars /\ v \in Seq(Chars)
  BY <1>1, WordType, Zenon
<1>4. s.at = "seek_value" /\ ~s.esc /\ s.depth = c.depth /\ r = w \o f
  BY DEF IsValue, AfterColon, ValueOf
<1>5. t.at = "in_other" /\ t.esc = s.esc /\ t.depth = s.depth
  BY <1>4, OtherBegins
<1>6. One(x) \in Seq(Chars)
  BY <1>3, OneType DEF One
<1> HIDE DEF x, v, f, t
<1>7. v \o f \in Seq(Chars) /\ One(x) \o v \o f = One(x) \o (v \o f)
  BY ONLY <1>2, <1>3, <1>6, Assoc, ConcatType
<1>8. r = One(x) \o (v \o f)
  BY <1>1, <1>4, <1>7
<1>9. r # <<>> /\ Head(r) = x /\ Tail(r) = v \o f
  BY <1>3, <1>7, <1>8, Ahead, Zenon
<1>12. e = Later(c, i)
  <2>1. c.todo \in Seq(Spoken) /\ e = Now(c, i)
    BY FrameType DEF IsValue
  <2>2. Later(c, i) \in Seq(Spoken)
    BY <1>2, <2>1, NowType
  <2>3. c.pairs[i][1] \in Seq(Chars) /\ c.pairs[i][2] \in Value \cup List \cup Data
    BY <1>2, PairFacts
  <2>4. PairEvents(c.pairs[i]) = <<>>
    BY <2>3, PairEventsType DEF ValueOf
  <2>5. <<>> \o Later(c, i) = Later(c, i)
    BY <2>2, EmptyFirst
  <2> QED
    BY <2>1, <2>4, <2>5 DEF Now
<1>10. IsOther(t, v \o f, e, c, i)
  BY <1>1, <1>4, <1>5, <1>12 DEF IsOther, f
<1>11. Stage(doc, t, v \o f, e)
  BY <1>10, PairStage DEF InPair
<1> QED
  BY <1>9, <1>11, Zenon DEF t

LEMMA ValueStep ==
  ASSUME NEW doc, Told(doc), NEW c \in Frames(doc), NEW i \in 1..Len(c.pairs), NEW s \in ScanType,
         NEW r, NEW e, IsValue(s, r, e, c, i)
  PROVE  r # <<>> /\ Stage(doc, Advance(s, Head(r)), Tail(r), e)
<1> DEFINE v == ValueOf(c, i)
           f == Follow(c, i)
<1>1. /\ c.pairs \in Input /\ c.rest \in Seq(Chars) /\ Sound(c.pairs) /\ PlainPairs(c.pairs)
      /\ c.todo \in Seq(Spoken)
      /\ (c.depth = 1 /\ c = Outer(doc)) \/ c.pairs \in FlatPairs
  BY FrameType
<1>2. v \in Value \cup List \cup Data /\ f \in Seq(Chars)
  BY <1>1, PairFacts DEF ValueOf
<1>3. i \in DOMAIN c.pairs
  BY <1>1 DEF Input
<1>4. /\ s.at = "seek_value" /\ ~s.esc /\ s.depth = c.depth /\ s.key = KeyOf(c, i) /\ r = Json(v) \o f
      /\ e = Now(c, i)
  BY DEF IsValue, AfterColon, ValueOf
<1>5. CASE v.kind = "text"
  <2> DEFINE l == FlattenSeq(Letters(v.of))
             q == One(Quote)
             w == q \o f
             t == Advance(s, Quote)
  <2>1. v.of \in Seq(Chars) /\ Json(v) = q \o l \o q
    BY <1>2, <1>5, TextIs, QuotedIs
  <2>2. l \in Seq(Chars) /\ After(Letters(v.of), 0) = l
    BY <2>1, LettersType, AfterAll
  <2>3. q \in Seq(Chars) /\ Quote \in Chars
    BY MarkSeqs, MarkChars
  <2>4. t.at = "in_string" /\ t.key = s.key /\ t.val = <<>> /\ t.esc = s.esc /\ t.depth = s.depth
    BY <1>4, TextBegins
  <2>5. 0 \in 0..Len(v.of) /\ SubSeq(v.of, 1, 0) = <<>>
    BY <2>1
  <2>13. e = Untold(KeyOf(c, i), v.of, 0) \o Later(c, i)
    BY <1>1, <1>4, <1>5, NowText DEF KeyOf, ValueOf
  <2> HIDE DEF l, q, t, f, v
  <2>6. w \in Seq(Chars) /\ l \o w \in Seq(Chars)
    BY ONLY <1>2, <2>2, <2>3, ConcatType
  <2>7. q \o l \o q \o f = q \o (l \o w)
    <3>1. q \o l \in Seq(Chars)
      BY ONLY <2>2, <2>3, ConcatType
    <3>2. q \o l \o q \o f = q \o l \o w
      BY ONLY <1>2, <2>3, <3>1, Assoc
    <3> HIDE DEF w
    <3>3. q \o l \o w = q \o (l \o w)
      BY ONLY <2>2, <2>3, <2>6, Assoc
    <3> QED
      BY <3>2, <3>3 DEF w
  <2>8. r = One(Quote) \o (l \o w)
    BY <1>4, <2>1, <2>7, Zenon DEF q
  <2>9. r # <<>> /\ Head(r) = Quote /\ Tail(r) = l \o w
    BY <2>3, <2>6, <2>8, Ahead, Zenon
  <2>10. Spelt(t, l \o w, v.of, 0, One(Quote) \o f)
    BY <1>4, <2>2, <2>4 DEF Spelt, q
  <2>11. IsString(t, l \o w, e, c, i, 0)
    BY <1>4, <1>5, <2>4, <2>5, <2>10, <2>13 DEF IsString, f, v
  <2>12. Stage(doc, t, l \o w, e)
    BY <2>5, <2>11, StringStage DEF v
  <2> QED
    BY <2>9, <2>12, Zenon DEF t
<1>6. CASE v.kind = "num"
  <2>1. Json(v) = v.of
    BY <1>2, <1>6, NumIs
  <2>2. v.of \in Seq(Chars \ Marks) \ {<<>>}
    BY <1>1, <1>3, <1>6 DEF Sound, ValueOf
  <2>3. v.of \in Seq(Chars \ {",", "}"})
    BY <2>2, NumWord
  <2>4. Head(v.of) \in Chars \ Marks
    BY <2>2, WordAhead, Zenon
  <2>5. Head(v.of) \notin {Quote, "{"}
    BY <2>4 DEF Marks
  <2>6. v.of # <<>> /\ Json(ValueOf(c, i)) = v.of
    BY <2>1, <2>2
  <2> QED
    BY <1>6, <2>3, <2>5, <2>6, OtherBegun, Zenon
<1>7. CASE v.kind = "list"
  <2>1. Json(v) = Flat(v) /\ Flat(v) \in Seq(Chars)
    BY <1>2, <1>7, ListIs
  <2>2. PICK y \in Seq(Chars) : Flat(v) = One("[") \o y
    BY <1>2, <1>7, ListIs
  <2>3. "[" \in Chars
    BY MarkChars
  <2>4. Flat(v) # <<>> /\ Head(Flat(v)) = "["
    BY <2>2, <2>3, Ahead, Zenon
  <2>5. {",", "}"} \cap ToSet(Flat(v)) = {}
    BY <1>1, <1>3, <1>7 DEF PlainPairs, ValueOf
  <2>6. Flat(v) \in Seq(Chars \ {",", "}"})
    BY <2>1, <2>5, Without
  <2>7. "[" \notin {Quote, "{"}
    BY DEF Quote
  <2> QED
    BY <1>7, <2>1, <2>4, <2>6, <2>7, OtherBegun, Zenon
<1>8. CASE v.kind = "data"
  <2> DEFINE d == Inner(doc, i)
             t == Advance(s, "{")
  <2>1. c.pairs \notin FlatPairs
    <3>1. ASSUME c.pairs \in FlatPairs
          PROVE  FALSE
      <4>1. c.pairs[i][2] \in Value \cup List
        BY <3>1 DEF FlatPairs
      <4> QED
        BY <1>8, <4>1 DEF ValueOf, Value, List
    <3> QED
      BY <3>1
  <2>2. c.depth = 1 /\ c = Outer(doc) /\ c.pairs = doc
    BY <1>1, <2>1, OuterType
  <2>3. d \in Frames(doc)
    BY <1>3, <1>8, <2>2 DEF Frames, ValueOf
  <2>4. d.pairs = v.of /\ d.depth = 2 /\ d.rest = f /\ d.todo = After(Telling(doc), i)
    BY <2>2 DEF Inner, ValueOf
  <2>5. v \in Data
    BY <1>2, <1>8 DEF Value, List
  <2>6. v.of \in FlatPairs
    BY <2>5 DEF Data, FlatPairs
  <2>7. Json(v) = Source(v.of)
    BY <1>8, <2>6, DataJson
  <2>17. e = FlattenSeq(Telling(v.of)) \o Later(c, i)
    <3>1. PairEvents(c.pairs[i]) = FlattenSeq(Telling(v.of))
      <4>1. c.pairs[i][1] \in Seq(Chars) /\ c.pairs[i][2] \in Value \cup List \cup Data
        BY <1>1, PairFacts
      <4> QED
        BY <1>8, <4>1, PairEventsType DEF ValueOf
    <3> QED
      BY <1>4, <3>1 DEF Now
  <2>18. Later(c, i) = After(Telling(doc), i)
    <3>1. i \in 0..Len(doc)
      BY <1>3, <2>2, OuterType DEF Input
    <3> QED
      BY <2>2, <3>1, OuterType
  <2> HIDE DEF d, v, f, t
  <2>8. d.pairs \in Input /\ d.rest \in Seq(Chars)
    BY <2>3, FrameType
  <2>9. r = One("{") \o Follow(d, 0)
    BY <1>4, <2>4, <2>7, <2>8, ObjectText
  <2>10. 0 \in 0..Len(d.pairs)
    <3>1. Len(d.pairs) \in Nat
      BY <2>8, PairCount, Zenon
    <3> QED
      BY ONLY <3>1
  <2>11. Follow(d, 0) \in Seq(Chars) /\ "{" \in Chars
    BY <2>8, <2>10, FollowType, MarkChars
  <2>12. r # <<>> /\ Head(r) = "{" /\ Tail(r) = Follow(d, 0)
    BY <2>9, <2>11, Ahead, Zenon
  <2>13. t.at = "seek_key" /\ t.esc = s.esc /\ t.depth = s.depth + 1
    BY <1>4, Opens DEF t
  <2>14. t.depth = d.depth
    BY <1>4, <2>2, <2>4, <2>13
  <2>19. e = Later(d, 0)
    <3>1. After(Telling(d.pairs), 0) = FlattenSeq(Telling(d.pairs))
      BY <2>8, TellingType, AfterAll
    <3> QED
      BY <2>4, <2>17, <2>18, <3>1 DEF Later
  <2>15. IsGap(t, Follow(d, 0), e, d, 0)
    BY <1>4, <2>13, <2>14, <2>19 DEF IsGap
  <2>16. Stage(doc, t, Follow(d, 0), e)
    BY <2>3, <2>10, <2>15, GapStage
  <2> QED
    BY <2>12, <2>16, Zenon DEF t
<1>9. v.kind \in {"text", "num", "list", "data"}
  BY <1>2 DEF Value, List, Data
<1> QED
  BY <1>5, <1>6, <1>7, <1>8, <1>9

-----------------------------------------------------------------------------
LEMMA StageStep ==
  ASSUME NEW doc, Told(doc), NEW s \in ScanType, NEW r, r # <<>>, NEW e \in Seq(Spoken), Stage(doc, s, r, e)
  PROVE  Tells(doc, s, r, e)
<1> DEFINE x == Head(r)
<1>1. ASSUME s.at # "in_string", Stage(doc, Advance(s, x), Tail(r), e)
      PROVE  Tells(doc, s, r, e)
  <2>1. Emitted(s, x) = <<>>
    BY <1>1, Silent
  <2>2. e = <<>> \o e
    BY EmptyFirst
  <2> QED
    BY <1>1, <2>1, <2>2, Zenon DEF Tells
<1> HIDE DEF x
<1>3. CASE IsStart(doc, s, r, e)
  <2>1. s.at = "seek_key"
    BY <1>3 DEF IsStart, Fresh
  <2> QED
    BY <1>1, <1>3, <2>1, StartStep DEF x
<1>4. CASE IsDone(s, r, e)
  BY <1>4 DEF IsDone
<1>5. ASSUME NEW c \in Frames(doc), NEW m \in 0..Len(c.pairs), IsGap(s, r, e, c, m)
      PROVE  Tells(doc, s, r, e)
  <2>1. s.at = "seek_key"
    BY <1>5 DEF IsGap
  <2>2. Stage(doc, Advance(s, x), Tail(r), e)
    BY <1>5, GapStep DEF x
  <2> QED
    BY <1>1, <2>1, <2>2
<1>6. ASSUME NEW c \in Frames(doc), NEW i \in 1..Len(c.pairs), InPair(s, r, e, c, i)
      PROVE  Tells(doc, s, r, e)
  <2>1. CASE IsPair(s, r, e, c, i)
    <3>1. s.at = "seek_key" /\ Stage(doc, Advance(s, x), Tail(r), e)
      BY <2>1, PairStep DEF IsPair, x
    <3> QED
      BY <1>1, <3>1
  <2>2. CASE IsColon(s, r, e, c, i)
    <3>1. s.at = "seek_colon" /\ Stage(doc, Advance(s, x), Tail(r), e)
      BY <2>2, ColonStep DEF IsColon, x
    <3> QED
      BY <1>1, <3>1
  <2>3. CASE IsValue(s, r, e, c, i)
    <3>1. s.at = "seek_value" /\ Stage(doc, Advance(s, x), Tail(r), e)
      BY <2>3, ValueStep DEF IsValue, x
    <3> QED
      BY <1>1, <3>1
  <2>4. CASE IsOther(s, r, e, c, i)
    <3>1. s.at = "in_other" /\ Stage(doc, Advance(s, x), Tail(r), e)
      BY <2>4, OtherStep DEF IsOther, x
    <3> QED
      BY <1>1, <3>1
  <2>5. ASSUME NEW n \in 0..Len(KeyOf(c, i)), IsKey(s, r, e, c, i, n)
        PROVE  Tells(doc, s, r, e)
    <3>1. s.at = "in_key" /\ Stage(doc, Advance(s, x), Tail(r), e)
      BY <2>5, KeyStep DEF IsKey, x
    <3> QED
      BY <1>1, <3>1
  <2>6. ASSUME NEW n \in 0..Len(ValueOf(c, i).of), IsString(s, r, e, c, i, n)
        PROVE  Tells(doc, s, r, e)
    BY <2>6, StringStep DEF x
  <2> QED
    BY <1>6, <2>1, <2>2, <2>3, <2>4, <2>5, <2>6 DEF InPair
<1> QED
  BY <1>3, <1>4, <1>5, <1>6 DEF Stage

(* With nothing left to read, the scanner has noticed the end, and there is *)
(* nothing left to tell.                                                   *)
LEMMA StageEnd ==
  ASSUME NEW doc, Told(doc), NEW s \in ScanType, NEW e, Stage(doc, s, <<>>, e)
  PROVE  s.at = "done" /\ e = <<>>
<1>1. CASE IsStart(doc, s, <<>>, e)
  BY <1>1, StartStep
<1>2. CASE IsDone(s, <<>>, e)
  BY <1>2 DEF IsDone
<1>3. ASSUME NEW c \in Frames(doc), NEW m \in 0..Len(c.pairs), IsGap(s, <<>>, e, c, m)
      PROVE  FALSE
  BY <1>3, GapStep
<1>4. ASSUME NEW c \in Frames(doc), NEW i \in 1..Len(c.pairs), InPair(s, <<>>, e, c, i)
      PROVE  FALSE
  BY <1>4, PairStep, ColonStep, ValueStep, OtherStep, KeyStep, StringStep DEF InPair
<1> QED
  BY <1>1, <1>2, <1>3, <1>4 DEF Stage

-----------------------------------------------------------------------------
(* What is left of a block's JSON after n characters. *)
Left(text, n) == SubSeq(text, n + 1, Len(text))

(* The scanner is somewhere in the block, with what has not been received   *)
(* before it; what it has told and what it has yet to tell are what there   *)
(* is to tell of the block.                                                *)
Reads(e) == Stage(Doc, scan, Left(json, pos), e) /\ told \o e = ToTell(Doc)
TextInv == script \in Plain /\ runner # "idle" /\ block \in DOMAIN Blocks => \E e \in Seq(Spoken) : Reads(e)

LEMMA LeftStep ==
  ASSUME NEW S, NEW w \in Seq(S), NEW n \in Nat, n < Len(w)
  PROVE  /\ Left(w, n) # <<>> /\ Head(Left(w, n)) = w[n + 1] /\ Tail(Left(w, n)) = Left(w, n + 1)
         /\ w[n + 1] \in S
<1> DEFINE x == w[n + 1]
           v == SubSeq(w, n + 2, Len(w))
<1>1. x \in S /\ v \in Seq(S)
  OBVIOUS
<1>2. SubSeq(w, n + 1, Len(w)) = <<x>> \o v
  OBVIOUS
<1>3. (n + 1) + 1 = n + 2
  OBVIOUS
<1> HIDE DEF x, v
<1>4. <<x>> \o v # <<>> /\ Head(<<x>> \o v) = x /\ Tail(<<x>> \o v) = v
  BY ONLY <1>1
<1> QED
  BY <1>1, <1>2, <1>3, <1>4 DEF Left, x, v

LEMMA LeftAll ==
  ASSUME NEW S, NEW w \in Seq(S)
  PROVE  Left(w, 0) = w /\ Left(w, Len(w)) = <<>>
BY DEF Left

LEMMA PrefixOf ==
  ASSUME NEW S, NEW s \in Seq(S), NEW t \in Seq(S)
  PROVE  IsPrefix(s, s \o t)
<1>1. Len(s) <= Len(s \o t) /\ SubSeq(s, 1, Len(s)) = SubSeq(s \o t, 1, Len(s))
  OBVIOUS
<1> QED
  BY <1>1 DEF IsPrefix

LEMMA BlockAt ==
  ASSUME WholeInv, ThreadInv, runner # "idle", block <= Len(Blocks)
  PROVE  block \in DOMAIN Blocks
<1>1. Blocks \in Seq(Call) /\ block \in Nat \ {0}
  BY BlockFacts DEF ThreadInv
<1> QED
  BY <1>1

LEMMA PlainTold ==
  ASSUME NEW s \in Plain, NEW n, NEW b \in DOMAIN Message(s, n)
  PROVE  Told(Message(s, n)[b].doc)
<1> DEFINE doc == Message(s, n)[b].doc
<1>1. s \in Scripts /\ n \in DOMAIN s.turns /\ b \in DOMAIN s.turns[n] /\ doc = s.turns[n][b].doc
  BY DEF Plain, Message
<1>2. doc \in Inputs(s)
  BY <1>1 DEF Inputs
<1>3. doc \in Input /\ \A pairs \in Nested(doc) : Sound(pairs)
  BY <1>1, CallShape
<1>4. \A pairs \in Nested(doc) : PlainPairs(pairs)
  BY <1>2 DEF Plain
<1> QED
  BY <1>3, <1>4 DEF Told

(* A block has its scanner at the start, with all of it to be told. *)
LEMMA TextBegun ==
  ASSUME runner' # "idle", script' \in Scripts, json' = JsonOf(Message(script', turn'), block'),
         pos' = 0, scan' = Fresh, told' = <<>>
  PROVE  TextInv'
<1> DEFINE doc == Message(script', turn')[block'].doc
           e == ToTell(doc)
<1> SUFFICES ASSUME script' \in Plain', block' \in DOMAIN Message(script', turn')
             PROVE  \E y \in Seq(Spoken) : Stage(Doc', scan', Left(json', pos'), y) /\ told' \o y = ToTell(Doc')
  BY DEF TextInv, Reads, Blocks
<1>1. script' \in Plain
  BY DEF Plain, Inputs, Nested
<1>2. Told(doc)
  BY <1>1, PlainTold
<1>3. doc \in Input
  BY <1>2 DEF Told
<1>4. json' = Source(doc) /\ Doc' = doc
  BY DEF JsonOf, Doc, Blocks
<1>5. e \in Seq(Spoken)
  BY <1>3, TellingType, FlattenType
<1> HIDE DEF doc, e
<1>6. Left(json', pos') = Source(doc)
  BY <1>3, <1>4, SourceType, LeftAll
<1>7. IsStart(doc, scan', Source(doc), e)
  BY DEF IsStart, e
<1>8. Stage(doc, scan', Source(doc), e)
  BY <1>7 DEF Stage
<1>9. <<>> \o e = e
  BY <1>5
<1> QED
  BY <1>4, <1>5, <1>6, <1>8, <1>9 DEF e

LEMMA TextKept ==
  ASSUME TextInv, runner # "idle", UNCHANGED <<script, turn, block, json, pos, scan, told>>
  PROVE  TextInv'
BY DEF TextInv, Reads, Blocks, Doc, Plain

LEMMA ReceiveText ==
  ASSUME WholeInv, ThreadInv, TextInv, Receive
  PROVE  TextInv'
<1>1. UNCHANGED <<script, turn, block, json, runner>>
  BY DEF Receive, Rest
<1>2. Blocks' = Blocks /\ Doc' = Doc /\ (script' \in Plain' <=> script \in Plain)
  BY <1>1 DEF Blocks, Doc, Plain
<1> DEFINE c == json[pos + 1]
           r == Left(json, pos)
           new == Emitted(scan, c)
<1> SUFFICES ASSUME script \in Plain, block \in DOMAIN Blocks
             PROVE  \E y \in Seq(Spoken) : Reads(y)'
  BY <1>1, <1>2 DEF TextInv
<1>3. /\ runner # "idle" /\ pos \in Nat /\ pos < Len(json) /\ json \in Seq(Chars) /\ scan \in ScanType
      /\ told \in Seq(Spoken)
      /\ scan' = Advance(scan, c) /\ told' = told \o new /\ pos' = pos + 1
  BY DEF Receive, Streaming, ThreadInv
<1>4. PICK e \in Seq(Spoken) : Reads(e)
  BY <1>3 DEF TextInv
<1>5. r # <<>> /\ Head(r) = c /\ Tail(r) = Left(json, pos + 1) /\ c \in Chars
  BY <1>3, LeftStep
<1>6. Told(Doc)
  BY PlainTold DEF Doc, Blocks
<1>7. new \in Seq(Spoken)
  BY <1>3, <1>5, EmittedType
<1> HIDE DEF c, r, new
<1>8. Stage(Doc, scan, r, e) /\ told \o e = ToTell(Doc)
  BY <1>4 DEF Reads, r
<1>11. Tells(Doc, scan, r, e)
  BY <1>3, <1>5, <1>6, <1>8, StageStep
<1>9. PICK y \in Seq(Spoken) : e = new \o y /\ Stage(Doc, Advance(scan, c), Left(json, pos + 1), y)
  BY <1>5, <1>11 DEF Tells, new
<1>10. told' \o y = ToTell(Doc)
  <2>1. told \o new \o y = told \o (new \o y)
    BY ONLY <1>3, <1>7, <1>9, ConcatThree
  <2> QED
    BY <1>3, <1>8, <1>9, <2>1
<1> QED
  BY <1>1, <1>2, <1>3, <1>9, <1>10 DEF Reads

LEMMA InitText == Init => TextInv
BY DEF Init, TextInv

LEMMA StepText ==
  ASSUME WholeInv, ThreadInv, TextInv, [Next]_vars
  PROVE  TextInv'
<1>0. script \in Scripts
  BY DEF WholeInv, ScriptInv
<1>1. CASE Start
  <2>1. /\ script' \in Scripts /\ runner' # "idle" /\ turn' = 1
        /\ json' = JsonOf(Message(script', 1), block') /\ pos' = 0 /\ scan' = Fresh /\ told' = <<>>
    BY <1>1 DEF Start, Begin
  <2> QED
    BY <2>1, TextBegun
<1>2. CASE Receive
  BY <1>2, ReceiveText
<1>3. CASE EndBlock
  <2>1. /\ UNCHANGED <<script, turn>> /\ runner' # "idle"
        /\ json' = JsonOf(Message(script', turn'), block') /\ pos' = 0 /\ scan' = Fresh /\ told' = <<>>
    BY <1>3 DEF EndBlock, Streaming, Rest, Blocks, ThreadInv
  <2> QED
    BY <1>0, <2>1, TextBegun
<1>4. CASE EndStream \/ CutStream \/ FailStream
  <2>1. UNCHANGED <<script, turn, block, json, pos, scan, told>> /\ runner # "idle"
    BY <1>4 DEF EndStream, CutStream, FailStream, Streaming, Rest, ThreadInv
  <2> QED
    BY <2>1, TextKept
<1>5. CASE NextTurn /\ turn < MaxTurns
  <2>1. /\ UNCHANGED script /\ runner' # "idle" /\ turn' = turn + 1
        /\ json' = JsonOf(Message(script', turn + 1), block') /\ pos' = 0 /\ scan' = Fresh /\ told' = <<>>
    BY <1>5 DEF NextTurn, Begin
  <2> QED
    BY <1>0, <2>1, TextBegun
<1>6. CASE Runner /\ ~(NextTurn /\ turn < MaxTurns)
  <2>1. UNCHANGED <<script, turn, block, json, pos, scan, told>> /\ runner # "idle"
    BY <1>6 DEF Runner, Publish, TakeError, TakeEnd, TakeMessage, TakeDone, CallTool, NextTurn, Write,
                PublishUpdated, Took, thread
  <2> QED
    BY <2>1, TextKept
<1>7. CASE Drop \/ Reconnect \/ UNCHANGED vars
  <2>1. UNCHANGED <<script, turn, block, json, pos, scan, told, runner>>
    BY <1>7 DEF Drop, Reconnect, vars, thread
  <2>2. CASE runner # "idle"
    BY <2>1, <2>2, TextKept
  <2>3. CASE runner = "idle"
    BY <2>1, <2>3 DEF TextInv
  <2> QED
    BY <2>2, <2>3
<1> QED
  BY <1>1, <1>2, <1>3, <1>4, <1>5, <1>6, <1>7 DEF Next, Producer

LEMMA TextFromInv ==
  ASSUME WholeInv, ThreadInv, TextInv
  PROVE  StreamedText
<1> SUFFICES ASSUME script \in Plain, Streaming
             PROVE  /\ IsPrefix(told, ToTell(Doc))
                    /\ pos = Len(json) => told = ToTell(Doc) /\ scan.at = "done"
  BY DEF StreamedText
<1>1. /\ runner # "idle" /\ block <= Len(Blocks) /\ told \in Seq(Spoken) /\ json \in Seq(Chars)
      /\ scan \in ScanType
  BY DEF Streaming, ThreadInv
<1>2. block \in DOMAIN Blocks
  BY <1>1, BlockAt
<1>3. PICK e \in Seq(Spoken) : Stage(Doc, scan, Left(json, pos), e) /\ told \o e = ToTell(Doc)
  BY <1>1, <1>2 DEF TextInv, Reads
<1>4. Told(Doc)
  BY <1>2, PlainTold DEF Doc, Blocks
<1>5. IsPrefix(told, ToTell(Doc))
  <2>1. IsPrefix(told, told \o e)
    BY <1>1, PrefixOf
  <2> QED
    BY <1>3, <2>1
<1>6. ASSUME pos = Len(json)
      PROVE  told = ToTell(Doc) /\ scan.at = "done"
  <2>1. Left(json, pos) = <<>>
    BY <1>1, <1>6, LeftAll
  <2>2. scan.at = "done" /\ e = <<>>
    BY <1>1, <1>3, <1>4, <2>1, StageEnd
  <2>3. told \o <<>> = told
    BY <1>1
  <2> QED
    BY <1>3, <2>2, <2>3
<1> QED
  BY <1>5, <1>6

(* The extractor tells the texts of a plain script by their names, letter   *)
(* by letter and whole, in their order, none left out and none added,       *)
(* wherever the JSON is cut and whatever they contain, and notices the end  *)
(* of the object.                                                          *)
THEOREM TextCorrect == Spec => []StreamedText
<1> DEFINE Inv == WholeInv /\ ThreadInv /\ TextInv
<1>1. Init => Inv
  BY InitWhole, InitThread, InitText
<1>2. Inv /\ [Next]_vars => Inv'
  BY StepWhole, StepThread, StepText DEF ThreadInv
<1>3. Inv => StreamedText
  BY TextFromInv
<1> HIDE DEF Inv
<1> QED
  BY <1>1, <1>2, <1>3, PTL DEF Spec
=============================================================================
