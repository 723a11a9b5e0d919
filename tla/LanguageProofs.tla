---------------------------- MODULE LanguageProofs ----------------------------
(*****************************************************************************)
(* The tokenizer, the parser and the decompiler on any text: no piece of it  *)
(* is lost, and the methods of the parser come to an end and return what     *)
(* the decompiler makes one text of.                                         *)
(*****************************************************************************)
EXTENDS LanguageProperties, SequenceTheorems, WellFoundedInduction, TLAPS

-----------------------------------------------------------------------------
(* Induction *)

\* Induction over the natural numbers, for a set of them.
LEMMA AllNat ==
  ASSUME NEW S, 0 \in S, \A n \in Nat : n \in S => n + 1 \in S
  PROVE  \A n \in Nat : n \in S
<1> DEFINE Less == {ss \in Nat \X Nat : ss[1] < ss[2]}
           Rest == Nat \ S
<1>1. IsWellFoundedOn(OpToRel(<, Nat), Nat)
  BY NatLessThanWellFounded
<1>2. OpToRel(<, Nat) = Less
  BY Zenon DEF OpToRel
<1>3. SUFFICES ASSUME Rest # {} PROVE FALSE
  OBVIOUS
<1>4. Rest \subseteq Nat
  OBVIOUS
<1>5. IsWellFoundedOn(Less, Nat)
  BY <1>1, <1>2
<1> HIDE DEF Less
<1>6. PICK x \in Rest : \A y \in Rest : ~ (<<y, x>> \in Less)
  BY <1>3, <1>4, <1>5, WFMin, Zenon
<1>7. x \in Nat /\ x # 0 /\ x - 1 \in Nat
  BY SMT
<1>8. x - 1 \notin S
  BY <1>7, SMT
<1>9. <<x - 1, x>> \in Less
  BY <1>7 DEF Less
<1> QED BY <1>6, <1>7, <1>8, <1>9

\* A statement about the sequences of any length follows from the shorter ones.
LEMMA AllLengths ==
  ASSUME NEW S, NEW A, <<>> \in S,
         \A s \in Seq(A), a \in A : s \in S => Append(s, a) \in S
  PROVE  \A s \in Seq(A) : s \in S
<1> DEFINE N == {n \in Nat : \A s \in Seq(A) : Len(s) = n => s \in S}
<1>1. 0 \in N
  BY EmptySeq
<1>2. ASSUME NEW n \in Nat, n \in N PROVE n + 1 \in N
  <2>1. SUFFICES ASSUME NEW s \in Seq(A), Len(s) = n + 1 PROVE s \in S
    OBVIOUS
  <2>2. PICK t \in Seq(A), a \in A : s = Append(t, a)
    BY <2>1, SequenceEmptyOrAppend
  <2>3. Len(t) = n
    BY <2>1, <2>2
  <2> QED BY <1>2, <2>2, <2>3
<1>3. \A n \in Nat : n \in N
  <2> HIDE DEF N
  <2> QED BY <1>1, <1>2, AllNat
<1> QED BY <1>3

\* Every non-empty set of natural numbers has a least one.
LEMMA LeastNat ==
  ASSUME NEW S \in SUBSET Nat, S # {}
  PROVE  \E m \in S : \A n \in S : m <= n
<1> DEFINE N == {n \in Nat : \A m \in 0..n : m \in S => \E l \in S : \A k \in S : l <= k}
<1>1. 0 \in N
  <2>1. SUFFICES ASSUME 0 \in S PROVE \A k \in S : 0 <= k
    BY <2>1
  <2> QED OBVIOUS
<1>2. ASSUME NEW n \in Nat, n \in N PROVE n + 1 \in N
  <2>1. SUFFICES ASSUME n + 1 \in S, \A m \in 0..n : m \notin S
                 PROVE  \A k \in S : n + 1 <= k
    BY <1>2
  <2> QED BY <2>1
<1>3. \A n \in Nat : n \in N
  <2> HIDE DEF N
  <2> QED BY <1>1, <1>2, AllNat
<1>4. PICK x \in S : TRUE
  OBVIOUS
<1>5. x \in 0..x /\ x \in N
  BY <1>3
<1> QED BY <1>5

-----------------------------------------------------------------------------
(* Sequences *)

\* What is two sequences one after the other.
LEMMA ConcatIs ==
  ASSUME NEW A, NEW u \in Seq(A), NEW v \in Seq(A), NEW w \in Seq(A),
         Len(w) = Len(u) + Len(v),
         \A i \in 1..Len(u) : w[i] = u[i],
         \A i \in 1..Len(v) : w[Len(u) + i] = v[i]
  PROVE  w = u \o v
<1>1. u \o v \in Seq(A) /\ Len(u \o v) = Len(w) /\ Len(u) \in Nat /\ Len(v) \in Nat
  OBVIOUS
<1>2. ASSUME NEW i \in 1..Len(w) PROVE w[i] = (u \o v)[i]
  <2>1. CASE i <= Len(u)
    <3>1. i \in 1..Len(u)
      BY <2>1, <1>1
    <3> QED BY <3>1
  <2>2. CASE ~(i <= Len(u))
    <3>1. i - Len(u) \in 1..Len(v) /\ i = Len(u) + (i - Len(u))
      BY <2>2, <1>1
    <3>2. w[i] = v[i - Len(u)]
      BY <3>1
    <3>3. (u \o v)[i] = v[i - Len(u)]
      BY <2>2, <1>1
    <3> QED BY <3>2, <3>3
  <2> QED BY <2>1, <2>2
<1> QED BY <1>1, <1>2, SeqEqual

-----------------------------------------------------------------------------
(* FlattenSeq *)

Flattens(f, ss) == f = [i \in 1..Len(ss) |-> IF i = 1 THEN ss[i] ELSE f[i - 1] \o ss[i]]

LEMMA FlattenIs ==
  ASSUME NEW ss, Len(ss) \in Nat, Len(ss) # 0, NEW f, Flattens(f, ss)
  PROVE  FlattenSeq(ss) = f[Len(ss)]
<1> DEFINE g == CHOOSE g : Flattens(g, ss)
<1>1. FlattenSeq(ss) = g[Len(ss)]
  BY Zenon DEF FlattenSeq, Flattens
<1>2. Flattens(g, ss)
  BY Zenon
<1> HIDE DEF g
<1> DEFINE S == {n \in Nat : n \in 1..Len(ss) => g[n] = f[n]}
<1>3. 0 \in S
  OBVIOUS
<1>4. ASSUME NEW n \in Nat, n \in S PROVE n + 1 \in S
  <2>1. SUFFICES ASSUME n + 1 \in 1..Len(ss) PROVE g[n + 1] = f[n + 1]
    BY <1>4
  <2>2. CASE n = 0
    BY <1>2, <2>1, <2>2 DEF Flattens
  <2>3. CASE n # 0
    <3>1. g[n] = f[n] /\ n + 1 # 1 /\ (n + 1) - 1 = n
      BY <1>4, <2>1, <2>3
    <3>2. g[n + 1] = g[n] \o ss[n + 1]
      BY <1>2, <2>1, <3>1 DEF Flattens
    <3>3. f[n + 1] = f[n] \o ss[n + 1]
      BY <2>1, <3>1 DEF Flattens
    <3> QED BY <3>1, <3>2, <3>3
  <2> QED BY <2>2, <2>3
<1>5. Len(ss) \in S
  <2> HIDE DEF S
  <2> QED BY <1>3, <1>4, AllNat
<1> QED BY <1>1, <1>5

LEMMA FlattenEmpty == FlattenSeq(<<>>) = <<>>
BY DEF FlattenSeq

\* What FlattenSeq makes of a sequence that is one longer, and the functions it
\* is defined with exist.
LEMMA FlattenStep ==
  ASSUME NEW A, NEW ss \in Seq(Seq(A)), NEW s \in Seq(A),
         FlattenSeq(ss) \in Seq(A),
         ss # <<>> => \E f : Flattens(f, ss)
  PROVE  /\ FlattenSeq(Append(ss, s)) = FlattenSeq(ss) \o s
         /\ \E f : Flattens(f, Append(ss, s))
<1> DEFINE tt == Append(ss, s)
<1>1. tt \in Seq(Seq(A)) /\ Len(tt) = Len(ss) + 1 /\ Len(ss) \in Nat /\ tt[Len(ss) + 1] = s
      /\ \A i \in 1..Len(ss) : tt[i] = ss[i]
  OBVIOUS
<1> HIDE DEF tt
<1>2. CASE ss = <<>>
  <2> DEFINE f == [i \in 1..1 |-> s]
  <2>1. Len(tt) = 1 /\ tt[1] = s /\ Len(ss) = 0
    BY <1>1, <1>2
  <2>2. f = [i \in 1..Len(tt) |-> IF i = 1 THEN tt[i] ELSE f[i - 1] \o tt[i]]
    BY <2>1
  <2>3. f[Len(tt)] = s /\ <<>> \o s = s
    BY <2>1, ConcatEmptySeq
  <2> HIDE DEF f
  <2>4. Flattens(f, tt)
    BY <2>2 DEF Flattens
  <2>5. FlattenSeq(tt) = f[Len(tt)]
    <3>1. Len(tt) \in Nat /\ Len(tt) # 0
      BY <1>1
    <3>2. \A g : Flattens(g, tt) => FlattenSeq(tt) = g[Len(tt)]
      BY <3>1, FlattenIs
    <3> QED BY <2>4, <3>2
  <2>6. FlattenSeq(ss) = <<>>
    BY <1>2, FlattenEmpty
  <2> QED BY <2>3, <2>4, <2>5, <2>6 DEF tt
<1>3. CASE ss # <<>>
  <2>1. PICK f : Flattens(f, ss)
    BY <1>3
  <2>2. Len(ss) # 0
    BY <1>3
  <2>3. FlattenSeq(ss) = f[Len(ss)]
    BY <2>1, <2>2, <1>1, FlattenIs
  <2> DEFINE h == [i \in 1..Len(ss) + 1 |-> IF i <= Len(ss) THEN f[i] ELSE FlattenSeq(ss) \o s]
  <2>4. ASSUME NEW i \in 1..Len(ss) + 1
        PROVE  h[i] = IF i = 1 THEN tt[i] ELSE h[i - 1] \o tt[i]
    <3>1. CASE i <= Len(ss)
      <4>1. i \in 1..Len(ss) /\ h[i] = f[i] /\ tt[i] = ss[i]
        BY <3>1, <1>1
      <4>2. f[i] = IF i = 1 THEN ss[i] ELSE f[i - 1] \o ss[i]
        BY <4>1, <2>1 DEF Flattens
      <4>3. i # 1 => h[i - 1] = f[i - 1]
        BY <4>1, <1>1
      <4> QED BY <4>1, <4>2, <4>3
    <3>2. CASE ~(i <= Len(ss))
      <4>1. i = Len(ss) + 1 /\ i # 1 /\ i - 1 = Len(ss) /\ i - 1 \in 1..Len(ss) + 1 /\ i - 1 <= Len(ss)
        BY <3>2, <1>1, <2>2
      <4>2. h[i] = FlattenSeq(ss) \o s /\ h[i - 1] = f[Len(ss)] /\ tt[i] = s
        BY <4>1, <3>2, <1>1
      <4> QED BY <4>1, <4>2, <2>3
    <3> QED BY <3>1, <3>2
  <2>5. h = [i \in 1..Len(tt) |-> IF i = 1 THEN tt[i] ELSE h[i - 1] \o tt[i]]
    <3>1. h = [i \in 1..Len(ss) + 1 |-> h[i]]
      OBVIOUS
    <3> HIDE DEF h
    <3> QED BY <3>1, <2>4, <1>1, Zenon
  <2>6. h[Len(tt)] = FlattenSeq(ss) \o s
    BY <1>1
  <2> HIDE DEF h
  <2>7. Flattens(h, tt)
    BY <2>5 DEF Flattens
  <2>8. FlattenSeq(tt) = h[Len(tt)]
    BY <2>7, <1>1, FlattenIs
  <2> QED BY <2>6, <2>7, <2>8 DEF tt
<1> QED BY <1>2, <1>3

LEMMA FlattenDefined ==
  ASSUME NEW A
  PROVE  \A ss \in Seq(Seq(A)) : FlattenSeq(ss) \in Seq(A) /\ (ss # <<>> => \E f : Flattens(f, ss))
<1> DEFINE S == {ss \in Seq(Seq(A)) : FlattenSeq(ss) \in Seq(A) /\ (ss # <<>> => \E f : Flattens(f, ss))}
<1>1. <<>> \in S
  BY DEF FlattenSeq
<1>2. ASSUME NEW ss \in Seq(Seq(A)), NEW s \in Seq(A), ss \in S PROVE Append(ss, s) \in S
  <2>1. FlattenSeq(ss) \in Seq(A) /\ (ss # <<>> => \E f : Flattens(f, ss))
    BY <1>2
  <2>2. FlattenSeq(Append(ss, s)) = FlattenSeq(ss) \o s /\ \E f : Flattens(f, Append(ss, s))
    BY <2>1, FlattenStep
  <2>3. FlattenSeq(ss) \o s \in Seq(A) /\ Append(ss, s) \in Seq(Seq(A))
    BY <2>1, ConcatProperties
  <2> QED BY <2>2, <2>3
<1>3. \A ss \in Seq(Seq(A)) : ss \in S
  <2> HIDE DEF S
  <2> QED BY <1>1, <1>2, AllLengths
<1> QED BY <1>3

\* FlattenSeq of a sequence of sequences is one, and goes from left to right.
LEMMA FlattenType ==
  ASSUME NEW A, NEW ss \in Seq(Seq(A)) PROVE FlattenSeq(ss) \in Seq(A)
BY FlattenDefined

LEMMA FlattenAppend ==
  ASSUME NEW A, NEW ss \in Seq(Seq(A)), NEW s \in Seq(A)
  PROVE  FlattenSeq(Append(ss, s)) = FlattenSeq(ss) \o s
BY FlattenDefined, FlattenStep

LEMMA FlattenConcat ==
  ASSUME NEW A, NEW ss \in Seq(Seq(A))
  PROVE  \A tt \in Seq(Seq(A)) : FlattenSeq(ss \o tt) = FlattenSeq(ss) \o FlattenSeq(tt)
<1> DEFINE S == {tt \in Seq(Seq(A)) : FlattenSeq(ss \o tt) = FlattenSeq(ss) \o FlattenSeq(tt)}
<1>1. <<>> \in S
  <2>1. FlattenSeq(ss) \in Seq(A)
    BY FlattenType
  <2> QED BY <2>1, FlattenEmpty, ConcatEmptySeq
<1>2. ASSUME NEW tt \in Seq(Seq(A)), NEW t \in Seq(A), tt \in S PROVE Append(tt, t) \in S
  <2>1. FlattenSeq(ss) \in Seq(A) /\ FlattenSeq(tt) \in Seq(A)
    BY FlattenType
  <2>2. ss \o tt \in Seq(Seq(A)) /\ ss \o Append(tt, t) = Append(ss \o tt, t)
    OBVIOUS
  <2>3. FlattenSeq(Append(ss \o tt, t)) = FlattenSeq(ss \o tt) \o t
    BY <2>2, FlattenAppend
  <2>4. FlattenSeq(Append(tt, t)) = FlattenSeq(tt) \o t
    BY FlattenAppend
  <2>5. FlattenSeq(ss \o tt) = FlattenSeq(ss) \o FlattenSeq(tt)
    BY <1>2
  <2>6. (FlattenSeq(ss) \o FlattenSeq(tt)) \o t = FlattenSeq(ss) \o (FlattenSeq(tt) \o t)
    BY <2>1, ConcatAssociative
  <2>7. FlattenSeq(ss \o Append(tt, t)) = FlattenSeq(ss) \o FlattenSeq(Append(tt, t))
    BY <2>2, <2>3, <2>4, <2>5, <2>6
  <2>8. Append(tt, t) \in Seq(Seq(A))
    OBVIOUS
  <2> QED BY <2>7, <2>8
<1>3. \A tt \in Seq(Seq(A)) : tt \in S
  <2> HIDE DEF S
  <2> QED BY <1>1, <1>2, AllLengths
<1> QED BY <1>3

-----------------------------------------------------------------------------
(* Solid *)

Solids(t) == [i \in DOMAIN t |-> IF t[i] \in Blank THEN <<>> ELSE <<t[i]>>]

LEMMA SolidsType ==
  ASSUME NEW A, NEW t \in Seq(A) PROVE Solids(t) \in Seq(Seq(A))
<1>1. \A i \in 1..Len(t) : Solids(t)[i] \in Seq(A)
  <2>1. \A i \in 1..Len(t) : t[i] \in A /\ <<>> \in Seq(A) /\ <<t[i]>> \in Seq(A)
    OBVIOUS
  <2> QED BY <2>1 DEF Solids
<1>2. Solids(t) = [i \in 1..Len(t) |-> Solids(t)[i]] /\ Len(t) \in Nat
  BY DEF Solids
<1> QED BY <1>1, <1>2, IsASeq

\* Solid takes two texts one after the other, and leaves blanks out.
LEMMA SolidConcat ==
  ASSUME NEW A, NEW s \in Seq(A), NEW t \in Seq(A)
  PROVE  Solid(s \o t) = Solid(s) \o Solid(t)
<1>1. Solids(s \o t) = Solids(s) \o Solids(t)
  <2>1. Len(s \o t) = Len(s) + Len(t) /\ s \o t \in Seq(A) /\ Len(s) \in Nat /\ Len(t) \in Nat
    OBVIOUS
  <2>2. Solids(s) \in Seq(Seq(A)) /\ Solids(t) \in Seq(Seq(A)) /\ Solids(s \o t) \in Seq(Seq(A))
    BY <2>1, SolidsType
  <2>3. Len(Solids(s)) = Len(s) /\ Len(Solids(t)) = Len(t) /\ Len(Solids(s \o t)) = Len(s \o t)
    BY <2>1, <2>2 DEF Solids
  <2>4. ASSUME NEW i \in 1..Len(s) PROVE Solids(s \o t)[i] = Solids(s)[i]
    <3>1. i \in DOMAIN s /\ i \in DOMAIN (s \o t) /\ (s \o t)[i] = s[i]
      BY <2>1
    <3> QED BY <3>1 DEF Solids
  <2>5. ASSUME NEW i \in 1..Len(t) PROVE Solids(s \o t)[Len(s) + i] = Solids(t)[i]
    <3>1. i \in DOMAIN t /\ Len(s) + i \in DOMAIN (s \o t) /\ (s \o t)[Len(s) + i] = t[i]
      BY <2>1
    <3> QED BY <3>1 DEF Solids
  <2> DEFINE u == Solids(s)  v == Solids(t)  w == Solids(s \o t)
  <2>6. /\ u \in Seq(Seq(A)) /\ v \in Seq(Seq(A)) /\ w \in Seq(Seq(A))
        /\ Len(w) = Len(u) + Len(v)
        /\ \A i \in 1..Len(u) : w[i] = u[i]
        /\ \A i \in 1..Len(v) : w[Len(u) + i] = v[i]
    BY <2>1, <2>2, <2>3, <2>4, <2>5
  <2> HIDE DEF u, v, w
  <2>7. w = u \o v
    BY <2>6, ConcatIs
  <2> QED BY <2>7 DEF u, v, w
<1>2. FlattenSeq(Solids(s) \o Solids(t)) = FlattenSeq(Solids(s)) \o FlattenSeq(Solids(t))
  BY SolidsType, FlattenConcat
<1> QED BY <1>1, <1>2 DEF Solid, Solids

LEMMA SolidEmpty == Solid(<<>>) = <<>>
<1>1. [i \in DOMAIN <<>> |-> IF <<>>[i] \in Blank THEN <<>> ELSE <<<<>>[i]>>] = <<>>
  OBVIOUS
<1> QED BY <1>1, FlattenEmpty DEF Solid

LEMMA SolidType == ASSUME NEW A, NEW t \in Seq(A) PROVE Solid(t) \in Seq(A)
BY SolidsType, FlattenType DEF Solid, Solids

LEMMA SolidOfBlank == ASSUME NEW b \in Blank PROVE Solid(<<b>>) = <<>>
<1>1. Solids(<<b>>) = Append(<<>>, <<>>)
  BY DEF Solids
<1>2. <<>> \in Seq(Seq(Blank)) /\ <<>> \in Seq(Blank)
  OBVIOUS
<1>3. FlattenSeq(Append(<<>>, <<>>)) = FlattenSeq(<<>>) \o <<>>
  BY <1>2, FlattenAppend
<1> QED BY <1>1, <1>3, FlattenEmpty, ConcatEmptySeq, <1>2 DEF Solid, Solids

LEMMA SolidOfBlanks == \A t \in Seq(Blank) : Solid(t) = <<>>
<1> DEFINE S == {t \in Seq(Blank) : Solid(t) = <<>>}
<1>1. <<>> \in S
  BY SolidEmpty
<1>2. ASSUME NEW t \in Seq(Blank), NEW b \in Blank, t \in S PROVE Append(t, b) \in S
  <2>1. Append(t, b) = t \o <<b>> /\ <<b>> \in Seq(Blank) /\ Append(t, b) \in Seq(Blank)
    OBVIOUS
  <2>2. Solid(t \o <<b>>) = Solid(t) \o Solid(<<b>>)
    BY <2>1, SolidConcat
  <2> QED BY <1>2, <2>1, <2>2, SolidOfBlank, ConcatEmptySeq
<1>3. \A t \in Seq(Blank) : t \in S
  <2> HIDE DEF S
  <2> QED BY <1>1, <1>2, AllLengths
<1> QED BY <1>3

-----------------------------------------------------------------------------
(* The tokenizer *)

\* Pieces are read up to the first one of another kind, or the end.
LEMMA EndOfProperties ==
  ASSUME NEW A, text \in Seq(A), NEW p \in Nat, p > 0, NEW s
  PROVE  /\ EndOf(p, s) \in Nat /\ EndOf(p, s) >= p
         /\ p > Len(text) => EndOf(p, s) = p
         /\ p <= Len(text) => EndOf(p, s) <= Len(text) + 1
         /\ \A i \in p..EndOf(p, s) - 1 : i <= Len(text) /\ text[i] \in s
         /\ EndOf(p, s) <= Len(text) => text[EndOf(p, s)] \notin s
<1>1. Len(text) \in Nat
  OBVIOUS
<1>2. CASE p > Len(text)
  BY <1>1, <1>2 DEF EndOf
<1>3. CASE ~(p > Len(text))
  <2> DEFINE Ends == {q \in p..Len(text) + 1 : q > Len(text) \/ text[q] \notin s}
             Is_(q) == (\A i \in p..q - 1 : text[i] \in s) /\ (q > Len(text) \/ text[q] \notin s)
  <2>1. Ends \in SUBSET Nat /\ Len(text) + 1 \in Ends
    BY <1>1, <1>3
  <2>2. PICK m \in Ends : \A n \in Ends : m <= n
    <3> HIDE DEF Ends
    <3> QED BY <2>1, LeastNat
  <2>3. m \in p..Len(text) + 1 /\ Is_(m)
    <3>1. ASSUME NEW i \in p..m - 1 PROVE text[i] \in s
      <4>1. i \in p..Len(text) + 1 /\ ~(m <= i)
        BY <1>1, <2>2
      <4>2. i \notin Ends
        BY <2>2, <4>1
      <4> QED BY <4>1, <4>2
    <3> QED BY <3>1, <2>2
  <2>4. EndOf(p, s) = CHOOSE q \in p..Len(text) + 1 : Is_(q)
    BY <1>3 DEF EndOf
  <2>5. EndOf(p, s) \in p..Len(text) + 1 /\ Is_(EndOf(p, s))
    <3> HIDE DEF Is_
    <3> QED BY <2>3, <2>4
  <2> QED BY <1>1, <1>3, <2>5
<1> QED BY <1>2, <1>3

LexInv ==
  /\ text \in Seq(Piece) /\ pos \in Nat \ {0} /\ tokens \in Seq(Token)
  /\ EveryPieceInOneToken

\* What starts before the text begins to be read is behind what starts later.
LEMMA StartProperties ==
  ASSUME LexInv
  PROVE  /\ Start \in Nat /\ Start >= pos /\ Start > 0
         /\ pos <= Len(text) => Start <= Len(text) + 1
         /\ SubSeq(text, pos, Start - 1) \in Seq(Blank)
<1>1. text \in Seq(Piece) /\ pos \in Nat /\ pos > 0
  BY DEF LexInv
<1>2. Start = EndOf(pos, {" "})
  BY DEF Start
<1>3. Start \in Nat /\ Start >= pos /\ (pos <= Len(text) => Start <= Len(text) + 1)
  BY <1>1, <1>2, EndOfProperties
<1>4. \A i \in pos..Start - 1 : text[i] \in {" "}
  BY <1>1, <1>2, EndOfProperties
<1>5. Start > 0 /\ pos \in Int /\ Start - 1 \in Int
  BY <1>1, <1>3
<1>6. SubSeq(text, pos, Start - 1) \in Seq(Blank)
  <2>1. \A i \in pos..Start - 1 : text[i] \in Blank
    BY <1>4 DEF Blank
  <2> QED BY <1>5, <2>1, SubSeqProperties
<1> QED BY <1>3, <1>5, <1>6, Zenon

LEMMA SubText ==
  ASSUME NEW A, NEW t \in Seq(A), NEW m \in Int, NEW n \in Int, m >= 1, n <= Len(t)
  PROVE  SubSeq(t, m, n) \in Seq(A)
<1>1. \A i \in m..n : t[i] \in A
  OBVIOUS
<1> QED BY <1>1, SubSeqProperties

LEMMA TextsType ==
  ASSUME NEW ts \in Seq(Token) PROVE Texts(ts) \in Seq(Seq(Piece))
<1>1. \A i \in 1..Len(ts) : Texts(ts)[i] \in Seq(Piece)
  <2>1. \A i \in 1..Len(ts) : ts[i] \in Token
    OBVIOUS
  <2> QED BY <2>1 DEF Texts, Token
<1>2. Texts(ts) = [i \in 1..Len(ts) |-> Texts(ts)[i]] /\ Len(ts) \in Nat
  BY DEF Texts
<1> QED BY <1>1, <1>2, IsASeq

LEMMA TextsAppend ==
  ASSUME NEW ts \in Seq(Token), NEW t \in Token
  PROVE  Texts(Append(ts, t)) = Append(Texts(ts), t.text)
<1> DEFINE u == Texts(ts)  v == <<t.text>>  w == Texts(Append(ts, t))
<1>1. Append(ts, t) \in Seq(Token) /\ Len(Append(ts, t)) = Len(ts) + 1 /\ Len(ts) \in Nat
  OBVIOUS
<1>2. u \in Seq(Seq(Piece)) /\ w \in Seq(Seq(Piece)) /\ v \in Seq(Seq(Piece))
  <2>1. t.text \in Seq(Piece)
    BY DEF Token
  <2>2. u \in Seq(Seq(Piece)) /\ w \in Seq(Seq(Piece))
    BY <1>1, TextsType
  <2> QED BY <2>1, <2>2
<1>3. Len(u) = Len(ts) /\ Len(w) = Len(ts) + 1 /\ Len(v) = 1
  BY <1>1, <1>2 DEF Texts
<1>4. \A i \in 1..Len(ts) : w[i] = u[i]
  BY <1>1 DEF Texts
<1>5. w[Len(ts) + 1] = v[1]
  BY <1>1 DEF Texts
<1> HIDE DEF u, v, w
<1>6. \A i \in 1..Len(u) : w[i] = u[i]
  BY <1>3, <1>4
<1>7. Len(w) = Len(u) + Len(v) /\ \A i \in 1..Len(v) : w[Len(u) + i] = v[i]
  <2>1. \A i \in 1..Len(v) : i = 1
    BY <1>3
  <2> QED BY <2>1, <1>1, <1>3, <1>5
<1>8. w = u \o v
  BY <1>2, <1>6, <1>7, ConcatIs
<1>9. u \o v = Append(u, t.text)
  BY <1>2 DEF v
<1> QED BY <1>8, <1>9 DEF u, w

\* A token takes up the pieces from where it starts to where the next one is
\* looked for, quotes aside.
LEMMA OneMoreToken ==
  ASSUME LexInv, HasNext, UNCHANGED text, NEW kind \in Kind,
         NEW first \in Int, NEW last \in Int, NEW next \in Nat,
         first >= 1, last <= Len(text), next > Start,
         Solid(SubSeq(text, Start, IF next > Len(text) THEN Len(text) ELSE next - 1)) =
           Solid(SubSeq(text, first, last)),
         Take(kind, first, last, next)
  PROVE  LexInv'
<1> DEFINE end == IF next > Len(text) THEN Len(text) ELSE next - 1
           token == [kind |-> kind, text |-> SubSeq(text, first, last)]
<1>1. text \in Seq(Piece) /\ pos \in Nat /\ pos > 0 /\ tokens \in Seq(Token) /\ EveryPieceInOneToken
  BY DEF LexInv
<1>2. Start \in Nat /\ Start >= pos /\ SubSeq(text, pos, Start - 1) \in Seq(Blank)
  BY StartProperties
<1>3. Start <= Len(text) /\ pos <= Len(text) /\ Len(text) \in Nat
  BY <1>1, <1>2 DEF HasNext
<1>4. end \in Start..Len(text)
  BY <1>1, <1>2, <1>3
<1>5. token \in Token /\ SubSeq(text, first, last) \in Seq(Piece)
  BY <1>1, SubText DEF Token
<1>6. tokens' = Append(tokens, token) /\ pos' = next /\ text' = text
  BY DEF Take
<1> HIDE DEF end, token
<1>7. Solid(SubSeq(text, 1, end)) = Solid(SubSeq(text, 1, pos - 1)) \o Solid(SubSeq(text, first, last))
  <2> DEFINE before == SubSeq(text, 1, pos - 1)
             blanks == SubSeq(text, pos, Start - 1)
             taken == SubSeq(text, Start, end)
  <2>1. before \o blanks = SubSeq(text, 1, Start - 1)
    <3>1. 1 \in 1..Len(text) + 1 /\ pos - 1 \in 1 - 1..Len(text) /\ Start - 1 \in pos - 1..Len(text)
          /\ (pos - 1) + 1 = pos
      BY <1>1, <1>2, <1>3
    <3> HIDE DEF end
    <3> QED BY <1>1, <3>1, ConcatAdjacentSubSeq
  <2>2. SubSeq(text, 1, Start - 1) \o taken = SubSeq(text, 1, end)
    <3>1. 1 \in 1..Len(text) + 1 /\ Start - 1 \in 1 - 1..Len(text) /\ end \in Start - 1..Len(text)
          /\ (Start - 1) + 1 = Start
      BY <1>1, <1>2, <1>3, <1>4
    <3> QED BY <1>1, <3>1, ConcatAdjacentSubSeq
  <2>3. before \in Seq(Piece) /\ taken \in Seq(Piece) /\ blanks \in Seq(Piece)
    BY <1>1, <1>2, <1>3, <1>4, SubText
  <2>4. Solid(blanks) = <<>>
    BY <1>2, SolidOfBlanks
  <2>5. Solid(taken) = Solid(SubSeq(text, first, last))
    BY DEF end
  <2> HIDE DEF before, blanks, taken
  <2>6. Solid((before \o blanks) \o taken) = Solid(before \o blanks) \o Solid(taken)
    <3>1. before \o blanks \in Seq(Piece)
      BY <2>3, ConcatProperties
    <3> QED BY <3>1, <2>3, SolidConcat
  <2>7. Solid(before \o blanks) = Solid(before)
    <3>1. Solid(before) \in Seq(Piece)
      BY <2>3, SolidType
    <3>2. Solid(before \o blanks) = Solid(before) \o <<>>
      BY <2>3, <2>4, SolidConcat
    <3> QED BY <3>1, <3>2, ConcatEmptySeq
  <2>8. Solid(SubSeq(text, 1, end)) = Solid(before) \o Solid(SubSeq(text, first, last))
    BY <2>1, <2>2, <2>5, <2>6, <2>7
  <2> QED BY <2>8 DEF before
<1>8. Solid(FlattenSeq(Texts(tokens'))) =
        Solid(FlattenSeq(Texts(tokens))) \o Solid(SubSeq(text, first, last))
  <2>1. Texts(tokens') = Append(Texts(tokens), SubSeq(text, first, last))
    BY <1>1, <1>5, <1>6, TextsAppend DEF token
  <2>2. Texts(tokens) \in Seq(Seq(Piece)) /\ FlattenSeq(Texts(tokens)) \in Seq(Piece)
    BY <1>1, TextsType, FlattenType
  <2>3. FlattenSeq(Texts(tokens')) = FlattenSeq(Texts(tokens)) \o SubSeq(text, first, last)
    BY <1>5, <2>1, <2>2, FlattenAppend
  <2> QED BY <1>5, <2>2, <2>3, SolidConcat
<1>9. Solid(FlattenSeq(Texts(tokens))) = Solid(SubSeq(text, 1, pos - 1))
  BY <1>1, <1>3 DEF EveryPieceInOneToken
<1>10. EveryPieceInOneToken'
  <2>1. Solid(FlattenSeq(Texts(tokens'))) = Solid(SubSeq(text', 1, end))
    BY <1>6, <1>7, <1>8, <1>9
  <2>2. end = IF pos' > Len(text') THEN Len(text') ELSE pos' - 1
    BY <1>6 DEF end
  <2> QED BY <2>1, <2>2 DEF EveryPieceInOneToken
<1>11. text' \in Seq(Piece) /\ pos' \in Nat \ {0} /\ tokens' \in Seq(Token)
  BY <1>1, <1>2, <1>5, <1>6
<1> QED BY <1>10, <1>11 DEF LexInv

\* The pieces of an unquoted token are taken as they are.
LEMMA PlainToken ==
  ASSUME LexInv, HasNext, UNCHANGED text, NEW kind \in Kind,
         NEW end \in Nat, end > Start, end <= Len(text) + 1,
         Take(kind, Start, end - 1, end)
  PROVE  LexInv'
<1>1. text \in Seq(Piece) /\ Start \in Nat /\ Start > 0 /\ Len(text) \in Nat
  BY StartProperties DEF LexInv
<1>2. (IF end > Len(text) THEN Len(text) ELSE end - 1) = end - 1
  BY <1>1
<1>3. Start \in Int /\ end - 1 \in Int /\ Start >= 1 /\ end - 1 <= Len(text)
  BY <1>1
<1> QED BY <1>2, <1>3, OneMoreToken

\* The pieces between two quotes are taken, or those between one and the end.
LEMMA QuotedStep ==
  ASSUME LexInv, HasNext, UNCHANGED text, QuotedToken
  PROVE  LexInv'
<1> DEFINE end == EndOf(Start + 1, Piece \ {text[Start]})
           upTo == IF end + 1 > Len(text) THEN Len(text) ELSE (end + 1) - 1
           inside == SubSeq(text, Start + 1, end - 1)
<1>1. text \in Seq(Piece) /\ Start \in Nat /\ Start > 0 /\ Len(text) \in Nat /\ Start <= Len(text)
  BY StartProperties DEF LexInv, HasNext
<1>2. text[Start] \in Quote /\ Take(text[Start], Start + 1, end - 1, end + 1) /\ text[Start] \in Kind
  BY DEF QuotedToken, Kind
<1>3. /\ end \in Nat /\ end >= Start + 1
      /\ end <= Len(text) + 1
      /\ end <= Len(text) => text[end] \notin Piece \ {text[Start]}
  <2>1. Start + 1 \in Nat /\ Start + 1 > 0
    BY <1>1
  <2>2. /\ end \in Nat /\ end >= Start + 1
        /\ Start + 1 > Len(text) => end = Start + 1
        /\ Start + 1 <= Len(text) => end <= Len(text) + 1
        /\ end <= Len(text) => text[end] \notin Piece \ {text[Start]}
    BY <1>1, <2>1, EndOfProperties
  <2> HIDE DEF end
  <2> QED BY <1>1, <2>2
<1> HIDE DEF end
<1>4. inside \in Seq(Piece)
  BY <1>1, <1>3, SubText
<1>5. Solid(<<text[Start]>>) = <<>> /\ <<text[Start]>> \in Seq(Piece) /\ Solid(inside) \in Seq(Piece)
  <2>1. text[Start] \in Blank
    BY <1>2, Zenon DEF Blank
  <2>2. <<text[Start]>> \in Seq(Piece)
    BY <1>1
  <2>3. Solid(inside) \in Seq(Piece)
    BY <1>4, SolidType
  <2> QED BY <2>1, <2>2, <2>3, SolidOfBlank
<1>6. Solid(SubSeq(text, Start, end - 1)) = Solid(inside)
  <2>1. SubSeq(text, Start, end - 1) = <<text[Start]>> \o inside
    <3>1. Start \in 1..Len(text) /\ end - 1 \in Start..Len(text)
      BY <1>1, <1>3
    <3> QED BY <1>1, <3>1, SubSeqRecursiveFirst
  <2>2. Solid(<<text[Start]>> \o inside) = Solid(<<text[Start]>>) \o Solid(inside)
    BY <1>4, <1>5, SolidConcat
  <2> QED BY <1>5, <2>1, <2>2, ConcatEmptySeq
<1>7. Solid(SubSeq(text, Start, upTo)) = Solid(inside)
  <2>1. CASE end > Len(text)
    <3>1. upTo = end - 1
      BY <1>1, <1>3, <2>1
    <3> QED BY <3>1, <1>6
  <2>2. CASE ~(end > Len(text))
    <3>1. upTo = end /\ end \in 1..Len(text) /\ Start \in 1..Len(text) /\ end \in Start..Len(text)
      BY <1>1, <1>3, <2>2
    <3>2. text[end] \in Blank /\ text[end] \in Piece
      <4>1. text[end] \in Piece
        BY <1>1, <3>1
      <4>2. text[end] = text[Start]
        BY <1>1, <1>3, <2>2, <4>1
      <4> QED BY <4>1, <4>2, <1>2, Zenon DEF Blank
    <3>3. SubSeq(text, Start, end) = SubSeq(text, Start, end - 1) \o <<text[end]>>
      BY <1>1, <3>1, SubSeqRecursiveSecond
    <3>4. SubSeq(text, Start, end - 1) \in Seq(Piece) /\ <<text[end]>> \in Seq(Piece)
      <4>1. Start \in Int /\ end - 1 \in Int /\ Start >= 1 /\ end - 1 <= Len(text)
        BY <1>1, <1>3
      <4> QED BY <1>1, <3>2, <4>1, SubText
    <3>5. Solid(SubSeq(text, Start, end)) = Solid(SubSeq(text, Start, end - 1)) \o Solid(<<text[end]>>)
      BY <3>3, <3>4, SolidConcat
    <3>6. Solid(<<text[end]>>) = <<>>
      BY <3>2, SolidOfBlank
    <3> QED BY <1>5, <1>6, <3>1, <3>5, <3>6, ConcatEmptySeq
  <2> QED BY <2>1, <2>2
<1>8. Start + 1 \in Int /\ end - 1 \in Int /\ end + 1 \in Nat /\ Start + 1 >= 1 /\ end - 1 <= Len(text) /\ end + 1 > Start
  BY <1>1, <1>3
<1> QED BY <1>2, <1>7, <1>8, OneMoreToken

\* One call of TokenIterator.next.
LEMMA LexStep ==
  ASSUME LexInv, NextToken PROVE LexInv'
<1>1. text \in Seq(Piece) /\ Start \in Nat /\ Start > 0 /\ Len(text) \in Nat /\ Start <= Len(text)
      /\ HasNext /\ UNCHANGED text
  BY StartProperties DEF LexInv, HasNext, NextToken
<1>2. \A s : EndOf(Start, s) \in Nat /\ EndOf(Start, s) <= Len(text) + 1
  BY <1>1, EndOfProperties
<1>3. {"number", "alpha", "operator", "symbol"} \subseteq Kind
  BY DEF Kind
<1>4. CASE NumericToken
  <2> DEFINE end == EndOf(Start, Digit \union {"."})
  <2>1. end > Start /\ Take("number", Start, end - 1, end)
    BY <1>4 DEF NumericToken
  <2> QED BY <1>1, <1>2, <1>3, <2>1, PlainToken
<1>5. CASE AlphaToken
  <2> DEFINE end == EndOf(Start, AlphaNumeric)
  <2>1. end > Start /\ Take("alpha", Start, end - 1, end)
    BY <1>5 DEF AlphaToken
  <2> QED BY <1>1, <1>2, <1>3, <2>1, PlainToken
<1>6. CASE QuotedToken
  BY <1>1, <1>6, QuotedStep
<1>7. CASE CompoundToken
  <2>1. Start + 2 <= Len(text) /\ Take("operator", Start, (Start + 2) - 1, Start + 2)
    <3>1. (Start + 2) - 1 = Start + 1
      BY <1>1
    <3> QED BY <1>7, <3>1 DEF CompoundToken, AtCompound
  <2>2. Start + 2 \in Nat /\ Start + 2 > Start /\ Start + 2 <= Len(text) + 1
    BY <1>1, <2>1
  <2> QED BY <1>1, <1>3, <2>1, <2>2, PlainToken
<1>8. CASE OperatorToken \/ SymbolToken
  <2>1. PICK kind \in Kind : Take(kind, Start, (Start + 1) - 1, Start + 1)
    <3>1. (Start + 1) - 1 = Start
      BY <1>1
    <3> QED BY <1>3, <1>8, <3>1 DEF OperatorToken, SymbolToken
  <2>2. Start + 1 \in Nat /\ Start + 1 > Start /\ Start + 1 <= Len(text) + 1
    BY <1>1
  <2> QED BY <1>1, <2>1, <2>2, PlainToken
<1> QED BY <1>4, <1>5, <1>6, <1>7, <1>8 DEF NextToken

\* A text that nothing was read of.
LEMMA NothingRead ==
  ASSUME NEW t \in Seq(Piece)
  PROVE  Solid(FlattenSeq(Texts(<<>>))) = Solid(SubSeq(t, 1, IF 1 > Len(t) THEN Len(t) ELSE 1 - 1))
<1>1. Texts(<<>>) = <<>>
  BY DEF Texts
<1>2. SubSeq(t, 1, IF 1 > Len(t) THEN Len(t) ELSE 1 - 1) = <<>>
  OBVIOUS
<1> QED BY <1>1, <1>2, FlattenEmpty, SolidEmpty


-----------------------------------------------------------------------------
(* Printing: the texts after the nodes of a tree, from those before *)

PrintsTo(texts, s, t) == texts = [i \in 0..Len(t) |-> IF i = 0 THEN s ELSE PrintNode(texts[i - 1], t[i])]
Printed(s, t) ==
  LET texts[i \in 0..Len(t)] == IF i = 0 THEN s ELSE PrintNode(texts[i - 1], t[i]) IN texts[Len(t)]

LEMMA PrintedIs ==
  ASSUME NEW t, Len(t) \in Nat, NEW s, NEW f, PrintsTo(f, s, t)
  PROVE  Printed(s, t) = f[Len(t)]
<1> DEFINE g == CHOOSE g : PrintsTo(g, s, t)
<1>1. Printed(s, t) = g[Len(t)]
  BY Zenon DEF Printed, PrintsTo
<1>2. PrintsTo(g, s, t)
  BY Zenon
<1> HIDE DEF g
<1> DEFINE S == {n \in Nat : n \in 0..Len(t) => g[n] = f[n]}
<1>3. 0 \in S
  BY <1>2 DEF PrintsTo
<1>4. ASSUME NEW n \in Nat, n \in S PROVE n + 1 \in S
  <2>1. SUFFICES ASSUME n + 1 \in 0..Len(t) PROVE g[n + 1] = f[n + 1]
    BY <1>4
  <2>2. g[n] = f[n] /\ n + 1 # 0 /\ (n + 1) - 1 = n
    BY <1>4, <2>1
  <2>3. g[n + 1] = PrintNode(g[n], t[n + 1])
    BY <1>2, <2>1, <2>2 DEF PrintsTo
  <2>4. f[n + 1] = PrintNode(f[n], t[n + 1])
    BY <2>1, <2>2 DEF PrintsTo
  <2> QED BY <2>2, <2>3, <2>4
<1>5. Len(t) \in S
  <2> HIDE DEF S
  <2> QED BY <1>3, <1>4, AllNat
<1> QED BY <1>1, <1>5

LEMMA PrintedStep ==
  ASSUME NEW A, NEW t \in Seq(A), NEW n \in A, NEW s, NEW f, PrintsTo(f, s, t)
  PROVE  /\ Printed(s, Append(t, n)) = PrintNode(Printed(s, t), n)
         /\ \E h : PrintsTo(h, s, Append(t, n))
<1> DEFINE u == Append(t, n)
<1>1. Len(u) = Len(t) + 1 /\ Len(t) \in Nat /\ u[Len(t) + 1] = n /\ \A i \in 1..Len(t) : u[i] = t[i]
  OBVIOUS
<1> HIDE DEF u
<1>2. Printed(s, t) = f[Len(t)]
  BY <1>1, PrintedIs
<1> DEFINE h == [i \in 0..Len(t) + 1 |-> IF i <= Len(t) THEN f[i] ELSE PrintNode(f[Len(t)], n)]
<1>3. ASSUME NEW i \in 0..Len(t) + 1
      PROVE  h[i] = IF i = 0 THEN s ELSE PrintNode(h[i - 1], u[i])
  <2>1. CASE i <= Len(t)
    <3>1. i \in 0..Len(t) /\ h[i] = f[i] /\ (i # 0 => u[i] = t[i])
      BY <2>1, <1>1
    <3>2. f[i] = IF i = 0 THEN s ELSE PrintNode(f[i - 1], t[i])
      BY <3>1 DEF PrintsTo
    <3>3. i # 0 => h[i - 1] = f[i - 1]
      BY <3>1, <1>1
    <3> QED BY <3>1, <3>2, <3>3
  <2>2. CASE ~(i <= Len(t))
    <3>1. i = Len(t) + 1 /\ i # 0 /\ i - 1 = Len(t) /\ i - 1 \in 0..Len(t) + 1 /\ i - 1 <= Len(t)
      BY <2>2, <1>1
    <3> QED BY <3>1, <2>2, <1>1
  <2> QED BY <2>1, <2>2
<1>4. h = [i \in 0..Len(u) |-> IF i = 0 THEN s ELSE PrintNode(h[i - 1], u[i])]
  <2>1. h = [i \in 0..Len(t) + 1 |-> h[i]]
    OBVIOUS
  <2> HIDE DEF h
  <2> QED BY <2>1, <1>3, <1>1, Zenon
<1>5. h[Len(u)] = PrintNode(f[Len(t)], n)
  BY <1>1
<1> HIDE DEF h
<1>6. PrintsTo(h, s, u)
  BY <1>4 DEF PrintsTo
<1>7. Printed(s, u) = h[Len(u)]
  <2>1. Len(u) \in Nat
    BY <1>1
  <2>2. \A g : PrintsTo(g, s, u) => Printed(s, u) = g[Len(u)]
    BY <2>1, PrintedIs
  <2> QED BY <2>2, <1>6
<1> QED BY <1>2, <1>5, <1>6, <1>7 DEF u

LEMMA PrintedNothing == ASSUME NEW s PROVE Printed(s, <<>>) = s /\ \E f : PrintsTo(f, s, <<>>)
<1> DEFINE f == [i \in 0..0 |-> s]
<1>1. f = [i \in 0..Len(<<>>) |-> IF i = 0 THEN s ELSE PrintNode(f[i - 1], <<>>[i])] /\ f[Len(<<>>)] = s
  OBVIOUS
<1> HIDE DEF f
<1>2. PrintsTo(f, s, <<>>)
  BY <1>1 DEF PrintsTo
<1>3. \A g : PrintsTo(g, s, <<>>) => Printed(s, <<>>) = g[Len(<<>>)]
  BY PrintedIs
<1> QED BY <1>1, <1>2, <1>3

LEMMA PrintedExists ==
  ASSUME NEW A, NEW s PROVE \A t \in Seq(A) : \E f : PrintsTo(f, s, t)
<1> DEFINE S == {t \in Seq(A) : \E f : PrintsTo(f, s, t)}
<1>1. <<>> \in S
  BY PrintedNothing
<1>2. ASSUME NEW t \in Seq(A), NEW n \in A, t \in S PROVE Append(t, n) \in S
  <2>1. PICK f : PrintsTo(f, s, t)
    BY <1>2
  <2>2. \E h : PrintsTo(h, s, Append(t, n))
    BY <2>1, PrintedStep
  <2>3. Append(t, n) \in Seq(A)
    OBVIOUS
  <2> QED BY <2>2, <2>3
<1>3. \A t \in Seq(A) : t \in S
  <2> HIDE DEF S
  <2> QED BY <1>1, <1>2, AllLengths
<1> QED BY <1>3

LEMMA PrintedAppend ==
  ASSUME NEW A, NEW t \in Seq(A), NEW n \in A, NEW s
  PROVE  Printed(s, Append(t, n)) = PrintNode(Printed(s, t), n)
<1>1. PICK f : PrintsTo(f, s, t)
  BY PrintedExists
<1> QED BY <1>1, PrintedStep

LEMMA PrintedConcat ==
  ASSUME NEW A, NEW t \in Seq(A), NEW s
  PROVE  \A u \in Seq(A) : Printed(s, t \o u) = Printed(Printed(s, t), u)
<1> DEFINE S == {u \in Seq(A) : Printed(s, t \o u) = Printed(Printed(s, t), u)}
<1>1. <<>> \in S
  BY PrintedNothing, ConcatEmptySeq
<1>2. ASSUME NEW u \in Seq(A), NEW n \in A, u \in S PROVE Append(u, n) \in S
  <2>1. t \o Append(u, n) = Append(t \o u, n) /\ t \o u \in Seq(A) /\ Append(u, n) \in Seq(A)
    OBVIOUS
  <2>2. Printed(s, Append(t \o u, n)) = PrintNode(Printed(s, t \o u), n)
    BY <2>1, PrintedAppend
  <2>3. Printed(Printed(s, t), Append(u, n)) = PrintNode(Printed(Printed(s, t), u), n)
    BY PrintedAppend
  <2>4. Printed(s, t \o u) = Printed(Printed(s, t), u)
    BY <1>2
  <2> QED BY <2>1, <2>2, <2>3, <2>4
<1>3. \A u \in Seq(A) : u \in S
  <2> HIDE DEF S
  <2> QED BY <1>1, <1>2, AllLengths
<1> QED BY <1>3

-----------------------------------------------------------------------------
(* Trees *)

LEMMA ItemOf == ASSUME NEW A, NEW s \in Seq(A), NEW i \in 1..Len(s) PROVE s[i] \in A
OBVIOUS

LEMMA Items ==
  ASSUME NEW A
  PROVE  <<>> \in Seq(A) /\ (\A a, b \in A : <<a>> \in Seq(A) /\ <<a, b>> \in Seq(A))
OBVIOUS

LEMMA SplitAt ==
  ASSUME NEW A, NEW s \in Seq(A), NEW k \in Nat, NEW m \in Nat, Len(s) = k + m
  PROVE  /\ SubSeq(s, 1, k) \in Seq(A) /\ SubSeq(s, k + 1, Len(s)) \in Seq(A)
         /\ Len(SubSeq(s, 1, k)) = k /\ Len(SubSeq(s, k + 1, Len(s))) = m
         /\ SubSeq(s, 1, k) \o SubSeq(s, k + 1, Len(s)) = s
<1> DEFINE b == SubSeq(s, 1, k)
           c == SubSeq(s, k + 1, Len(s))
<1>1. b \in Seq(A) /\ c \in Seq(A) /\ Len(b) = k /\ Len(c) = m
  OBVIOUS
<1>2. (\A i \in 1..k : s[i] = b[i]) /\ (\A i \in 1..m : s[k + i] = c[i])
  OBVIOUS
<1> HIDE DEF b, c
<1>3. s = b \o c
  BY <1>1, <1>2, ConcatIs
<1> QED BY <1>1, <1>3 DEF b, c

\* s followed by a is s with k more and m more.
Splits(A, s, a, k, m) ==
  \E b, c \in Seq(A) :
    /\ Len(b) = k /\ Len(c) = m
    /\ s \o b \in Seq(A) /\ s \o a = (s \o b) \o c
    /\ \A x \in A : Append(b, x) \in Seq(A) /\ Len(Append(b, x)) = k + 1
                    /\ Append(s \o b, x) = s \o Append(b, x)

LEMMA SplitBehind ==
  ASSUME NEW A, NEW s \in Seq(A), NEW a \in Seq(A), NEW k \in Nat, NEW m \in Nat, Len(a) = k + m
  PROVE  Splits(A, s, a, k, m)
<1> DEFINE b == SubSeq(a, 1, k)
           c == SubSeq(a, k + 1, Len(a))
<1>1. b \in Seq(A) /\ c \in Seq(A) /\ Len(b) = k /\ Len(c) = m /\ b \o c = a
  BY SplitAt
<1> HIDE DEF b, c
<1>2. s \o b \in Seq(A) /\ s \o a = (s \o b) \o c
  <2>0. b \in Seq(A) /\ c \in Seq(A)
    BY <1>1
  <2>2. s \o b \in Seq(A)
    BY ONLY s \in Seq(A), <2>0, ConcatProperties
  <2>1. (s \o b) \o c = s \o (b \o c)
    BY ONLY s \in Seq(A), <2>0, ConcatAssociative
  <2> QED BY <1>1, <2>1, <2>2
<1>3. ASSUME NEW x \in A
      PROVE  Append(b, x) \in Seq(A) /\ Len(Append(b, x)) = k + 1 /\ Append(s \o b, x) = s \o Append(b, x)
  <2>1. Append(b, x) \in Seq(A) /\ Len(Append(b, x)) = k + 1
    BY <1>1
  <2>2. <<x>> \in Seq(A) /\ Append(b, x) = b \o <<x>> /\ Append(s \o b, x) = (s \o b) \o <<x>>
    BY <1>1, <1>2
  <2>3. (s \o b) \o <<x>> = s \o (b \o <<x>>)
    <3>1. b \in Seq(A)
      BY <1>1
    <3>2. <<x>> \in Seq(A)
      BY <2>2
    <3> QED BY ONLY s \in Seq(A), <3>1, <3>2, ConcatAssociative
  <2> QED BY <2>1, <2>2, <2>3
<1> QED BY <1>1, <1>2, <1>3 DEF Splits

\* The nodes t make one text of the last n texts, whatever is before those; a
\* tree is nodes that take none.
Takes(t, n) ==
  /\ t \in Seq(Nodes)
  /\ ~Unhandled(t) =>
       \A s, a \in Seq(Seq(Piece)) :
         Len(a) = n => \E y \in Seq(Piece) : Printed(s \o a, t) = Append(s, y)

LEMMA UnhandledConcat ==
  ASSUME NEW t \in Seq(Nodes), NEW u \in Seq(Nodes), ~Unhandled(t \o u)
  PROVE  ~Unhandled(t) /\ ~Unhandled(u)
<1>1. Len(t \o u) = Len(t) + Len(u) /\ Len(t) \in Nat /\ Len(u) \in Nat
  OBVIOUS
<1>2. ASSUME NEW i \in DOMAIN t PROVE t[i].op \notin {"null", "isnull"}
  <2>1. i \in DOMAIN (t \o u) /\ (t \o u)[i] = t[i]
    BY <1>1
  <2> QED BY <2>1 DEF Unhandled
<1>3. ASSUME NEW i \in DOMAIN u PROVE u[i].op \notin {"null", "isnull"}
  <2>1. Len(t) + i \in DOMAIN (t \o u) /\ (t \o u)[Len(t) + i] = u[i]
    BY <1>1
  <2> QED BY <2>1 DEF Unhandled
<1> QED BY <1>2, <1>3 DEF Unhandled

\* What goes on takes the text that was made, and others before it.
LEMMA TakesConcat ==
  ASSUME NEW m \in Nat, NEW k \in Nat, NEW t, Takes(t, m), NEW u, Takes(u, k + 1)
  PROVE  Takes(t \o u, k + m)
<1>1. t \in Seq(Nodes) /\ u \in Seq(Nodes) /\ t \o u \in Seq(Nodes)
  BY ConcatProperties DEF Takes
<1>2. ASSUME ~Unhandled(t \o u), NEW s \in Seq(Seq(Piece)), NEW a \in Seq(Seq(Piece)), Len(a) = k + m
      PROVE  \E y \in Seq(Piece) : Printed(s \o a, t \o u) = Append(s, y)
  <2>1. PICK b, c \in Seq(Seq(Piece)) :
          /\ Len(b) = k /\ Len(c) = m
          /\ s \o b \in Seq(Seq(Piece)) /\ s \o a = (s \o b) \o c
          /\ \A x \in Seq(Piece) : Append(b, x) \in Seq(Seq(Piece)) /\ Len(Append(b, x)) = k + 1
                                   /\ Append(s \o b, x) = s \o Append(b, x)
    <3>1. \A A : \A q, r \in Seq(A) : \A i, j \in Nat : Len(r) = i + j => Splits(A, q, r, i, j)
      BY SplitBehind
    <3>2. Splits(Seq(Piece), s, a, k, m)
      BY <1>2, <3>1, Zenon
    <3> QED BY <3>2, Zenon DEF Splits
  <2>2. ~Unhandled(t) /\ ~Unhandled(u)
    BY <1>1, <1>2, UnhandledConcat
  <2>4. PICK x \in Seq(Piece) : Printed((s \o b) \o c, t) = Append(s \o b, x)
    BY <2>1, <2>2 DEF Takes
  <2>6. PICK y \in Seq(Piece) : Printed(s \o Append(b, x), u) = Append(s, y)
    BY <2>1, <2>2 DEF Takes
  <2>7. Printed(s \o a, t \o u) = Printed(Printed(s \o a, t), u)
    BY <1>1, PrintedConcat
  <2> QED BY <2>1, <2>4, <2>6, <2>7
<1> QED BY <1>1, <1>2 DEF Takes

LEMMA OneMore ==
  ASSUME NEW A, NEW s \in Seq(A), NEW a \in Seq(A), Len(a) = 1
  PROVE  \E y \in A : s \o a = Append(s, y)
<1>1. a[1] \in A /\ a = <<a[1]>>
  <2>1. a[1] \in A
    <3>1. 1 \in 1..Len(a)
      OBVIOUS
    <3> QED BY <3>1, ItemOf
  <2>2. <<a[1]>> \in Seq(A) /\ Len(<<a[1]>>) = Len(a) /\ \A i \in 1..Len(a) : <<a[1]>>[i] = a[i]
    BY <2>1
  <2> QED BY <2>1, <2>2, SeqEqual
<1>2. s \o <<a[1]>> = Append(s, a[1])
  BY <1>1
<1> QED BY <1>1, <1>2

LEMMA NothingTakes == Takes(<<>>, 1)
<1>1. ASSUME NEW s \in Seq(Seq(Piece)), NEW a \in Seq(Seq(Piece)), Len(a) = 1
      PROVE  \E y \in Seq(Piece) : Printed(s \o a, <<>>) = Append(s, y)
  <2>1. \E y \in Seq(Piece) : s \o a = Append(s, y)
    BY <1>1, OneMore, Zenon
  <2> QED BY <2>1, PrintedNothing
<1> QED BY <1>1 DEF Takes

\* A node takes the texts of its branches.
LEMMA TakesNode ==
  ASSUME NEW node \in Nodes,
         node.op \notin {"null", "isnull"} =>
           \A a \in Seq(Seq(Piece)) : Len(a) = node.branches => NodeSQL(node, a) \in Seq(Piece)
  PROVE  Takes(<<node>>, node.branches)
<1>1. <<node>> \in Seq(Nodes) /\ node.branches \in Nat
  BY DEF Nodes
<1>2. ASSUME ~Unhandled(<<node>>), NEW s \in Seq(Seq(Piece)), NEW a \in Seq(Seq(Piece)), Len(a) = node.branches
      PROVE  \E y \in Seq(Piece) : Printed(s \o a, <<node>>) = Append(s, y)
  <2>1. node.op \notin {"null", "isnull"}
    BY <1>2 DEF Unhandled
  <2>2. Printed(s \o a, <<node>>) = PrintNode(s \o a, node)
    <3>1. <<node>> = Append(<<>>, node) /\ <<>> \in Seq(Nodes)
      OBVIOUS
    <3>2. Printed(s \o a, Append(<<>>, node)) = PrintNode(Printed(s \o a, <<>>), node)
      BY <3>1, PrintedAppend
    <3> QED BY <3>1, <3>2, PrintedNothing
  <2>3. PrintNode(s \o a, node) = Append(s, NodeSQL(node, a))
    <3>1. Len(s \o a) - node.branches = Len(s) /\ Len(s) \in Nat
      BY <1>2
    <3>2. SubSeq(s \o a, 1, Len(s)) = s
      OBVIOUS
    <3>3. SubSeq(s \o a, Len(s) + 1, Len(s \o a)) = a
      OBVIOUS
    <3> QED BY <3>1, <3>2, <3>3 DEF PrintNode
  <2> QED BY <1>2, <2>1, <2>2, <2>3
<1> QED BY <1>1, <1>2 DEF Takes

\* What is printed for a tree is a text.
LEMMA MakeSQLType ==
  ASSUME NEW t, Takes(t, 0), ~Unhandled(t) PROVE MakeSQL(t) \in Seq(Piece)
<1>1. MakeSQL(t) = Printed(<<>>, t)[1]
  BY DEF MakeSQL, Printed
<1>2. <<>> \in Seq(Seq(Piece)) /\ Len(<<>>) = 0 /\ <<>> \o <<>> = <<>>
  OBVIOUS
<1>3. PICK y \in Seq(Piece) : Printed(<<>> \o <<>>, t) = Append(<<>>, y)
  BY <1>2 DEF Takes
<1> QED BY <1>1, <1>2, <1>3

\* The nodes that the parser makes.
LEMMA NodeTakes ==
  ASSUME NEW name \in Seq(Piece)
  PROVE  /\ \A op \in {"null", "all", "join", "number", "string", "field"} : Takes(<<Node(op, name, 0)>>, 0)
         /\ \A op \in {"call", "not", "isnull"} : Takes(<<Node(op, name, 1)>>, 1)
         /\ Takes(<<Node("infix", name, 2)>>, 2)
         /\ \A n \in Nat : Takes(<<Node("list", name, n)>>, n)
<1>1. {"NOT", "(", ")", "*", "'", "backtick", " ", ","} \subseteq Piece
  BY WordAssumption DEF Piece, Quote, Operator
<1>0. \A b, c \in Piece : <<b>> \in Seq(Piece) /\ <<b, c>> \in Seq(Piece)
  BY Items
<1>c. \A u, v, w \in Seq(Piece) : u \o v \in Seq(Piece) /\ u \o v \o w \in Seq(Piece)
  BY ConcatProperties
<1>2. NameOf(name) \in Seq(Piece)
  <2>1. <<"backtick">> \in Seq(Piece)
    BY <1>0, <1>1
  <2> QED BY <1>c, <2>1 DEF NameOf
<1>3. ASSUME NEW op \in {"null", "all", "join", "number", "string", "field"}
      PROVE  Takes(<<Node(op, name, 0)>>, 0)
  <2> DEFINE node == Node(op, name, 0)
  <2>1. node \in Nodes /\ node.branches = 0 /\ node.op = op /\ node.name = name
    BY DEF Node, Nodes
  <2> HIDE DEF node
  <2>2. ASSUME op \notin {"null", "isnull"}, NEW a \in Seq(Seq(Piece)) PROVE NodeSQL(node, a) \in Seq(Piece)
    <3>1. CASE op \in {"number", "join"}
      BY <2>1, <3>1 DEF NodeSQL
    <3>2. CASE op = "all"
      <4>1. NodeSQL(node, a) = <<"*">>
        BY <2>1, <3>2 DEF NodeSQL
      <4> QED BY <4>1, <1>0, <1>1
    <3>3. CASE op = "string"
      <4>1. NodeSQL(node, a) = <<"'">> \o name \o <<"'">>
        BY <2>1, <3>3 DEF NodeSQL
      <4>2. <<"'">> \in Seq(Piece)
        BY <1>0, <1>1
      <4> QED BY <4>1, <4>2, <1>c
    <3>4. CASE op = "field"
      BY <1>2, <2>1, <3>4 DEF NodeSQL
    <3> QED BY <2>2, <3>1, <3>2, <3>3, <3>4
  <2>3. Takes(<<node>>, node.branches)
    BY <2>1, <2>2, TakesNode
  <2> QED BY <2>1, <2>3 DEF node
<1>4. ASSUME NEW op \in {"call", "not", "isnull"}
      PROVE  Takes(<<Node(op, name, 1)>>, 1)
  <2> DEFINE node == Node(op, name, 1)
  <2>1. node \in Nodes /\ node.branches = 1 /\ node.op = op /\ node.name = name
    BY DEF Node, Nodes
  <2> HIDE DEF node
  <2>2. ASSUME op \notin {"null", "isnull"}, NEW a \in Seq(Seq(Piece)), Len(a) = 1 PROVE NodeSQL(node, a) \in Seq(Piece)
    <3>0. a[1] \in Seq(Piece)
      BY <2>2, ItemOf
    <3>1. CASE op = "call"
      <4>1. NodeSQL(node, a) = name \o <<"(">> \o a[1] \o <<")">>
        BY <2>1, <3>1 DEF NodeSQL
      <4>2. <<"(">> \in Seq(Piece) /\ <<")">> \in Seq(Piece)
        BY <1>0, <1>1
      <4>3. name \o <<"(">> \o a[1] \in Seq(Piece)
        BY <1>c, <3>0, <4>2
      <4> QED BY <4>1, <4>2, <4>3, <1>c
    <3>2. CASE op = "not"
      <4>1. NodeSQL(node, a) = <<"NOT", " ">> \o a[1]
        BY <2>1, <3>2 DEF NodeSQL
      <4>2. <<"NOT", " ">> \in Seq(Piece)
        BY <1>0, <1>1
      <4> QED BY <4>1, <4>2, <3>0, <1>c
    <3> QED BY <2>2, <3>1, <3>2
  <2>3. Takes(<<node>>, node.branches)
    BY <2>1, <2>2, TakesNode
  <2> QED BY <2>1, <2>3 DEF node
<1>5. Takes(<<Node("infix", name, 2)>>, 2)
  <2> DEFINE node == Node("infix", name, 2)
  <2>1. node \in Nodes /\ node.branches = 2 /\ node.op = "infix" /\ node.name = name
    BY DEF Node, Nodes
  <2> HIDE DEF node
  <2>2. ASSUME NEW a \in Seq(Seq(Piece)), Len(a) = 2 PROVE NodeSQL(node, a) \in Seq(Piece)
    <3>1. a[1] \in Seq(Piece) /\ a[2] \in Seq(Piece)
      <4>1. 1 \in 1..Len(a) /\ 2 \in 1..Len(a)
        BY <2>2
      <4> QED BY <4>1, ItemOf, Zenon
    <3>2. NodeSQL(node, a) = a[1] \o <<" ">> \o name \o <<" ">> \o a[2]
      BY <2>1 DEF NodeSQL, Infix
    <3>3. <<" ">> \in Seq(Piece)
      BY <1>0, <1>1
    <3>4. a[1] \o <<" ">> \o name \in Seq(Piece)
      BY <1>c, <3>1, <3>3
    <3>5. a[1] \o <<" ">> \o name \o <<" ">> \in Seq(Piece)
      BY <1>c, <3>3, <3>4
    <3> QED BY <3>1, <3>2, <3>5, <1>c
  <2>3. Takes(<<node>>, node.branches)
    BY <2>1, <2>2, TakesNode
  <2> QED BY <2>1, <2>3 DEF node
<1>6. ASSUME NEW n \in Nat PROVE Takes(<<Node("list", name, n)>>, n)
  <2> DEFINE node == Node("list", name, n)
  <2>1. node \in Nodes /\ node.branches = n /\ node.op = "list"
    BY DEF Node, Nodes
  <2> HIDE DEF node
  <2>2. ASSUME NEW a \in Seq(Seq(Piece)) PROVE NodeSQL(node, a) \in Seq(Piece)
    <3> DEFINE parts == [k \in DOMAIN a |-> (IF k = 1 THEN <<>> ELSE <<",", " ">>) \o a[k]]
    <3>1. NodeSQL(node, a) = FlattenSeq(parts)
      BY <2>1 DEF NodeSQL
    <3>2. ASSUME NEW k \in 1..Len(a) PROVE parts[k] \in Seq(Piece)
      <4>1. a[k] \in Seq(Piece) /\ <<>> \in Seq(Piece) /\ <<",", " ">> \in Seq(Piece)
        BY <1>0, <1>1, ItemOf, Items
      <4>2. parts[k] = (IF k = 1 THEN <<>> ELSE <<",", " ">>) \o a[k]
        <5>1. k \in DOMAIN a
          BY LenProperties, Zenon
        <5> QED BY <5>1, Zenon
      <4> QED BY <4>1, <4>2, <1>c
    <3>3. parts = [k \in 1..Len(a) |-> parts[k]] /\ Len(a) \in Nat
      <4>1. DOMAIN a = 1..Len(a) /\ Len(a) \in Nat
        BY LenProperties
      <4> QED BY <4>1
    <3> HIDE DEF parts
    <3>4. parts \in Seq(Seq(Piece))
      BY <3>2, <3>3, IsASeq
    <3> QED BY <3>1, <3>4, FlattenType
  <2>3. Takes(<<node>>, node.branches)
    BY <2>1, <2>2, TakesNode
  <2> QED BY <2>1, <2>3 DEF node
<1> QED BY <1>3, <1>4, <1>5, <1>6

-----------------------------------------------------------------------------
(* Recursion *)

\* A value is of its kind, and the same for p and q, when these are of theirs and
\* the same for the calls less far from the end.
Computes(D, R, V, m, F) ==
  /\ m \in [D -> Nat]
  /\ \A d \in D : V[d] \subseteq R /\ V[d] # {}
  /\ \A p, q \in [D -> R] : \A d \in D :
       (\A c \in D : m[c] < m[d] => p[c] \in V[c] /\ q[c] = p[c]) =>
         F[p][d] \in V[d] /\ F[q][d] = F[p][d]

HasFixpoint(D, R, F) == \E p \in [D -> R] : \A d \in D : p[d] = F[p][d]

\* Functions that call themselves further on only are defined by their equations.
LEMMA Recursion ==
  ASSUME NEW D, NEW R, NEW V, NEW m, NEW F, Computes(D, R, V, m, F)
  PROVE  HasFixpoint(D, R, F)
<1>0. /\ m \in [D -> Nat]
      /\ \A d \in D : V[d] \subseteq R /\ V[d] # {}
      /\ \A p, q \in [D -> R] : \A d \in D :
           (\A c \in D : m[c] < m[d] => p[c] \in V[c] /\ q[c] = p[c]) =>
             F[p][d] \in V[d] /\ F[q][d] = F[p][d]
  BY DEF Computes
<1> DEFINE Upto(n) == {p \in [D -> R] : \A d \in D : m[d] < n => p[d] = F[p][d] /\ p[d] \in V[d]}
           N == {n \in Nat : Upto(n) # {}}
<1>1. 0 \in N
  <2> DEFINE p == [d \in D |-> CHOOSE v \in V[d] : TRUE]
  <2>1. \A d \in D : p[d] \in V[d] /\ p[d] \in R
    <3>1. \A d \in D : \E v \in V[d] : TRUE
      BY <1>0
    <3> QED BY <1>0, <3>1, Zenon
  <2>2. p \in [D -> R]
    BY <2>1
  <2> HIDE DEF p
  <2>3. p \in Upto(0)
    BY <1>0, <2>2
  <2> QED BY <2>3
<1>2. ASSUME NEW n \in Nat, n \in N PROVE n + 1 \in N
  <2>1. PICK p \in [D -> R] : \A d \in D : m[d] < n => p[d] = F[p][d] /\ p[d] \in V[d]
    BY <1>2
  <2> DEFINE q == [d \in D |-> IF m[d] < n THEN p[d] ELSE IF m[d] = n THEN F[p][d] ELSE p[d]]
  <2>2. ASSUME NEW d \in D, m[d] <= n PROVE F[p][d] \in V[d]
    <3>1. \A c \in D : m[c] < m[d] => p[c] \in V[c] /\ p[c] = p[c]
      BY <1>0, <2>1, <2>2
    <3> QED BY <1>0, <3>1
  <2>3. q \in [D -> R]
    <3>1. ASSUME NEW d \in D PROVE q[d] \in R
      BY <1>0, <2>2
    <3> QED BY <3>1
  <2>4. ASSUME NEW d \in D, m[d] < n + 1 PROVE q[d] = F[q][d] /\ q[d] \in V[d]
    <3>1. \A c \in D : m[c] < m[d] => p[c] \in V[c] /\ q[c] = p[c]
      <4>1. SUFFICES ASSUME NEW c \in D, m[c] < m[d] PROVE p[c] \in V[c] /\ q[c] = p[c]
        OBVIOUS
      <4>2. m[c] < n
        BY <1>0, <2>4, <4>1
      <4> QED BY <4>2, <2>1
    <3>2. q[d] = F[p][d]
      BY <1>0, <2>1, <2>4
    <3> HIDE DEF q
    <3>3. F[p][d] \in V[d] /\ F[q][d] = F[p][d]
      BY <1>0, <2>3, <3>1
    <3> QED BY <3>2, <3>3
  <2> HIDE DEF q
  <2>5. q \in Upto(n + 1)
    BY <2>3, <2>4
  <2> QED BY <2>5
<1>3. \A n \in Nat : Upto(n) # {}
  <2>1. \A n \in Nat : n \in N
    <3> HIDE DEF N
    <3> QED BY <1>1, <1>2, AllNat
  <2> QED BY <2>1
\* Two such functions are the same as far as both go.
<1> DEFINE E == {n \in Nat : \A f, g \in Upto(n) : \A d \in D : m[d] < n => f[d] = g[d]}
<1>4. 0 \in E
  BY <1>0
<1>5. ASSUME NEW n \in Nat, n \in E PROVE n + 1 \in E
  <2>1. SUFFICES ASSUME NEW f \in Upto(n + 1), NEW g \in Upto(n + 1), NEW d \in D, m[d] < n + 1
                 PROVE  f[d] = g[d]
    OBVIOUS
  <2>2. f \in Upto(n) /\ g \in Upto(n)
    BY <1>0
  <2>3. \A c \in D : m[c] < m[d] => f[c] \in V[c] /\ g[c] = f[c]
    <3>1. SUFFICES ASSUME NEW c \in D, m[c] < m[d] PROVE f[c] \in V[c] /\ g[c] = f[c]
      OBVIOUS
    <3>2. m[c] < n /\ m[c] < n + 1
      BY <1>0, <2>1, <3>1
    <3> QED BY <1>5, <2>2, <3>2
  <2>4. F[g][d] = F[f][d]
    BY <1>0, <2>3
  <2>5. f[d] = F[f][d] /\ g[d] = F[g][d]
    BY <2>1
  <2> QED BY <2>4, <2>5
<1>6. \A n \in Nat : n \in E
  <2> HIDE DEF E
  <2> QED BY <1>4, <1>5, AllNat
<1> DEFINE G(d) == CHOOSE f \in Upto(m[d] + 1) : TRUE
           p == [d \in D |-> G(d)[d]]
<1>7. \A d \in D : m[d] \in Nat /\ G(d) \in Upto(m[d] + 1)
  <2>1. \A d \in D : m[d] \in Nat /\ m[d] + 1 \in Nat
    BY <1>0
  <2> HIDE DEF Upto
  <2> QED BY <1>3, <2>1
<1> HIDE DEF G
<1>8. p \in [D -> R]
  <2>1. \A d \in D : G(d)[d] \in R
    BY <1>7
  <2> QED BY <2>1
<1>9. ASSUME NEW d \in D PROVE p[d] = F[p][d]
  <2> DEFINE f == G(d)
  <2>1. f \in [D -> R] /\ f[d] = F[f][d] /\ m[d] \in Nat
        /\ \A c \in D : m[c] < m[d] => f[c] \in V[c]
    <3>1. f \in Upto(m[d] + 1) /\ m[d] \in Nat
      BY <1>7
    <3> HIDE DEF f
    <3> QED BY <1>0, <3>1
  <2>2. ASSUME NEW c \in D, m[c] < m[d] PROVE p[c] = f[c]
    <3>1. G(c) \in Upto(m[c] + 1) /\ f \in Upto(m[c] + 1) /\ m[c] \in Nat
      <4>1. f \in Upto(m[d] + 1) /\ G(c) \in Upto(m[c] + 1) /\ m[c] \in Nat /\ m[d] \in Nat
        BY <1>7
      <4> HIDE DEF f
      <4> QED BY <1>0, <2>2, <4>1
    <3>2. m[c] + 1 \in E
      <4>1. m[c] + 1 \in Nat
        BY <3>1
      <4> HIDE DEF E
      <4> QED BY <1>6, <4>1
    <3>3. m[c] < m[c] + 1
      BY <3>1
    <3> HIDE DEF f, Upto
    <3>4. G(c)[c] = f[c]
      BY <3>1, <3>2, <3>3
    <3> QED BY <3>4
  <2> HIDE DEF f, p
  <2>3. F[p][d] = F[f][d]
    BY <1>0, <1>8, <2>1, <2>2
  <2>4. p[d] = f[d]
    BY DEF p, f
  <2> QED BY <2>1, <2>3, <2>4
<1> HIDE DEF p
<1> QED BY <1>8, <1>9 DEF HasFixpoint

\* What holds of a call when it holds of those it makes, holds of all.
Hereditary(D, V, m, p) ==
  /\ m \in [D -> Nat]
  /\ \A d \in D : (\A c \in D : m[c] < m[d] => p[c] \in V[c]) => p[d] \in V[d]

LEMMA AllCalls ==
  ASSUME NEW D, NEW V, NEW m, NEW p, Hereditary(D, V, m, p)
  PROVE  \A d \in D : p[d] \in V[d]
<1>0. /\ m \in [D -> Nat]
      /\ \A d \in D : (\A c \in D : m[c] < m[d] => p[c] \in V[c]) => p[d] \in V[d]
  BY DEF Hereditary
<1> DEFINE N == {n \in Nat : \A d \in D : m[d] < n => p[d] \in V[d]}
<1>1. 0 \in N
  BY <1>0
<1>2. ASSUME NEW n \in Nat, n \in N PROVE n + 1 \in N
  <2>1. ASSUME NEW d \in D, m[d] < n + 1 PROVE p[d] \in V[d]
    <3>1. \A c \in D : m[c] < m[d] => p[c] \in V[c]
      BY <1>0, <1>2, <2>1
    <3> QED BY <1>0, <3>1
  <2> QED BY <2>1
<1>3. \A n \in Nat : n \in N
  <2> HIDE DEF N
  <2> QED BY <1>1, <1>2, AllNat
<1>4. ASSUME NEW d \in D PROVE p[d] \in V[d]
  <2>1. m[d] + 1 \in N /\ m[d] < m[d] + 1
    BY <1>0, <1>3
  <2> QED BY <2>1
<1> QED BY <1>4

-----------------------------------------------------------------------------
(* Numbers *)

LEMMA GreatestOf ==
  ASSUME NEW n \in Nat, NEW S \in SUBSET (1..n), S # {}
  PROVE  \E m \in S : \A j \in S : j <= m
<1> DEFINE T == {n - j : j \in S}
<1>1. T \in SUBSET Nat /\ T # {}
  <2>1. \A j \in S : j \in 1..n /\ n - j \in Nat
    OBVIOUS
  <2> QED BY <2>1
<1>2. PICK k \in T : \A j \in T : k <= j
  <2> HIDE DEF T
  <2> QED BY <1>1, LeastNat
<1>3. PICK m \in S : k = n - m
  BY <1>2
<1>4. ASSUME NEW j \in S PROVE j <= m
  <2>1. n - j \in T
    OBVIOUS
  <2> QED BY <1>2, <1>3, <2>1
<1> QED BY <1>4

LEMMA CanonicalType ==
  ASSUME NEW t \in Seq(Piece) PROVE Canonical(t) \in Seq(Piece)
<1> DEFINE dot == IF "." \in {t[i] : i \in DOMAIN t} THEN CHOOSE i \in DOMAIN t : t[i] = "."
                  ELSE Len(t) + 1
           ones == {i \in DOMAIN t : t[i] # "0" /\ t[i] # "."}
           whole == {i \in ones : i < dot}
           part == {i \in ones : i > dot}
           first == CHOOSE i \in whole : \A j \in whole : i <= j
           last == CHOOSE i \in part : \A j \in part : j <= i
           before == IF whole = {} THEN <<"0">> ELSE SubSeq(t, first, dot - 1)
           behind == IF part = {} THEN <<"0">> ELSE SubSeq(t, dot + 1, last)
<1>1. DOMAIN t = 1..Len(t) /\ Len(t) \in Nat
  BY LenProperties
<1>2. dot \in 1..Len(t) + 1
  <2>1. CASE "." \in {t[i] : i \in DOMAIN t}
    <3>1. \E i \in DOMAIN t : t[i] = "."
      BY <2>1
    <3>2. dot \in DOMAIN t
      BY <2>1, <3>1, Zenon
    <3> QED BY <1>1, <3>2
  <2>2. CASE "." \notin {t[i] : i \in DOMAIN t}
    BY <1>1, <2>2
  <2> QED BY <2>1, <2>2
<1> HIDE DEF dot
<1>3. whole \subseteq 1..Len(t) /\ part \subseteq 1..Len(t)
  BY <1>1
<1> HIDE DEF whole, part
<1>4. <<"0">> \in Seq(Piece) /\ <<".">> \in Seq(Piece)
  <2>1. "0" \in Piece /\ "." \in Piece
    BY DEF Piece, Digit
  <2> QED BY <2>1, Items
<1>5. before \in Seq(Piece)
  <2>1. ASSUME whole # {} PROVE SubSeq(t, first, dot - 1) \in Seq(Piece)
    <3>1. first \in whole
      <4>1. whole \in SUBSET Nat
        BY <1>1, <1>3
      <4>2. \E i \in whole : \A j \in whole : i <= j
        BY <2>1, <4>1, LeastNat
      <4> QED BY <4>2
    <3> HIDE DEF first, last
    <3>2. first \in Int /\ first >= 1 /\ dot - 1 \in Int /\ dot - 1 <= Len(t)
      BY <1>1, <1>2, <1>3, <3>1
    <3> QED BY <3>2, SubText
  <2> QED BY <2>1, <1>4
<1>6. behind \in Seq(Piece)
  <2>1. ASSUME part # {} PROVE SubSeq(t, dot + 1, last) \in Seq(Piece)
    <3>1. last \in part
      <4>1. \E i \in part : \A j \in part : j <= i
        BY <2>1, <1>1, <1>3, GreatestOf
      <4> QED BY <4>1
    <3> HIDE DEF first, last
    <3>2. last \in Int /\ last <= Len(t) /\ dot + 1 \in Int /\ dot + 1 >= 1
      BY <1>1, <1>2, <1>3, <3>1
    <3> QED BY <3>2, SubText
  <2> QED BY <2>1, <1>4
<1>7. Canonical(t) = before \o <<".">> \o behind
  BY DEF Canonical, dot, whole, part
<1> HIDE DEF before, behind
<1>8. before \o <<".">> \in Seq(Piece)
  BY <1>4, <1>5, ConcatProperties
<1> QED BY <1>6, <1>7, <1>8, ConcatProperties

-----------------------------------------------------------------------------
(* What the parser returns *)

\* From the place i on: nodes that take the last n texts and the place behind
\* their tokens, or the place up to which there was nothing to make a tree of.
Reads(ts, i, n) ==
  {r \in Outcome :
     /\ r.is = "found" => Takes(r.tree, n)
     /\ r.is # "found" => r.tree = <<>>
     /\ r.is # "died" => r.at \in i..Len(ts) + 1}

LEMMA OutcomeType ==
  ASSUME NEW tree \in Seq(Nodes), NEW i \in Nat
  PROVE  /\ Found(tree, i) \in Outcome /\ None(i) \in Outcome /\ Died(i) \in Outcome
         /\ Found(tree, i).is = "found" /\ Found(tree, i).tree = tree /\ Found(tree, i).at = i
         /\ None(i).is = "none" /\ None(i).tree = <<>> /\ None(i).at = i
         /\ Died(i).is = "died" /\ Died(i).tree = <<>> /\ Died(i).at = i
BY DEF Found, None, Died, Outcome

LEMMA NoneReads ==
  ASSUME NEW ts \in Seq(Token), NEW i \in Nat, NEW n, NEW j \in i..Len(ts) + 1
  PROVE  None(j) \in Reads(ts, i, n)
<1>1. j \in Nat /\ <<>> \in Seq(Nodes)
  BY LenProperties
<1>2. None(j) \in Outcome /\ None(j).is = "none" /\ None(j).tree = <<>> /\ None(j).at = j
  BY <1>1, OutcomeType
<1> QED BY <1>2 DEF Reads

LEMMA DiedReads ==
  ASSUME NEW ts, NEW i, NEW n, NEW j \in Nat
  PROVE  Died(j) \in Reads(ts, i, n)
<1>1. <<>> \in Seq(Nodes)
  OBVIOUS
<1> QED BY <1>1, OutcomeType DEF Reads

LEMMA FoundReads ==
  ASSUME NEW ts \in Seq(Token), NEW i \in Nat, NEW n, NEW j \in i..Len(ts) + 1, NEW t, Takes(t, n)
  PROVE  Found(t, j) \in Reads(ts, i, n)
<1>1. j \in Nat /\ t \in Seq(Nodes)
  BY LenProperties DEF Takes
<1> QED BY <1>1, OutcomeType DEF Reads

LEMMA ReadsType ==
  ASSUME NEW ts \in Seq(Token), NEW i \in Nat, NEW n, NEW r \in Reads(ts, i, n)
  PROVE  /\ r \in Outcome /\ r.at \in Nat /\ r.is \in {"found", "none", "died"}
         /\ r.is = "found" => Takes(r.tree, n)
         /\ r.is # "found" => r.tree = <<>>
         /\ r.is # "died" => r.at \in i..Len(ts) + 1
         /\ r = [is |-> r.is, tree |-> r.tree, at |-> r.at]
BY DEF Reads, Outcome

\* What is not found from a later place on is not found from here.
LEMMA ReadsEarlier ==
  ASSUME NEW ts \in Seq(Token), NEW i \in Nat, NEW j \in Nat, i <= j, NEW n, NEW r \in Reads(ts, j, n)
  PROVE  /\ r \in Reads(ts, i, n)
         /\ r.is # "found" => \A k : r \in Reads(ts, i, k)
<1>1. j..Len(ts) + 1 \subseteq i..Len(ts) + 1
  BY LenProperties
<1> QED BY <1>1 DEF Reads

LEMMA ThenReads ==
  ASSUME NEW ts \in Seq(Token), NEW i \in Nat, NEW j \in Nat, i <= j, NEW m \in Nat, NEW k \in Nat,
         NEW r \in Reads(ts, i, m), r.is = "found", NEW o \in Reads(ts, j, k + 1)
  PROVE  Then(r, o) \in Reads(ts, i, k + m)
<1>1. CASE o.is = "found"
  <2>1. Then(r, o) = Found(r.tree \o o.tree, o.at)
    BY <1>1 DEF Then
  <2>2. Takes(r.tree \o o.tree, k + m)
    BY <1>1, ReadsType, TakesConcat
  <2>3. o.at \in i..Len(ts) + 1
    BY <1>1, ReadsEarlier, ReadsType
  <2> QED BY <2>1, <2>2, <2>3, FoundReads
<1>2. CASE o.is # "found"
  <2>1. Then(r, o) = o
    BY <1>2 DEF Then
  <2> QED BY <1>2, <2>1, ReadsEarlier
<1> QED BY <1>1, <1>2

LEMMA UnderReads ==
  ASSUME NEW ts \in Seq(Token), NEW i \in Nat, NEW m \in Nat, NEW k \in Nat,
         NEW r \in Reads(ts, i, m), NEW node, Takes(<<node>>, k + 1)
  PROVE  Under(node, r) \in Reads(ts, i, k + m)
<1>1. CASE r.is = "found"
  <2>1. Under(node, r) = Found(Append(r.tree, node), r.at)
    BY <1>1 DEF Under
  <2>2. Append(r.tree, node) = r.tree \o <<node>>
    <3>1. r.tree \in Seq(Nodes) /\ <<node>> \in Seq(Nodes)
      BY <1>1, ReadsType DEF Takes
    <3>2. node \in Nodes
      <4>1. 1 \in 1..Len(<<node>>) /\ <<node>>[1] = node
        OBVIOUS
      <4> QED BY <3>1, <4>1, ItemOf
    <3> QED BY <3>1, <3>2
  <2>3. Takes(r.tree \o <<node>>, k + m)
    BY <1>1, ReadsType, TakesConcat
  <2>4. r.at \in i..Len(ts) + 1
    BY <1>1, ReadsType
  <2> QED BY <2>1, <2>2, <2>3, <2>4, FoundReads
<1>2. CASE r.is # "found"
  <2>1. Under(node, r) = r
    BY <1>2 DEF Under
  <2> QED BY <1>2, <2>1, ReadsEarlier
<1> QED BY <1>1, <1>2

\* Past one more token.
LEMMA MovedReads ==
  ASSUME NEW ts \in Seq(Token), NEW i \in Nat, NEW n, NEW r \in Reads(ts, i, n), r.is # "died",
         NEW j \in i..Len(ts) + 1
  PROVE  [r EXCEPT !.at = j] \in Reads(ts, i, n)
<1>1. r = [is |-> r.is, tree |-> r.tree, at |-> r.at] /\ r.is \in {"found", "none"}
  BY ReadsType
<1>2. [r EXCEPT !.at = j] = [is |-> r.is, tree |-> r.tree, at |-> j]
  BY <1>1
<1>3. CASE r.is = "found"
  <2>1. [r EXCEPT !.at = j] = Found(r.tree, j)
    BY <1>2, <1>3 DEF Found
  <2> QED BY <1>3, <2>1, ReadsType, FoundReads
<1>4. CASE r.is = "none"
  <2>1. [r EXCEPT !.at = j] = None(j)
    BY <1>2, <1>4, ReadsType DEF None
  <2> QED BY <2>1, NoneReads
<1> QED BY <1>1, <1>3, <1>4

-----------------------------------------------------------------------------
(* Expressions *)

\* What p and q return for the calls from i on is of the right kind and the same.
KnowsNext(ts, p, q, i) ==
  \A j \in Place(ts) : i <= j =>
    p[<<"next", j, 0>>] \in Reads(ts, j, 0) /\ q[<<"next", j, 0>>] = p[<<"next", j, 0>>]
KnowsMore(ts, p, q, i) ==
  \A j \in Place(ts) : i <= j =>
    p[<<"more", j, 0>>] \in Reads(ts, j, 1) /\ q[<<"more", j, 0>>] = p[<<"more", j, 0>>]
KnowsArguments(ts, p, q, i) ==
  \A j \in Place(ts) : i <= j => \A n \in Nat :
    p[<<"arguments", j, n>>] \in Reads(ts, j, n) /\ q[<<"arguments", j, n>>] = p[<<"arguments", j, n>>]

LEMMA TokenAt ==
  ASSUME NEW ts \in Seq(Token), NEW i \in 1..Len(ts)
  PROVE  ts[i].text \in Seq(Piece) /\ ts[i].kind \in Kind
<1>1. ts[i] \in Token
  BY ItemOf
<1> QED BY <1>1 DEF Token

LEMMA PlaceIs ==
  ASSUME NEW ts \in Seq(Token), NEW i \in Place(ts)
  PROVE  i \in Nat /\ i >= 1 /\ Len(ts) \in Nat /\ i <= Len(ts) + 1 /\ i \in i..Len(ts) + 1
BY LenProperties DEF Place

LEMMA ChainReads ==
  ASSUME NEW ts \in Seq(Token), NEW p, NEW q, NEW i \in Place(ts),
         KnowsNext(ts, p, q, i), KnowsMore(ts, p, q, i)
  PROVE  Chain(p, i) \in Reads(ts, i, 0) /\ Chain(q, i) = Chain(p, i)
<1> DEFINE first == p[<<"next", i, 0>>]
<1>1. i \in Nat /\ first \in Reads(ts, i, 0) /\ q[<<"next", i, 0>>] = first
  BY PlaceIs DEF KnowsNext
<1> HIDE DEF first
<1>2. CASE first.is = "found"
  <2> DEFINE more == p[<<"more", first.at, 0>>]
  <2>1. first.at \in i..Len(ts) + 1 /\ first.at \in Nat
    BY <1>1, <1>2, ReadsType
  <2>2. first.at \in Place(ts) /\ i <= first.at
    BY <2>1, PlaceIs DEF Place
  <2>3. more \in Reads(ts, first.at, 0 + 1) /\ q[<<"more", first.at, 0>>] = more
    BY <2>2 DEF KnowsMore
  <2> HIDE DEF more
  <2>4. Then(first, more) \in Reads(ts, i, 0 + 0)
    BY <1>1, <1>2, <2>1, <2>2, <2>3, ThenReads
  <2>5. Chain(p, i) = Then(first, more) /\ Chain(q, i) = Then(first, more)
    BY <1>1, <1>2, <2>3 DEF Chain, first, more
  <2> QED BY <2>4, <2>5
<1>3. CASE first.is # "found"
  <2>1. Chain(p, i) = first /\ Chain(q, i) = first
    BY <1>1, <1>3 DEF Chain, first
  <2> QED BY <1>1, <2>1
<1> QED BY <1>2, <1>3

\* A node without branches.
LEMMA LeafReads ==
  ASSUME NEW ts \in Seq(Token), NEW i \in Nat, NEW j \in i..Len(ts) + 1, NEW name \in Seq(Piece),
         NEW op \in {"null", "all", "join", "number", "string", "field"}
  PROVE  Leaf(op, name, j) \in Reads(ts, i, 0)
<1>1. Takes(<<Node(op, name, 0)>>, 0)
  BY NodeTakes
<1> QED BY <1>1, FoundReads DEF Leaf

LEMMA NextExpressionReads ==
  ASSUME NEW ts \in Seq(Token), NEW p, NEW q, NEW i \in Place(ts),
         KnowsNext(ts, p, q, i + 1), KnowsMore(ts, p, q, i + 1), KnowsArguments(ts, p, q, i + 1)
  PROVE  /\ ParseNextExpression(ts, p, i) \in Reads(ts, i, 0)
         /\ ParseNextExpression(ts, q, i) = ParseNextExpression(ts, p, i)
<1> DEFINE P(r) == ParseNextExpression(ts, r, i)
<1>1. i \in Nat /\ i >= 1 /\ Len(ts) \in Nat /\ i <= Len(ts) + 1
  BY PlaceIs
<1>2. <<>> \in Seq(Piece)
  OBVIOUS
<1>3. CASE i > Len(ts)
  <2>1. P(p) = None(i) /\ P(q) = None(i)
    BY <1>3 DEF ParseNextExpression
  <2>2. i \in i..Len(ts) + 1
    BY <1>1
  <2> QED BY <1>1, <2>1, <2>2, NoneReads
<1>4. CASE ~(i > Len(ts))
  <2>1. i \in 1..Len(ts) /\ i + 1 \in i..Len(ts) + 1 /\ i + 1 \in Place(ts) /\ i + 1 \in Nat
    BY <1>1, <1>4 DEF Place
  <2>2. ts[i].text \in Seq(Piece)
    BY <2>1, TokenAt
  <2> DEFINE leaves == {Leaf("null", <<>>, i + 1), Leaf("all", <<>>, i + 1), Leaf("number", Canonical(ts[i].text), i + 1),
                        Leaf("string", ts[i].text, i + 1), Leaf("field", ts[i].text, i + 1),
                        Died(i), Died(i + 1), None(i)}
  <2>3. \A l \in leaves : l \in Reads(ts, i, 0)
    <3>1. Canonical(ts[i].text) \in Seq(Piece)
      BY <2>2, CanonicalType
    <3>2. i \in i..Len(ts) + 1
      BY <1>1
    <3>3. \A name \in Seq(Piece), op \in {"null", "all", "number", "string", "field"} :
            Leaf(op, name, i + 1) \in Reads(ts, i, 0)
      BY <1>1, <2>1, LeafReads
    <3>4. Died(i) \in Reads(ts, i, 0) /\ Died(i + 1) \in Reads(ts, i, 0)
      BY <1>1, <2>1, DiedReads
    <3>5. None(i) \in Reads(ts, i, 0)
      BY <1>1, <3>2, NoneReads
    <3> QED BY <1>2, <2>2, <3>1, <3>3, <3>4, <3>5, Zenon
  <2> DEFINE nulls == Is(ts, i, <<"NULL">>)
             all == Is(ts, i, <<"*">>)
             opens == Is(ts, i, <<"(">>)
             dotted == Is(ts, i + 1, <<".">>)
             calls == IsIdentifier(ts[i].text) /\ Is(ts, i + 1, <<"(">>)
  <2>4. CASE nulls \/ all
    <3>1. P(p) \in leaves /\ P(q) = P(p)
      BY <1>4, <2>4 DEF ParseNextExpression
    <3> QED BY <2>3, <3>1
  <2>5. CASE ~nulls /\ ~all /\ opens
    <3> DEFINE e == Chain(p, i + 1)
    <3>1. e \in Reads(ts, i + 1, 0) /\ Chain(q, i + 1) = e
      BY <2>1, ChainReads
    <3>2. /\ P(p) = IF e.is # "died" /\ Is(ts, e.at, <<")">>) THEN [e EXCEPT !.at = @ + 1] ELSE Died(e.at)
          /\ P(q) = P(p)
      BY <1>4, <2>5, <3>1 DEF ParseNextExpression
    <3> HIDE DEF e
    <3>3. e \in Reads(ts, i, 0) /\ e.at \in Nat
      BY <1>1, <2>1, <3>1, ReadsEarlier, ReadsType
    <3>4. ASSUME e.is # "died", Is(ts, e.at, <<")">>) PROVE [e EXCEPT !.at = @ + 1] \in Reads(ts, i, 0)
      <4>1. e.at + 1 \in i..Len(ts) + 1
        BY <1>1, <2>1, <3>1, <3>3, <3>4, ReadsType DEF Is
      <4>2. [e EXCEPT !.at = e.at + 1] \in Reads(ts, i, 0)
        BY <1>1, <3>3, <3>4, <4>1, MovedReads
      <4> QED BY <4>2
    <3> QED BY <3>2, <3>3, <3>4, DiedReads
  <2>6. CASE ~nulls /\ ~all /\ ~opens /\ dotted
    <3>1. /\ P(p) = IF i + 2 > Len(ts) THEN Died(i)
                    ELSE Leaf("join", ts[i].text \o <<".">> \o ts[i + 2].text, i + 3)
          /\ P(q) = P(p)
      BY <1>4, <2>6 DEF ParseNextExpression
    <3>2. ASSUME ~(i + 2 > Len(ts))
          PROVE  Leaf("join", ts[i].text \o <<".">> \o ts[i + 2].text, i + 3) \in Reads(ts, i, 0)
      <4>1. i + 2 \in 1..Len(ts) /\ i + 3 \in i..Len(ts) + 1
        BY <1>1, <3>2
      <4>2. ts[i + 2].text \in Seq(Piece)
        BY <4>1, TokenAt
      <4>3. <<".">> \in Seq(Piece)
        BY Items DEF Piece
      <4>4. ts[i].text \o <<".">> \in Seq(Piece)
        BY <2>2, <4>3, ConcatProperties
      <4>5. ts[i].text \o <<".">> \o ts[i + 2].text \in Seq(Piece)
        BY <4>2, <4>4, ConcatProperties
      <4> QED BY <1>1, <4>1, <4>5, LeafReads
    <3> QED BY <2>3, <3>1, <3>2
  <2>7. CASE ~nulls /\ ~all /\ ~opens /\ ~dotted /\ calls
    <3> DEFINE a == p[<<"arguments", i + 2, 0>>]
               node == Node("call", ts[i].text, 1)
    <3>1. i + 2 \in Place(ts) /\ i + 1 <= i + 2 /\ i <= i + 2 /\ i + 2 \in Nat
      BY <1>1, <2>7 DEF Is, Place
    <3>2. a \in Reads(ts, i + 2, 0) /\ q[<<"arguments", i + 2, 0>>] = a
      BY <3>1 DEF KnowsArguments
    <3>3. P(p) = Under(node, a) /\ P(q) = P(p)
      BY <1>4, <2>7, <3>2 DEF ParseNextExpression
    <3> HIDE DEF a
    <3>4. a \in Reads(ts, i, 0)
      BY <1>1, <3>1, <3>2, ReadsEarlier
    <3>5. Takes(<<node>>, 0 + 1)
      <4>1. Takes(<<node>>, 1)
        BY <2>2, NodeTakes
      <4>2. 0 + 1 = 1
        OBVIOUS
      <4> QED BY <4>1, <4>2, Zenon
    <3> HIDE DEF node
    <3>6. Under(node, a) \in Reads(ts, i, 0 + 0)
      BY <1>1, <3>4, <3>5, UnderReads
    <3> QED BY <3>3, <3>6
  <2>8. CASE ~nulls /\ ~all /\ ~opens /\ ~dotted /\ ~calls
    <3>1. P(p) \in leaves /\ P(q) = P(p)
      BY <1>4, <2>8 DEF ParseNextExpression
    <3> QED BY <2>3, <3>1
  <2> QED BY <2>4, <2>5, <2>6, <2>7, <2>8
<1> QED BY <1>3, <1>4

\* An operator, and what follows it: the same for expressions and conditions.
LEMMA OperandReads ==
  ASSUME NEW ts \in Seq(Token), NEW p, NEW q, NEW i \in 1..Len(ts),
         KnowsNext(ts, p, q, i + 1), KnowsMore(ts, p, q, i + 1)
  PROVE  Operand(ts, p, i) \in Reads(ts, i, 1) /\ Operand(ts, q, i) = Operand(ts, p, i)
<1> DEFINE b == p[<<"next", i + 1, 0>>]
           o == Operand(ts, p, i)
<1> DEFINE node == Node("infix", ts[i].text, 2)
<1>1. i \in Nat /\ i + 1 \in Nat /\ i + 1 \in Place(ts) /\ Len(ts) \in Nat /\ i <= i + 1
  BY LenProperties DEF Place
<1>2. b \in Reads(ts, i + 1, 0) /\ q[<<"next", i + 1, 0>>] = b
  BY <1>1 DEF KnowsNext
<1>3. b \in Reads(ts, i, 0) /\ b.is \in {"found", "none", "died"} /\ b.at \in Nat
  BY <1>1, <1>2, ReadsEarlier, ReadsType
<1> HIDE DEF b
<1>4. CASE b.is = "found"
  <2> DEFINE more == p[<<"more", b.at, 0>>]
  <2>1. b.at \in Place(ts) /\ i + 1 <= b.at /\ i <= b.at
    BY <1>1, <1>2, <1>3, <1>4, ReadsType DEF Place
  <2>2. more \in Reads(ts, b.at, 0 + 1) /\ q[<<"more", b.at, 0>>] = more
    BY <2>1 DEF KnowsMore
  <2>3. Takes(<<node>>, 1 + 1)
    <3>1. Takes(<<node>>, 2)
      BY TokenAt, NodeTakes
    <3>2. 1 + 1 = 2
      OBVIOUS
    <3> QED BY <3>1, <3>2, Zenon
  <2>4. o = Then(Under(node, b), more) /\ Operand(ts, q, i) = o
    BY <1>2, <1>4, <2>2 DEF Operand, b
  <2> HIDE DEF node, more
  <2>5. Under(node, b) \in Reads(ts, i, 1 + 0)
    BY <1>1, <1>3, <2>3, UnderReads
  <2>6. Under(node, b).is = "found"
    BY <1>4 DEF Under, Found
  <2>7. Then(Under(node, b), more) \in Reads(ts, i, 0 + 1)
    <3>1. Under(node, b) \in Reads(ts, i, 1)
      BY <2>5
    <3> QED BY <1>1, <1>3, <2>1, <2>2, <2>6, <3>1, ThenReads
  <2>8. o \in Reads(ts, i, 1)
    <3>1. 0 + 1 = 1
      OBVIOUS
    <3> QED BY <2>4, <2>7, <3>1, Zenon
  <2> QED BY <2>4, <2>8
<1>5. CASE b.is = "died"
  <2>1. o = b /\ Operand(ts, q, i) = o
    BY <1>2, <1>5 DEF Operand, b
  <2> QED BY <1>1, <1>2, <1>5, <2>1, ReadsEarlier
<1>6. CASE b.is = "none"
  <2>1. o = Found(<<>>, b.at) /\ Operand(ts, q, i) = o
    BY <1>2, <1>6 DEF Operand, b
  <2>2. b.at \in i..Len(ts) + 1
    BY <1>1, <1>3, <1>6, ReadsType
  <2>3. Found(<<>>, b.at) \in Reads(ts, i, 1)
    BY <1>1, <2>2, NothingTakes, FoundReads
  <2> QED BY <2>1, <2>3
<1> QED BY <1>3, <1>4, <1>5, <1>6

LEMMA NoOperatorReads ==
  ASSUME NEW ts \in Seq(Token), NEW i \in Place(ts) PROVE Found(<<>>, i) \in Reads(ts, i, 1)
BY PlaceIs, NothingTakes, FoundReads

LEMMA MoreExpressionReads ==
  ASSUME NEW ts \in Seq(Token), NEW p, NEW q, NEW i \in Place(ts),
         KnowsNext(ts, p, q, i + 1), KnowsMore(ts, p, q, i + 1)
  PROVE  /\ MoreExpression(ts, p, i) \in Reads(ts, i, 1)
         /\ MoreExpression(ts, q, i) = MoreExpression(ts, p, i)
<1>1. CASE ~AtOneOf(ts, i, Arithmetic)
  BY <1>1, NoOperatorReads DEF MoreExpression
<1>2. CASE AtOneOf(ts, i, Arithmetic)
  <2>1. i \in 1..Len(ts)
    BY <1>2, PlaceIs DEF AtOneOf
  <2> QED BY <1>2, <2>1, OperandReads DEF MoreExpression
<1> QED BY <1>1, <1>2

LEMMA ArgumentsReads ==
  ASSUME NEW ts \in Seq(Token), NEW p, NEW q, NEW i \in Place(ts), NEW n \in Nat,
         KnowsNext(ts, p, q, i), KnowsMore(ts, p, q, i), KnowsArguments(ts, p, q, i + 1)
  PROVE  /\ Arguments(ts, p, i, n) \in Reads(ts, i, n)
         /\ Arguments(ts, q, i, n) = Arguments(ts, p, i, n)
<1>1. i \in Nat /\ i >= 1 /\ Len(ts) \in Nat /\ i <= Len(ts) + 1
  BY PlaceIs
<1>2. \A m \in Nat : Takes(<<Node("list", <<>>, m)>>, m)
  <2>1. <<>> \in Seq(Piece)
    OBVIOUS
  <2> QED BY <2>1, NodeTakes
<1>3. CASE Is(ts, i, <<")">>)
  <2>1. i + 1 \in i..Len(ts) + 1
    BY <1>1, <1>3 DEF Is
  <2>2. Found(<<Node("list", <<>>, n)>>, i + 1) \in Reads(ts, i, n)
    BY <1>1, <1>2, <2>1, FoundReads
  <2> QED BY <1>3, <2>2 DEF Arguments
<1>4. CASE ~Is(ts, i, <<")">>)
  <2> DEFINE e == Chain(p, i)
             closes == Is(ts, e.at, <<")">>)
             comma == Is(ts, e.at, <<",">>)
  <2>1. e \in Reads(ts, i, 0) /\ Chain(q, i) = e
    BY ChainReads
  <2>2. e.at \in Nat
    BY <1>1, <2>1, ReadsType
  <2>3. CASE e.is # "found" \/ (~closes /\ ~comma)
    <3>1. Arguments(ts, p, i, n) = Died(e.at) /\ Arguments(ts, q, i, n) = Died(e.at)
      BY <1>4, <2>1, <2>3 DEF Arguments
    <3> QED BY <2>2, <3>1, DiedReads
  <2>4. CASE e.is = "found" /\ closes
    <3> DEFINE node == Node("list", <<>>, n + 1)
               f == [e EXCEPT !.at = @ + 1]
    <3>1. Arguments(ts, p, i, n) = Under(node, f) /\ Arguments(ts, q, i, n) = Under(node, f)
      BY <1>4, <2>1, <2>4 DEF Arguments
    <3>2. Takes(<<node>>, n + 1)
      BY <1>2
    <3>3. f \in Reads(ts, i, 0)
      <4>1. e.at + 1 \in i..Len(ts) + 1 /\ e.is # "died"
        BY <1>1, <2>1, <2>2, <2>4, ReadsType DEF Is
      <4> HIDE DEF e
      <4>2. [e EXCEPT !.at = e.at + 1] \in Reads(ts, i, 0)
        BY <1>1, <2>1, <4>1, MovedReads
      <4> QED BY <4>2
    <3> HIDE DEF node, f
    <3>4. Under(node, f) \in Reads(ts, i, n + 0)
      BY <1>1, <3>2, <3>3, UnderReads
    <3> QED BY <3>1, <3>4
  <2>5. CASE e.is = "found" /\ ~closes /\ comma
    <3> DEFINE a == p[<<"arguments", e.at + 1, n + 1>>]
    <3>1. e.at + 1 \in Place(ts) /\ i + 1 <= e.at + 1 /\ i <= e.at + 1 /\ n + 1 \in Nat /\ e.at + 1 \in Nat
      <4>1. e.at \in i..Len(ts) + 1
        BY <1>1, <2>1, <2>5, ReadsType
      <4>2. e.at <= Len(ts)
        BY <2>5 DEF Is
      <4> HIDE DEF e
      <4> QED BY <1>1, <2>2, <4>1, <4>2 DEF Place
    <3>2. a \in Reads(ts, e.at + 1, n + 1) /\ q[<<"arguments", e.at + 1, n + 1>>] = a
      BY <3>1 DEF KnowsArguments
    <3>3. Arguments(ts, p, i, n) = Then(e, a) /\ Arguments(ts, q, i, n) = Then(e, a)
      BY <1>4, <2>1, <2>5, <3>2 DEF Arguments
    <3> HIDE DEF a, e
    <3>4. Then(e, a) \in Reads(ts, i, n + 0)
      BY <1>1, <2>1, <2>5, <3>1, <3>2, ThenReads
    <3> QED BY <3>3, <3>4
  <2> QED BY <2>3, <2>4, <2>5
<1> QED BY <1>3, <1>4

\* The calls of the methods, how far they are from the end, and what they return.
Calls(ts) == {"next", "more", "arguments"} \X Place(ts) \X Nat
Depth(ts) ==
  [c \in Calls(ts) |-> 2 * (Len(ts) + 1 - c[2]) + (IF c[1] = "arguments" THEN 1 ELSE 0)]
Results(ts) ==
  [c \in Calls(ts) |-> Reads(ts, c[2], IF c[1] = "next" THEN 0 ELSE IF c[1] = "more" THEN 1 ELSE c[3])]
Call(ts, p, c) ==
  CASE c[1] = "next" -> ParseNextExpression(ts, p, c[2])
    [] c[1] = "more" -> MoreExpression(ts, p, c[2])
    [] c[1] = "arguments" -> Arguments(ts, p, c[2], c[3])

LEMMA DepthType ==
  ASSUME NEW ts \in Seq(Token)
  PROVE  Depth(ts) \in [Calls(ts) -> Nat]
<1>1. ASSUME NEW c \in Calls(ts)
      PROVE  2 * (Len(ts) + 1 - c[2]) + (IF c[1] = "arguments" THEN 1 ELSE 0) \in Nat
  <2>1. c[2] \in Place(ts)
    BY DEF Calls
  <2> QED BY <2>1, PlaceIs
<1> QED BY <1>1, LenProperties DEF Depth

\* The calls that a call makes are less far from the end.
LEMMA CallReads ==
  ASSUME NEW ts \in Seq(Token), NEW p, NEW q, NEW c \in Calls(ts),
         \A d \in Calls(ts) :
           Depth(ts)[d] < Depth(ts)[c] => p[d] \in Results(ts)[d] /\ q[d] = p[d]
  PROVE  Call(ts, p, c) \in Results(ts)[c] /\ Call(ts, q, c) = Call(ts, p, c)
<1> DEFINE i == c[2]  n == c[3]
<1>1. c[1] \in {"next", "more", "arguments"} /\ i \in Place(ts) /\ n \in Nat
  BY DEF Calls
<1>2. i \in Nat /\ Len(ts) \in Nat /\ i <= Len(ts) + 1 /\ i + 1 \in Nat
  BY <1>1, PlaceIs
<1> HIDE DEF i, n
<1>3. Depth(ts)[c] = 2 * (Len(ts) + 1 - i) + (IF c[1] = "arguments" THEN 1 ELSE 0)
  BY DEF Depth, i
<1>4. \A j \in Place(ts) : \A m \in Nat :
        /\ <<"next", j, m>> \in Calls(ts) /\ <<"more", j, m>> \in Calls(ts) /\ <<"arguments", j, m>> \in Calls(ts)
        /\ Depth(ts)[<<"next", j, m>>] = 2 * (Len(ts) + 1 - j)
        /\ Depth(ts)[<<"more", j, m>>] = 2 * (Len(ts) + 1 - j)
        /\ Depth(ts)[<<"arguments", j, m>>] = 2 * (Len(ts) + 1 - j) + 1
        /\ Results(ts)[<<"next", j, m>>] = Reads(ts, j, 0)
        /\ Results(ts)[<<"more", j, m>>] = Reads(ts, j, 1)
        /\ Results(ts)[<<"arguments", j, m>>] = Reads(ts, j, m)
  <2>1. SUFFICES ASSUME NEW j \in Place(ts), NEW m \in Nat
        PROVE  /\ <<"next", j, m>> \in Calls(ts) /\ <<"more", j, m>> \in Calls(ts) /\ <<"arguments", j, m>> \in Calls(ts)
               /\ Depth(ts)[<<"next", j, m>>] = 2 * (Len(ts) + 1 - j)
               /\ Depth(ts)[<<"more", j, m>>] = 2 * (Len(ts) + 1 - j)
               /\ Depth(ts)[<<"arguments", j, m>>] = 2 * (Len(ts) + 1 - j) + 1
               /\ Results(ts)[<<"next", j, m>>] = Reads(ts, j, 0)
               /\ Results(ts)[<<"more", j, m>>] = Reads(ts, j, 1)
               /\ Results(ts)[<<"arguments", j, m>>] = Reads(ts, j, m)
    OBVIOUS
  <2>2. <<"next", j, m>> \in Calls(ts) /\ <<"more", j, m>> \in Calls(ts) /\ <<"arguments", j, m>> \in Calls(ts)
    BY DEF Calls
  <2>3. j \in Nat /\ Len(ts) \in Nat
    BY PlaceIs
  <2>4. /\ Depth(ts)[<<"next", j, m>>] = 2 * (Len(ts) + 1 - j)
        /\ Depth(ts)[<<"more", j, m>>] = 2 * (Len(ts) + 1 - j)
        /\ Depth(ts)[<<"arguments", j, m>>] = 2 * (Len(ts) + 1 - j) + 1
    BY <2>2, <2>3 DEF Depth
  <2>5. /\ Results(ts)[<<"next", j, m>>] = Reads(ts, j, 0)
        /\ Results(ts)[<<"more", j, m>>] = Reads(ts, j, 1)
        /\ Results(ts)[<<"arguments", j, m>>] = Reads(ts, j, m)
    BY <2>2 DEF Results
  <2> QED BY <2>2, <2>4, <2>5
<1>5. KnowsNext(ts, p, q, i + 1) /\ KnowsMore(ts, p, q, i + 1) /\ KnowsArguments(ts, p, q, i + 1)
  <2>1. \A j \in Place(ts) : i + 1 <= j => 2 * (Len(ts) + 1 - j) + 1 < Depth(ts)[c] /\ 2 * (Len(ts) + 1 - j) < Depth(ts)[c]
    BY <1>2, <1>3, PlaceIs
  <2>2. 0 \in Nat
    OBVIOUS
  <2> QED BY <1>4, <2>1, <2>2 DEF KnowsNext, KnowsMore, KnowsArguments
<1>6. CASE c[1] = "next"
  <2>1. Call(ts, p, c) = ParseNextExpression(ts, p, i) /\ Call(ts, q, c) = ParseNextExpression(ts, q, i)
        /\ Results(ts)[c] = Reads(ts, i, 0)
    BY <1>6 DEF Call, Results, i
  <2> QED BY <1>1, <1>5, <2>1, NextExpressionReads
<1>7. CASE c[1] = "more"
  <2>1. Call(ts, p, c) = MoreExpression(ts, p, i) /\ Call(ts, q, c) = MoreExpression(ts, q, i)
        /\ Results(ts)[c] = Reads(ts, i, 1)
    BY <1>7 DEF Call, Results, i
  <2> QED BY <1>1, <1>5, <2>1, MoreExpressionReads
<1>8. CASE c[1] = "arguments"
  <2>1. Call(ts, p, c) = Arguments(ts, p, i, n) /\ Call(ts, q, c) = Arguments(ts, q, i, n)
        /\ Results(ts)[c] = Reads(ts, i, n)
    BY <1>8 DEF Call, Results, i, n
  <2>2. KnowsNext(ts, p, q, i) /\ KnowsMore(ts, p, q, i)
    <3>1. \A j \in Place(ts) : i <= j => 2 * (Len(ts) + 1 - j) < Depth(ts)[c]
      BY <1>2, <1>3, <1>8, PlaceIs
    <3>2. 0 \in Nat
      OBVIOUS
    <3> QED BY <1>4, <3>1, <3>2 DEF KnowsNext, KnowsMore
  <2> QED BY <1>1, <1>5, <2>1, <2>2, ArgumentsReads
<1> QED BY <1>1, <1>6, <1>7, <1>8

LEMMA ExpressionsDefined ==
  ASSUME NEW ts \in Seq(Token)
  PROVE  Expressions(ts) = [c \in Calls(ts) |-> Call(ts, Expressions(ts), c)]
<1> DEFINE D == Calls(ts)
           V == Results(ts)
           R == UNION {V[c] : c \in D}
           m == Depth(ts)
           F == [p \in [D -> R] |-> [c \in D |-> Call(ts, p, c)]]
<1>1. \A c \in D : V[c] \subseteq R /\ V[c] # {}
  <2>1. ASSUME NEW c \in D PROVE V[c] # {}
    <3>1. \A j : \A n : Died(0) \in Reads(ts, j, n)
      BY DiedReads
    <3> QED BY <3>1 DEF Results
  <2> QED BY <2>1
<1>2. \A p, q \in [D -> R] : \A c \in D :
        (\A d \in D : m[d] < m[c] => p[d] \in V[d] /\ q[d] = p[d]) => F[p][c] \in V[c] /\ F[q][c] = F[p][c]
  <2>0. SUFFICES ASSUME NEW p \in [D -> R], NEW q \in [D -> R], NEW c \in D,
                        \A d \in D : m[d] < m[c] => p[d] \in V[d] /\ q[d] = p[d]
                 PROVE  F[p][c] \in V[c] /\ F[q][c] = F[p][c]
    BY Zenon
  <2>1. Call(ts, p, c) \in V[c] /\ Call(ts, q, c) = Call(ts, p, c)
    BY <2>0, CallReads, Zenon
  <2>2. F[p][c] = Call(ts, p, c) /\ F[q][c] = Call(ts, q, c)
    BY Zenon
  <2> QED BY <2>1, <2>2
<1>3. m \in [D -> Nat]
  BY DepthType
<1>4. \E p \in [D -> R] : \A c \in D : p[c] = F[p][c]
  <2> HIDE DEF D, V, R, F, m
  <2>1. Computes(D, R, V, m, F)
    BY <1>1, <1>2, <1>3, Zenon DEF Computes
  <2>2. HasFixpoint(D, R, F)
    BY <2>1, Recursion, Zenon
  <2> QED BY <2>2, Zenon DEF HasFixpoint
<1>5. PICK p \in [D -> R] : \A c \in D : p[c] = F[p][c]
  BY <1>4, Zenon
<1>6. p = [c \in D |-> Call(ts, p, c)]
  <2>1. \A c \in D : p[c] = Call(ts, p, c)
    BY <1>5, Zenon
  <2>2. p = [c \in D |-> p[c]]
    BY Zenon
  <2> QED BY <2>1, <2>2, Zenon
<1> DEFINE e == CHOOSE f : f = [c \in D |-> Call(ts, f, c)]
<1>7. Expressions(ts) = e
  BY Zenon DEF Expressions, Calls, Call
<1>8. e = [c \in D |-> Call(ts, e, c)]
  BY <1>6, Zenon
<1> QED BY <1>7, <1>8, Zenon

LEMMA ExpressionsRead ==
  ASSUME NEW ts \in Seq(Token)
  PROVE  \A c \in Calls(ts) : Expressions(ts)[c] \in Results(ts)[c]
<1> DEFINE p == Expressions(ts)
<1>1. \A c \in Calls(ts) :
        (\A d \in Calls(ts) : Depth(ts)[d] < Depth(ts)[c] => p[d] \in Results(ts)[d]) => p[c] \in Results(ts)[c]
  <2>0. SUFFICES ASSUME NEW c \in Calls(ts), \A d \in Calls(ts) : Depth(ts)[d] < Depth(ts)[c] => p[d] \in Results(ts)[d]
                 PROVE  p[c] \in Results(ts)[c]
    BY Zenon
  <2>1. p[c] = Call(ts, p, c)
    BY ExpressionsDefined, Zenon
  <2>2. Call(ts, p, c) \in Results(ts)[c]
    <3> HIDE DEF p
    <3> QED BY <2>0, CallReads
  <2> QED BY <2>1, <2>2
<1>2. Depth(ts) \in [Calls(ts) -> Nat]
  BY DepthType
<1> HIDE DEF p
<1>3. \A c \in Calls(ts) : p[c] \in Results(ts)[c]
  <2>1. Hereditary(Calls(ts), Results(ts), Depth(ts), p)
    BY <1>1, <1>2, Zenon DEF Hereditary
  <2> QED BY <2>1, AllCalls, Zenon
<1> QED BY <1>3 DEF p

\* An expression, from any place: a tree that is read up to a later place.
LEMMA ParseExpressionReads ==
  ASSUME NEW ts \in Seq(Token), NEW i \in Place(ts)
  PROVE  ParseExpression(ts, i) \in Reads(ts, i, 0)
<1> DEFINE p == Expressions(ts)
<1>1. \A c \in Calls(ts) : p[c] \in Results(ts)[c]
  BY ExpressionsRead
<1> HIDE DEF p
<1>2. KnowsNext(ts, p, p, i) /\ KnowsMore(ts, p, p, i)
  <2>1. ASSUME NEW j \in Place(ts)
        PROVE  p[<<"next", j, 0>>] \in Reads(ts, j, 0) /\ p[<<"more", j, 0>>] \in Reads(ts, j, 1)
    <3>1. <<"next", j, 0>> \in Calls(ts) /\ <<"more", j, 0>> \in Calls(ts)
      BY DEF Calls
    <3>2. Results(ts)[<<"next", j, 0>>] = Reads(ts, j, 0) /\ Results(ts)[<<"more", j, 0>>] = Reads(ts, j, 1)
      BY <3>1 DEF Results
    <3> QED BY <1>1, <3>1, <3>2
  <2> QED BY <2>1 DEF KnowsNext, KnowsMore
<1>3. Chain(p, i) \in Reads(ts, i, 0)
  BY <1>2, ChainReads
<1> QED BY <1>3 DEF ParseExpression, p

-----------------------------------------------------------------------------
(* Comparisons *)

KnowsComparison(ts, p, q, i) ==
  \A j \in Place(ts) : i <= j => \A fresh \in BOOLEAN :
    p[<<fresh, j>>] \in Reads(ts, j, 1) /\ q[<<fresh, j>>] = p[<<fresh, j>>]

\* The condition that was found, or the last one behind it.
Final(p, condition) ==
  LET later == p[<<FALSE, condition.at>>] IN
  IF later.is = "none" THEN [condition EXCEPT !.at = later.at] ELSE later

LEMMA FinalReads ==
  ASSUME NEW ts \in Seq(Token), NEW p, NEW q, NEW i \in Nat,
         KnowsComparison(ts, p, q, i + 1), NEW c \in Reads(ts, i, 1), c.is = "found", c.at > i, i > 0
  PROVE  Final(p, c) \in Reads(ts, i, 1) /\ Final(q, c) = Final(p, c)
<1> DEFINE later == p[<<FALSE, c.at>>]
<1>1. c.at \in Nat /\ c.at \in i..Len(ts) + 1 /\ Len(ts) \in Nat
  BY ReadsType, LenProperties
<1>2. c.at \in Place(ts) /\ i + 1 <= c.at /\ i <= c.at
  BY <1>1 DEF Place
<1>3. later \in Reads(ts, c.at, 1) /\ q[<<FALSE, c.at>>] = later
  BY <1>2 DEF KnowsComparison
<1> HIDE DEF later
<1>4. CASE later.is = "none"
  <2>1. Final(p, c) = [c EXCEPT !.at = later.at] /\ Final(q, c) = [c EXCEPT !.at = later.at]
    BY <1>3, <1>4 DEF Final, later
  <2>2. later.at \in i..Len(ts) + 1
    BY <1>1, <1>2, <1>3, <1>4, ReadsType
  <2>3. [c EXCEPT !.at = later.at] \in Reads(ts, i, 1)
    BY <2>2, MovedReads
  <2> QED BY <2>1, <2>3
<1>5. CASE later.is # "none"
  <2>1. Final(p, c) = later /\ Final(q, c) = later
    BY <1>3, <1>5 DEF Final, later
  <2> QED BY <1>1, <1>2, <1>3, <2>1, ReadsEarlier
<1> QED BY <1>4, <1>5

LEMMA MoreComparisonReads ==
  ASSUME NEW ts \in Seq(Token), NEW p, NEW q, NEW i \in Place(ts), NEW fresh \in BOOLEAN,
         KnowsComparison(ts, p, q, i + 1)
  PROVE  /\ MoreComparison(ts, p, fresh, i) \in Reads(ts, i, 1)
         /\ MoreComparison(ts, q, fresh, i) = MoreComparison(ts, p, fresh, i)
<1>1. i \in Nat /\ i > 0 /\ Len(ts) \in Nat /\ i <= Len(ts) + 1 /\ i \in i..Len(ts) + 1
  BY PlaceIs
<1>2. CASE Is(ts, i, <<"IS">>)
  <2> DEFINE j == IF Is(ts, i + 1, <<"NOT">>) THEN i + 2 ELSE i + 1
             isNull == <<Node("isnull", <<>>, 1)>>
             tree == IF j = i + 2 THEN Append(isNull, Node("not", <<>>, 1)) ELSE isNull
             c == Found(tree, j + 1)
  <2>1. CASE ~fresh \/ ~Is(ts, j, <<"NULL">>)
    <3>1. MoreComparison(ts, p, fresh, i) = Died(j) /\ MoreComparison(ts, q, fresh, i) = Died(j)
      BY <1>2, <2>1 DEF MoreComparison
    <3>2. j \in Nat
      BY <1>1
    <3> HIDE DEF j
    <3> QED BY <3>1, <3>2, DiedReads
  <2>2. CASE ~(~fresh \/ ~Is(ts, j, <<"NULL">>))
    <3>1. MoreComparison(ts, p, fresh, i) = Final(p, c) /\ MoreComparison(ts, q, fresh, i) = Final(q, c)
      BY <1>2, <2>2 DEF MoreComparison, Final
    <3>2. j \in Nat /\ j + 1 \in i..Len(ts) + 1 /\ j + 1 > i
      BY <1>1, <2>2 DEF Is
    <3>3. Takes(tree, 1)
      <4>1. Takes(isNull, 1) /\ Takes(<<Node("not", <<>>, 1)>>, 0 + 1)
        <5>1. <<>> \in Seq(Piece) /\ 0 + 1 = 1
          OBVIOUS
        <5> QED BY <5>1, NodeTakes
      <4>2. Append(isNull, Node("not", <<>>, 1)) = isNull \o <<Node("not", <<>>, 1)>>
        OBVIOUS
      <4>3. Takes(isNull \o <<Node("not", <<>>, 1)>>, 0 + 1)
        BY <4>1, TakesConcat
      <4>4. 0 + 1 = 1
        OBVIOUS
      <4>5. Takes(Append(isNull, Node("not", <<>>, 1)), 1)
        BY <4>2, <4>3, <4>4, Zenon
      <4> QED BY <4>1, <4>5, Zenon
    <3> HIDE DEF j, tree
    <3>4. c \in Reads(ts, i, 1) /\ c.is = "found" /\ c.at = j + 1
      BY <1>1, <3>2, <3>3, FoundReads DEF Found
    <3> HIDE DEF c
    <3> QED BY <1>1, <3>1, <3>2, <3>4, FinalReads
  <2> QED BY <2>1, <2>2
<1>3. CASE ~Is(ts, i, <<"IS">>) /\ ~AtOneOf(ts, i, Comparison)
  <2>1. MoreComparison(ts, p, fresh, i) = None(i) /\ MoreComparison(ts, q, fresh, i) = None(i)
    BY <1>3 DEF MoreComparison
  <2> QED BY <1>1, <2>1, NoneReads
<1>4. CASE ~Is(ts, i, <<"IS">>) /\ AtOneOf(ts, i, Comparison)
  <2> DEFINE b == ParseExpression(ts, i + 1)
             op == IF ts[i].text = <<"!", "=">> THEN <<"<", ">">> ELSE ts[i].text
             node == Node("infix", op, 2)
             c == Under(node, b)
  <2>1. i \in 1..Len(ts) /\ i + 1 \in Place(ts) /\ i + 1 \in Nat /\ i <= i + 1
    BY <1>1, <1>4 DEF AtOneOf, Place
  <2>2. b \in Reads(ts, i + 1, 0)
    BY <2>1, ParseExpressionReads
  <2>3. op \in Seq(Piece)
    <3>1. <<"<", ">">> \in Seq(Piece)
      BY Items DEF Piece, Operator
    <3> QED BY <2>1, <3>1, TokenAt
  <2>4. Takes(<<node>>, 1 + 1)
    <3>1. Takes(<<node>>, 2)
      <4> HIDE DEF op
      <4> QED BY <2>3, NodeTakes, Zenon
    <3>2. 1 + 1 = 2
      OBVIOUS
    <3> QED BY <3>1, <3>2, Zenon
  <2>5. CASE b.is = "found"
    <3>1. MoreComparison(ts, p, fresh, i) = Final(p, c) /\ MoreComparison(ts, q, fresh, i) = Final(q, c)
      BY <1>4, <2>5 DEF MoreComparison, Final
    <3> HIDE DEF b, op, node
    <3>2. b \in Reads(ts, i, 0) /\ b.at \in i + 1..Len(ts) + 1
      BY <1>1, <2>1, <2>2, <2>5, ReadsEarlier, ReadsType
    <3>3. Under(node, b) \in Reads(ts, i, 1 + 0)
      BY <1>1, <2>4, <3>2, UnderReads
    <3>4. c \in Reads(ts, i, 1) /\ c.is = "found" /\ c.at = b.at /\ b.at > i
      BY <1>1, <2>5, <3>2, <3>3 DEF Under, Found
    <3> HIDE DEF c
    <3> QED BY <1>1, <3>1, <3>4, FinalReads
  <2>6. CASE b.is # "found"
    <3>1. MoreComparison(ts, p, fresh, i) = b /\ MoreComparison(ts, q, fresh, i) = b
      BY <1>4, <2>6 DEF MoreComparison
    <3> HIDE DEF b
    <3> QED BY <1>1, <2>1, <2>2, <2>6, <3>1, ReadsEarlier
  <2> QED BY <2>5, <2>6
<1> QED BY <1>2, <1>3, <1>4

\* Every call is one further on.
LEMMA ComparisonsRead ==
  ASSUME NEW ts \in Seq(Token)
  PROVE  \A j \in Place(ts), fresh \in BOOLEAN :
           /\ Comparisons(ts)[<<fresh, j>>] \in Reads(ts, j, 1)
           /\ Comparisons(ts)[<<fresh, j>>] = MoreComparison(ts, Comparisons(ts), fresh, j)
<1> DEFINE D == BOOLEAN \X Place(ts)
           m == [c \in D |-> Len(ts) + 1 - c[2]]
           V == [c \in D |-> Reads(ts, c[2], 1)]
           R == UNION {V[c] : c \in D}
           F == [p \in [D -> R] |-> [c \in D |-> MoreComparison(ts, p, c[1], c[2])]]
<1>1. m \in [D -> Nat]
  <2>1. \A c \in D : c[2] \in Place(ts)
    OBVIOUS
  <2>2. \A c \in D : Len(ts) + 1 - c[2] \in Nat
    BY <2>1, PlaceIs
  <2> QED BY <2>2, LenProperties
<1>2. \A c \in D : V[c] \subseteq R /\ V[c] # {}
  <2>1. \A j : Died(0) \in Reads(ts, j, 1)
    BY DiedReads
  <2> QED BY <2>1
<1>3. ASSUME NEW p, NEW q, NEW c \in D, \A d \in D : m[d] < m[c] => p[d] \in V[d] /\ q[d] = p[d]
      PROVE  MoreComparison(ts, p, c[1], c[2]) \in V[c]
             /\ MoreComparison(ts, q, c[1], c[2]) = MoreComparison(ts, p, c[1], c[2])
  <2>1. c[1] \in BOOLEAN /\ c[2] \in Place(ts) /\ V[c] = Reads(ts, c[2], 1) /\ m[c] = Len(ts) + 1 - c[2]
    OBVIOUS
  <2>2. ASSUME NEW j \in Place(ts), c[2] + 1 <= j, NEW fresh \in BOOLEAN
        PROVE  p[<<fresh, j>>] \in Reads(ts, j, 1) /\ q[<<fresh, j>>] = p[<<fresh, j>>]
    <3>1. <<fresh, j>> \in D /\ m[<<fresh, j>>] = Len(ts) + 1 - j /\ V[<<fresh, j>>] = Reads(ts, j, 1)
      OBVIOUS
    <3>2. m[<<fresh, j>>] < m[c]
      BY <2>1, <2>2, <3>1, PlaceIs
    <3> HIDE DEF D, V, m
    <3> QED BY <1>3, <3>1, <3>2
  <2>3. KnowsComparison(ts, p, q, c[2] + 1)
    BY <2>2 DEF KnowsComparison
  <2> QED BY <2>1, <2>3, MoreComparisonReads
<1>4. \A p, q \in [D -> R] : \A c \in D :
        (\A d \in D : m[d] < m[c] => p[d] \in V[d] /\ q[d] = p[d]) => F[p][c] \in V[c] /\ F[q][c] = F[p][c]
  <2>1. SUFFICES ASSUME NEW p \in [D -> R], NEW q \in [D -> R], NEW c \in D,
                        \A d \in D : m[d] < m[c] => p[d] \in V[d] /\ q[d] = p[d]
                 PROVE  F[p][c] \in V[c] /\ F[q][c] = F[p][c]
    BY Zenon
  <2>2. F[p][c] = MoreComparison(ts, p, c[1], c[2]) /\ F[q][c] = MoreComparison(ts, q, c[1], c[2])
    BY Zenon
  <2>3. MoreComparison(ts, p, c[1], c[2]) \in V[c]
        /\ MoreComparison(ts, q, c[1], c[2]) = MoreComparison(ts, p, c[1], c[2])
    <3> HIDE DEF D, V, m
    <3> QED BY <1>3, <2>1
  <2> QED BY <2>2, <2>3
<1>5. \E p \in [D -> R] : \A c \in D : p[c] = F[p][c]
  <2> HIDE DEF D, V, R, F, m
  <2>1. Computes(D, R, V, m, F)
    BY <1>1, <1>2, <1>4, Zenon DEF Computes
  <2>2. HasFixpoint(D, R, F)
    BY <2>1, Recursion, Zenon
  <2> QED BY <2>2, Zenon DEF HasFixpoint
<1>6. PICK p \in [D -> R] : \A c \in D : p[c] = F[p][c]
  BY <1>5, Zenon
<1>7. p = [c \in D |-> MoreComparison(ts, p, c[1], c[2])]
  <2>1. \A c \in D : p[c] = MoreComparison(ts, p, c[1], c[2])
    BY <1>6, Zenon
  <2>2. p = [c \in D |-> p[c]]
    BY Zenon
  <2> QED BY <2>1, <2>2, Zenon
<1> DEFINE e == CHOOSE f : f = [c \in D |-> MoreComparison(ts, f, c[1], c[2])]
<1>8. Comparisons(ts) = e
  BY Zenon DEF Comparisons
<1>9. e = [c \in D |-> MoreComparison(ts, e, c[1], c[2])]
  BY <1>7, Zenon
<1> HIDE DEF e
<1>10. \A c \in D : e[c] = MoreComparison(ts, e, c[1], c[2])
  BY <1>9, Zenon
<1>11. \A c \in D : e[c] \in V[c]
  <2>1. \A c \in D : (\A d \in D : m[d] < m[c] => e[d] \in V[d]) => e[c] \in V[c]
    <3> HIDE DEF D, V, m
    <3> QED BY <1>3, <1>10
  <2> HIDE DEF D, V, R, F, m
  <2>2. Hereditary(D, V, m, e)
    BY <1>1, <2>1, Zenon DEF Hereditary
  <2> QED BY <2>2, AllCalls, Zenon
<1>12. ASSUME NEW j \in Place(ts), NEW fresh \in BOOLEAN
       PROVE  e[<<fresh, j>>] \in Reads(ts, j, 1) /\ e[<<fresh, j>>] = MoreComparison(ts, e, fresh, j)
  <2>1. <<fresh, j>> \in D /\ V[<<fresh, j>>] = Reads(ts, j, 1)
    OBVIOUS
  <2>2. e[<<fresh, j>>] \in V[<<fresh, j>>]
    BY <1>11, <2>1, Zenon
  <2>3. e[<<fresh, j>>] = MoreComparison(ts, e, <<fresh, j>>[1], <<fresh, j>>[2])
    BY <1>10, <2>1, Zenon
  <2> QED BY <2>1, <2>2, <2>3
<1> QED BY <1>8, <1>12

-----------------------------------------------------------------------------
(* Conditions *)

LEMMA ParseComparisonReads ==
  ASSUME NEW ts \in Seq(Token), NEW i \in Place(ts)
  PROVE  ParseComparison(ts, i) \in Reads(ts, i, 0)
<1> DEFINE e == ParseExpression(ts, i)
           c == Comparisons(ts)[<<TRUE, e.at>>]
<1>1. i \in Nat /\ e \in Reads(ts, i, 0)
  BY PlaceIs, ParseExpressionReads
<1> HIDE DEF e
<1>2. CASE e.is = "found"
  <2>1. e.at \in i..Len(ts) + 1 /\ e.at \in Nat
    BY <1>1, <1>2, ReadsType
  <2>2. e.at \in Place(ts) /\ i <= e.at
    BY <2>1, PlaceIs DEF Place
  <2>3. c \in Reads(ts, e.at, 0 + 1)
    <3>1. c \in Reads(ts, e.at, 1)
      BY <2>2, ComparisonsRead
    <3>2. 0 + 1 = 1
      OBVIOUS
    <3> QED BY <3>1, <3>2, Zenon
  <2> HIDE DEF c
  <2>4. Then(e, c) \in Reads(ts, i, 0 + 0)
    BY <1>1, <1>2, <2>1, <2>2, <2>3, ThenReads
  <2>5. ParseComparison(ts, i) = Then(e, c)
    BY <1>2 DEF ParseComparison, e, c
  <2> QED BY <2>4, <2>5
<1>3. CASE e.is # "found"
  <2>1. ParseComparison(ts, i) = e
    BY <1>3 DEF ParseComparison, e
  <2> QED BY <1>1, <2>1
<1> QED BY <1>2, <1>3

LEMMA ParseNotReads ==
  ASSUME NEW ts \in Seq(Token), NEW p, NEW q, NEW i \in Place(ts),
         KnowsNext(ts, p, q, i), KnowsMore(ts, p, q, i)
  PROVE  ParseNot(p, i) \in Reads(ts, i, 0) /\ ParseNot(q, i) = ParseNot(p, i)
<1> DEFINE c == Chain(p, i)
           node == Node("not", <<>>, 1)
<1>1. i \in Nat /\ c \in Reads(ts, i, 0) /\ Chain(q, i) = c
  BY PlaceIs, ChainReads
<1> HIDE DEF c
<1>2. CASE c.is = "found"
  <2>1. ParseNot(p, i) = Under(node, c) /\ ParseNot(q, i) = Under(node, c)
    BY <1>1, <1>2 DEF ParseNot, c
  <2>2. Takes(<<node>>, 0 + 1)
    <3>1. <<>> \in Seq(Piece)
      OBVIOUS
    <3>2. Takes(<<node>>, 1)
      BY <3>1, NodeTakes, Zenon
    <3>3. 0 + 1 = 1
      OBVIOUS
    <3> QED BY <3>2, <3>3, Zenon
  <2> HIDE DEF node
  <2>3. Under(node, c) \in Reads(ts, i, 0 + 0)
    BY <1>1, <2>2, UnderReads
  <2> QED BY <2>1, <2>3
<1>3. CASE c.is # "found"
  <2>1. ParseNot(p, i) = Died(c.at) /\ ParseNot(q, i) = Died(c.at) /\ c.at \in Nat
    BY <1>1, <1>3, ReadsType DEF ParseNot, c
  <2> QED BY <2>1, DiedReads
<1> QED BY <1>2, <1>3

LEMMA NextConditionReads ==
  ASSUME NEW ts \in Seq(Token), NEW p, NEW q, NEW i \in Place(ts),
         KnowsNext(ts, p, q, i + 1), KnowsMore(ts, p, q, i + 1)
  PROVE  /\ ParseNextCondition(ts, p, i) \in Reads(ts, i, 0)
         /\ ParseNextCondition(ts, q, i) = ParseNextCondition(ts, p, i)
<1>1. CASE Is(ts, i, <<"NOT">>)
  <2>1. i \in Nat /\ i + 1 \in Nat /\ i <= i + 1 /\ i + 1 \in Place(ts)
    BY <1>1, PlaceIs DEF Is, Place
  <2>2. ParseNot(p, i + 1) \in Reads(ts, i + 1, 0) /\ ParseNot(q, i + 1) = ParseNot(p, i + 1)
    BY <2>1, ParseNotReads
  <2>3. ParseNextCondition(ts, p, i) = ParseNot(p, i + 1) /\ ParseNextCondition(ts, q, i) = ParseNot(q, i + 1)
    BY <1>1 DEF ParseNextCondition
  <2> QED BY <2>1, <2>2, <2>3, ReadsEarlier
<1>2. CASE ~Is(ts, i, <<"NOT">>)
  <2>1. ParseNextCondition(ts, p, i) = ParseComparison(ts, i) /\ ParseNextCondition(ts, q, i) = ParseComparison(ts, i)
    BY <1>2 DEF ParseNextCondition
  <2> QED BY <2>1, ParseComparisonReads
<1> QED BY <1>1, <1>2

LEMMA MoreConditionReads ==
  ASSUME NEW ts \in Seq(Token), NEW p, NEW q, NEW i \in Place(ts),
         KnowsNext(ts, p, q, i + 1), KnowsMore(ts, p, q, i + 1)
  PROVE  /\ MoreCondition(ts, p, i) \in Reads(ts, i, 1)
         /\ MoreCondition(ts, q, i) = MoreCondition(ts, p, i)
<1>1. CASE ~AtOneOf(ts, i, Logic)
  BY <1>1, NoOperatorReads DEF MoreCondition
<1>2. CASE AtOneOf(ts, i, Logic)
  <2>1. i \in 1..Len(ts)
    BY <1>2, PlaceIs DEF AtOneOf
  <2> QED BY <1>2, <2>1, OperandReads DEF MoreCondition
<1> QED BY <1>1, <1>2

LEMMA ConditionsRead ==
  ASSUME NEW ts \in Seq(Token)
  PROVE  \A j \in Place(ts) :
           /\ Conditions(ts)[<<"next", j, 0>>] \in Reads(ts, j, 0)
           /\ Conditions(ts)[<<"more", j, 0>>] \in Reads(ts, j, 1)
           /\ Conditions(ts)[<<"next", j, 0>>] = ParseNextCondition(ts, Conditions(ts), j)
           /\ Conditions(ts)[<<"more", j, 0>>] = MoreCondition(ts, Conditions(ts), j)
<1> DEFINE D == {"next", "more"} \X Place(ts) \X {0}
           m == [c \in D |-> Len(ts) + 1 - c[2]]
           V == [c \in D |-> Reads(ts, c[2], IF c[1] = "next" THEN 0 ELSE 1)]
           R == UNION {V[c] : c \in D}
           Body(p, c) == CASE c[1] = "next" -> ParseNextCondition(ts, p, c[2])
                           [] c[1] = "more" -> MoreCondition(ts, p, c[2])
           F == [p \in [D -> R] |-> [c \in D |-> Body(p, c)]]
<1>1. m \in [D -> Nat]
  <2>1. \A c \in D : c[2] \in Place(ts)
    OBVIOUS
  <2>2. \A c \in D : Len(ts) + 1 - c[2] \in Nat
    BY <2>1, PlaceIs
  <2> QED BY <2>2, LenProperties
<1>2. \A c \in D : V[c] \subseteq R /\ V[c] # {}
  <2>1. \A j, n : Died(0) \in Reads(ts, j, n)
    BY DiedReads
  <2> QED BY <2>1
<1>3. ASSUME NEW p, NEW q, NEW c \in D, \A d \in D : m[d] < m[c] => p[d] \in V[d] /\ q[d] = p[d]
      PROVE  Body(p, c) \in V[c] /\ Body(q, c) = Body(p, c)
  <2>1. c[1] \in {"next", "more"} /\ c[2] \in Place(ts) /\ m[c] = Len(ts) + 1 - c[2]
    OBVIOUS
  <2>2. ASSUME NEW j \in Place(ts), c[2] + 1 <= j
        PROVE  /\ p[<<"next", j, 0>>] \in Reads(ts, j, 0) /\ q[<<"next", j, 0>>] = p[<<"next", j, 0>>]
               /\ p[<<"more", j, 0>>] \in Reads(ts, j, 1) /\ q[<<"more", j, 0>>] = p[<<"more", j, 0>>]
    <3>1. /\ <<"next", j, 0>> \in D /\ m[<<"next", j, 0>>] = Len(ts) + 1 - j
          /\ V[<<"next", j, 0>>] = Reads(ts, j, 0)
          /\ <<"more", j, 0>> \in D /\ m[<<"more", j, 0>>] = Len(ts) + 1 - j
          /\ V[<<"more", j, 0>>] = Reads(ts, j, 1)
      OBVIOUS
    <3>2. Len(ts) + 1 - j < m[c]
      BY <2>1, <2>2, PlaceIs
    <3> HIDE DEF D, V, m
    <3> QED BY <1>3, <3>1, <3>2
  <2>3. KnowsNext(ts, p, q, c[2] + 1) /\ KnowsMore(ts, p, q, c[2] + 1)
    BY <2>2 DEF KnowsNext, KnowsMore
  <2>4. CASE c[1] = "next"
    <3>1. V[c] = Reads(ts, c[2], 0) /\ Body(p, c) = ParseNextCondition(ts, p, c[2])
          /\ Body(q, c) = ParseNextCondition(ts, q, c[2])
      BY <2>4
    <3> QED BY <2>1, <2>3, <3>1, NextConditionReads
  <2>5. CASE c[1] = "more"
    <3>1. V[c] = Reads(ts, c[2], 1) /\ Body(p, c) = MoreCondition(ts, p, c[2])
          /\ Body(q, c) = MoreCondition(ts, q, c[2])
      BY <2>5
    <3> QED BY <2>1, <2>3, <3>1, MoreConditionReads
  <2> QED BY <2>1, <2>4, <2>5
<1>4. \A p, q \in [D -> R] : \A c \in D :
        (\A d \in D : m[d] < m[c] => p[d] \in V[d] /\ q[d] = p[d]) => F[p][c] \in V[c] /\ F[q][c] = F[p][c]
  <2>1. SUFFICES ASSUME NEW p \in [D -> R], NEW q \in [D -> R], NEW c \in D,
                        \A d \in D : m[d] < m[c] => p[d] \in V[d] /\ q[d] = p[d]
                 PROVE  F[p][c] \in V[c] /\ F[q][c] = F[p][c]
    BY Zenon
  <2>2. F[p][c] = Body(p, c) /\ F[q][c] = Body(q, c)
    <3> HIDE DEF Body
    <3> QED BY Zenon
  <2>3. Body(p, c) \in V[c] /\ Body(q, c) = Body(p, c)
    <3> HIDE DEF D, V, m, Body
    <3> QED BY <1>3, <2>1
  <2> QED BY <2>2, <2>3
<1>5. \E p \in [D -> R] : \A c \in D : p[c] = F[p][c]
  <2> HIDE DEF D, V, R, F, m
  <2>1. Computes(D, R, V, m, F)
    BY <1>1, <1>2, <1>4, Zenon DEF Computes
  <2>2. HasFixpoint(D, R, F)
    BY <2>1, Recursion, Zenon
  <2> QED BY <2>2, Zenon DEF HasFixpoint
<1>6. PICK p \in [D -> R] : \A c \in D : p[c] = F[p][c]
  BY <1>5, Zenon
<1>7. p = [c \in D |-> Body(p, c)]
  <2> HIDE DEF Body
  <2>1. \A c \in D : p[c] = Body(p, c)
    BY <1>6, Zenon
  <2>2. p = [c \in D |-> p[c]]
    BY Zenon
  <2> QED BY <2>1, <2>2, Zenon
<1> DEFINE e == CHOOSE f : f = [c \in D |-> Body(f, c)]
<1>8. Conditions(ts) = e
  BY Zenon DEF Conditions
<1>9. e = [c \in D |-> Body(e, c)]
  <2> HIDE DEF Body
  <2> QED BY <1>7, Zenon
<1> HIDE DEF e
<1>10. \A c \in D : e[c] = Body(e, c)
  <2> HIDE DEF Body
  <2> QED BY <1>9, Zenon
<1>11. \A c \in D : e[c] \in V[c]
  <2>1. \A c \in D : (\A d \in D : m[d] < m[c] => e[d] \in V[d]) => e[c] \in V[c]
    <3> HIDE DEF D, V, m, Body
    <3> QED BY <1>3, <1>10
  <2> HIDE DEF D, V, R, F, m
  <2>2. Hereditary(D, V, m, e)
    BY <1>1, <2>1, Zenon DEF Hereditary
  <2> QED BY <2>2, AllCalls, Zenon
<1>12. ASSUME NEW j \in Place(ts)
       PROVE  /\ e[<<"next", j, 0>>] \in Reads(ts, j, 0) /\ e[<<"more", j, 0>>] \in Reads(ts, j, 1)
              /\ e[<<"next", j, 0>>] = ParseNextCondition(ts, e, j)
              /\ e[<<"more", j, 0>>] = MoreCondition(ts, e, j)
  <2>1. /\ <<"next", j, 0>> \in D /\ V[<<"next", j, 0>>] = Reads(ts, j, 0)
        /\ <<"more", j, 0>> \in D /\ V[<<"more", j, 0>>] = Reads(ts, j, 1)
    OBVIOUS
  <2>2. Body(e, <<"next", j, 0>>) = ParseNextCondition(ts, e, j) /\ Body(e, <<"more", j, 0>>) = MoreCondition(ts, e, j)
    OBVIOUS
  <2> HIDE DEF D, V, Body
  <2> QED BY <1>10, <1>11, <2>1, <2>2
<1> QED BY <1>8, <1>12

\* A condition, from any place: a tree that is read up to a later place.
LEMMA ParseConditionReads ==
  ASSUME NEW ts \in Seq(Token), NEW i \in Place(ts)
  PROVE  ParseCondition(ts, i) \in Reads(ts, i, 0)
<1> DEFINE p == Conditions(ts)
<1>1. KnowsNext(ts, p, p, i) /\ KnowsMore(ts, p, p, i)
  BY ConditionsRead DEF KnowsNext, KnowsMore
<1> HIDE DEF p
<1>2. Chain(p, i) \in Reads(ts, i, 0)
  BY <1>1, ChainReads
<1> QED BY <1>2 DEF ParseCondition, p

-----------------------------------------------------------------------------
(* The specification *)

Parsed(parser, ts) == IF parser = "condition" THEN ParseCondition(ts, 1) ELSE ParseExpression(ts, 1)

\* The tree that is printed is one, and what is on the screen is what the parser
\* makes of the tokens.
LanguageInv ==
  /\ LexInv
  /\ result \in Outcome
  /\ former \in [tokens : Seq(Token), result : Outcome, parser : {"none", "condition", "expression"}]
  /\ stage \in {"lexing", "parsed", "over"}
  /\ stage = "parsed" => Takes(result.tree, 0)
  /\ stage \in {"parsed", "over"} => former.parser # "none" /\ result = Parsed(former.parser, tokens)

LEMMA ParsedReads ==
  ASSUME NEW ts \in Seq(Token), NEW parser PROVE Parsed(parser, ts) \in Reads(ts, 1, 0)
<1>1. 1 \in Place(ts)
  BY LenProperties DEF Place
<1> QED BY <1>1, ParseConditionReads, ParseExpressionReads DEF Parsed

LEMMA NoResultType == NoResult \in Outcome
BY DEF NoResult, None, Outcome

LEMMA LanguageInvInit == Init => LanguageInv
<1> SUFFICES ASSUME Init PROVE LanguageInv
  OBVIOUS
<1>1. text \in Seq(Piece) /\ pos = 1 /\ tokens = <<>> /\ tokens \in Seq(Token)
  BY InputAssumption DEF Init
<1>2. LexInv
  BY <1>1, NothingRead DEF LexInv, EveryPieceInOneToken
<1>3. NoResult \in Outcome
  BY NoResultType
<1> QED BY <1>1, <1>2, <1>3 DEF Init, LanguageInv

LEMMA LanguageInvNext == LanguageInv /\ [Next]_vars => LanguageInv'
<1> SUFFICES ASSUME LanguageInv, [Next]_vars PROVE LanguageInv'
  OBVIOUS
<1>1. CASE UNCHANGED vars
  BY <1>1 DEF vars, LanguageInv, LexInv, EveryPieceInOneToken
<1>2. CASE Lex
  <2>1. LexInv /\ NextToken /\ stage = "lexing" /\ UNCHANGED <<result, former, stage>>
    BY <1>2 DEF Lex, LanguageInv
  <2>2. LexInv'
    BY <2>1, LexStep
  <2> QED BY <2>1, <2>2 DEF LanguageInv
<1>3. ASSUME NEW parser \in {"condition", "expression"}, Parse(parser) PROVE LanguageInv'
  <2>1. /\ UNCHANGED <<text, pos, tokens>>
        /\ result' = Parsed(parser, tokens) /\ former' = [former EXCEPT !.parser = parser]
        /\ stage' = IF former.result = NoResult /\ result'.is = "found" THEN "parsed" ELSE "over"
    BY <1>3 DEF Parse, Parsed
  <2>2. LexInv'
    BY <2>1 DEF LanguageInv, LexInv, EveryPieceInOneToken
  <2>3. tokens \in Seq(Token)
    BY DEF LanguageInv, LexInv
  <2>4. result' \in Reads(tokens, 1, 0)
    BY <2>1, <2>3, ParsedReads
  <2>5. result' \in Outcome /\ (result'.is = "found" => Takes(result'.tree, 0))
    BY <2>3, <2>4, ReadsType
  <2>6. former' \in [tokens : Seq(Token), result : Outcome, parser : {"none", "condition", "expression"}]
        /\ former'.parser = parser
    BY <2>1 DEF LanguageInv
  <2> QED BY <1>3, <2>1, <2>2, <2>5, <2>6 DEF LanguageInv
<1>4. CASE Decompile
  <2>1. /\ stage = "parsed" /\ ~Unhandled(result.tree)
        /\ text' = MakeSQL(result.tree) /\ pos' = 1 /\ tokens' = <<>>
        /\ former' = [former EXCEPT !.tokens = tokens, !.result = result]
        /\ result' = NoResult /\ stage' = "lexing"
    BY <1>4 DEF Decompile, Open
  <2>2. text' \in Seq(Piece)
    BY <2>1, MakeSQLType DEF LanguageInv
  <2>3. EveryPieceInOneToken'
    BY <2>1, <2>2, NothingRead DEF EveryPieceInOneToken
  <2>4. LexInv'
    BY <2>1, <2>2, <2>3 DEF LexInv
  <2>5. NoResult \in Outcome
    BY NoResultType
  <2> QED BY <2>1, <2>4, <2>5 DEF LanguageInv, LexInv
<1>5. CASE DecompileThrows
  <2>1. UNCHANGED <<text, pos, tokens, result, former>> /\ stage = "parsed" /\ stage' = "over"
    BY <1>5 DEF DecompileThrows
  <2>2. LexInv'
    BY <2>1 DEF LanguageInv, LexInv, EveryPieceInOneToken
  <2> QED BY <2>1, <2>2 DEF LanguageInv
<1> QED BY <1>1, <1>2, <1>3, <1>4, <1>5 DEF Next

THEOREM LanguageInvariant == Spec => []LanguageInv
BY LanguageInvInit, LanguageInvNext, PTL DEF Spec

\* Whatever the text, the tokenizer, the parser and the decompiler return
\* tokens, trees and texts: the methods of ExpressionParser come to an end on any
\* tokens, and the decompiler makes one text of every tree they return.
THEOREM LanguageTyping == Spec => []TypeOK
<1>1. LanguageInv => TypeOK
  BY DEF LanguageInv, TypeOK, LexInv
<1> QED BY <1>1, LanguageInvariant, PTL

\* Of no text, printed ones included, the tokenizer loses, repeats or moves a piece
\* (TokenIterator.next).
THEOREM NoPieceIsLost == Spec => []EveryPieceInOneToken
<1>1. LanguageInv => EveryPieceInOneToken
  BY DEF LanguageInv, LexInv
<1> QED BY <1>1, LanguageInvariant, PTL
===============================================================================
