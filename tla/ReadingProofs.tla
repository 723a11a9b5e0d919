----------------------------- MODULE ReadingProofs -----------------------------
(***************************************************************************)
(* Conditions are read from left to right: the parser makes of a           *)
(* well-formed condition what Reading says.                                *)
(***************************************************************************)
EXTENDS LanguageProofs

-----------------------------------------------------------------------------
(* Reading *)

\* The last place of the set, and the connectives that are not under a NOT.
LastOf(set) == CHOOSE i \in set : \A j \in set : j <= i
Clear(ts) == {i \in Places(ts, Logic) : \A n \in Places(ts, {<<"NOT">>}) : i < n}

ReadingOf(r, ts) ==
  LET k == LastOf(Clear(ts)) IN
  IF Clear(ts) # {} THEN
    r[SubSeq(ts, 1, k - 1)] \o r[SubSeq(ts, k + 1, Len(ts))] \o <<Node("infix", ts[k].text, 2)>>
  ELSE IF ts # <<>> /\ ts[1].text = <<"NOT">> THEN Append(r[Tail(ts)], Node("not", <<>>, 1))
  ELSE ParseComparison(ts, 1).tree

LEMMA LastOfProperties ==
  ASSUME NEW n \in Nat, NEW S \in SUBSET (1..n), S # {}
  PROVE  LastOf(S) \in S /\ \A j \in S : j <= LastOf(S)
<1>1. \E i \in S : \A j \in S : j <= i
  BY GreatestOf
<1> QED BY <1>1 DEF LastOf

LEMMA SubSeqIn ==
  ASSUME NEW A, NEW s \in Seq(A), NEW a \in Nat, NEW b \in Nat, a >= 1, b <= Len(s), a <= b + 1
  PROVE  /\ SubSeq(s, a, b) \in Seq(A) /\ Len(SubSeq(s, a, b)) = b + 1 - a
         /\ DOMAIN SubSeq(s, a, b) = 1..b + 1 - a
         /\ \A i \in 1..b + 1 - a : SubSeq(s, a, b)[i] = s[a + i - 1]
<1>1. \A i \in a..b : s[i] \in A
  OBVIOUS
<1> QED BY <1>1, SubSeqProperties

LEMMA NodesMade ==
  ASSUME NEW name \in Seq(Piece)
  PROVE  /\ <<Node("infix", name, 2)>> \in Seq(Nodes)
         /\ Node("not", <<>>, 1) \in Nodes
BY DEF Node, Nodes

LEMMA ReadingLocal ==
  ASSUME NEW p, NEW q, NEW ts \in Seq(Token),
         \A u \in Seq(Token) : Len(u) < Len(ts) => p[u] \in Seq(Nodes) /\ q[u] = p[u]
  PROVE  ReadingOf(p, ts) \in Seq(Nodes) /\ ReadingOf(q, ts) = ReadingOf(p, ts)
<1>1. Len(ts) \in Nat /\ DOMAIN ts = 1..Len(ts)
  BY LenProperties
<1>2. CASE Clear(ts) # {}
  <2> DEFINE k == LastOf(Clear(ts))
             u == SubSeq(ts, 1, k - 1)
             v == SubSeq(ts, k + 1, Len(ts))
             node == Node("infix", ts[k].text, 2)
  <2>1. k \in 1..Len(ts)
    <3>1. Clear(ts) \in SUBSET (1..Len(ts))
      BY <1>1 DEF Clear, Places
    <3>2. k \in Clear(ts)
      BY <1>1, <1>2, <3>1, LastOfProperties
    <3> QED BY <3>1, <3>2
  <2> HIDE DEF k
  <2>2. u \in Seq(Token) /\ Len(u) = k - 1
    <3>1. 1 \in Nat /\ k - 1 \in Nat /\ 1 <= (k - 1) + 1 /\ k - 1 <= Len(ts) /\ (k - 1) + 1 - 1 = k - 1
      BY <1>1, <2>1
    <3> QED BY <3>1, SubSeqIn
  <2>3. v \in Seq(Token) /\ Len(v) = Len(ts) - k
    <3>1. k \in Nat /\ k >= 1 /\ k <= Len(ts) /\ Len(ts) \in Nat
      BY <1>1, <2>1
    <3>2. k + 1 \in Nat /\ k + 1 >= 1 /\ k + 1 <= Len(ts) + 1
      BY <3>1
    <3>3. Len(ts) + 1 - (k + 1) = Len(ts) - k
      BY <3>1
    <3>4. v \in Seq(Token) /\ Len(v) = Len(ts) + 1 - (k + 1)
      <4>1. Len(ts) <= Len(ts)
        BY <3>1
      <4> QED BY <3>1, <3>2, <4>1, SubSeqIn
    <3> QED BY <3>3, <3>4
  <2>4. p[u] \in Seq(Nodes) /\ q[u] = p[u] /\ p[v] \in Seq(Nodes) /\ q[v] = p[v]
    <3> HIDE DEF u, v
    <3> QED BY <1>1, <2>1, <2>2, <2>3
  <2>5. <<node>> \in Seq(Nodes)
    BY <2>1, TokenAt, NodesMade
  <2>6. ReadingOf(p, ts) = p[u] \o p[v] \o <<node>> /\ ReadingOf(q, ts) = q[u] \o q[v] \o <<node>>
    BY <1>2 DEF ReadingOf, k
  <2> HIDE DEF u, v, node
  <2>7. p[u] \o p[v] \in Seq(Nodes)
    BY <2>4, ConcatProperties
  <2> QED BY <2>4, <2>5, <2>6, <2>7, ConcatProperties
<1>3. CASE Clear(ts) = {} /\ ts # <<>> /\ ts[1].text = <<"NOT">>
  <2>1. Tail(ts) \in Seq(Token) /\ Len(Tail(ts)) < Len(ts)
    BY <1>3
  <2>2. p[Tail(ts)] \in Seq(Nodes) /\ q[Tail(ts)] = p[Tail(ts)]
    BY <2>1
  <2>3. Node("not", <<>>, 1) \in Nodes
    BY DEF Node, Nodes
  <2>4. ReadingOf(p, ts) = Append(p[Tail(ts)], Node("not", <<>>, 1))
        /\ ReadingOf(q, ts) = Append(q[Tail(ts)], Node("not", <<>>, 1))
    BY <1>3 DEF ReadingOf
  <2> QED BY <2>2, <2>3, <2>4, AppendProperties
<1>4. CASE Clear(ts) = {} /\ ~(ts # <<>> /\ ts[1].text = <<"NOT">>)
  <2>1. ReadingOf(p, ts) = ParseComparison(ts, 1).tree /\ ReadingOf(q, ts) = ParseComparison(ts, 1).tree
    BY <1>4 DEF ReadingOf
  <2>2. 1 \in Place(ts)
    BY <1>1 DEF Place
  <2>3. ParseComparison(ts, 1) \in Reads(ts, 1, 0)
    BY <2>2, ParseComparisonReads
  <2>4. ParseComparison(ts, 1).tree \in Seq(Nodes)
    BY <2>3 DEF Reads, Outcome
  <2> QED BY <2>1, <2>4
<1> QED BY <1>2, <1>3, <1>4

LEMMA ReadingIs ==
  \A ts \in Seq(Token) : Reading[ts] = ReadingOf(Reading, ts) /\ Reading[ts] \in Seq(Nodes)
<1> DEFINE D == Seq(Token)
           R == Seq(Nodes)
           V == [ts \in D |-> Seq(Nodes)]
           m == [ts \in D |-> Len(ts)]
           F == [p \in [D -> R] |-> [ts \in D |-> ReadingOf(p, ts)]]
<1>1. m \in [D -> Nat]
  BY LenProperties
<1>2. \A ts \in D : V[ts] \subseteq R /\ V[ts] # {}
  <2>1. <<>> \in Seq(Nodes)
    OBVIOUS
  <2> QED BY <2>1
<1>3. ASSUME NEW p, NEW q, NEW ts \in D, \A u \in D : m[u] < m[ts] => p[u] \in V[u] /\ q[u] = p[u]
      PROVE  ReadingOf(p, ts) \in V[ts] /\ ReadingOf(q, ts) = ReadingOf(p, ts)
  <2>1. \A u \in Seq(Token) : Len(u) < Len(ts) => p[u] \in Seq(Nodes) /\ q[u] = p[u]
    BY <1>3
  <2> QED BY <2>1, ReadingLocal
<1>4. \A p, q \in [D -> R] : \A c \in D :
        (\A d \in D : m[d] < m[c] => p[d] \in V[d] /\ q[d] = p[d]) => F[p][c] \in V[c] /\ F[q][c] = F[p][c]
  <2>1. SUFFICES ASSUME NEW p \in [D -> R], NEW q \in [D -> R], NEW c \in D,
                        \A d \in D : m[d] < m[c] => p[d] \in V[d] /\ q[d] = p[d]
                 PROVE  F[p][c] \in V[c] /\ F[q][c] = F[p][c]
    BY Zenon
  <2>2. F[p][c] = ReadingOf(p, c) /\ F[q][c] = ReadingOf(q, c)
    BY Zenon
  <2>3. ReadingOf(p, c) \in V[c] /\ ReadingOf(q, c) = ReadingOf(p, c)
    <3> HIDE DEF D, V, m
    <3> QED BY <1>3, <2>1
  <2> QED BY <2>2, <2>3
<1>5. \E p \in [D -> R] : \A c \in D : p[c] = F[p][c]
  <2> HIDE DEF D, V, R, F, m
  <2>1. Computes(D, R, V, m, F)
    BY <1>1, <1>2, <1>4, Zenon DEF Computes
  <2>2. HasFixpoint(D, R, F)
    BY <2>1, Recursion, Zenon
  <2> QED BY <2>2, Zenon DEF HasFixpoint
<1>6. PICK p \in [D -> R] : \A c \in D : p[c] = F[p][c]
  BY <1>5, Zenon
<1>7. p = [c \in D |-> ReadingOf(p, c)]
  <2>1. \A c \in D : p[c] = ReadingOf(p, c)
    BY <1>6, Zenon
  <2>2. p = [c \in D |-> p[c]]
    BY Zenon
  <2> QED BY <2>1, <2>2, Zenon
<1> DEFINE e == CHOOSE f : f = [c \in D |-> ReadingOf(f, c)]
<1>8. Reading = e
  BY Zenon DEF Reading, ReadingOf, Clear, LastOf
<1>9. e = [c \in D |-> ReadingOf(e, c)]
  BY <1>7, Zenon
<1> HIDE DEF e
<1>10. \A c \in D : e[c] = ReadingOf(e, c)
  BY <1>9, Zenon
<1>11. \A c \in D : e[c] \in V[c]
  <2>1. \A c \in D : (\A d \in D : m[d] < m[c] => e[d] \in V[d]) => e[c] \in V[c]
    <3> HIDE DEF D, V, m
    <3> QED BY <1>3, <1>10
  <2> HIDE DEF D, V, R, F, m
  <2>2. Hereditary(D, V, m, e)
    BY <1>1, <2>1, Zenon DEF Hereditary
  <2> QED BY <2>2, AllCalls, Zenon
<1>12. \A c \in D : e[c] \in Seq(Nodes)
  BY <1>11
<1> QED BY <1>8, <1>10, <1>12

-----------------------------------------------------------------------------
(* Reading a part of the tokens *)

LEMMA PartOfPart ==
  ASSUME NEW A, NEW s \in Seq(A), NEW a \in Nat, NEW b \in Nat, a >= 1, b <= Len(s), a <= b + 1,
         NEW c \in Nat, NEW d \in Nat, c >= 1, d <= b + 1 - a, c <= d + 1
  PROVE  SubSeq(SubSeq(s, a, b), c, d) = SubSeq(s, a + c - 1, a + d - 1)
<1> DEFINE u == SubSeq(s, a, b)
           v == SubSeq(u, c, d)
           w == SubSeq(s, a + c - 1, a + d - 1)
<1>1. /\ u \in Seq(A) /\ Len(u) = b + 1 - a
      /\ \A i \in 1..b + 1 - a : u[i] = s[a + i - 1]
  BY SubSeqIn
<1>2. /\ v \in Seq(A) /\ Len(v) = d + 1 - c
      /\ \A i \in 1..d + 1 - c : v[i] = u[c + i - 1]
  <2> HIDE DEF u
  <2> QED BY <1>1, SubSeqIn
<1>3. a + c - 1 \in Nat /\ a + d - 1 \in Nat /\ a + c - 1 >= 1 /\ a + d - 1 <= Len(s) /\ a + c - 1 <= (a + d - 1) + 1
  BY LenProperties
<1>4. /\ w \in Seq(A) /\ Len(w) = (a + d - 1) + 1 - (a + c - 1)
      /\ \A i \in 1..(a + d - 1) + 1 - (a + c - 1) : w[i] = s[(a + c - 1) + i - 1]
  BY <1>3, SubSeqIn
<1>5. (a + d - 1) + 1 - (a + c - 1) = d + 1 - c
  OBVIOUS
<1> HIDE DEF u, v, w
<1>6. ASSUME NEW i \in 1..Len(v) PROVE v[i] = w[i]
  <2>1. v[i] = u[c + i - 1]
    BY <1>2
  <2>2. c + i - 1 \in 1..b + 1 - a
    BY <1>2
  <2>3. u[c + i - 1] = s[a + (c + i - 1) - 1]
    BY <1>1, <2>2
  <2>4. a + (c + i - 1) - 1 = (a + c - 1) + i - 1
    OBVIOUS
  <2>5. w[i] = s[(a + c - 1) + i - 1]
    BY <1>2, <1>4, <1>5
  <2> QED BY <2>1, <2>3, <2>4, <2>5
<1>7. v = w
  BY <1>2, <1>4, <1>5, <1>6, SeqEqual
<1> QED BY <1>7 DEF u, v, w

\* The tokens from a to b, and what is read of them.
PartOf(ts, a, b) == SubSeq(ts, a, b)
ReadingPart(ts, a, b) == Reading[PartOf(ts, a, b)]

LEMMA PartOfIs ==
  ASSUME NEW ts \in Seq(Token), NEW a \in Nat, NEW b \in Nat, a >= 1, b <= Len(ts), a <= b + 1
  PROVE  /\ PartOf(ts, a, b) \in Seq(Token) /\ Len(PartOf(ts, a, b)) = b + 1 - a
         /\ DOMAIN PartOf(ts, a, b) = 1..b + 1 - a
         /\ \A i \in 1..b + 1 - a : PartOf(ts, a, b)[i] = ts[a + i - 1]
         /\ \A i \in a..b : i + 1 - a \in 1..b + 1 - a /\ PartOf(ts, a, b)[i + 1 - a] = ts[i]
         /\ ReadingPart(ts, a, b) = ReadingOf(Reading, PartOf(ts, a, b))
         /\ ReadingPart(ts, a, b) \in Seq(Nodes)
<1>1. /\ PartOf(ts, a, b) \in Seq(Token) /\ Len(PartOf(ts, a, b)) = b + 1 - a
      /\ DOMAIN PartOf(ts, a, b) = 1..b + 1 - a
      /\ \A i \in 1..b + 1 - a : PartOf(ts, a, b)[i] = ts[a + i - 1]
  BY SubSeqIn DEF PartOf
<1>2. ASSUME NEW i \in a..b PROVE i + 1 - a \in 1..b + 1 - a /\ PartOf(ts, a, b)[i + 1 - a] = ts[i]
  <2>1. i + 1 - a \in 1..b + 1 - a /\ a + (i + 1 - a) - 1 = i
    OBVIOUS
  <2>2. PartOf(ts, a, b)[i + 1 - a] = ts[a + (i + 1 - a) - 1]
    BY <1>1, <2>1
  <2> QED BY <2>1, <2>2
<1>3. ReadingPart(ts, a, b) = ReadingOf(Reading, PartOf(ts, a, b)) /\ ReadingPart(ts, a, b) \in Seq(Nodes)
  BY <1>1, ReadingIs DEF ReadingPart
<1> QED BY <1>1, <1>2, <1>3

\* A comparison.
LEMMA ReadingComparison ==
  ASSUME NEW ts \in Seq(Token), NEW a \in Nat, NEW b \in Nat, a >= 1, b <= Len(ts), a <= b + 1,
         \A i \in a..b : ts[i].text \notin Connective
  PROVE  ReadingPart(ts, a, b) = ParseComparison(PartOf(ts, a, b), 1).tree
<1> DEFINE u == PartOf(ts, a, b)
<1>1. /\ u \in Seq(Token) /\ Len(u) = b + 1 - a /\ DOMAIN u = 1..b + 1 - a
      /\ \A i \in 1..b + 1 - a : u[i] = ts[a + i - 1]
      /\ ReadingPart(ts, a, b) = ReadingOf(Reading, u)
  BY PartOfIs
<1> HIDE DEF u
<1>2. \A i \in DOMAIN u : u[i].text \notin Connective
  <2>1. ASSUME NEW i \in 1..b + 1 - a PROVE a + i - 1 \in a..b
    OBVIOUS
  <2> QED BY <1>1, <2>1
<1>3. Clear(u) = {}
  BY <1>2 DEF Clear, Places, Connective
<1>4. ~(u # <<>> /\ u[1].text = <<"NOT">>)
  <2>1. u # <<>> => 1 \in DOMAIN u
    BY <1>1
  <2> QED BY <1>2, <2>1 DEF Connective
<1> QED BY <1>1, <1>3, <1>4 DEF ReadingOf, u

\* A NOT.
LEMMA ReadingNot ==
  ASSUME NEW ts \in Seq(Token), NEW a \in Nat, NEW b \in Nat, a >= 1, b <= Len(ts), a <= b,
         ts[a].text = <<"NOT">>
  PROVE  ReadingPart(ts, a, b) = Append(ReadingPart(ts, a + 1, b), Node("not", <<>>, 1))
<1> DEFINE u == PartOf(ts, a, b)
<1>1. /\ u \in Seq(Token) /\ Len(u) = b + 1 - a /\ DOMAIN u = 1..b + 1 - a
      /\ \A i \in 1..b + 1 - a : u[i] = ts[a + i - 1]
      /\ ReadingPart(ts, a, b) = ReadingOf(Reading, u)
  BY PartOfIs
<1>2. Tail(u) = PartOf(ts, a + 1, b)
  <2>1. Tail(u) = SubSeq(u, 2, Len(u))
    BY DEF Tail, SubSeq
  <2>2. SubSeq(u, 2, b + 1 - a) = SubSeq(ts, a + 2 - 1, a + (b + 1 - a) - 1)
    <3> DEFINE c == 2
               d == b + 1 - a
    <3>1. c \in Nat /\ d \in Nat /\ c >= 1 /\ c <= d + 1 /\ d <= b + 1 - a /\ a <= b + 1
      OBVIOUS
    <3> HIDE DEF c, d
    <3>2. SubSeq(SubSeq(ts, a, b), c, d) = SubSeq(ts, a + c - 1, a + d - 1)
      BY <3>1, PartOfPart
    <3> QED BY <3>2 DEF PartOf, c, d
  <2>3. a + 2 - 1 = a + 1 /\ a + (b + 1 - a) - 1 = b
    OBVIOUS
  <2> QED BY <1>1, <2>1, <2>2, <2>3 DEF PartOf
<1> HIDE DEF u
<1>3. u # <<>> /\ u[1] = ts[a] /\ 1 \in DOMAIN u
  <2>1. 1 \in 1..b + 1 - a /\ a + 1 - 1 = a
    OBVIOUS
  <2>2. u[1] = ts[a + 1 - 1]
    BY <1>1, <2>1
  <2> QED BY <1>1, <2>1, <2>2
<1>4. Clear(u) = {}
  <2>1. 1 \in Places(u, {<<"NOT">>})
    BY <1>3 DEF Places
  <2>2. \A i \in Places(u, Logic) : ~(i < 1)
    BY <1>1 DEF Places
  <2> QED BY <2>1, <2>2 DEF Clear
<1>5. ReadingOf(Reading, u) = Append(Reading[Tail(u)], Node("not", <<>>, 1))
  BY <1>3, <1>4 DEF ReadingOf
<1> QED BY <1>1, <1>2, <1>5 DEF ReadingPart

\* The last connective that is not under a NOT.
LEMMA ReadingLogic ==
  ASSUME NEW ts \in Seq(Token), NEW a \in Nat, NEW b \in Nat, a >= 1, b <= Len(ts), a <= b + 1,
         NEW k \in a..b, ts[k].text \in Logic,
         \A i \in a..k : ts[i].text # <<"NOT">>,
         \A i \in k + 1..b : ts[i].text \in Logic => \E n \in a..i : ts[n].text = <<"NOT">>
  PROVE  ReadingPart(ts, a, b) =
           ReadingPart(ts, a, k - 1) \o ReadingPart(ts, k + 1, b) \o <<Node("infix", ts[k].text, 2)>>
<1> DEFINE u == PartOf(ts, a, b)
           l == k + 1 - a
<1>1. /\ u \in Seq(Token) /\ Len(u) = b + 1 - a /\ DOMAIN u = 1..b + 1 - a
      /\ \A i \in 1..b + 1 - a : u[i] = ts[a + i - 1]
      /\ \A i \in a..b : i + 1 - a \in 1..b + 1 - a /\ u[i + 1 - a] = ts[i]
      /\ ReadingPart(ts, a, b) = ReadingOf(Reading, u)
  <2>1. a <= b + 1 /\ b <= Len(ts)
    OBVIOUS
  <2> QED BY ONLY ts \in Seq(Token), a \in Nat, b \in Nat, a >= 1, <2>1, PartOfIs
<1>2. SubSeq(u, 1, l - 1) = PartOf(ts, a, k - 1)
  <2>1. 1 \in Nat /\ l - 1 \in Nat /\ 1 <= (l - 1) + 1 /\ l - 1 <= b + 1 - a
    OBVIOUS
  <2>2. SubSeq(u, 1, l - 1) = SubSeq(ts, a + 1 - 1, a + (l - 1) - 1)
    <3> HIDE DEF l
    <3>1. 1 >= 1
      OBVIOUS
    <3> QED BY <2>1, <3>1, PartOfPart DEF PartOf
  <2>3. a + 1 - 1 = a /\ a + (l - 1) - 1 = k - 1
    OBVIOUS
  <2> QED BY <2>2, <2>3 DEF PartOf
<1>3. SubSeq(u, l + 1, Len(u)) = PartOf(ts, k + 1, b)
  <2>1. l + 1 \in Nat /\ l + 1 >= 1 /\ b + 1 - a \in Nat /\ l + 1 <= (b + 1 - a) + 1 /\ b + 1 - a <= b + 1 - a
    OBVIOUS
  <2>2. SubSeq(u, l + 1, b + 1 - a) = SubSeq(ts, a + (l + 1) - 1, a + (b + 1 - a) - 1)
    <3> DEFINE c == l + 1
               d == b + 1 - a
    <3>1. c \in Nat /\ d \in Nat /\ c >= 1 /\ c <= d + 1 /\ d <= b + 1 - a /\ a <= b + 1
      OBVIOUS
    <3> HIDE DEF c, d
    <3>2. SubSeq(SubSeq(ts, a, b), c, d) = SubSeq(ts, a + c - 1, a + d - 1)
      BY <3>1, PartOfPart
    <3> QED BY <3>2 DEF PartOf, c, d
  <2>3. a + (l + 1) - 1 = k + 1 /\ a + (b + 1 - a) - 1 = b
    OBVIOUS
  <2> QED BY <1>1, <2>2, <2>3 DEF PartOf
<1> HIDE DEF u
<1>4. l \in 1..b + 1 - a /\ u[l] = ts[k]
  BY <1>1
<1>5. l \in Clear(u)
  <2>1. l \in Places(u, Logic)
    BY <1>1, <1>4 DEF Places
  <2>2. ASSUME NEW n \in Places(u, {<<"NOT">>}) PROVE l < n
    <3>1. n \in 1..b + 1 - a /\ u[n] = ts[a + n - 1] /\ u[n].text = <<"NOT">>
      BY <1>1, <2>2 DEF Places
    <3>2. a + n - 1 \notin a..k
      BY <3>1
    <3> QED BY <3>1, <3>2
  <2> QED BY <2>1, <2>2 DEF Clear
<1>6. ASSUME NEW i \in Clear(u) PROVE i <= l
  <2>1. i \in 1..b + 1 - a /\ u[i] = ts[a + i - 1] /\ u[i].text \in Logic
    BY <1>1 DEF Clear, Places
  <2>2. SUFFICES ASSUME i > l PROVE FALSE
    BY <2>1
  <2>3. a + i - 1 \in k + 1..b
    BY <2>1, <2>2
  <2>4. PICK n \in a..a + i - 1 : ts[n].text = <<"NOT">>
    BY <2>1, <2>3
  <2>5. n + 1 - a \in 1..b + 1 - a /\ u[n + 1 - a] = ts[n] /\ ~(i < n + 1 - a)
    <3>1. n \in a..b
      BY <2>3, <2>4
    <3> QED BY <1>1, <2>1, <2>4, <3>1
  <2>6. n + 1 - a \in Places(u, {<<"NOT">>})
    BY <1>1, <2>4, <2>5 DEF Places
  <2> QED BY <2>5, <2>6 DEF Clear
<1>7. LastOf(Clear(u)) = l
  <2>1. Clear(u) \in SUBSET (1..b + 1 - a) /\ b + 1 - a \in Nat /\ Clear(u) # {}
    <3>1. Clear(u) \subseteq DOMAIN u
      BY DEF Clear, Places
    <3> QED BY <1>1, <1>5, <3>1
  <2>2. LastOf(Clear(u)) \in Clear(u) /\ \A j \in Clear(u) : j <= LastOf(Clear(u))
    <3> DEFINE n == b + 1 - a
    <3>1. Clear(u) \in SUBSET (1..n) /\ n \in Nat
      BY <2>1
    <3> HIDE DEF n
    <3> QED BY <2>1, <3>1, LastOfProperties
  <2>3. LastOf(Clear(u)) \in Nat /\ LastOf(Clear(u)) <= l /\ l <= LastOf(Clear(u)) /\ l \in Nat
    BY <1>4, <1>5, <1>6, <2>1, <2>2
  <2> QED BY <2>3
<1>8. ReadingOf(Reading, u) =
        Reading[SubSeq(u, 1, l - 1)] \o Reading[SubSeq(u, l + 1, Len(u))] \o <<Node("infix", u[l].text, 2)>>
  BY <1>5, <1>7 DEF ReadingOf
<1> QED BY <1>1, <1>2, <1>3, <1>4, <1>8 DEF ReadingPart

-----------------------------------------------------------------------------
(* A part of the tokens is read in its place as it is read alone *)

\* The tokens between the places o and j: what follows them is no operand, and
\* none of their operators is left without one.
Apart(ts, o, j) ==
  /\ o \in Nat /\ j \in o + 2..Len(ts) + 1
  /\ \A k \in DOMAIN ts : ts[k].text \notin {<<"(">>, <<")">>}
  /\ j <= Len(ts) => ts[j].text \in Logic
  /\ ts[j - 1].text \notin Arithmetic \union Comparison

Shifted(r, o) == [is |-> r.is, tree |-> r.tree, at |-> r.at + o]

LEMMA LogicIs ==
  Logic \intersect (Arithmetic \union Comparison \union
    {<<"IS">>, <<"NOT">>, <<"NULL">>, <<".">>, <<"(">>, <<")">>, <<"*">>}) = {}
<1>1. \A x, y : x # y => <<x>> # <<y>>
  OBVIOUS
<1>2. \A x, y, z : <<x>> # <<y, z>>
  OBVIOUS
<1> QED BY <1>1, <1>2 DEF Logic, Arithmetic, Comparison

LEMMA ApartIs ==
  ASSUME NEW ts \in Seq(Token), NEW o, NEW j, Apart(ts, o, j), NEW s, s = PartOf(ts, o + 1, j - 1)
  PROVE  /\ s \in Seq(Token) /\ Len(s) \in Nat /\ Len(s) >= 1 /\ Len(s) = j - 1 - o
         /\ o \in Nat /\ j \in Nat /\ Len(ts) \in Nat /\ j <= Len(ts) + 1
         /\ \A k \in 1..Len(s) : k + o \in 1..Len(ts) /\ s[k] = ts[k + o]
         /\ \A k \in 1..Len(s) : s[k].text \notin {<<"(">>, <<")">>}
         /\ s[Len(s)].text \notin Arithmetic \union Comparison
         /\ \A k \in Place(s) : k + o \in Place(ts)
<1>1. o \in Nat /\ j \in Nat /\ Len(ts) \in Nat /\ j >= o + 2 /\ j <= Len(ts) + 1 /\ DOMAIN ts = 1..Len(ts)
  BY LenProperties DEF Apart
<1> DEFINE a == o + 1
           b == j - 1
<1>2. a \in Nat /\ b \in Nat /\ a >= 1 /\ b <= Len(ts) /\ a <= b + 1 /\ b + 1 - a = j - 1 - o
  BY <1>1
<1> HIDE DEF a, b
<1>3. s = PartOf(ts, a, b)
  BY DEF a, b
<1>4. /\ s \in Seq(Token) /\ Len(s) = b + 1 - a
      /\ \A k \in 1..b + 1 - a : s[k] = ts[a + k - 1]
  <2>1. /\ PartOf(ts, a, b) \in Seq(Token) /\ Len(PartOf(ts, a, b)) = b + 1 - a
        /\ \A k \in 1..b + 1 - a : PartOf(ts, a, b)[k] = ts[a + k - 1]
    BY <1>2, PartOfIs
  <2> QED BY <1>3, <2>1, Zenon
<1>5. ASSUME NEW k \in 1..Len(s) PROVE k + o \in 1..Len(ts) /\ s[k] = ts[k + o]
  <2>1. k \in 1..b + 1 - a /\ b + 1 - a = j - 1 - o
    BY <1>2, <1>4
  <2>2. k \in Nat /\ k >= 1 /\ k <= j - 1 - o
    BY ONLY <1>1, <2>1
  <2>3. a + k - 1 = k + o /\ k + o \in 1..Len(ts)
    BY ONLY <1>1, <2>2 DEF a
  <2> QED BY <1>4, <2>1, <2>3
<1>6. Len(s) \in Nat /\ Len(s) >= 1 /\ Len(s) = j - 1 - o /\ Len(s) + o = j - 1
  <2>1. Len(s) = j - 1 - o
    BY <1>2, <1>4
  <2> HIDE DEF a, b
  <2> QED BY ONLY <1>1, <2>1
<1>7. s[Len(s)] = ts[j - 1]
  BY <1>5, <1>6
<1>8. \A k \in Place(s) : k + o \in Place(ts)
  BY <1>1, <1>6 DEF Place
<1> QED BY <1>1, <1>4, <1>5, <1>6, <1>7, <1>8 DEF Apart

\* A token that is looked for is found in the part when it is found in its place.
LEMMA IsSame ==
  ASSUME NEW ts \in Seq(Token), NEW o, NEW j, Apart(ts, o, j), NEW s, s = PartOf(ts, o + 1, j - 1),
         NEW k \in Place(s)
  PROVE  /\ \A t : t \notin Logic => (Is(s, k, t) <=> Is(ts, k + o, t))
         /\ \A set : set \intersect Logic = {} => (AtOneOf(s, k, set) <=> AtOneOf(ts, k + o, set))
<1>1. /\ Len(s) \in Nat /\ Len(s) = j - 1 - o /\ o \in Nat /\ j \in Nat /\ Len(ts) \in Nat /\ j <= Len(ts) + 1
      /\ \A i \in 1..Len(s) : i + o \in 1..Len(ts) /\ s[i] = ts[i + o]
  BY ApartIs
<1>2. CASE k <= Len(s)
  <2>1. k \in 1..Len(s) /\ k + o <= Len(ts) /\ s[k] = ts[k + o]
    BY <1>1, <1>2 DEF Place
  <2> QED BY <1>2, <2>1 DEF Is, AtOneOf
<1>3. CASE ~(k <= Len(s))
  <2>1. k = Len(s) + 1 /\ k + o = j
    BY <1>1, <1>3 DEF Place
  <2>2. j <= Len(ts) => ts[j].text \in Logic
    BY DEF Apart
  <2> QED BY <1>3, <2>1, <2>2 DEF Is, AtOneOf
<1> QED BY <1>2, <1>3

LEMMA ExpressionCalls ==
  ASSUME NEW ts \in Seq(Token), NEW k \in Place(ts)
  PROVE  /\ Expressions(ts)[<<"next", k, 0>>] = ParseNextExpression(ts, Expressions(ts), k)
         /\ Expressions(ts)[<<"more", k, 0>>] = MoreExpression(ts, Expressions(ts), k)
         /\ Expressions(ts)[<<"next", k, 0>>] \in Reads(ts, k, 0)
         /\ Expressions(ts)[<<"more", k, 0>>] \in Reads(ts, k, 1)
<1> DEFINE e == Expressions(ts)
<1>1. <<"next", k, 0>> \in Calls(ts) /\ <<"more", k, 0>> \in Calls(ts)
  BY DEF Calls
<1>2. e = [c \in Calls(ts) |-> Call(ts, e, c)] /\ \A c \in Calls(ts) : e[c] \in Results(ts)[c]
  BY ExpressionsDefined, ExpressionsRead
<1> HIDE DEF e
<1>3. e[<<"next", k, 0>>] = Call(ts, e, <<"next", k, 0>>) /\ e[<<"more", k, 0>>] = Call(ts, e, <<"more", k, 0>>)
  BY <1>1, <1>2, Zenon
<1>4. /\ Call(ts, e, <<"next", k, 0>>) = ParseNextExpression(ts, e, k)
      /\ Call(ts, e, <<"more", k, 0>>) = MoreExpression(ts, e, k)
  BY DEF Call
<1>5. Results(ts)[<<"next", k, 0>>] = Reads(ts, k, 0) /\ Results(ts)[<<"more", k, 0>>] = Reads(ts, k, 1)
  BY <1>1 DEF Results
<1> QED BY <1>1, <1>2, <1>3, <1>4, <1>5 DEF e

\* An operand.
LEMMA NextSame ==
  ASSUME NEW ts \in Seq(Token), NEW o, NEW j, Apart(ts, o, j), NEW s, s = PartOf(ts, o + 1, j - 1),
         NEW k \in 1..Len(s), NEW p, NEW q, ParseNextExpression(s, p, k).is # "died"
  PROVE  ParseNextExpression(ts, q, k + o) = Shifted(ParseNextExpression(s, p, k), o)
<1>1. /\ s \in Seq(Token) /\ Len(s) \in Nat /\ Len(s) = j - 1 - o /\ o \in Nat /\ j \in Nat /\ Len(ts) \in Nat /\ j <= Len(ts) + 1
      /\ \A i \in 1..Len(s) : i + o \in 1..Len(ts) /\ s[i] = ts[i + o]
      /\ s[k].text \notin {<<"(">>, <<")">>}
  BY ApartIs
<1>2. k \in Place(s) /\ k + 1 \in Place(s) /\ k + o \in 1..Len(ts) /\ s[k] = ts[k + o] /\ (k + 1) + o = (k + o) + 1
      /\ ~(k > Len(s)) /\ ~(k + o > Len(ts)) /\ k \in Nat
  <2>1. k \in Nat /\ k >= 1 /\ k <= Len(s) /\ k + o \in 1..Len(ts) /\ s[k] = ts[k + o]
    BY <1>1
  <2>2. k \in 1..Len(s) + 1 /\ k + 1 \in 1..Len(s) + 1 /\ (k + 1) + o = (k + o) + 1
        /\ ~(k > Len(s)) /\ ~(k + o > Len(ts))
    BY ONLY <1>1, <2>1
  <2> QED BY <2>1, <2>2 DEF Place
<1> DEFINE here == ts[k + o]
           i == k + o
<1>3. \A t \in {<<"NULL">>, <<"*">>, <<"(">>, <<".">>} : t \notin Logic
  BY LogicIs
<1>4. \A t \in {<<"NULL">>, <<"*">>, <<"(">>} : Is(s, k, t) <=> Is(ts, i, t)
  BY <1>2, <1>3, IsSame
<1>5. Is(s, k + 1, <<".">>) <=> Is(ts, i + 1, <<".">>)
  BY <1>2, <1>3, IsSame
<1>6. ~Is(s, k, <<"(">>) /\ ~Is(s, k + 1, <<"(">>) /\ ~Is(ts, i + 1, <<"(">>) /\ ~Is(ts, i, <<"(">>)
  <2>1. \A l \in 1..Len(ts) : ts[l].text # <<"(">>
    BY LenProperties DEF Apart
  <2>2. \A l \in 1..Len(s) : s[l].text # <<"(">>
    BY <1>1, <2>1
  <2>3. i \in Nat /\ i >= 1 /\ i + 1 \in Nat /\ i + 1 >= 1 /\ k >= 1 /\ k + 1 \in Nat /\ k + 1 >= 1
    BY <1>1, <1>2
  <2> HIDE DEF i
  <2>4. \A l \in Nat : l >= 1 => ~Is(ts, l, <<"(">>) /\ ~Is(s, l, <<"(">>)
    <3>1. SUFFICES ASSUME NEW l \in Nat, l >= 1 PROVE ~Is(ts, l, <<"(">>) /\ ~Is(s, l, <<"(">>)
      OBVIOUS
    <3>2. (l <= Len(ts) => l \in 1..Len(ts)) /\ (l <= Len(s) => l \in 1..Len(s))
      BY <1>1, <3>1
    <3> QED BY <2>1, <2>2, <3>2, Zenon DEF Is
  <2> QED BY <1>2, <2>3, <2>4
<1> DEFINE P == ParseNextExpression(s, p, k)
           Q == ParseNextExpression(ts, q, i)
<1>7. P = IF Is(ts, i, <<"NULL">>) THEN Leaf("null", <<>>, k + 1)
          ELSE IF Is(ts, i, <<"*">>) THEN Leaf("all", <<>>, k + 1)
          ELSE IF Is(ts, i + 1, <<".">>) THEN
            IF k + 2 > Len(s) THEN Died(k)
            ELSE Leaf("join", here.text \o <<".">> \o s[k + 2].text, k + 3)
          ELSE IF here.kind = "number" THEN
            IF IsDouble(here.text) THEN Leaf("number", Canonical(here.text), k + 1) ELSE Died(k + 1)
          ELSE IF here.kind \in {"'", "\""} THEN Leaf("string", here.text, k + 1)
          ELSE IF IsIdentifier(here.text) \/ here.kind = "backtick" THEN Leaf("field", here.text, k + 1)
          ELSE None(k)
  <2> HIDE DEF i
  <2> QED BY <1>2, <1>4, <1>5, <1>6 DEF ParseNextExpression
<1>8. Q = IF Is(ts, i, <<"NULL">>) THEN Leaf("null", <<>>, i + 1)
          ELSE IF Is(ts, i, <<"*">>) THEN Leaf("all", <<>>, i + 1)
          ELSE IF Is(ts, i + 1, <<".">>) THEN
            IF i + 2 > Len(ts) THEN Died(i)
            ELSE Leaf("join", here.text \o <<".">> \o ts[i + 2].text, i + 3)
          ELSE IF here.kind = "number" THEN
            IF IsDouble(here.text) THEN Leaf("number", Canonical(here.text), i + 1) ELSE Died(i + 1)
          ELSE IF here.kind \in {"'", "\""} THEN Leaf("string", here.text, i + 1)
          ELSE IF IsIdentifier(here.text) \/ here.kind = "backtick" THEN Leaf("field", here.text, i + 1)
          ELSE None(i)
  BY <1>2, <1>6 DEF ParseNextExpression
<1>9. \A op, name : Leaf(op, name, i + 1) = Shifted(Leaf(op, name, k + 1), o)
                    /\ Leaf(op, name, i + 3) = Shifted(Leaf(op, name, k + 3), o)
  <2>1. i + 1 = (k + 1) + o /\ i + 3 = (k + 3) + o
    BY <1>1, <1>2
  <2> HIDE DEF i
  <2> QED BY <2>1 DEF Leaf, Found, Shifted
<1>10. None(i) = Shifted(None(k), o)
  BY DEF None, Shifted
<1>11. ~(k + 2 > Len(s)) => ~(i + 2 > Len(ts)) /\ s[k + 2] = ts[i + 2]
  <2>1. SUFFICES ASSUME ~(k + 2 > Len(s)) PROVE ~(i + 2 > Len(ts)) /\ s[k + 2] = ts[i + 2]
    OBVIOUS
  <2>2. k + 2 \in 1..Len(s) /\ (k + 2) + o = i + 2
    BY <1>1, <1>2, <2>1
  <2>3. i + 2 \in 1..Len(ts) /\ s[k + 2] = ts[i + 2]
    BY <1>1, <2>2
  <2> QED BY <1>1, <2>3
<1>12. Died(k).is = "died" /\ Died(k + 1).is = "died"
  BY DEF Died
<1> HIDE DEF i, here
<1>13. P.is # "died"
  OBVIOUS
<1> HIDE DEF P, Q
<1>14. Q = Shifted(P, o)
  BY <1>7, <1>8, <1>9, <1>10, <1>11, <1>12, <1>13
<1> QED BY <1>14 DEF P, Q, i

LEMMA ShiftedIs ==
  ASSUME NEW r, NEW o
  PROVE  Shifted(r, o).is = r.is /\ Shifted(r, o).tree = r.tree /\ Shifted(r, o).at = r.at + o
BY DEF Shifted

LEMMA ThenShifted ==
  ASSUME NEW r, r.is = "found", NEW m, NEW o,
         m.is # "found" => m = [is |-> m.is, tree |-> m.tree, at |-> m.at]
  PROVE  Then(Shifted(r, o), Shifted(m, o)) = Shifted(Then(r, m), o)
<1>1. CASE m.is = "found"
  BY <1>1 DEF Then, Shifted, Found
<1>2. CASE m.is # "found"
  BY <1>2 DEF Then, Shifted
<1> QED BY <1>1, <1>2

LEMMA UnderShifted ==
  ASSUME NEW r, r.is = "found", NEW node, NEW o
  PROVE  Under(node, Shifted(r, o)) = Shifted(Under(node, r), o) /\ Under(node, r).is = "found"
         /\ Under(node, r).at = r.at
BY DEF Under, Shifted, Found

\* What follows an operand, by induction from the end of the part.
LEMMA MoreSame ==
  ASSUME NEW ts \in Seq(Token), NEW o, NEW j, Apart(ts, o, j), NEW s, s = PartOf(ts, o + 1, j - 1)
  PROVE  \A k \in Place(s) :
           Expressions(s)[<<"more", k, 0>>].is # "died" =>
             Expressions(ts)[<<"more", k + o, 0>>] = Shifted(Expressions(s)[<<"more", k, 0>>], o)
<1> DEFINE p == Expressions(s)
           q == Expressions(ts)
           Same(k) == p[<<"more", k, 0>>].is # "died" => q[<<"more", k + o, 0>>] = Shifted(p[<<"more", k, 0>>], o)
           N == {n \in Nat : \A k \in Place(s) : Len(s) + 1 - k < n => Same(k)}
<1>1. /\ s \in Seq(Token) /\ Len(s) \in Nat /\ Len(s) >= 1 /\ o \in Nat
      /\ \A k \in 1..Len(s) : k + o \in 1..Len(ts) /\ s[k] = ts[k + o]
      /\ s[Len(s)].text \notin Arithmetic \union Comparison
      /\ \A k \in Place(s) : k + o \in Place(ts)
  BY ApartIs
<1>2. \A k \in Place(s) :
        /\ p[<<"next", k, 0>>] = ParseNextExpression(s, p, k) /\ p[<<"next", k, 0>>] \in Reads(s, k, 0)
        /\ p[<<"more", k, 0>>] = MoreExpression(s, p, k) /\ p[<<"more", k, 0>>] \in Reads(s, k, 1)
  BY <1>1, ExpressionCalls
<1>3. \A k \in Place(ts) :
        q[<<"next", k, 0>>] = ParseNextExpression(ts, q, k) /\ q[<<"more", k, 0>>] = MoreExpression(ts, q, k)
  BY ExpressionCalls
<1>4. ASSUME NEW k \in 1..Len(s), p[<<"next", k, 0>>].is # "died"
      PROVE  q[<<"next", k + o, 0>>] = Shifted(p[<<"next", k, 0>>], o)
  <2>1. k \in Place(s) /\ k + o \in Place(ts)
    BY <1>1 DEF Place
  <2>2. ParseNextExpression(s, p, k).is # "died"
    BY <1>2, <1>4, <2>1
  <2> HIDE DEF p, q
  <2>3. ParseNextExpression(ts, q, k + o) = Shifted(ParseNextExpression(s, p, k), o)
    BY <2>2, NextSame
  <2> QED BY <1>2, <1>3, <2>1, <2>3
<1> HIDE DEF p, q
<1>5. 0 \in N
  BY <1>1, PlaceIs
<1>6. ASSUME NEW n \in Nat, n \in N PROVE n + 1 \in N
  <2>1. SUFFICES ASSUME NEW k \in Place(s), Len(s) + 1 - k < n + 1 PROVE Same(k)
    OBVIOUS
  <2>2. k \in Nat /\ k >= 1 /\ k <= Len(s) + 1 /\ k + o \in Place(ts)
    BY <1>1, <2>1, PlaceIs
  <2>3. AtOneOf(s, k, Arithmetic) <=> AtOneOf(ts, k + o, Arithmetic)
    <3>1. Arithmetic \intersect Logic = {}
      BY LogicIs
    <3> QED BY <3>1, IsSame
  <2>4. CASE ~AtOneOf(s, k, Arithmetic)
    <3>1. p[<<"more", k, 0>>] = Found(<<>>, k) /\ q[<<"more", k + o, 0>>] = Found(<<>>, k + o)
      BY <1>2, <1>3, <2>2, <2>3, <2>4 DEF MoreExpression
    <3> QED BY <3>1 DEF Found, Shifted
  <2>5. CASE AtOneOf(s, k, Arithmetic)
    <3>1. k \in 1..Len(s) /\ k # Len(s)
      BY <1>1, <2>2, <2>5 DEF AtOneOf
    <3>2. k + 1 \in 1..Len(s) /\ k + 1 \in Place(s) /\ (k + 1) + o = (k + o) + 1 /\ s[k] = ts[k + o] /\ k + 1 \in Nat
      BY <1>1, <3>1 DEF Place
    <3> DEFINE b == p[<<"next", k + 1, 0>>]
               c == q[<<"next", (k + o) + 1, 0>>]
               node == Node("infix", s[k].text, 2)
               more == p[<<"more", b.at, 0>>]
    <3>3. p[<<"more", k, 0>>] = CASE b.is = "found" -> Then(Under(node, b), more)
                                  [] b.is = "died" -> b
                                  [] b.is = "none" -> Found(<<>>, b.at)
      BY <1>2, <2>5, Zenon DEF MoreExpression, Operand
    <3>4. q[<<"more", k + o, 0>>] =
            CASE c.is = "found" -> Then(Under(node, c), q[<<"more", c.at, 0>>])
              [] c.is = "died" -> c
              [] c.is = "none" -> Found(<<>>, c.at)
      BY <1>3, <2>2, <2>3, <2>5, <3>2, Zenon DEF MoreExpression, Operand
    <3>5. b \in Reads(s, k + 1, 0) /\ b.is \in {"found", "none", "died"} /\ b.at \in Nat
      <4>1. b \in Reads(s, k + 1, 0)
        BY <1>2, <3>2
      <4> HIDE DEF b
      <4> QED BY <1>1, <3>2, <4>1, ReadsType
    <3>6. b.is # "died" => c = Shifted(b, o)
      BY <1>4, <3>2
    <3> HIDE DEF b, c, node
    <3>7. CASE b.is = "found"
      <4>1. b.at \in Place(s) /\ b.at >= k + 1
        <5>1. b.at \in k + 1..Len(s) + 1
          BY <1>1, <3>2, <3>5, <3>7, ReadsType
        <5> QED BY <2>2, <5>1 DEF Place
      <4>2. more \in Reads(s, b.at, 1) /\ more = [is |-> more.is, tree |-> more.tree, at |-> more.at]
        <5>1. more \in Reads(s, b.at, 1)
          BY <1>2, <4>1
        <5> HIDE DEF more
        <5> QED BY <1>1, <3>5, <5>1, ReadsType
      <4>3. Same(b.at)
        <5>1. Len(s) + 1 - b.at < n
          BY <1>1, <2>1, <2>2, <3>5, <4>1
        <5> QED BY <1>6, <4>1, <5>1
      <4>4. c.is = "found" /\ c.at = b.at + o /\ c = Shifted(b, o)
        BY <3>6, <3>7 DEF Shifted
      <4>5. SUFFICES ASSUME p[<<"more", k, 0>>].is # "died"
                     PROVE  q[<<"more", k + o, 0>>] = Shifted(p[<<"more", k, 0>>], o)
        OBVIOUS
      <4>6. p[<<"more", k, 0>>] = Then(Under(node, b), more)
        BY <3>3, <3>7
      <4>7. q[<<"more", k + o, 0>>] = Then(Under(node, c), q[<<"more", b.at + o, 0>>])
        BY <3>4, <4>4
      <4>8. more.is # "died"
        BY <4>5, <4>6 DEF Then
      <4>9. q[<<"more", b.at + o, 0>>] = Shifted(more, o)
        BY <4>3, <4>8
      <4> HIDE DEF more
      <4>10. Under(node, c) = Shifted(Under(node, b), o) /\ Under(node, b).is = "found"
        BY <3>7, <4>4, UnderShifted
      <4>11. Then(Shifted(Under(node, b), o), Shifted(more, o)) = Shifted(Then(Under(node, b), more), o)
        BY <4>2, <4>10, ThenShifted
      <4> QED BY <4>6, <4>7, <4>9, <4>10, <4>11
    <3>8. CASE b.is = "died"
      BY <3>3, <3>8
    <3>9. CASE b.is = "none"
      <4>1. p[<<"more", k, 0>>] = Found(<<>>, b.at)
        BY <3>3, <3>9
      <4>2. c.is = "none" /\ c.at = b.at + o
        BY <3>6, <3>9 DEF Shifted
      <4>3. q[<<"more", k + o, 0>>] = Found(<<>>, b.at + o)
        BY <3>4, <4>2
      <4> QED BY <4>1, <4>3 DEF Found, Shifted
    <3> QED BY <3>5, <3>7, <3>8, <3>9
  <2> QED BY <2>4, <2>5
<1>7. ASSUME NEW k \in Place(s) PROVE Same(k)
  <2>1. \A n \in Nat : n \in N
    <3> HIDE DEF N
    <3> QED BY <1>5, <1>6, AllNat
  <2>2. Len(s) + 2 \in N /\ Len(s) + 1 - k < Len(s) + 2
    BY <1>1, <2>1, PlaceIs
  <2> QED BY <2>2
<1> QED BY <1>7 DEF p, q

\* An expression.
LEMMA ExpressionSame ==
  ASSUME NEW ts \in Seq(Token), NEW o, NEW j, Apart(ts, o, j), NEW s, s = PartOf(ts, o + 1, j - 1),
         NEW k \in 1..Len(s), ParseExpression(s, k).is # "died"
  PROVE  ParseExpression(ts, k + o) = Shifted(ParseExpression(s, k), o)
<1> DEFINE p == Expressions(s)
           q == Expressions(ts)
           first == p[<<"next", k, 0>>]
           more == p[<<"more", first.at, 0>>]
<1>1. s \in Seq(Token) /\ Len(s) \in Nat /\ o \in Nat /\ \A i \in Place(s) : i + o \in Place(ts)
  BY ApartIs
<1>2. k \in Place(s) /\ k + o \in Place(ts) /\ k \in Nat
  BY <1>1 DEF Place
<1>3. first = ParseNextExpression(s, p, k) /\ first \in Reads(s, k, 0)
      /\ q[<<"next", k + o, 0>>] = ParseNextExpression(ts, q, k + o)
  BY <1>1, <1>2, ExpressionCalls
<1>4. first.is # "died" => q[<<"next", k + o, 0>>] = Shifted(first, o)
  <2> HIDE DEF p, q, first
  <2> QED BY <1>3, NextSame
<1>5. ParseExpression(s, k) = (IF first.is = "found" THEN Then(first, more) ELSE first)
  BY DEF ParseExpression, Chain
<1>6. ParseExpression(ts, k + o) =
        LET f == q[<<"next", k + o, 0>>] IN IF f.is = "found" THEN Then(f, q[<<"more", f.at, 0>>]) ELSE f
  BY DEF ParseExpression, Chain
<1>7. CASE first.is = "found"
  <2>1. first.at \in Place(s)
    <3>1. first.at \in k..Len(s) + 1
      <4> HIDE DEF first
      <4> QED BY <1>1, <1>2, <1>3, <1>7, ReadsType
    <3> QED BY <1>1, <1>2, <3>1 DEF Place
  <2>2. more.is # "died" => q[<<"more", first.at + o, 0>>] = Shifted(more, o)
    BY <2>1, MoreSame
  <2>3. more \in Reads(s, first.at, 1)
    BY <1>1, <2>1, ExpressionCalls
  <2> HIDE DEF first, more, p, q
  <2>4. more = [is |-> more.is, tree |-> more.tree, at |-> more.at]
    <3>1. first.at \in Nat
      BY <1>1, <2>1, PlaceIs
    <3> QED BY <1>1, <2>3, <3>1, ReadsType
  <2>5. more.is # "died"
    BY <1>5, <1>7 DEF Then
  <2>6. q[<<"next", k + o, 0>>] = Shifted(first, o) /\ Shifted(first, o).is = "found" /\ Shifted(first, o).at = first.at + o
    BY <1>4, <1>7 DEF Shifted
  <2>7. ParseExpression(ts, k + o) = Then(Shifted(first, o), q[<<"more", first.at + o, 0>>])
    BY <1>6, <2>6
  <2> QED BY <1>5, <1>7, <2>2, <2>4, <2>5, <2>7, ThenShifted
<1>8. CASE first.is # "found"
  <2> HIDE DEF first, more, p, q
  <2>1. first.is # "died"
    BY <1>5, <1>8
  <2>2. q[<<"next", k + o, 0>>] = Shifted(first, o) /\ Shifted(first, o).is # "found"
    BY <1>4, <1>8, <2>1 DEF Shifted
  <2> QED BY <1>5, <1>6, <1>8, <2>2
<1> QED BY <1>7, <1>8

IsRecord(c) == c = [is |-> c.is, tree |-> c.tree, at |-> c.at]
SameBehind(p, q, c, o) ==
  p[<<FALSE, c.at>>].is # "died" => q[<<FALSE, c.at + o>>] = Shifted(p[<<FALSE, c.at>>], o)

\* The comparison that is returned, when nothing that follows it throws.
LEMMA FinalSame ==
  ASSUME NEW p, NEW q, NEW o, NEW c, c.is = "found", IsRecord(c), SameBehind(p, q, c, o),
         Final(p, c).is # "died"
  PROVE  Final(q, Shifted(c, o)) = Shifted(Final(p, c), o)
<1> DEFINE later == p[<<FALSE, c.at>>]
           after == q[<<FALSE, c.at + o>>]
           d == Shifted(c, o)
<1>1. d.at = c.at + o /\ d = [is |-> c.is, tree |-> c.tree, at |-> c.at + o]
  BY DEF Shifted
<1>2. Final(p, c) = (IF later.is = "none" THEN [c EXCEPT !.at = later.at] ELSE later)
      /\ Final(q, d) = (IF q[<<FALSE, d.at>>].is = "none" THEN [d EXCEPT !.at = q[<<FALSE, d.at>>].at] ELSE q[<<FALSE, d.at>>])
  BY Zenon DEF Final
<1>3. q[<<FALSE, d.at>>] = after
  BY <1>1
<1>4. later.is # "died" => after = Shifted(later, o)
  BY DEF SameBehind
<1>5. c = [is |-> c.is, tree |-> c.tree, at |-> c.at]
  BY DEF IsRecord
<1> HIDE DEF later, after, d
<1>6. later.is # "died"
  BY <1>2
<1>7. after.is = later.is /\ after.at = later.at + o /\ after = Shifted(later, o)
  BY <1>4, <1>6 DEF Shifted
<1>8. CASE later.is = "none"
  <2>1. Final(p, c) = [c EXCEPT !.at = later.at] /\ Final(q, d) = [d EXCEPT !.at = after.at]
    BY <1>2, <1>3, <1>7, <1>8
  <2>2. [c EXCEPT !.at = later.at] = [is |-> c.is, tree |-> c.tree, at |-> later.at]
    BY <1>5
  <2>3. [d EXCEPT !.at = after.at] = [is |-> c.is, tree |-> c.tree, at |-> later.at + o]
    BY <1>1, <1>7
  <2> QED BY <2>1, <2>2, <2>3 DEF Shifted, d
<1>9. CASE later.is # "none"
  BY <1>2, <1>3, <1>7, <1>9 DEF d
<1> QED BY <1>8, <1>9

LEMMA ComparisonsSame ==
  ASSUME NEW ts \in Seq(Token), NEW o, NEW j, Apart(ts, o, j), NEW s, s = PartOf(ts, o + 1, j - 1)
  PROVE  \A k \in Place(s), fresh \in BOOLEAN :
           Comparisons(s)[<<fresh, k>>].is # "died" =>
             Comparisons(ts)[<<fresh, k + o>>] = Shifted(Comparisons(s)[<<fresh, k>>], o)
<1> DEFINE p == Comparisons(s)
           q == Comparisons(ts)
           Same(k, fresh) == p[<<fresh, k>>].is # "died" => q[<<fresh, k + o>>] = Shifted(p[<<fresh, k>>], o)
           N == {n \in Nat : \A k \in Place(s), fresh \in BOOLEAN : Len(s) + 1 - k < n => Same(k, fresh)}
<1>1. /\ s \in Seq(Token) /\ Len(s) \in Nat /\ Len(s) >= 1 /\ o \in Nat
      /\ \A k \in 1..Len(s) : k + o \in 1..Len(ts) /\ s[k] = ts[k + o]
      /\ s[Len(s)].text \notin Arithmetic \union Comparison
      /\ \A k \in Place(s) : k + o \in Place(ts)
  BY ApartIs
<1>2. \A k \in Place(s), fresh \in BOOLEAN :
        p[<<fresh, k>>] = MoreComparison(s, p, fresh, k) /\ p[<<fresh, k>>] \in Reads(s, k, 1)
  BY <1>1, ComparisonsRead
<1>3. \A k \in Place(ts), fresh \in BOOLEAN : q[<<fresh, k>>] = MoreComparison(ts, q, fresh, k)
  BY ComparisonsRead
<1> HIDE DEF p, q
<1>4. /\ \A t \in {<<"IS">>, <<"NOT">>, <<"NULL">>} : t \notin Logic
      /\ Comparison \intersect Logic = {}
  BY LogicIs
<1>5. 0 \in N
  BY <1>1, PlaceIs
<1>6. ASSUME NEW n \in Nat, n \in N PROVE n + 1 \in N
  <2>1. SUFFICES ASSUME NEW k \in Place(s), NEW fresh \in BOOLEAN, Len(s) + 1 - k < n + 1,
                        p[<<fresh, k>>].is # "died"
                 PROVE  q[<<fresh, k + o>>] = Shifted(p[<<fresh, k>>], o)
    OBVIOUS
  <2>2. k \in Nat /\ k >= 1 /\ k <= Len(s) + 1 /\ k + o \in Place(ts)
    BY <1>1, <2>1, PlaceIs
  <2>3. (Is(s, k, <<"IS">>) <=> Is(ts, k + o, <<"IS">>))
        /\ (AtOneOf(s, k, Comparison) <=> AtOneOf(ts, k + o, Comparison))
    BY <1>4, IsSame
  <2>4. p[<<fresh, k>>] = MoreComparison(s, p, fresh, k)
        /\ q[<<fresh, k + o>>] = MoreComparison(ts, q, fresh, k + o)
    BY <1>2, <1>3, <2>2
  <2>5. ASSUME NEW c, c.is = "found", IsRecord(c),
               c.at \in Place(s), c.at > k, Final(p, c).is # "died"
        PROVE  Final(q, Shifted(c, o)) = Shifted(Final(p, c), o)
    <3>1. Len(s) + 1 - c.at < n
      <4>1. c.at \in Nat
        BY <1>1, <2>5, PlaceIs
      <4> QED BY <1>1, <2>1, <2>2, <2>5, <4>1
    <3>2. Same(c.at, FALSE)
      BY <1>6, <2>5, <3>1
    <3>3. SameBehind(p, q, c, o)
      BY <3>2, Zenon DEF SameBehind
    <3> QED BY <2>5, <3>3, FinalSame
  <2>6. CASE Is(s, k, <<"IS">>)
    <3> DEFINE l == IF Is(s, k + 1, <<"NOT">>) THEN k + 2 ELSE k + 1
               m == IF Is(ts, (k + o) + 1, <<"NOT">>) THEN (k + o) + 2 ELSE (k + o) + 1
               isNull == <<Node("isnull", <<>>, 1)>>
               tree == IF l = k + 2 THEN Append(isNull, Node("not", <<>>, 1)) ELSE isNull
               c == Found(tree, l + 1)
    <3>1. k \in 1..Len(s) /\ k + 1 \in Place(s) /\ (k + 1) + o = (k + o) + 1
      BY <1>1, <2>2, <2>6 DEF Is, Place
    <3>2. Is(s, k + 1, <<"NOT">>) <=> Is(ts, (k + o) + 1, <<"NOT">>)
      BY <1>4, <3>1, IsSame
    <3>3. Is(s, k + 1, <<"NOT">>) => k + 2 \in Place(s)
      BY <1>1, <2>2 DEF Is, Place
    <3>4. l \in Place(s) /\ m = l + o /\ l > k /\ l \in Nat
      BY <1>1, <2>2, <3>1, <3>2, <3>3
    <3>5. Is(s, l, <<"NULL">>) <=> Is(ts, m, <<"NULL">>)
      <4> HIDE DEF l, m
      <4> QED BY <1>4, <3>4, IsSame
    <3>6. MoreComparison(s, p, fresh, k) =
            (IF ~fresh \/ ~Is(s, l, <<"NULL">>) THEN Died(l) ELSE Final(p, c))
      BY <2>6, Zenon DEF MoreComparison, Final
    <3>7. MoreComparison(ts, q, fresh, k + o) =
            (IF ~fresh \/ ~Is(ts, m, <<"NULL">>) THEN Died(m)
             ELSE Final(q, Found(IF m = (k + o) + 2 THEN Append(isNull, Node("not", <<>>, 1)) ELSE isNull, m + 1)))
      BY <2>3, <2>6, Zenon DEF MoreComparison, Final
    <3>8. (m = (k + o) + 2) <=> (l = k + 2)
      BY <1>1, <2>2, <3>4
    <3>9. m + 1 = (l + 1) + o
      BY <1>1, <3>4
    <3> HIDE DEF l, m, isNull
    <3>10. Found(IF m = (k + o) + 2 THEN Append(isNull, Node("not", <<>>, 1)) ELSE isNull, m + 1) = Shifted(c, o)
      BY <3>8, <3>9 DEF Found, Shifted
    <3>11. Died(l).is = "died"
      BY DEF Died
    <3>12. ~(~fresh \/ ~Is(s, l, <<"NULL">>))
      BY <2>1, <2>4, <3>6, <3>11
    <3>13. MoreComparison(s, p, fresh, k) = Final(p, c) /\ MoreComparison(ts, q, fresh, k + o) = Final(q, Shifted(c, o))
      BY <3>5, <3>6, <3>7, <3>10, <3>12
    <3>14. c.is = "found" /\ c.at = l + 1 /\ IsRecord(c)
      BY DEF Found, IsRecord
    <3>15. l + 1 \in Place(s) /\ l + 1 > k
      BY <1>1, <2>2, <3>4, <3>12 DEF Is, Place
    <3> HIDE DEF c
    <3> QED BY <2>1, <2>4, <2>5, <3>13, <3>14, <3>15
  <2>7. CASE ~Is(s, k, <<"IS">>) /\ ~AtOneOf(s, k, Comparison)
    <3>1. MoreComparison(s, p, fresh, k) = None(k) /\ MoreComparison(ts, q, fresh, k + o) = None(k + o)
      BY <2>3, <2>7 DEF MoreComparison
    <3> QED BY <2>4, <3>1 DEF None, Shifted
  <2>8. CASE ~Is(s, k, <<"IS">>) /\ AtOneOf(s, k, Comparison)
    <3> DEFINE b == ParseExpression(s, k + 1)
               d == ParseExpression(ts, (k + o) + 1)
               op == IF s[k].text = <<"!", "=">> THEN <<"<", ">">> ELSE s[k].text
               node == Node("infix", op, 2)
               c == Under(node, b)
    <3>1. k \in 1..Len(s) /\ k # Len(s)
      BY <1>1, <2>2, <2>8 DEF AtOneOf
    <3>2. k + 1 \in 1..Len(s) /\ k + 1 \in Place(s) /\ (k + 1) + o = (k + o) + 1 /\ s[k] = ts[k + o] /\ k + 1 \in Nat
      BY <1>1, <3>1 DEF Place
    <3>3. b.is # "died" => d = Shifted(b, o)
      <4>1. b.is # "died" => ParseExpression(ts, (k + 1) + o) = Shifted(b, o)
        BY <3>2, ExpressionSame
      <4> QED BY <3>2, <4>1
    <3>4. MoreComparison(s, p, fresh, k) = (IF b.is = "found" THEN Final(p, c) ELSE b)
      BY <2>8, Zenon DEF MoreComparison, Final
    <3>5. MoreComparison(ts, q, fresh, k + o) = (IF d.is = "found" THEN Final(q, Under(node, d)) ELSE d)
      BY <2>3, <2>8, <3>2, Zenon DEF MoreComparison, Final
    <3>6. b \in Reads(s, k + 1, 0)
      BY <1>1, <3>2, ParseExpressionReads
    <3> HIDE DEF b, d, node
    <3>7. CASE b.is = "found"
      <4>1. d = Shifted(b, o) /\ d.is = "found"
        BY <3>3, <3>7 DEF Shifted
      <4>2. c.is = "found" /\ c.at = b.at /\ IsRecord(c)
        BY <3>7 DEF Under, Found, IsRecord
      <4>3. Under(node, d) = Shifted(c, o)
        BY <3>7, <4>1, UnderShifted
      <4>4. b.at \in Place(s) /\ b.at > k
        <5>1. b.at \in k + 1..Len(s) + 1
          BY <1>1, <3>2, <3>6, <3>7, ReadsType
        <5> QED BY <1>1, <2>2, <5>1 DEF Place
      <4>5. MoreComparison(s, p, fresh, k) = Final(p, c) /\ MoreComparison(ts, q, fresh, k + o) = Final(q, Shifted(c, o))
        BY <3>4, <3>5, <3>7, <4>1, <4>3
      <4> HIDE DEF c
      <4> QED BY <2>1, <2>4, <2>5, <4>2, <4>4, <4>5
    <3>8. CASE b.is # "found"
      <4>1. b.is # "died"
        BY <2>1, <2>4, <3>4, <3>8
      <4>2. d = Shifted(b, o) /\ d.is # "found"
        BY <3>3, <3>8, <4>1 DEF Shifted
      <4> QED BY <2>4, <3>4, <3>5, <3>8, <4>2
    <3> QED BY <3>7, <3>8
  <2> QED BY <2>6, <2>7, <2>8
<1>7. ASSUME NEW k \in Place(s), NEW fresh \in BOOLEAN PROVE Same(k, fresh)
  <2>1. \A n \in Nat : n \in N
    <3> HIDE DEF N
    <3> QED BY <1>5, <1>6, AllNat
  <2>2. Len(s) + 2 \in N /\ Len(s) + 1 - k < Len(s) + 2
    <3> HIDE DEF N
    <3>1. k \in Nat /\ Len(s) + 2 \in Nat
      BY <1>1, PlaceIs
    <3> QED BY <1>1, <2>1, <3>1
  <2> QED BY <2>2
<1> QED BY <1>7 DEF p, q

\* A comparison that is found alone to the end of the part.
LEMMA ParseComparisonSame ==
  ASSUME NEW ts \in Seq(Token), NEW o, NEW j, Apart(ts, o, j), NEW s, s = PartOf(ts, o + 1, j - 1),
         ParseComparison(s, 1).is = "found"
  PROVE  ParseComparison(ts, o + 1) = Shifted(ParseComparison(s, 1), o)
<1> DEFINE e == ParseExpression(s, 1)
           f == ParseExpression(ts, o + 1)
           more == Comparisons(s)[<<TRUE, e.at>>]
<1>1. s \in Seq(Token) /\ Len(s) \in Nat /\ Len(s) >= 1 /\ o \in Nat
  BY ApartIs
<1>2. 1 \in 1..Len(s) /\ 1 \in Place(s) /\ 1 + o = o + 1 /\ 1 \in Nat
  BY <1>1 DEF Place
<1>3. ParseComparison(s, 1) = (IF e.is = "found" THEN Then(e, more) ELSE e)
      /\ ParseComparison(ts, o + 1) = (IF f.is = "found" THEN Then(f, Comparisons(ts)[<<TRUE, f.at>>]) ELSE f)
  BY Zenon DEF ParseComparison
<1>4. e.is # "died" => f = Shifted(e, o)
  <2>1. e.is # "died" => ParseExpression(ts, 1 + o) = Shifted(e, o)
    BY <1>2, ExpressionSame
  <2> QED BY <1>2, <2>1
<1>5. e \in Reads(s, 1, 0)
  BY <1>1, <1>2, ParseExpressionReads
<1> HIDE DEF e, f
<1>6. e.is = "found"
  BY <1>3
<1>7. e.at \in Place(s)
  <2>1. e.at \in 1..Len(s) + 1
    BY <1>1, <1>2, <1>5, <1>6, ReadsType
  <2> QED BY <2>1 DEF Place
<1>8. more \in Reads(s, e.at, 1)
  BY <1>1, <1>7, ComparisonsRead
<1>9. more.is # "died" => Comparisons(ts)[<<TRUE, e.at + o>>] = Shifted(more, o)
  <2>1. \A k \in Place(s), fresh \in BOOLEAN :
          Comparisons(s)[<<fresh, k>>].is # "died" =>
            Comparisons(ts)[<<fresh, k + o>>] = Shifted(Comparisons(s)[<<fresh, k>>], o)
    BY ComparisonsSame
  <2>2. TRUE \in BOOLEAN
    OBVIOUS
  <2> QED BY <1>7, <2>1, <2>2, Zenon
<1>10. f = Shifted(e, o) /\ f.is = "found" /\ f.at = e.at + o
  BY <1>4, <1>6 DEF Shifted
<1> HIDE DEF more
<1>11. more = [is |-> more.is, tree |-> more.tree, at |-> more.at]
  <2>1. e.at \in Nat
    BY <1>1, <1>7, PlaceIs
  <2> QED BY <1>1, <1>8, <2>1, ReadsType
<1>12. more.is # "died"
  BY <1>3, <1>6 DEF Then
<1> QED BY <1>3, <1>6, <1>9, <1>10, <1>11, <1>12, ThenShifted

-----------------------------------------------------------------------------
(* The parts of a well-formed condition *)

Ends(ts) == Places(ts, Connective) \union {0, Len(ts) + 1}
Follows(ts, i, j) == i \in Ends(ts) /\ j \in Ends(ts) /\ i < j /\ \A k \in Ends(ts) : ~(i < k /\ k < j)

LEMMA EndsAre ==
  ASSUME NEW ts \in Seq(Token)
  PROVE  /\ Len(ts) \in Nat /\ DOMAIN ts = 1..Len(ts) /\ 0 \in Ends(ts) /\ Len(ts) + 1 \in Ends(ts)
         /\ \A i \in Ends(ts) : i \in 0..Len(ts) + 1
         /\ \A i \in Ends(ts) : i # 0 /\ i <= Len(ts) => i \in 1..Len(ts) /\ ts[i].text \in Connective
         /\ \A i \in 1..Len(ts) : ts[i].text \in Connective => i \in Ends(ts)
<1>1. Len(ts) \in Nat /\ DOMAIN ts = 1..Len(ts)
  BY LenProperties
<1>2. \A i \in Ends(ts) : i = 0 \/ i = Len(ts) + 1 \/ (i \in 1..Len(ts) /\ ts[i].text \in Connective)
  BY <1>1 DEF Ends, Places
<1>3. \A i \in Ends(ts) : i \in 0..Len(ts) + 1
  BY <1>1, <1>2
<1>4. \A i \in Ends(ts) : i # 0 /\ i <= Len(ts) => i \in 1..Len(ts) /\ ts[i].text \in Connective
  BY <1>1, <1>2
<1>5. \A i \in 1..Len(ts) : ts[i].text \in Connective => i \in Ends(ts)
  BY <1>1 DEF Ends, Places
<1> QED BY <1>1, <1>3, <1>4, <1>5 DEF Ends

LEMMA NextEnd ==
  ASSUME NEW ts \in Seq(Token), NEW i \in Ends(ts), i <= Len(ts)
  PROVE  \E j \in i + 1..Len(ts) + 1 : Follows(ts, i, j)
<1> DEFINE S == {j \in Ends(ts) : i < j}
<1>1. Len(ts) \in Nat /\ i \in 0..Len(ts) + 1 /\ Len(ts) + 1 \in Ends(ts) /\ \A j \in Ends(ts) : j \in 0..Len(ts) + 1
  BY EndsAre
<1>2. S # {} /\ S \in SUBSET Nat
  <2>1. Len(ts) + 1 \in S
    BY <1>1
  <2>2. \A j \in S : j \in Nat
    BY <1>1
  <2> HIDE DEF S
  <2> QED BY <2>1, <2>2
<1>3. PICK j \in S : \A k \in S : j <= k
  <2> HIDE DEF S
  <2> QED BY <1>2, LeastNat
<1>4. j \in i + 1..Len(ts) + 1
  BY <1>1, <1>3
<1>5. \A k \in Ends(ts) : ~(i < k /\ k < j)
  BY <1>1, <1>3
<1> QED BY <1>3, <1>4, <1>5 DEF Follows

LEMMA NoComparison ==
  ASSUME NEW ts \in Seq(Token), Len(ts) = 0
  PROVE  ParseComparison(ts, 1).is # "found"
<1> DEFINE first == Expressions(ts)[<<"next", 1, 0>>]
<1>1. 1 \in Place(ts)
  BY DEF Place
<1>2. first = ParseNextExpression(ts, Expressions(ts), 1)
  BY <1>1, ExpressionCalls
<1>3. first = None(1)
  BY <1>2 DEF ParseNextExpression
<1>4. ParseExpression(ts, 1) = None(1)
  BY <1>3 DEF ParseExpression, Chain, None
<1> QED BY <1>4 DEF ParseComparison, None

\* A part is a comparison, that is read to its end, or there is none before NOT.
LEMMA PartsRead ==
  ASSUME NEW ts \in Seq(Token), Plain(ts), WellFormed(ts), NEW i, NEW j, Follows(ts, i, j)
  PROVE  \/ j \in 1..Len(ts) /\ ts[j].text = <<"NOT">> /\ j = i + 1
         \/ /\ j \in i + 2..Len(ts) + 1
            /\ j <= Len(ts) => ts[j].text \in Logic
            /\ \A k \in i + 1..j - 1 : ts[k].text \notin Connective
            /\ ParseComparison(ts, i + 1) = Found(ReadingPart(ts, i + 1, j - 1), j)
<1>1. Len(ts) \in Nat /\ i \in 0..Len(ts) + 1 /\ j \in 0..Len(ts) + 1 /\ i < j /\ DOMAIN ts = 1..Len(ts)
  BY EndsAre DEF Follows
<1> DEFINE s == PartOf(ts, i + 1, j - 1)
           c == ParseComparison(s, 1)
<1>2. \/ j <= Len(ts) /\ ts[j].text = <<"NOT">> /\ j = i + 1
      \/ /\ j > Len(ts) \/ ts[j].text \in Logic
         /\ c.is = "found" /\ c.at = j - i
         /\ ts[j - 1].text \notin Arithmetic \union Comparison
  BY DEF WellFormed, Follows, Ends, PartOf
<1>3. CASE j <= Len(ts) /\ ts[j].text = <<"NOT">> /\ j = i + 1
  BY <1>1, <1>3
<1>4. CASE /\ j > Len(ts) \/ ts[j].text \in Logic
           /\ c.is = "found" /\ c.at = j - i
           /\ ts[j - 1].text \notin Arithmetic \union Comparison
  <2>1. i + 1 \in Nat /\ j - 1 \in Nat /\ i + 1 >= 1 /\ j - 1 <= Len(ts) /\ i + 1 <= (j - 1) + 1
    BY <1>1
  <2>2. s \in Seq(Token) /\ Len(s) = (j - 1) + 1 - (i + 1)
    BY <2>1, PartOfIs
  <2>3. j \in i + 2..Len(ts) + 1
    <3>1. Len(s) # 0
      <4> HIDE DEF s
      <4> QED BY <1>4, <2>2, NoComparison
    <3> HIDE DEF s
    <3> QED BY <1>1, <2>2, <3>1
  <2>4. \A k \in DOMAIN ts : ts[k].text \notin {<<"(">>, <<")">>}
    BY DEF Plain
  <2>5. j <= Len(ts) => ts[j].text \in Logic
    BY <1>1, <1>4
  <2>6. Apart(ts, i, j)
    BY <1>1, <1>4, <2>3, <2>4, <2>5 DEF Apart
  <2>7. ParseComparison(ts, i + 1) = Shifted(c, i)
    <3>1. s = PartOf(ts, i + 1, j - 1)
      OBVIOUS
    <3> HIDE DEF s
    <3> QED BY <1>4, <2>6, <3>1, ParseComparisonSame
  <2>8. \A k \in i + 1..j - 1 : ts[k].text \notin Connective
    <3>1. SUFFICES ASSUME NEW k \in i + 1..j - 1, ts[k].text \in Connective PROVE FALSE
      OBVIOUS
    <3>2. k \in 1..Len(ts) /\ i < k /\ k < j
      BY <1>1
    <3> QED BY <3>1, <3>2, EndsAre DEF Follows
  <2>9. ReadingPart(ts, i + 1, j - 1) = c.tree
    BY <2>1, <2>8, ReadingComparison
  <2>10. c.at + i = j
    <3> HIDE DEF c
    <3> QED BY <1>1, <1>4
  <2> HIDE DEF c, s
  <2>11. Shifted(c, i) = Found(c.tree, j)
    BY <1>4, <2>10 DEF Shifted, Found
  <2> QED BY <2>3, <2>5, <2>7, <2>8, <2>9, <2>11
<1> QED BY <1>2, <1>3, <1>4

-----------------------------------------------------------------------------
(* A condition is what Reading says *)

\* The condition behind i, to the end of the text.
ReadBehind(ts, i) ==
  Chain(Conditions(ts), i + 1) = Found(ReadingPart(ts, i + 1, Len(ts)), Len(ts) + 1)

\* What follows the part from a to j, that is under no NOT.
ReadFrom(ts, a, j) ==
  LET more == Conditions(ts)[<<"more", j, 0>>] IN
  /\ more.is = "found" /\ more.at = Len(ts) + 1 /\ more.tree \in Seq(Nodes)
  /\ ReadingPart(ts, a + 1, j - 1) \o more.tree = ReadingPart(ts, a + 1, Len(ts))

\* The places from which a part may be read that ends at j.
Starts(ts, j) ==
  {a \in 0..j - 1 : (j <= Len(ts) => ts[j].text \in Logic) /\ \A k \in a + 1..j - 1 : ts[k].text # <<"NOT">>}

LEMMA ConditionCalls ==
  ASSUME NEW ts \in Seq(Token), NEW j \in Place(ts)
  PROVE  /\ Conditions(ts)[<<"next", j, 0>>] =
              IF Is(ts, j, <<"NOT">>) THEN ParseNot(Conditions(ts), j + 1) ELSE ParseComparison(ts, j)
         /\ Conditions(ts)[<<"more", j, 0>>] =
              IF AtOneOf(ts, j, Logic) THEN Operand(ts, Conditions(ts), j) ELSE Found(<<>>, j)
BY ConditionsRead, Zenon DEF ParseNextCondition, MoreCondition

LEMMA NothingMore ==
  ASSUME NEW ts \in Seq(Token)
  PROVE  Conditions(ts)[<<"more", Len(ts) + 1, 0>>] = Found(<<>>, Len(ts) + 1)
<1>1. Len(ts) \in Nat
  BY LenProperties
<1>2. Len(ts) + 1 \in Place(ts) /\ ~(Len(ts) + 1 <= Len(ts))
  BY <1>1 DEF Place
<1> QED BY <1>2, ConditionCalls DEF AtOneOf

LEMMA ReadingTyped ==
  ASSUME NEW ts \in Seq(Token), NEW a \in Nat, NEW b \in Nat, a >= 1, b <= Len(ts), a <= b + 1
  PROVE  ReadingPart(ts, a, b) \in Seq(Nodes)
BY PartOfIs

\* The operand behind i: a comparison, or a NOT and all that follows it.
LEMMA NextRead ==
  ASSUME NEW ts \in Seq(Token), Plain(ts), WellFormed(ts), NEW i, NEW j, Follows(ts, i, j),
         j <= Len(ts) => ReadBehind(ts, j)
  PROVE  LET next == Conditions(ts)[<<"next", i + 1, 0>>] IN
         \/ /\ j \in 1..Len(ts) /\ ts[j].text = <<"NOT">> /\ j = i + 1
            /\ next = Found(ReadingPart(ts, i + 1, Len(ts)), Len(ts) + 1)
         \/ /\ j \in i + 2..Len(ts) + 1
            /\ j <= Len(ts) => ts[j].text \in Logic
            /\ \A k \in i + 1..j - 1 : ts[k].text \notin Connective
            /\ next = Found(ReadingPart(ts, i + 1, j - 1), j)
<1> DEFINE next == Conditions(ts)[<<"next", i + 1, 0>>]
<1>1. Len(ts) \in Nat /\ i \in 0..Len(ts) + 1 /\ j \in 0..Len(ts) + 1 /\ i < j
  BY EndsAre DEF Follows
<1>2. i + 1 \in Place(ts)
  BY <1>1 DEF Place
<1>3. next = IF Is(ts, i + 1, <<"NOT">>) THEN ParseNot(Conditions(ts), (i + 1) + 1) ELSE ParseComparison(ts, i + 1)
  BY <1>2, ConditionCalls
<1> HIDE DEF next
<1>4. CASE j \in 1..Len(ts) /\ ts[j].text = <<"NOT">> /\ j = i + 1
  <2>1. Is(ts, i + 1, <<"NOT">>)
    BY <1>4 DEF Is
  <2>2. next = ParseNot(Conditions(ts), j + 1)
    BY <1>3, <1>4, <2>1
  <2> DEFINE tree == ReadingPart(ts, j + 1, Len(ts))
             n == Len(ts) + 1
  <2>3. Chain(Conditions(ts), j + 1) = Found(tree, n)
    BY <1>1, <1>4 DEF ReadBehind
  <2> HIDE DEF tree, n
  <2>4. next = Found(Append(tree, Node("not", <<>>, 1)), n)
    <3> DEFINE c == Found(tree, n)
    <3>1. c.is = "found" /\ c.tree = tree /\ c.at = n
      BY DEF Found
    <3> HIDE DEF c
    <3>2. next = Under(Node("not", <<>>, 1), c)
      BY <2>2, <2>3, <3>1 DEF ParseNot, c
    <3> QED BY <3>1, <3>2 DEF Under
  <2>5. ReadingPart(ts, j, Len(ts)) = Append(tree, Node("not", <<>>, 1))
    <3>1. j \in Nat /\ Len(ts) \in Nat /\ j >= 1 /\ Len(ts) <= Len(ts) /\ j <= Len(ts)
      BY <1>1, <1>4
    <3> QED BY <1>4, <3>1, ReadingNot DEF tree
  <2> QED BY <1>4, <2>4, <2>5 DEF n, next
<1>5. CASE /\ j \in i + 2..Len(ts) + 1
           /\ j <= Len(ts) => ts[j].text \in Logic
           /\ \A k \in i + 1..j - 1 : ts[k].text \notin Connective
           /\ ParseComparison(ts, i + 1) = Found(ReadingPart(ts, i + 1, j - 1), j)
  <2>1. ~Is(ts, i + 1, <<"NOT">>)
    <3>1. i + 1 \in i + 1..j - 1
      BY <1>1, <1>5
    <3> QED BY <1>5, <3>1 DEF Is, Connective
  <2>2. next = Found(ReadingPart(ts, i + 1, j - 1), j)
    BY <1>3, <1>5, <2>1
  <2> QED BY <1>5, <2>2 DEF next
<1> QED BY <1>4, <1>5, PartsRead

LEMMA EmptyBehind ==
  ASSUME NEW s \in Seq(Nodes)
  PROVE  s \o <<>> = s
OBVIOUS

LEMMA BehindRead ==
  ASSUME NEW ts \in Seq(Token), Plain(ts), WellFormed(ts), NEW i, NEW j, Follows(ts, i, j),
         j <= Len(ts) => ReadBehind(ts, j), i \in Starts(ts, j) => ReadFrom(ts, i, j)
  PROVE  ReadBehind(ts, i)
<1> DEFINE next == Conditions(ts)[<<"next", i + 1, 0>>]
           more == Conditions(ts)[<<"more", j, 0>>]
           whole == ReadingPart(ts, i + 1, Len(ts))
           part == ReadingPart(ts, i + 1, j - 1)
           n == Len(ts) + 1
<1>1. Len(ts) \in Nat /\ i \in 0..Len(ts) + 1 /\ j \in 0..Len(ts) + 1 /\ i < j
  BY EndsAre DEF Follows
<1>2. Chain(Conditions(ts), i + 1) =
        IF next.is = "found" THEN Then(next, Conditions(ts)[<<"more", next.at, 0>>]) ELSE next
  BY DEF Chain
<1>3. whole \in Seq(Nodes)
  <2>1. i + 1 \in Nat /\ Len(ts) \in Nat /\ i + 1 >= 1 /\ Len(ts) <= Len(ts) /\ i + 1 <= Len(ts) + 1
    BY <1>1
  <2> QED BY <2>1, ReadingTyped
<1>4. \/ next = Found(whole, n)
      \/ /\ j \in i + 2..Len(ts) + 1
         /\ j <= Len(ts) => ts[j].text \in Logic
         /\ \A k \in i + 1..j - 1 : ts[k].text \notin Connective
         /\ next = Found(part, j)
  BY NextRead
<1>5. Conditions(ts)[<<"more", n, 0>>] = Found(<<>>, n)
  BY NothingMore
<1> HIDE DEF whole, part, n, next
<1>6. CASE next = Found(whole, n)
  <2>1. next.is = "found" /\ next.at = n /\ next.tree = whole
    BY <1>6 DEF Found
  <2>2. Then(next, Found(<<>>, n)) = Found(whole \o <<>>, n)
    BY <2>1 DEF Then, Found
  <2>3. Chain(Conditions(ts), i + 1) = Then(next, Found(<<>>, n))
    BY <1>2, <1>5, <2>1
  <2> QED BY <1>3, <2>2, <2>3, EmptyBehind DEF ReadBehind, whole, n
<1>7. CASE /\ j \in i + 2..Len(ts) + 1
           /\ j <= Len(ts) => ts[j].text \in Logic
           /\ \A k \in i + 1..j - 1 : ts[k].text \notin Connective
           /\ next = Found(part, j)
  <2>1. i \in Starts(ts, j)
    <3>1. i \in 0..j - 1
      BY <1>1
    <3>2. \A k \in i + 1..j - 1 : ts[k].text # <<"NOT">>
      BY <1>7 DEF Connective
    <3> QED BY <1>7, <3>1, <3>2 DEF Starts
  <2>2. more.is = "found" /\ more.at = n /\ part \o more.tree = whole
    BY <2>1 DEF ReadFrom, n, part, whole
  <2>3. next.is = "found" /\ next.at = j /\ next.tree = part
    BY <1>7 DEF Found
  <2>4. Chain(Conditions(ts), i + 1) = Then(next, more)
    BY <1>2, <2>3
  <2> HIDE DEF more
  <2> QED BY <2>2, <2>3, <2>4 DEF Then, ReadBehind, whole, n
<1> QED BY <1>4, <1>6, <1>7

LEMMA FromEnd ==
  ASSUME NEW ts \in Seq(Token), NEW a \in Starts(ts, Len(ts) + 1)
  PROVE  ReadFrom(ts, a, Len(ts) + 1)
<1>1. Len(ts) \in Nat /\ a \in 0..Len(ts) /\ (Len(ts) + 1) - 1 = Len(ts)
  BY LenProperties DEF Starts
<1> DEFINE whole == ReadingPart(ts, a + 1, Len(ts))
           n == Len(ts) + 1
<1>2. whole \in Seq(Nodes)
  <2>1. a + 1 \in Nat /\ a + 1 >= 1 /\ Len(ts) <= Len(ts) /\ a + 1 <= Len(ts) + 1
    BY <1>1
  <2> QED BY <1>1, <2>1, ReadingTyped
<1>3. Conditions(ts)[<<"more", n, 0>>] = Found(<<>>, n)
  BY NothingMore
<1>4. ReadingPart(ts, a + 1, n - 1) = whole
  BY <1>1
<1> HIDE DEF whole, n
<1>5. <<>> \in Seq(Nodes) /\ whole \o <<>> = whole
  BY <1>2, EmptyBehind
<1> QED BY <1>3, <1>4, <1>5 DEF ReadFrom, Found, whole, n

Regroups(a, b, node, c) == a \o (Append(b, node) \o c) = (a \o b \o <<node>>) \o c

LEMMA Behind3 ==
  ASSUME NEW a \in Seq(Nodes), NEW b \in Seq(Nodes), NEW node \in Nodes, NEW c \in Seq(Nodes)
  PROVE  /\ Regroups(a, b, node, c)
         /\ Append(b, node) \o c \in Seq(Nodes) /\ Append(b, node) = b \o <<node>> /\ Append(b, node) \in Seq(Nodes)
<1>1. Append(b, node) = b \o <<node>> /\ <<node>> \in Seq(Nodes)
  OBVIOUS
<1>2. b \o <<node>> \in Seq(Nodes)
  BY <1>1
<1>3. (b \o <<node>>) \o c \in Seq(Nodes)
  BY <1>2
<1>4. a \o ((b \o <<node>>) \o c) = (a \o (b \o <<node>>)) \o c
  BY <1>2
<1>5. a \o (b \o <<node>>) = a \o b \o <<node>>
  BY <1>1
<1> QED BY <1>1, <1>2, <1>3, <1>4, <1>5 DEF Regroups

LEMMA FromRead ==
  ASSUME NEW ts \in Seq(Token), Plain(ts), WellFormed(ts), NEW j \in 1..Len(ts), NEW a \in Starts(ts, j),
         NEW l, Follows(ts, j, l), l <= Len(ts) => ReadBehind(ts, l),
         \A b \in Starts(ts, l) : ReadFrom(ts, b, l)
  PROVE  ReadFrom(ts, a, j)
<1> DEFINE C == Conditions(ts)
           next == C[<<"next", j + 1, 0>>]
           more == C[<<"more", j, 0>>]
           last == C[<<"more", l, 0>>]
           n == Len(ts) + 1
           whole == ReadingPart(ts, a + 1, Len(ts))
           part == ReadingPart(ts, a + 1, j - 1)
           rest == ReadingPart(ts, j + 1, Len(ts))
           middle == ReadingPart(ts, j + 1, l - 1)
           node == Node("infix", ts[j].text, 2)
<1>1. /\ Len(ts) \in Nat /\ j \in Nat /\ j >= 1 /\ j <= Len(ts) /\ l \in 0..Len(ts) + 1 /\ j < l
      /\ ts[j].text \in Logic /\ a \in 0..j - 1 /\ \A k \in a + 1..j - 1 : ts[k].text # <<"NOT">>
  BY LenProperties, EndsAre DEF Follows, Starts
<1>2. part \in Seq(Nodes) /\ rest \in Seq(Nodes) /\ node \in Nodes /\ middle \in Seq(Nodes)
  <2>1. part \in Seq(Nodes)
    <3>1. a + 1 \in Nat /\ j - 1 \in Nat /\ a + 1 >= 1 /\ j - 1 <= Len(ts) /\ a + 1 <= (j - 1) + 1
      BY <1>1
    <3> QED BY <3>1, ReadingTyped
  <2>2. rest \in Seq(Nodes)
    <3>1. j + 1 \in Nat /\ j + 1 >= 1 /\ Len(ts) <= Len(ts) /\ j + 1 <= Len(ts) + 1
      BY <1>1
    <3> QED BY <1>1, <3>1, ReadingTyped
  <2>3. middle \in Seq(Nodes)
    <3>1. j + 1 \in Nat /\ l - 1 \in Nat /\ j + 1 >= 1 /\ l - 1 <= Len(ts) /\ j + 1 <= (l - 1) + 1
      BY <1>1
    <3> QED BY <3>1, ReadingTyped
  <2>4. node \in Nodes
    <3>1. ts[j].text \in Seq(Piece)
      BY TokenAt
    <3> QED BY <3>1 DEF Node, Nodes
  <2> QED BY <2>1, <2>2, <2>3, <2>4
<1>3. \A k \in a + 1..j : ts[k].text # <<"NOT">>
  <2>1. ts[j].text # <<"NOT">>
    BY <1>1, LogicIs
  <2> QED BY <1>1, <2>1
<1>4. \/ /\ l \in 1..Len(ts) /\ ts[l].text = <<"NOT">> /\ l = j + 1
         /\ next = Found(rest, n)
      \/ /\ l \in j + 2..Len(ts) + 1
         /\ l <= Len(ts) => ts[l].text \in Logic
         /\ \A k \in j + 1..l - 1 : ts[k].text \notin Connective
         /\ next = Found(middle, l)
  BY NextRead
<1>5. more = Operand(ts, C, j)
  <2>1. j \in Place(ts) /\ AtOneOf(ts, j, Logic)
    BY <1>1 DEF Place, AtOneOf
  <2> QED BY <2>1, ConditionCalls
<1>6. next.is = "found" => more = Then(Under(node, next), C[<<"more", next.at, 0>>])
  BY <1>5, Zenon DEF Operand
<1>7. CASE /\ l \in 1..Len(ts) /\ ts[l].text = <<"NOT">> /\ l = j + 1
           /\ next = Found(rest, n)
  <2>1. C[<<"more", n, 0>>] = Found(<<>>, n)
    BY NothingMore
  <2>2. whole = part \o rest \o <<node>>
    <3>1. \A i \in j + 1..Len(ts) : ts[i].text \in Logic => \E m \in a + 1..i : ts[m].text = <<"NOT">>
      <4>1. SUFFICES ASSUME NEW i \in j + 1..Len(ts) PROVE j + 1 \in a + 1..i
        BY <1>7
      <4> QED BY <1>1
    <3>2. a + 1 \in Nat /\ Len(ts) \in Nat /\ a + 1 >= 1 /\ Len(ts) <= Len(ts) /\ a + 1 <= Len(ts) + 1 /\ j \in a + 1..Len(ts)
      BY <1>1
    <3> DEFINE a1 == a + 1
               b1 == Len(ts)
    <3>3. a1 \in Nat /\ b1 \in Nat /\ a1 >= 1 /\ b1 <= Len(ts) /\ a1 <= b1 + 1 /\ j \in a1..b1
          /\ (\A i \in a1..j : ts[i].text # <<"NOT">>)
          /\ (\A i \in j + 1..b1 : ts[i].text \in Logic => \E m \in a1..i : ts[m].text = <<"NOT">>)
      BY <1>3, <3>1, <3>2
    <3> HIDE DEF a1, b1
    <3>4. ReadingPart(ts, a1, b1) = ReadingPart(ts, a1, j - 1) \o ReadingPart(ts, j + 1, b1) \o <<node>>
      BY ONLY ts \in Seq(Token), <1>1, <3>3, ReadingLogic
    <3> QED BY <3>4 DEF a1, b1
  <2> HIDE DEF next, more, n, whole, part, rest, node, C
  <2>3. next.is = "found" /\ next.at = n /\ Under(node, next) = Found(Append(rest, node), n)
    BY <1>7 DEF Found, Under
  <2>4. more = Then(Found(Append(rest, node), n), Found(<<>>, n))
    BY <1>6, <2>1, <2>3
  <2>5. more = Found(Append(rest, node) \o <<>>, n)
    BY <2>4 DEF Then, Found
  <2>6. more.is = "found" /\ more.at = n /\ more.tree = Append(rest, node)
    <3>1. Append(rest, node) \o <<>> = Append(rest, node)
      BY <1>2, Behind3, EmptyBehind
    <3> QED BY <2>5, <3>1 DEF Found
  <2>7. part \o more.tree = whole /\ more.tree \in Seq(Nodes)
    <3>1. part \o Append(rest, node) = part \o rest \o <<node>>
      BY <1>2
    <3> QED BY <1>2, <2>2, <2>6, <3>1, Behind3
  <2> QED BY <2>6, <2>7 DEF ReadFrom, more, n, whole, part, C
<1>8. CASE /\ l \in j + 2..Len(ts) + 1
           /\ l <= Len(ts) => ts[l].text \in Logic
           /\ \A k \in j + 1..l - 1 : ts[k].text \notin Connective
           /\ next = Found(middle, l)
  <2> DEFINE part2 == ReadingPart(ts, a + 1, l - 1)
  <2>1. a \in Starts(ts, l)
    <3>1. a \in 0..l - 1
      BY <1>1
    <3>2. ASSUME NEW k \in a + 1..l - 1 PROVE ts[k].text # <<"NOT">>
      <4>1. k \in a + 1..j \/ k \in j + 1..l - 1
        BY <1>1
      <4> QED BY <1>3, <1>8, <4>1 DEF Connective
    <3> QED BY <1>8, <3>1, <3>2 DEF Starts
  <2>2. last.is = "found" /\ last.at = n /\ last.tree \in Seq(Nodes) /\ part2 \o last.tree = whole
    BY <2>1 DEF ReadFrom
  <2>3. part2 = part \o middle \o <<node>>
    <3> DEFINE a1 == a + 1
               b1 == l - 1
    <3>1. a1 \in Nat /\ b1 \in Nat /\ a1 >= 1 /\ b1 <= Len(ts) /\ a1 <= b1 + 1 /\ j \in a1..b1
      BY <1>1, <1>8
    <3>2. (\A i \in a1..j : ts[i].text # <<"NOT">>)
          /\ (\A i \in j + 1..b1 : ts[i].text \in Logic => \E m \in a1..i : ts[m].text = <<"NOT">>)
      BY <1>3, <1>8 DEF Connective
    <3> HIDE DEF a1, b1
    <3>3. ReadingPart(ts, a1, b1) = ReadingPart(ts, a1, j - 1) \o ReadingPart(ts, j + 1, b1) \o <<node>>
      BY ONLY ts \in Seq(Token), <1>1, <3>1, <3>2, ReadingLogic
    <3> QED BY <3>3 DEF a1, b1
  <2> HIDE DEF next, more, last, n, whole, part, middle, node, C, part2
  <2>4. next.is = "found" /\ next.at = l /\ Under(node, next) = Found(Append(middle, node), l)
    BY <1>8 DEF Found, Under
  <2>5. more = Then(Found(Append(middle, node), l), last)
    BY <1>6, <2>4 DEF last
  <2>6. more.is = "found" /\ more.at = n /\ more.tree = Append(middle, node) \o last.tree
    BY <2>2, <2>5 DEF Then, Found
  <2>7. part \o more.tree = whole /\ more.tree \in Seq(Nodes)
    <3> DEFINE t == last.tree
    <3>1. t \in Seq(Nodes) /\ part2 \o t = whole /\ more.tree = Append(middle, node) \o t
      BY <2>2, <2>6
    <3> HIDE DEF t
    <3>2. Regroups(part, middle, node, t) /\ Append(middle, node) \o t \in Seq(Nodes)
      <4>1. part \in Seq(Nodes) /\ middle \in Seq(Nodes) /\ node \in Nodes /\ t \in Seq(Nodes)
        BY <1>2, <3>1
      <4> QED BY ONLY <4>1, Behind3
    <3>3. part \o (Append(middle, node) \o t) = part2 \o t
      BY <2>3, <3>2, Zenon DEF Regroups
    <3> QED BY <3>1, <3>2, <3>3, Zenon
  <2> QED BY <2>6, <2>7 DEF ReadFrom, more, n, whole, part, C
<1> QED BY <1>4, <1>7, <1>8

\* By induction from the end of the text.
LEMMA AllRead ==
  ASSUME NEW ts \in Seq(Token), Plain(ts), WellFormed(ts)
  PROVE  ReadBehind(ts, 0)
<1> DEFINE Read(j) == /\ \A a \in Starts(ts, j) : ReadFrom(ts, a, j)
                      /\ j <= Len(ts) => ReadBehind(ts, j)
           N == {n \in Nat : \A j \in Ends(ts) : Len(ts) + 1 - j < n => Read(j)}
<1>1. /\ Len(ts) \in Nat /\ 0 \in Ends(ts) /\ \A i \in Ends(ts) : i \in 0..Len(ts) + 1
  BY EndsAre
<1>2. 0 \in N
  BY <1>1
<1>3. ASSUME NEW n \in Nat, n \in N PROVE n + 1 \in N
  <2>1. SUFFICES ASSUME NEW j \in Ends(ts), Len(ts) + 1 - j < n + 1 PROVE Read(j)
    OBVIOUS
  <2>2. j \in 0..Len(ts) + 1 /\ j \in Nat
    BY <1>1
  <2>3. CASE j = Len(ts) + 1
    <3>1. \A a \in Starts(ts, j) : ReadFrom(ts, a, j)
      BY <2>3, FromEnd
    <3>2. ~(j <= Len(ts))
      BY <1>1, <2>3
    <3> QED BY <3>1, <3>2
  <2>4. CASE j <= Len(ts)
    <3>1. PICK l \in j + 1..Len(ts) + 1 : Follows(ts, j, l)
      BY <2>4, NextEnd
    <3>2. Read(l)
      <4>1. l \in Ends(ts) /\ Len(ts) + 1 - l < n
        BY <1>1, <2>1, <2>2, <3>1 DEF Follows
      <4> QED BY <1>3, <4>1
    <3>3. ReadBehind(ts, j)
      <4>1. j \in Starts(ts, l) => ReadFrom(ts, j, l)
        BY <3>2
      <4> QED BY <3>1, <3>2, <4>1, BehindRead
    <3>4. ASSUME NEW a \in Starts(ts, j) PROVE ReadFrom(ts, a, j)
      <4>1. j \in 1..Len(ts)
        BY <2>2, <2>4, <1>1 DEF Starts
      <4> QED BY <3>1, <3>2, <4>1, FromRead
    <3> QED BY <3>3, <3>4
  <2> QED BY <1>1, <2>2, <2>3, <2>4
<1>4. Read(0)
  <2>1. \A n \in Nat : n \in N
    <3> HIDE DEF N
    <3> QED BY <1>2, <1>3, AllNat
  <2>2. Len(ts) + 2 \in N /\ Len(ts) + 1 - 0 < Len(ts) + 2
    <3> HIDE DEF N
    <3> QED BY <1>1, <2>1
  <2> QED BY <1>1, <2>2
<1> QED BY <1>1, <1>4

\* A condition of any length is read from left to right: the parser groups the
\* comparisons of every well-formed one as Reading says
\* (ExpressionParser.parseCondition, parseNOT).
THEOREM ReadsLeftToRight == Spec => []ConditionsReadLeftToRight
<1>1. LanguageInv => ConditionsReadLeftToRight
  <2>1. SUFFICES ASSUME LanguageInv, stage \in {"parsed", "over"}, former.parser = "condition",
                        Plain(tokens), WellFormed(tokens)
                 PROVE  result = Found(Reading[tokens], Len(tokens) + 1)
    BY DEF ConditionsReadLeftToRight
  <2>2. tokens \in Seq(Token) /\ result = Parsed("condition", tokens)
    BY <2>1 DEF LanguageInv, LexInv
  <2>3. result = Chain(Conditions(tokens), 1)
    BY <2>2 DEF Parsed, ParseCondition
  <2>4. ReadBehind(tokens, 0)
    BY <2>1, <2>2, AllRead
  <2>5. PartOf(tokens, 1, Len(tokens)) = tokens
    BY <2>2 DEF PartOf
  <2>6. 0 + 1 = 1
    OBVIOUS
  <2> QED BY <2>3, <2>4, <2>5, <2>6 DEF ReadBehind, ReadingPart
<1> QED BY <1>1, LanguageInvariant, PTL
=============================================================================
