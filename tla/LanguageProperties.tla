-------------------------- MODULE LanguageProperties --------------------------
(***************************************************************************)
(* What holds of any text, and of what is printed for it.                  *)
(***************************************************************************)
EXTENDS Language

Blank == Quote \union {" "}
Solid(t) == FlattenSeq([i \in DOMAIN t |-> IF t[i] \in Blank THEN <<>> ELSE <<t[i]>>])
Texts(ts) == [i \in DOMAIN ts |-> ts[i].text]

\* The tokens are made of the pieces of the text, in their order: apart from
\* blanks and quotes none is lost, read twice or moved, not at the end of the
\* text either, where a quote is open or an operator has no neighbour
\* (TokenIterator.next, span and parseQuotes).
EveryPieceInOneToken ==
  Solid(FlattenSeq(Texts(tokens))) =
    Solid(SubSeq(text, 1, IF pos > Len(text) THEN Len(text) ELSE pos - 1))

-----------------------------------------------------------------------------
(* Reading *)

Plain(ts) == \A i \in DOMAIN ts : ts[i].kind \notin Quote /\ ts[i].text \notin {<<"(">>, <<")">>}

\* The operators of a text without parentheses, and the places of those that
\* are not under a NOT.
Connective == Logic \union {<<"NOT">>}
Places(ts, set) == {i \in DOMAIN ts : ts[i].text \in set}

\* Comparisons are read by the parser; how they are connected is stated here: a
\* condition is what precedes its last AND or OR, that is not under a NOT, and
\* what follows; a NOT is over all that follows it.
Reading[ts \in Seq(Token)] ==
  LET nots == Places(ts, {<<"NOT">>})
      clear == {i \in Places(ts, Logic) : \A n \in nots : i < n} IN
  IF clear # {} THEN
    LET k == CHOOSE i \in clear : \A j \in clear : j <= i IN
    Reading[SubSeq(ts, 1, k - 1)] \o Reading[SubSeq(ts, k + 1, Len(ts))]
      \o <<Node("infix", ts[k].text, 2)>>
  ELSE IF ts # <<>> /\ ts[1].text = <<"NOT">> THEN Append(Reading[Tail(ts)], Node("not", <<>>, 1))
  ELSE ParseComparison(ts, 1).tree

\* Every part between two connectives is a comparison to its end, where no
\* operator is left over: one takes the connective behind it as its operand.
WellFormed(ts) ==
  LET ends == Places(ts, Connective) \union {0, Len(ts) + 1} IN
  \A i, j \in ends :
    i < j /\ (\A k \in ends : ~(i < k /\ k < j)) =>
      \/ j <= Len(ts) /\ ts[j].text = <<"NOT">> /\ j = i + 1
      \/ /\ j > Len(ts) \/ ts[j].text \in Logic
         /\ LET c == ParseComparison(SubSeq(ts, i + 1, j - 1), 1) IN c.is = "found" /\ c.at = j - i
         /\ ts[j - 1].text \notin Arithmetic \union Comparison

\* AND and OR group from the left, with no precedence between them, and a NOT
\* is over all the rest of the condition (ExpressionParser.parseCondition,
\* parseNOT).
ConditionsReadLeftToRight ==
  stage \in {"parsed", "over"} /\ former.parser = "condition" /\ Plain(tokens) /\ WellFormed(tokens) =>
    result = Found(Reading[tokens], Len(tokens) + 1)

-----------------------------------------------------------------------------
(* Printing *)

PrintedAgain == former.result # NoResult /\ stage \in {"parsed", "over"}

\* Quotes are taken off tokens and put back by what the text between them looks
\* like: a name has one that needs its quotes, a string no quote of its own, and
\* the names around a dot had none.  Parentheses are not put back: a name NOT in
\* them comes to the beginning of a comparison and is read as the operator, and a
\* name or string ")" to that of an argument list, which it ends.
Sayable(ts) ==
  \A i \in DOMAIN ts :
    LET t == ts[i].text  pieces == {t[k] : k \in DOMAIN t} IN
    /\ ts[i].kind = "\"" => "'" \notin pieces
    /\ ts[i].kind = "backtick" =>
         pieces # {} /\ (t[1] \in Digit => \E p \in pieces : p \notin Word \union Digit)
    /\ t = <<".">> => \A j \in {i - 1, i + 1} \intersect DOMAIN ts : ts[j].kind = "alpha"
    /\ t = <<"NOT">> \/ (t = <<")">> /\ ts[i].kind \in Quote) => i = 1 \/ ts[i - 1].text # <<"(">>

\* What is printed for a tree is read to its end, and printed as itself again
\* (QweryDecompilerTest: toSQL of a compiled text is that text).
PrintedTextIsStable ==
  PrintedAgain /\ Sayable(former.tokens) =>
    /\ result.is = "found" /\ result.at = Len(tokens) + 1
    /\ ~Unhandled(result.tree) /\ MakeSQL(result.tree) = text

\* A text without parentheses is printed as one that means the same, a condition
\* if its parts are comparisons: a NOT over one that ends at a part that is none
\* is printed as a NOT over what follows too.
TreeSurvives ==
  PrintedAgain /\ Plain(former.tokens) /\ Sayable(former.tokens)
    /\ (former.parser = "condition" => WellFormed(former.tokens)) =>
    result.tree = former.result.tree
=============================================================================
