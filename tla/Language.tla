------------------------------- MODULE Language -------------------------------
(***************************************************************************)
(* Expressions and conditions of the language: from text to tokens, from   *)
(* tokens to a tree, and from the tree back to text, twice.  Left out:     *)
(* CASE, CAST and the built-in functions.                                  *)
(***************************************************************************)
EXTENDS Lexer

CONSTANT Input  \* the texts that are compiled

ASSUME InputAssumption == Input \subseteq Seq(Piece)
ASSUME WordAssumption == {"AND", "OR", "NOT", "IS", "NULL", "LIKE", "MATCHES"} \subseteq Word

VARIABLES
  result,  \* what the parser made of the tokens, and where it stopped
  former,  \* the tokens and the result of the input, once that is printed
  stage    \* "lexing", "parsed" or "over"

vars == <<text, pos, tokens, result, former, stage>>

-----------------------------------------------------------------------------
(* Trees: the nodes in postfix order, each with the number of its branches *)

Node(op, name, branches) == [op |-> op, name |-> name, branches |-> branches]
Nodes ==
  [op : {"null", "all", "join", "call", "list", "number", "string", "field", "infix", "not", "isnull"},
   name : Seq(Piece), branches : Nat]

Found(tree, i) == [is |-> "found", tree |-> tree, at |-> i]
None(i) == [is |-> "none", tree |-> <<>>, at |-> i]   \* no tree was returned
Died(i) == [is |-> "died", tree |-> <<>>, at |-> i]   \* the parser threw
Leaf(op, name, i) == Found(<<Node(op, name, 0)>>, i)

Outcome == [is : {"found", "none", "died"}, tree : Seq(Nodes), at : Nat]

\* The tree that was found goes on with more of it.
Then(found, more) ==
  IF more.is = "found" THEN Found(found.tree \o more.tree, more.at) ELSE more

\* What was found, under a node.
Under(node, e) == IF e.is = "found" THEN Found(Append(e.tree, node), e.at) ELSE e

-----------------------------------------------------------------------------
(* Tokens *)

\* TokenStream.is: the text decides, whatever kind of token it is.
Is(ts, i, t) == i <= Len(ts) /\ ts[i].text = t
AtOneOf(ts, i, set) == i <= Len(ts) /\ ts[i].text \in set

\* identifierRegEx
IsIdentifier(t) ==
  t # <<>> /\ t[1] \in Word \union {"_"} /\ \A i \in DOMAIN t : t[i] \in AlphaNumeric

\* String.toDouble, and Double.toString of numbers from 10^-3 to 10^7.
IsDouble(t) ==
  (\E i \in DOMAIN t : t[i] # ".") /\ \A i, j \in DOMAIN t : t[i] = "." /\ t[j] = "." => i = j
Canonical(t) ==
  LET dot == IF "." \in {t[i] : i \in DOMAIN t} THEN CHOOSE i \in DOMAIN t : t[i] = "."
             ELSE Len(t) + 1
      ones == {i \in DOMAIN t : t[i] # "0" /\ t[i] # "."}
      whole == {i \in ones : i < dot}
      part == {i \in ones : i > dot}
      first == CHOOSE i \in whole : \A j \in whole : i <= j
      last == CHOOSE i \in part : \A j \in part : j <= i IN
  (IF whole = {} THEN <<"0">> ELSE SubSeq(t, first, dot - 1))
    \o <<".">> \o (IF part = {} THEN <<"0">> ELSE SubSeq(t, dot + 1, last))

Arithmetic == {<<"+">>, <<"-">>, <<"*">>, <<"*", "*">>, <<"/">>, <<"|", "|">>}
Comparison == {<<"=">>, <<">", "=">>, <<">">>, <<"<", "=">>, <<"<">>, <<"<", ">">>, <<"!", "=">>,
               <<"LIKE">>, <<"MATCHES">>}
Logic == {<<"AND">>, <<"OR">>}

\* The methods of the parser call each other, at later positions only: they are
\* given the function p from those calls to what they return.
Place(ts) == 1..Len(ts) + 1

-----------------------------------------------------------------------------
(* Expressions *)

\* From left to right, whatever the operators: no precedence.
Chain(p, i) ==
  LET first == p[<<"next", i, 0>>] IN
  IF first.is = "found" THEN Then(first, p[<<"more", first.at, 0>>]) ELSE first

ParseNextExpression(ts, p, i) ==
  IF i > Len(ts) THEN None(i)
  ELSE IF Is(ts, i, <<"NULL">>) THEN Leaf("null", <<>>, i + 1)
  ELSE IF Is(ts, i, <<"*">>) THEN Leaf("all", <<>>, i + 1)
  ELSE IF Is(ts, i, <<"(">>) THEN
    LET e == Chain(p, i + 1) IN
    IF e.is # "died" /\ Is(ts, e.at, <<")">>) THEN [e EXCEPT !.at = @ + 1] ELSE Died(e.at)
  ELSE IF Is(ts, i + 1, <<".">>) THEN
    IF i + 2 > Len(ts) THEN Died(i)
    ELSE Leaf("join", ts[i].text \o <<".">> \o ts[i + 2].text, i + 3)
  ELSE IF IsIdentifier(ts[i].text) /\ Is(ts, i + 1, <<"(">>) THEN
    Under(Node("call", ts[i].text, 1), p[<<"arguments", i + 2, 0>>])
  ELSE IF ts[i].kind = "number" THEN
    IF IsDouble(ts[i].text) THEN Leaf("number", Canonical(ts[i].text), i + 1) ELSE Died(i + 1)
  ELSE IF ts[i].kind \in {"'", "\""} THEN Leaf("string", ts[i].text, i + 1)
  ELSE IF IsIdentifier(ts[i].text) \/ ts[i].kind = "backtick" THEN Leaf("field", ts[i].text, i + 1)
  ELSE None(i)

\* An operator that no operand follows is passed over.
Operand(ts, p, i) ==
  LET b == p[<<"next", i + 1, 0>>] IN
  CASE b.is = "found" -> Then(Under(Node("infix", ts[i].text, 2), b), p[<<"more", b.at, 0>>])
    [] b.is = "died" -> b
    [] b.is = "none" -> Found(<<>>, b.at)

MoreExpression(ts, p, i) == IF AtOneOf(ts, i, Arithmetic) THEN Operand(ts, p, i) ELSE Found(<<>>, i)

\* parseArguments, behind the opening parenthesis or a comma; n precede.
Arguments(ts, p, i, n) ==
  IF Is(ts, i, <<")">>) THEN Found(<<Node("list", <<>>, n)>>, i + 1)
  ELSE LET e == Chain(p, i) IN
    IF e.is # "found" THEN Died(e.at)
    ELSE IF Is(ts, e.at, <<")">>) THEN Under(Node("list", <<>>, n + 1), [e EXCEPT !.at = @ + 1])
    ELSE IF Is(ts, e.at, <<",">>) THEN Then(e, p[<<"arguments", e.at + 1, n + 1>>])
    ELSE Died(e.at)

Expressions(ts) ==
  LET p[call \in {"next", "more", "arguments"} \X Place(ts) \X Nat] ==
        CASE call[1] = "next" -> ParseNextExpression(ts, p, call[2])
          [] call[1] = "more" -> MoreExpression(ts, p, call[2])
          [] call[1] = "arguments" -> Arguments(ts, p, call[2], call[3]) IN
  p

ParseExpression(ts, i) == Chain(Expressions(ts), i)

-----------------------------------------------------------------------------
(* Conditions *)

\* Every comparison is one with the first operand, and the last one is returned:
\* "a = b < c" is "a < c".
MoreComparison(ts, p, fresh, i) ==
  LET Final(condition) ==
        LET later == p[<<FALSE, condition.at>>] IN
        IF later.is = "none" THEN [condition EXCEPT !.at = later.at] ELSE later IN
  IF Is(ts, i, <<"IS">>) THEN
    LET j == IF Is(ts, i + 1, <<"NOT">>) THEN i + 2 ELSE i + 1
        isNull == <<Node("isnull", <<>>, 1)>> IN
    IF ~fresh \/ ~Is(ts, j, <<"NULL">>) THEN Died(j)
    ELSE Final(Found(IF j = i + 2 THEN Append(isNull, Node("not", <<>>, 1)) ELSE isNull, j + 1))
  ELSE IF ~AtOneOf(ts, i, Comparison) THEN None(i)
  ELSE LET b == ParseExpression(ts, i + 1)
           op == IF ts[i].text = <<"!", "=">> THEN <<"<", ">">> ELSE ts[i].text IN
    IF b.is = "found" THEN Final(Under(Node("infix", op, 2), b)) ELSE b

Comparisons(ts) ==
  LET p[call \in BOOLEAN \X Place(ts)] == MoreComparison(ts, p, call[1], call[2]) IN p

\* Mutant: NOT takes the next comparison only.
ParseNotTight(p, i) ==
  LET c == p[<<"next", i, 0>>] IN
  IF c.is = "found" THEN Under(Node("not", <<>>, 1), c) ELSE Died(c.at)

\* NOT takes all of the condition that follows it.
ParseNot(p, i) ==
  LET c == Chain(p, i) IN
  IF c.is = "found" THEN Under(Node("not", <<>>, 1), c) ELSE Died(c.at)

\* An operand, and the comparison with it.
ParseComparison(ts, i) ==
  LET e == ParseExpression(ts, i) IN
  IF e.is = "found" THEN Then(e, Comparisons(ts)[<<TRUE, e.at>>]) ELSE e

ParseNextCondition(ts, p, i) ==
  IF Is(ts, i, <<"NOT">>) THEN ParseNot(p, i + 1) ELSE ParseComparison(ts, i)

MoreCondition(ts, p, i) == IF AtOneOf(ts, i, Logic) THEN Operand(ts, p, i) ELSE Found(<<>>, i)

Conditions(ts) ==
  LET p[call \in {"next", "more"} \X Place(ts) \X {0}] ==
        CASE call[1] = "next" -> ParseNextCondition(ts, p, call[2])
          [] call[1] = "more" -> MoreCondition(ts, p, call[2]) IN
  p

ParseCondition(ts, i) == Chain(Conditions(ts), i)

-----------------------------------------------------------------------------
(* The decompiler *)

\* Mutant: no backticks.
NameOfBare(name) == name

\* nameOf: backticks around a name that is not all letters and digits.
NameOf(name) ==
  IF \A i \in DOMAIN name : name[i] \in Word \union Digit THEN name ELSE <<"backtick">> \o name \o <<"backtick">>

\* Mutant: an operator of two characters is printed as its first one.
InfixShort(op, a, b) == a \o <<" ", op[1], " ">> \o b

Infix(op, a, b) == a \o <<" ">> \o op \o <<" ">> \o b

\* The text of a node, given those of its branches.  No parentheses: the tree of
\* "a * (b + c)" is printed as "a * b + c".
NodeSQL(node, printed) ==
  CASE node.op \in {"number", "join"} -> node.name
    [] node.op = "all" -> <<"*">>
    [] node.op = "string" -> <<"'">> \o node.name \o <<"'">>
    [] node.op = "field" -> NameOf(node.name)
    [] node.op = "infix" -> Infix(node.name, printed[1], printed[2])
    [] node.op = "not" -> <<"NOT", " ">> \o printed[1]
    [] node.op = "list" ->
         FlattenSeq([k \in DOMAIN printed |-> (IF k = 1 THEN <<>> ELSE <<",", " ">>) \o printed[k]])
    [] node.op = "call" -> node.name \o <<"(">> \o printed[1] \o <<")">>

\* The last texts are those of the branches of the node.
PrintNode(texts, node) ==
  LET n == Len(texts) - node.branches IN
  Append(SubSeq(texts, 1, n), NodeSQL(node, SubSeq(texts, n + 1, Len(texts))))

\* Mutant: all that was printed, and not the text of the root.
MakeSQLOfAll(tree) ==
  LET texts[i \in 0..Len(tree)] == IF i = 0 THEN <<>> ELSE PrintNode(texts[i - 1], tree[i]) IN
  texts[Len(tree)]

MakeSQL(tree) ==
  LET texts[i \in 0..Len(tree)] == IF i = 0 THEN <<>> ELSE PrintNode(texts[i - 1], tree[i]) IN
  texts[Len(tree)][1]

\* There is no case for NULL and IS NULL: makeSQL throws.
Unhandled(tree) == \E i \in DOMAIN tree : tree[i].op \in {"null", "isnull"}

-----------------------------------------------------------------------------
(* Compiling a text, printing the tree, and compiling that *)

NoResult == None(0)

Init ==
  /\ text \in Input
  /\ pos = 1 /\ tokens = <<>> /\ result = NoResult
  /\ former = [tokens |-> <<>>, result |-> NoResult, parser |-> "none"]
  /\ stage = "lexing"

Lex == stage = "lexing" /\ NextToken /\ UNCHANGED <<result, former, stage>>

\* The text is a condition or an expression to its statement, the same when it
\* was printed.
Parse(parser) ==
  /\ stage = "lexing" /\ ~HasNext
  /\ former.parser \in {"none", parser}
  /\ result' = IF parser = "condition" THEN ParseCondition(tokens, 1) ELSE ParseExpression(tokens, 1)
  /\ former' = [former EXCEPT !.parser = parser]
  /\ stage' = IF former.result = NoResult /\ result'.is = "found" THEN "parsed" ELSE "over"
  /\ UNCHANGED <<text, pos, tokens>>

Decompile ==
  /\ stage = "parsed" /\ ~Unhandled(result.tree)
  /\ Open(MakeSQL(result.tree))
  /\ former' = [former EXCEPT !.tokens = tokens, !.result = result]
  /\ result' = NoResult /\ stage' = "lexing"

DecompileThrows ==
  /\ stage = "parsed" /\ Unhandled(result.tree)
  /\ stage' = "over"
  /\ UNCHANGED <<text, pos, tokens, result, former>>

Next == Lex \/ (\E p \in {"condition", "expression"} : Parse(p)) \/ Decompile \/ DecompileThrows

TypeOK ==
  /\ text \in Seq(Piece) /\ pos \in Nat \ {0} /\ tokens \in Seq(Token)
  /\ result \in Outcome
  /\ former \in [tokens : Seq(Token), result : Outcome, parser : {"none", "condition", "expression"}]
  /\ stage \in {"lexing", "parsed", "over"}

Spec == Init /\ [][Next]_vars
=============================================================================
