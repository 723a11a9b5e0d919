-------------------------------- MODULE Lexer --------------------------------
(***************************************************************************)
(* The tokens of a text.  A text is a sequence of pieces: words, digits,   *)
(* and single characters of all other kinds.  Left out: "#", "@" and "^".  *)
(***************************************************************************)
EXTENDS Integers, Sequences, SequencesExt

CONSTANT Word  \* pieces that consist of letters, keywords among them

Digit == {"0", "1"}
Quote == {"backtick", "\"", "'"}
Operator == {"=", "*", "-", "+", "/", "|", "&", ">", "<"}
Compound == {<<"!", "=">>, <<">", "=">>, <<"<", "=">>, <<"<", ">">>, <<"|", "|">>, <<"*", "*">>}
Piece == Word \union Digit \union Quote \union Operator \union {" ", ".", "_", "!", "(", ")", ","}

\* The kind of a quoted token is its quote.
Kind == {"number", "alpha", "operator", "symbol"} \union Quote
Token == [kind : Kind, text : Seq(Piece)]

VARIABLES
  text,    \* what is read
  pos,     \* TokenIterator.pos
  tokens   \* the tokens so far

-----------------------------------------------------------------------------

\* Where the pieces of the set s that begin at p end.
EndOf(p, s) ==
  IF p > Len(text) THEN p
  ELSE CHOOSE q \in p..Len(text) + 1 :
         (\A i \in p..q - 1 : text[i] \in s) /\ (q > Len(text) \/ text[q] \notin s)

\* skipWhitespace
Start == EndOf(pos, {" "})
HasNext == Start <= Len(text)

Take(kind, first, last, next) ==
  /\ tokens' = Append(tokens, [kind |-> kind, text |-> SubSeq(text, first, last)])
  /\ pos' = next

AlphaNumeric == Word \union Digit \union {"_"}

\* parseNumeric comes before parseAlphaNumeric, and takes any number of dots.
NumericToken ==
  LET end == EndOf(Start, Digit \union {"."}) IN
  end > Start /\ Take("number", Start, end - 1, end)

AlphaToken ==
  LET end == EndOf(Start, AlphaNumeric) IN
  text[Start] \notin Digit /\ end > Start /\ Take("alpha", Start, end - 1, end)

\* An unterminated quote takes the rest of the text.
QuotedToken ==
  LET end == EndOf(Start + 1, Piece \ {text[Start]}) IN
  text[Start] \in Quote /\ Take(text[Start], Start + 1, end - 1, end + 1)

\* span(2) asks for a character behind the two.
AtCompound == Start + 2 <= Len(text) /\ SubSeq(text, Start, Start + 1) \in Compound

\* Mutant: the position is advanced by one.
CompoundTokenByOne == AtCompound /\ Take("operator", Start, Start + 1, Start + 1)

CompoundToken == AtCompound /\ Take("operator", Start, Start + 1, Start + 2)

OperatorToken == text[Start] \in Operator /\ ~AtCompound /\ Take("operator", Start, Start, Start + 1)

SymbolToken ==
  /\ text[Start] \in {"!", "(", ")", ","} /\ ~AtCompound
  /\ Take("symbol", Start, Start, Start + 1)

NextToken ==
  /\ HasNext
  /\ \/ NumericToken \/ AlphaToken \/ QuotedToken
     \/ CompoundToken \/ OperatorToken \/ SymbolToken
  /\ UNCHANGED text

\* The text t, from its beginning.
Open(t) == text' = t /\ pos' = 1 /\ tokens' = <<>>
=============================================================================
