------------------------------ MODULE MCLanguage ------------------------------
(* Small texts: any few phrases, and longer expressions and conditions. *)
EXTENDS LanguageProperties, TLC

CONSTANTS MaxPhrases, MaxOperators, MaxConnectives  \* bounds: the lengths of the texts

Words == {"a", "b", "AND", "OR", "NOT", "IS", "NULL", "LIKE", "MATCHES"}

\* Any phrases: most of these texts are no expressions.
Phrases ==
  { <<"a">>, <<"1">>, <<" ">>, <<".">>, <<"_">>, <<"(">>, <<")">>, <<",">>, <<"'">>, <<"\"">>, <<"backtick">>,
    <<"*">>, <<"<">>, <<"=">>, <<"!">>, <<"|">>, <<"NOT", " ">>, <<" ", "IS", " ">>, <<"NULL">>, <<" ", ".">>,
    <<"a", "=", "1">>, <<"b", " ", "<", "=", "a">>, <<" ", "OR", " ">>, <<" ", "LIKE", " ">>,
    <<"b", "(">>, <<"(", "'", ")", "'", ")">>, <<"(", "NOT", ")">> }
Anything == UNION {{FlattenSeq(f) : f \in [1..n -> Phrases]} : n \in 1..MaxPhrases}

\* Phrases of one kind, and phrases of another between them.
Alternate(operands, operators, max) ==
  UNION {{FlattenSeq([i \in 1..2 * n + 1 |-> IF i % 2 = 1 THEN f[(i + 1) \div 2] ELSE g[i \div 2]]) :
            f \in [1..n + 1 -> operands], g \in [1..n -> operators]} : n \in 1..max}

LongExpressions ==
  Alternate({<<"a">>, <<"'", "NOT", "'", "(", "a", ")">>, <<"'", "+", "'">>, <<"1", "0", ".", "1">>, <<"b", ".", "a">>, <<"'", "OR", "_", "'">>,
         <<"backtick", "a", "_", "backtick">>, <<"b", "(", "a", "*", "a", ",", "1", ")">>},
        {<<"+">>, <<"*", "*">>, <<" ", "|", "|", " ">>, <<">", "=">>, <<"!", "=">>, <<" ", "AND", " ">>, <<" ", "MATCHES", " ">>},
        MaxOperators)

LongConditions ==
  Alternate({<<"a", "=", "1">>, <<"NOT", " ", "b", "<", "=", "a">>, <<"(", "b", ")", ">", "1">>, <<"b", "=", "1", "*">>, <<"NOT", " ", "a", "<", ">", "b", "*", "a">>,
         <<"b">>},
        {<<" ", "AND", " ">>, <<" ", "OR", " ">>}, MaxConnectives)

Texts_ == Anything \union LongExpressions \union LongConditions
=============================================================================
