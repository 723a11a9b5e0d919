------------------------------ MODULE MCScripts ------------------------------
(* Small instances of a script and of the files it is run for. *)
EXTENDS ScriptExactness, TLC

CONSTANTS r1, r2, r3, k1, k2, t1, t2

Statement_(kind, agg, from, limit, into) ==
  [kind |-> kind, agg |-> agg, from |-> from, limit |-> limit,
   into |-> into, append |-> TRUE]

Broken == [Statement_("insert", "none", 0, NoLimit, t1) EXCEPT !.kind = "broken"]

\* The rows of each key, which overwrite the target; an INSERT whose text is broken;
\* a view that counts one row of the file; what it says, and the rows, appended.
MixedScript ==
  << [Statement_("insert", "key", 0, NoLimit, t1) EXCEPT !.append = FALSE],
     Broken,
     Statement_("view", "all", 0, 1, t2),
     Statement_("insert", "none", 3, NoLimit, t2),
     Statement_("insert", "none", 0, NoLimit, t2) >>

MixedContent == [r \in Run |-> IF r = r1 THEN <<k1, k2>> ELSE IF r = r2 THEN <<k1>> ELSE <<>>]
=============================================================================
