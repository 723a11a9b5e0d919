--------------------------- MODULE ScriptInvariant ---------------------------
(***************************************************************************)
(* The inductive invariant behind the safety properties of the runs of a   *)
(* script.  What an idle pool leaves behind is no invariant by itself: it  *)
(* needs to know who is in the middle of which aggregate, view or input.   *)
(***************************************************************************)
EXTENDS ScriptProperties

AtAggregate == {"load", "store", "evaluate", "reset"}

\* The statements parsed so far are those of the text, in its order.
ParsedInOrder ==
  /\ \A i \in DOMAIN ops : ops[i] <= parsed
  /\ \A i, j \in DOMAIN ops : i < j => ops[i] < ops[j]
  /\ \A s \in Select : s <= parsed => \E i \in DOMAIN ops : ops[i] = s

\* A run that executes a statement executes one that is parsed, of the kind its
\* place needs.
StatementOf(r) ==
  /\ at[r] <= Len(ops)
  /\ pc[r] \notin {"idle", "next", "ended"} => at[r] >= 1
  /\ result[r] = "noview" => at[r] >= 1
  /\ pc[r] \in {"open", "lookup"} => Statement(r) \notin View
  /\ pc[r] \in {"check", "toggle"} => TheView(r) \in View
  /\ pc[r] # "ended" => result[r] = "none"
StatementAtHand == \A r \in Run : StatementOf(r)

\* A run that is counting has a SELECT that counts, and the group it counts.
QueryOf(r) ==
  /\ Len(query[r].stages) <= 2
  /\ pc[r] \in AtAggregate => Mode(query[r]) \in {"all", "key"}
  /\ pc[r] \in AtAggregate /\ Mode(query[r]) = "key" => query[r].feed # <<>>
  /\ pc[r] = "group" => Mode(query[r]) = "key"
QueryAtHand == \A r \in Run : QueryOf(r)

Structure == TypeOK /\ ParsedInOrder /\ StatementAtHand /\ QueryAtHand

Counting(r, s) ==
  /\ Mode(query[r]) # "none" /\ Consumer(query[r]) = s
  /\ \/ pc[r] \in AtAggregate
     \/ pc[r] = "pull" /\ Mode(query[r]) = "all"

\* A counter is not 0 only while some run is counting, or after one threw then.
CountersInUse ==
  \A s \in Select : count[s] # 0 => s \in spoilt \/ \E r \in Run : Counting(r, s)

\* A spent view was created, and so was every view a run has passed.
PassedOf(r) ==
  /\ views[r] \subseteq created
  /\ \A i \in 1..at[r] :
       ops[i] \in View /\ (i < at[r] \/ pc[r] \notin {"check", "toggle"})
         => ops[i] \in created
  /\ result[r] = "noview" => Script[Statement(r)].from \in created \ views[r]
ViewsWereCreated ==
  /\ \A v \in View : once[v] \/ v \in created
  /\ \A r \in Run : PassedOf(r)

ScriptInv ==
  /\ Structure
  /\ CountersInUse /\ ViewsWereCreated
=============================================================================
