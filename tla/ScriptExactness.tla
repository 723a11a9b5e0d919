--------------------------- MODULE ScriptExactness ---------------------------
(***************************************************************************)
(* The inductive invariant behind ExactWhenAlone, OverwriteLeavesItsLines  *)
(* and EndedRunsReleaseTheirFiles: how far each run has come with the rows *)
(* of the statement it executes, where its rows may be, and what the       *)
(* SELECTs still to be gone through mean over the rows they are given.     *)
(***************************************************************************)
EXTENDS ScriptInvariant

Querying == {"pull", "group"} \union AtAggregate
Executing == {"open", "lookup", "check", "toggle"} \union Querying

-----------------------------------------------------------------------------
(* Inputs *)

\* The query reads its input: it is not past the SELECT that aggregates first.
Reading(r) ==
  query[r].live /\ (pc[r] = "pull" \/ (pc[r] \in {"load", "store"} /\ Mode(query[r]) = "all"))

\* Why an input may stay open.
LeftOpen(r, s) ==
  \/ Content[r] = <<>> \/ s \in View
  \/ \E n \in {s, Script[s].from} \ {0} : Script[n].limit < Len(Content[r])

\* The rows taken and the rows left are those of the file, and an input that is
\* open is still read, or was left.
InputOf(r) ==
  /\ Reading(r) =>
       /\ query[r].taken + Len(query[r].feed) = Len(Content[r])
       /\ \A i \in DOMAIN query[r].stages :
            query[r].stages[i] \in {Statement(r), Script[Statement(r)].from}
  /\ \A s \in inputs[r] :
       \/ LeftOpen(r, s) \/ result[r] = "io"
       \/ Reading(r) /\ s = Statement(r) /\ query[r].feed # <<>>

InputsInUse == \A r \in Run : InputOf(r)

-----------------------------------------------------------------------------
(* The rows of a run *)

Tagged(r, s, rows) == \A i \in DOMAIN rows : rows[i].by = r /\ rows[i].stmt = s

\* What a run reads, has grouped and is going to write bears its name.
TaggedOf(r) ==
  /\ pc[r] \in Querying =>
       Tagged(r, Statement(r), query[r].feed) /\ Tagged(r, Statement(r), query[r].done)
  /\ pc[r] \in Executing \ {"open"} /\ Statement(r) \notin View =>
       Tagged(r, Statement(r), out[r])

Begun(r, s) == \E i \in 1..at[r] : ops[i] = s /\ (i < at[r] \/ pc[r] \notin Executing)

\* No row of a statement is in a target before the statement is through.
FreshOf(r) ==
  \A s \in Select : ~Begun(r, s) =>
    \A i \in DOMAIN file[Script[s].into] :
      ~(file[Script[s].into][i].by = r /\ file[Script[s].into][i].stmt = s)

RowsBearTheirName == \A r \in Run : TaggedOf(r) /\ FreshOf(r)

-----------------------------------------------------------------------------
(* A run by itself *)

\* A run that has not begun has passed no statement.
IdleOf(r) == pc[r] = "idle" => at[r] = 0 /\ views[r] = {}

\* A run that is alone finds the flags as its own statements left them.
AloneOf(r) ==
  alone[r] /\ Active(r) =>
    /\ \A o \in Run \ {r} : ~Active(o)
    /\ spoilt = {}
    /\ \A v \in views[r] : ~once[v]
    /\ pc[r] \in {"check", "toggle"} /\ Statement(r) \notin View => TheView(r) \in views[r]
    /\ pc[r] = "toggle" => Statement(r) \in View /\ once[TheView(r)]

\* The rows the given SELECTs of INSERT s may be executed over: those of the
\* file, those of the view it selects from, or its results.
Over(r, s, stages) ==
  IF stages = <<>> THEN Results(r, s)
  ELSE IF stages = <<s>> THEN Source(r, s)
  ELSE {FileRows(r, s)}

Stages(s) ==
  {<<>>, <<s>>} \union (IF Script[s].from = 0 THEN {} ELSE {<<Script[s].from, s>>})

\* No SELECT has taken more rows than it wants, or all the rows that come.
Within(q, rows) ==
  /\ q.taken <= Len(rows)
  /\ \A i \in DOMAIN Pulled(q.stages) : q.taken <= Script[Pulled(q.stages)[i]].limit
Through(q, rows) ==
  \/ q.taken = Len(rows)
  \/ \E i \in DOMAIN Pulled(q.stages) : q.taken >= Script[Pulled(q.stages)[i]].limit

Taken(q, rows) == SubSeq(rows, 1, q.taken)
Ahead(q, rows) == q.feed = SubSeq(rows, q.taken + 1, Len(rows))

\* The rows are written as they come.
Copying(r, rows) ==
  LET q == query[r] IN
  /\ pc[r] = "pull" /\ Ahead(q, rows)
  /\ out[r] = WithHeader(r, Statement(r), Taken(q, rows))

\* The counter is the number of rows taken so far.
CountingAll(r, rows) ==
  LET q == query[r]
      n == count[Consumer(q)] IN
  /\ Ahead(q, rows) /\ out[r] = <<>> /\ q.done = <<>>
  /\ pc[r] = "pull" => n = q.taken
  /\ pc[r] \in {"load", "store"} => n + 1 = q.taken
  /\ pc[r] = "store" => q.seen = n
  /\ pc[r] \in {"evaluate", "reset"} => Through(q, rows) /\ n = q.taken
  /\ pc[r] = "reset" => q.seen = n

Grouped(q) == {q.done[i].key : i \in DOMAIN q.done}

\* While rows are taken, they are counted into groups.
Grouping(r, rows) ==
  LET q == query[r] IN
  /\ pc[r] = "pull" /\ Ahead(q, rows) /\ out[r] = <<>> /\ q.done = <<>>
  /\ count[Consumer(q)] = 0
  /\ \A k \in Column : q.groups[k] = Having(Taken(q, rows), k)

\* Then one group after the other is counted; the results so far are right.
CountingGroups(r, rows) ==
  LET q == query[r]
      s == Statement(r)
      n == count[Consumer(q)]
      having(k) == Having(Taken(q, rows), k)
      pending == IF pc[r] = "group" THEN {} ELSE {Head(q.feed).key} IN
  /\ pc[r] # "pull" /\ Through(q, rows) /\ out[r] = <<>>
  /\ \A i \in DOMAIN q.done : q.done[i] = RowOf(r, s, q.done[i].key, having(q.done[i].key))
  /\ \A i, j \in DOMAIN q.done : q.done[i].key = q.done[j].key => i = j
  /\ Grouped(q) \subseteq Keys(Taken(q, rows)) \ pending
  /\ \A k \in Column : q.groups[k] = IF k \in Grouped(q) \union pending THEN 0 ELSE having(k)
  /\ pc[r] = "group" => n = 0
  /\ pc[r] # "group" =>
       /\ pending \subseteq Keys(Taken(q, rows))
       /\ \A i \in DOMAIN q.feed : q.feed[i].key = Head(q.feed).key
       /\ pc[r] \in {"load", "store"} => n + Len(q.feed) = having(Head(q.feed).key)
       /\ pc[r] = "store" => q.seen = n
       /\ pc[r] \in {"evaluate", "reset"} => n = having(Head(q.feed).key)
       /\ pc[r] = "reset" => q.seen = n

\* How far a run by itself has come with the rows of an INSERT.
QueryingOf(r) ==
  alone[r] /\ pc[r] \in Querying /\ Statement(r) \notin View =>
    /\ query[r].stages \in Stages(Statement(r))
    /\ \E rows \in Over(r, Statement(r), query[r].stages) :
         /\ Within(query[r], rows)
         /\ Mode(query[r]) = "none" => Copying(r, rows)
         /\ Mode(query[r]) = "all" => CountingAll(r, rows)
         /\ Mode(query[r]) = "key" => Grouping(r, rows) \/ CountingGroups(r, rows)

\* Nothing is in a writer before the rows of its INSERT come, or after it is closed.
EmptyWriterOf(r) == out[r] # <<>> => pc[r] \in Querying /\ Statement(r) \notin View

AloneIsExact ==
  /\ \A r \in Run : IdleOf(r) /\ AloneOf(r) /\ QueryingOf(r) /\ EmptyWriterOf(r)
  /\ ExactWhenAlone

\* A run by itself writes to the target it has truncated.
TruncatedOf(r) ==
  /\ alone[r] /\ pc[r] \in Executing \ {"open"}
  /\ Statement(r) \notin View /\ ~Script[Statement(r)].append
  => file[Script[Statement(r)].into] = <<>>

AloneOverwrites == (\A r \in Run : TruncatedOf(r)) /\ OverwriteLeavesItsLines

ExactInv == ScriptInv /\ InputsInUse /\ RowsBearTheirName /\ AloneIsExact /\ AloneOverwrites
=============================================================================
