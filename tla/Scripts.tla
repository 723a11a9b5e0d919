------------------------------- MODULE Scripts -------------------------------
(***************************************************************************)
(* The execution of one trigger's script.  The script is parsed lazily,    *)
(* once, and its statements (with the flag of a view and the accumulator   *)
(* of a COUNT in them) are shared by every run: the actors of the pool run *)
(* it for a file each, at the same time or one after the other.            *)
(***************************************************************************)
EXTENDS Integers, Sequences, FiniteSets

CONSTANTS
  Run,        \* the executions, one for each file that is processed
  Script,     \* the fragments of the script's text, in order
  Target,     \* the files INSERT statements write to
  Content,    \* the rows of the work file of each run: a sequence of keys
  Key,        \* values of the grouping column
  NoKey,      \* the column is missing from the row
  Header,     \* the "key" of the header line of a target
  NoLimit,    \* Int.MaxValue: more rows than any file has
  PoolSize,   \* the actors of the pool
  MaxFailures \* bound: how many reads or opens fail

\* A fragment is a statement with its SELECT (which counts "all" rows, or those
\* of each "key", or copies rows; from the work file, 0, or the view created by
\* an earlier fragment), or text that is no statement: the parser stops behind
\* a "broken" fragment, and in front of a "stuck" one.
Fragment ==
  [kind : {"view", "insert", "broken", "stuck"}, agg : {"none", "all", "key"},
   from : Nat, limit : Nat, into : Target, append : BOOLEAN]

View == {i \in DOMAIN Script : Script[i].kind = "view"}
Select == {i \in DOMAIN Script : Script[i].kind \in {"view", "insert"}}

ASSUME ScriptAssumption ==
  /\ Script \in Seq(Fragment) /\ 1 \in Select
  /\ \A i \in Select : Script[i].from \in {0} \union View /\ Script[i].from < i
  /\ \A v \in View : Script[v].from = 0

ASSUME ContentAssumption ==
  /\ Content \in [Run -> Seq(Key)]
  /\ NoLimit \in Nat /\ PoolSize \in Nat /\ MaxFailures \in Nat

VARIABLES
  parsed,   \* how many fragments the parser has left behind
  ops,      \* the statements parsed so far (the memoized stream)
  once,     \* View.once of each view
  count,    \* Count.count of each SELECT
  file,     \* the rows of each target
  pc,       \* where each run is
  at,       \* how many statements it has begun
  views,    \* the views in its scope
  query,    \* the query it executes
  inputs,   \* the statements whose input it opened and did not close
  out,      \* the rows in the buffer of its writer
  result,   \* how it ended
  failures, \* how many reads or opens failed
  spoilt,   \* history: SELECTs in which a run threw between update and evaluate
  created,  \* history: the views of which some run has executed CREATE VIEW
  alone     \* history: no other run was active with it, and none had spoilt a counter

shared == <<parsed, ops, once, count, file>>
local == <<pc, at, views, query, inputs, out, result>>
history == <<spoilt, created, alone>>
vars == <<shared, local, failures, history>>

-----------------------------------------------------------------------------
(* Queries: the SELECTs a row goes through, at most two (views read files) *)

Column == Key \union {NoKey, Header}
Row == [by : Run, stmt : Nat, key : Column, n : Nat]
RowOf(r, s, k, n) == [by |-> r, stmt |-> s, key |-> k, n |-> n]

\* The SELECTs up to the first one that aggregates: it pulls the rows of all.
Pulled(stages) ==
  IF stages # <<>> /\ Script[Head(stages)].agg # "none" THEN <<Head(stages)>> ELSE stages

\* How the rows are consumed: counted by the SELECT that aggregates, or written.
Mode(q) ==
  IF q.stages = <<>> THEN "none" ELSE Script[Pulled(q.stages)[Len(Pulled(q.stages))]].agg
Consumer(q) == Pulled(q.stages)[Len(Pulled(q.stages))]

\* Mutant: a LIMIT takes one row too many.
ExhaustedLate(q) ==
  \/ q.feed = <<>>
  \/ \E i \in DOMAIN Pulled(q.stages) : q.taken > Script[Pulled(q.stages)[i]].limit

\* take(limit) of every SELECT on the way.
Exhausted(q) ==
  \/ q.feed = <<>>
  \/ \E i \in DOMAIN Pulled(q.stages) : q.taken >= Script[Pulled(q.stages)[i]].limit

\* A query over the given rows; "live" when they are still read from the input.
QueryOver(stages, rows, live) ==
  [stages |-> stages, feed |-> rows, live |-> live, taken |-> 0,
   groups |-> [k \in Column |-> 0], done |-> <<>>, seen |-> 0]
NoQuery == QueryOver(<<>>, <<>>, FALSE)

Statement(r) == ops[at[r]]
Active(r) == pc[r] \notin {"idle", "ended"}
\* The view at hand: the one being created, or the one the INSERT selects from.
TheView(r) ==
  IF Statement(r) \in View THEN Statement(r) ELSE Script[Statement(r)].from

FileRows(r, s) == [i \in DOMAIN Content[r] |-> RowOf(r, s, Content[r][i], 0)]

Init ==
  /\ parsed = 1 /\ ops = <<1>>
  /\ once = [v \in View |-> TRUE]
  /\ count = [s \in Select |-> 0]
  /\ file = [t \in Target |-> <<>>]
  /\ pc = [r \in Run |-> "idle"]
  /\ at = [r \in Run |-> 0]
  /\ views = [r \in Run |-> {}]
  /\ query = [r \in Run |-> NoQuery]
  /\ inputs = [r \in Run |-> {}]
  /\ out = [r \in Run |-> <<>>]
  /\ result = [r \in Run |-> "none"]
  /\ failures = 0
  /\ spoilt = {} /\ created = {}
  /\ alone = [r \in Run |-> FALSE]

-----------------------------------------------------------------------------
(* Statements *)

Goto(r, label) == pc' = [pc EXCEPT ![r] = label]

\* The run ends by an exception, for the given reason.
Throw(r, reason) == Goto(r, "ended") /\ result' = [result EXCEPT ![r] = reason]

\* An actor of the pool takes the file: a scope of its own, the same script.
Begin(r) ==
  /\ pc[r] = "idle" /\ Cardinality({q \in Run : Active(q)}) < PoolSize
  /\ Goto(r, "next")
  /\ alone' = [q \in Run |->
       IF q = r THEN spoilt = {} /\ \A p \in Run : ~Active(p)
       ELSE alone[q] /\ ~Active(q)]
  /\ UNCHANGED <<shared, at, views, query, inputs, out, result, failures, spoilt, created>>

Enter(r, s) ==
  /\ at' = [at EXCEPT ![r] = at[r] + 1]
  /\ Goto(r, IF s \in View THEN "check" ELSE "open")

\* The fold over the statements goes on to one that is already parsed.
NextStatement(r) ==
  /\ pc[r] = "next" /\ at[r] < Len(ops)
  /\ Enter(r, ops[at[r] + 1])
  /\ UNCHANGED <<shared, views, query, inputs, out, result, failures, history>>

\* It forces the tail of the stream: the next statement is parsed, for all runs.
ParseNext(r) ==
  /\ pc[r] = "next" /\ at[r] = Len(ops) /\ parsed < Len(Script)
  /\ parsed + 1 \in Select
  /\ parsed' = parsed + 1 /\ ops' = Append(ops, parsed + 1)
  /\ Enter(r, parsed + 1)
  /\ UNCHANGED <<once, count, file, views, query, inputs, out, result, failures, history>>

\* A syntax error leaves the tokens consumed so far behind, and the tail unforced.
SyntaxError(r) ==
  /\ pc[r] = "next" /\ at[r] = Len(ops) /\ parsed < Len(Script)
  /\ parsed + 1 \notin Select
  /\ parsed' = IF Script[parsed + 1].kind = "broken" THEN parsed + 1 ELSE parsed
  /\ Throw(r, "syntax")
  /\ UNCHANGED <<ops, once, count, file, at, views, query, inputs, out, failures, history>>

Return(r) ==
  /\ pc[r] = "next" /\ at[r] = Len(ops) /\ parsed = Len(Script)
  /\ Goto(r, "ended") /\ result' = [result EXCEPT ![r] = "returned"]
  /\ UNCHANGED <<shared, at, views, query, inputs, out, failures, history>>

\* Mutant: OVERWRITE keeps what the file holds.
OpenTargetKeeps(r) ==
  /\ pc[r] = "open"
  /\ out' = [out EXCEPT ![r] = <<>>]
  /\ Goto(r, "lookup")
  /\ UNCHANGED <<shared, at, views, query, inputs, result, failures, history>>

\* Mutant: the hint "append" is lost.
OpenTargetTruncates(r) ==
  /\ pc[r] = "open"
  /\ file' = [file EXCEPT ![Script[Statement(r)].into] = <<>>]
  /\ out' = [out EXCEPT ![r] = <<>>]
  /\ Goto(r, "lookup")
  /\ UNCHANGED <<parsed, ops, once, count, at, views, query, inputs, result, failures, history>>

\* INSERT opens its target before it executes its source; OVERWRITE truncates.
OpenTarget(r) ==
  /\ pc[r] = "open"
  /\ file' = IF Script[Statement(r)].append THEN file
             ELSE [file EXCEPT ![Script[Statement(r)].into] = <<>>]
  /\ out' = [out EXCEPT ![r] = <<>>]
  /\ Goto(r, "lookup")
  /\ UNCHANGED <<parsed, ops, once, count, at, views, query, inputs, result, failures, history>>

\* close() writes what is in the buffer: at the end, or at the writer's position.
CloseTarget(r) ==
  LET s == Script[Statement(r)] IN
  /\ file' = [file EXCEPT ![s.into] =
                IF s.append THEN @ \o out[r]
                ELSE out[r] \o SubSeq(@, Len(out[r]) + 1, Len(@))]
  /\ out' = [out EXCEPT ![r] = <<>>]

\* Only an INSERT has a writer to close, on the way out of "use".
CloseWriter(r) ==
  IF Statement(r) \in View THEN UNCHANGED <<file, out>> ELSE CloseTarget(r)

\* InputSource.execute: open, and an iterator that has read the first row.  It is
\* closed when the row after the last one is missing, not if there is no row.
OpenInput(r, stages) ==
  /\ inputs' = [inputs EXCEPT ![r] = @ \union {Statement(r)}]
  /\ query' = [query EXCEPT ![r] = QueryOver(stages, FileRows(r, Statement(r)), TRUE)]
  /\ Goto(r, "pull")

LookupSource(r) ==
  LET s == Statement(r) IN
  /\ pc[r] = "lookup"
  /\ \/ /\ Script[s].from = 0 /\ OpenInput(r, <<s>>)
        /\ UNCHANGED <<file, out, result>>
     \/ /\ Script[s].from \in views[r] /\ Goto(r, "check")
        /\ UNCHANGED <<file, query, inputs, out, result>>
     \/ \* neither a view nor a file: "No input source found"
        /\ Script[s].from \in View \ views[r]
        /\ Throw(r, "noview") /\ CloseTarget(r)
        /\ UNCHANGED <<query, inputs>>
  /\ UNCHANGED <<parsed, ops, once, count, at, views, failures, history>>

\* Mutant: the flag is tested the wrong way round.
CheckOnceInverted(r) ==
  LET v == TheView(r) IN
  /\ pc[r] = "check"
  /\ IF ~once[v] THEN Goto(r, "toggle") /\ UNCHANGED <<query, inputs>>
     ELSE OpenInput(r, IF Statement(r) = v THEN <<v>> ELSE <<v, Statement(r)>>)
  /\ UNCHANGED <<shared, at, views, out, result, failures, history>>

\* View.execute: "called first on creation".
CheckOnce(r) ==
  LET v == TheView(r) IN
  /\ pc[r] = "check"
  /\ IF once[v] THEN Goto(r, "toggle") /\ UNCHANGED <<query, inputs>>
     ELSE OpenInput(r, IF Statement(r) = v THEN <<v>> ELSE <<v, Statement(r)>>)
  /\ UNCHANGED <<shared, at, views, out, result, failures, history>>

\* Mutant: the view is registered under the name of the statement at hand.
ToggleOnceMisnamed(r) ==
  LET v == TheView(r) IN
  /\ pc[r] = "toggle"
  /\ \E b \in {FALSE, ~once[v]} : once' = [once EXCEPT ![v] = b]
  /\ views' = [views EXCEPT ![r] = @ \union {Statement(r)}]
  /\ created' = created \union {v}
  /\ Goto(r, "next")
  /\ UNCHANGED <<parsed, ops, count, file, at, query, inputs, out, result, failures, spoilt, alone>>

\* "once = !once" reads once again, before or after another run has changed it.
ToggleOnce(r) ==
  LET v == TheView(r) IN
  /\ pc[r] = "toggle"
  /\ \E b \in {FALSE, ~once[v]} : once' = [once EXCEPT ![v] = b]
  /\ views' = [views EXCEPT ![r] = @ \union {v}]
  /\ created' = created \union {v}
  /\ IF Statement(r) = v THEN Goto(r, "next") /\ UNCHANGED query
     ELSE \* the view's "rows" are one row: ROWS_AFFECTED
       /\ query' = [query EXCEPT ![r] =
            QueryOver(<<Statement(r)>>, <<RowOf(r, Statement(r), NoKey, 1)>>, FALSE)]
       /\ Goto(r, "pull")
  /\ UNCHANGED <<parsed, ops, count, file, at, inputs, out, result, failures, spoilt, alone>>

-----------------------------------------------------------------------------
(* Rows *)

\* Mutant: nobody closes the input.
AdvanceOpen(r, q) == UNCHANGED inputs

\* next() of the input: it reads one row ahead, and closes behind the last one.
Advance(r, q) ==
  inputs' = [inputs EXCEPT ![r] =
    IF q.live /\ Len(q.feed) = 1 THEN @ \ {Statement(r)} ELSE @]

\* Nobody consumes the rows of a view that is not created anew.
Consumed(r) == Statement(r) \notin View \/ Mode(query[r]) # "none"

\* One row goes through the iterators.  The lines of an INSERT fit the buffer of
\* its writer: none of them reaches the file before the writer is closed.
Pull(r) ==
  LET q == query[r]
      rest == [q EXCEPT !.feed = Tail(q.feed), !.taken = q.taken + 1] IN
  /\ pc[r] = "pull" /\ Consumed(r) /\ ~Exhausted(q)
  /\ Advance(r, q)
  /\ CASE Mode(q) = "all"  -> query' = [query EXCEPT ![r] = rest] /\ Goto(r, "load") /\ UNCHANGED out
       [] Mode(q) = "key"  -> \* toSeq: all rows are read before any is counted
            /\ query' = [query EXCEPT ![r] = [rest EXCEPT !.groups[Head(q.feed).key] = @ + 1]]
            /\ UNCHANGED <<pc, out>>
       [] Mode(q) = "none" -> \* the writer puts a header line before the first row
            /\ query' = [query EXCEPT ![r] = rest]
            /\ out' = [out EXCEPT ![r] =
                 (IF @ = <<>> THEN <<RowOf(r, Statement(r), Header, 0)>> ELSE @)
                   \o <<Head(q.feed)>>]
            /\ UNCHANGED pc
  /\ UNCHANGED <<shared, at, views, result, failures, history>>

\* The SELECT around the one that aggregates, if that is the inner one.
Around(stages) == SubSeq(stages, Len(Pulled(stages)) + 1, Len(stages))

\* The rows of the aggregated SELECT are the input of what is around it.
Aggregated(q, row) == QueryOver(Around(q.stages), Append(q.done, row), FALSE)

EndOfRows(r) ==
  LET q == query[r] IN
  /\ pc[r] = "pull" /\ (Exhausted(q) \/ ~Consumed(r))
  /\ CASE Mode(q) = "all"  -> Goto(r, "evaluate") /\ UNCHANGED <<file, query, out>>
       [] Mode(q) = "key"  -> Goto(r, "group") /\ UNCHANGED <<file, query, out>>
       [] Mode(q) = "none" ->
            /\ query' = [query EXCEPT ![r] = NoQuery]
            /\ Goto(r, "next") /\ CloseWriter(r)
  /\ UNCHANGED <<parsed, ops, once, count, at, views, inputs, result, failures, history>>

\* The rows are grouped, and the groups are visited in an order of their own.
ChooseGroup(r) ==
  LET q == query[r] IN
  /\ pc[r] = "group"
  /\ \/ /\ \A k \in Column : q.groups[k] = 0
        /\ query' = [query EXCEPT ![r] = QueryOver(Around(q.stages), q.done, FALSE)]
        /\ Goto(r, "pull")
     \/ \E k \in Column :
          /\ q.groups[k] > 0
          /\ query' = [query EXCEPT ![r] = [q EXCEPT !.groups[k] = 0,
               !.feed = [i \in 1..q.groups[k] |-> RowOf(r, Statement(r), k, 0)]]]
          /\ Goto(r, "load")
  /\ UNCHANGED <<shared, at, views, inputs, out, result, failures, history>>

\* "count += 1" reads the counter and writes it: another run may come between.
LoadCount(r) ==
  /\ pc[r] = "load"
  /\ query' = [query EXCEPT ![r].seen = count[Consumer(query[r])]]
  /\ Goto(r, "store")
  /\ UNCHANGED <<shared, at, views, inputs, out, result, failures, history>>

StoreCount(r) ==
  LET q == query[r] IN
  /\ pc[r] = "store"
  /\ count' = [count EXCEPT ![Consumer(q)] = q.seen + 1]
  /\ IF Mode(q) = "all" THEN Goto(r, "pull") /\ UNCHANGED query
     ELSE /\ Goto(r, IF Len(q.feed) = 1 THEN "evaluate" ELSE "load")
          /\ query' = [query EXCEPT ![r].feed = IF Len(@) = 1 THEN @ ELSE Tail(@)]
  /\ UNCHANGED <<parsed, ops, once, file, at, views, inputs, out, result, failures, history>>

\* evaluate returns the counter, and then sets it to 0.
Evaluate(r) ==
  /\ pc[r] = "evaluate"
  /\ query' = [query EXCEPT ![r].seen = count[Consumer(query[r])]]
  /\ Goto(r, "reset")
  /\ UNCHANGED <<shared, at, views, inputs, out, result, failures, history>>

\* Mutant: the accumulator is not reset.
ResetCountNever(r) ==
  LET q == query[r]
      row == RowOf(r, Statement(r), IF Mode(q) = "key" THEN Head(q.feed).key ELSE NoKey, q.seen) IN
  /\ pc[r] = "reset"
  /\ IF Mode(q) = "all"
     THEN query' = [query EXCEPT ![r] = Aggregated(q, row)] /\ Goto(r, "pull")
     ELSE query' = [query EXCEPT ![r].done = Append(@, row)] /\ Goto(r, "group")
  /\ UNCHANGED <<shared, at, views, inputs, out, result, failures, history>>

ResetCount(r) ==
  LET q == query[r]
      row == RowOf(r, Statement(r), IF Mode(q) = "key" THEN Head(q.feed).key ELSE NoKey, q.seen) IN
  /\ pc[r] = "reset"
  /\ count' = [count EXCEPT ![Consumer(q)] = 0]
  /\ IF Mode(q) = "all"
     THEN query' = [query EXCEPT ![r] = Aggregated(q, row)] /\ Goto(r, "pull")
     ELSE query' = [query EXCEPT ![r].done = Append(@, row)] /\ Goto(r, "group")
  /\ UNCHANGED <<parsed, ops, once, file, at, views, inputs, out, result, failures, history>>

\* The next step opens the input of the query and reads its first row.
Opening(r) ==
  \/ pc[r] = "lookup" /\ Script[Statement(r)].from = 0
  \/ pc[r] = "check" /\ ~once[TheView(r)]

\* The opening of the target or of the input, or a read, throws.  The target is
\* closed on the way out of the INSERT, and so written; the input is not.
Fail(r) ==
  LET q == query[r] IN
  /\ failures < MaxFailures /\ failures' = failures + 1
  /\ \/ pc[r] = "open" /\ UNCHANGED <<file, inputs, out, spoilt>>
     \/ /\ Opening(r) /\ CloseWriter(r)
        /\ \/ UNCHANGED inputs
           \/ \* it is open, and its first row cannot be read
              inputs' = [inputs EXCEPT ![r] = @ \union {Statement(r)}]
        /\ UNCHANGED spoilt
     \/ /\ pc[r] = "pull" /\ q.live /\ ~Exhausted(q) /\ CloseWriter(r)
        /\ spoilt' = IF Mode(q) = "all" THEN spoilt \union {Consumer(q)} ELSE spoilt
        /\ UNCHANGED inputs
  /\ Throw(r, "io")
  /\ UNCHANGED <<parsed, ops, once, count, at, views, query, created, alone>>

Step(r) ==
  \/ NextStatement(r) \/ ParseNext(r) \/ SyntaxError(r) \/ Return(r)
  \/ OpenTarget(r) \/ LookupSource(r) \/ CheckOnce(r) \/ ToggleOnce(r)
  \/ Pull(r) \/ EndOfRows(r) \/ ChooseGroup(r)
  \/ LoadCount(r) \/ StoreCount(r) \/ Evaluate(r) \/ ResetCount(r)

Next == \E r \in Run : Begin(r) \/ Step(r) \/ Fail(r)

Spec == Init /\ [][Next]_vars
=============================================================================
