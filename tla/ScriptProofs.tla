----------------------------- MODULE ScriptProofs -----------------------------
(***************************************************************************)
(* Safety of the runs of a script, for any script, any number of runs and  *)
(* actors, any files and any number of failing reads: ScriptInv is         *)
(* inductive, and what is said of counters and views follows from it.      *)
(***************************************************************************)
EXTENDS ScriptInvariant, SequenceTheorems, TLAPS

-----------------------------------------------------------------------------
(* Fragments and queries *)

\* What the assumptions say of the fragments of the script.
LEMMA Fragments ==
  /\ View \subseteq Select /\ Select \subseteq 1..Len(Script) /\ Select \subseteq Nat \ {0}
  /\ Len(Script) \in Nat /\ Len(Script) >= 1
  /\ \A s \in Select : /\ Script[s] \in Fragment
                       /\ Script[s].from \in {0} \union View /\ Script[s].from < s
<1>1. /\ Script \in Seq(Fragment) /\ 1 \in Select
      /\ \A s \in Select : Script[s].from \in {0} \union View /\ Script[s].from < s
  BY ScriptAssumption DEF ScriptAssumption
<1>2. Len(Script) \in Nat /\ DOMAIN Script = 1..Len(Script)
  BY <1>1
<1>3. Select \subseteq 1..Len(Script) /\ View \subseteq Select
  BY <1>2 DEF Select, View
<1>4. \A s \in Select : Script[s] \in Fragment
  BY <1>1, <1>2, <1>3
<1>5. Select \subseteq Nat \ {0} /\ Len(Script) >= 1
  BY <1>1, <1>2, <1>3
<1> QED
  BY <1>1, <1>2, <1>3, <1>4, <1>5

\* A row of the given columns is a row.
LEMMA RowOfType ==
  ASSUME NEW r \in Run, NEW s \in Select, NEW k \in Column, NEW n \in Nat
  PROVE  RowOf(r, s, k, n) \in Row
  BY Fragments DEF Row, RowOf

\* The rows a source has of a file are rows.
LEMMA FileRowsType ==
  ASSUME NEW r \in Run, NEW s \in Select
  PROVE  FileRows(r, s) \in Seq(Row)
<1>1. Content[r] \in Seq(Key)
  BY ContentAssumption DEF ContentAssumption
<1>2. \A i \in 1..Len(Content[r]) : RowOf(r, s, Content[r][i], 0) \in Row
  BY <1>1, RowOfType DEF Column
<1> QED
  BY <1>1, <1>2 DEF FileRows

\* The SELECT that consumes the rows of a query is one of the script.
LEMMA Consumers ==
  ASSUME NEW q \in Query, Len(q.stages) <= 2, Mode(q) \in {"all", "key"}
  PROVE  Consumer(q) \in Select
  BY Fragments DEF Query, Mode, Consumer, Pulled, Fragment

\* The innermost of the stages at hand is a SELECT.
LEMMA LastPulled ==
  ASSUME NEW stages \in Seq(Select), stages # <<>>
  PROVE  Pulled(stages)[Len(Pulled(stages))] \in Select
<1>1. Len(stages) \in Nat \ {0}
  BY EmptySeq, Zenon
<1>2. stages[Len(stages)] \in Select /\ Head(stages) \in Select
  BY <1>1
<1>3. CASE Pulled(stages) = stages
  BY <1>2, <1>3
<1>4. CASE Pulled(stages) = <<Head(stages)>>
  BY <1>2, <1>4
<1> QED
  BY <1>3, <1>4 DEF Pulled

\* A query counts not at all, over all rows, or by key.
LEMMA Modes ==
  ASSUME NEW q \in Query
  PROVE  Mode(q) \in {"none", "all", "key"}
<1>1. CASE q.stages = <<>>
  BY <1>1 DEF Mode
<1>2. CASE q.stages # <<>>
  <2>1. q.stages \in Seq(Select)
    BY DEF Query
  <2>2. Pulled(q.stages)[Len(Pulled(q.stages))] \in Select
    BY <1>2, <2>1, LastPulled
  <2> QED
    BY <1>2, <2>2, Fragments DEF Mode, Fragment
<1> QED
  BY <1>1, <1>2

\* Queries are changed one or two columns at a time.
LEMMA QueryRow ==
  ASSUME NEW q \in Query, NEW rows \in Seq(Row), NEW n \in Nat
  PROVE  LET new == [q EXCEPT !.feed = rows, !.taken = n] IN
         new \in Query /\ new.stages = q.stages /\ new.groups = q.groups
  BY DEF Query

\* Counting a row of a group.
LEMMA QueryGroup ==
  ASSUME NEW q \in Query, NEW k \in Column
  PROVE  LET new == [q EXCEPT !.groups[k] = @ + 1] IN
         new \in Query /\ new.stages = q.stages
<1>1. q.groups \in [Column -> Nat]
  BY DEF Query
<1>2. [q.groups EXCEPT ![k] = @ + 1] \in [Column -> Nat]
  BY <1>1
<1> DEFINE more == [q.groups EXCEPT ![k] = @ + 1]
<1>3. [q EXCEPT !.groups[k] = @ + 1] = [q EXCEPT !.groups = more]
  OBVIOUS
<1> HIDE DEF more
<1>4. [q EXCEPT !.groups = more] \in Query /\ [q EXCEPT !.groups = more].stages = q.stages
  BY <1>2 DEF Query, more
<1> QED
  BY <1>3, <1>4

\* Feeding the rows of the next group.
LEMMA QueryNextGroup ==
  ASSUME NEW q \in Query, NEW rows \in Seq(Row), NEW k \in Column
  PROVE  LET new == [q EXCEPT !.groups[k] = 0, !.feed = rows] IN
         new \in Query /\ new.stages = q.stages /\ new.feed = rows
  BY DEF Query

\* Taking a row from the feed.
LEMMA QueryFeed ==
  ASSUME NEW q \in Query, NEW rows \in Seq(Row)
  PROVE  LET new == [q EXCEPT !.feed = rows] IN
         new \in Query /\ new.stages = q.stages /\ new.feed = rows
  BY DEF Query

\* Adding a row to the result.
LEMMA QueryDone ==
  ASSUME NEW q \in Query, NEW rows \in Seq(Row)
  PROVE  LET new == [q EXCEPT !.done = rows] IN
         new \in Query /\ new.stages = q.stages
  BY DEF Query

\* Reading a counter.
LEMMA QuerySeen ==
  ASSUME NEW q \in Query, NEW n \in Nat
  PROVE  LET new == [q EXCEPT !.seen = n] IN
         new \in Query /\ new.stages = q.stages /\ new.feed = q.feed
  BY DEF Query

\* What is left around it.
LEMMA Arounds ==
  ASSUME NEW stages \in Seq(Select), Len(stages) <= 2
  PROVE  Around(stages) \in Seq(Select) /\ Len(Around(stages)) <= 2
<1>1. CASE Pulled(stages) = stages
  BY <1>1 DEF Around
<1>2. CASE stages # <<>> /\ Pulled(stages) = <<Head(stages)>>
  BY <1>2 DEF Around
<1> QED
  BY <1>1, <1>2 DEF Pulled

\* A new iterator over some rows is a query.
LEMMA QueryOverType ==
  ASSUME NEW stages \in Seq(Select), Len(stages) <= 2, NEW rows \in Seq(Row), NEW live \in BOOLEAN
  PROVE  /\ QueryOver(stages, rows, live) \in Query
         /\ QueryOver(stages, rows, live).stages = stages
         /\ QueryOver(stages, rows, live).feed = rows
  BY DEF QueryOver, Query

\* A run in the middle of a statement executes a SELECT of the script.
LEMMA Statements ==
  ASSUME TypeOK, StatementAtHand, NEW r \in Run,
         pc[r] \notin {"idle", "next", "ended"} \/ result[r] = "noview"
  PROVE  /\ Statement(r) \in Select
         /\ at[r] \in 1..Len(ops)
         /\ pc[r] \in {"check", "toggle"} => TheView(r) \in View
  BY Fragments DEF TypeOK, StatementAtHand, StatementOf, Statement

-----------------------------------------------------------------------------
(* Types and places *)

\* The lines of a target after a writer was closed.
LEMMA CloseTargetType ==
  ASSUME TypeOK, NEW r \in Run, Statement(r) \in Select, CloseTarget(r)
  PROVE  file' \in [Target -> Seq(Row)] /\ out' \in [Run -> Seq(Row)]
<1> DEFINE s == Script[Statement(r)]
           lines == IF s.append THEN file[s.into] \o out[r]
                    ELSE out[r] \o SubSeq(file[s.into], Len(out[r]) + 1, Len(file[s.into]))
<1>1. s.into \in Target
  BY Fragments DEF Fragment
<1>2. file[s.into] \in Seq(Row) /\ out[r] \in Seq(Row)
  BY <1>1 DEF TypeOK
<1>3. SubSeq(file[s.into], Len(out[r]) + 1, Len(file[s.into])) \in Seq(Row)
  BY <1>2
<1>4. lines \in Seq(Row)
  BY <1>2, <1>3
<1>5. file' = [file EXCEPT ![s.into] = lines] /\ out' = [out EXCEPT ![r] = <<>>]
  BY DEF CloseTarget
<1>6. file' \in [Target -> Seq(Row)]
  BY <1>4, <1>5 DEF TypeOK
<1>7. <<>> \in Seq(Row) /\ out \in [Run -> Seq(Row)]
  BY DEF TypeOK
<1>8. out' \in [Run -> Seq(Row)]
  BY <1>5, <1>7
<1> QED
  BY <1>6, <1>8

\* The way out of a statement: the writer of an INSERT is closed.
LEMMA CloseWriterType ==
  ASSUME TypeOK, NEW r \in Run, Statement(r) \in Select, CloseWriter(r)
  PROVE  file' \in [Target -> Seq(Row)] /\ out' \in [Run -> Seq(Row)]
<1>1. CASE Statement(r) \in View
  BY <1>1 DEF CloseWriter, TypeOK
<1>2. CASE Statement(r) \notin View
  BY <1>2, CloseTargetType DEF CloseWriter
<1> QED
  BY <1>1, <1>2

\* Opening a source begins a query with the stages asked for.
LEMMA OpenInputType ==
  ASSUME TypeOK, NEW r \in Run, Statement(r) \in Select,
         NEW stages \in Seq(Select), Len(stages) <= 2, OpenInput(r, stages)
  PROVE  /\ query' \in [Run -> Query] /\ inputs' \in [Run -> SUBSET Select]
         /\ pc' = [pc EXCEPT ![r] = "pull"]
         /\ query' = [query EXCEPT ![r] = query'[r]]
         /\ query'[r].stages = stages
<1>1. QueryOver(stages, FileRows(r, Statement(r)), TRUE) \in Query
  BY FileRowsType, QueryOverType
<1> QED
  BY <1>1, QueryOverType, FileRowsType DEF OpenInput, Goto, TypeOK

\* A run enters the statement it is at.
LEMMA EnterType ==
  ASSUME Structure, NEW r \in Run, at[r] < Len(ops'), NEW s, Enter(r, s)
  PROVE  /\ at' = [at EXCEPT ![r] = at[r] + 1]
         /\ pc' = [pc EXCEPT ![r] = IF s \in View THEN "check" ELSE "open"]
  BY DEF Enter, Goto

\* The statements parsed are SELECTs of fragments that are left behind.
LEMMA ParsedStatements ==
  ASSUME TypeOK, ParsedInOrder
  PROVE  /\ Len(ops) \in Nat /\ DOMAIN ops = 1..Len(ops)
         /\ \A i \in 1..Len(ops) : ops[i] \in Select /\ ops[i] \in Nat /\ ops[i] <= parsed
<1>1. Len(ops) \in Nat /\ DOMAIN ops = 1..Len(ops) /\ \A i \in 1..Len(ops) : ops[i] \in Select
  BY DEF TypeOK
<1>2. \A i \in 1..Len(ops) : ops[i] \in Nat
  BY <1>1, Fragments
<1> QED
  BY <1>1, <1>2 DEF ParsedInOrder

\* The structural invariant holds before the first run.
LEMMA InitStructure ==
  ASSUME Init
  PROVE  Structure
<1>1. 1 \in Select
  BY ScriptAssumption DEF ScriptAssumption
<1>0. <<>> \in Seq(Select) /\ <<>> \in Seq(Row) /\ Len(<<>>) <= 2
  OBVIOUS
<1>2. NoQuery \in Query /\ NoQuery.stages = <<>>
  BY <1>0, QueryOverType DEF NoQuery
<1>3. TypeOK
  BY <1>1, <1>2, Fragments DEF Init, TypeOK
<1>4. ParsedInOrder
  BY <1>1, Fragments DEF Init, ParsedInOrder
<1>5. StatementAtHand
  BY DEF Init, StatementAtHand, StatementOf
<1>6. QueryAtHand
  BY <1>2 DEF Init, QueryAtHand, QueryOf, AtAggregate
<1> QED
  BY <1>3, <1>4, <1>5, <1>6 DEF Structure

\* The parser goes on, or nobody parses.
LEMMA ParsingStep ==
  ASSUME Structure, Next
  PROVE  \/ UNCHANGED <<parsed, ops>>
         \/ /\ parsed + 1 \in Select /\ parsed < Len(Script)
            /\ parsed' = parsed + 1 /\ ops' = Append(ops, parsed + 1)
         \/ /\ parsed + 1 \notin Select /\ parsed < Len(Script)
            /\ parsed' = parsed + 1 /\ ops' = ops
<1> DEFINE Goal ==
      \/ UNCHANGED <<parsed, ops>>
      \/ /\ parsed + 1 \in Select /\ parsed < Len(Script)
         /\ parsed' = parsed + 1 /\ ops' = Append(ops, parsed + 1)
      \/ /\ parsed + 1 \notin Select /\ parsed < Len(Script)
         /\ parsed' = parsed + 1 /\ ops' = ops
<1>1. SUFFICES ASSUME NEW r \in Run, Begin(r) \/ Step(r) \/ Fail(r) PROVE Goal
  BY DEF Next
<1>2. CASE ParseNext(r)
  BY <1>2 DEF ParseNext
<1>3. CASE SyntaxError(r)
  BY <1>3 DEF SyntaxError
<1>4. CASE Begin(r) \/ Fail(r) \/ NextStatement(r) \/ Return(r) \/ OpenTarget(r)
  BY <1>4 DEF Begin, Fail, NextStatement, Return, OpenTarget, shared
<1>5. CASE LookupSource(r) \/ CheckOnce(r) \/ ToggleOnce(r)
  BY <1>5 DEF LookupSource, CheckOnce, ToggleOnce, shared
<1>6. CASE Pull(r) \/ EndOfRows(r) \/ ChooseGroup(r)
  BY <1>6 DEF Pull, EndOfRows, ChooseGroup, shared
<1>7. CASE LoadCount(r) \/ StoreCount(r) \/ Evaluate(r) \/ ResetCount(r)
  BY <1>7 DEF LoadCount, StoreCount, Evaluate, ResetCount, shared
<1> QED
  BY <1>1, <1>2, <1>3, <1>4, <1>5, <1>6, <1>7 DEF Step

\* Parsed statements are only ever added to.
LEMMA ParsedInOrderStep ==
  ASSUME Structure, Next
  PROVE  /\ ParsedInOrder' /\ parsed' \in 1..Len(Script) /\ ops' \in Seq(Select)
         /\ Len(ops) <= Len(ops') /\ \A i \in 1..Len(ops) : ops'[i] = ops[i]
<1> USE DEF Structure
<1>1. parsed \in Nat /\ 1 <= parsed /\ Len(Script) \in Nat
  BY Fragments DEF TypeOK
<1>2. CASE UNCHANGED <<parsed, ops>>
  BY <1>2, ParsedStatements DEF ParsedInOrder, TypeOK
<1>3. CASE /\ parsed + 1 \in Select /\ parsed < Len(Script)
           /\ parsed' = parsed + 1 /\ ops' = Append(ops, parsed + 1)
  <2>1. /\ ops' \in Seq(Select) /\ Len(ops') = Len(ops) + 1
        /\ \A i \in 1..Len(ops) : ops'[i] = ops[i]
        /\ ops'[Len(ops) + 1] = parsed + 1
        /\ DOMAIN ops' = 1..(Len(ops) + 1)
    BY <1>3, ParsedStatements DEF TypeOK
  <2>2. \A i \in DOMAIN ops' : ops'[i] <= parsed'
    BY <1>1, <1>3, <2>1, ParsedStatements
  <2>3. \A i, j \in DOMAIN ops' : i < j => ops'[i] < ops'[j]
    <3>1. SUFFICES ASSUME NEW i \in DOMAIN ops', NEW j \in DOMAIN ops', i < j
                   PROVE  ops'[i] < ops'[j]
      OBVIOUS
    <3>2. i \in 1..Len(ops)
      BY <2>1, <3>1, ParsedStatements
    <3>3. CASE j \in 1..Len(ops)
      BY <2>1, <3>1, <3>2, <3>3, ParsedStatements DEF ParsedInOrder
    <3>4. CASE j = Len(ops) + 1
      BY <1>1, <2>1, <3>2, <3>4, ParsedStatements
    <3> QED
      BY <2>1, <3>3, <3>4, ParsedStatements
  <2>4. \A s \in Select : s <= parsed' => \E i \in DOMAIN ops' : ops'[i] = s
    <3>1. SUFFICES ASSUME NEW s \in Select, s <= parsed' PROVE \E i \in DOMAIN ops' : ops'[i] = s
      OBVIOUS
    <3>2. CASE s = parsed + 1
      BY <2>1, <3>2, ParsedStatements
    <3>3. CASE s <= parsed
      <4>1. PICK i \in DOMAIN ops : ops[i] = s
        BY <3>3 DEF ParsedInOrder
      <4> QED
        BY <2>1, <4>1, ParsedStatements
    <3> QED
      BY <1>1, <1>3, <3>1, <3>2, <3>3, Fragments
  <2> QED
    BY <1>1, <1>3, <2>1, <2>2, <2>3, <2>4, ParsedStatements DEF ParsedInOrder
<1>4. CASE /\ parsed + 1 \notin Select /\ parsed < Len(Script)
           /\ parsed' = parsed + 1 /\ ops' = ops
  <2>1. \A s \in Select : s <= parsed + 1 => s <= parsed
    BY <1>1, <1>4, Fragments
  <2>2. \A s \in Select : s <= parsed' => \E i \in DOMAIN ops' : ops'[i] = s
    BY <1>4, <2>1 DEF ParsedInOrder
  <2>3. \A i \in DOMAIN ops' : ops'[i] <= parsed'
    BY <1>1, <1>4, ParsedStatements
  <2>4. \A i, j \in DOMAIN ops' : i < j => ops'[i] < ops'[j]
    BY <1>4 DEF ParsedInOrder
  <2> QED
    BY <1>1, <1>4, <2>2, <2>3, <2>4, ParsedStatements DEF ParsedInOrder, TypeOK
<1> QED
  BY <1>2, <1>3, <1>4, ParsingStep

\* A run between statements has the query with no stages.
LEMMA NoQueryType == NoQuery \in Query /\ NoQuery.stages = <<>> /\ Mode(NoQuery) = "none"
<1>1. <<>> \in Seq(Select) /\ <<>> \in Seq(Row) /\ Len(<<>>) <= 2
  OBVIOUS
<1> QED
  BY <1>1, QueryOverType DEF NoQuery, Mode

\* A step of Pull: the row at the head of the feed is taken.
LEMMA PullType ==
  ASSUME Structure, NEW r \in Run, Pull(r)
  PROVE  /\ query' \in [Run -> Query] /\ inputs' \in [Run -> SUBSET Select]
         /\ pc' = [pc EXCEPT ![r] = IF Mode(query[r]) = "all" THEN "load" ELSE pc[r]]
         /\ out' \in [Run -> Seq(Row)]
         /\ query' = [query EXCEPT ![r] = query'[r]]
         /\ query'[r].stages = query[r].stages
<1> USE DEF Structure
<1> DEFINE q == query[r]
<1>1. q \in Query /\ q.feed \in Seq(Row) /\ q.feed # <<>>
  BY DEF TypeOK, Query, Pull, Exhausted
<1>2. Head(q.feed) \in Row /\ Tail(q.feed) \in Seq(Row)
  BY <1>1
<1>3. Statement(r) \in Select /\ pc[r] = "pull"
  BY Statements DEF Pull
<1>4. inputs' \in [Run -> SUBSET Select]
  BY <1>3 DEF Pull, Advance, TypeOK
<1>5. RowOf(r, Statement(r), Header, 0) \in Row
  BY <1>3, RowOfType DEF Column
<1>6. out[r] \in Seq(Row)
  BY DEF TypeOK
<1>7. (IF out[r] = <<>> THEN <<RowOf(r, Statement(r), Header, 0)>> ELSE out[r])
         \o <<Head(q.feed)>> \in Seq(Row)
  BY <1>2, <1>5, <1>6
<1> DEFINE rest == [q EXCEPT !.feed = Tail(q.feed), !.taken = q.taken + 1]
<1>8. q.taken + 1 \in Nat /\ Head(q.feed).key \in Column
  BY <1>1, <1>2 DEF Query, Row
<1>9. rest \in Query /\ rest.stages = q.stages
  BY <1>1, <1>2, <1>8, QueryRow
<1>10. [rest EXCEPT !.groups[Head(q.feed).key] = @ + 1] \in Query
  BY <1>8, <1>9, QueryGroup
<1>11. [rest EXCEPT !.groups[Head(q.feed).key] = @ + 1].stages = q.stages
  BY <1>8, <1>9, QueryGroup
<1>12. CASE Mode(q) = "all"
  <2>1. query' = [query EXCEPT ![r] = rest] /\ Goto(r, "load") /\ UNCHANGED out
    BY <1>12 DEF Pull
  <2> QED
    BY <1>4, <1>9, <1>12, <2>1 DEF Goto, TypeOK
<1>13. CASE Mode(q) = "key"
  <2>1. /\ query' = [query EXCEPT ![r] = [rest EXCEPT !.groups[Head(q.feed).key] = @ + 1]]
        /\ UNCHANGED <<pc, out>>
    BY <1>13 DEF Pull
  <2> QED
    BY <1>4, <1>10, <1>11, <1>13, <2>1 DEF TypeOK
<1>14. CASE Mode(q) = "none"
  <2>1. /\ query' = [query EXCEPT ![r] = rest] /\ UNCHANGED pc
        /\ out' = [out EXCEPT ![r] =
             (IF @ = <<>> THEN <<RowOf(r, Statement(r), Header, 0)>> ELSE @) \o <<Head(q.feed)>>]
    BY <1>14 DEF Pull
  <2> QED
    BY <1>4, <1>7, <1>9, <1>14, <2>1 DEF TypeOK
<1>15. Mode(q) \in {"all", "key", "none"}
  BY <1>1, Modes
<1> QED
  BY <1>12, <1>13, <1>14, <1>15

\* The runs that do not take the step stay where they are.
Others(r) ==
  \A o \in Run \ {r} :
    pc'[o] = pc[o] /\ at'[o] = at[o] /\ result'[o] = result[o] /\ query'[o] = query[o]

\* A step of one run leaves the statements and queries of the others in order.
LEMMA OthersStay ==
  ASSUME Structure, Next, NEW r \in Run, Others(r), TypeOK', StatementOf(r)', QueryOf(r)'
  PROVE  Structure'
<1>1. /\ Len(ops) \in Nat /\ Len(ops') \in Nat /\ Len(ops) <= Len(ops') /\ ParsedInOrder'
      /\ \A i \in 1..Len(ops) : ops'[i] = ops[i]
  BY ParsedInOrderStep, ParsedStatements DEF Structure
<1>2. SUFFICES ASSUME NEW o \in Run \ {r} PROVE StatementOf(o)' /\ QueryOf(o)'
  BY <1>1 DEF Structure, StatementAtHand, QueryAtHand
<1>3. /\ pc'[o] = pc[o] /\ at'[o] = at[o] /\ result'[o] = result[o] /\ query'[o] = query[o]
      /\ at[o] \in Nat /\ StatementOf(o) /\ QueryOf(o)
  BY DEF Others, Structure, TypeOK, StatementAtHand, QueryAtHand
<1>4. QueryOf(o)'
  BY <1>3 DEF QueryOf
<1>5. at[o] >= 1 => Statement(o)' = Statement(o) /\ TheView(o)' = TheView(o)
  BY <1>1, <1>3 DEF StatementOf, Statement, TheView
<1>6. StatementOf(o)'
  BY <1>1, <1>3, <1>5 DEF StatementOf
<1> QED
  BY <1>4, <1>6

\* Begin keeps the structure.
LEMMA BeginStructure ==
  ASSUME Structure, Next, NEW r \in Run, Begin(r)
  PROVE  Structure'
<1>1. /\ pc' = [pc EXCEPT ![r] = "next"] /\ alone' \in [Run -> BOOLEAN] /\ pc[r] = "idle"
      /\ UNCHANGED <<shared, at, views, query, inputs, out, result, failures, spoilt, created>>
  BY DEF Begin, Goto, Structure, TypeOK
<1>2. TypeOK'
  BY <1>1 DEF Structure, TypeOK, shared
<1>3. StatementOf(r) /\ QueryOf(r) /\ pc'[r] = "next"
  BY <1>1 DEF Structure, TypeOK, StatementAtHand, QueryAtHand
<1>4. StatementOf(r)' /\ QueryOf(r)'
  BY <1>1, <1>3 DEF StatementOf, QueryOf, Statement, TheView, AtAggregate, shared
<1>5. Others(r)
  BY <1>1 DEF Others, Structure, TypeOK
<1> QED
  BY <1>2, <1>4, <1>5, OthersStay

\* The two ways to the next statement.
LEMMA EnterStructure ==
  ASSUME Structure, Next, NEW r \in Run, pc[r] = "next", at[r] + 1 <= Len(ops'),
         Enter(r, ops'[at[r] + 1]),
         UNCHANGED <<once, count, file, views, query, inputs, out, result, failures, history>>
  PROVE  Structure'
<1> DEFINE s == ops'[at[r] + 1]
<1>1. /\ at' = [at EXCEPT ![r] = at[r] + 1]
      /\ pc' = [pc EXCEPT ![r] = IF s \in View THEN "check" ELSE "open"]
  BY DEF Enter, Goto
<1>2. parsed' \in 1..Len(Script) /\ ops' \in Seq(Select) /\ at[r] \in Nat
  BY ParsedInOrderStep DEF Structure, TypeOK
<1>3. TypeOK'
  BY <1>1, <1>2 DEF Structure, TypeOK, history
<1>4. StatementOf(r) /\ QueryOf(r) /\ at'[r] = at[r] + 1 /\ result[r] = "none"
      /\ pc'[r] = (IF s \in View THEN "check" ELSE "open")
  BY <1>1 DEF Structure, TypeOK, StatementAtHand, StatementOf, QueryAtHand
<1>5. Statement(r)' = s
  BY <1>4 DEF Statement
<1>6. StatementOf(r)'
  BY <1>2, <1>4, <1>5 DEF StatementOf, TheView
<1>7. QueryOf(r)'
  BY <1>4 DEF QueryOf, AtAggregate
<1>8. Others(r)
  BY <1>1 DEF Others, Structure, TypeOK
<1> QED
  BY <1>3, <1>6, <1>7, <1>8, OthersStay

\* Going to the next statement keeps the structure.
LEMMA NextStructure ==
  ASSUME Structure, Next, NEW r \in Run, NextStatement(r) \/ ParseNext(r)
  PROVE  Structure'
<1>1. at[r] \in Nat /\ Len(ops) \in Nat /\ ops \in Seq(Select)
  BY DEF Structure, TypeOK
<1>2. CASE NextStatement(r)
  BY <1>1, <1>2, EnterStructure DEF NextStatement, shared
<1>3. CASE ParseNext(r)
  <2>1. ops' = Append(ops, parsed + 1) /\ at[r] = Len(ops) /\ parsed + 1 \in Select
    BY <1>3 DEF ParseNext
  <2>2. ops'[at[r] + 1] = parsed + 1 /\ at[r] + 1 <= Len(ops')
    BY <1>1, <2>1
  <2> QED
    BY <1>3, <2>2, EnterStructure DEF ParseNext
<1> QED
  BY <1>2, <1>3

\* A run that ends keeps its query and its statement.
LEMMA EndStructure ==
  ASSUME Structure, Next, NEW r \in Run, NEW why \in {"returned", "syntax", "noview", "io"},
         pc' = [pc EXCEPT ![r] = "ended"], result' = [result EXCEPT ![r] = why],
         why = "noview" => at[r] >= 1,
         file' \in [Target -> Seq(Row)], failures' \in Nat, spoilt' \subseteq Select,
         inputs' \in [Run -> SUBSET Select], out' \in [Run -> Seq(Row)],
         UNCHANGED <<once, count, at, views, query, created, alone>>
  PROVE  Structure'
<1>1. parsed' \in 1..Len(Script) /\ ops' \in Seq(Select) /\ Len(ops) <= Len(ops')
      /\ Len(ops) \in Nat /\ Len(ops') \in Nat /\ at[r] \in Nat
  BY ParsedInOrderStep DEF Structure, TypeOK
<1>2. TypeOK'
  BY <1>1 DEF Structure, TypeOK
<1>3. StatementOf(r) /\ QueryOf(r) /\ pc'[r] = "ended" /\ result'[r] = why
  BY DEF Structure, TypeOK, StatementAtHand, QueryAtHand
<1>4. StatementOf(r)' /\ QueryOf(r)'
  BY <1>1, <1>3 DEF StatementOf, QueryOf, AtAggregate
<1>5. Others(r)
  BY DEF Others, Structure, TypeOK
<1> QED
  BY <1>2, <1>4, <1>5, OthersStay

\* Ending, in each of its ways, keeps the structure.
LEMMA EndsStructure ==
  ASSUME Structure, Next, NEW r \in Run, SyntaxError(r) \/ Return(r) \/ Fail(r)
  PROVE  Structure'
<1>1. /\ file \in [Target -> Seq(Row)] /\ failures \in Nat /\ spoilt \subseteq Select
      /\ inputs \in [Run -> SUBSET Select] /\ out \in [Run -> Seq(Row)]
  BY DEF Structure, TypeOK
<1>2. CASE SyntaxError(r)
  BY <1>1, <1>2, EndStructure DEF SyntaxError, Throw, Goto, history
<1>3. CASE Return(r)
  BY <1>1, <1>3, EndStructure DEF Return, Goto, shared, history
<1>4. CASE Fail(r)
  <2>1. /\ pc' = [pc EXCEPT ![r] = "ended"] /\ result' = [result EXCEPT ![r] = "io"]
        /\ failures' \in Nat
        /\ UNCHANGED <<once, count, at, views, query, created, alone>>
    BY <1>1, <1>4 DEF Fail, Throw, Goto
  <2>2. CASE UNCHANGED <<file, inputs, out, spoilt>>
    BY <1>1, <2>1, <2>2, EndStructure
  <2>3. CASE /\ Opening(r) /\ CloseWriter(r) /\ UNCHANGED spoilt
             /\ \/ UNCHANGED inputs
                \/ inputs' = [inputs EXCEPT ![r] = @ \union {Statement(r)}]
    <3>1. Statement(r) \in Select
      BY <2>3, Statements DEF Opening, Structure
    <3>2. file' \in [Target -> Seq(Row)] /\ out' \in [Run -> Seq(Row)]
      BY <2>3, <3>1, CloseWriterType DEF Structure
    <3>3. inputs' \in [Run -> SUBSET Select]
      BY <1>1, <2>3, <3>1
    <3> QED
      BY <1>1, <2>1, <2>3, <3>2, <3>3, EndStructure
  <2>4. CASE /\ pc[r] = "pull" /\ CloseWriter(r) /\ UNCHANGED inputs
             /\ spoilt' = IF Mode(query[r]) = "all" THEN spoilt \union {Consumer(query[r])}
                          ELSE spoilt
    <3>1. Statement(r) \in Select
      BY <2>4, Statements DEF Structure
    <3>2. file' \in [Target -> Seq(Row)] /\ out' \in [Run -> Seq(Row)]
      BY <2>4, <3>1, CloseWriterType DEF Structure
    <3>3. spoilt' \subseteq Select
      BY <1>1, <2>4, Consumers DEF Structure, TypeOK, QueryAtHand, QueryOf
    <3> QED
      BY <1>1, <2>1, <2>4, <3>2, <3>3, EndStructure
  <2> QED
    BY <1>4, <2>2, <2>3, <2>4 DEF Fail
<1> QED
  BY <1>2, <1>3, <1>4

\* A run in the middle of a statement goes on in the same statement, or is through.
LEMMA WorkStructure ==
  ASSUME Structure, Next, NEW r \in Run, pc[r] \notin {"idle", "next", "ended"},
         NEW p \in {"next", "check", "toggle", "lookup", "pull", "group", "load",
                    "store", "evaluate", "reset"},
         pc' = [pc EXCEPT ![r] = p],
         p = "lookup" => Statement(r) \notin View,
         p \in {"check", "toggle"} => TheView(r) \in View,
         query' \in [Run -> Query], \A o \in Run \ {r} : query'[o] = query[o], QueryOf(r)',
         once' \in [View -> BOOLEAN], count' \in [Select -> Nat],
         file' \in [Target -> Seq(Row)], views' \in [Run -> SUBSET View],
         inputs' \in [Run -> SUBSET Select], out' \in [Run -> Seq(Row)],
         created' \subseteq View, UNCHANGED <<at, result, failures, spoilt, alone>>
  PROVE  Structure'
<1>0. parsed' \in 1..Len(Script) /\ ops' \in Seq(Select) /\ Len(ops) <= Len(ops')
      /\ \A i \in 1..Len(ops) : ops'[i] = ops[i]
  BY ParsedInOrderStep, Zenon
<1>1. parsed' \in 1..Len(Script) /\ ops' \in Seq(Select) /\ Len(ops) <= Len(ops')
      /\ Len(ops) \in Nat /\ Len(ops') \in Nat /\ at[r] \in Nat
      /\ \A i \in 1..Len(ops) : ops'[i] = ops[i]
  BY <1>0 DEF Structure, TypeOK
<1>2. TypeOK'
  BY <1>1 DEF Structure, TypeOK
<1>3. StatementOf(r) /\ pc'[r] = p /\ at'[r] = at[r] /\ result'[r] = "none"
  BY DEF Structure, TypeOK, StatementAtHand, StatementOf
<1>4. Statement(r)' = Statement(r) /\ TheView(r)' = TheView(r)
  BY <1>1, <1>3 DEF StatementOf, Statement, TheView
<1>5. StatementOf(r)'
  BY <1>1, <1>3, <1>4 DEF StatementOf
<1>6. Others(r)
  BY DEF Others, Structure, TypeOK
<1> QED
  BY <1>2, <1>5, <1>6, OthersStay

\* OpenTarget keeps the structure.
LEMMA OpenTargetStructure ==
  ASSUME Structure, Next, NEW r \in Run, OpenTarget(r)
  PROVE  Structure'
<1>1. TypeOK /\ StatementOf(r) /\ QueryOf(r) /\ pc[r] = "open"
  BY DEF OpenTarget, Structure, StatementAtHand, QueryAtHand
<1>2. Statement(r) \in Select /\ Statement(r) \notin View
  BY <1>1, Statements DEF StatementOf, Structure
<1>3. /\ file' \in [Target -> Seq(Row)] /\ out' \in [Run -> Seq(Row)]
      /\ pc' = [pc EXCEPT ![r] = "lookup"]
      /\ UNCHANGED <<once, count, views, query, inputs, created>>
      /\ UNCHANGED <<at, result, failures, spoilt, alone>>
  <2>1. file \in [Target -> Seq(Row)] /\ out \in [Run -> Seq(Row)] /\ <<>> \in Seq(Row)
    BY <1>1 DEF TypeOK
  <2>2. file' \in [Target -> Seq(Row)]
    BY <2>1 DEF OpenTarget
  <2>3. out' \in [Run -> Seq(Row)]
    BY <2>1 DEF OpenTarget
  <2> QED
    BY <2>2, <2>3 DEF OpenTarget, Goto, history
<1>4. QueryOf(r)'
  BY <1>1, <1>3 DEF QueryOf, AtAggregate, TypeOK
<1> QED
  BY <1>1, <1>2, <1>3, <1>4, WorkStructure DEF TypeOK

\* An input was opened for a query of the given SELECTs.
LEMMA OpenedStructure ==
  ASSUME Structure, Next, NEW r \in Run, pc[r] \notin {"idle", "next", "ended"},
         NEW stages \in Seq(Select), Len(stages) <= 2, OpenInput(r, stages),
         UNCHANGED <<once, count, file, at, views, out, result, failures, history>>
  PROVE  Structure'
<1>1. TypeOK /\ Statement(r) \in Select
  BY Statements DEF Structure
<1>2. /\ query' \in [Run -> Query] /\ inputs' \in [Run -> SUBSET Select]
      /\ pc' = [pc EXCEPT ![r] = "pull"]
      /\ query' = [query EXCEPT ![r] = query'[r]] /\ query'[r].stages = stages
  BY <1>1, OpenInputType
<1>3. QueryOf(r)'
  BY <1>1, <1>2 DEF QueryOf, AtAggregate, TypeOK
<1>4. /\ UNCHANGED <<once, count, file, views, out, created>>
      /\ UNCHANGED <<at, result, failures, spoilt, alone>>
  BY DEF history
<1>5. \A o \in Run \ {r} : query'[o] = query[o]
  BY <1>1, <1>2 DEF TypeOK
<1> QED
  BY <1>1, <1>2, <1>3, <1>4, <1>5, WorkStructure DEF TypeOK

\* The SELECTs a row of a view goes through.
LEMMA StagesOf ==
  ASSUME Structure, NEW r \in Run, pc[r] = "check"
  PROVE  LET v == TheView(r)
             stages == IF Statement(r) = v THEN <<v>> ELSE <<v, Statement(r)>>
         IN  stages \in Seq(Select) /\ Len(stages) <= 2
<1>1. Statement(r) \in Select /\ TheView(r) \in Select
  BY Statements, Fragments DEF Structure
<1> QED
  BY <1>1

\* LookupSource keeps the structure.
LEMMA LookupStructure ==
  ASSUME Structure, Next, NEW r \in Run, LookupSource(r)
  PROVE  Structure'
<1> DEFINE s == Statement(r)
<1>1. TypeOK /\ StatementOf(r) /\ QueryOf(r) /\ pc[r] = "lookup"
  BY DEF LookupSource, Structure, StatementAtHand, QueryAtHand
<1>2. s \in Select /\ s \notin View
  BY <1>1, Statements DEF StatementOf, Structure
<1>3. /\ UNCHANGED <<once, count, at, views, failures, history>>
      /\ UNCHANGED <<once, count, at, views, failures, spoilt, created, alone>>
  BY DEF LookupSource, history
<1>4. CASE OpenInput(r, <<s>>) /\ UNCHANGED <<file, out, result>>
  <2>1. <<s>> \in Seq(Select) /\ Len(<<s>>) <= 2
    BY <1>2
  <2>2. UNCHANGED <<once, count, file, at, views, out, result, failures, history>>
    BY <1>3, <1>4
  <2> QED
    BY <1>1, <1>4, <2>1, <2>2, OpenedStructure
<1>5. CASE /\ Script[s].from \in views[r] /\ Goto(r, "check")
           /\ UNCHANGED <<file, query, inputs, out, result>>
  <2>1. Script[s].from \in View /\ TheView(r) = Script[s].from
    BY <1>1, <1>2, <1>5 DEF TypeOK, TheView
  <2>2. QueryOf(r)'
    BY <1>1, <1>5 DEF QueryOf, AtAggregate, TypeOK, Goto
  <2> QED
    BY <1>1, <1>3, <1>5, <2>1, <2>2, WorkStructure DEF TypeOK, Goto
<1>6. CASE Throw(r, "noview") /\ CloseTarget(r) /\ UNCHANGED <<query, inputs>>
  <2>1. file' \in [Target -> Seq(Row)] /\ out' \in [Run -> Seq(Row)] /\ at[r] >= 1
    BY <1>1, <1>2, <1>6, CloseTargetType DEF StatementOf
  <2>2. failures' \in Nat /\ spoilt' \subseteq Select /\ inputs' \in [Run -> SUBSET Select]
    BY <1>1, <1>3, <1>6 DEF TypeOK
  <2> QED
    BY <1>3, <1>6, <2>1, <2>2, EndStructure DEF Throw, Goto
<1> QED
  BY <1>4, <1>5, <1>6 DEF LookupSource

\* CheckOnce keeps the structure.
LEMMA CheckOnceStructure ==
  ASSUME Structure, Next, NEW r \in Run, CheckOnce(r)
  PROVE  Structure'
<1> DEFINE v == TheView(r)
           stages == IF Statement(r) = v THEN <<v>> ELSE <<v, Statement(r)>>
<1>1. TypeOK /\ StatementOf(r) /\ QueryOf(r) /\ pc[r] = "check"
  BY DEF CheckOnce, Structure, StatementAtHand, QueryAtHand
<1>2. /\ UNCHANGED <<once, count, file, at, views, out, result, failures, history>>
      /\ UNCHANGED <<once, count, file, at, views, out, result, failures, spoilt, created, alone>>
  BY DEF CheckOnce, shared, history
<1>3. CASE Goto(r, "toggle") /\ UNCHANGED <<query, inputs>>
  <2>1. QueryOf(r)'
    BY <1>1, <1>3 DEF QueryOf, AtAggregate, TypeOK, Goto
  <2> QED
    BY <1>1, <1>2, <1>3, <2>1, WorkStructure DEF TypeOK, Goto, StatementOf
<1>4. CASE OpenInput(r, stages)
  <2>1. stages \in Seq(Select) /\ Len(stages) <= 2
    BY <1>1, StagesOf
  <2> QED
    BY <1>1, <1>2, <1>4, <2>1, OpenedStructure
<1> QED
  BY <1>3, <1>4 DEF CheckOnce

\* ToggleOnce keeps the structure.
LEMMA ToggleOnceStructure ==
  ASSUME Structure, Next, NEW r \in Run, ToggleOnce(r)
  PROVE  Structure'
<1> DEFINE v == TheView(r)
           rows == <<RowOf(r, Statement(r), NoKey, 1)>>
           new == QueryOver(<<Statement(r)>>, rows, FALSE)
<1>1. TypeOK /\ StatementOf(r) /\ QueryOf(r) /\ pc[r] = "toggle"
  BY DEF ToggleOnce, Structure, StatementAtHand, QueryAtHand
<1>2. v \in View /\ Statement(r) \in Select
  BY <1>1, Statements DEF Structure
<1>3. /\ once' \in [View -> BOOLEAN] /\ views' \in [Run -> SUBSET View] /\ created' \subseteq View
  <2>1. once \in [View -> BOOLEAN]
    BY <1>1 DEF TypeOK
  <2>2. PICK b \in {FALSE, ~once[v]} : once' = [once EXCEPT ![v] = b]
    BY Zenon DEF ToggleOnce
  <2>3. b \in BOOLEAN
    BY Zenon
  <2>4. once' \in [View -> BOOLEAN]
    BY <2>1, <2>2, <2>3, Zenon
  <2>5. /\ views' = [views EXCEPT ![r] = @ \union {v}] /\ created' = created \union {v}
    BY DEF ToggleOnce
  <2> QED
    BY <1>1, <1>2, <2>4, <2>5 DEF TypeOK
<1>4. /\ UNCHANGED <<count, file, inputs, out>>
      /\ UNCHANGED <<at, result, failures, spoilt, alone>>
  BY DEF ToggleOnce
<1>5. CASE Goto(r, "next") /\ UNCHANGED query
  <2>1. QueryOf(r)'
    BY <1>1, <1>5 DEF QueryOf, AtAggregate, TypeOK, Goto
  <2> QED
    BY <1>1, <1>3, <1>4, <1>5, <2>1, WorkStructure DEF TypeOK, Goto
<1>6. CASE query' = [query EXCEPT ![r] = new] /\ Goto(r, "pull")
  <2>1. RowOf(r, Statement(r), NoKey, 1) \in Row
    BY <1>2, RowOfType DEF Column
  <2>2. rows \in Seq(Row) /\ <<Statement(r)>> \in Seq(Select) /\ Len(<<Statement(r)>>) <= 2
    BY <1>2, <2>1
  <2>3. new \in Query /\ Len(new.stages) <= 2
    BY <2>2, QueryOverType
  <2> HIDE DEF new
  <2>4. query' \in [Run -> Query] /\ query'[r] = new /\ \A o \in Run \ {r} : query'[o] = query[o]
    BY <1>1, <1>6, <2>3 DEF TypeOK
  <2>5. QueryOf(r)'
    BY <1>1, <1>6, <2>3, <2>4 DEF QueryOf, AtAggregate, TypeOK, Goto
  <2> QED
    BY <1>1, <1>3, <1>4, <1>6, <2>4, <2>5, WorkStructure DEF TypeOK, Goto
<1> QED
  BY <1>5, <1>6 DEF ToggleOnce

\* A run that changes its query, its counter and its place, and nothing it shares else.
LEMMA QueryStructure ==
  ASSUME Structure, Next, NEW r \in Run, pc[r] \notin {"idle", "next", "ended"},
         NEW p \in {"next", "pull", "group", "load", "store", "evaluate", "reset"},
         pc' = [pc EXCEPT ![r] = p],
         NEW new \in Query, query' = [query EXCEPT ![r] = new], Len(new.stages) <= 2,
         p \in AtAggregate => Mode(new) \in {"all", "key"},
         p \in AtAggregate /\ Mode(new) = "key" => new.feed # <<>>,
         p = "group" => Mode(new) = "key",
         count' \in [Select -> Nat], inputs' \in [Run -> SUBSET Select],
         out' \in [Run -> Seq(Row)], file' \in [Target -> Seq(Row)],
         UNCHANGED <<once, views, created>>,
         UNCHANGED <<at, result, failures, spoilt, alone>>
  PROVE  Structure'
<1>1. TypeOK
  BY DEF Structure
<1>2. query' \in [Run -> Query] /\ query'[r] = new /\ pc'[r] = p
      /\ \A o \in Run \ {r} : query'[o] = query[o]
  BY <1>1 DEF TypeOK
<1>3. QueryOf(r)'
  BY <1>2 DEF QueryOf, AtAggregate
<1>4. once' \in [View -> BOOLEAN] /\ views' \in [Run -> SUBSET View] /\ created' \subseteq View
  BY <1>1 DEF TypeOK
<1> QED
  BY <1>2, <1>3, <1>4, WorkStructure

\* Queries over the same SELECTs are consumed in the same way.
LEMMA SameConsumer ==
  ASSUME NEW q, NEW new, new.stages = q.stages
  PROVE  Mode(new) = Mode(q) /\ Consumer(new) = Consumer(q)
  BY DEF Mode, Consumer

\* What a run knows in the middle of a query.
LEMMA AtHand ==
  ASSUME Structure, NEW r \in Run, pc[r] \notin {"idle", "next", "ended"}
  PROVE  /\ query[r] \in Query /\ Len(query[r].stages) <= 2 /\ query[r].stages \in Seq(Select)
         /\ query[r].feed \in Seq(Row) /\ query[r].groups \in [Column -> Nat]
         /\ query[r].done \in Seq(Row) /\ query[r].seen \in Nat
         /\ Mode(query[r]) \in {"none", "all", "key"}
         /\ pc[r] \in AtAggregate => Mode(query[r]) \in {"all", "key"}
         /\ pc[r] \in AtAggregate /\ Mode(query[r]) = "key" => query[r].feed # <<>>
         /\ pc[r] = "group" => Mode(query[r]) = "key"
         /\ Mode(query[r]) # "none" => Consumer(query[r]) \in Select
         /\ Statement(r) \in Select
<1>1. query[r] \in Query /\ QueryOf(r)
  BY DEF Structure, TypeOK, QueryAtHand
<1>2. Mode(query[r]) \in {"none", "all", "key"}
  BY <1>1, Modes
<1>3. Mode(query[r]) # "none" => Consumer(query[r]) \in Select
  BY <1>1, <1>2, Consumers DEF QueryOf
<1>4. Statement(r) \in Select
  BY Statements DEF Structure
<1> QED
  BY <1>1, <1>2, <1>3, <1>4 DEF QueryOf, Query

\* Pull keeps the structure.
LEMMA PullStructure ==
  ASSUME Structure, Next, NEW r \in Run, Pull(r)
  PROVE  Structure'
<1> DEFINE new == query'[r]
           p == IF Mode(query[r]) = "all" THEN "load" ELSE "pull"
<1>1. /\ query' \in [Run -> Query] /\ inputs' \in [Run -> SUBSET Select]
      /\ pc' = [pc EXCEPT ![r] = IF Mode(query[r]) = "all" THEN "load" ELSE pc[r]]
      /\ out' \in [Run -> Seq(Row)]
      /\ query' = [query EXCEPT ![r] = new] /\ new.stages = query[r].stages
  BY PullType
<1>2. new \in Query /\ pc[r] = "pull" /\ pc' = [pc EXCEPT ![r] = p]
  BY <1>1 DEF Pull
<1>3. Mode(new) = Mode(query[r]) /\ Len(new.stages) <= 2
  BY <1>1, <1>2, SameConsumer, AtHand
<1>4. /\ UNCHANGED <<once, views, created>> /\ UNCHANGED <<count, file>>
      /\ UNCHANGED <<at, result, failures, spoilt, alone>>
  BY DEF Pull, shared, history
<1>5. count' \in [Select -> Nat] /\ file' \in [Target -> Seq(Row)]
  BY <1>4 DEF Structure, TypeOK
<1>6. p \in {"load", "pull"} /\ (p = "load" => Mode(new) = "all")
  BY <1>3
<1> HIDE DEF new, p
<1> QED
  BY <1>1, <1>2, <1>3, <1>4, <1>5, <1>6, QueryStructure DEF AtAggregate

\* EndOfRows keeps the structure.
LEMMA EndOfRowsStructure ==
  ASSUME Structure, Next, NEW r \in Run, EndOfRows(r)
  PROVE  Structure'
<1> DEFINE q == query[r]
<1>1. /\ q \in Query /\ Len(q.stages) <= 2 /\ Mode(q) \in {"none", "all", "key"}
      /\ pc[r] = "pull" /\ Statement(r) \in Select
  BY AtHand DEF EndOfRows
<1>2. /\ UNCHANGED <<once, views, created>> /\ UNCHANGED <<count, inputs>>
      /\ UNCHANGED <<at, result, failures, spoilt, alone>>
  BY DEF EndOfRows, history
<1>3. /\ count' \in [Select -> Nat] /\ inputs' \in [Run -> SUBSET Select]
      /\ out \in [Run -> Seq(Row)] /\ file \in [Target -> Seq(Row)]
      /\ query \in [Run -> Query]
  BY <1>2 DEF Structure, TypeOK
<1>4. CASE Mode(q) = "all"
  <2>1. Goto(r, "evaluate") /\ UNCHANGED <<file, query, out>>
    BY <1>4 DEF EndOfRows
  <2>2. /\ query' = [query EXCEPT ![r] = q] /\ file' \in [Target -> Seq(Row)]
        /\ out' \in [Run -> Seq(Row)]
    BY <1>3, <2>1
  <2> QED
    BY <1>1, <1>2, <1>3, <1>4, <2>1, <2>2, QueryStructure DEF Goto
<1>5. CASE Mode(q) = "key"
  <2>1. Goto(r, "group") /\ UNCHANGED <<file, query, out>>
    BY <1>5 DEF EndOfRows
  <2>2. /\ query' = [query EXCEPT ![r] = q] /\ file' \in [Target -> Seq(Row)]
        /\ out' \in [Run -> Seq(Row)]
    BY <1>3, <2>1
  <2> QED
    BY <1>1, <1>2, <1>3, <1>5, <2>1, <2>2, QueryStructure DEF Goto, AtAggregate
<1>6. CASE Mode(q) = "none"
  <2>1. /\ query' = [query EXCEPT ![r] = NoQuery] /\ Goto(r, "next")
        /\ CloseWriter(r)
    BY <1>6 DEF EndOfRows
  <2>2. file' \in [Target -> Seq(Row)] /\ out' \in [Run -> Seq(Row)]
    BY <1>1, <2>1, CloseWriterType DEF Structure
  <2>3. NoQuery \in Query /\ Len(NoQuery.stages) <= 2
    BY NoQueryType
  <2> QED
    BY <1>1, <1>2, <1>3, <2>1, <2>2, <2>3, QueryStructure DEF Goto, AtAggregate
<1> QED
  BY <1>1, <1>4, <1>5, <1>6

\* ChooseGroup keeps the structure.
LEMMA ChooseGroupStructure ==
  ASSUME Structure, Next, NEW r \in Run, ChooseGroup(r)
  PROVE  Structure'
<1> DEFINE q == query[r]
<1>1. /\ q \in Query /\ Len(q.stages) <= 2 /\ Mode(q) = "key" /\ pc[r] = "group"
      /\ q.stages \in Seq(Select) /\ q.groups \in [Column -> Nat] /\ q.done \in Seq(Row)
      /\ Statement(r) \in Select
  BY AtHand DEF ChooseGroup
<1>2. /\ UNCHANGED <<once, views, created>> /\ UNCHANGED <<count, inputs, out, file>>
      /\ UNCHANGED <<at, result, failures, spoilt, alone>>
  BY DEF ChooseGroup, shared, history
<1>3. /\ count' \in [Select -> Nat] /\ inputs' \in [Run -> SUBSET Select]
      /\ out' \in [Run -> Seq(Row)] /\ file' \in [Target -> Seq(Row)]
  BY <1>2 DEF Structure, TypeOK
<1>4. CASE /\ query' = [query EXCEPT ![r] = QueryOver(Around(q.stages), q.done, FALSE)]
           /\ Goto(r, "pull")
  <2> DEFINE new == QueryOver(Around(q.stages), q.done, FALSE)
  <2>1. query' = [query EXCEPT ![r] = new] /\ Goto(r, "pull")
    BY <1>4
  <2>2. Around(q.stages) \in Seq(Select) /\ Len(Around(q.stages)) <= 2
    BY <1>1, Arounds
  <2>0. q.done \in Seq(Row)
    BY <1>1
  <2>3. new \in Query /\ Len(new.stages) <= 2
    BY <2>0, <2>2, QueryOverType
  <2> HIDE DEF new
  <2> QED
    BY <1>1, <1>2, <1>3, <2>1, <2>3, QueryStructure DEF Goto, AtAggregate
<1>5. ASSUME NEW k \in Column, q.groups[k] > 0,
             query' = [query EXCEPT ![r] = [q EXCEPT !.groups[k] = 0,
               !.feed = [i \in 1..q.groups[k] |-> RowOf(r, Statement(r), k, 0)]]],
             Goto(r, "load")
      PROVE  Structure'
  <2> DEFINE rows == [i \in 1..q.groups[k] |-> RowOf(r, Statement(r), k, 0)]
             new == [q EXCEPT !.groups[k] = 0, !.feed = rows]
  <2>1. RowOf(r, Statement(r), k, 0) \in Row /\ q.groups[k] \in Nat
    BY <1>1, RowOfType
  <2>2. rows \in Seq(Row) /\ Len(rows) = q.groups[k]
    BY <2>1
  <2>3. rows # <<>>
    BY <1>5, <2>1, <2>2
  <2>4. query' = [query EXCEPT ![r] = new]
    BY <1>5
  <2> HIDE DEF rows
  <2>5. new \in Query /\ new.stages = q.stages /\ new.feed = rows
    BY <1>1, <2>2, QueryNextGroup
  <2> HIDE DEF new
  <2>6. Mode(new) = "key" /\ Len(new.stages) <= 2 /\ new.feed # <<>>
    BY <1>1, <2>3, <2>5, SameConsumer
  <2> QED
    BY <1>1, <1>2, <1>3, <1>5, <2>4, <2>5, <2>6, QueryStructure DEF Goto
<1> QED
  BY <1>4, <1>5 DEF ChooseGroup

\* Reading the counter keeps the structure.
LEMMA ReadCountStructure ==
  ASSUME Structure, Next, NEW r \in Run, LoadCount(r) \/ Evaluate(r)
  PROVE  Structure'
<1> DEFINE q == query[r]
           new == [q EXCEPT !.seen = count[Consumer(q)]]
<1>1. /\ q \in Query /\ Len(q.stages) <= 2 /\ Mode(q) \in {"all", "key"}
      /\ pc[r] \in {"load", "evaluate"} /\ Consumer(q) \in Select
      /\ Mode(q) = "key" => q.feed # <<>>
  BY AtHand DEF LoadCount, Evaluate, AtAggregate
<1>2. /\ UNCHANGED <<once, views, created>> /\ UNCHANGED <<count, inputs, out, file>>
      /\ UNCHANGED <<at, result, failures, spoilt, alone>>
  BY DEF LoadCount, Evaluate, shared, history
<1>3. /\ count' \in [Select -> Nat] /\ inputs' \in [Run -> SUBSET Select]
      /\ out' \in [Run -> Seq(Row)] /\ file' \in [Target -> Seq(Row)]
      /\ query \in [Run -> Query] /\ count \in [Select -> Nat]
  BY <1>2 DEF Structure, TypeOK
<1>4. new \in Query /\ new.stages = q.stages /\ new.feed = q.feed
  BY <1>1, <1>3, QuerySeen
<1>5. query' = [query EXCEPT ![r] = new] /\ (Goto(r, "store") \/ Goto(r, "reset"))
  BY <1>3 DEF LoadCount, Evaluate
<1> HIDE DEF new
<1>6. Mode(new) = Mode(q) /\ Len(new.stages) <= 2
  BY <1>1, <1>4, SameConsumer
<1> QED
  BY <1>1, <1>2, <1>3, <1>4, <1>5, <1>6, QueryStructure DEF Goto

\* What follows the first of several rows.
LEMMA LongTail ==
  ASSUME NEW rows \in Seq(Row), rows # <<>>, Len(rows) # 1
  PROVE  Tail(rows) \in Seq(Row) /\ Tail(rows) # <<>>
<1>1. Len(rows) \in Nat \ {0}
  BY EmptySeq, Zenon
<1>2. Tail(rows) \in Seq(Row) /\ Len(Tail(rows)) = Len(rows) - 1
  BY <1>1
<1>3. Len(Tail(rows)) # 0
  BY <1>1, <1>2
<1> QED
  BY <1>2, <1>3, EmptySeq, Zenon

\* Writing the counter keeps the structure.
LEMMA StoreCountStructure ==
  ASSUME Structure, Next, NEW r \in Run, StoreCount(r)
  PROVE  Structure'
<1> DEFINE q == query[r]
<1>1. /\ q \in Query /\ Len(q.stages) <= 2 /\ Mode(q) \in {"all", "key"}
      /\ pc[r] = "store" /\ Consumer(q) \in Select /\ q.feed \in Seq(Row) /\ q.seen \in Nat
      /\ Mode(q) = "key" => q.feed # <<>>
  BY AtHand DEF StoreCount, AtAggregate
<1>2. /\ UNCHANGED <<once, views, created>> /\ UNCHANGED <<inputs, out, file>>
      /\ UNCHANGED <<at, result, failures, spoilt, alone>>
      /\ count' = [count EXCEPT ![Consumer(q)] = q.seen + 1]
  BY DEF StoreCount, history
<1>3. /\ count' \in [Select -> Nat] /\ inputs' \in [Run -> SUBSET Select]
      /\ out' \in [Run -> Seq(Row)] /\ file' \in [Target -> Seq(Row)]
      /\ query \in [Run -> Query]
  BY <1>1, <1>2 DEF Structure, TypeOK
<1>4. CASE Mode(q) = "all"
  <2>1. Goto(r, "pull") /\ query' = [query EXCEPT ![r] = q]
    BY <1>3, <1>4 DEF StoreCount
  <2> QED
    BY <1>1, <1>2, <1>3, <2>1, QueryStructure DEF Goto, AtAggregate
<1>5. CASE Mode(q) = "key"
  <2> DEFINE rows == IF Len(q.feed) = 1 THEN q.feed ELSE Tail(q.feed)
             new == [q EXCEPT !.feed = rows]
  <2>1. rows \in Seq(Row) /\ rows # <<>>
    <3>1. q.feed # <<>> /\ q.feed \in Seq(Row)
      BY <1>1, <1>5
    <3>2. Len(q.feed) # 1 => Tail(q.feed) \in Seq(Row) /\ Tail(q.feed) # <<>>
      BY <3>1, LongTail
    <3> QED
      BY <3>1, <3>2
  <2>2. query' = [query EXCEPT ![r] = new] /\ (Goto(r, "evaluate") \/ Goto(r, "load"))
    BY <1>3, <1>5 DEF StoreCount
  <2> HIDE DEF rows
  <2>3. new \in Query /\ new.stages = q.stages /\ new.feed = rows
    BY <1>1, <2>1, QueryFeed
  <2> HIDE DEF new
  <2>4. Mode(new) = "key" /\ Len(new.stages) <= 2
    BY <1>1, <1>5, <2>3, SameConsumer
  <2> QED
    BY <1>1, <1>2, <1>3, <2>1, <2>2, <2>3, <2>4, QueryStructure DEF Goto
<1> QED
  BY <1>1, <1>4, <1>5

\* Resetting the counter keeps the structure.
LEMMA ResetCountStructure ==
  ASSUME Structure, Next, NEW r \in Run, ResetCount(r)
  PROVE  Structure'
<1> DEFINE q == query[r]
           row == RowOf(r, Statement(r),
                        IF Mode(q) = "key" THEN Head(q.feed).key ELSE NoKey, q.seen)
<1>1. /\ q \in Query /\ Len(q.stages) <= 2 /\ Mode(q) \in {"all", "key"}
      /\ pc[r] = "reset" /\ Consumer(q) \in Select /\ q.feed \in Seq(Row) /\ q.seen \in Nat
      /\ q.stages \in Seq(Select) /\ q.done \in Seq(Row) /\ Statement(r) \in Select
      /\ Mode(q) = "key" => q.feed # <<>>
  BY AtHand DEF ResetCount, AtAggregate
<1>2. /\ UNCHANGED <<once, views, created>> /\ UNCHANGED <<inputs, out, file>>
      /\ UNCHANGED <<at, result, failures, spoilt, alone>>
      /\ count' = [count EXCEPT ![Consumer(q)] = 0]
  BY DEF ResetCount, history
<1>3. /\ count' \in [Select -> Nat] /\ inputs' \in [Run -> SUBSET Select]
      /\ out' \in [Run -> Seq(Row)] /\ file' \in [Target -> Seq(Row)]
      /\ query \in [Run -> Query]
  BY <1>1, <1>2 DEF Structure, TypeOK
<1>4. row \in Row
  <2>1. Mode(q) = "key" => Head(q.feed) \in Row
    BY <1>1
  <2>2. Mode(q) = "key" => Head(q.feed).key \in Column
    BY <2>1 DEF Row
  <2> QED
    BY <1>1, <2>2, RowOfType DEF Column
<1> HIDE DEF row
<1>5. Append(q.done, row) \in Seq(Row)
  BY <1>1, <1>4
<1>6. CASE Mode(q) = "all"
  <2> DEFINE new == Aggregated(q, row)
  <2>1. query' = [query EXCEPT ![r] = new] /\ Goto(r, "pull")
    BY <1>6 DEF ResetCount, row
  <2>2. Around(q.stages) \in Seq(Select) /\ Len(Around(q.stages)) <= 2
    BY <1>1, Arounds
  <2>3. new \in Query /\ Len(new.stages) <= 2
    BY <1>5, <2>2, QueryOverType DEF Aggregated
  <2> HIDE DEF new
  <2> QED
    BY <1>1, <1>2, <1>3, <2>1, <2>3, QueryStructure DEF Goto, AtAggregate
<1>7. CASE Mode(q) = "key"
  <2> DEFINE new == [q EXCEPT !.done = Append(q.done, row)]
  <2>1. query' = [query EXCEPT ![r] = new] /\ Goto(r, "group")
    BY <1>3, <1>7 DEF ResetCount, row
  <2>2. new \in Query /\ new.stages = q.stages
    BY <1>1, <1>5, QueryDone
  <2> HIDE DEF new
  <2>3. Mode(new) = "key" /\ Len(new.stages) <= 2
    BY <1>1, <1>7, <2>2, SameConsumer
  <2> QED
    BY <1>1, <1>2, <1>3, <2>1, <2>2, <2>3, QueryStructure DEF Goto, AtAggregate
<1> QED
  BY <1>1, <1>6, <1>7

\* Every step keeps the structure.
LEMMA StructureStep ==
  ASSUME Structure, [Next]_vars
  PROVE  Structure'
<1>1. CASE UNCHANGED vars
  BY <1>1 DEF vars, shared, local, history, Structure, TypeOK, ParsedInOrder,
              StatementAtHand, StatementOf, Statement, TheView, QueryAtHand, QueryOf
<1>2. CASE Next
  <2>1. PICK r \in Run : Begin(r) \/ Step(r) \/ Fail(r)
    BY <1>2 DEF Next
  <2> QED
    BY <1>2, <2>1, BeginStructure, NextStructure, EndsStructure, OpenTargetStructure,
       LookupStructure, CheckOnceStructure, ToggleOnceStructure, PullStructure,
       EndOfRowsStructure, ChooseGroupStructure, ReadCountStructure, StoreCountStructure,
       ResetCountStructure DEF Step
<1> QED
  BY <1>1, <1>2

-----------------------------------------------------------------------------
(* Counters *)

\* A step of one run leaves the local state of the others alone.
LEMMA StepsAreLocal ==
  ASSUME Structure, NEW r \in Run, Begin(r) \/ Step(r) \/ Fail(r)
  PROVE  Others(r) /\ \A o \in Run \ {r} : views'[o] = views[o]
<1> DEFINE Goal == Others(r) /\ \A o \in Run \ {r} : views'[o] = views[o]
<1>1. /\ pc \in [Run -> {"idle", "next", "check", "toggle", "open", "lookup", "pull",
                         "group", "load", "store", "evaluate", "reset", "ended"}]
      /\ at \in [Run -> Nat] /\ query \in [Run -> Query] /\ views \in [Run -> SUBSET View]
      /\ result \in [Run -> {"none", "returned", "syntax", "noview", "io"}]
  BY DEF Structure, TypeOK
<1>2. CASE Begin(r) \/ NextStatement(r) \/ ParseNext(r)
  BY <1>1, <1>2 DEF Begin, NextStatement, ParseNext, Enter, Goto, Others
<1>3. CASE SyntaxError(r) \/ Return(r) \/ Fail(r)
  BY <1>1, <1>3 DEF SyntaxError, Return, Fail, Throw, Goto, Others
<1>4. CASE OpenTarget(r) \/ LookupSource(r)
  BY <1>1, <1>4 DEF OpenTarget, LookupSource, OpenInput, Throw, Goto, Others
<1>5. CASE CheckOnce(r)
  BY <1>1, <1>5 DEF CheckOnce, OpenInput, Goto, Others
<1>6. CASE ToggleOnce(r)
  BY <1>1, <1>6 DEF ToggleOnce, Goto, Others
<1>7. CASE Pull(r)
  <2>1. /\ pc' = [pc EXCEPT ![r] = IF Mode(query[r]) = "all" THEN "load" ELSE pc[r]]
        /\ query' = [query EXCEPT ![r] = query'[r]]
    BY <1>7, PullType
  <2> QED
    BY <1>1, <1>7, <2>1 DEF Pull, Others
<1>8. CASE EndOfRows(r)
  <2>1. Mode(query[r]) \in {"none", "all", "key"}
    BY <1>8, AtHand DEF EndOfRows
  <2> QED
    BY <1>1, <1>8, <2>1 DEF EndOfRows, Goto, Others
<1>9. CASE ChooseGroup(r)
  BY <1>1, <1>9 DEF ChooseGroup, Goto, Others
<1>10. CASE LoadCount(r) \/ Evaluate(r)
  BY <1>1, <1>10 DEF LoadCount, Evaluate, Goto, Others
<1>11. CASE StoreCount(r) \/ ResetCount(r)
  BY <1>1, <1>11 DEF StoreCount, ResetCount, Goto, Others
<1> HIDE DEF Goal
<1>12. Goal
  BY <1>2, <1>3, <1>4, <1>5, <1>6, <1>7, <1>8, <1>9, <1>10, <1>11 DEF Step, Goal
<1> QED
  BY <1>12 DEF Goal

\* A step of one run keeps the counters accounted for.
LEMMA CountersKept ==
  ASSUME CountersInUse, NEW r \in Run, Others(r), spoilt \subseteq spoilt',
         \A s \in Select : count'[s] # 0 => count[s] # 0 \/ Counting(r, s)',
         \A s \in Select : Counting(r, s) =>
           Counting(r, s)' \/ s \in spoilt' \/ count'[s] = 0
  PROVE  CountersInUse'
<1>1. \A o \in Run \ {r} : \A s \in Select : Counting(o, s) => Counting(o, s)'
  BY DEF Others, Counting, Mode, Consumer
<1> HIDE DEF Counting
<1>2. SUFFICES ASSUME NEW s \in Select, count'[s] # 0
               PROVE  s \in spoilt' \/ \E o \in Run : Counting(o, s)'
  BY DEF CountersInUse
<1>3. CASE Counting(r, s)'
  BY <1>3
<1>4. CASE count[s] # 0
  <2>1. s \in spoilt \/ \E o \in Run : Counting(o, s)
    BY <1>4 DEF CountersInUse
  <2> QED
    BY <1>1, <1>2, <2>1
<1> QED
  BY <1>2, <1>3, <1>4

\* Every step keeps counters in use or spoilt.
LEMMA CountersStep ==
  ASSUME Structure, CountersInUse, [Next]_vars
  PROVE  CountersInUse'
<1>1. CASE UNCHANGED vars
  BY <1>1 DEF vars, shared, local, history, CountersInUse, Counting, Mode, Consumer
<1>2. ASSUME NEW r \in Run, Begin(r) \/ Step(r) \/ Fail(r)
      PROVE  CountersInUse'
  <2> DEFINE q == query[r]
             new == query'[r]
  <2>1. Others(r) /\ Structure
    BY <1>2, StepsAreLocal
  <2>2. ASSUME pc[r] \notin AtAggregate \union {"pull"}, UNCHANGED <<count, spoilt>>
        PROVE  CountersInUse'
    <3>1. \A s : ~Counting(r, s)
      BY <2>2 DEF Counting
    <3> QED
      BY <2>1, <2>2, <3>1, CountersKept
  <2>3. CASE Begin(r) \/ NextStatement(r) \/ ParseNext(r) \/ SyntaxError(r) \/ Return(r)
    BY <2>2, <2>3 DEF Begin, NextStatement, ParseNext, SyntaxError, Return, shared, history,
                      AtAggregate
  <2>4. CASE OpenTarget(r) \/ LookupSource(r) \/ CheckOnce(r) \/ ToggleOnce(r) \/ ChooseGroup(r)
    BY <2>2, <2>4 DEF OpenTarget, LookupSource, CheckOnce, ToggleOnce, ChooseGroup, shared,
                      history, AtAggregate
  \* A run that goes on counting, or was not.
  <2>5. ASSUME UNCHANGED <<count, spoilt>>, pc[r] = "pull", Mode(q) # "all" \/
                 (new.stages = q.stages /\ pc'[r] \in AtAggregate)
        PROVE  CountersInUse'
    <3>1. \A s : Counting(r, s) => Counting(r, s)'
      BY <2>5 DEF Counting, Mode, Consumer, AtAggregate
    <3> QED
      BY <2>1, <2>5, <3>1, CountersKept
  <2>6. CASE Pull(r)
    <3>1. /\ pc' = [pc EXCEPT ![r] = IF Mode(q) = "all" THEN "load" ELSE pc[r]]
          /\ new.stages = q.stages /\ pc[r] = "pull"
      BY <2>1, <2>6, PullType DEF Pull
    <3>2. UNCHANGED <<count, spoilt>>
      BY <2>6 DEF Pull, shared, history
    <3>3. Mode(q) = "all" => pc'[r] \in AtAggregate
      BY <2>1, <3>1 DEF Structure, TypeOK, AtAggregate
    <3> QED
      BY <2>5, <3>1, <3>2, <3>3
  <2>7. CASE EndOfRows(r)
    <3>1. pc[r] = "pull" /\ UNCHANGED <<count, spoilt>>
      BY <2>7 DEF EndOfRows, history
    <3>2. Mode(q) = "all" => new.stages = q.stages /\ pc'[r] \in AtAggregate
      BY <2>1, <2>7 DEF EndOfRows, Goto, Structure, TypeOK, AtAggregate
    <3> QED
      BY <2>5, <3>1, <3>2
  <2>8. CASE LoadCount(r) \/ Evaluate(r)
    <3>1. /\ new.stages = q.stages /\ pc'[r] \in AtAggregate /\ UNCHANGED <<count, spoilt>>
      <4>1. query \in [Run -> Query] /\ r \in DOMAIN pc /\ q \in Query
        BY <2>1 DEF Structure, TypeOK
      <4>2. query' = [query EXCEPT ![r].seen = count[Consumer(q)]]
        BY <2>8 DEF LoadCount, Evaluate
      <4>3. new = [q EXCEPT !.seen = count[Consumer(q)]]
        BY <4>1, <4>2
      <4>4. new.stages = q.stages
        BY <4>1, <4>3 DEF Query
      <4> QED
        BY <2>8, <4>1, <4>4 DEF LoadCount, Evaluate, Goto, AtAggregate, shared, history
    <3>2. \A s : Counting(r, s) => Counting(r, s)'
      BY <3>1 DEF Counting, Mode, Consumer
    <3> QED
      BY <2>1, <3>1, <3>2, CountersKept
  <2>9. CASE StoreCount(r)
    <3>1. count \in [Select -> Nat] /\ query \in [Run -> Query] /\ r \in DOMAIN pc /\ q \in Query
      BY <2>1 DEF Structure, TypeOK
    <3>2. count' = [count EXCEPT ![Consumer(q)] = q.seen + 1] /\ UNCHANGED spoilt
      BY <2>9 DEF StoreCount, history
    <3>3. Mode(q) \in {"all", "key"} /\ Consumer(q) \in Select
      BY <2>9, AtHand DEF StoreCount, AtAggregate
    <3>4. new.stages = q.stages
      <4>1. CASE Mode(q) = "all"
        BY <2>9, <4>1 DEF StoreCount
      <4>2. CASE Mode(q) = "key"
        <5>1. query' = [query EXCEPT ![r].feed = IF Len(@) = 1 THEN @ ELSE Tail(@)]
          BY <2>9, <4>2 DEF StoreCount
        <5>2. new = [q EXCEPT !.feed = IF Len(@) = 1 THEN @ ELSE Tail(@)]
          BY <3>1, <5>1
        <5> QED
          BY <3>1, <5>2 DEF Query
      <4> QED
        BY <3>3, <4>1, <4>2
    <3>5. pc'[r] \in AtAggregate \/ (pc'[r] = "pull" /\ Mode(q) = "all")
      BY <2>9, <3>1 DEF StoreCount, Goto, AtAggregate
    <3>6. \A s : s = Consumer(q) => Counting(r, s)'
      BY <3>3, <3>4, <3>5 DEF Counting, Mode, Consumer
    <3>7. \A s : Counting(r, s) => s = Consumer(q)
      BY DEF Counting
    <3>8. \A s \in Select : count'[s] # 0 => count[s] # 0 \/ Counting(r, s)'
      BY <3>1, <3>2, <3>6
    <3> QED
      BY <2>1, <3>2, <3>6, <3>7, <3>8, CountersKept
  <2>10. CASE ResetCount(r)
    <3>1. /\ count \in [Select -> Nat] /\ UNCHANGED spoilt
          /\ count' = [count EXCEPT ![Consumer(q)] = 0]
      BY <2>1, <2>10 DEF ResetCount, history, Structure, TypeOK
    <3>2. \A s : Counting(r, s) => s = Consumer(q)
      BY DEF Counting
    <3>3. \A s \in Select : count'[s] # 0 => count[s] # 0
      BY <3>1
    <3>4. \A s \in Select : Counting(r, s) => count'[s] = 0
      BY <3>1, <3>2
    <3> QED
      BY <2>1, <3>1, <3>3, <3>4, CountersKept
  <2>11. CASE Fail(r)
    <3>1. spoilt \subseteq spoilt' /\ UNCHANGED count
      BY <2>11 DEF Fail
    <3>2. \A s : Counting(r, s) => s \in spoilt'
      BY <2>11 DEF Fail, Opening, Counting, AtAggregate
    <3> QED
      BY <2>1, <3>1, <3>2, CountersKept
  <2> QED
    BY <1>2, <2>3, <2>4, <2>6, <2>7, <2>8, <2>9, <2>10, <2>11 DEF Step
<1> QED
  BY <1>1, <1>2 DEF Next

-----------------------------------------------------------------------------
(* Views *)

\* The views that are created stay so, and what is spent was created.
LEMMA ViewsKept ==
  ASSUME Structure, ViewsWereCreated, Next, NEW r \in Run, Others(r),
         \A o \in Run \ {r} : views'[o] = views[o],
         created \subseteq created', \A v \in View : once'[v] \/ once[v] = once'[v] \/ v \in created',
         PassedOf(r)'
  PROVE  ViewsWereCreated'
<1>1. \A v \in View : once'[v] \/ v \in created'
  BY DEF ViewsWereCreated
<1>2. SUFFICES ASSUME NEW o \in Run \ {r} PROVE PassedOf(o)'
  BY <1>1 DEF ViewsWereCreated
<1>3. /\ PassedOf(o) /\ StatementOf(o) /\ pc'[o] = pc[o] /\ at'[o] = at[o]
      /\ result'[o] = result[o] /\ views'[o] = views[o] /\ at[o] \in Nat
  BY DEF ViewsWereCreated, Others, Structure, StatementAtHand, TypeOK
<1>4. Len(ops) \in Nat /\ \A i \in 1..Len(ops) : ops'[i] = ops[i]
  BY ParsedInOrderStep DEF Structure, TypeOK
<1>5. at[o] <= Len(ops) /\ \A i \in 1..at[o] : ops'[i] = ops[i]
  BY <1>3, <1>4 DEF StatementOf
<1>6. views'[o] \subseteq created'
  BY <1>3 DEF PassedOf
<1>7. \A i \in 1..at'[o] :
         ops'[i] \in View /\ (i < at'[o] \/ pc'[o] \notin {"check", "toggle"})
           => ops'[i] \in created'
  BY <1>3, <1>5 DEF PassedOf
<1>8. ASSUME result'[o] = "noview"
      PROVE  Script[Statement(o)'].from \in created' \ views'[o]
  <2>1. at[o] >= 1 /\ Statement(o)' = Statement(o)
    BY <1>3, <1>5, <1>8 DEF StatementOf, Statement
  <2> QED
    BY <1>3, <1>8, <2>1 DEF PassedOf
<1> QED
  BY <1>6, <1>7, <1>8 DEF PassedOf

\* A step that neither creates a view nor goes on to another statement.
LEMMA SameStatement ==
  ASSUME Structure, ViewsWereCreated, Next, NEW r \in Run, Others(r),
         UNCHANGED <<once, views, created>>, at'[r] = at[r],
         \/ pc[r] \notin {"check", "toggle"} \/ pc'[r] \in {"check", "toggle"}
         \/ Statement(r) \in View => Statement(r) \in created,
         result'[r] # "noview" \/ Script[Statement(r)].from \in created \ views[r],
         result'[r] = "noview" => at[r] >= 1
  PROVE  ViewsWereCreated'
<1>1. PassedOf(r) /\ StatementOf(r) /\ at[r] \in Nat
  BY DEF ViewsWereCreated, Structure, StatementAtHand, TypeOK
<1>2. Len(ops) \in Nat /\ \A i \in 1..Len(ops) : ops'[i] = ops[i]
  BY ParsedInOrderStep, ParsedStatements, Zenon DEF Structure
<1>3. at[r] <= Len(ops) /\ \A i \in 1..at[r] : ops'[i] = ops[i]
  BY <1>1, <1>2 DEF StatementOf
<1>4. at[r] >= 1 => Statement(r)' = Statement(r)
  BY <1>1, <1>3 DEF Statement
<1>5. \A i \in 1..at'[r] :
         ops'[i] \in View /\ (i < at'[r] \/ pc'[r] \notin {"check", "toggle"})
           => ops'[i] \in created'
  <2>1. \A i \in 1..at[r] : i < at[r] \/ i = at[r]
    BY <1>1
  <2> QED
    BY <1>1, <1>3, <2>1 DEF PassedOf, Statement
<1>6. result'[r] = "noview" => Script[Statement(r)'].from \in created' \ views'[r]
  BY <1>4
<1>7. PassedOf(r)'
  BY <1>1, <1>5, <1>6 DEF PassedOf
<1> QED
  BY <1>7, ViewsKept

\* The next statement begins: the ones before it are through.
LEMMA NextStatementViews ==
  ASSUME Structure, ViewsWereCreated, Next, NEW r \in Run, Others(r),
         pc[r] = "next", at[r] + 1 <= Len(ops'), Enter(r, ops'[at[r] + 1]),
         UNCHANGED <<once, views, created, result>>
  PROVE  ViewsWereCreated'
<1>1. /\ PassedOf(r) /\ StatementOf(r) /\ at[r] \in Nat /\ result[r] = "none"
      /\ at'[r] = at[r] + 1
      /\ pc'[r] = IF ops'[at[r] + 1] \in View THEN "check" ELSE "open"
  BY DEF ViewsWereCreated, Structure, StatementAtHand, StatementOf, TypeOK, Enter, Goto
<1>2. Len(ops) \in Nat /\ \A i \in 1..Len(ops) : ops'[i] = ops[i]
  BY ParsedInOrderStep, ParsedStatements, Zenon DEF Structure
<1>3. at[r] <= Len(ops) /\ \A i \in 1..at[r] : ops'[i] = ops[i]
  BY <1>1, <1>2 DEF StatementOf
<1>4. \A i \in 1..at'[r] :
         ops'[i] \in View /\ (i < at'[r] \/ pc'[r] \notin {"check", "toggle"})
           => ops'[i] \in created'
  <2>1. SUFFICES ASSUME NEW i \in 1..at'[r], ops'[i] \in View,
                        i < at'[r] \/ pc'[r] \notin {"check", "toggle"}
                 PROVE  ops'[i] \in created'
    OBVIOUS
  <2>2. CASE i = at[r] + 1
    BY <1>1, <2>1, <2>2
  <2>3. CASE i \in 1..at[r]
    BY <1>1, <1>3, <2>1, <2>3 DEF PassedOf
  <2> QED
    BY <1>1, <2>2, <2>3
<1>5. PassedOf(r)'
  BY <1>1, <1>4 DEF PassedOf
<1> QED
  BY <1>5, ViewsKept

\* A view the script names was created before a run can miss it.
LEMMA PassedViews ==
  ASSUME Structure, ViewsWereCreated, NEW r \in Run, pc[r] = "lookup",
         Script[Statement(r)].from \in View
  PROVE  Script[Statement(r)].from \in created
<1> DEFINE v == Script[Statement(r)].from
<1>1. /\ Statement(r) \in Select /\ at[r] \in 1..Len(ops) /\ v < Statement(r)
      /\ v \in Select
  BY Statements, Fragments DEF Structure
<1>2. Statement(r) <= parsed /\ parsed \in Nat /\ v \in Nat /\ Statement(r) \in Nat
  <2>1. \A i \in 1..Len(ops) : ops[i] \in Select /\ ops[i] \in Nat /\ ops[i] <= parsed
    BY ParsedStatements, Zenon DEF Structure
  <2>2. parsed \in 1..Len(Script)
    BY DEF Structure, TypeOK
  <2>3. Statement(r) = ops[at[r]]
    BY DEF Statement
  <2>4. Statement(r) \in Nat /\ Statement(r) <= parsed
    BY <1>1, <2>1, <2>3
  <2>5. v \in Nat
    BY <1>1, Fragments
  <2> QED
    BY <2>2, <2>4, <2>5
<1>3. PICK i \in DOMAIN ops : ops[i] = v
  BY <1>1, <1>2 DEF Structure, ParsedInOrder
<1>4. i \in Nat /\ at[r] \in Nat /\ at[r] \in DOMAIN ops /\ DOMAIN ops = 1..Len(ops)
      /\ Len(ops) \in Nat /\ \A j \in DOMAIN ops : ops[j] \in Nat
  BY <1>1, <1>3, ParsedStatements DEF Structure
<1>5. i < at[r]
  <2>1. ops[i] < ops[at[r]]
    BY <1>1, <1>3 DEF Statement
  <2>2. ~(at[r] < i) /\ at[r] # i
    BY <1>3, <1>4, <2>1 DEF Structure, ParsedInOrder
  <2> QED
    BY <1>4, <2>2
<1>6. PassedOf(r) /\ i \in 1..at[r]
  BY <1>3, <1>4, <1>5 DEF ViewsWereCreated
<1> QED
  BY <1>3, <1>5, <1>6 DEF PassedOf

\* The write of "once" keeps track of who created the view.
LEMMA ToggleOnceViews ==
  ASSUME Structure, ViewsWereCreated, Next, NEW r \in Run, Others(r), ToggleOnce(r),
         \A o \in Run \ {r} : views'[o] = views[o]
  PROVE  ViewsWereCreated'
<1> DEFINE v == TheView(r)
<1>1. /\ PassedOf(r) /\ StatementOf(r) /\ at[r] \in Nat /\ result[r] = "none"
      /\ pc[r] = "toggle" /\ v \in View /\ at[r] \in 1..Len(ops)
  BY Statements DEF ViewsWereCreated, Structure, StatementAtHand, StatementOf, TypeOK, ToggleOnce
<1>2. /\ views' = [views EXCEPT ![r] = @ \union {v}] /\ created' = created \union {v}
      /\ UNCHANGED <<ops, at, result>>
  BY DEF ToggleOnce
<1>3. views'[r] = views[r] \union {v}
  BY <1>2 DEF Structure, TypeOK
<1>4. \A i \in 1..at[r] : ops[i] \in View => ops[i] \in created'
  <2>1. SUFFICES ASSUME NEW i \in 1..at[r], ops[i] \in View PROVE ops[i] \in created'
    OBVIOUS
  <2>2. CASE i = at[r]
    BY <1>2, <2>1, <2>2 DEF TheView, Statement
  <2>3. CASE i < at[r]
    BY <1>1, <1>2, <2>1, <2>3 DEF PassedOf
  <2> QED
    BY <1>1, <2>2, <2>3
<1>5. PassedOf(r)'
  BY <1>1, <1>2, <1>3, <1>4 DEF PassedOf
<1>6. \A w \in View : once'[w] \/ once[w] = once'[w] \/ w \in created'
  <2>1. SUFFICES ASSUME NEW w \in View, w # v PROVE once[w] = once'[w]
    BY <1>2
  <2>2. PICK b \in {FALSE, ~once[v]} : once' = [once EXCEPT ![v] = b]
    BY Zenon DEF ToggleOnce
  <2> QED
    BY <2>1, <2>2 DEF Structure, TypeOK
<1> QED
  BY <1>2, <1>5, <1>6, ViewsKept

\* Every step keeps track of who created a view.
LEMMA ViewsStep ==
  ASSUME Structure, ViewsWereCreated, [Next]_vars
  PROVE  ViewsWereCreated'
<1>1. CASE UNCHANGED vars
  BY <1>1 DEF vars, shared, local, history, ViewsWereCreated, PassedOf, Statement
<1>2. ASSUME Next, NEW r \in Run, Begin(r) \/ Step(r) \/ Fail(r)
      PROVE  ViewsWereCreated'
  <2>1. Others(r) /\ \A o \in Run \ {r} : views'[o] = views[o]
    BY <1>2, StepsAreLocal
  <2>2. PassedOf(r) /\ StatementOf(r) /\ r \in DOMAIN pc /\ r \in DOMAIN result
        /\ at[r] \in Nat /\ Len(ops) \in Nat /\ ops \in Seq(Select)
    BY DEF ViewsWereCreated, Structure, StatementAtHand, TypeOK
  <2>3. CASE NextStatement(r)
    BY <1>2, <2>1, <2>2, <2>3, NextStatementViews DEF NextStatement, shared, history
  <2>4. CASE ParseNext(r)
    <3>1. ops' = Append(ops, parsed + 1) /\ at[r] = Len(ops) /\ parsed + 1 \in Select
      BY <2>4 DEF ParseNext
    <3>2. ops'[at[r] + 1] = parsed + 1 /\ at[r] + 1 <= Len(ops')
      BY <2>2, <3>1
    <3> QED
      BY <1>2, <2>1, <2>4, <3>2, NextStatementViews DEF ParseNext, history
  <2>5. CASE Begin(r) \/ SyntaxError(r) \/ Return(r) \/ Fail(r)
    <3>1. /\ UNCHANGED <<once, views, created, at>>
          /\ pc[r] \in {"check", "toggle"} => pc[r] = "check" /\ ~once[TheView(r)]
      BY <2>5 DEF Begin, SyntaxError, Return, Fail, Opening, shared, history
    <3>2. pc[r] # "ended"
      BY <2>5 DEF Begin, SyntaxError, Return, Fail, Opening
    <3>3. result'[r] # "noview"
      BY <2>2, <2>5, <3>2 DEF Begin, SyntaxError, Return, Fail, Throw, StatementOf
    <3>4. pc[r] = "check" /\ Statement(r) \in View => Statement(r) \in created
      BY <1>1, <2>1, <3>1 DEF TheView, ViewsWereCreated
    <3> QED
      BY <1>2, <2>1, <3>1, <3>3, <3>4, SameStatement
  <2>6. CASE LookupSource(r)
    <3>1. UNCHANGED <<once, views, created, at>> /\ pc[r] = "lookup"
      BY <2>6 DEF LookupSource, history
    <3>2. at[r] >= 1 /\ result[r] = "none"
      BY <2>2, <3>1 DEF StatementOf
    <3>3. CASE Script[Statement(r)].from \in View \ views[r]
      <4>1. Script[Statement(r)].from \in created \ views[r]
        BY <3>1, <3>3, PassedViews
      <4> QED
        BY <1>2, <2>1, <3>1, <3>2, <4>1, SameStatement
    <3>4. CASE UNCHANGED result
      BY <1>2, <2>1, <3>1, <3>2, <3>4, SameStatement
    <3> QED
      BY <2>6, <3>3, <3>4 DEF LookupSource
  <2>7. CASE CheckOnce(r)
    <3>1. UNCHANGED <<once, views, created, at, result, ops>> /\ pc[r] = "check" /\ result[r] = "none"
      BY <2>2, <2>7 DEF CheckOnce, shared, history, StatementOf
    <3>2. CASE once[TheView(r)]
      <4>1. pc'[r] = "toggle"
        BY <2>2, <2>7, <3>2 DEF CheckOnce, Goto
      <4> QED
        BY <1>2, <2>1, <3>1, <4>1, SameStatement
    <3>3. CASE ~once[TheView(r)]
      <4>1. TheView(r) \in View /\ TheView(r) \in created /\ at[r] \in 1..Len(ops)
        BY <3>1, <3>3, Statements DEF ViewsWereCreated, Structure
      <4>2. \A i \in 1..at[r] : ops[i] \in View => ops[i] \in created
        <5>1. SUFFICES ASSUME NEW i \in 1..at[r], ops[i] \in View PROVE ops[i] \in created
          OBVIOUS
        <5>2. CASE i = at[r]
          BY <4>1, <5>1, <5>2 DEF TheView, Statement
        <5>3. CASE i < at[r]
          BY <2>2, <5>1, <5>3 DEF PassedOf
        <5> QED
          BY <2>2, <5>2, <5>3
      <4>3. PassedOf(r)'
        BY <2>2, <3>1, <4>2 DEF PassedOf
      <4> QED
        BY <1>2, <2>1, <3>1, <4>3, ViewsKept
    <3> QED
      BY <3>2, <3>3
  <2>8. CASE ToggleOnce(r)
    BY <1>2, <2>1, <2>8, ToggleOnceViews
  <2>9. ASSUME UNCHANGED <<once, views, created, at, result>>,
               pc[r] \in AtAggregate \union {"open", "pull", "group"}
        PROVE  ViewsWereCreated'
    <3>1. result'[r] # "noview" /\ pc[r] \notin {"check", "toggle"}
      BY <2>2, <2>9 DEF StatementOf, AtAggregate
    <3> QED
      BY <1>2, <2>1, <2>9, <3>1, SameStatement
  <2>10. CASE OpenTarget(r) \/ Pull(r) \/ EndOfRows(r) \/ ChooseGroup(r)
    BY <2>9, <2>10 DEF OpenTarget, Pull, EndOfRows, ChooseGroup, shared, history
  <2>11. CASE LoadCount(r) \/ StoreCount(r) \/ Evaluate(r) \/ ResetCount(r)
    BY <2>9, <2>11 DEF LoadCount, StoreCount, Evaluate, ResetCount, shared, history, AtAggregate
  <2> QED
    BY <1>2, <2>3, <2>4, <2>5, <2>6, <2>7, <2>8, <2>10, <2>11 DEF Step
<1> QED
  BY <1>1, <1>2 DEF Next

-----------------------------------------------------------------------------
(* Theorems *)

\* ScriptInv holds at the start and is preserved by every step.
LEMMA Invariance == Spec => []ScriptInv
<1>1. ASSUME Init PROVE ScriptInv
  <2>1. Structure
    BY <1>1, InitStructure
  <2>2. CountersInUse
    BY <1>1 DEF Init, CountersInUse
  <2>3. ViewsWereCreated
    BY <1>1 DEF Init, ViewsWereCreated, PassedOf
  <2> QED
    BY <2>1, <2>2, <2>3 DEF ScriptInv
<1>2. ASSUME ScriptInv, [Next]_vars PROVE ScriptInv'
  BY <1>2, StructureStep, CountersStep, ViewsStep DEF ScriptInv
<1> QED
  BY <1>1, <1>2, PTL DEF Spec

\* Every variable keeps to its type, in all runs of any script.
THEOREM ScriptTyping == Spec => []TypeOK
<1>1. ScriptInv => TypeOK
  BY DEF ScriptInv, Structure
<1> QED
  BY <1>1, Invariance, PTL

\* When no run is active every accumulator is 0 but those in which a run threw.
THEOREM Leftovers == Spec => []LeftoverNeedsFailure
<1>1. ScriptInv => LeftoverNeedsFailure
  BY DEF ScriptInv, CountersInUse, Counting, LeftoverNeedsFailure, Active, AtAggregate
<1> QED
  BY <1>1, Invariance, PTL

\* A run that does not find a view is one whose CREATE VIEW another run executed.
THEOREM MissingViews == Spec => []MissingViewWasCreatedElsewhere
<1>1. ScriptInv => MissingViewWasCreatedElsewhere
  BY DEF ScriptInv, ViewsWereCreated, PassedOf, MissingViewWasCreatedElsewhere
<1> QED
  BY <1>1, Invariance, PTL

\* A sequence is a prefix of what appending makes of it.
LEMMA ConcatPrefix ==
  ASSUME NEW s \in Seq(Row), NEW u \in Seq(Row)
  PROVE  IsPrefix(s, s \o u)
<1>1. /\ Len(s \o u) = Len(s) + Len(u) /\ Len(s) \in Nat /\ Len(u) \in Nat
      /\ SubSeq(s \o u, 1, Len(s)) = SubSeq(s, 1, Len(s))
  OBVIOUS
<1> QED
  BY <1>1 DEF IsPrefix

\* A sequence is a prefix of itself.
LEMMA SelfPrefix ==
  ASSUME NEW s \in Seq(Row)
  PROVE  IsPrefix(s, s)
<1>1. <<>> \in Seq(Row) /\ s \o <<>> = s
  OBVIOUS
<1> QED
  BY <1>1, ConcatPrefix

\* What the closing of a writer appends leaves the lines before it in place.
LEMMA CloseAppends ==
  ASSUME TypeOK, NEW r \in Run, NEW t \in Target, Statement(r) \in Select,
         Script[Statement(r)].into = t => Script[Statement(r)].append, CloseTarget(r)
  PROVE  IsPrefix(file[t], file'[t])
<1> DEFINE s == Script[Statement(r)]
<1>1. s.into \in Target /\ file[t] \in Seq(Row) /\ out[r] \in Seq(Row)
  BY Fragments DEF Fragment, TypeOK
<1>2. CASE s.into = t
  <2>1. file'[t] = file[t] \o out[r]
    BY <1>1, <1>2 DEF CloseTarget, TypeOK
  <2> QED
    BY <1>1, <2>1, ConcatPrefix
<1>3. CASE s.into # t
  <2>1. file'[t] = file[t]
    BY <1>1, <1>3 DEF CloseTarget, TypeOK
  <2> QED
    BY <1>1, <2>1, SelfPrefix
<1> QED
  BY <1>2, <1>3

\* A line that was written to a target all INSERTs append to is never lost.
THEOREM AppendOnly == Spec => AppendedLinesStay
<1>1. ASSUME ScriptInv, [Next]_vars, NEW t \in Target, Appended(t)
      PROVE  IsPrefix(file[t], file'[t])
  <2>1. Structure /\ file[t] \in Seq(Row)
    BY <1>1 DEF ScriptInv, Structure, TypeOK
  <2>2. ASSUME file'[t] = file[t] PROVE IsPrefix(file[t], file'[t])
    BY <2>1, <2>2, SelfPrefix
  <2>3. CASE UNCHANGED vars
    BY <2>2, <2>3 DEF vars, shared
  <2>4. ASSUME NEW r \in Run, Begin(r) \/ Step(r) \/ Fail(r)
        PROVE  IsPrefix(file[t], file'[t])
    <3>1. ASSUME pc[r] \in {"open", "lookup", "check", "pull"}, Statement(r) \notin View
          PROVE  Script[Statement(r)].into = t => Script[Statement(r)].append
      <4>1. Statement(r) \in Select
        BY <2>1, <3>1, Statements DEF Structure
      <4>2. Script[Statement(r)].kind = "insert"
        BY <3>1, <4>1 DEF Select, View
      <4> QED
        BY <1>1, <4>1, <4>2 DEF Appended
    <3>2. ASSUME pc[r] \in {"lookup", "check", "pull"}, Statement(r) \notin View,
                 CloseTarget(r)
          PROVE  IsPrefix(file[t], file'[t])
      BY <2>1, <3>1, <3>2, Statements, CloseAppends DEF Structure
    <3>3. CASE OpenTarget(r)
      <4>1. pc[r] = "open" /\ Statement(r) \notin View
        BY <2>1, <3>3 DEF OpenTarget, Structure, StatementAtHand, StatementOf
      <4>2. Script[Statement(r)].into = t => UNCHANGED file
        BY <3>1, <3>3, <4>1 DEF OpenTarget
      <4>3. file'[t] = file[t]
        BY <2>1, <3>3, <4>2 DEF OpenTarget, Structure, TypeOK
      <4> QED
        BY <2>2, <4>3
    <3>4. CASE LookupSource(r)
      <4>1. pc[r] = "lookup" /\ Statement(r) \notin View
        BY <2>1, <3>4 DEF LookupSource, Structure, StatementAtHand, StatementOf
      <4>2. UNCHANGED file \/ CloseTarget(r)
        BY <3>4 DEF LookupSource
      <4> QED
        BY <2>2, <3>2, <4>1, <4>2
    <3>5. CASE EndOfRows(r)
      <4>1. pc[r] = "pull" /\ Mode(query[r]) \in {"none", "all", "key"}
        BY <2>1, <3>5, AtHand DEF EndOfRows
      <4>2. UNCHANGED file \/ (Statement(r) \notin View /\ CloseTarget(r))
        BY <3>5, <4>1 DEF EndOfRows, CloseWriter
      <4> QED
        BY <2>2, <3>2, <4>1, <4>2
    <3>6. CASE Fail(r)
      <4>1. \/ UNCHANGED file
            \/ /\ pc[r] \in {"lookup", "check", "pull"}
               /\ Statement(r) \notin View /\ CloseTarget(r)
        BY <3>6 DEF Fail, Opening, CloseWriter
      <4> QED
        BY <2>2, <3>2, <4>1
    <3>7. CASE Begin(r) \/ NextStatement(r) \/ ParseNext(r) \/ SyntaxError(r) \/ Return(r)
      BY <2>2, <3>7 DEF Begin, NextStatement, ParseNext, SyntaxError, Return, shared
    <3>8. CASE CheckOnce(r) \/ ToggleOnce(r) \/ Pull(r) \/ ChooseGroup(r)
      BY <2>2, <3>8 DEF CheckOnce, ToggleOnce, Pull, ChooseGroup, shared
    <3>9. CASE LoadCount(r) \/ StoreCount(r) \/ Evaluate(r) \/ ResetCount(r)
      BY <2>2, <3>9 DEF LoadCount, StoreCount, Evaluate, ResetCount, shared
    <3> QED
      BY <2>4, <3>3, <3>4, <3>5, <3>6, <3>7, <3>8, <3>9 DEF Step
  <2> QED
    BY <1>1, <2>3, <2>4 DEF Next
<1>2. ASSUME ScriptInv, [Next]_vars
      PROVE  [\A t \in Target : Appended(t) => IsPrefix(file[t], file'[t])]_file
  BY <1>1, <1>2
<1> QED
  BY <1>2, Invariance, PTL DEF Spec, AppendedLinesStay
=============================================================================
