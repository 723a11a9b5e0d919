--------------------------- MODULE ScriptExactProofs ---------------------------
(***************************************************************************)
(* A run by itself is exact, whether it appends or overwrites, and an      *)
(* ended run has no line in its writer and holds no input it had no reason *)
(* to leave: ExactInv is inductive, for any script, any number of runs and *)
(* actors, any files and any number of failing reads.                      *)
(***************************************************************************)
EXTENDS ScriptExactness, ScriptProofs, FiniteSetTheorems

-----------------------------------------------------------------------------
(* Steps of other runs *)

Acts(r) == Begin(r) \/ Step(r) \/ Fail(r)

\* Without stopping at the places of the program, a run only ends.
LEMMA ActorIsActive ==
  ASSUME NEW r \in Run, Step(r) \/ Fail(r)
  PROVE  Active(r)
<1>1. CASE NextStatement(r) \/ ParseNext(r) \/ SyntaxError(r) \/ Return(r)
  BY <1>1 DEF NextStatement, ParseNext, SyntaxError, Return, Active
<1>2. CASE OpenTarget(r) \/ LookupSource(r) \/ CheckOnce(r) \/ ToggleOnce(r)
  BY <1>2 DEF OpenTarget, LookupSource, CheckOnce, ToggleOnce, Active
<1>3. CASE Pull(r) \/ EndOfRows(r) \/ ChooseGroup(r)
  BY <1>3 DEF Pull, EndOfRows, ChooseGroup, Active
<1>4. CASE LoadCount(r) \/ StoreCount(r) \/ Evaluate(r) \/ ResetCount(r) \/ Fail(r)
  BY <1>4 DEF LoadCount, StoreCount, Evaluate, ResetCount, Fail, Opening, Active
<1> QED
  BY <1>1, <1>2, <1>3, <1>4 DEF Step

\* Only the beginning of a run changes who is alone.
LEMMA AloneKept ==
  ASSUME NEW r \in Run, Step(r) \/ Fail(r)
  PROVE  UNCHANGED alone
<1>1. CASE NextStatement(r) \/ ParseNext(r) \/ SyntaxError(r) \/ Return(r)
  BY <1>1 DEF NextStatement, ParseNext, SyntaxError, Return, history
<1>2. CASE OpenTarget(r) \/ LookupSource(r) \/ CheckOnce(r) \/ ToggleOnce(r)
  BY <1>2 DEF OpenTarget, LookupSource, CheckOnce, ToggleOnce, history
<1>3. CASE Pull(r) \/ EndOfRows(r) \/ ChooseGroup(r)
  BY <1>3 DEF Pull, EndOfRows, ChooseGroup, history
<1>4. CASE LoadCount(r) \/ StoreCount(r) \/ Evaluate(r) \/ ResetCount(r) \/ Fail(r)
  BY <1>4 DEF LoadCount, StoreCount, Evaluate, ResetCount, Fail, history
<1> QED
  BY <1>1, <1>2, <1>3, <1>4 DEF Step

\* A run has its inputs and its writer to itself.
LEMMA OwnBuffers ==
  ASSUME Structure, NEW r \in Run, Acts(r)
  PROVE  \A o \in Run \ {r} : inputs'[o] = inputs[o] /\ out'[o] = out[o]
<1> DEFINE Goal == \A o \in Run \ {r} : inputs'[o] = inputs[o] /\ out'[o] = out[o]
<1>1. inputs \in [Run -> SUBSET Select] /\ out \in [Run -> Seq(Row)]
  BY DEF Structure, TypeOK
<1>2. CASE Begin(r) \/ NextStatement(r) \/ ParseNext(r) \/ SyntaxError(r) \/ Return(r)
  BY <1>2 DEF Begin, NextStatement, ParseNext, SyntaxError, Return
<1>3. CASE OpenTarget(r) \/ LookupSource(r)
  BY <1>1, <1>3 DEF OpenTarget, LookupSource, OpenInput, CloseTarget
<1>4. CASE CheckOnce(r) \/ ToggleOnce(r)
  BY <1>1, <1>4 DEF CheckOnce, ToggleOnce, OpenInput
<1>5. CASE Pull(r)
  <2>1. Mode(query[r]) \in {"none", "all", "key"} /\ Advance(r, query[r])
    BY <1>5, AtHand DEF Pull
  <2>2. \A o \in Run \ {r} : inputs'[o] = inputs[o]
    BY <1>1, <2>1 DEF Advance
  <2>3. \A o \in Run \ {r} : out'[o] = out[o]
    BY <1>1, <1>5, <2>1 DEF Pull
  <2> QED
    BY <2>2, <2>3
<1>6. CASE EndOfRows(r)
  <2>1. Mode(query[r]) \in {"none", "all", "key"}
    BY <1>6, AtHand DEF EndOfRows
  <2> QED
    BY <1>1, <1>6, <2>1 DEF EndOfRows, CloseWriter, CloseTarget
<1>7. CASE ChooseGroup(r) \/ LoadCount(r) \/ StoreCount(r) \/ Evaluate(r) \/ ResetCount(r)
  BY <1>7 DEF ChooseGroup, LoadCount, StoreCount, Evaluate, ResetCount
<1>9. CASE Fail(r)
  BY <1>1, <1>9 DEF Fail, CloseWriter, CloseTarget
<1> HIDE DEF Goal
<1>8. Goal
  BY <1>2, <1>3, <1>4, <1>5, <1>6, <1>7, <1>9 DEF Acts, Step, Goal
<1> QED
  BY <1>8 DEF Goal

\* What a run has parsed it has parsed: the same number is the same statement.
LEMMA SamePlace ==
  ASSUME Structure, Next, NEW o \in Run, at'[o] = at[o], at[o] >= 1
  PROVE  /\ Statement(o)' = Statement(o) /\ TheView(o)' = TheView(o)
         /\ \A i \in 1..at[o] : ops'[i] = ops[i]
<1>1. /\ Len(ops) \in Nat /\ at[o] \in Nat /\ at[o] <= Len(ops)
      /\ \A i \in 1..Len(ops) : ops'[i] = ops[i]
  BY ParsedInOrderStep, ParsedStatements DEF Structure, StatementAtHand, StatementOf, TypeOK
<1> QED
  BY <1>1 DEF Statement, TheView

\* While one run steps the others are where they were.
LEMMA Elsewhere ==
  ASSUME Structure, Next, NEW r \in Run, Acts(r), NEW o \in Run \ {r}
  PROVE  /\ pc'[o] = pc[o] /\ at'[o] = at[o] /\ result'[o] = result[o] /\ query'[o] = query[o]
         /\ views'[o] = views[o] /\ inputs'[o] = inputs[o] /\ out'[o] = out[o]
         /\ pc[o] \in Executing =>
              /\ Statement(o)' = Statement(o) /\ TheView(o)' = TheView(o)
              /\ at[o] >= 1 /\ Statement(o) \in Select
         /\ alone'[o] => alone[o] /\ (Active(o) => ~Begin(r))
<1>1. Others(r) /\ views'[o] = views[o]
  BY StepsAreLocal DEF Acts
<1>2. pc'[o] = pc[o] /\ at'[o] = at[o] /\ result'[o] = result[o] /\ query'[o] = query[o]
  BY <1>1 DEF Others
<1>3. inputs'[o] = inputs[o] /\ out'[o] = out[o]
  BY OwnBuffers
<1>4. ASSUME pc[o] \in Executing
      PROVE  /\ Statement(o)' = Statement(o) /\ TheView(o)' = TheView(o)
             /\ at[o] >= 1 /\ Statement(o) \in Select
  <2>1. pc[o] \notin {"idle", "next", "ended"}
    BY <1>4 DEF Executing, Querying, AtAggregate
  <2>2. at[o] >= 1 /\ Statement(o) \in Select
    BY <2>1, Statements DEF Structure, StatementAtHand, StatementOf
  <2> QED
    BY <1>2, <2>2, SamePlace
<1>5. alone'[o] => alone[o] /\ (Active(o) => ~Begin(r))
  <2>1. CASE Begin(r)
    BY <2>1 DEF Begin
  <2>2. CASE Step(r) \/ Fail(r)
    <3>1. UNCHANGED alone /\ Active(r)
      BY <2>2, AloneKept, ActorIsActive
    <3>2. ~Begin(r)
      BY <3>1 DEF Begin, Active
    <3> QED
      BY <3>1, <3>2
  <2> QED
    BY <2>1, <2>2 DEF Acts
<1> QED
  BY <1>1, <1>2, <1>3, <1>4, <1>5

-----------------------------------------------------------------------------
(* Inputs *)

\* A run that reads nothing holds what it had a reason to leave.
LEMMA NotReading ==
  ASSUME NEW r \in Run, InputOf(r), ~Reading(r), result[r] # "io"
  PROVE  \A s \in inputs[r] : LeftOpen(r, s)
  BY DEF InputOf

\* A step that opens nothing, of a run that does not read.
LEMMA NothingOpened ==
  ASSUME NEW r \in Run, Structure, InputOf(r), ~Reading(r), pc[r] # "ended",
         inputs'[r] = inputs[r], ~Reading(r)'
  PROVE  InputOf(r)'
<1>1. result[r] # "io"
  BY DEF Structure, StatementAtHand, StatementOf
<1>2. \A s \in inputs'[r] : LeftOpen(r, s)
  BY <1>1, NotReading
<1> QED
  BY <1>2 DEF InputOf, LeftOpen

\* A run that holds what it had a reason to leave, and reads nothing.
LEMMA AllLeft ==
  ASSUME NEW r \in Run, \A s \in inputs'[r] : LeftOpen(r, s), ~Reading(r)'
  PROVE  InputOf(r)'
  BY DEF InputOf, LeftOpen

\* A step that reads no row, and goes on reading if it did.
LEMMA SameRows ==
  ASSUME Structure, Next, NEW r \in Run, InputOf(r),
         pc[r] \in Executing, at'[r] = at[r], inputs'[r] = inputs[r], result'[r] = result[r],
         query'[r].stages = query[r].stages, query'[r].feed = query[r].feed,
         query'[r].taken = query[r].taken, Reading(r)' = Reading(r)
  PROVE  InputOf(r)'
<1>1. at[r] >= 1
  BY DEF Structure, StatementAtHand, StatementOf, Executing, Querying, AtAggregate
<1>2. Statement(r)' = Statement(r)
  BY <1>1, SamePlace
<1> HIDE DEF Reading
<1> QED
  BY <1>2 DEF InputOf, LeftOpen

\* An input is opened: its first row is at hand, if it has rows.
LEMMA Opened ==
  ASSUME Structure, Next, NEW r \in Run, InputOf(r), ~Reading(r),
         pc[r] \in Executing, at'[r] = at[r], result'[r] = result[r],
         NEW stages \in Seq(Select), Len(stages) <= 2, OpenInput(r, stages),
         \A i \in DOMAIN stages : stages[i] \in {Statement(r), Script[Statement(r)].from}
  PROVE  InputOf(r)'
<1>1. at[r] >= 1 /\ Statement(r) \in Select /\ result[r] # "io" /\ TypeOK
  BY Statements DEF Structure, StatementAtHand, StatementOf, Executing, Querying, AtAggregate
<1>2. Statement(r)' = Statement(r)
  BY <1>1, SamePlace
<1> DEFINE rows == FileRows(r, Statement(r))
           new == QueryOver(stages, rows, TRUE)
<1>3. query'[r] = new /\ inputs'[r] = inputs[r] \union {Statement(r)}
  BY <1>1 DEF OpenInput, TypeOK
<1>4. /\ new.stages = stages /\ new.feed = rows /\ new.taken = 0
  BY DEF QueryOver
<1>5. Len(rows) = Len(Content[r]) /\ Len(Content[r]) \in Nat /\ rows \in Seq(Row)
  <2>1. Content[r] \in Seq(Key)
    BY ContentAssumption DEF ContentAssumption
  <2> QED
    BY <1>1, <2>1, FileRowsType DEF FileRows
<1> HIDE DEF rows, new
<1>6. \A s \in inputs'[r] : LeftOpen(r, s) \/ (s = Statement(r) /\ rows # <<>>)
  <2>1. Content[r] \in Seq(Key)
    BY ContentAssumption DEF ContentAssumption
  <2>2. CASE rows = <<>>
    <3>1. Content[r] = <<>>
      BY <1>5, <2>1, <2>2
    <3> QED
      BY <3>1 DEF LeftOpen
  <2>3. CASE rows # <<>>
    BY <1>1, <1>3, <2>3, NotReading
  <2> QED
    BY <2>2, <2>3
<1>7. pc'[r] = "pull"
  BY <1>1 DEF OpenInput, Goto, TypeOK
<1>8. 0 + Len(rows) = Len(Content[r])
  BY <1>5
<1>9. query'[r].live
  BY <1>3 DEF new, QueryOver
<1>10. Reading(r)'
  BY <1>7, <1>9 DEF Reading
<1> HIDE DEF Reading
<1> QED
  BY <1>2, <1>3, <1>4, <1>6, <1>8, <1>10 DEF InputOf, LeftOpen

\* A row is taken: behind the last one the input is closed.
LEMMA PullInput ==
  ASSUME Structure, Next, NEW r \in Run, InputOf(r), Pull(r)
  PROVE  InputOf(r)'
<1> DEFINE q == query[r]
<1>1. /\ pc[r] = "pull" /\ TypeOK /\ at[r] >= 1 /\ result[r] # "io"
      /\ q \in Query /\ q.feed \in Seq(Row) /\ q.feed # <<>> /\ q.taken \in Nat
  BY AtHand DEF Pull, Exhausted, Structure, StatementAtHand, StatementOf, Query
<1>2. at'[r] = at[r] /\ result'[r] = result[r] /\ Advance(r, q)
  BY DEF Pull
<1>3. Statement(r)' = Statement(r)
  BY <1>1, <1>2, SamePlace
<1>4. /\ query'[r].live = q.live /\ query'[r].stages = q.stages
      /\ query'[r].feed = Tail(q.feed) /\ query'[r].taken = q.taken + 1
  <2> DEFINE rest == [q EXCEPT !.feed = Tail(q.feed), !.taken = q.taken + 1]
  <2>1. /\ rest.live = q.live /\ rest.stages = q.stages
        /\ rest.feed = Tail(q.feed) /\ rest.taken = q.taken + 1 /\ rest \in Query
    <3>1. Tail(q.feed) \in Seq(Row) /\ q.taken + 1 \in Nat
      BY <1>1
    <3> QED
      BY <1>1, <3>1 DEF Query
  <2> HIDE DEF rest
  <2>2. \A k \in Column : LET new == [rest EXCEPT !.groups[k] = @ + 1] IN
          /\ new.live = rest.live /\ new.stages = rest.stages
          /\ new.feed = rest.feed /\ new.taken = rest.taken
    BY <2>1 DEF Query
  <2>3. Head(q.feed).key \in Column /\ Mode(q) \in {"none", "all", "key"}
    <3>1. Head(q.feed) \in Row
      BY <1>1
    <3> QED
      BY <1>1, <3>1, Modes DEF Row
  <2>4. \/ query'[r] = rest
        \/ query'[r] = [rest EXCEPT !.groups[Head(q.feed).key] = @ + 1]
    BY <1>1, <2>3 DEF Pull, rest, TypeOK
  <2> QED
    BY <2>1, <2>2, <2>3, <2>4
<1>5. CASE ~q.live
  <2>1. inputs'[r] = inputs[r] /\ ~Reading(r) /\ ~Reading(r)'
    BY <1>1, <1>2, <1>4, <1>5 DEF Advance, Reading, TypeOK
  <2> QED
    BY <1>1, <2>1, NothingOpened
<1>6. CASE q.live
  <2>1. Reading(r)
    BY <1>1, <1>6 DEF Reading
  <2>2. Mode(q) = "all" => Mode(query'[r]) = "all"
    BY <1>4, SameConsumer
  <2>3. pc' = [pc EXCEPT ![r] = IF Mode(q) = "all" THEN "load" ELSE pc[r]]
    BY PullType
  <2>4. Reading(r)'
    BY <1>1, <1>4, <1>6, <2>2, <2>3 DEF Reading, TypeOK
  <2>5. query'[r].taken + Len(query'[r].feed) = Len(Content[r])
    BY <1>1, <1>4, <2>1 DEF InputOf
  <2>6. \A s \in inputs'[r] :
          LeftOpen(r, s) \/ (s = Statement(r) /\ query'[r].feed # <<>>)
    <3>1. \A s \in inputs[r] : LeftOpen(r, s) \/ s = Statement(r)
      BY <1>1, <2>1 DEF InputOf
    <3>2. CASE Len(q.feed) = 1
      <4>1. inputs'[r] = inputs[r] \ {Statement(r)}
        BY <1>1, <1>2, <1>6, <3>2 DEF Advance, TypeOK
      <4> QED
        BY <3>1, <4>1
    <3>3. CASE Len(q.feed) # 1
      <4>1. inputs'[r] = inputs[r]
        BY <1>1, <1>2, <3>3 DEF Advance, TypeOK
      <4>2. query'[r].feed # <<>>
        BY <1>1, <1>4, <3>3, LongTail
      <4> QED
        BY <3>1, <4>1, <4>2
    <3> QED
      BY <3>2, <3>3
  <2> HIDE DEF Reading
  <2> QED
    BY <1>3, <1>4, <2>1, <2>4, <2>5, <2>6 DEF InputOf, LeftOpen
<1> QED
  BY <1>5, <1>6

\* The rows end before the input does for a LIMIT, or for a view nobody counts.
LEMMA EndOfRowsInput ==
  ASSUME Structure, Next, NEW r \in Run, InputOf(r), EndOfRows(r)
  PROVE  InputOf(r)'
<1> DEFINE q == query[r]
           s == Statement(r)
<1>1. /\ pc[r] = "pull" /\ TypeOK /\ at[r] >= 1 /\ result[r] # "io" /\ s \in Select
      /\ q \in Query /\ q.stages \in Seq(Select) /\ Len(q.stages) <= 2 /\ q.feed \in Seq(Row)
      /\ q.taken \in Nat /\ Mode(q) \in {"none", "all", "key"}
  BY AtHand DEF EndOfRows, Structure, StatementAtHand, StatementOf, Query
<1>2. pc'[r] \in {"evaluate", "group", "next"} /\ inputs'[r] = inputs[r]
  BY <1>1 DEF EndOfRows, Goto, TypeOK
<1>3. ~Reading(r)'
  BY <1>2 DEF Reading
<1>4. CASE ~q.live
  BY <1>1, <1>2, <1>3, <1>4, NothingOpened DEF Reading
<1>5. CASE q.live
  <2>1. Reading(r)
    BY <1>1, <1>5 DEF Reading
  <2>2. /\ q.taken + Len(q.feed) = Len(Content[r])
        /\ \A i \in DOMAIN q.stages : q.stages[i] \in {s, Script[s].from}
        /\ \A x \in inputs[r] : LeftOpen(r, x) \/ (x = s /\ q.feed # <<>>)
    BY <1>1, <2>1 DEF InputOf
  <2>3. q.feed # <<>> => LeftOpen(r, s)
    <3>1. SUFFICES ASSUME q.feed # <<>>, s \notin View PROVE LeftOpen(r, s)
      BY DEF LeftOpen
    <3>2. Exhausted(q)
      BY <3>1 DEF EndOfRows, Consumed
    <3>3. PICK i \in DOMAIN Pulled(q.stages) : q.taken >= Script[Pulled(q.stages)[i]].limit
      BY <3>1, <3>2 DEF Exhausted
    <3> DEFINE n == Pulled(q.stages)[i]
    <3>4. n \in Select /\ n \in {s, Script[s].from}
      BY <1>1, <2>2, <3>3 DEF Pulled
    <3>5. Len(q.feed) \in Nat /\ Len(q.feed) >= 1
      BY <1>1, <3>1
    <3>6. Script[n].limit \in Nat /\ n # 0
      BY <3>4, Fragments DEF Fragment
    <3>7. q.taken < Len(Content[r])
      BY <1>1, <2>2, <3>5
    <3>8. Script[n].limit < Len(Content[r])
      <4>1. q.taken >= Script[n].limit
        BY <3>3
      <4>2. Len(Content[r]) \in Nat
        BY <1>1, <2>2, <3>5
      <4> HIDE DEF n
      <4> QED
        BY <1>1, <3>6, <3>7, <4>1, <4>2
    <3> QED
      BY <3>4, <3>6, <3>8 DEF LeftOpen
  <2> QED
    BY <1>2, <1>3, <2>2, <2>3, AllLeft
<1> QED
  BY <1>4, <1>5

\* The groups and counters are gone through with no input at hand.
LEMMA CountInput ==
  ASSUME Structure, Next, NEW r \in Run, InputOf(r),
         ChooseGroup(r) \/ LoadCount(r) \/ StoreCount(r) \/ Evaluate(r) \/ ResetCount(r)
  PROVE  InputOf(r)'
<1> DEFINE q == query[r]
<1>1. /\ pc[r] \in {"group"} \union AtAggregate /\ pc[r] # "ended" /\ TypeOK
      /\ Mode(q) \in {"all", "key"} /\ (pc[r] = "group" => Mode(q) = "key")
      /\ q \in Query /\ q.feed \in Seq(Row)
  BY AtHand DEF ChooseGroup, LoadCount, StoreCount, Evaluate, ResetCount, AtAggregate, Structure
<1>2. UNCHANGED <<at, inputs, result>>
  BY DEF ChooseGroup, LoadCount, StoreCount, Evaluate, ResetCount
<1>3. CASE ChooseGroup(r)
  <2>1. \/ query'[r].live = FALSE
        \/ query'[r].stages = q.stages /\ pc'[r] = "load"
    <3>1. ASSUME query' = [query EXCEPT ![r] = QueryOver(Around(q.stages), q.done, FALSE)]
          PROVE  query'[r].live = FALSE
      BY <1>1, <3>1 DEF QueryOver, TypeOK
    <3>2. ASSUME NEW rows, NEW k \in Column, Goto(r, "load"),
                 query' = [query EXCEPT ![r] = [q EXCEPT !.groups[k] = 0, !.feed = rows]]
          PROVE  query'[r].stages = q.stages /\ pc'[r] = "load"
      BY <1>1, <3>2 DEF Goto, TypeOK, Query
    <3> QED
      BY <1>3, <3>1, <3>2 DEF ChooseGroup
  <2>2. query'[r].stages = q.stages => Mode(query'[r]) = Mode(q)
    BY SameConsumer
  <2>3. ~Reading(r) /\ ~Reading(r)'
    BY <1>1, <1>3, <2>1, <2>2 DEF Reading, ChooseGroup
  <2> QED
    BY <1>1, <1>2, <2>3, NothingOpened
<1>4. CASE LoadCount(r)
  <2>1. /\ pc[r] = "load" /\ pc'[r] = "store" /\ query'[r].stages = q.stages
        /\ query'[r].feed = q.feed /\ query'[r].live = q.live /\ query'[r].taken = q.taken
    BY <1>1, <1>4 DEF LoadCount, Goto, TypeOK, Query
  <2>2. Reading(r)' = Reading(r)
    <3>1. Mode(query'[r]) = Mode(q)
      BY <2>1, SameConsumer
    <3> QED
      BY <2>1, <3>1 DEF Reading
  <2> QED
    BY <1>2, <2>1, <2>2, SameRows DEF Executing, Querying, AtAggregate
<1>5. CASE StoreCount(r) /\ Mode(q) = "all"
  <2>1. pc[r] = "store" /\ pc'[r] = "pull" /\ query'[r] = q
    BY <1>1, <1>5 DEF StoreCount, Goto, TypeOK
  <2>2. Reading(r)' = Reading(r)
    BY <1>5, <2>1 DEF Reading
  <2> QED
    BY <1>2, <2>1, <2>2, SameRows DEF Executing, Querying, AtAggregate
<1>6. CASE StoreCount(r) /\ Mode(q) = "key"
  <2>1. pc[r] = "store" /\ pc'[r] \in {"evaluate", "load"} /\ query'[r].stages = q.stages
    BY <1>1, <1>6 DEF StoreCount, Goto, TypeOK, Query
  <2>2. Mode(query'[r]) = "key"
    BY <1>6, <2>1, SameConsumer
  <2>3. ~Reading(r) /\ ~Reading(r)'
    BY <1>6, <2>1, <2>2 DEF Reading
  <2> QED
    BY <1>1, <1>2, <2>3, NothingOpened
<1>7. CASE Evaluate(r)
  <2>1. pc[r] = "evaluate" /\ pc'[r] = "reset"
    BY <1>1, <1>7 DEF Evaluate, Goto, TypeOK
  <2> QED
    BY <1>1, <1>2, <2>1, NothingOpened DEF Reading
<1>8. CASE ResetCount(r)
  <2>1. pc[r] = "reset"
    BY <1>8 DEF ResetCount
  <2>2. (pc'[r] = "pull" /\ query'[r].live = FALSE) \/ pc'[r] = "group"
    BY <1>1, <1>8 DEF ResetCount, Goto, TypeOK, Aggregated, QueryOver
  <2> QED
    BY <1>1, <1>2, <2>1, <2>2, NothingOpened DEF Reading
<1> QED
  BY <1>1, <1>3, <1>4, <1>5, <1>6, <1>7, <1>8

\* The statements of a script open inputs, and create views out of them.
LEMMA StatementInput ==
  ASSUME Structure, Next, NEW r \in Run, InputOf(r),
         OpenTarget(r) \/ LookupSource(r) \/ CheckOnce(r) \/ ToggleOnce(r)
  PROVE  InputOf(r)'
<1> DEFINE s == Statement(r)
<1>1. /\ pc[r] \in {"open", "lookup", "check", "toggle"} /\ pc[r] # "ended" /\ TypeOK
      /\ pc[r] \in Executing /\ ~Reading(r) /\ s \in Select /\ at'[r] = at[r]
  BY Statements DEF OpenTarget, LookupSource, CheckOnce, ToggleOnce, Executing, Reading, Structure, shared
<1>2. CASE OpenTarget(r)
  <2>1. inputs'[r] = inputs[r] /\ pc'[r] = "lookup"
    BY <1>1, <1>2 DEF OpenTarget, Goto, TypeOK
  <2> QED
    BY <1>1, <2>1, NothingOpened DEF Reading
<1>3. CASE LookupSource(r)
  <2>1. CASE OpenInput(r, <<s>>) /\ UNCHANGED <<file, result>>
    <3>1. <<s>> \in Seq(Select) /\ Len(<<s>>) <= 2 /\ \A i \in DOMAIN <<s>> : <<s>>[i] = s
      BY <1>1
    <3> QED
      BY <1>1, <2>1, <3>1, Opened
  <2>2. CASE UNCHANGED inputs /\ (Goto(r, "check") \/ Throw(r, "noview"))
    <3>1. inputs'[r] = inputs[r] /\ pc'[r] \in {"check", "ended"}
      BY <1>1, <2>2 DEF Goto, Throw, TypeOK
    <3> QED
      BY <1>1, <3>1, NothingOpened DEF Reading
  <2> QED
    BY <1>3, <2>1, <2>2 DEF LookupSource
<1>4. CASE CheckOnce(r)
  <2> DEFINE v == TheView(r)
             stages == IF s = v THEN <<v>> ELSE <<v, s>>
  <2>0. pc[r] = "check" /\ UNCHANGED result
    BY <1>4 DEF CheckOnce
  <2>1. CASE OpenInput(r, stages)
    <3>1. stages \in Seq(Select) /\ Len(stages) <= 2
      BY <2>0, StagesOf
    <3>2. v \in {s, Script[s].from}
      BY DEF TheView
    <3>3. \A i \in DOMAIN stages : stages[i] \in {s, Script[s].from}
      BY <3>2
    <3> HIDE DEF stages
    <3> QED
      BY <1>1, <2>0, <2>1, <3>1, <3>3, Opened
  <2>2. CASE Goto(r, "toggle") /\ UNCHANGED <<query, inputs>>
    <3>1. inputs'[r] = inputs[r] /\ pc'[r] = "toggle"
      BY <1>1, <2>2 DEF Goto, TypeOK
    <3> QED
      BY <1>1, <3>1, NothingOpened DEF Reading
  <2> QED
    BY <1>4, <2>1, <2>2 DEF CheckOnce
<1>5. CASE ToggleOnce(r)
  <2>1. inputs'[r] = inputs[r]
    BY <1>5 DEF ToggleOnce
  <2>2. pc'[r] = "next" \/ (pc'[r] = "pull" /\ query'[r].live = FALSE)
    BY <1>1, <1>5 DEF ToggleOnce, Goto, TypeOK, QueryOver
  <2> QED
    BY <1>1, <2>1, <2>2, NothingOpened DEF Reading
<1> QED
  BY <1>2, <1>3, <1>4, <1>5

\* Between statements no input is opened.
LEMMA BetweenInput ==
  ASSUME Structure, Next, NEW r \in Run, InputOf(r),
         Begin(r) \/ NextStatement(r) \/ ParseNext(r) \/ SyntaxError(r) \/ Return(r) \/ Fail(r)
  PROVE  InputOf(r)'
<1>1. TypeOK
  BY DEF Structure
<1>2. CASE Fail(r)
  <2>1. result'[r] = "io" /\ pc'[r] = "ended"
    BY <1>1, <1>2 DEF Fail, Throw, Goto, TypeOK
  <2> QED
    BY <2>1 DEF InputOf, Reading
<1>3. CASE Begin(r) \/ NextStatement(r) \/ ParseNext(r) \/ SyntaxError(r) \/ Return(r)
  <2>1. inputs'[r] = inputs[r]
    BY <1>3 DEF Begin, NextStatement, ParseNext, SyntaxError, Return
  <2>2. pc[r] \in {"idle", "next"} /\ pc'[r] \in {"next", "check", "open", "ended"}
    BY <1>1, <1>3 DEF Begin, NextStatement, ParseNext, SyntaxError, Return, Enter, Throw, Goto, TypeOK
  <2> QED
    BY <2>1, <2>2, NothingOpened DEF Reading
<1> QED
  BY <1>2, <1>3

\* Every step keeps what the runs read and hold.
LEMMA InputsStep ==
  ASSUME Structure, InputsInUse, [Next]_vars
  PROVE  InputsInUse'
<1>1. CASE UNCHANGED vars
  BY <1>1 DEF vars, shared, local, InputsInUse, InputOf, Reading, LeftOpen, Statement
<1>2. CASE Next
  <2>1. PICK r \in Run : Acts(r)
    BY <1>2 DEF Next, Acts
  <2>2. SUFFICES ASSUME NEW o \in Run PROVE InputOf(o)'
    BY DEF InputsInUse
  <2>3. InputOf(o) /\ InputOf(r)
    BY DEF InputsInUse
  <2>4. CASE o = r
    BY <1>2, <2>1, <2>3, <2>4, BetweenInput, StatementInput, PullInput, EndOfRowsInput, CountInput
    DEF Acts, Step
  <2>5. CASE o # r
    <3>1. /\ pc'[o] = pc[o] /\ result'[o] = result[o] /\ query'[o] = query[o]
          /\ inputs'[o] = inputs[o]
          /\ pc[o] \in Executing => Statement(o)' = Statement(o)
      BY <1>2, <2>1, <2>5, Elsewhere
    <3>2. CASE pc[o] \in Executing
      BY <2>3, <3>1, <3>2 DEF InputOf, Reading, LeftOpen
    <3>3. CASE pc[o] \notin Executing
      BY <2>3, <3>1, <3>3 DEF InputOf, Reading, LeftOpen, Executing, Querying, AtAggregate
    <3> QED
      BY <3>2, <3>3
  <2> QED
    BY <2>4, <2>5
<1> QED
  BY <1>1, <1>2

-----------------------------------------------------------------------------
(* Names of rows *)

\* The places of a run that executes a statement.
LEMMA Places ==
  /\ Executing = {"open", "lookup", "check", "toggle", "pull", "group",
                  "load", "store", "evaluate", "reset"}
  /\ Querying = {"pull", "group", "load", "store", "evaluate", "reset"}
  BY DEF Executing, Querying, AtAggregate

\* A run enters the next statement, is in one, or stays between two.
LEMMA Progress ==
  ASSUME Structure, NEW r \in Run, Acts(r)
  PROVE  \/ /\ pc[r] = "next" /\ at'[r] = at[r] + 1 /\ at[r] \in Nat
            /\ pc'[r] \in {"open", "check"} /\ (pc'[r] = "check" => Statement(r)' \in View)
            /\ UNCHANGED <<once, count, file, query, inputs, out, views, result, spoilt, alone>>
         \/ /\ pc[r] \notin Executing /\ pc'[r] \notin Executing /\ at'[r] = at[r]
            /\ UNCHANGED <<once, count, file, query, inputs, out, views, spoilt>>
         \/ /\ pc[r] \in Executing /\ at'[r] = at[r] /\ at[r] >= 1 /\ Statement(r) \in Select
            /\ UNCHANGED alone
<1> USE Places
<1>1. TypeOK
  BY DEF Structure
<1>2. CASE NextStatement(r) \/ ParseNext(r)
  <2>1. /\ pc[r] = "next" /\ Enter(r, ops'[at[r] + 1])
        /\ UNCHANGED <<once, count, file, query, inputs, out, views, result, spoilt, alone>>
    BY <1>1, <1>2 DEF NextStatement, ParseNext, TypeOK, shared, history
  <2>2. at'[r] = at[r] + 1 /\ at[r] \in Nat
    BY <1>1, <2>1 DEF Enter, TypeOK
  <2>3. pc'[r] = IF ops'[at[r] + 1] \in View THEN "check" ELSE "open"
    BY <1>1, <2>1 DEF Enter, Goto, TypeOK
  <2> QED
    BY <2>1, <2>2, <2>3 DEF Statement
<1>3. CASE Begin(r)
  BY <1>1, <1>3 DEF Begin, shared, Goto, TypeOK
<1>4. CASE SyntaxError(r) \/ Return(r)
  <2>1. /\ pc[r] = "next" /\ pc'[r] = "ended" /\ at' = at
        /\ UNCHANGED <<once, count, file, query, inputs, out, views, spoilt>>
    BY <1>1, <1>4 DEF SyntaxError, Return, Throw, Goto, shared, history, TypeOK
  <2> QED
    BY <2>1
<1>5. ASSUME OpenTarget(r) \/ LookupSource(r) \/ CheckOnce(r) \/ ToggleOnce(r) \/ Pull(r)
             \/ EndOfRows(r) \/ ChooseGroup(r) \/ LoadCount(r) \/ StoreCount(r)
             \/ Evaluate(r) \/ ResetCount(r) \/ Fail(r)
      PROVE  pc[r] \in Executing /\ at' = at
  <2>1. CASE OpenTarget(r) \/ LookupSource(r) \/ CheckOnce(r) \/ ToggleOnce(r)
    BY <2>1 DEF OpenTarget, LookupSource, CheckOnce, ToggleOnce, shared
  <2>2. CASE Pull(r) \/ EndOfRows(r) \/ ChooseGroup(r)
    BY <2>2 DEF Pull, EndOfRows, ChooseGroup
  <2>3. CASE LoadCount(r) \/ StoreCount(r) \/ Evaluate(r) \/ ResetCount(r) \/ Fail(r)
    BY <2>3 DEF LoadCount, StoreCount, Evaluate, ResetCount, Fail, Opening
  <2> QED
    BY <1>5, <2>1, <2>2, <2>3
<1>6. ASSUME pc[r] \in Executing, at' = at
      PROVE  /\ at'[r] = at[r] /\ at[r] >= 1 /\ Statement(r) \in Select
             /\ UNCHANGED alone
  <2>1. at[r] >= 1 /\ Statement(r) \in Select
    BY <1>6, Statements DEF Structure, StatementAtHand, StatementOf
  <2>2. ~Begin(r)
    BY <1>6 DEF Begin
  <2> QED
    BY <1>6, <2>1, <2>2, AloneKept DEF Acts
<1> QED
  BY <1>2, <1>3, <1>4, <1>5, <1>6 DEF Acts, Step

\* A statement that was begun has been begun.
LEMMA BegunKept ==
  ASSUME Structure, Next, NEW r \in Run, Acts(r), NEW o \in Run, NEW s \in Select, Begun(o, s)
  PROVE  Begun(o, s)'
<1>1. /\ \A i \in 1..Len(ops) : ops'[i] = ops[i]
      /\ at[o] \in Nat /\ Len(ops) \in Nat /\ at[o] <= Len(ops)
  BY ParsedInOrderStep, ParsedStatements DEF Structure, StatementAtHand, StatementOf, TypeOK
<1>2. PICK i \in 1..at[o] : ops[i] = s /\ (i < at[o] \/ pc[o] \notin Executing)
  BY DEF Begun
<1>3. ops'[i] = s /\ i \in Nat /\ 1 <= i /\ i <= at[o]
  BY <1>1, <1>2
<1>4. /\ at'[o] \in Nat /\ i <= at'[o] /\ (i < at'[o] \/ pc'[o] \notin Executing)
  <2>1. CASE o = r
    BY <1>1, <1>2, <1>3, <2>1, Progress, Places
  <2>2. CASE o # r
    BY <1>1, <1>2, <1>3, <2>2, Elsewhere
  <2> QED
    BY <2>1, <2>2
<1>5. i \in 1..at'[o]
  BY <1>3, <1>4
<1> QED
  BY <1>3, <1>4, <1>5 DEF Begun

\* Targets change by what a run writes at the end of an INSERT, and by OVERWRITE.
LEMMA FileStep ==
  ASSUME Structure, NEW r \in Run, Acts(r)
  PROVE  \/ UNCHANGED file
         \/ /\ pc[r] = "open" /\ Statement(r) \notin View /\ ~Script[Statement(r)].append
            /\ file' = [file EXCEPT ![Script[Statement(r)].into] = <<>>]
         \/ /\ pc[r] \in {"lookup", "check", "pull"} /\ Statement(r) \notin View
            /\ pc'[r] \in {"next", "ended"} /\ CloseTarget(r)
            /\ at'[r] = at[r] /\ at[r] >= 1
<1>1. TypeOK
  BY DEF Structure
<1>2. CASE OpenTarget(r)
  <2>1. pc[r] = "open" /\ Statement(r) \notin View
    BY <1>2 DEF OpenTarget, Structure, StatementAtHand, StatementOf
  <2> QED
    BY <1>2, <2>1 DEF OpenTarget
<1>3. CASE LookupSource(r)
  <2>1. pc[r] = "lookup" /\ Statement(r) \notin View /\ at'[r] = at[r] /\ at[r] >= 1
    BY <1>3 DEF LookupSource, Structure, StatementAtHand, StatementOf
  <2>2. UNCHANGED file \/ (CloseTarget(r) /\ pc'[r] = "ended")
    BY <1>1, <1>3 DEF LookupSource, Throw, Goto, TypeOK
  <2> QED
    BY <2>1, <2>2
<1>4. CASE EndOfRows(r)
  <2>1. /\ pc[r] = "pull" /\ Mode(query[r]) \in {"none", "all", "key"}
        /\ at'[r] = at[r] /\ at[r] >= 1
    BY <1>4, AtHand DEF EndOfRows, Structure, StatementAtHand, StatementOf
  <2>2. UNCHANGED file \/ (Statement(r) \notin View /\ CloseTarget(r) /\ pc'[r] = "next")
    BY <1>1, <1>4, <2>1 DEF EndOfRows, CloseWriter, Goto, TypeOK
  <2> QED
    BY <2>1, <2>2
<1>5. CASE Fail(r)
  <2>1. \/ UNCHANGED file
        \/ /\ pc[r] \in {"lookup", "check", "pull"} /\ Statement(r) \notin View
           /\ CloseTarget(r) /\ pc'[r] = "ended" /\ at'[r] = at[r]
    BY <1>1, <1>5 DEF Fail, Opening, CloseWriter, Throw, Goto, TypeOK
  <2> QED
    BY <2>1 DEF Structure, StatementAtHand, StatementOf
<1>6. CASE Begin(r) \/ NextStatement(r) \/ ParseNext(r) \/ SyntaxError(r) \/ Return(r)
  BY <1>6 DEF Begin, NextStatement, ParseNext, SyntaxError, Return, shared
<1>7. CASE CheckOnce(r) \/ ToggleOnce(r) \/ Pull(r) \/ ChooseGroup(r)
  BY <1>7 DEF CheckOnce, ToggleOnce, Pull, ChooseGroup, shared
<1>8. CASE LoadCount(r) \/ StoreCount(r) \/ Evaluate(r) \/ ResetCount(r)
  BY <1>8 DEF LoadCount, StoreCount, Evaluate, ResetCount, shared
<1> QED
  BY <1>2, <1>3, <1>4, <1>5, <1>6, <1>7, <1>8 DEF Acts, Step

Occurs(row, rows) == \E j \in DOMAIN rows : rows[j] = row

\* A row of two sequences together is a row of one of them.
LEMMA RowOfEither ==
  ASSUME NEW u \in Seq(Row), NEW w \in Seq(Row)
  PROVE  \A i \in 1..Len(u \o w) : Occurs((u \o w)[i], u) \/ Occurs((u \o w)[i], w)
<1>1. /\ Len(u) \in Nat /\ Len(w) \in Nat
      /\ DOMAIN u = 1..Len(u) /\ DOMAIN w = 1..Len(w) /\ Len(u \o w) = Len(u) + Len(w)
  OBVIOUS
<1>2. SUFFICES ASSUME NEW i \in 1..Len(u \o w)
               PROVE  Occurs((u \o w)[i], u) \/ Occurs((u \o w)[i], w)
  OBVIOUS
<1>3. CASE i <= Len(u)
  <2>1. i \in 1..Len(u) /\ (u \o w)[i] = u[i]
    BY <1>1, <1>2, <1>3
  <2> QED
    BY <1>1, <2>1 DEF Occurs
<1>4. CASE ~(i <= Len(u))
  <2>1. i - Len(u) \in 1..Len(w) /\ (u \o w)[i] = w[i - Len(u)]
    BY <1>1, <1>2, <1>4
  <2> QED
    BY <1>1, <2>1 DEF Occurs
<1> QED
  BY <1>3, <1>4

\* What is left of a target behind what a writer puts over it.
LEMMA RowOfRest ==
  ASSUME NEW a \in Seq(Row), NEW n \in Nat
  PROVE  LET rest == SubSeq(a, n + 1, Len(a)) IN
         rest \in Seq(Row) /\ \A row : Occurs(row, rest) => Occurs(row, a)
<1> DEFINE rest == SubSeq(a, n + 1, Len(a))
<1>1. Len(a) \in Nat /\ rest \in Seq(Row) /\ DOMAIN a = 1..Len(a)
  OBVIOUS
<1>2. ASSUME NEW row, NEW j \in DOMAIN rest, rest[j] = row PROVE Occurs(row, a)
  <2>1. rest[j] = a[n + j] /\ n + j \in 1..Len(a)
    BY <1>1
  <2> QED
    BY <1>1, <1>2, <2>1 DEF Occurs
<1> QED
  BY <1>1, <1>2 DEF Occurs

\* What a writer makes of the rows of its target.
LEMMA WrittenRows ==
  ASSUME NEW a \in Seq(Row), NEW b \in Seq(Row), NEW c,
         c = a \o b \/ c = b \o SubSeq(a, Len(b) + 1, Len(a)), NEW i \in DOMAIN c
  PROVE  Occurs(c[i], a) \/ Occurs(c[i], b)
<1>1. CASE c = a \o b
  <2>1. i \in 1..Len(a \o b)
    BY <1>1
  <2> QED
    BY <1>1, <2>1, RowOfEither, Zenon
<1>2. CASE c = b \o SubSeq(a, Len(b) + 1, Len(a))
  <2> DEFINE rest == SubSeq(a, Len(b) + 1, Len(a))
  <2>1. Len(b) \in Nat
    OBVIOUS
  <2>2. rest \in Seq(Row) /\ \A row : Occurs(row, rest) => Occurs(row, a)
    BY <2>1, RowOfRest
  <2> HIDE DEF rest
  <2>3. c = b \o rest
    BY <1>2 DEF rest
  <2>4. i \in 1..Len(b \o rest)
    BY <2>2, <2>3
  <2>5. Occurs((b \o rest)[i], b) \/ Occurs((b \o rest)[i], rest)
    BY <2>2, <2>4, RowOfEither, Zenon
  <2> QED
    BY <2>2, <2>3, <2>5, Zenon
<1> QED
  BY <1>1, <1>2

\* No row of a statement that is not begun comes to a target.
LEMMA FreshStep ==
  ASSUME Structure, RowsBearTheirName, Next, NEW r \in Run, Acts(r), NEW o \in Run
  PROVE  FreshOf(o)'
<1>1. SUFFICES ASSUME NEW s \in Select, ~Begun(o, s)',
                      NEW i \in DOMAIN file'[Script[s].into]
               PROVE  ~(file'[Script[s].into][i].by = o /\ file'[Script[s].into][i].stmt = s)
  BY DEF FreshOf
<1> DEFINE t == Script[s].into
<1>2. t \in Target /\ file \in [Target -> Seq(Row)] /\ out[r] \in Seq(Row)
  BY Fragments DEF Fragment, Structure, TypeOK
<1>3. ~Begun(o, s)
  BY <1>1, BegunKept
<1>4. \A j \in DOMAIN file[t] : ~(file[t][j].by = o /\ file[t][j].stmt = s)
  BY <1>3 DEF RowsBearTheirName, FreshOf
<1>5. CASE UNCHANGED file
  BY <1>1, <1>4, <1>5
<1>6. CASE file' = [file EXCEPT ![Script[Statement(r)].into] = <<>>]
  <2>1. file'[t] = file[t] \/ file'[t] = <<>>
    BY <1>2, <1>6
  <2>2. DOMAIN <<>> = {}
    OBVIOUS
  <2> QED
    BY <1>1, <1>4, <2>1, <2>2
<1>7. CASE /\ pc[r] \in {"lookup", "check", "pull"} /\ Statement(r) \notin View
           /\ pc'[r] \in {"next", "ended"} /\ CloseTarget(r)
           /\ at'[r] = at[r] /\ at[r] >= 1
  <2>1. Tagged(r, Statement(r), out[r])
    BY <1>7, Places DEF RowsBearTheirName, TaggedOf
  <2>2. Occurs(file'[t][i], file[t]) \/ Occurs(file'[t][i], out[r])
    <3> DEFINE x == Script[Statement(r)]
    <3>1. Statement(r) \in Select
      BY <1>7, Statements DEF Structure
    <3>2. x.into \in Target
      BY <3>1, Fragments DEF Fragment
    <3>3. CASE t # x.into
      <4>1. file'[t] = file[t]
        BY <1>2, <1>7, <3>3 DEF CloseTarget
      <4> QED
        BY <1>1, <4>1 DEF Occurs
    <3>4. CASE t = x.into
      <4>1. \/ file'[t] = file[t] \o out[r]
            \/ file'[t] = out[r] \o SubSeq(file[t], Len(out[r]) + 1, Len(file[t]))
        BY <1>2, <1>7, <3>4 DEF CloseTarget
      <4>2. file[t] \in Seq(Row) /\ i \in DOMAIN file'[t]
        BY <1>1, <1>2
      <4> DEFINE c == file'[t]
                 a == file[t]
      <4>3. i \in DOMAIN c /\ (c = a \o out[r] \/ c = out[r] \o SubSeq(a, Len(out[r]) + 1, Len(a)))
        BY <4>1, <4>2
      <4>4. a \in Seq(Row)
        BY <4>2
      <4> HIDE DEF a, c
      <4>5. Occurs(c[i], a) \/ Occurs(c[i], out[r])
        BY <1>2, <4>3, <4>4, WrittenRows
      <4> QED
        BY <4>5 DEF a, c
    <3> QED
      BY <3>3, <3>4
  <2>3. o # r \/ s # Statement(r)
    <3>1. SUFFICES ASSUME o = r, s = Statement(r) PROVE FALSE
      OBVIOUS
    <3>2. at[r] \in Nat /\ Statement(r)' = Statement(r)
      BY <1>7, SamePlace DEF Structure, TypeOK
    <3>3. at[r] \in 1..at'[r] /\ ops'[at[r]] = s /\ pc'[r] \notin Executing
      BY <1>7, <3>1, <3>2, Places DEF Statement
    <3> QED
      BY <1>1, <3>1, <3>3 DEF Begun
  <2> QED
    BY <1>4, <2>1, <2>2, <2>3 DEF Tagged, Occurs
<1> QED
  BY <1>5, <1>6, <1>7, FileStep

\* Rows made for a run and a statement bear their name.
LEMMA TaggedRows ==
  ASSUME NEW r \in Run, NEW s \in Select
  PROVE  /\ Tagged(r, s, <<>>) /\ Tagged(r, s, FileRows(r, s))
         /\ \A k, n : Tagged(r, s, <<RowOf(r, s, k, n)>>)
  BY DEF Tagged, FileRows, RowOf

\* And what is left of them, or put together of them.
LEMMA TaggedParts ==
  ASSUME NEW r \in Run, NEW s \in Select, NEW rows \in Seq(Row), Tagged(r, s, rows)
  PROVE  /\ rows # <<>> => Tagged(r, s, Tail(rows)) /\ Tagged(r, s, <<Head(rows)>>)
         /\ \A u \in Seq(Row) : Tagged(r, s, u) => Tagged(r, s, rows \o u)
<1>1. rows # <<>> => Tagged(r, s, Tail(rows)) /\ Tagged(r, s, <<Head(rows)>>)
  BY DEF Tagged
<1>2. ASSUME NEW u \in Seq(Row), Tagged(r, s, u) PROVE Tagged(r, s, rows \o u)
  <2>1. ASSUME NEW x, Occurs(x, rows) \/ Occurs(x, u) PROVE x.by = r /\ x.stmt = s
    BY <1>2, <2>1 DEF Occurs, Tagged
  <2>2. \A i \in 1..Len(rows \o u) : (rows \o u)[i].by = r /\ (rows \o u)[i].stmt = s
    BY <2>1, RowOfEither
  <2>3. DOMAIN (rows \o u) = 1..Len(rows \o u)
    OBVIOUS
  <2> QED
    BY <2>2, <2>3 DEF Tagged
<1> QED
  BY <1>1, <1>2

\* Appending a row.
LEMMA AppendRow ==
  ASSUME NEW rows \in Seq(Row), NEW row \in Row
  PROVE  Append(rows, row) = rows \o <<row>> /\ <<row>> \in Seq(Row)
  OBVIOUS

\* A run keeps to its own names, statement by statement.
LEMMA TaggedNow ==
  ASSUME Structure, Next, NEW r \in Run, pc[r] \in Executing, at'[r] = at[r],
         pc'[r] \in Querying =>
           /\ Tagged(r, Statement(r), query'[r].feed)
           /\ Tagged(r, Statement(r), query'[r].done),
         pc'[r] \in Executing \ {"open"} /\ Statement(r) \notin View =>
           Tagged(r, Statement(r), out'[r])
  PROVE  TaggedOf(r)'
<1>1. at[r] >= 1
  BY Places DEF Structure, StatementAtHand, StatementOf
<1>2. Statement(r)' = Statement(r)
  BY <1>1, SamePlace
<1> QED
  BY <1>2 DEF TaggedOf, Tagged

\* An input or a view gives rows of the run and the statement.
LEMMA StatementTagged ==
  ASSUME Structure, Next, NEW r \in Run, TaggedOf(r),
         OpenTarget(r) \/ LookupSource(r) \/ CheckOnce(r) \/ ToggleOnce(r)
  PROVE  TaggedOf(r)'
<1> USE Places
<1> DEFINE s == Statement(r)
<1>1. /\ pc[r] \in {"open", "lookup", "check", "toggle"} /\ pc[r] \in Executing /\ TypeOK
      /\ s \in Select /\ at'[r] = at[r]
      /\ pc[r] # "open" /\ s \notin View => Tagged(r, s, out[r])
  BY Statements DEF OpenTarget, LookupSource, CheckOnce, ToggleOnce, Structure, shared, TaggedOf
<1>2. ASSUME NEW stages, OpenInput(r, stages)
      PROVE  Tagged(r, s, query'[r].feed) /\ Tagged(r, s, query'[r].done)
  <2>1. query'[r].feed = FileRows(r, s) /\ query'[r].done = <<>>
    BY <1>1, <1>2 DEF OpenInput, QueryOver, TypeOK
  <2> QED
    BY <1>1, <2>1, TaggedRows
<1>3. CASE OpenTarget(r)
  <2>1. pc'[r] = "lookup" /\ out'[r] = <<>>
    BY <1>1, <1>3 DEF OpenTarget, Goto, TypeOK
  <2> QED
    BY <1>1, <2>1, TaggedRows, TaggedNow
<1>4. CASE LookupSource(r)
  <2>1. pc[r] = "lookup" /\ (out'[r] = out[r] \/ pc'[r] = "ended")
    BY <1>1, <1>4 DEF LookupSource, Throw, Goto, Structure, TypeOK
  <2>2. OpenInput(r, <<s>>) \/ pc'[r] \in {"check", "ended"}
    BY <1>1, <1>4 DEF LookupSource, Goto, Throw, TypeOK
  <2> QED
    BY <1>1, <1>2, <2>1, <2>2, TaggedNow
<1>5. CASE CheckOnce(r)
  <2>1. pc[r] = "check" /\ out'[r] = out[r]
    BY <1>5 DEF CheckOnce
  <2>2. (\E stages : OpenInput(r, stages)) \/ pc'[r] = "toggle"
    BY <1>1, <1>5 DEF CheckOnce, Goto, TypeOK
  <2> QED
    BY <1>1, <1>2, <2>1, <2>2, TaggedNow
<1>6. CASE ToggleOnce(r)
  <2>1. pc[r] = "toggle" /\ out'[r] = out[r]
    BY <1>6 DEF ToggleOnce
  <2>2. \/ pc'[r] = "next"
        \/ query'[r].feed = <<RowOf(r, s, NoKey, 1)>> /\ query'[r].done = <<>>
    BY <1>1, <1>6 DEF ToggleOnce, Goto, QueryOver, TypeOK
  <2> QED
    BY <1>1, <2>1, <2>2, TaggedRows, TaggedNow
<1> QED
  BY <1>3, <1>4, <1>5, <1>6

\* A row that is taken is written as it is, or counted.
LEMMA PullTagged ==
  ASSUME Structure, Next, NEW r \in Run, TaggedOf(r), Pull(r)
  PROVE  TaggedOf(r)'
<1> USE Places
<1> DEFINE q == query[r]
           s == Statement(r)
<1>1. /\ pc[r] = "pull" /\ TypeOK /\ s \in Select /\ q \in Query
      /\ q.feed \in Seq(Row) /\ q.feed # <<>> /\ q.done \in Seq(Row) /\ at'[r] = at[r]
      /\ Mode(q) \in {"none", "all", "key"} /\ out[r] \in Seq(Row)
  BY AtHand DEF Pull, Exhausted, Structure, TypeOK
<1>2. Tagged(r, s, q.feed) /\ Tagged(r, s, q.done) /\ (s \notin View => Tagged(r, s, out[r]))
  BY <1>1 DEF TaggedOf
<1> DEFINE rest == [q EXCEPT !.feed = Tail(q.feed), !.taken = q.taken + 1]
<1>3. rest.feed = Tail(q.feed) /\ rest.done = q.done /\ rest \in Query
  <2>1. Tail(q.feed) \in Seq(Row) /\ q.taken + 1 \in Nat
    BY <1>1 DEF Query
  <2> QED
    BY <1>1, <2>1 DEF Query
<1> DEFINE more == [rest EXCEPT !.groups[Head(q.feed).key] = @ + 1]
<1>4. more.feed = rest.feed /\ more.done = rest.done
  BY <1>3 DEF Query
<1> HIDE DEF rest
<1>5. query'[r] \in {rest, more}
  BY <1>1 DEF Pull, rest, TypeOK
<1>6. query'[r].feed = Tail(q.feed) /\ query'[r].done = q.done
  BY <1>3, <1>4, <1>5
<1>7. s \notin View => Tagged(r, s, out'[r])
  <2>1. SUFFICES ASSUME s \notin View PROVE Tagged(r, s, out'[r])
    OBVIOUS
  <2>2. CASE out'[r] = out[r]
    BY <1>2, <2>1, <2>2
  <2>3. CASE out'[r] = (IF out[r] = <<>> THEN <<RowOf(r, s, Header, 0)>> ELSE out[r])
                         \o <<Head(q.feed)>>
    <3> DEFINE before == IF out[r] = <<>> THEN <<RowOf(r, s, Header, 0)>> ELSE out[r]
    <3>1. RowOf(r, s, Header, 0) \in Row
      BY <1>1, RowOfType DEF Column
    <3>2. before \in Seq(Row) /\ Tagged(r, s, before)
      BY <1>1, <1>2, <2>1, <3>1, TaggedRows
    <3>3. <<Head(q.feed)>> \in Seq(Row) /\ Tagged(r, s, <<Head(q.feed)>>)
      BY <1>1, <1>2, TaggedParts
    <3> HIDE DEF before
    <3>4. Tagged(r, s, before \o <<Head(q.feed)>>)
      BY <1>1, <3>2, <3>3, TaggedParts
    <3> QED
      BY <2>3, <3>4 DEF before
  <2>4. \/ out'[r] = out[r]
        \/ out'[r] = (IF out[r] = <<>> THEN <<RowOf(r, s, Header, 0)>> ELSE out[r])
                         \o <<Head(q.feed)>>
    BY <1>1 DEF Pull, TypeOK
  <2> QED
    BY <2>2, <2>3, <2>4
<1>8. Tagged(r, s, Tail(q.feed))
  BY <1>1, <1>2, TaggedParts
<1> QED
  BY <1>1, <1>2, <1>6, <1>7, <1>8, TaggedNow

\* The rows of the groups and of the results are made for the statement.
LEMMA CountTagged ==
  ASSUME Structure, Next, NEW r \in Run, TaggedOf(r),
         EndOfRows(r) \/ ChooseGroup(r) \/ LoadCount(r) \/ StoreCount(r)
         \/ Evaluate(r) \/ ResetCount(r)
  PROVE  TaggedOf(r)'
<1> USE Places
<1> DEFINE q == query[r]
           s == Statement(r)
<1>1. /\ pc[r] \in Querying /\ pc[r] # "open" /\ pc[r] \in Executing /\ TypeOK /\ s \in Select
      /\ pc[r] \notin {"idle", "next", "ended"}
      /\ q \in Query /\ q.feed \in Seq(Row) /\ q.done \in Seq(Row) /\ at'[r] = at[r]
      /\ Mode(q) \in {"none", "all", "key"}
  BY AtHand DEF EndOfRows, ChooseGroup, LoadCount, StoreCount, Evaluate, ResetCount, Structure
<1>9. out'[r] = out[r] \/ pc'[r] = "next"
  BY <1>1 DEF EndOfRows, ChooseGroup, LoadCount, StoreCount, Evaluate, ResetCount, Goto, TypeOK
<1>2. Tagged(r, s, q.feed) /\ Tagged(r, s, q.done) /\ (s \notin View => Tagged(r, s, out[r]))
  BY <1>1 DEF TaggedOf
<1>3. SUFFICES \/ pc'[r] = "next"
               \/ Tagged(r, s, query'[r].feed) /\ Tagged(r, s, query'[r].done)
  BY <1>1, <1>2, <1>9, TaggedNow
<1>4. CASE EndOfRows(r)
  <2>1. pc'[r] = "next" \/ query'[r] = q
    BY <1>1, <1>4 DEF EndOfRows, Goto, TypeOK
  <2> QED
    BY <1>2, <2>1
<1>5. CASE ChooseGroup(r)
  <2>1. ASSUME query' = [query EXCEPT ![r] = QueryOver(Around(q.stages), q.done, FALSE)]
        PROVE  query'[r].feed = q.done /\ query'[r].done = <<>>
    BY <1>1, <2>1 DEF QueryOver, TypeOK
  <2>2. ASSUME NEW k \in Column,
               query' = [query EXCEPT ![r] = [q EXCEPT !.groups[k] = 0,
                 !.feed = [i \in 1..q.groups[k] |-> RowOf(r, s, k, 0)]]]
        PROVE  Tagged(r, s, query'[r].feed) /\ query'[r].done = q.done
    <3>1. query'[r].feed = [i \in 1..q.groups[k] |-> RowOf(r, s, k, 0)] /\ query'[r].done = q.done
      BY <1>1, <2>2 DEF TypeOK, Query
    <3> HIDE DEF s
    <3> QED
      BY <3>1 DEF Tagged, RowOf
  <2> QED
    BY <1>1, <1>2, <1>5, <2>1, <2>2, TaggedRows DEF ChooseGroup
<1>6. CASE LoadCount(r) \/ Evaluate(r)
  <2>1. query'[r].feed = q.feed /\ query'[r].done = q.done
    BY <1>1, <1>6 DEF LoadCount, Evaluate, TypeOK, Query
  <2> QED
    BY <1>2, <2>1
<1>7. CASE StoreCount(r)
  <2>1. \/ query'[r] = q
        \/ q.feed # <<>> /\ query'[r].feed = Tail(q.feed) /\ query'[r].done = q.done
        \/ query'[r].feed = q.feed /\ query'[r].done = q.done
    <3>1. pc[r] \in AtAggregate
      BY <1>7 DEF StoreCount, AtAggregate
    <3>2. CASE Mode(q) = "all"
      BY <1>1, <1>7, <3>2 DEF StoreCount, TypeOK
    <3>3. CASE Mode(q) = "key"
      <4>1. q.feed # <<>>
        BY <1>1, <3>1, <3>3, AtHand
      <4> QED
        BY <1>1, <1>7, <3>3, <4>1 DEF StoreCount, TypeOK, Query
    <3> QED
      BY <1>1, <3>1, <3>2, <3>3, AtHand
  <2> QED
    BY <1>1, <1>2, <2>1, TaggedParts
<1>8. CASE ResetCount(r)
  <2> DEFINE row == RowOf(r, s, IF Mode(q) = "key" THEN Head(q.feed).key ELSE NoKey, q.seen)
  <2>1. row \in Row
    <3>1. pc[r] \in AtAggregate
      BY <1>8 DEF ResetCount, AtAggregate
    <3>2. q.seen \in Nat
      BY <1>1 DEF Query
    <3>3. (IF Mode(q) = "key" THEN Head(q.feed).key ELSE NoKey) \in Column
      <4>1. Mode(q) = "key" => q.feed # <<>>
        BY <1>1, <3>1, AtHand
      <4>2. Mode(q) = "key" => Head(q.feed) \in Row
        BY <1>1, <4>1
      <4> QED
        BY <4>2 DEF Row, Column
    <3> QED
      BY <1>1, <3>2, <3>3, RowOfType
  <2>2. Tagged(r, s, <<row>>)
    BY <1>1, TaggedRows
  <2> HIDE DEF row
  <2>3. Append(q.done, row) = q.done \o <<row>> /\ <<row>> \in Seq(Row)
    BY <1>1, <2>1, AppendRow
  <2>4. Tagged(r, s, Append(q.done, row))
    BY <1>1, <1>2, <2>2, <2>3, TaggedParts
  <2>5. \/ query'[r].feed = Append(q.done, row) /\ query'[r].done = <<>>
        \/ query'[r].feed = q.feed /\ query'[r].done = Append(q.done, row)
    <3>1. ASSUME query' = [query EXCEPT ![r] = Aggregated(q, row)]
          PROVE  query'[r].feed = Append(q.done, row) /\ query'[r].done = <<>>
      BY <1>1, <3>1 DEF Aggregated, QueryOver, TypeOK
    <3>2. ASSUME query' = [query EXCEPT ![r].done = Append(@, row)]
          PROVE  query'[r].feed = q.feed /\ query'[r].done = Append(q.done, row)
      BY <1>1, <3>2 DEF TypeOK, Query
    <3> QED
      BY <1>8, <3>1, <3>2 DEF ResetCount, row
  <2> QED
    BY <1>1, <1>2, <2>4, <2>5, TaggedRows
<1> QED
  BY <1>4, <1>5, <1>6, <1>7, <1>8

\* Every step keeps the names of the rows.
LEMMA NamesStep ==
  ASSUME Structure, RowsBearTheirName, [Next]_vars
  PROVE  RowsBearTheirName'
<1>1. CASE UNCHANGED vars
  BY <1>1 DEF vars, shared, local, RowsBearTheirName, TaggedOf, FreshOf, Begun, Statement
<1>2. CASE Next
  <2>1. PICK r \in Run : Acts(r)
    BY <1>2 DEF Next, Acts
  <2>2. SUFFICES ASSUME NEW o \in Run PROVE TaggedOf(o)'
    BY <1>2, <2>1, FreshStep DEF RowsBearTheirName
  <2>3. TaggedOf(o) /\ TaggedOf(r)
    BY DEF RowsBearTheirName
  <2>4. CASE o # r
    BY <1>2, <2>1, <2>3, <2>4, Elsewhere, Places DEF TaggedOf
  <2>5. CASE o = r
    <3>1. CASE Begin(r) \/ NextStatement(r) \/ ParseNext(r) \/ SyntaxError(r) \/ Return(r) \/ Fail(r)
      <4>1. pc'[r] \notin Querying /\ (pc'[r] \in Executing \ {"open"} => Statement(r)' \in View)
        <5>1. CASE Fail(r)
          BY <5>1, Places DEF Fail, Throw, Goto, Structure, TypeOK
        <5>2. CASE ~Fail(r)
          <6>1. pc[r] \in {"idle", "next"}
            BY <3>1, <5>2 DEF Begin, NextStatement, ParseNext, SyntaxError, Return
          <6> QED
            BY <2>1, <6>1, Progress, Places
        <5> QED
          BY <5>1, <5>2
      <4> QED
        BY <2>5, <4>1 DEF TaggedOf
    <3> QED
      BY <1>2, <2>1, <2>3, <2>5, <3>1, StatementTagged, PullTagged, CountTagged DEF Acts, Step
  <2> QED
    BY <2>4, <2>5
<1> QED
  BY <1>1, <1>2

-----------------------------------------------------------------------------
(* Counting rows by key *)

\* A prefix of some rows.
LEMMA PrefixRows ==
  ASSUME NEW rows \in Seq(Row), NEW n \in Nat, n <= Len(rows)
  PROVE  /\ SubSeq(rows, 1, n) \in Seq(Row) /\ Len(SubSeq(rows, 1, n)) = n
         /\ DOMAIN SubSeq(rows, 1, n) = 1..n
         /\ \A i \in 1..n : SubSeq(rows, 1, n)[i] = rows[i]
<1>1. Len(rows) \in Nat
  OBVIOUS
<1>2. SubSeq(rows, 1, n) \in Seq(Row) /\ Len(SubSeq(rows, 1, n)) = n
  BY <1>1
<1>3. \A i \in 1..n : SubSeq(rows, 1, n)[i] = rows[i]
  BY <1>1
<1> QED
  BY <1>2, <1>3

\* The places of a key in some rows are finitely many.
LEMMA HavingPlaces ==
  ASSUME NEW rows \in Seq(Row), NEW k
  PROVE  /\ IsFiniteSet({i \in DOMAIN rows : rows[i].key = k})
         /\ Having(rows, k) \in Nat
         /\ Having(rows, k) = 0 <=> k \notin Keys(rows)
<1> DEFINE places == {i \in DOMAIN rows : rows[i].key = k}
<1>1. Len(rows) \in Nat /\ DOMAIN rows = 1..Len(rows)
  OBVIOUS
<1>2. IsFiniteSet(1..Len(rows))
  BY <1>1, FS_Interval
<1>3. places \in SUBSET (1..Len(rows))
  BY <1>1
<1>4. IsFiniteSet(places)
  BY <1>2, <1>3, FS_Subset
<1>5. Cardinality(places) \in Nat
  BY <1>4, FS_CardinalityType
<1>6. Cardinality(places) = 0 <=> places = {}
  BY <1>4, FS_EmptySet
<1>7. places = {} <=> k \notin Keys(rows)
  BY DEF Keys
<1> QED
  BY <1>4, <1>5, <1>6, <1>7 DEF Having

\* One row more is one more of its key.
LEMMA HavingOneMore ==
  ASSUME NEW rows \in Seq(Row), NEW n \in Nat, n < Len(rows), NEW k
  PROVE  Having(SubSeq(rows, 1, n + 1), k) =
           IF rows[n + 1].key = k THEN Having(SubSeq(rows, 1, n), k) + 1
           ELSE Having(SubSeq(rows, 1, n), k)
<1> DEFINE old == SubSeq(rows, 1, n)
           new == SubSeq(rows, 1, n + 1)
           before == {i \in DOMAIN old : old[i].key = k}
           after == {i \in DOMAIN new : new[i].key = k}
<1>1. Len(rows) \in Nat /\ n <= Len(rows) /\ n + 1 <= Len(rows) /\ n + 1 \in Nat
  OBVIOUS
<1>2. /\ DOMAIN old = 1..n /\ DOMAIN new = 1..(n + 1) /\ old \in Seq(Row)
      /\ \A i \in 1..n : old[i] = rows[i]
      /\ \A i \in 1..(n + 1) : new[i] = rows[i]
  BY <1>1, PrefixRows
<1> HIDE DEF old, new
<1>3. before = {i \in 1..n : rows[i].key = k}
  BY <1>2
<1>4. after = {i \in 1..(n + 1) : rows[i].key = k}
  BY <1>2
<1>5. IsFiniteSet(before) /\ Cardinality(before) \in Nat
  BY <1>2, HavingPlaces DEF Having
<1>6. 1..(n + 1) = (1..n) \union {n + 1} /\ n + 1 \notin 1..n
  OBVIOUS
<1>7. CASE rows[n + 1].key = k
  <2>1. after = before \union {n + 1} /\ n + 1 \notin before
    BY <1>3, <1>4, <1>6, <1>7
  <2> HIDE DEF before, after
  <2>2. Cardinality(after) = Cardinality(before) + 1
    BY <1>5, <2>1, FS_AddElement
  <2> QED
    BY <1>7, <2>2 DEF Having, before, after, old, new
<1>8. CASE rows[n + 1].key # k
  <2>1. after = before
    BY <1>3, <1>4, <1>6, <1>8
  <2> QED
    BY <1>8, <2>1 DEF Having, old, new
<1> QED
  BY <1>7, <1>8

\* A list of all groups, each once, is one of the orders of the groups.
LEMMA GroupsListed ==
  ASSUME NEW r \in Run, NEW s \in Select, NEW rows \in Seq(Row), NEW list \in Seq(Row),
         \A i \in DOMAIN list : list[i] = RowOf(r, s, list[i].key, Having(rows, list[i].key)),
         \A i, j \in DOMAIN list : list[i].key = list[j].key => i = j,
         {list[i].key : i \in DOMAIN list} = Keys(rows)
  PROVE  \E ks \in SetToSeqs(Keys(rows)) :
           list = [i \in DOMAIN ks |-> RowOf(r, s, ks[i], Having(rows, ks[i]))]
<1> DEFINE n == Len(list)
           ks == [i \in 1..n |-> list[i].key]
<1>1. n \in Nat /\ DOMAIN list = 1..n /\ list = [i \in 1..n |-> list[i]]
  OBVIOUS
<1>2. ks \in Surjection(1..n, Keys(rows))
  BY <1>1 DEF Surjection
<1>3. ks \in Injection(1..n, Keys(rows))
  BY <1>1 DEF Injection, IsInjective
<1>4. IsFiniteSet(1..n) /\ Cardinality(1..n) = n
  BY <1>1, FS_Interval
<1>5. Cardinality(Keys(rows)) = n
  BY <1>2, <1>3, <1>4, FS_Surjection
<1>6. ks \in SetToSeqs(Keys(rows))
  <2>1. ks \in [1..n -> Keys(rows)] /\ \A i, j \in 1..n : i # j => ks[i] # ks[j]
    BY <1>1
  <2> HIDE DEF ks
  <2> QED
    BY <1>5, <2>1 DEF SetToSeqs
<1>7. list = [i \in DOMAIN ks |-> RowOf(r, s, ks[i], Having(rows, ks[i]))]
  <2>1. DOMAIN ks = 1..n /\ \A i \in 1..n : list[i] = RowOf(r, s, ks[i], Having(rows, ks[i]))
    BY <1>1
  <2> HIDE DEF ks
  <2> QED
    BY <1>1, <2>1
<1> HIDE DEF ks
<1> QED
  BY <1>6, <1>7

-----------------------------------------------------------------------------
(* What a SELECT means *)

\* The rows a LIMIT takes are the first ones.
LEMMA Takes ==
  ASSUME NEW rows \in Seq(Row), NEW n \in Nat, NEW limit \in Nat,
         n <= Len(rows), n <= limit, n = Len(rows) \/ n >= limit
  PROVE  Take(rows, limit) = SubSeq(rows, 1, n)
<1>1. Len(rows) \in Nat
  OBVIOUS
<1>2. (IF limit < Len(rows) THEN limit ELSE Len(rows)) = n
  BY <1>1
<1> QED
  BY <1>2 DEF Take

\* A prefix of a prefix.
LEMMA TakesTwice ==
  ASSUME NEW rows \in Seq(Row), NEW m \in Nat, NEW n \in Nat, m <= Len(rows), n <= m
  PROVE  SubSeq(SubSeq(rows, 1, m), 1, n) = SubSeq(rows, 1, n)
<1>1. Len(rows) \in Nat /\ n <= Len(rows)
  OBVIOUS
<1> DEFINE u == SubSeq(rows, 1, m)
           a == SubSeq(u, 1, n)
           b == SubSeq(rows, 1, n)
<1>2. u \in Seq(Row) /\ Len(u) = m /\ \A i \in 1..m : u[i] = rows[i]
  BY <1>1, PrefixRows
<1> HIDE DEF u
<1>3. a \in Seq(Row) /\ Len(a) = n /\ \A i \in 1..n : a[i] = u[i]
  BY <1>1, <1>2, PrefixRows
<1>4. b \in Seq(Row) /\ Len(b) = n /\ \A i \in 1..n : b[i] = rows[i]
  BY <1>1, PrefixRows
<1>5. \A i \in 1..n : a[i] = b[i]
  BY <1>1, <1>2, <1>3, <1>4
<1> HIDE DEF a, b
<1>6. a = b
  BY <1>1, <1>3, <1>4, <1>5, SeqEqual
<1> QED
  BY <1>6 DEF a, b, u

\* The rows a SELECT takes are rows.
LEMMA TakeType ==
  ASSUME NEW rows \in Seq(Row), NEW limit \in Nat
  PROVE  Take(rows, limit) \in Seq(Row) /\ Len(Take(rows, limit)) \in Nat
<1>1. Len(rows) \in Nat
  OBVIOUS
<1> DEFINE n == IF limit < Len(rows) THEN limit ELSE Len(rows)
<1>2. n \in Nat /\ n <= Len(rows)
  BY <1>1
<1> HIDE DEF n
<1>3. SubSeq(rows, 1, n) \in Seq(Row) /\ Len(SubSeq(rows, 1, n)) = n
  BY <1>2, PrefixRows
<1> QED
  BY <1>2, <1>3 DEF Take, n

\* What a SELECT makes of rows is rows.
LEMMA MeaningType ==
  ASSUME NEW r \in Run, NEW c \in Select, NEW s \in Select, NEW rows \in Seq(Row)
  PROVE  Meaning(r, c, s, rows) \subseteq Seq(Row)
<1> DEFINE taken == Take(rows, Script[c].limit)
<1>1. Script[c].limit \in Nat /\ Script[c].agg \in {"none", "all", "key"}
  BY Fragments DEF Fragment
<1>2. taken \in Seq(Row) /\ Len(taken) \in Nat
  BY <1>1, TakeType
<1> HIDE DEF taken
<1>3. CASE Script[c].agg = "none"
  BY <1>2, <1>3 DEF Meaning, taken
<1>4. CASE Script[c].agg = "all"
  <2>1. RowOf(r, s, NoKey, Len(taken)) \in Row
    BY <1>2, RowOfType DEF Column
  <2>2. Meaning(r, c, s, rows) = {<<RowOf(r, s, NoKey, Len(taken))>>}
    BY <1>4 DEF Meaning, taken
  <2> QED
    BY <2>1, <2>2
<1>5. CASE Script[c].agg = "key"
  <2>1. Meaning(r, c, s, rows) =
          {[i \in DOMAIN ks |-> RowOf(r, s, ks[i], Having(taken, ks[i]))] : ks \in SetToSeqs(Keys(taken))}
    BY <1>5 DEF Meaning, taken
  <2>2. Keys(taken) \subseteq Column
    <3>1. \A i \in DOMAIN taken : taken[i] \in Row
      BY <1>2
    <3> QED
      BY <3>1 DEF Keys, Row
  <2>3. SUFFICES ASSUME NEW ks \in SetToSeqs(Keys(taken))
                 PROVE  [i \in DOMAIN ks |-> RowOf(r, s, ks[i], Having(taken, ks[i]))] \in Seq(Row)
    BY <2>1
  <2> DEFINE n == Cardinality(Keys(taken))
  <2>4. IsFiniteSet(Keys(taken))
    <3> DEFINE m == Len(taken)
               f == [i \in 1..m |-> taken[i].key]
    <3>1. DOMAIN taken = 1..m
      BY <1>2
    <3>2. f \in Surjection(1..m, Keys(taken))
      BY <3>1 DEF Surjection, Keys
    <3>3. IsFiniteSet(1..m)
      BY <1>2, FS_Interval
    <3> HIDE DEF f, m
    <3> QED
      BY <3>2, <3>3, FS_Surjection
  <2>5. n \in Nat
    BY <2>4, FS_CardinalityType
  <2>6. ks \in [1..n -> Keys(taken)]
    BY DEF SetToSeqs
  <2>7. \A i \in 1..n : RowOf(r, s, ks[i], Having(taken, ks[i])) \in Row
    BY <1>2, <2>2, <2>6, HavingPlaces, RowOfType
  <2> HIDE DEF n
  <2> QED
    BY <2>5, <2>6, <2>7
<1> QED
  BY <1>1, <1>3, <1>4, <1>5

\* What is behind the SELECTs that are pulled.
LEMMA RestOfStages ==
  ASSUME NEW a \in Select, NEW b \in Select
  PROVE  /\ SubSeq(<<a, b>>, 2, 2) = <<b>> /\ SubSeq(<<a, b>>, 3, 2) = <<>>
         /\ SubSeq(<<a>>, 2, 1) = <<>> /\ <<a>> # <<a, b>> /\ <<b>> # <<a, b>>
         /\ Len(<<a, b>>) = 2 /\ Len(<<a>>) = 1
<1>1. <<a, b>> \in Seq(Select) /\ <<a>> \in Seq(Select) /\ <<b>> \in Seq(Select)
  OBVIOUS
<1>2. Len(<<a, b>>) = 2 /\ Len(<<a>>) = 1 /\ Len(<<b>>) = 1 /\ <<a, b>>[2] = b /\ <<b>>[1] = b
  OBVIOUS
<1>3. SubSeq(<<a, b>>, 2, 2) = <<b>>
  <2> DEFINE u == SubSeq(<<a, b>>, 2, 2)
  <2>1. u \in Seq(Select) /\ Len(u) = 1 /\ u[1] = b
    BY <1>1, <1>2
  <2>2. \A i \in 1..Len(u) : u[i] = <<b>>[i]
    BY <1>2, <2>1
  <2> HIDE DEF u
  <2>3. u = <<b>>
    BY <1>1, <1>2, <2>1, <2>2, SeqEqual
  <2> QED
    BY <2>3 DEF u
<1>4. SubSeq(<<a, b>>, 3, 2) = <<>> /\ SubSeq(<<a>>, 2, 1) = <<>>
  <2>1. SubSeq(<<a, b>>, 3, 2) \in Seq(Select) /\ Len(SubSeq(<<a, b>>, 3, 2)) = 0
    BY <1>1, <1>2
  <2>2. SubSeq(<<a>>, 2, 1) \in Seq(Select) /\ Len(SubSeq(<<a>>, 2, 1)) = 0
    BY <1>1, <1>2
  <2> QED
    BY <2>1, <2>2, EmptySeq
<1> QED
  BY <1>2, <1>3, <1>4

\* The SELECTs at hand of an INSERT: its own, or the view's and its own.
LEMMA StageCases ==
  ASSUME NEW s \in Select, NEW q \in Query, q.stages \in Stages(s), q.stages # <<>>
  PROVE  LET f == Script[s].from
             c == Consumer(q) IN
         /\ Mode(q) = Script[c].agg /\ c \in Select
         /\ \/ /\ q.stages = <<s>> /\ c = s
               /\ Pulled(q.stages) = <<s>> /\ Around(q.stages) = <<>>
            \/ /\ q.stages = <<f, s>> /\ f \in View /\ c = f /\ Script[f].agg # "none"
               /\ Pulled(q.stages) = <<f>> /\ Around(q.stages) = <<s>>
            \/ /\ q.stages = <<f, s>> /\ f \in View /\ c = s /\ Script[f].agg = "none"
               /\ Pulled(q.stages) = <<f, s>> /\ Around(q.stages) = <<>>
<1> DEFINE f == Script[s].from
           c == Consumer(q)
<1>1. f \in {0} \union View /\ (f \in View => f \in Select)
  BY Fragments
<1>2. q.stages = <<s>> \/ (f \in View /\ q.stages = <<f, s>>)
  BY <1>1 DEF Stages
<1>3. Mode(q) = Script[c].agg
  BY DEF Mode, Consumer
<1>4. CASE q.stages = <<s>>
  <2>1. Pulled(q.stages) = <<s>>
    BY <1>4 DEF Pulled
  <2>2. c = s
    BY <2>1 DEF Consumer
  <2>3. Around(q.stages) = <<>>
    <3>0. Len(Pulled(q.stages)) = 1 /\ Len(q.stages) = 1
      BY <1>4, <2>1, RestOfStages, Zenon
    <3>1. Around(q.stages) = SubSeq(<<s>>, 2, 1)
      BY <1>4, <3>0 DEF Around
    <3> QED
      BY <3>1, RestOfStages
  <2> QED
    BY <1>3, <1>4, <2>1, <2>2, <2>3
<1>5. CASE f \in View /\ q.stages = <<f, s>> /\ Script[f].agg # "none"
  <2>1. Pulled(q.stages) = <<f>>
    BY <1>5 DEF Pulled
  <2>2. c = f
    BY <2>1 DEF Consumer
  <2>3. Around(q.stages) = <<s>>
    <3>0. Len(Pulled(q.stages)) = 1 /\ Len(q.stages) = 2
      BY <1>1, <1>5, <2>1, RestOfStages, Zenon
    <3>1. Around(q.stages) = SubSeq(<<f, s>>, 2, 2)
      <4>1. Len(Pulled(q.stages)) + 1 = 2
        BY <3>0
      <4> QED
        BY <1>5, <3>0, <4>1, Zenon DEF Around
    <3> QED
      BY <1>1, <1>5, <3>1, RestOfStages
  <2> QED
    BY <1>1, <1>3, <1>5, <2>1, <2>2, <2>3
<1>6. CASE f \in View /\ q.stages = <<f, s>> /\ Script[f].agg = "none"
  <2>1. Pulled(q.stages) = <<f, s>>
    BY <1>6 DEF Pulled
  <2>2. c = s
    BY <2>1 DEF Consumer
  <2>3. Around(q.stages) = <<>>
    <3>0. Len(Pulled(q.stages)) = 2 /\ Len(q.stages) = 2
      BY <1>1, <1>6, <2>1, RestOfStages, Zenon
    <3>1. Around(q.stages) = SubSeq(<<f, s>>, 3, 2)
      <4>1. Len(Pulled(q.stages)) + 1 = 3
        BY <3>0
      <4> QED
        BY <1>6, <3>0, <4>1, Zenon DEF Around
    <3> QED
      BY <1>1, <1>6, <3>1, RestOfStages
  <2> QED
    BY <1>1, <1>3, <1>6, <2>1, <2>2, <2>3
<1> QED
  BY <1>2, <1>4, <1>5, <1>6

\* The rows an INSERT may be executed over are rows.
LEMMA OverType ==
  ASSUME NEW r \in Run, NEW s \in Select, NEW stages \in Stages(s)
  PROVE  /\ Over(r, s, stages) \subseteq Seq(Row) /\ Source(r, s) \subseteq Seq(Row)
         /\ Over(r, s, <<>>) = Results(r, s) /\ Over(r, s, <<s>>) = Source(r, s)
         /\ \A f : Over(r, s, <<f, s>>) = {FileRows(r, s)}
<1>1. FileRows(r, s) \in Seq(Row)
  BY FileRowsType
<1>2. Script[s].from # 0 => Script[s].from \in Select
  BY Fragments
<1>3. Source(r, s) \subseteq Seq(Row)
  BY <1>1, <1>2, MeaningType DEF Source
<1>4. Results(r, s) \subseteq Seq(Row)
  BY <1>3, MeaningType DEF Results
<1>5. /\ <<s>> # <<>> /\ \A f : <<f, s>> # <<>> /\ <<f, s>> # <<s>>
  OBVIOUS
<1> QED
  BY <1>1, <1>3, <1>4, <1>5 DEF Over

\* A query that has taken all it wants has taken what the SELECT that consumes
\* its rows takes of the rows it stands for; its results are those of the INSERT
\* up to that SELECT.
LEMMA Ends ==
  ASSUME NEW r \in Run, NEW s \in Select, NEW q \in Query, q.stages \in Stages(s),
         q.stages # <<>>, NEW rows \in Over(r, s, q.stages), Within(q, rows), Through(q, rows)
  PROVE  \E base \in Seq(Row) :
           /\ Take(base, Script[Consumer(q)].limit) = Taken(q, rows)
           /\ Meaning(r, Consumer(q), s, base) \subseteq Over(r, s, Around(q.stages))
<1> DEFINE f == Script[s].from
           c == Consumer(q)
           n == q.taken
<1>0. c \in Select /\ \A x \in View : x \in Select /\ <<s>> # <<x, s>>
  <2>1. c \in Select
    BY StageCases
  <2>2. \A x \in View : x \in Select
    BY Fragments
  <2> QED
    BY <2>1, <2>2, RestOfStages
<1>1. /\ n \in Nat /\ rows \in Seq(Row) /\ Len(rows) \in Nat /\ n <= Len(rows)
      /\ c \in Select /\ Script[c].limit \in Nat
  <2>1. rows \in Seq(Row)
    BY OverType
  <2>2. Script[c].limit \in Nat
    BY <1>0, Fragments DEF Fragment
  <2> QED
    BY <1>0, <2>1, <2>2 DEF Query, Within
<1>2. CASE q.stages = <<s>>
  <2>1. c = s /\ Pulled(q.stages) = <<s>> /\ Around(q.stages) = <<>>
    BY <1>0, <1>2, StageCases
  <2>2. n <= Script[s].limit /\ (n = Len(rows) \/ n >= Script[s].limit)
    BY <2>1 DEF Within, Through
  <2>3. Take(rows, Script[s].limit) = SubSeq(rows, 1, n)
    BY <1>1, <2>1, <2>2, Takes
  <2>4. rows \in Source(r, s) /\ Over(r, s, Around(q.stages)) = Results(r, s)
    BY <1>2, <2>1, OverType
  <2>5. Meaning(r, s, s, rows) \subseteq Results(r, s)
    BY <2>4 DEF Results
  <2> QED
    BY <1>1, <2>1, <2>3, <2>4, <2>5 DEF Taken
<1>3. CASE q.stages = <<f, s>> /\ Script[f].agg # "none" /\ f \in View
  <2>1. c = f /\ Pulled(q.stages) = <<f>> /\ Around(q.stages) = <<s>>
    BY <1>0, <1>3, StageCases
  <2>2. n <= Script[f].limit /\ (n = Len(rows) \/ n >= Script[f].limit)
    BY <2>1 DEF Within, Through
  <2>3. Take(rows, Script[f].limit) = SubSeq(rows, 1, n)
    BY <1>1, <2>1, <2>2, Takes
  <2>4. rows = FileRows(r, s) /\ Over(r, s, Around(q.stages)) = Source(r, s)
    BY <1>3, <2>1, OverType
  <2>5. Meaning(r, f, s, rows) = Source(r, s)
    <3>1. f # 0
      BY <1>3, Fragments
    <3> QED
      BY <2>4, <3>1 DEF Source
  <2> QED
    BY <1>1, <2>1, <2>3, <2>4, <2>5 DEF Taken
<1>4. CASE q.stages = <<f, s>> /\ Script[f].agg = "none" /\ f \in View
  <2>1. c = s /\ Pulled(q.stages) = <<f, s>> /\ Around(q.stages) = <<>>
    BY <1>0, <1>4, StageCases
  <2>2. f \in Select /\ f # 0 /\ Script[f].limit \in Nat /\ Script[s].limit \in Nat
    BY <1>4, Fragments DEF Fragment
  <2>3. \A i \in DOMAIN <<f, s>> : n <= Script[<<f, s>>[i]].limit
    BY <2>1 DEF Within
  <2>4. n <= Script[f].limit /\ n <= Script[s].limit
    <3>1. 1 \in DOMAIN <<f, s>> /\ 2 \in DOMAIN <<f, s>> /\ <<f, s>>[1] = f /\ <<f, s>>[2] = s
      OBVIOUS
    <3> QED
      BY <2>3, <3>1
  <2>5. n = Len(rows) \/ n >= Script[f].limit \/ n >= Script[s].limit
    <3>1. n = Len(rows) \/ \E i \in DOMAIN <<f, s>> : n >= Script[<<f, s>>[i]].limit
      BY <2>1 DEF Through
    <3>2. \A i \in DOMAIN <<f, s>> : <<f, s>>[i] \in {f, s}
      OBVIOUS
    <3> QED
      BY <3>1, <3>2
  <2> DEFINE m == IF Script[f].limit < Len(rows) THEN Script[f].limit ELSE Len(rows)
             base == SubSeq(rows, 1, m)
  <2>6. m \in Nat /\ m <= Len(rows) /\ n <= m /\ m <= Script[f].limit
        /\ (m = Len(rows) \/ m >= Script[f].limit) /\ (n = m \/ n >= Script[s].limit)
    BY <1>1, <2>2, <2>4, <2>5
  <2> HIDE DEF m
  <2>7. Take(rows, Script[f].limit) = base
    BY <1>1, <2>2, <2>6, Takes
  <2>8. base \in Seq(Row) /\ Len(base) = m
    BY <1>1, <2>6, PrefixRows
  <2>9. Take(base, Script[s].limit) = SubSeq(base, 1, n)
    <3> HIDE DEF base
    <3> QED
      BY <1>1, <2>2, <2>4, <2>6, <2>8, Takes
  <2>10. SubSeq(base, 1, n) = SubSeq(rows, 1, n)
    BY <1>1, <2>6, TakesTwice
  <2>11. rows = FileRows(r, s)
    <3>1. Over(r, s, <<f, s>>) = {FileRows(r, s)}
      BY OverType
    <3> QED
      BY <1>4, <3>1
  <2>14. Over(r, s, Around(q.stages)) = Results(r, s)
    BY <2>1, OverType
  <2>12. Source(r, s) = {base}
    BY <1>4, <2>2, <2>7, <2>11 DEF Source, Meaning
  <2>13. Meaning(r, s, s, base) \subseteq Results(r, s)
    BY <2>12 DEF Results
  <2> HIDE DEF base
  <2> QED
    BY <2>1, <2>8, <2>9, <2>10, <2>13, <2>14 DEF Taken
<1> QED
  BY <1>2, <1>3, <1>4, StageCases

\* A query that copies rows has copied a result of the INSERT.
LEMMA EndOfCopy ==
  ASSUME NEW r \in Run, NEW s \in Select, NEW q \in Query, q.stages \in Stages(s),
         NEW rows \in Over(r, s, q.stages), Within(q, rows), Through(q, rows), Mode(q) = "none"
  PROVE  Taken(q, rows) \in Results(r, s)
<1>1. rows \in Seq(Row) /\ q.taken \in Nat
  BY OverType DEF Query
<1>2. CASE q.stages = <<>>
  <2>1. Pulled(q.stages) = <<>> /\ rows \in Results(r, s)
    BY <1>2, OverType DEF Pulled
  <2>2. q.taken = Len(rows)
    BY <2>1 DEF Through
  <2>3. SubSeq(rows, 1, Len(rows)) = rows
    BY <1>1
  <2> QED
    BY <2>1, <2>2, <2>3 DEF Taken
<1>3. CASE q.stages # <<>>
  <2>1. PICK base \in Seq(Row) :
          /\ Take(base, Script[Consumer(q)].limit) = Taken(q, rows)
          /\ Meaning(r, Consumer(q), s, base) \subseteq Over(r, s, Around(q.stages))
    BY <1>3, Ends
  <2>2. Script[Consumer(q)].agg = "none" /\ Over(r, s, Around(q.stages)) = Results(r, s)
    BY <1>3, StageCases, OverType
  <2> QED
    BY <2>1, <2>2 DEF Meaning
<1> QED
  BY <1>2, <1>3

\* A query that counts all rows has counted those of a row of the INSERT.
LEMMA EndOfCount ==
  ASSUME NEW r \in Run, NEW s \in Select, NEW q \in Query, q.stages \in Stages(s),
         NEW rows \in Over(r, s, q.stages), Within(q, rows), Through(q, rows), Mode(q) = "all"
  PROVE  <<RowOf(r, s, NoKey, q.taken)>> \in Over(r, s, Around(q.stages))
<1>1. q.stages # <<>>
  BY DEF Mode
<1>2. rows \in Seq(Row) /\ q.taken \in Nat /\ q.taken <= Len(rows)
  BY OverType DEF Query, Within
<1>3. PICK base \in Seq(Row) :
        /\ Take(base, Script[Consumer(q)].limit) = Taken(q, rows)
        /\ Meaning(r, Consumer(q), s, base) \subseteq Over(r, s, Around(q.stages))
  BY <1>1, Ends
<1>4. Script[Consumer(q)].agg = "all"
  BY <1>1, StageCases
<1>5. Len(Taken(q, rows)) = q.taken
  BY <1>2, PrefixRows DEF Taken
<1> QED
  BY <1>3, <1>4, <1>5 DEF Meaning

\* A query that has counted every group has made the rows of the groups.
LEMMA EndOfGroups ==
  ASSUME NEW r \in Run, NEW s \in Select, NEW q \in Query, q.stages \in Stages(s),
         NEW rows \in Over(r, s, q.stages), Within(q, rows), Through(q, rows), Mode(q) = "key",
         \A i \in DOMAIN q.done :
           q.done[i] = RowOf(r, s, q.done[i].key, Having(Taken(q, rows), q.done[i].key)),
         \A i, j \in DOMAIN q.done : q.done[i].key = q.done[j].key => i = j,
         Grouped(q) = Keys(Taken(q, rows))
  PROVE  q.done \in Over(r, s, Around(q.stages))
<1>1. q.stages # <<>>
  BY DEF Mode
<1>2. rows \in Seq(Row) /\ q.taken \in Nat /\ q.taken <= Len(rows) /\ q.done \in Seq(Row)
  BY OverType DEF Query, Within
<1>3. PICK base \in Seq(Row) :
        /\ Take(base, Script[Consumer(q)].limit) = Taken(q, rows)
        /\ Meaning(r, Consumer(q), s, base) \subseteq Over(r, s, Around(q.stages))
  BY <1>1, Ends
<1>4. Script[Consumer(q)].agg = "key"
  BY <1>1, StageCases
<1> DEFINE taken == Taken(q, rows)
<1>5. taken \in Seq(Row)
  BY <1>2, PrefixRows DEF Taken
<1>6. {q.done[i].key : i \in DOMAIN q.done} = Keys(taken)
  BY DEF Grouped
<1> HIDE DEF taken
<1>7. PICK ks \in SetToSeqs(Keys(taken)) :
        q.done = [i \in DOMAIN ks |-> RowOf(r, s, ks[i], Having(taken, ks[i]))]
  <2> DEFINE list == q.done
  <2>1. /\ list \in Seq(Row)
        /\ \A i \in DOMAIN list : list[i] = RowOf(r, s, list[i].key, Having(taken, list[i].key))
        /\ \A i, j \in DOMAIN list : list[i].key = list[j].key => i = j
        /\ {list[i].key : i \in DOMAIN list} = Keys(taken)
    BY <1>2, <1>6 DEF taken
  <2> HIDE DEF list
  <2>2. \E ks \in SetToSeqs(Keys(taken)) :
          list = [i \in DOMAIN ks |-> RowOf(r, s, ks[i], Having(taken, ks[i]))]
    BY <1>5, <2>1, GroupsListed
  <2> QED
    BY <2>2 DEF list
<1>8. Meaning(r, Consumer(q), s, base) =
        {[i \in DOMAIN ks2 |-> RowOf(r, s, ks2[i], Having(taken, ks2[i]))] : ks2 \in SetToSeqs(Keys(taken))}
  BY <1>3, <1>4 DEF Meaning, taken
<1>9. q.done \in Meaning(r, Consumer(q), s, base)
  BY <1>7, <1>8
<1> QED
  BY <1>3, <1>9

-----------------------------------------------------------------------------
(* Taking and writing rows *)

\* The next row of those ahead.
LEMMA RowsAhead ==
  ASSUME NEW rows \in Seq(Row), NEW n \in Nat, n <= Len(rows)
  PROVE  LET ahead == SubSeq(rows, n + 1, Len(rows)) IN
         /\ ahead = <<>> <=> n = Len(rows)
         /\ ahead # <<>> => /\ n + 1 \in 1..Len(rows) /\ Head(ahead) = rows[n + 1]
                            /\ Tail(ahead) = SubSeq(rows, n + 2, Len(rows))
<1> DEFINE ahead == SubSeq(rows, n + 1, Len(rows))
<1>1. Len(rows) \in Nat
  OBVIOUS
<1>2. /\ ahead \in Seq(Row) /\ Len(ahead) = Len(rows) - n
      /\ \A i \in 1..(Len(rows) - n) : ahead[i] = rows[n + i]
  BY <1>1
<1>3. ahead = <<>> <=> n = Len(rows)
  <2>1. ahead = <<>> <=> Len(ahead) = 0
    <3> HIDE DEF ahead
    <3> QED
      BY <1>2, EmptySeq
  <2> QED
    BY <1>1, <1>2, <2>1
<1>4. ASSUME ahead # <<>>
      PROVE  /\ n + 1 \in 1..Len(rows) /\ Head(ahead) = rows[n + 1]
             /\ Tail(ahead) = SubSeq(rows, n + 2, Len(rows))
  <2>1. n + 1 \in 1..Len(rows)
    BY <1>1, <1>3, <1>4
  <2>2. Head(ahead) = rows[n + 1]
    BY <1>1, <1>2, <2>1
  <2> DEFINE rest == SubSeq(rows, n + 2, Len(rows))
  <2>3. /\ rest \in Seq(Row) /\ Len(rest) = Len(rows) - n - 1
        /\ \A i \in 1..(Len(rows) - n - 1) : rest[i] = rows[n + 1 + i]
    BY <1>1, <2>1
  <2>4. /\ Tail(ahead) \in Seq(Row) /\ Len(Tail(ahead)) = Len(rows) - n - 1
        /\ \A i \in 1..(Len(rows) - n - 1) : Tail(ahead)[i] = rows[n + 1 + i]
    <3>1. /\ Tail(ahead) \in Seq(Row) /\ Len(Tail(ahead)) = Len(ahead) - 1
          /\ \A i \in 1..(Len(ahead) - 1) : Tail(ahead)[i] = ahead[i + 1]
      <4> HIDE DEF ahead
      <4> QED
        BY <1>2, <1>4
    <3>2. \A i \in 1..(Len(rows) - n - 1) : i + 1 \in 1..(Len(rows) - n) /\ n + (i + 1) = n + 1 + i
      BY <1>1
    <3> HIDE DEF ahead
    <3> QED
      BY <1>1, <1>2, <3>1, <3>2
  <2> DEFINE tail == Tail(ahead)
  <2>5. /\ tail \in Seq(Row) /\ Len(tail) = Len(rows) - n - 1
        /\ \A i \in 1..(Len(rows) - n - 1) : tail[i] = rows[n + 1 + i]
    BY <2>4
  <2> HIDE DEF rest, tail
  <2>6. tail = rest
    BY <2>3, <2>5, SeqEqual
  <2> QED
    BY <2>1, <2>2, <2>6 DEF tail, rest
<1> QED
  BY <1>3, <1>4

\* A prefix and the row behind it.
LEMMA PrefixAndRow ==
  ASSUME NEW rows \in Seq(Row), NEW n \in Nat, n < Len(rows)
  PROVE  SubSeq(rows, 1, n + 1) = SubSeq(rows, 1, n) \o <<rows[n + 1]>>
<1> DEFINE a == SubSeq(rows, 1, n + 1)
           b == SubSeq(rows, 1, n)
           c == b \o <<rows[n + 1]>>
<1>1. Len(rows) \in Nat /\ n <= Len(rows) /\ n + 1 \in Nat /\ n + 1 <= Len(rows) /\ rows[n + 1] \in Row
  OBVIOUS
<1>2. a \in Seq(Row) /\ Len(a) = n + 1 /\ \A i \in 1..(n + 1) : a[i] = rows[i]
  BY <1>1, PrefixRows
<1>3. b \in Seq(Row) /\ Len(b) = n /\ \A i \in 1..n : b[i] = rows[i]
  BY <1>1, PrefixRows
<1>4. c \in Seq(Row) /\ Len(c) = n + 1 /\ \A i \in 1..(n + 1) : c[i] = rows[i]
  <2> HIDE DEF b
  <2> QED
    BY <1>1, <1>3
<1>5. \A i \in 1..(n + 1) : a[i] = c[i]
  BY <1>2, <1>4
<1> HIDE DEF a, c
<1>6. a = c
  BY <1>2, <1>4, <1>5, SeqEqual
<1> QED
  BY <1>6 DEF a, b, c

\* Putting sequences together.
LEMMA ConcatThree ==
  ASSUME NEW a \in Seq(Row), NEW b \in Seq(Row), NEW c \in Seq(Row)
  PROVE  (a \o b) \o c = a \o (b \o c)
  OBVIOUS

\* A writer has the header before the first row.
LEMMA WriterAndRow ==
  ASSUME NEW r \in Run, NEW s \in Select, NEW rows \in Seq(Row), NEW row \in Row
  PROVE  LET lines == WithHeader(r, s, rows) IN
         WithHeader(r, s, rows \o <<row>>) =
           (IF lines = <<>> THEN <<RowOf(r, s, Header, 0)>> ELSE lines) \o <<row>>
<1> DEFINE h == RowOf(r, s, Header, 0)
           one == <<row>>
<1>1. h \in Row
  BY RowOfType DEF Column
<1>2. <<h>> \in Seq(Row) /\ one \in Seq(Row) /\ rows \o one \in Seq(Row) /\ rows \o one # <<>>
  BY <1>1
<1>3. WithHeader(r, s, rows \o one) = <<h>> \o (rows \o one)
  BY <1>2 DEF WithHeader
<1>4. CASE rows = <<>>
  <2>1. WithHeader(r, s, rows) = <<>>
    BY <1>4 DEF WithHeader
  <2>2. rows \o one = one
    BY <1>2, <1>4
  <2> QED
    BY <1>3, <2>1, <2>2
<1>5. CASE rows # <<>>
  <2>1. WithHeader(r, s, rows) = <<h>> \o rows
    BY <1>5 DEF WithHeader
  <2>2. <<h>> \o rows # <<>>
    BY <1>2, <1>5
  <2> HIDE DEF h, one
  <2>3. <<h>> \o (rows \o one) = (<<h>> \o rows) \o one
    BY <1>2, ConcatThree
  <2> QED
    BY <1>3, <2>1, <2>2, <2>3 DEF h, one
<1> QED
  BY <1>4, <1>5

\* The lines of a writer are rows.
LEMMA WriterType ==
  ASSUME NEW r \in Run, NEW s \in Select, NEW rows \in Seq(Row)
  PROVE  WithHeader(r, s, rows) \in Seq(Row)
<1>1. RowOf(r, s, Header, 0) \in Row
  BY RowOfType DEF Column
<1> QED
  BY <1>1 DEF WithHeader

\* Lines that come behind rows of others stand there exactly.
LEMMA WrittenExactly ==
  ASSUME NEW r, NEW s, NEW rows \in Seq(Row), NEW lines \in Seq(Row),
         \A i \in DOMAIN rows : ~(rows[i].by = r /\ rows[i].stmt = s)
  PROVE  WroteExactly(r, s, lines, rows \o lines)
<1> DEFINE n == Len(rows)
           all == rows \o lines
<1>1. n \in Nat /\ Len(lines) \in Nat /\ Len(all) = n + Len(lines)
      /\ DOMAIN lines = 1..Len(lines) /\ DOMAIN all = 1..Len(all) /\ DOMAIN rows = 1..n
  OBVIOUS
<1>2. \A i \in DOMAIN lines : all[n + i] = lines[i]
  BY <1>1
<1>3. ASSUME NEW i \in DOMAIN all, all[i].by = r, all[i].stmt = s PROVE i - n \in DOMAIN lines
  <2>1. i \in 1..n => all[i] = rows[i]
    BY <1>1
  <2>2. i \notin 1..n
    BY <1>1, <1>3, <2>1
  <2> QED
    BY <1>1, <1>3, <2>2
<1>4. n \in 0..(Len(all) - Len(lines))
  BY <1>1
<1> HIDE DEF all, n
<1>5. WroteExactly(r, s, lines, all)
  BY <1>2, <1>3, <1>4 DEF WroteExactly
<1> QED
  BY <1>5 DEF all

\* They do so when rows of others come behind them.
LEMMA StillExactly ==
  ASSUME NEW r, NEW s, NEW lines \in Seq(Row), NEW rows \in Seq(Row), NEW more \in Seq(Row),
         WroteExactly(r, s, lines, rows),
         \A i \in DOMAIN more : ~(more[i].by = r /\ more[i].stmt = s)
  PROVE  WroteExactly(r, s, lines, rows \o more)
<1> DEFINE all == rows \o more
<1>1. PICK n \in 0..(Len(rows) - Len(lines)) :
        /\ \A i \in DOMAIN lines : rows[n + i] = lines[i]
        /\ \A i \in DOMAIN rows : rows[i].by = r /\ rows[i].stmt = s => i - n \in DOMAIN lines
  BY DEF WroteExactly
<1>2. /\ Len(rows) \in Nat /\ Len(lines) \in Nat /\ Len(more) \in Nat /\ n \in Nat
      /\ n + Len(lines) <= Len(rows) /\ Len(all) = Len(rows) + Len(more)
      /\ DOMAIN lines = 1..Len(lines) /\ DOMAIN all = 1..Len(all)
      /\ DOMAIN rows = 1..Len(rows) /\ DOMAIN more = 1..Len(more)
  BY <1>1
<1>3. /\ \A i \in 1..Len(rows) : all[i] = rows[i]
      /\ \A i \in 1..Len(all) : i \notin 1..Len(rows) =>
           i - Len(rows) \in 1..Len(more) /\ all[i] = more[i - Len(rows)]
  BY <1>2
<1> HIDE DEF all
<1>4. n \in 0..(Len(all) - Len(lines))
  BY <1>2
<1>5. \A i \in DOMAIN lines : all[n + i] = lines[i]
  <2>1. SUFFICES ASSUME NEW i \in DOMAIN lines PROVE all[n + i] = lines[i]
    OBVIOUS
  <2>2. n + i \in 1..Len(rows)
    BY <1>2
  <2> QED
    BY <1>1, <1>3, <2>2
<1>6. ASSUME NEW i \in DOMAIN all, all[i].by = r, all[i].stmt = s PROVE i - n \in DOMAIN lines
  <2>1. i \in 1..Len(rows)
    BY <1>2, <1>3, <1>6
  <2> QED
    BY <1>1, <1>2, <1>3, <1>6, <2>1
<1>7. WroteExactly(r, s, lines, all)
  BY <1>4, <1>5, <1>6 DEF WroteExactly
<1> QED
  BY <1>7 DEF all

-----------------------------------------------------------------------------
(* A run by itself *)

\* No step takes a run back to where it had not begun.
LEMMA NeverIdle ==
  ASSUME Structure, NEW r \in Run, Acts(r)
  PROVE  pc'[r] # "idle"
<1>1. TypeOK
  BY DEF Structure
<1>2. CASE pc[r] \notin Executing
  <2>1. CASE Begin(r)
    BY <1>1, <2>1 DEF Begin, Goto, TypeOK
  <2>2. CASE NextStatement(r) \/ ParseNext(r)
    BY <1>1, <2>2 DEF NextStatement, ParseNext, Enter, Goto, TypeOK
  <2>3. CASE SyntaxError(r) \/ Return(r)
    BY <1>1, <2>3 DEF SyntaxError, Return, Throw, Goto, TypeOK
  <2>4. CASE OpenTarget(r) \/ LookupSource(r) \/ CheckOnce(r) \/ ToggleOnce(r)
    BY <1>2, <2>4, Places DEF OpenTarget, LookupSource, CheckOnce, ToggleOnce
  <2>5. CASE Pull(r) \/ EndOfRows(r) \/ ChooseGroup(r) \/ LoadCount(r) \/ StoreCount(r)
             \/ Evaluate(r) \/ ResetCount(r) \/ Fail(r)
    BY <1>2, <2>5, Places
    DEF Pull, EndOfRows, ChooseGroup, LoadCount, StoreCount, Evaluate, ResetCount, Fail, Opening
  <2> QED
    BY <2>1, <2>2, <2>3, <2>4, <2>5 DEF Acts, Step
<1>3. CASE pc[r] \in Executing
  <2>1. pc[r] \notin {"idle", "next"}
    BY <1>3, Places
  <2>2. CASE OpenTarget(r) \/ LookupSource(r) \/ CheckOnce(r) \/ ToggleOnce(r)
    BY <1>1, <2>2 DEF OpenTarget, LookupSource, CheckOnce, ToggleOnce, OpenInput, Throw, Goto, TypeOK
  <2>3. CASE Pull(r)
    <3>1. pc' = [pc EXCEPT ![r] = IF Mode(query[r]) = "all" THEN "load" ELSE pc[r]]
      BY <2>3, PullType
    <3> QED
      BY <1>1, <2>1, <3>1 DEF TypeOK
  <2>4. CASE EndOfRows(r)
    <3>1. Mode(query[r]) \in {"none", "all", "key"}
      BY <2>4, AtHand DEF EndOfRows
    <3> QED
      BY <1>1, <2>4, <3>1 DEF EndOfRows, Goto, TypeOK
  <2>5. CASE ChooseGroup(r) \/ LoadCount(r) \/ StoreCount(r)
    BY <1>1, <2>5 DEF ChooseGroup, LoadCount, StoreCount, Goto, TypeOK
  <2>6. CASE Evaluate(r) \/ ResetCount(r) \/ Fail(r)
    BY <1>1, <2>6 DEF Evaluate, ResetCount, Fail, Throw, Goto, TypeOK
  <2> QED
    BY <2>1, <2>2, <2>3, <2>4, <2>5, <2>6
    DEF Acts, Step, Begin, NextStatement, ParseNext, SyntaxError, Return
<1> QED
  BY <1>2, <1>3

\* A run that has not begun stays as it was.
LEMMA IdleStep ==
  ASSUME Structure, Next, NEW r \in Run, Acts(r), NEW o \in Run, IdleOf(o)
  PROVE  IdleOf(o)'
<1>1. CASE o = r
  BY <1>1, NeverIdle DEF IdleOf
<1>2. CASE o # r
  BY <1>2, Elsewhere DEF IdleOf
<1> QED
  BY <1>1, <1>2

\* While a run is alone, no other run takes a step.
LEMMA OnlyRun ==
  ASSUME Structure, Next, NEW r \in Run, Acts(r), NEW o \in Run \ {r}, AloneOf(o), alone'[o]
  PROVE  ~Active(o) /\ alone[o]
<1>1. alone[o] /\ (Active(o) => ~Begin(r))
  BY Elsewhere
<1>2. SUFFICES ASSUME Active(o) PROVE FALSE
  BY <1>1
<1>3. Active(r)
  BY <1>1, <1>2, ActorIsActive DEF Acts
<1> QED
  BY <1>1, <1>2, <1>3 DEF AloneOf

\* Flags and views change when a view was executed, and nowhere else.
LEMMA FlagsKept ==
  ASSUME Structure, NEW r \in Run, Acts(r), ~ToggleOnce(r)
  PROVE  /\ UNCHANGED <<once, views>>
         /\ spoilt' = spoilt \/ pc'[r] = "ended"
<1>1. TypeOK
  BY DEF Structure
<1>2. CASE Begin(r) \/ NextStatement(r) \/ ParseNext(r) \/ SyntaxError(r) \/ Return(r)
  BY <1>2 DEF Begin, NextStatement, ParseNext, SyntaxError, Return, shared, history
<1>3. CASE OpenTarget(r) \/ LookupSource(r) \/ CheckOnce(r)
  BY <1>3 DEF OpenTarget, LookupSource, CheckOnce, shared, history
<1>4. CASE Pull(r) \/ EndOfRows(r) \/ ChooseGroup(r)
  BY <1>4 DEF Pull, EndOfRows, ChooseGroup, shared, history
<1>5. CASE LoadCount(r) \/ StoreCount(r) \/ Evaluate(r) \/ ResetCount(r)
  BY <1>5 DEF LoadCount, StoreCount, Evaluate, ResetCount, shared, history
<1>6. CASE Fail(r)
  BY <1>1, <1>6 DEF Fail, Throw, Goto, TypeOK
<1> QED
  BY <1>2, <1>3, <1>4, <1>5, <1>6 DEF Acts, Step

\* A run is about to execute a view only after a statement that says so.
LEMMA WaysToViews ==
  ASSUME Structure, NEW r \in Run, Acts(r), pc'[r] \in {"check", "toggle"}
  PROVE  \/ pc[r] = "next" /\ pc'[r] = "check" /\ Statement(r)' \in View
         \/ pc'[r] = "check" /\ LookupSource(r) /\ Script[Statement(r)].from \in views[r]
            /\ out'[r] = out[r]
         \/ pc'[r] = "toggle" /\ CheckOnce(r) /\ once[TheView(r)] /\ out'[r] = out[r]
<1>1. TypeOK
  BY DEF Structure
<1>2. CASE Begin(r) \/ NextStatement(r) \/ ParseNext(r) \/ SyntaxError(r) \/ Return(r)
  <2>1. pc[r] \in {"idle", "next"}
    BY <1>2 DEF Begin, NextStatement, ParseNext, SyntaxError, Return
  <2> QED
    BY <2>1, Progress, Places
<1>3. CASE LookupSource(r)
  BY <1>1, <1>3 DEF LookupSource, OpenInput, Goto, Throw, TypeOK
<1>4. CASE CheckOnce(r)
  BY <1>1, <1>4 DEF CheckOnce, OpenInput, Goto, TypeOK
<1>5. CASE OpenTarget(r) \/ ToggleOnce(r) \/ Fail(r)
  BY <1>1, <1>5 DEF OpenTarget, ToggleOnce, Fail, Throw, Goto, TypeOK
<1>6. CASE Pull(r)
  <2>1. pc' = [pc EXCEPT ![r] = IF Mode(query[r]) = "all" THEN "load" ELSE pc[r]]
    BY <1>6, PullType
  <2> QED
    BY <1>1, <1>6, <2>1 DEF TypeOK, Pull
<1>7. CASE EndOfRows(r)
  <2>1. Mode(query[r]) \in {"none", "all", "key"}
    BY <1>7, AtHand DEF EndOfRows
  <2> QED
    BY <1>1, <1>7, <2>1 DEF EndOfRows, Goto, TypeOK
<1>8. CASE ChooseGroup(r) \/ LoadCount(r) \/ StoreCount(r) \/ Evaluate(r) \/ ResetCount(r)
  BY <1>1, <1>8 DEF ChooseGroup, LoadCount, StoreCount, Evaluate, ResetCount, Goto, TypeOK
<1> QED
  BY <1>2, <1>3, <1>4, <1>5, <1>6, <1>7, <1>8 DEF Acts, Step

\* A run by itself finds the flags as its own statements left them.
LEMMA AloneStep ==
  ASSUME Structure, Next, NEW r \in Run, Acts(r), NEW o \in Run, IdleOf(o), AloneOf(o)
  PROVE  AloneOf(o)'
<1>1. SUFFICES ASSUME alone'[o], Active(o)' PROVE AloneOf(o)'
  BY DEF AloneOf
<1>2. TypeOK
  BY DEF Structure
<1>3. CASE o # r
  <2>1. ~Active(o) /\ pc'[o] = pc[o]
    BY <1>1, <1>3, OnlyRun, Elsewhere
  <2> QED
    BY <1>1, <2>1 DEF Active
<1>4. CASE o = r /\ Begin(r)
  <2>1. /\ pc'[r] = "next" /\ \A p \in Run \ {r} : pc'[p] = pc[p]
        /\ spoilt = {} /\ \A p \in Run : ~Active(p)
    BY <1>1, <1>2, <1>4 DEF Begin, Goto, TypeOK
  <2>2. views'[r] = {} /\ spoilt' = {}
    BY <1>4, <2>1 DEF Begin, IdleOf
  <2> QED
    BY <1>4, <2>1, <2>2 DEF AloneOf, Active
<1>5. CASE o = r /\ ~Begin(r)
  <2>1. UNCHANGED alone /\ Active(r)
    BY <1>5, AloneKept, ActorIsActive DEF Acts
  <2>2. /\ \A p \in Run \ {r} : ~Active(p)
        /\ spoilt = {}
        /\ \A v \in views[r] : ~once[v]
        /\ pc[r] \in {"check", "toggle"} /\ Statement(r) \notin View => TheView(r) \in views[r]
        /\ pc[r] = "toggle" => Statement(r) \in View /\ once[TheView(r)]
    BY <1>1, <1>5, <2>1 DEF AloneOf
  <2>3. \A p \in Run \ {r} : ~Active(p)'
    BY <2>2, Elsewhere DEF Active
  <2>4. pc'[r] # "ended"
    BY <1>1, <1>5 DEF Active
  <2>5. CASE ToggleOnce(r)
    <3> DEFINE v == TheView(r)
    <3>1. pc[r] = "toggle" /\ v \in View /\ once[v] /\ Statement(r) \in View
      BY <2>2, <2>5 DEF ToggleOnce, Structure, StatementAtHand, StatementOf
    <3>2. once' = [once EXCEPT ![v] = FALSE]
      <4>1. PICK b \in {FALSE, ~once[v]} : once' = [once EXCEPT ![v] = b]
        BY <2>5 DEF ToggleOnce
      <4>2. b = FALSE
        BY <3>1, <4>1
      <4> QED
        BY <4>1, <4>2
    <3>3. views'[r] = views[r] \union {v} /\ UNCHANGED spoilt
      BY <1>2, <2>5 DEF ToggleOnce, TypeOK
    <3>4. \A x \in views'[r] : ~once'[x]
      BY <1>2, <2>2, <3>1, <3>2, <3>3 DEF TypeOK
    <3>5. pc'[r] \notin {"check", "toggle"}
      BY <1>2, <2>5 DEF ToggleOnce, Goto, TypeOK
    <3> QED
      BY <1>5, <2>2, <2>3, <3>3, <3>4, <3>5 DEF AloneOf
  <2>6. CASE ~ToggleOnce(r)
    <3>1. UNCHANGED <<once, views>> /\ spoilt' = {}
      BY <2>2, <2>4, <2>6, FlagsKept
    <3>2. ASSUME pc'[r] \in {"check", "toggle"}
          PROVE  /\ Statement(r)' \notin View => TheView(r)' \in views'[r]
                 /\ pc'[r] = "toggle" => Statement(r)' \in View /\ once'[TheView(r)']
      <4>1. CASE pc[r] = "next" /\ pc'[r] = "check" /\ Statement(r)' \in View
        BY <4>1
      <4>2. ASSUME pc[r] \in Executing
            PROVE  Statement(r)' = Statement(r) /\ TheView(r)' = TheView(r)
        <5>1. at'[r] = at[r] /\ at[r] >= 1
          BY <4>2, Progress, Places
        <5> QED
          BY <5>1, SamePlace
      <4>3. CASE pc'[r] = "check" /\ LookupSource(r) /\ Script[Statement(r)].from \in views[r]
        <5>1. pc[r] = "lookup" /\ Statement(r) \notin View
          BY <4>3 DEF LookupSource, Structure, StatementAtHand, StatementOf
        <5>2. TheView(r) \in views[r]
          BY <4>3, <5>1 DEF TheView
        <5> QED
          BY <3>1, <4>2, <4>3, <5>1, <5>2, Places
      <4>4. CASE pc'[r] = "toggle" /\ CheckOnce(r) /\ once[TheView(r)]
        <5>1. pc[r] = "check"
          BY <4>4 DEF CheckOnce
        <5>2. Statement(r) \in View
          BY <2>2, <4>4, <5>1
        <5> QED
          BY <3>1, <4>2, <4>4, <5>1, <5>2, Places
      <4> QED
        BY <3>2, <4>1, <4>3, <4>4, WaysToViews
    <3> QED
      BY <1>5, <2>2, <2>3, <3>1, <3>2 DEF AloneOf
  <2> QED
    BY <2>5, <2>6
<1> QED
  BY <1>3, <1>4, <1>5

\* Nothing is in a writer whose rows have not come, or that was closed.
LEMMA WriterStep ==
  ASSUME Structure, Next, NEW r \in Run, Acts(r), NEW o \in Run, EmptyWriterOf(o)
  PROVE  EmptyWriterOf(o)'
<1> USE Places
<1>1. SUFFICES ASSUME out'[o] # <<>> PROVE pc'[o] \in Querying /\ Statement(o)' \notin View
  BY DEF EmptyWriterOf
<1>2. TypeOK
  BY DEF Structure
<1>3. CASE o # r
  BY <1>1, <1>3, Elsewhere DEF EmptyWriterOf
<1>4. CASE o = r /\ pc[r] \notin Executing
  BY <1>1, <1>4, Progress DEF EmptyWriterOf
<1>5. CASE o = r /\ pc[r] \in Executing
  <2>1. Statement(r)' = Statement(r)
    BY <1>5, Progress, SamePlace
  <2>2. SUFFICES /\ pc'[r] \in Querying
                 /\ out'[r] = out[r] \/ Statement(r) \notin View
    BY <1>1, <1>5, <2>1 DEF EmptyWriterOf
  <2>3. CASE OpenTarget(r) \/ LookupSource(r) \/ CheckOnce(r) \/ ToggleOnce(r)
    <3>1. pc[r] \notin Querying
      BY <2>3 DEF OpenTarget, LookupSource, CheckOnce, ToggleOnce
    <3>2. out'[r] = <<>>
      BY <1>2, <1>5, <2>3, <3>1
      DEF EmptyWriterOf, OpenTarget, LookupSource, CheckOnce, ToggleOnce, CloseTarget, TypeOK
    <3> QED
      BY <1>1, <1>5, <3>2
  <2>4. CASE Pull(r)
    <3>1. /\ pc' = [pc EXCEPT ![r] = IF Mode(query[r]) = "all" THEN "load" ELSE pc[r]]
          /\ pc[r] = "pull" /\ Mode(query[r]) \in {"none", "all", "key"}
      BY <2>4, PullType, AtHand DEF Pull
    <3>2. out'[r] = out[r] \/ Statement(r) \notin View
      BY <1>2, <2>4, <3>1 DEF Pull, Consumed
    <3> QED
      BY <1>2, <3>1, <3>2 DEF TypeOK
  <2>5. CASE EndOfRows(r)
    <3>1. Mode(query[r]) \in {"none", "all", "key"} /\ pc[r] = "pull"
      BY <2>5, AtHand DEF EndOfRows
    <3>2. CASE Mode(query[r]) = "none"
      <4>1. out'[r] = <<>>
        BY <1>2, <1>5, <2>5, <3>2 DEF EndOfRows, CloseWriter, CloseTarget, EmptyWriterOf, TypeOK
      <4> QED
        BY <1>1, <1>5, <4>1
    <3>3. CASE Mode(query[r]) # "none"
      BY <1>2, <2>5, <3>1, <3>3 DEF EndOfRows, Goto, TypeOK
    <3> QED
      BY <3>2, <3>3
  <2>6. CASE ChooseGroup(r) \/ LoadCount(r) \/ StoreCount(r) \/ Evaluate(r) \/ ResetCount(r)
    BY <1>2, <2>6 DEF ChooseGroup, LoadCount, StoreCount, Evaluate, ResetCount, Goto, TypeOK
  <2>7. CASE Fail(r)
    <3>1. out'[r] = <<>>
      BY <1>2, <1>5, <2>7
      DEF Fail, Opening, CloseWriter, CloseTarget, EmptyWriterOf, TypeOK
    <3> QED
      BY <1>1, <1>5, <3>1
  <2>8. ~(Begin(r) \/ NextStatement(r) \/ ParseNext(r) \/ SyntaxError(r) \/ Return(r))
    BY <1>5 DEF Begin, NextStatement, ParseNext, SyntaxError, Return
  <2> QED
    BY <2>3, <2>4, <2>5, <2>6, <2>7, <2>8 DEF Acts, Step
<1> QED
  BY <1>3, <1>4, <1>5

\* Only a run that counts has a counter that is not 0, when no other run is active.
LEMMA OtherCounters ==
  ASSUME Structure, CountersInUse, NEW r \in Run, AloneOf(r), alone[r], Active(r),
         NEW c \in Select, ~Counting(r, c)
  PROVE  count[c] = 0
<1>1. \A o \in Run \ {r} : ~Active(o)
  BY DEF AloneOf
<1>2. \A o \in Run \ {r} : ~Counting(o, c)
  BY <1>1 DEF Counting, Active, AtAggregate
<1>3. spoilt = {}
  BY DEF AloneOf
<1> QED
  BY <1>2, <1>3 DEF CountersInUse

\* What a run has come to in a step that stays at its statement.
LEMMA QueryingNow ==
  ASSUME Structure, Next, NEW r \in Run, pc[r] \in Executing, at'[r] = at[r],
         NEW rows,
         pc'[r] \in Querying =>
           /\ query'[r].stages \in Stages(Statement(r))
           /\ rows \in Over(r, Statement(r), query'[r].stages)
           /\ Within(query'[r], rows)
           /\ Mode(query'[r]) = "none" => Copying(r, rows)'
           /\ Mode(query'[r]) = "all" => CountingAll(r, rows)'
           /\ Mode(query'[r]) = "key" => Grouping(r, rows)' \/ CountingGroups(r, rows)'
  PROVE  QueryingOf(r)'
<1>1. at[r] >= 1
  BY Places DEF Structure, StatementAtHand, StatementOf
<1>2. Statement(r)' = Statement(r)
  BY <1>1, SamePlace
<1> QED
  BY <1>2 DEF QueryingOf

\* A query that begins over the rows a source may give.
LEMMA NewQuery ==
  ASSUME NEW s \in Select, NEW r \in Run, NEW stages \in Stages(s), NEW rows \in Over(r, s, stages),
         NEW live \in BOOLEAN
  PROVE  LET q == QueryOver(stages, rows, live) IN
         /\ q \in Query /\ q.stages = stages /\ q.feed = rows /\ q.taken = 0 /\ q.done = <<>>
         /\ \A k \in Column : q.groups[k] = 0
         /\ Within(q, rows) /\ Ahead(q, rows) /\ Taken(q, rows) = <<>>
         /\ rows \in Seq(Row) /\ (Mode(q) # "none" => Consumer(q) \in Select)
<1> DEFINE q == QueryOver(stages, rows, live)
<1>1. rows \in Seq(Row)
  BY OverType
<1>2. Script[s].from \in {0} \union View /\ View \subseteq Select
  BY Fragments
<1>3. stages \in Seq(Select) /\ Len(stages) <= 2
  <2>1. stages \in {<<>>, <<s>>} \/ (Script[s].from \in View /\ stages = <<Script[s].from, s>>)
    <3>1. stages \in Stages(s)
      OBVIOUS
    <3>2. CASE Script[s].from = 0
      BY <3>1, <3>2 DEF Stages
    <3>3. CASE Script[s].from # 0
      BY <1>2, <3>1, <3>3 DEF Stages
    <3> QED
      BY <3>2, <3>3
  <2>2. <<>> \in Seq(Select) /\ <<s>> \in Seq(Select) /\ Len(<<>>) <= 2 /\ Len(<<s>>) <= 2
    OBVIOUS
  <2>3. \A f \in Select : <<f, s>> \in Seq(Select) /\ Len(<<f, s>>) <= 2
    OBVIOUS
  <2> QED
    BY <1>2, <2>1, <2>2, <2>3
<1>4. /\ q \in Query /\ q.stages = stages /\ q.feed = rows /\ q.taken = 0 /\ q.done = <<>>
      /\ \A k \in Column : q.groups[k] = 0
  BY <1>1, <1>3, QueryOverType DEF QueryOver
<1> HIDE DEF q
<1>5. Len(rows) \in Nat /\ SubSeq(rows, 1, Len(rows)) = rows /\ SubSeq(rows, 1, 0) = <<>>
  BY <1>1
<1>6. Within(q, rows)
  <2>1. ASSUME NEW i \in DOMAIN Pulled(stages)
        PROVE  Script[Pulled(stages)[i]].limit \in Nat
    <3>1. Pulled(stages)[i] \in Select
      BY <1>3 DEF Pulled
    <3> QED
      BY <3>1, Fragments DEF Fragment
  <2> QED
    BY <1>4, <1>5, <2>1 DEF Within
<1>7. Ahead(q, rows) /\ Taken(q, rows) = <<>>
  BY <1>4, <1>5 DEF Ahead, Taken
<1>8. Mode(q) # "none" => Consumer(q) \in Select
  <2>1. Mode(q) # "none" => q.stages # <<>>
    BY DEF Mode
  <2> QED
    BY <1>4, <2>1, StageCases
<1> QED
  BY <1>1, <1>4, <1>6, <1>7, <1>8 DEF q

\* A run begins to go through the rows of a source, and of the results of a SELECT.
LEMMA BeginQuery ==
  ASSUME Structure, Next, NEW r \in Run, pc[r] \in Executing, at'[r] = at[r],
         Statement(r) \in Select, NEW stages \in Stages(Statement(r)),
         NEW rows \in Over(r, Statement(r), stages), NEW live \in BOOLEAN,
         query'[r] = QueryOver(stages, rows, live), pc'[r] = "pull", out'[r] = <<>>,
         \A c \in Select : count'[c] = 0
  PROVE  QueryingOf(r)'
<1> DEFINE q == QueryOver(stages, rows, live)
<1>1. /\ q \in Query /\ q.stages = stages /\ q.feed = rows /\ q.taken = 0 /\ q.done = <<>>
      /\ \A k \in Column : q.groups[k] = 0
      /\ Within(q, rows) /\ Ahead(q, rows) /\ Taken(q, rows) = <<>>
      /\ rows \in Seq(Row) /\ (Mode(q) # "none" => Consumer(q) \in Select)
  BY NewQuery
<1> HIDE DEF q
<1>2. query'[r] = q
  BY DEF q
<1>3. Mode(q) = "none" => Copying(r, rows)'
  BY <1>1, <1>2 DEF Copying, WithHeader
<1>4. Mode(q) = "all" => CountingAll(r, rows)'
  BY <1>1, <1>2 DEF CountingAll
<1>5. Mode(q) = "key" => Grouping(r, rows)'
  <2>1. \A k : Having(<<>>, k) = 0
    <3>1. Keys(<<>>) = {} /\ <<>> \in Seq(Row)
      BY DEF Keys
    <3> QED
      BY <3>1, HavingPlaces
  <2> QED
    BY <1>1, <1>2, <2>1 DEF Grouping
<1> QED
  BY <1>1, <1>2, <1>3, <1>4, <1>5, QueryingNow

\* An INSERT goes through a file, or through the file of its view.
LEMMA OpenQuery ==
  ASSUME Structure, CountersInUse, Next, NEW r \in Run, AloneOf(r), EmptyWriterOf(r),
         alone[r], Statement(r) \notin View, LookupSource(r) \/ CheckOnce(r)
  PROVE  QueryingOf(r)'
<1> DEFINE s == Statement(r)
           f == Script[s].from
<1>1. /\ pc[r] \in {"lookup", "check"} /\ pc[r] \in Executing /\ Active(r) /\ TypeOK
      /\ pc[r] \notin {"idle", "next", "ended"}
      /\ pc[r] \notin Querying /\ at'[r] = at[r] /\ count' = count
  BY Places DEF LookupSource, CheckOnce, Structure, Active, shared
<1>2. s \in Select /\ (pc[r] = "check" => TheView(r) \in View)
  BY <1>1, Statements DEF Structure
<1>3. out'[r] = <<>>
  BY <1>1 DEF EmptyWriterOf, LookupSource, CheckOnce, CloseTarget, TypeOK
<1>4. \A c \in Select : count'[c] = 0
  <2>1. \A c \in Select : ~Counting(r, c)
    BY <1>1 DEF Counting, AtAggregate
  <2> QED
    BY <1>1, <2>1, OtherCounters
<1>5. CASE pc'[r] \notin Querying
  BY <1>1, <1>5, QueryingNow
<1>6. ASSUME NEW stages \in Stages(s), OpenInput(r, stages), FileRows(r, s) \in Over(r, s, stages)
      PROVE  QueryingOf(r)'
  <2>1. pc'[r] = "pull" /\ query'[r] = QueryOver(stages, FileRows(r, s), TRUE)
    BY <1>1, <1>6 DEF OpenInput, Goto, TypeOK
  <2> HIDE DEF s
  <2>2. s = Statement(r)
    BY DEF s
  <2> QED
    BY <1>1, <1>2, <1>3, <1>4, <1>6, <2>1, <2>2, BeginQuery
<1>7. CASE LookupSource(r)
  <2>1. CASE f = 0 /\ OpenInput(r, <<s>>)
    <3>1. <<s>> \in Stages(s)
      BY DEF Stages
    <3>2. FileRows(r, s) \in Over(r, s, <<s>>)
      BY <1>2, <2>1, <3>1, OverType DEF Source
    <3> QED
      BY <1>6, <2>1, <3>1, <3>2
  <2>2. CASE Goto(r, "check") \/ Throw(r, "noview")
    BY <1>1, <1>5, <2>2, Places DEF Goto, Throw, TypeOK
  <2> QED
    BY <1>7, <2>1, <2>2 DEF LookupSource
<1>8. CASE CheckOnce(r)
  <2>1. CASE Goto(r, "toggle")
    BY <1>1, <1>5, <2>1, Places DEF Goto, TypeOK
  <2>2. CASE OpenInput(r, IF s = TheView(r) THEN <<TheView(r)>> ELSE <<TheView(r), s>>)
    <3>1. pc[r] = "check" /\ TheView(r) = f /\ f \in View /\ s # f
      BY <1>2, <1>8 DEF CheckOnce, TheView
    <3>2. f # 0
      BY <3>1, Fragments
    <3>3. <<f, s>> \in Stages(s)
      BY <3>2 DEF Stages
    <3>4. FileRows(r, s) \in Over(r, s, <<f, s>>)
      BY <1>2, <3>3, OverType
    <3> QED
      BY <1>6, <2>2, <3>1, <3>3, <3>4
  <2> QED
    BY <1>8, <2>1, <2>2 DEF CheckOnce
<1> QED
  BY <1>7, <1>8

\* The query a run is in, and the rows it goes through.
LEMMA QueryInHand ==
  ASSUME Structure, NEW r \in Run, QueryingOf(r), alone[r], pc[r] \in Querying,
         Statement(r) \notin View
  PROVE  LET q == query[r]
             s == Statement(r) IN
         /\ TypeOK /\ pc[r] \in Executing /\ pc[r] \notin {"idle", "next", "ended"} /\ Active(r)
         /\ s \in Select /\ q \in Query /\ q.stages \in Stages(s)
         /\ Mode(q) \in {"none", "all", "key"}
         /\ Mode(q) # "none" => q.stages # <<>> /\ Consumer(q) \in Select
         /\ \E rows \in Over(r, s, q.stages) :
              /\ rows \in Seq(Row) /\ Within(q, rows)
              /\ Mode(q) = "none" => Copying(r, rows)
              /\ Mode(q) = "all" => CountingAll(r, rows)
              /\ Mode(q) = "key" => Grouping(r, rows) \/ CountingGroups(r, rows)
<1>1. pc[r] \in Executing /\ pc[r] \notin {"idle", "next", "ended"} /\ Active(r)
  BY Places DEF Active
<1>2. TypeOK /\ Statement(r) \in Select /\ query[r] \in Query
      /\ Mode(query[r]) \in {"none", "all", "key"}
      /\ (Mode(query[r]) # "none" => Consumer(query[r]) \in Select)
  BY <1>1, AtHand DEF Structure
<1>3. query[r].stages \in Stages(Statement(r))
  BY DEF QueryingOf
<1>4. Over(r, Statement(r), query[r].stages) \subseteq Seq(Row)
  BY <1>2, <1>3, OverType
<1>5. Mode(query[r]) # "none" => query[r].stages # <<>>
  BY DEF Mode
<1> QED
  BY <1>1, <1>2, <1>3, <1>4, <1>5 DEF QueryingOf

\* A query for the same SELECTs counts, or copies, as the one before.
LEMMA SameStages ==
  ASSUME NEW q, NEW p, p.stages = q.stages
  PROVE  /\ Mode(p) = Mode(q) /\ Consumer(p) = Consumer(q) /\ Pulled(p.stages) = Pulled(q.stages)
         /\ \A rows : p.taken = q.taken =>
              /\ Within(p, rows) <=> Within(q, rows)
              /\ Through(p, rows) <=> Through(q, rows)
              /\ Taken(p, rows) = Taken(q, rows)
         /\ \A rows : p.taken = q.taken /\ p.feed = q.feed => (Ahead(p, rows) <=> Ahead(q, rows))
<1>1. Mode(p) = Mode(q) /\ Consumer(p) = Consumer(q) /\ Pulled(p.stages) = Pulled(q.stages)
  BY DEF Mode, Consumer
<1>2. \A rows : p.taken = q.taken =>
        /\ Within(p, rows) <=> Within(q, rows)
        /\ Through(p, rows) <=> Through(q, rows)
        /\ Taken(p, rows) = Taken(q, rows)
  BY <1>1 DEF Within, Through, Taken
<1>3. \A rows : p.taken = q.taken /\ p.feed = q.feed => (Ahead(p, rows) <=> Ahead(q, rows))
  BY DEF Ahead
<1> QED
  BY <1>1, <1>2, <1>3

\* One more row of those that are ahead.
LEMMA OneMoreRow ==
  ASSUME NEW q \in Query, NEW p \in Query, NEW rows \in Seq(Row),
         Within(q, rows), Ahead(q, rows), ~Exhausted(q),
         p.stages = q.stages, p.taken = q.taken + 1, p.feed = Tail(q.feed)
  PROVE  /\ Within(p, rows) /\ Ahead(p, rows)
         /\ q.taken < Len(rows) /\ q.taken \in Nat /\ Head(q.feed) = rows[q.taken + 1]
         /\ rows[q.taken + 1] \in Row
         /\ Taken(q, rows) \in Seq(Row)
         /\ Taken(p, rows) = Taken(q, rows) \o <<Head(q.feed)>>
         /\ \A k : Having(Taken(p, rows), k) =
              IF Head(q.feed).key = k THEN Having(Taken(q, rows), k) + 1
              ELSE Having(Taken(q, rows), k)
<1> DEFINE n == q.taken
<1>1. n \in Nat /\ n <= Len(rows) /\ q.feed # <<>> /\ Len(rows) \in Nat
  BY DEF Query, Within, Exhausted
<1>2. n + 1 \in 1..Len(rows) /\ Head(q.feed) = rows[n + 1]
      /\ Tail(q.feed) = SubSeq(rows, n + 2, Len(rows))
  BY <1>1, RowsAhead DEF Ahead
<1>3. Within(p, rows)
  <2>1. ASSUME NEW i \in DOMAIN Pulled(p.stages)
        PROVE  p.taken <= Script[Pulled(p.stages)[i]].limit
    <3>1. i \in DOMAIN Pulled(q.stages)
      OBVIOUS
    <3>2. q.taken <= Script[Pulled(q.stages)[i]].limit
          /\ ~(q.taken >= Script[Pulled(q.stages)[i]].limit)
      BY <3>1 DEF Within, Exhausted
    <3>3. Script[Pulled(q.stages)[i]].limit \in Nat
      <4>1. q.stages \in Seq(Select)
        BY DEF Query
      <4>2. Pulled(q.stages)[i] \in Select
        BY <3>1, <4>1 DEF Pulled
      <4> QED
        BY <4>2, Fragments DEF Fragment
    <3> QED
      BY <1>1, <3>2, <3>3
  <2> QED
    BY <1>1, <1>2, <2>1 DEF Within
<1>4. Ahead(p, rows)
  <2>1. p.taken + 1 = n + 2
    BY <1>1
  <2> QED
    BY <1>2, <2>1 DEF Ahead
<1>5. Taken(q, rows) = SubSeq(rows, 1, n) /\ Taken(p, rows) = SubSeq(rows, 1, n + 1)
  BY DEF Taken
<1>6. SubSeq(rows, 1, n) \in Seq(Row) /\ n < Len(rows) /\ rows[n + 1] \in Row
  BY <1>1, <1>2, PrefixRows
<1>7. SubSeq(rows, 1, n + 1) = SubSeq(rows, 1, n) \o <<rows[n + 1]>>
  BY <1>1, <1>6, PrefixAndRow
<1>8. \A k : Having(SubSeq(rows, 1, n + 1), k) =
        IF rows[n + 1].key = k THEN Having(SubSeq(rows, 1, n), k) + 1
        ELSE Having(SubSeq(rows, 1, n), k)
  BY <1>1, <1>6, HavingOneMore
<1> QED
  BY <1>1, <1>2, <1>3, <1>4, <1>5, <1>6, <1>7, <1>8

\* What becomes of the query, the writer and the place of a run that takes a row.
LEMMA PullParts ==
  ASSUME Structure, NEW r \in Run, Pull(r)
  PROVE  LET q == query[r]
             p == query'[r] IN
         /\ p \in Query /\ p.stages = q.stages /\ p.taken = q.taken + 1 /\ p.feed = Tail(q.feed)
         /\ p.done = q.done /\ count' = count /\ at'[r] = at[r] /\ ~Exhausted(q)
         /\ Mode(q) = "none" =>
              /\ pc'[r] = "pull"
              /\ out'[r] = (IF out[r] = <<>> THEN <<RowOf(r, Statement(r), Header, 0)>> ELSE out[r])
                             \o <<Head(q.feed)>>
         /\ Mode(q) = "all" => pc'[r] = "load" /\ out'[r] = out[r]
         /\ Mode(q) = "key" => /\ pc'[r] = "pull" /\ out'[r] = out[r]
                               /\ \A k \in Column :
                                    p.groups[k] = IF Head(q.feed).key = k THEN q.groups[k] + 1
                                                  ELSE q.groups[k]
<1> DEFINE q == query[r]
           rest == [q EXCEPT !.feed = Tail(q.feed), !.taken = q.taken + 1]
           more == [rest EXCEPT !.groups[Head(q.feed).key] = @ + 1]
<1>1. /\ pc[r] = "pull" /\ TypeOK /\ q \in Query /\ q.feed \in Seq(Row) /\ q.feed # <<>>
      /\ q.groups \in [Column -> Nat]
      /\ Mode(q) \in {"none", "all", "key"} /\ ~Exhausted(q) /\ at'[r] = at[r] /\ count' = count
  BY AtHand DEF Pull, Exhausted, Structure, shared
<1>2. Tail(q.feed) \in Seq(Row) /\ q.taken + 1 \in Nat /\ Head(q.feed).key \in Column
  <2>1. Head(q.feed) \in Row /\ Tail(q.feed) \in Seq(Row)
    BY <1>1
  <2> QED
    BY <1>1, <2>1 DEF Query, Row
<1>3. /\ rest \in Query /\ rest.stages = q.stages /\ rest.groups = q.groups
      /\ rest.taken = q.taken + 1 /\ rest.feed = Tail(q.feed) /\ rest.done = q.done
  BY <1>1, <1>2 DEF Query
<1>4. /\ more \in Query /\ more.stages = rest.stages
      /\ more.taken = rest.taken /\ more.feed = rest.feed /\ more.done = rest.done
      /\ more.groups = [rest.groups EXCEPT ![Head(q.feed).key] = @ + 1]
  <2> HIDE DEF rest
  <2>1. more \in Query /\ more.stages = rest.stages
    BY <1>2, <1>3, QueryGroup
  <2> QED
    BY <1>3, <2>1 DEF Query
<1>5. \A k \in Column : more.groups[k] = IF Head(q.feed).key = k THEN q.groups[k] + 1
                                         ELSE q.groups[k]
  <2> HIDE DEF rest
  <2> QED
    BY <1>1, <1>2, <1>3, <1>4
<1> HIDE DEF rest, more
<1>6. CASE Mode(q) = "all"
  BY <1>1, <1>3, <1>6 DEF Pull, Goto, TypeOK, rest
<1>7. CASE Mode(q) = "key"
  <2>1. query'[r] = more /\ pc'[r] = "pull" /\ out'[r] = out[r]
    BY <1>1, <1>7 DEF Pull, TypeOK, rest, more
  <2> QED
    BY <1>1, <1>3, <1>4, <1>5, <1>7, <2>1
<1>8. CASE Mode(q) = "none"
  <2>1. query'[r] = rest /\ pc'[r] = "pull"
    BY <1>1, <1>8 DEF Pull, TypeOK, rest
  <2>2. out'[r] = (IF out[r] = <<>> THEN <<RowOf(r, Statement(r), Header, 0)>> ELSE out[r])
                    \o <<Head(q.feed)>>
    BY <1>1, <1>8 DEF Pull, TypeOK
  <2> QED
    BY <1>1, <1>3, <1>8, <2>1, <2>2
<1> QED
  BY <1>1, <1>6, <1>7, <1>8

\* Whatever the query does with its rows, one more of them is taken.
LEMMA PullQuery ==
  ASSUME Structure, Next, NEW r \in Run, QueryingOf(r), alone[r], Statement(r) \notin View, Pull(r)
  PROVE  QueryingOf(r)'
<1> DEFINE q == query[r]
           p == query'[r]
           s == Statement(r)
<1>1. pc[r] = "pull" /\ pc[r] \in Querying
  BY Places DEF Pull
<1>2. /\ pc[r] \in Executing /\ s \in Select /\ q \in Query /\ q.stages \in Stages(s)
      /\ Mode(q) \in {"none", "all", "key"}
  BY <1>1, QueryInHand
<1>3. PICK rows \in Over(r, s, q.stages) :
        /\ rows \in Seq(Row) /\ Within(q, rows)
        /\ Mode(q) = "none" => Copying(r, rows)
        /\ Mode(q) = "all" => CountingAll(r, rows)
        /\ Mode(q) = "key" => Grouping(r, rows)
  BY <1>1, QueryInHand DEF CountingGroups
<1>4. /\ p \in Query /\ p.stages = q.stages /\ p.taken = q.taken + 1 /\ p.feed = Tail(q.feed)
      /\ p.done = q.done /\ count' = count /\ at'[r] = at[r] /\ ~Exhausted(q)
  BY PullParts
<1>5. Ahead(q, rows)
  BY <1>2, <1>3 DEF Copying, CountingAll, Grouping
<1>6. /\ Within(p, rows) /\ Ahead(p, rows)
      /\ q.taken < Len(rows) /\ q.taken \in Nat /\ Head(q.feed) = rows[q.taken + 1]
      /\ rows[q.taken + 1] \in Row /\ Taken(q, rows) \in Seq(Row)
      /\ Taken(p, rows) = Taken(q, rows) \o <<Head(q.feed)>>
      /\ \A k : Having(Taken(p, rows), k) =
           IF Head(q.feed).key = k THEN Having(Taken(q, rows), k) + 1 ELSE Having(Taken(q, rows), k)
  <2> HIDE DEF q, p
  <2> QED
    BY <1>2, <1>3, <1>4, <1>5, OneMoreRow
<1>7. Mode(p) = Mode(q) /\ Consumer(p) = Consumer(q)
  BY <1>4, SameStages
<1>8. Mode(p) = "none" => Copying(r, rows)'
  <2>1. SUFFICES ASSUME Mode(q) = "none" PROVE Copying(r, rows)'
    BY <1>7
  <2>2. out[r] = WithHeader(r, s, Taken(q, rows))
    BY <1>3, <2>1 DEF Copying
  <2>3. pc'[r] = "pull"
        /\ out'[r] = (IF out[r] = <<>> THEN <<RowOf(r, s, Header, 0)>> ELSE out[r])
                       \o <<Head(q.feed)>>
    BY <2>1, PullParts
  <2>4. out'[r] = WithHeader(r, s, Taken(q, rows) \o <<Head(q.feed)>>)
    <3> DEFINE done == Taken(q, rows)
               row == Head(q.feed)
    <3>1. done \in Seq(Row) /\ row \in Row
      BY <1>6
    <3> HIDE DEF q, s, done, row
    <3>2. WithHeader(r, s, done \o <<row>>) =
            (IF WithHeader(r, s, done) = <<>> THEN <<RowOf(r, s, Header, 0)>>
             ELSE WithHeader(r, s, done)) \o <<row>>
      BY <1>2, <3>1, WriterAndRow
    <3> QED
      BY <2>2, <2>3, <3>2 DEF done, row
  <2>5. Statement(r)' = s
    <3>1. at[r] >= 1
      BY <1>1 DEF Structure, StatementAtHand, StatementOf
    <3> QED
      BY <1>4, <3>1, SamePlace
  <2> QED
    BY <1>6, <2>3, <2>4, <2>5 DEF Copying
<1>9. Mode(p) = "all" => CountingAll(r, rows)'
  <2>1. SUFFICES ASSUME Mode(q) = "all" PROVE CountingAll(r, rows)'
    BY <1>7
  <2>2. out[r] = <<>> /\ q.done = <<>> /\ count[Consumer(q)] = q.taken
    BY <1>1, <1>3, <2>1 DEF CountingAll
  <2>3. pc'[r] = "load" /\ out'[r] = out[r]
    BY <2>1, PullParts
  <2> QED
    BY <1>4, <1>6, <1>7, <2>2, <2>3 DEF CountingAll
<1>10. Mode(p) = "key" => Grouping(r, rows)'
  <2>1. SUFFICES ASSUME Mode(q) = "key" PROVE Grouping(r, rows)'
    BY <1>7
  <2>2. out[r] = <<>> /\ q.done = <<>> /\ count[Consumer(q)] = 0
        /\ \A k \in Column : q.groups[k] = Having(Taken(q, rows), k)
    BY <1>3, <2>1 DEF Grouping
  <2>3. /\ pc'[r] = "pull" /\ out'[r] = out[r]
        /\ \A k \in Column :
             p.groups[k] = IF Head(q.feed).key = k THEN q.groups[k] + 1 ELSE q.groups[k]
    BY <2>1, PullParts
  <2>4. \A k \in Column : p.groups[k] = Having(Taken(p, rows), k)
    BY <1>6, <2>2, <2>3
  <2> QED
    BY <1>4, <1>6, <1>7, <2>2, <2>3, <2>4 DEF Grouping
<1> QED
  BY <1>2, <1>3, <1>4, <1>6, <1>8, <1>9, <1>10, QueryingNow

\* When nothing is ahead, or some LIMIT is reached, the rows are through.
LEMMA AtTheEnd ==
  ASSUME NEW q \in Query, NEW rows \in Seq(Row), Within(q, rows), Ahead(q, rows), Exhausted(q)
  PROVE  Through(q, rows)
<1>1. q.taken \in Nat /\ q.taken <= Len(rows)
  BY DEF Within, Query
<1>2. q.feed = <<>> => q.taken = Len(rows)
  BY <1>1, RowsAhead DEF Ahead
<1> QED
  BY <1>2 DEF Exhausted, Through

\* The rows have come to an end: they are counted, or the groups will be.
LEMMA EndOfRowsQuery ==
  ASSUME Structure, Next, NEW r \in Run, QueryingOf(r), alone[r], Statement(r) \notin View,
         EndOfRows(r)
  PROVE  QueryingOf(r)'
<1> DEFINE q == query[r]
           s == Statement(r)
<1>1. /\ pc[r] = "pull" /\ pc[r] \in Querying /\ at'[r] = at[r] /\ count' = count
      /\ Mode(q) \in {"all", "key"} => out'[r] = out[r]
  BY Places DEF EndOfRows
<1>2. /\ TypeOK /\ pc[r] \in Executing /\ s \in Select /\ q \in Query /\ q.stages \in Stages(s)
      /\ Mode(q) \in {"none", "all", "key"}
  BY <1>1, QueryInHand
<1>3. PICK rows \in Over(r, s, q.stages) :
        /\ rows \in Seq(Row) /\ Within(q, rows)
        /\ Mode(q) = "none" => Copying(r, rows)
        /\ Mode(q) = "all" => CountingAll(r, rows)
        /\ Mode(q) = "key" => Grouping(r, rows)
  BY <1>1, QueryInHand DEF CountingGroups
<1>4. Through(q, rows)
  <2>1. Exhausted(q)
    BY DEF EndOfRows, Consumed
  <2>2. Ahead(q, rows)
    BY <1>2, <1>3 DEF Copying, CountingAll, Grouping
  <2> HIDE DEF q
  <2> QED
    BY <1>2, <1>3, <2>1, <2>2, AtTheEnd
<1>5. CASE Mode(q) = "none"
  <2>1. pc'[r] \notin Querying
    BY <1>2, <1>5, Places DEF EndOfRows, Goto, TypeOK
  <2> QED
    BY <1>1, <1>2, <2>1, QueryingNow
<1>6. CASE Mode(q) = "all"
  <2>1. pc'[r] = "evaluate" /\ query'[r] = q /\ out'[r] = out[r]
    BY <1>2, <1>6 DEF EndOfRows, Goto, TypeOK
  <2>2. CountingAll(r, rows)'
    <3>1. CountingAll(r, rows)
      BY <1>3, <1>6
    <3>2. Ahead(q, rows) /\ out[r] = <<>> /\ q.done = <<>> /\ count[Consumer(q)] = q.taken
      BY <1>1, <3>1 DEF CountingAll
    <3> QED
      BY <1>1, <1>4, <2>1, <3>2 DEF CountingAll
  <2> QED
    BY <1>1, <1>2, <1>3, <1>6, <2>1, <2>2, QueryingNow
<1>7. CASE Mode(q) = "key"
  <2>1. pc'[r] = "group" /\ query'[r] = q /\ out'[r] = out[r]
    BY <1>2, <1>7 DEF EndOfRows, Goto, TypeOK
  <2>2. /\ out[r] = <<>> /\ q.done = <<>> /\ count[Consumer(q)] = 0
        /\ \A k \in Column : q.groups[k] = Having(Taken(q, rows), k)
    BY <1>3, <1>7 DEF Grouping
  <2>3. Grouped(q) = {} /\ DOMAIN q.done = {}
    BY <2>2 DEF Grouped
  <2>4. CountingGroups(r, rows)'
    BY <1>1, <1>4, <2>1, <2>2, <2>3 DEF CountingGroups
  <2> QED
    BY <1>1, <1>2, <1>3, <1>7, <2>1, <2>4, QueryingNow
<1> QED
  BY <1>2, <1>5, <1>6, <1>7

\* What of the query is left alone while a group, or all rows, are counted.
LEMMA CountParts ==
  ASSUME Structure, NEW r \in Run, pc[r] \in AtAggregate,
         LoadCount(r) \/ StoreCount(r) \/ Evaluate(r)
  PROVE  LET q == query[r]
             p == query'[r]
             c == Consumer(q) IN
         /\ p \in Query /\ p.stages = q.stages /\ p.taken = q.taken /\ p.done = q.done
         /\ p.groups = q.groups /\ at'[r] = at[r] /\ out'[r] = out[r]
         /\ LoadCount(r) => /\ pc[r] = "load" /\ pc'[r] = "store" /\ p.seen = count[c]
                            /\ p.feed = q.feed /\ count' = count
         /\ Evaluate(r) => /\ pc[r] = "evaluate" /\ pc'[r] = "reset" /\ p.seen = count[c]
                           /\ p.feed = q.feed /\ count' = count
         /\ StoreCount(r) =>
              /\ pc[r] = "store" /\ count'[c] = q.seen + 1
              /\ \/ Mode(q) = "all" /\ pc'[r] = "pull" /\ p.feed = q.feed
                 \/ /\ Mode(q) = "key" /\ Len(q.feed) = 1
                    /\ pc'[r] = "evaluate" /\ p.feed = q.feed
                 \/ /\ Mode(q) = "key" /\ Len(q.feed) # 1
                    /\ pc'[r] = "load" /\ p.feed = Tail(q.feed)
<1> DEFINE q == query[r]
           p == query'[r]
           c == Consumer(q)
<1>1. /\ TypeOK /\ q \in Query /\ q.feed \in Seq(Row) /\ c \in Select
      /\ Mode(q) \in {"all", "key"} /\ (Mode(q) = "key" => q.feed # <<>>)
      /\ count[c] \in Nat /\ pc \in [Run -> {"idle", "next", "check", "toggle", "open", "lookup",
                               "pull", "group", "load", "store", "evaluate", "reset", "ended"}]
      /\ query \in [Run -> Query]
  <2>1. pc[r] \notin {"idle", "next", "ended"}
    BY DEF AtAggregate
  <2>2. TypeOK
    BY DEF Structure
  <2>3. /\ q \in Query /\ q.feed \in Seq(Row) /\ c \in Select
        /\ Mode(q) \in {"all", "key"} /\ (Mode(q) = "key" => q.feed # <<>>)
    BY <2>1, AtHand
  <2> QED
    BY <2>2, <2>3 DEF TypeOK
<1>2. CASE LoadCount(r)
  <2>1. p = [q EXCEPT !.seen = count[c]]
    BY <1>1, <1>2 DEF LoadCount
  <2>2. /\ p \in Query /\ p.stages = q.stages /\ p.feed = q.feed /\ p.taken = q.taken
        /\ p.done = q.done /\ p.groups = q.groups /\ p.seen = count[c]
    BY <1>1, <2>1, QuerySeen DEF Query
  <2>3. /\ pc[r] = "load" /\ pc'[r] = "store" /\ at'[r] = at[r] /\ out'[r] = out[r]
        /\ count' = count
    BY <1>1, <1>2 DEF LoadCount, Goto, shared
  <2>4. ~Evaluate(r) /\ ~StoreCount(r)
    BY <2>3 DEF Evaluate, StoreCount
  <2> QED
    BY <2>2, <2>3, <2>4
<1>3. CASE Evaluate(r)
  <2>1. p = [q EXCEPT !.seen = count[c]]
    BY <1>1, <1>3 DEF Evaluate
  <2>2. /\ p \in Query /\ p.stages = q.stages /\ p.feed = q.feed /\ p.taken = q.taken
        /\ p.done = q.done /\ p.groups = q.groups /\ p.seen = count[c]
    BY <1>1, <2>1, QuerySeen DEF Query
  <2>3. /\ pc[r] = "evaluate" /\ pc'[r] = "reset" /\ at'[r] = at[r] /\ out'[r] = out[r]
        /\ count' = count
    BY <1>1, <1>3 DEF Evaluate, Goto, shared
  <2>4. ~LoadCount(r) /\ ~StoreCount(r)
    BY <2>3 DEF LoadCount, StoreCount
  <2> QED
    BY <2>2, <2>3, <2>4
<1>4. CASE StoreCount(r)
  <2>1. /\ pc[r] = "store" /\ at'[r] = at[r] /\ out'[r] = out[r] /\ count'[c] = q.seen + 1
    BY <1>1, <1>4 DEF StoreCount, TypeOK
  <2>2. ~LoadCount(r) /\ ~Evaluate(r)
    BY <2>1 DEF LoadCount, Evaluate
  <2>3. CASE Mode(q) = "all"
    BY <1>1, <1>4, <2>1, <2>2, <2>3 DEF StoreCount, Goto
  <2>4. CASE Mode(q) = "key"
    <3> DEFINE left == IF Len(q.feed) = 1 THEN q.feed ELSE Tail(q.feed)
    <3>1. left \in Seq(Row)
      BY <1>1, <2>4
    <3>2. p = [q EXCEPT !.feed = left]
      BY <1>1, <1>4, <2>4 DEF StoreCount
    <3> HIDE DEF left
    <3>3. /\ p \in Query /\ p.stages = q.stages /\ p.feed = left /\ p.taken = q.taken
          /\ p.done = q.done /\ p.groups = q.groups
      BY <1>1, <3>1, <3>2, QueryFeed DEF Query
    <3>4. pc'[r] = IF Len(q.feed) = 1 THEN "evaluate" ELSE "load"
      BY <1>1, <1>4, <2>4 DEF StoreCount, Goto
    <3> QED
      BY <2>1, <2>2, <2>4, <3>3, <3>4 DEF left
  <2> QED
    BY <1>1, <2>3, <2>4
<1> QED
  BY <1>2, <1>3, <1>4

\* The rows behind the first one.
LEMMA RowsBehind ==
  ASSUME NEW rows \in Seq(Row), Len(rows) # 1, rows # <<>>
  PROVE  /\ Tail(rows) \in Seq(Row) /\ Len(Tail(rows)) = Len(rows) - 1
         /\ 2 \in DOMAIN rows /\ Head(Tail(rows)) = rows[2] /\ Head(rows) = rows[1]
         /\ \A i \in DOMAIN Tail(rows) : i + 1 \in DOMAIN rows /\ Tail(rows)[i] = rows[i + 1]
<1>1. Len(rows) \in Nat /\ Len(rows) > 1 /\ DOMAIN rows = 1..Len(rows)
  <2>1. Len(rows) \in Nat /\ Len(rows) # 0 /\ DOMAIN rows = 1..Len(rows)
    OBVIOUS
  <2> QED
    BY <2>1
<1>2. /\ Tail(rows) \in Seq(Row) /\ Len(Tail(rows)) = Len(rows) - 1
      /\ \A i \in 1..(Len(rows) - 1) : Tail(rows)[i] = rows[i + 1]
  BY <1>1
<1>3. DOMAIN Tail(rows) = 1..(Len(rows) - 1)
  BY <1>2
<1>4. Tail(rows)[1] = rows[2]
  BY <1>1, <1>2
<1> QED
  BY <1>1, <1>2, <1>3, <1>4

\* A run that counts has all rows, or one group of them, in hand.
LEMMA CountQuery ==
  ASSUME Structure, Next, NEW r \in Run, QueryingOf(r), alone[r], Statement(r) \notin View,
         LoadCount(r) \/ StoreCount(r) \/ Evaluate(r)
  PROVE  QueryingOf(r)'
<1> DEFINE q == query[r]
           p == query'[r]
           s == Statement(r)
           c == Consumer(q)
<1>1. pc[r] \in AtAggregate /\ pc[r] \in Querying /\ pc[r] # "pull" /\ pc[r] # "group"
  BY Places DEF LoadCount, StoreCount, Evaluate, AtAggregate
<1>2. /\ pc[r] \in Executing /\ s \in Select /\ q \in Query /\ q.stages \in Stages(s)
      /\ Mode(q) \in {"all", "key"} /\ c \in Select
  <2>1. Mode(q) \in {"all", "key"}
    BY <1>1 DEF Structure, QueryAtHand, QueryOf
  <2> QED
    BY <1>1, <2>1, QueryInHand
<1>3. PICK rows \in Over(r, s, q.stages) :
        /\ rows \in Seq(Row) /\ Within(q, rows)
        /\ Mode(q) = "all" => CountingAll(r, rows)
        /\ Mode(q) = "key" => CountingGroups(r, rows)
  BY <1>1, QueryInHand DEF Grouping
<1>4. /\ p \in Query /\ p.stages = q.stages /\ p.taken = q.taken /\ p.done = q.done
      /\ p.groups = q.groups /\ at'[r] = at[r] /\ out'[r] = out[r]
      /\ LoadCount(r) => /\ pc[r] = "load" /\ pc'[r] = "store" /\ p.seen = count[c]
                         /\ p.feed = q.feed /\ count' = count
      /\ Evaluate(r) => /\ pc[r] = "evaluate" /\ pc'[r] = "reset" /\ p.seen = count[c]
                        /\ p.feed = q.feed /\ count' = count
      /\ StoreCount(r) =>
           /\ pc[r] = "store" /\ count'[c] = q.seen + 1
           /\ \/ Mode(q) = "all" /\ pc'[r] = "pull" /\ p.feed = q.feed
              \/ /\ Mode(q) = "key" /\ Len(q.feed) = 1
                 /\ pc'[r] = "evaluate" /\ p.feed = q.feed
              \/ /\ Mode(q) = "key" /\ Len(q.feed) # 1
                 /\ pc'[r] = "load" /\ p.feed = Tail(q.feed)
  BY <1>1, CountParts
<1>5. /\ Mode(p) = Mode(q) /\ Consumer(p) = c
      /\ Within(p, rows) <=> Within(q, rows)
      /\ Through(p, rows) <=> Through(q, rows)
      /\ Taken(p, rows) = Taken(q, rows)
      /\ p.feed = q.feed => (Ahead(p, rows) <=> Ahead(q, rows))
      /\ Grouped(p) = Grouped(q)
  BY <1>4, SameStages DEF Grouped
<1>6. CASE Mode(q) = "all"
  <2>1. p.feed = q.feed
    BY <1>4, <1>6
  <2>2. /\ Ahead(q, rows) /\ out[r] = <<>> /\ q.done = <<>>
        /\ pc[r] \in {"load", "store"} => count[c] + 1 = q.taken
        /\ pc[r] = "store" => q.seen = count[c]
        /\ pc[r] = "evaluate" => Through(q, rows) /\ count[c] = q.taken
    BY <1>3, <1>6 DEF CountingAll
  <2>3. CountingAll(r, rows)'
    <3>1. CASE LoadCount(r)
      BY <1>4, <1>5, <2>1, <2>2, <3>1 DEF CountingAll
    <3>2. CASE StoreCount(r)
      BY <1>4, <1>5, <1>6, <2>1, <2>2, <3>2 DEF CountingAll
    <3>3. CASE Evaluate(r)
      BY <1>4, <1>5, <2>1, <2>2, <3>3 DEF CountingAll
    <3> QED
      BY <3>1, <3>2, <3>3
  <2> QED
    BY <1>2, <1>3, <1>4, <1>5, <1>6, <2>3, QueryingNow
<1>7. CASE Mode(q) = "key"
  <2> DEFINE k == Head(q.feed).key
             having == Having(Taken(q, rows), k)
  <2>0. CountingGroups(r, rows)
    BY <1>3, <1>7
  <2>1. /\ Through(q, rows) /\ out[r] = <<>>
        /\ \A i \in DOMAIN q.done :
             q.done[i] = RowOf(r, s, q.done[i].key, Having(Taken(q, rows), q.done[i].key))
        /\ \A i, j \in DOMAIN q.done : q.done[i].key = q.done[j].key => i = j
        /\ Grouped(q) \subseteq Keys(Taken(q, rows)) \ {k}
        /\ \A g \in Column : q.groups[g] = IF g \in Grouped(q) \union {k} THEN 0
                                           ELSE Having(Taken(q, rows), g)
        /\ {k} \subseteq Keys(Taken(q, rows))
        /\ \A i \in DOMAIN q.feed : q.feed[i].key = k
    BY <1>1, <2>0 DEF CountingGroups
  <2>2. /\ pc[r] \in {"load", "store"} => count[c] + Len(q.feed) = having
        /\ pc[r] = "store" => q.seen = count[c]
        /\ pc[r] = "evaluate" => count[c] = having
    BY <1>1, <2>0 DEF CountingGroups
  <2>3. q.feed \in Seq(Row) /\ q.feed # <<>> /\ Len(q.feed) \in Nat \ {0}
    <3>1. q.feed \in Seq(Row) /\ q.feed # <<>>
      BY <1>1, <1>2, <1>7, AtHand DEF AtAggregate
    <3> QED
      BY <3>1
  <2>4. count[c] \in Nat
    BY <1>2 DEF Structure, TypeOK
  <2>5. /\ Head(p.feed).key = k
        /\ \A i \in DOMAIN p.feed : p.feed[i].key = Head(p.feed).key
    <3>1. CASE p.feed = q.feed
      BY <2>1, <3>1
    <3>2. CASE p.feed = Tail(q.feed) /\ Len(q.feed) # 1
      <4>1. /\ Head(p.feed) = q.feed[2] /\ 2 \in DOMAIN q.feed
            /\ \A i \in DOMAIN p.feed : i + 1 \in DOMAIN q.feed /\ p.feed[i] = q.feed[i + 1]
        BY <2>3, <3>2, RowsBehind
      <4> QED
        BY <2>1, <4>1
    <3> QED
      BY <1>4, <3>1, <3>2
  <2>6. pc'[r] \in {"load", "store", "evaluate", "reset"}
    BY <1>4, <1>7
  <2>7. /\ pc'[r] \in {"load", "store"} => count'[c] + Len(p.feed) = having
        /\ pc'[r] = "store" => p.seen = count'[c]
        /\ pc'[r] \in {"evaluate", "reset"} => count'[c] = having
        /\ pc'[r] = "reset" => p.seen = count'[c]
    <3>1. Len(q.feed) # 1 => Len(Tail(q.feed)) = Len(q.feed) - 1
      BY <2>3, RowsBehind
    <3> HIDE DEF q, p, c, k, having
    <3>2. CASE LoadCount(r) \/ Evaluate(r)
      BY <1>4, <2>2, <3>2
    <3>3. CASE StoreCount(r)
      <4> DEFINE n == count[c]
                 m == Len(q.feed)
      <4>1. n + m = having /\ count'[c] = n + 1
        BY <1>4, <2>2, <3>3
      <4>2. \/ m = 1 /\ pc'[r] = "evaluate"
            \/ m # 1 /\ pc'[r] = "load" /\ Len(p.feed) = m - 1
        BY <1>4, <1>7, <3>1, <3>3
      <4>3. n \in Nat /\ m \in Nat
        BY <2>3, <2>4
      <4> HIDE DEF n, m
      <4>4. CASE m = 1 /\ pc'[r] = "evaluate"
        BY <4>1, <4>3, <4>4
      <4>5. CASE m # 1 /\ pc'[r] = "load" /\ Len(p.feed) = m - 1
        BY <4>1, <4>3, <4>5
      <4> QED
        BY <4>2, <4>4, <4>5
    <3> QED
      BY <3>2, <3>3
  <2>8. Statement(r)' = s
    <3>1. at[r] >= 1
      BY <1>2, Places DEF Structure, StatementAtHand, StatementOf
    <3> QED
      BY <1>4, <3>1, SamePlace
  <2>9. CountingGroups(r, rows)'
    <3> HIDE DEF q, p, s, c, k
    <3> QED
      BY <1>4, <1>5, <2>1, <2>5, <2>6, <2>7, <2>8 DEF CountingGroups, p
  <2> QED
    BY <1>2, <1>3, <1>4, <1>5, <1>7, <2>9, QueryingNow
<1> QED
  BY <1>2, <1>6, <1>7

\* A run that has counted its groups goes on to the results, or to one more group.
LEMMA GroupQuery ==
  ASSUME Structure, CountersInUse, Next, NEW r \in Run, AloneOf(r), QueryingOf(r), alone[r],
         Statement(r) \notin View, ChooseGroup(r)
  PROVE  QueryingOf(r)'
<1> DEFINE q == query[r]
           p == query'[r]
           s == Statement(r)
           c == Consumer(q)
           taken(rows) == Taken(q, rows)
<1>1. /\ pc[r] = "group" /\ pc[r] \in Querying /\ at'[r] = at[r] /\ out'[r] = out[r]
      /\ count' = count
  BY Places DEF ChooseGroup, shared
<1>2. /\ TypeOK /\ pc[r] \in Executing /\ Active(r) /\ s \in Select /\ q \in Query
      /\ q.stages \in Stages(s) /\ Mode(q) = "key" /\ q.stages # <<>> /\ c \in Select
      /\ pc[r] \notin {"idle", "next", "ended"}
  <2>1. Mode(q) = "key"
    BY <1>1 DEF Structure, QueryAtHand, QueryOf
  <2> QED
    BY <1>1, <2>1, QueryInHand
<1>3. PICK rows \in Over(r, s, q.stages) :
        rows \in Seq(Row) /\ Within(q, rows) /\ CountingGroups(r, rows)
  BY <1>1, <1>2, QueryInHand DEF Grouping
<1>4. /\ Through(q, rows) /\ out[r] = <<>>
      /\ \A i \in DOMAIN q.done :
           q.done[i] = RowOf(r, s, q.done[i].key, Having(taken(rows), q.done[i].key))
      /\ \A i, j \in DOMAIN q.done : q.done[i].key = q.done[j].key => i = j
      /\ Grouped(q) \subseteq Keys(taken(rows))
      /\ \A g \in Column : q.groups[g] = IF g \in Grouped(q) THEN 0 ELSE Having(taken(rows), g)
      /\ count[c] = 0
  BY <1>1, <1>3 DEF CountingGroups
<1>5. taken(rows) \in Seq(Row) /\ Keys(taken(rows)) \subseteq Column
  <2>1. q.taken \in Nat /\ q.taken <= Len(rows)
    BY <1>2, <1>3 DEF Query, Within
  <2>2. taken(rows) \in Seq(Row)
    BY <1>3, <2>1, PrefixRows DEF Taken
  <2> HIDE DEF taken
  <2>3. \A i \in DOMAIN taken(rows) : taken(rows)[i] \in Row
    BY <2>2
  <2> QED
    BY <2>2, <2>3 DEF Keys, Row
<1>6. CASE /\ \A k \in Column : q.groups[k] = 0
           /\ query' = [query EXCEPT ![r] = QueryOver(Around(q.stages), q.done, FALSE)]
           /\ Goto(r, "pull")
  <2>1. p = QueryOver(Around(q.stages), q.done, FALSE) /\ pc'[r] = "pull"
    BY <1>2, <1>6 DEF Goto, TypeOK
  <2>2. Keys(taken(rows)) \subseteq Grouped(q)
    <3> SUFFICES ASSUME NEW k \in Keys(taken(rows)) PROVE k \in Grouped(q)
      OBVIOUS
    <3>1. Having(taken(rows), k) # 0
      BY <1>5, HavingPlaces
    <3> QED
      BY <1>4, <1>5, <1>6, <3>1
  <2>3. q.done \in Over(r, s, Around(q.stages))
    <3> HIDE DEF q, s
    <3> QED
      BY <1>2, <1>3, <1>4, <2>2, EndOfGroups
  <2>4. Around(q.stages) \in Stages(s)
    <3>1. Around(q.stages) \in {<<>>, <<s>>}
      BY <1>2, StageCases
    <3> QED
      BY <3>1 DEF Stages
  <2>5. \A d \in Select : count'[d] = 0
    <3>1. \A d \in Select : ~Counting(r, d)
      BY <1>1 DEF Counting, AtAggregate
    <3> QED
      BY <1>1, <1>2, <3>1, OtherCounters
  <2> HIDE DEF q, p, s
  <2>6. s = Statement(r) /\ p = query'[r]
    BY DEF s, p
  <2> QED
    BY <1>1, <1>2, <1>4, <2>1, <2>3, <2>4, <2>5, <2>6, BeginQuery
<1>7. ASSUME NEW k \in Column, q.groups[k] > 0,
             query' = [query EXCEPT ![r] = [q EXCEPT !.groups[k] = 0,
               !.feed = [i \in 1..q.groups[k] |-> RowOf(r, s, k, 0)]]],
             Goto(r, "load")
      PROVE  QueryingOf(r)'
  <2> DEFINE feed == [i \in 1..q.groups[k] |-> RowOf(r, s, k, 0)]
             new == [q EXCEPT !.groups[k] = 0, !.feed = feed]
  <2>1. q.groups \in [Column -> Nat] /\ q.groups[k] \in Nat \ {0}
    BY <1>2, <1>7 DEF Query
  <2>2. /\ feed \in Seq(Row) /\ Len(feed) = q.groups[k] /\ Head(feed).key = k
        /\ \A i \in DOMAIN feed : feed[i].key = k
    <3>1. \A i \in 1..q.groups[k] : RowOf(r, s, k, 0) \in Row
      BY <1>2, RowOfType
    <3>2. feed \in Seq(Row) /\ Len(feed) = q.groups[k]
      BY <2>1, <3>1
    <3>3. \A i \in 1..q.groups[k] : feed[i].key = k
      BY DEF RowOf
    <3>4. Head(feed) = feed[1] /\ 1 \in 1..q.groups[k]
      BY <2>1, <3>2
    <3> QED
      BY <3>2, <3>3, <3>4
  <2> HIDE DEF feed
  <2>3. /\ new \in Query /\ new.stages = q.stages /\ new.feed = feed /\ new.taken = q.taken
        /\ new.done = q.done
        /\ \A g \in Column : new.groups[g] = IF g = k THEN 0 ELSE q.groups[g]
    <3>1. new \in Query /\ new.stages = q.stages /\ new.feed = feed
      <4> HIDE DEF q
      <4> QED
        BY <1>2, <1>7, <2>2, QueryNextGroup
    <3>2. new.taken = q.taken /\ new.done = q.done /\ new.groups = [q.groups EXCEPT ![k] = 0]
      BY <1>2, <2>2 DEF Query
    <3> HIDE DEF new
    <3>3. \A g \in Column : new.groups[g] = IF g = k THEN 0 ELSE q.groups[g]
      BY <2>1, <3>2
    <3> QED
      BY <3>1, <3>2, <3>3
  <2>4. p = new /\ pc'[r] = "load"
    BY <1>2, <1>7 DEF Goto, TypeOK, feed
  <2> HIDE DEF new
  <2>5. /\ Mode(p) = Mode(q) /\ Consumer(p) = c
        /\ Within(p, rows) <=> Within(q, rows)
        /\ Through(p, rows) <=> Through(q, rows)
        /\ Taken(p, rows) = Taken(q, rows)
        /\ Grouped(p) = Grouped(q)
    BY <2>3, <2>4, SameStages DEF Grouped
  <2>6. k \notin Grouped(q) /\ q.groups[k] = Having(taken(rows), k) /\ k \in Keys(taken(rows))
    <3>1. k \notin Grouped(q) /\ q.groups[k] = Having(taken(rows), k)
      BY <1>4, <2>1
    <3>2. Having(taken(rows), k) # 0
      BY <2>1, <3>1
    <3> QED
      BY <1>5, <3>1, <3>2, HavingPlaces
  <2>7. Statement(r)' = s
    <3>1. at[r] >= 1
      BY <1>2 DEF Structure, StatementAtHand, StatementOf
    <3> QED
      BY <1>1, <3>1, SamePlace
  <2>8. CountingGroups(r, rows)'
    <3>1. Having(taken(rows), k) \in Nat
      BY <1>5, HavingPlaces
    <3>2. 0 + Len(p.feed) = Having(taken(rows), Head(p.feed).key)
      BY <2>2, <2>3, <2>4, <2>6, <3>1
    <3> HIDE DEF q, p, s, c
    <3> QED
      BY <1>1, <1>4, <2>2, <2>3, <2>4, <2>5, <2>6, <2>7, <3>2 DEF CountingGroups, p
  <2> QED
    BY <1>1, <1>2, <1>3, <2>3, <2>4, <2>5, <2>8, QueryingNow
<1> QED
  BY <1>6, <1>7 DEF ChooseGroup

\* The result of a group, or of all rows, is a row.
LEMMA ResetQuery ==
  ASSUME Structure, CountersInUse, Next, NEW r \in Run, AloneOf(r), QueryingOf(r), alone[r],
         Statement(r) \notin View, ResetCount(r)
  PROVE  QueryingOf(r)'
<1> DEFINE q == query[r]
           p == query'[r]
           s == Statement(r)
           c == Consumer(q)
<1>1. /\ pc[r] = "reset" /\ pc[r] \in Querying /\ pc[r] \in AtAggregate
      /\ at'[r] = at[r] /\ out'[r] = out[r] /\ count' = [count EXCEPT ![c] = 0]
  BY Places DEF ResetCount, AtAggregate
<1>2. /\ TypeOK /\ pc[r] \in Executing /\ Active(r) /\ s \in Select /\ q \in Query
      /\ q.stages \in Stages(s) /\ Mode(q) \in {"all", "key"} /\ q.stages # <<>> /\ c \in Select
      /\ pc[r] \notin {"idle", "next", "ended"}
  <2>1. Mode(q) \in {"all", "key"}
    BY <1>1 DEF Structure, QueryAtHand, QueryOf
  <2> QED
    BY <1>1, <2>1, QueryInHand
<1>3. PICK rows \in Over(r, s, q.stages) :
        /\ rows \in Seq(Row) /\ Within(q, rows)
        /\ Mode(q) = "all" => CountingAll(r, rows)
        /\ Mode(q) = "key" => CountingGroups(r, rows)
  BY <1>1, <1>2, QueryInHand DEF Grouping
<1>4. count \in [Select -> Nat] /\ count'[c] = 0
  BY <1>1, <1>2 DEF TypeOK
<1>5. CASE Mode(q) = "all"
  <2> DEFINE row == RowOf(r, s, NoKey, q.taken)
  <2>1. out[r] = <<>> /\ q.done = <<>> /\ Through(q, rows) /\ q.seen = q.taken
    <3>1. CountingAll(r, rows)
      BY <1>3, <1>5
    <3> QED
      BY <1>1, <3>1 DEF CountingAll
  <2>2. p = QueryOver(Around(q.stages), <<row>>, FALSE) /\ pc'[r] = "pull"
    <3>1. p = Aggregated(q, RowOf(r, s, NoKey, q.seen)) /\ pc'[r] = "pull"
      BY <1>2, <1>5 DEF ResetCount, Goto, TypeOK
    <3>2. Append(<<>>, row) = <<row>>
      OBVIOUS
    <3> HIDE DEF row
    <3> QED
      BY <2>1, <3>1, <3>2 DEF Aggregated, row
  <2>3. <<row>> \in Over(r, s, Around(q.stages))
    <3> HIDE DEF q, s
    <3> QED
      BY <1>2, <1>3, <1>5, <2>1, EndOfCount
  <2>4. Around(q.stages) \in Stages(s)
    <3>1. Around(q.stages) \in {<<>>, <<s>>}
      BY <1>2, StageCases
    <3> QED
      BY <3>1 DEF Stages
  <2>5. \A d \in Select : count'[d] = 0
    <3>1. ASSUME NEW d \in Select, d # c PROVE count'[d] = 0
      <4>1. ~Counting(r, d)
        BY <3>1 DEF Counting
      <4>2. count[d] = 0
        BY <1>2, <3>1, <4>1, OtherCounters
      <4> QED
        BY <1>1, <1>4, <3>1, <4>2
    <3> QED
      BY <1>4, <3>1
  <2> HIDE DEF q, p, s, row
  <2>6. s = Statement(r) /\ p = query'[r]
    BY DEF s, p
  <2> QED
    BY <1>1, <1>2, <2>1, <2>2, <2>3, <2>4, <2>5, <2>6, BeginQuery
<1>6. CASE Mode(q) = "key"
  <2> DEFINE k == Head(q.feed).key
             having(g) == Having(Taken(q, rows), g)
             row == RowOf(r, s, k, q.seen)
  <2>0. CountingGroups(r, rows)
    BY <1>3, <1>6
  <2>1. /\ Through(q, rows) /\ out[r] = <<>>
        /\ \A i \in DOMAIN q.done : q.done[i] = RowOf(r, s, q.done[i].key, having(q.done[i].key))
        /\ \A i, j \in DOMAIN q.done : q.done[i].key = q.done[j].key => i = j
        /\ Grouped(q) \subseteq Keys(Taken(q, rows)) \ {k}
        /\ \A g \in Column : q.groups[g] = IF g \in Grouped(q) \union {k} THEN 0 ELSE having(g)
        /\ {k} \subseteq Keys(Taken(q, rows))
        /\ q.seen = having(k)
    BY <1>1, <2>0 DEF CountingGroups
  <2>2. p = [q EXCEPT !.done = Append(q.done, row)] /\ pc'[r] = "group"
    BY <1>2, <1>6 DEF ResetCount, Goto, TypeOK
  <2>3. row \in Row /\ row.key = k /\ row = RowOf(r, s, row.key, having(row.key))
    <3>1. row.key = k
      BY DEF RowOf
    <3>2. row = RowOf(r, s, row.key, having(row.key))
      BY <2>1, <3>1
    <3>3. q.feed \in Seq(Row) /\ q.feed # <<>> /\ q.seen \in Nat
      BY <1>1, <1>2, <1>6, AtHand
    <3>4. Head(q.feed) \in Row
      BY <3>3
    <3>5. k \in Column
      BY <3>4 DEF Row
    <3>6. row \in Row
      BY <1>2, <3>3, <3>5, RowOfType
    <3> QED
      BY <3>1, <3>2, <3>6
  <2> HIDE DEF row
  <2>4. /\ Append(q.done, row) \in Seq(Row) /\ DOMAIN Append(q.done, row) = 1..(Len(q.done) + 1)
        /\ DOMAIN q.done = 1..Len(q.done) /\ Len(q.done) \in Nat
        /\ \A i \in DOMAIN q.done : Append(q.done, row)[i] = q.done[i]
        /\ Append(q.done, row)[Len(q.done) + 1] = row
    <3>1. q.done \in Seq(Row)
      BY <1>2 DEF Query
    <3> QED
      BY <2>3, <3>1
  <2>5. /\ p \in Query /\ p.stages = q.stages /\ p.taken = q.taken /\ p.groups = q.groups
        /\ p.done = Append(q.done, row)
    BY <1>2, <2>2, <2>4, QueryDone DEF Query
  <2>6. /\ Mode(p) = Mode(q) /\ Consumer(p) = c
        /\ Within(p, rows) <=> Within(q, rows)
        /\ Through(p, rows) <=> Through(q, rows)
        /\ Taken(p, rows) = Taken(q, rows)
    BY <2>5, SameStages
  <2>7. \A i \in DOMAIN p.done :
          \/ i \in DOMAIN q.done /\ p.done[i] = q.done[i]
          \/ i = Len(q.done) + 1 /\ p.done[i] = row
    BY <2>4, <2>5
  <2>8. Grouped(p) = Grouped(q) \union {k}
    <3>1. Len(q.done) + 1 \in DOMAIN p.done /\ p.done[Len(q.done) + 1].key = k
      BY <2>3, <2>4, <2>5
    <3>2. \A i \in DOMAIN q.done : i \in DOMAIN p.done /\ p.done[i] = q.done[i]
      BY <2>4, <2>5
    <3>3. \A g \in Grouped(p) : g \in Grouped(q) \union {k}
      BY <2>3, <2>7 DEF Grouped
    <3>4. \A g \in Grouped(q) \union {k} : g \in Grouped(p)
      BY <3>1, <3>2 DEF Grouped
    <3> QED
      BY <3>3, <3>4
  <2>9. \A i \in DOMAIN p.done : p.done[i] = RowOf(r, s, p.done[i].key, having(p.done[i].key))
    BY <2>1, <2>3, <2>7
  <2>10. \A i, j \in DOMAIN p.done : p.done[i].key = p.done[j].key => i = j
    <3>1. \A i \in DOMAIN q.done : q.done[i].key # k
      BY <2>1 DEF Grouped
    <3> QED
      BY <2>1, <2>3, <2>7, <3>1
  <2>11. Statement(r)' = s
    <3>1. at[r] >= 1
      BY <1>2 DEF Structure, StatementAtHand, StatementOf
    <3> QED
      BY <1>1, <3>1, SamePlace
  <2>12. CountingGroups(r, rows)'
    <3>1. Grouped(p) \subseteq Keys(Taken(q, rows))
      BY <2>1, <2>8
    <3>2. \A g \in Column : p.groups[g] = IF g \in Grouped(p) THEN 0 ELSE having(g)
      BY <2>1, <2>5, <2>8
    <3> HIDE DEF q, p, s, c, k
    <3> QED
      BY <1>1, <1>4, <2>1, <2>2, <2>6, <2>9, <2>10, <2>11, <3>1, <3>2 DEF CountingGroups, p
  <2> QED
    BY <1>1, <1>2, <1>3, <1>6, <2>2, <2>5, <2>6, <2>12, QueryingNow
<1> QED
  BY <1>2, <1>5, <1>6

\* How far a run by itself has come with an INSERT, after any step.
LEMMA QueryingStep ==
  ASSUME Structure, CountersInUse, Next, NEW r \in Run, Acts(r),
         NEW o \in Run, AloneOf(o), QueryingOf(o), EmptyWriterOf(o)
  PROVE  QueryingOf(o)'
<1> USE Places
<1>1. CASE o # r
  <2>1. SUFFICES ASSUME alone'[o], pc'[o] \in Querying PROVE FALSE
    BY DEF QueryingOf
  <2>2. ~Active(o) /\ pc'[o] = pc[o]
    BY <1>1, <2>1, OnlyRun, Elsewhere
  <2> QED
    BY <2>1, <2>2 DEF Active
<1>2. CASE o = r
  <2>1. SUFFICES ASSUME alone'[r], pc'[r] \in Querying, Statement(r)' \notin View
                 PROVE  QueryingOf(r)'
    BY <1>2 DEF QueryingOf
  <2>2. pc[r] \in Executing /\ at'[r] = at[r] /\ at[r] >= 1 /\ UNCHANGED alone
    BY <2>1, Progress
  <2>3. alone[r] /\ Active(r) /\ Statement(r) \notin View
    <3>1. Statement(r)' = Statement(r)
      BY <2>2, SamePlace
    <3> QED
      BY <2>1, <2>2, <3>1 DEF Active
  <2>4. ~(Begin(r) \/ NextStatement(r) \/ ParseNext(r) \/ SyntaxError(r) \/ Return(r))
    BY <2>2 DEF Begin, NextStatement, ParseNext, SyntaxError, Return
  <2>5. ~(OpenTarget(r) \/ Fail(r))
    BY <2>1 DEF OpenTarget, Fail, Throw, Goto, Structure, TypeOK
  <2>6. ~ToggleOnce(r)
    BY <1>2, <2>3 DEF AloneOf, ToggleOnce
  <2>7. CASE LookupSource(r) \/ CheckOnce(r)
    BY <1>2, <2>3, <2>7, OpenQuery
  <2>8. CASE Pull(r) \/ EndOfRows(r)
    BY <1>2, <2>3, <2>8, PullQuery, EndOfRowsQuery
  <2>9. CASE ChooseGroup(r) \/ ResetCount(r)
    BY <1>2, <2>3, <2>9, GroupQuery, ResetQuery
  <2>10. CASE LoadCount(r) \/ StoreCount(r) \/ Evaluate(r)
    BY <1>2, <2>3, <2>10, CountQuery
  <2> QED
    BY <2>4, <2>5, <2>6, <2>7, <2>8, <2>9, <2>10 DEF Acts, Step
<1> QED
  BY <1>1, <1>2

-----------------------------------------------------------------------------
(* What is written *)

\* An INSERT is completed when its rows have come to an end, and stays so.
LEMMA WaysToComplete ==
  ASSUME Structure, Next, NEW r \in Run, Acts(r), NEW o \in Run, IdleOf(o),
         NEW i \in 1..Len(ops'), Completed(o, i)', Script[ops'[i]].kind = "insert"
  PROVE  /\ i \in 1..Len(ops) /\ ops'[i] = ops[i]
         /\ \/ Completed(o, i)
            \/ /\ o = r /\ EndOfRows(r) /\ i = at[r] /\ ops[i] = Statement(r)
               /\ Statement(r) \notin View /\ Mode(query[r]) = "none" /\ CloseTarget(r)
<1> USE Places
<1>1. TypeOK /\ at[o] \in Nat /\ at[o] <= Len(ops) /\ at'[o] \in Nat /\ at[r] \in Nat
      /\ Len(ops) \in Nat /\ i \in Nat /\ i >= 1 /\ Structure' /\ ops \in Seq(Select)
      /\ (pc[o] # "ended" => result[o] = "none")
  <2>1. Structure' /\ TypeOK' /\ TypeOK
    BY StructureStep DEF Structure
  <2>2. at'[o] \in Nat
    BY <2>1 DEF TypeOK
  <2>3. at[o] \in Nat /\ at[r] \in Nat /\ Len(ops) \in Nat /\ ops \in Seq(Select)
    BY <2>1 DEF TypeOK
  <2>4. at[o] <= Len(ops) /\ (pc[o] # "ended" => result[o] = "none")
    BY DEF Structure, StatementAtHand, StatementOf
  <2>5. i \in Nat /\ i >= 1
    OBVIOUS
  <2> QED
    BY <2>1, <2>2, <2>3, <2>4, <2>5
<1>2. \A j \in 1..Len(ops) : ops'[j] = ops[j]
  BY ParsedInOrderStep
<1>3. SUFFICES \/ i \in 1..Len(ops) /\ Completed(o, i)
               \/ /\ o = r /\ EndOfRows(r) /\ i = at[r] /\ at[r] >= 1 /\ Statement(r) \notin View
                  /\ Mode(query[r]) = "none" /\ CloseTarget(r)
  BY <1>1, <1>2 DEF Statement
<1>4. Completed(o, i) => i \in 1..Len(ops)
  BY <1>1 DEF Completed
<1>5. CASE o # r
  BY <1>4, <1>5, Elsewhere DEF Completed
<1>6. CASE o = r
  <2>1. CASE Begin(r)
    <3>1. at'[r] = at[r] /\ at[r] = 0
      BY <1>6, <2>1 DEF Begin, IdleOf
    <3> QED
      BY <1>1, <1>6, <3>1 DEF Completed
  <2>2. CASE NextStatement(r) \/ ParseNext(r)
    <3>1. pc[r] = "next" /\ at'[r] = at[r] + 1 /\ pc'[r] \in {"open", "check"}
          /\ result'[r] = "none"
      BY <1>1, <1>6, <2>2 DEF NextStatement, ParseNext, Enter, Goto, TypeOK
    <3> QED
      BY <1>1, <1>4, <1>6, <3>1 DEF Completed
  <2>3. CASE SyntaxError(r) \/ Return(r)
    BY <1>4, <1>6, <2>3 DEF SyntaxError, Return, Completed
  <2>4. CASE pc'[r] # "next" /\ result'[r] \notin {"returned", "syntax"} /\ at'[r] = at[r]
    BY <1>4, <1>6, <2>4 DEF Completed
  <2>5. CASE OpenTarget(r) \/ LookupSource(r) \/ CheckOnce(r)
    <3>1. pc'[r] # "next" /\ result'[r] \notin {"returned", "syntax"} /\ at'[r] = at[r]
      BY <1>1, <1>6, <2>5 DEF OpenTarget, LookupSource, CheckOnce, OpenInput, Goto, Throw, TypeOK
    <3> QED
      BY <2>4, <3>1
  <2>6. CASE ToggleOnce(r)
    <3>1. CASE Statement(r) = TheView(r)
      <4>1. Statement(r) \in View /\ at'[r] = at[r] /\ result'[r] = "none" /\ at[r] >= 1
        <5>1. pc[r] = "toggle" /\ TheView(r) \in View /\ at[r] >= 1
          BY <2>6 DEF ToggleOnce, Structure, StatementAtHand, StatementOf
        <5> QED
          BY <1>1, <1>6, <2>6, <3>1, <5>1 DEF ToggleOnce
      <4>2. i # at[r]
        <5>1. at[r] \in 1..Len(ops)
          BY <1>1, <1>6, <4>1
        <5> QED
          BY <1>2, <4>1, <5>1 DEF View, Statement
      <4> QED
        BY <1>4, <1>6, <4>1, <4>2 DEF Completed
    <3>2. CASE Statement(r) # TheView(r)
      <4>1. pc'[r] # "next" /\ result'[r] \notin {"returned", "syntax"} /\ at'[r] = at[r]
        BY <1>1, <1>6, <2>6, <3>2 DEF ToggleOnce, Goto, TypeOK
      <4> QED
        BY <2>4, <4>1
    <3> QED
      BY <3>1, <3>2
  <2>7. CASE Pull(r) \/ ChooseGroup(r) \/ LoadCount(r) \/ StoreCount(r) \/ Evaluate(r) \/ ResetCount(r)
    <3>1. pc[r] \in {"pull", "group"} \union AtAggregate /\ at'[r] = at[r] /\ result'[r] = result[r]
      BY <2>7 DEF Pull, ChooseGroup, LoadCount, StoreCount, Evaluate, ResetCount, AtAggregate
    <3>2. pc'[r] # "next"
      <4>1. CASE Pull(r)
        BY <4>1, PullParts, AtHand DEF Pull
      <4>2. CASE ChooseGroup(r) \/ LoadCount(r) \/ StoreCount(r) \/ Evaluate(r) \/ ResetCount(r)
        BY <1>1, <4>2 DEF ChooseGroup, LoadCount, StoreCount, Evaluate, ResetCount, Goto, TypeOK
      <4> QED
        BY <2>7, <4>1, <4>2
    <3>3. result[r] = "none"
      BY <1>1, <1>6, <3>1 DEF AtAggregate
    <3> QED
      BY <2>4, <3>1, <3>2, <3>3
  <2>8. CASE EndOfRows(r)
    <3>1. pc[r] = "pull" /\ at'[r] = at[r] /\ result'[r] = "none" /\ at[r] >= 1
          /\ Mode(query[r]) \in {"none", "all", "key"}
      <4>1. pc[r] = "pull"
        BY <2>8 DEF EndOfRows
      <4> QED
        BY <1>1, <1>6, <2>8, <4>1, AtHand DEF EndOfRows, Structure, StatementAtHand, StatementOf
    <3>2. CASE Mode(query[r]) = "none" /\ Statement(r) \notin View
      <4>1. CloseTarget(r)
        BY <2>8, <3>2 DEF EndOfRows, CloseWriter
      <4> QED
        BY <1>4, <1>6, <2>8, <3>1, <3>2, <4>1 DEF Completed
    <3>3. CASE Statement(r) \in View
      <4>1. i # at[r]
        <5>1. at[r] \in 1..Len(ops)
          BY <1>1, <1>6, <3>1
        <5> QED
          BY <1>2, <3>3, <5>1 DEF View, Statement
      <4> QED
        BY <1>4, <1>6, <3>1, <4>1 DEF Completed
    <3>4. CASE Mode(query[r]) # "none"
      <4>1. pc'[r] # "next"
        BY <1>1, <2>8, <3>1, <3>4 DEF EndOfRows, Goto, TypeOK
      <4> QED
        BY <2>4, <3>1, <4>1
    <3> QED
      BY <3>2, <3>3, <3>4
  <2>9. CASE Fail(r)
    <3>1. pc'[r] = "ended" /\ result'[r] = "io" /\ at'[r] = at[r]
      BY <1>1, <2>9 DEF Fail, Throw, Goto, TypeOK
    <3> QED
      BY <2>4, <3>1
  <2> QED
    BY <2>1, <2>2, <2>3, <2>5, <2>6, <2>7, <2>8, <2>9 DEF Acts, Step
<1> QED
  BY <1>5, <1>6

\* No statement is parsed twice.
LEMMA NotTwice ==
  ASSUME Structure, NEW i \in 1..Len(ops), NEW j \in 1..Len(ops), i < j
  PROVE  ops[i] # ops[j]
<1>1. i \in DOMAIN ops /\ j \in DOMAIN ops /\ ops[i] \in Nat /\ ops[j] \in Nat
  BY ParsedStatements DEF Structure
<1>2. ops[i] < ops[j]
  BY <1>1, Zenon DEF Structure, ParsedInOrder
<1> QED
  BY <1>1, <1>2

\* The lines of a completed INSERT stay in their target, in one piece.
LEMMA StaysWritten ==
  ASSUME Structure, RowsBearTheirName, Next, NEW r \in Run, Acts(r), NEW o \in Run,
         NEW i \in 1..Len(ops), Completed(o, i), Script[ops[i]].kind = "insert",
         Appended(Script[ops[i]].into), NEW lines \in Seq(Row),
         WroteExactly(o, ops[i], lines, file[Script[ops[i]].into])
  PROVE  WroteExactly(o, ops[i], lines, file'[Script[ops[i]].into])
<1> DEFINE t == Script[ops[i]].into
           s == Statement(r)
<1>1. TypeOK /\ ops[i] \in Select /\ t \in Target /\ file \in [Target -> Seq(Row)]
      /\ out[r] \in Seq(Row)
  <2>1. TypeOK
    BY DEF Structure
  <2>2. ops[i] \in Select
    BY <2>1 DEF TypeOK
  <2> QED
    BY <2>1, <2>2, Fragments DEF TypeOK, Fragment
<1>2. CASE UNCHANGED file
  BY <1>2
<1>3. CASE /\ pc[r] = "open" /\ s \notin View /\ ~Script[s].append
           /\ file' = [file EXCEPT ![Script[s].into] = <<>>]
  <2>1. s \in Select /\ Script[s].kind = "insert"
    <3>1. s \in Select
      BY <1>3, AtHand
    <3> QED
      BY <1>3, <3>1 DEF Select, View
  <2>2. Script[s].into # t
    BY <1>3, <2>1 DEF Appended
  <2> QED
    BY <1>1, <1>3, <2>2
<1>4. CASE /\ pc[r] \in {"lookup", "check", "pull"} /\ s \notin View /\ CloseTarget(r) /\ at[r] >= 1
  <2>1. s \in Select /\ Script[s].kind = "insert"
    <3>1. s \in Select
      BY <1>4, AtHand
    <3> QED
      BY <1>4, <3>1 DEF Select, View
  <2>2. CASE Script[s].into # t
    BY <1>1, <1>4, <2>2 DEF CloseTarget
  <2>3. CASE Script[s].into = t
    <3>1. file'[t] = file[t] \o out[r]
      <4>1. Script[s].append
        BY <2>1, <2>3 DEF Appended
      <4> QED
        BY <1>1, <1>4, <2>3, <4>1 DEF CloseTarget
    <3>2. Tagged(r, s, out[r])
      BY <1>4, Places DEF RowsBearTheirName, TaggedOf
    <3>3. o # r \/ ops[i] # s
      <4>1. SUFFICES ASSUME o = r PROVE ops[i] # s
        OBVIOUS
      <4>2. i < at[r] /\ at[r] <= Len(ops) /\ at[r] \in Nat
        <5>1. result[r] = "none" /\ at[r] <= Len(ops) /\ at[r] \in Nat
          BY <1>1, <1>4 DEF Structure, StatementAtHand, StatementOf, TypeOK
        <5> QED
          BY <1>4, <4>1, <5>1 DEF Completed
      <4>3. ops[i] # ops[at[r]]
        BY <4>2, NotTwice
      <4> QED
        BY <4>3 DEF Statement
    <3>4. \A j \in DOMAIN out[r] : ~(out[r][j].by = o /\ out[r][j].stmt = ops[i])
      BY <3>2, <3>3 DEF Tagged
    <3>5. file[t] \in Seq(Row)
      BY <1>1
    <3> HIDE DEF t
    <3>6. WroteExactly(o, ops[i], lines, file[t])
      BY DEF t
    <3>7. WroteExactly(o, ops[i], lines, file[t] \o out[r])
      BY <1>1, <3>4, <3>5, <3>6, StillExactly
    <3> QED
      BY <3>1, <3>7 DEF t
  <2> QED
    BY <2>2, <2>3
<1> QED
  BY <1>2, <1>3, <1>4, FileStep

\* At the end of the rows the writer has what the SELECTs mean.
LEMMA WriterLines ==
  ASSUME Structure, NEW r \in Run, QueryingOf(r), alone[r],
         EndOfRows(r), Statement(r) \notin View, Mode(query[r]) = "none"
  PROVE  out[r] \in Lines(r, Statement(r)) /\ TypeOK /\ Statement(r) \in Select
<1> DEFINE q == query[r]
           s == Statement(r)
<1>1. pc[r] = "pull" /\ pc[r] \in Querying /\ pc[r] \in Executing
  BY Places DEF EndOfRows
<1>2. TypeOK /\ s \in Select /\ q \in Query /\ q.stages \in Stages(s)
  BY <1>1, QueryInHand
<1>3. PICK rows \in Over(r, s, q.stages) : rows \in Seq(Row) /\ Within(q, rows) /\ Copying(r, rows)
  BY <1>1, QueryInHand
<1>4. Ahead(q, rows) /\ out[r] = WithHeader(r, s, Taken(q, rows))
  BY <1>3 DEF Copying
<1>5. Through(q, rows)
  <2>1. Exhausted(q)
    BY DEF EndOfRows, Consumed
  <2> HIDE DEF q
  <2> QED
    BY <1>2, <1>3, <1>4, <2>1, AtTheEnd
<1>6. Taken(q, rows) \in Results(r, s)
  <2> HIDE DEF q, s
  <2>1. Mode(q) = "none"
    BY DEF q
  <2> QED
    BY <1>2, <1>3, <1>5, <2>1, EndOfCopy
<1>7. out[r] \in Lines(r, s)
  BY <1>4, <1>6 DEF Lines
<1> QED
  BY <1>2, <1>7

\* The end of the rows appends what the SELECTs mean.
LEMMA WritesExactly ==
  ASSUME Structure, RowsBearTheirName, NEW r \in Run, QueryingOf(r), alone[r],
         EndOfRows(r), CloseTarget(r), Statement(r) \notin View, Mode(query[r]) = "none",
         Appended(Script[Statement(r)].into)
  PROVE  \E lines \in Lines(r, Statement(r)) :
           WroteExactly(r, Statement(r), lines, file'[Script[Statement(r)].into])
<1> DEFINE s == Statement(r)
           t == Script[s].into
<1>1. pc[r] = "pull" /\ pc[r] \in Executing
  BY Places DEF EndOfRows
<1>2. TypeOK /\ s \in Select
  BY WriterLines
<1>7. out[r] \in Lines(r, s)
  BY WriterLines
<1>8. Script[s].kind = "insert" /\ Script[s].append /\ t \in Target
  BY <1>2, Fragments DEF Select, View, Appended, Fragment
<1>9. file \in [Target -> Seq(Row)] /\ out[r] \in Seq(Row) /\ file'[t] = file[t] \o out[r]
  BY <1>2, <1>8 DEF TypeOK, CloseTarget
<1>10. \A j \in DOMAIN file[t] : ~(file[t][j].by = r /\ file[t][j].stmt = s)
  <2>1. ~Begun(r, s)
    <3>1. ASSUME NEW i \in 1..at[r], ops[i] = s, i < at[r] PROVE FALSE
      <4>1. at[r] <= Len(ops) /\ at[r] \in Nat /\ at[r] >= 1
        BY <1>1, <1>2 DEF Structure, StatementAtHand, StatementOf, TypeOK
      <4>2. ops[i] # ops[at[r]]
        BY <3>1, <4>1, NotTwice
      <4> QED
        BY <3>1, <4>2 DEF Statement
    <3> QED
      BY <1>1, <3>1 DEF Begun
  <2> QED
    BY <1>2, <2>1 DEF RowsBearTheirName, FreshOf
<1>11. WroteExactly(r, s, out[r], file[t] \o out[r])
  <2> HIDE DEF s, t
  <2>1. file[t] \in Seq(Row)
    BY <1>8, <1>9
  <2> QED
    BY <1>9, <1>10, <2>1, WrittenExactly
<1> QED
  BY <1>7, <1>9, <1>11

\* The lines an INSERT may write are rows.
LEMMA LinesType ==
  ASSUME NEW r \in Run, NEW s \in Select
  PROVE  Lines(r, s) \subseteq Seq(Row)
<1>1. <<>> \in Stages(s)
  BY DEF Stages
<1>2. Results(r, s) \subseteq Seq(Row)
  <2>1. Over(r, s, <<>>) \subseteq Seq(Row) /\ Over(r, s, <<>>) = Results(r, s)
    BY <1>1, OverType
  <2> QED
    BY <2>1
<1> QED
  BY <1>2, WriterType DEF Lines

\* Every step keeps what runs by themselves have written exact.
LEMMA ExactStep ==
  ASSUME Structure, RowsBearTheirName, Next, NEW r \in Run, Acts(r), NEW o \in Run,
         IdleOf(o), AloneOf(o), QueryingOf(o), ExactOf(o)
  PROVE  ExactOf(o)'
<1>1. SUFFICES ASSUME alone'[o], NEW i \in 1..Len(ops'), Completed(o, i)',
                      Script[ops'[i]].kind = "insert", Appended(Script[ops'[i]].into)
               PROVE  \E lines \in Lines(o, ops'[i]) :
                        WroteExactly(o, ops'[i], lines, file'[Script[ops'[i]].into])
  BY DEF ExactOf
<1>2. /\ i \in 1..Len(ops) /\ ops'[i] = ops[i]
      /\ \/ Completed(o, i)
         \/ /\ o = r /\ EndOfRows(r) /\ i = at[r] /\ ops[i] = Statement(r)
            /\ Statement(r) \notin View /\ Mode(query[r]) = "none" /\ CloseTarget(r)
  BY <1>1, WaysToComplete
<1>3. ops[i] \in Select
  BY <1>2 DEF Structure, TypeOK
<1>4. CASE Completed(o, i)
  <2>1. alone[o]
    <3>1. CASE o # r
      BY <1>1, <3>1, OnlyRun
    <3>2. CASE o = r /\ Begin(r)
      <4>1. at[r] = 0
        BY <3>2 DEF Begin, IdleOf
      <4>2. result[r] = "none" /\ pc[r] # "next"
        BY <3>2 DEF Begin, Structure, StatementAtHand, StatementOf
      <4> QED
        BY <1>2, <1>4, <3>2, <4>1, <4>2 DEF Completed
    <3>3. CASE o = r /\ ~Begin(r)
      BY <1>1, <3>3, AloneKept DEF Acts
    <3> QED
      BY <3>1, <3>2, <3>3
  <2>2. PICK lines \in Lines(o, ops[i]) :
          WroteExactly(o, ops[i], lines, file[Script[ops[i]].into])
    BY <1>1, <1>2, <1>4, <2>1 DEF ExactOf
  <2>3. lines \in Seq(Row)
    BY <1>3, LinesType
  <2>4. WroteExactly(o, ops[i], lines, file'[Script[ops[i]].into])
    BY <1>1, <1>2, <1>4, <2>2, <2>3, StaysWritten
  <2> QED
    BY <1>2, <2>4
<1>5. CASE /\ o = r /\ EndOfRows(r) /\ ops[i] = Statement(r)
           /\ Statement(r) \notin View /\ Mode(query[r]) = "none" /\ CloseTarget(r)
  <2>1. alone[r]
    BY <1>1, <1>5, AloneKept DEF Step
  <2> QED
    BY <1>1, <1>2, <1>5, <2>1, WritesExactly
<1> QED
  BY <1>2, <1>4, <1>5

\* An INSERT that opens its target, and does not throw, goes on to its source.
LEMMA Opens ==
  ASSUME NEW r \in Run, Acts(r), pc[r] = "open"
  PROVE  OpenTarget(r) \/ Fail(r)
<1>1. ~(Begin(r) \/ NextStatement(r) \/ ParseNext(r) \/ SyntaxError(r) \/ Return(r))
  BY DEF Begin, NextStatement, ParseNext, SyntaxError, Return
<1>2. ~(LookupSource(r) \/ CheckOnce(r) \/ ToggleOnce(r) \/ Pull(r) \/ EndOfRows(r))
  BY DEF LookupSource, CheckOnce, ToggleOnce, Pull, EndOfRows
<1>3. ~(ChooseGroup(r) \/ LoadCount(r) \/ StoreCount(r) \/ Evaluate(r) \/ ResetCount(r))
  BY DEF ChooseGroup, LoadCount, StoreCount, Evaluate, ResetCount
<1> QED
  BY <1>1, <1>2, <1>3 DEF Acts, Step

\* A target stays truncated while a run by itself executes the INSERT.
LEMMA TruncatedStep ==
  ASSUME Structure, Next, NEW r \in Run, Acts(r), NEW o \in Run, AloneOf(o), TruncatedOf(o)
  PROVE  TruncatedOf(o)'
<1> USE Places
<1>1. SUFFICES ASSUME alone'[o], pc'[o] \in Executing \ {"open"}, Statement(o)' \notin View,
                      ~Script[Statement(o)'].append
               PROVE  file'[Script[Statement(o)'].into] = <<>>
  BY DEF TruncatedOf
<1>2. o = r
  <2>1. SUFFICES ASSUME o # r PROVE FALSE
    OBVIOUS
  <2>2. ~Active(o) /\ pc'[o] = pc[o]
    BY <2>1, <1>1, OnlyRun, Elsewhere
  <2> QED
    BY <1>1, <2>2 DEF Active
<1>3. /\ pc[r] \in Executing /\ at'[r] = at[r] /\ at[r] >= 1 /\ alone[r]
      /\ Statement(r) \in Select
  BY <1>1, <1>2, Progress
<1>4. Statement(r)' = Statement(r)
  BY <1>3, SamePlace
<1>5. file \in [Target -> Seq(Row)] /\ Script[Statement(r)].into \in Target
  BY <1>3, Fragments DEF Structure, TypeOK, Fragment
<1>6. CASE pc[r] = "open"
  <2>1. ~Fail(r)
    BY <1>1, <1>2 DEF Fail, Throw, Goto, Structure, TypeOK
  <2>2. OpenTarget(r)
    BY <1>6, <2>1, Opens
  <2> QED
    BY <1>1, <1>2, <1>4, <1>5, <2>2 DEF OpenTarget
<1>7. CASE pc[r] # "open"
  <2>1. UNCHANGED file
    BY <1>1, <1>2, <1>7, FileStep
  <2> QED
    BY <1>1, <1>2, <1>3, <1>4, <1>7, <2>1 DEF TruncatedOf
<1> QED
  BY <1>6, <1>7

\* Lines over an empty target are the lines.
LEMMA OverNothing ==
  ASSUME NEW lines \in Seq(Row)
  PROVE  lines \o SubSeq(<<>>, Len(lines) + 1, Len(<<>>)) = lines
<1>1. SubSeq(<<>>, Len(lines) + 1, Len(<<>>)) = <<>>
  OBVIOUS
<1> QED
  BY <1>1

\* What a run by itself has overwritten has its lines until it writes there again.
LEMMA OverwroteStep ==
  ASSUME Structure, Next, NEW r \in Run, Acts(r), NEW o \in Run,
         IdleOf(o), AloneOf(o), QueryingOf(o), TruncatedOf(o), OverwroteOf(o)
  PROVE  OverwroteOf(o)'
<1> USE Places
<1>1. SUFFICES ASSUME alone'[o], Active(o)', NEW i \in 1..Len(ops'), Completed(o, i)',
                      LastInto(o, i)', Script[ops'[i]].kind = "insert",
                      ~Script[ops'[i]].append
               PROVE  file'[Script[ops'[i]].into] \in Lines(o, ops'[i])
  BY DEF OverwroteOf
<1>2. o = r
  <2>1. SUFFICES ASSUME o # r PROVE FALSE
    OBVIOUS
  <2>2. ~Active(o) /\ pc'[o] = pc[o]
    BY <2>1, <1>1, OnlyRun, Elsewhere
  <2> QED
    BY <1>1, <2>2 DEF Active
<1>3. /\ i \in 1..Len(ops) /\ ops'[i] = ops[i]
      /\ \/ Completed(r, i)
         \/ /\ EndOfRows(r) /\ i = at[r] /\ ops[i] = Statement(r)
            /\ Statement(r) \notin View /\ Mode(query[r]) = "none" /\ CloseTarget(r)
  BY <1>1, <1>2, WaysToComplete
<1>4. /\ TypeOK /\ Len(ops) \in Nat /\ ops[i] \in Select /\ i \in Nat /\ i >= 1
      /\ at[r] \in Nat /\ at[r] <= Len(ops)
      /\ \A j \in 1..Len(ops) : ops'[j] = ops[j]
  <2>1. \A j \in 1..Len(ops) : ops'[j] = ops[j]
    BY ParsedInOrderStep
  <2>2. Len(ops) \in Nat /\ ops[i] \in Select
    BY <1>3, ParsedStatements DEF Structure
  <2>3. TypeOK /\ at[r] \in Nat /\ at[r] <= Len(ops)
    BY DEF Structure, TypeOK, StatementAtHand, StatementOf
  <2> QED
    BY <1>3, <2>1, <2>2, <2>3
<1> DEFINE t == Script[ops[i]].into
<1>5. t \in Target /\ file \in [Target -> Seq(Row)] /\ file[t] \in Seq(Row)
  BY <1>4, Fragments DEF TypeOK, Fragment
<1>6. ~Begin(r)
  <2>1. SUFFICES ASSUME Begin(r) PROVE FALSE
    OBVIOUS
  <2>2. at'[r] = at[r] /\ at[r] = 0
    BY <1>2, <2>1 DEF Begin, IdleOf
  <2> QED
    BY <1>1, <1>2, <1>4, <2>2 DEF Completed
<1>7. alone[r] /\ Active(r)
  BY <1>1, <1>2, <1>6, AloneKept, ActorIsActive DEF Acts
<1>8. CASE Completed(r, i)
  <2>1. at[r] <= at'[r] /\ at'[r] \in Nat
    BY <1>4, Progress
  <2>2. LastInto(r, i)
    <3>1. ASSUME NEW j \in (i + 1)..at[r]
          PROVE  j \in (i + 1)..at'[r] /\ ops'[j] = ops[j]
      BY <1>4, <2>1
    <3> QED
      BY <1>1, <1>2, <1>3, <3>1 DEF LastInto
  <2>3. file[t] \in Lines(r, ops[i])
    BY <1>1, <1>2, <1>3, <1>7, <1>8, <2>2 DEF OverwroteOf
  <2>4. file'[t] = file[t]
    <3>1. ASSUME pc[r] \in {"open", "lookup", "check", "pull"}, Statement(r) \notin View
          PROVE  Script[Statement(r)].into # t
      <4>1. at'[r] = at[r] /\ at[r] >= 1 /\ Statement(r) \in Select
        BY <3>1, Progress
      <4>2. i < at[r]
        BY <1>4, <1>8, <3>1 DEF Completed, Structure, StatementAtHand, StatementOf
      <4>3. at[r] \in (i + 1)..at'[r] /\ ops'[at[r]] = Statement(r)
        BY <1>4, <4>1, <4>2 DEF Statement
      <4>4. Script[Statement(r)].kind = "insert"
        BY <3>1, <4>1 DEF Select, View
      <4> QED
        BY <1>1, <1>2, <1>3, <4>3, <4>4 DEF LastInto
    <3>2. CASE UNCHANGED file
      BY <3>2
    <3>3. CASE /\ pc[r] = "open" /\ Statement(r) \notin View
               /\ file' = [file EXCEPT ![Script[Statement(r)].into] = <<>>]
      BY <1>5, <3>1, <3>3
    <3>4. CASE /\ pc[r] \in {"lookup", "check", "pull"} /\ Statement(r) \notin View
               /\ CloseTarget(r)
      BY <1>5, <3>1, <3>4 DEF CloseTarget
    <3> QED
      BY <3>2, <3>3, <3>4, FileStep
  <2> QED
    BY <1>2, <1>3, <2>3, <2>4
<1>9. CASE /\ EndOfRows(r) /\ ops[i] = Statement(r) /\ Statement(r) \notin View
           /\ Mode(query[r]) = "none" /\ CloseTarget(r)
  <2>1. out[r] \in Lines(r, Statement(r)) /\ out[r] \in Seq(Row)
    BY <1>2, <1>4, <1>7, <1>9, WriterLines DEF TypeOK
  <2>2. pc[r] = "pull"
    BY <1>9 DEF EndOfRows
  <2>3. file[t] = <<>>
    BY <1>1, <1>2, <1>3, <1>7, <1>9, <2>2 DEF TruncatedOf
  <2>4. file'[t] = out[r] \o SubSeq(file[t], Len(out[r]) + 1, Len(file[t]))
    BY <1>1, <1>3, <1>5, <1>9 DEF CloseTarget
  <2>5. file'[t] = out[r]
    BY <2>1, <2>3, <2>4, OverNothing
  <2> QED
    BY <1>2, <1>3, <1>9, <2>1, <2>5
<1> QED
  BY <1>3, <1>8, <1>9

\* Every step keeps what runs by themselves have truncated and overwritten.
LEMMA OverwritesStep ==
  ASSUME Structure, AloneIsExact, AloneOverwrites, [Next]_vars
  PROVE  AloneOverwrites'
<1>1. CASE UNCHANGED vars
  <2>1. ASSUME NEW o \in Run PROVE TruncatedOf(o)' /\ OverwroteOf(o)'
    <3>1. TruncatedOf(o) /\ OverwroteOf(o)
      BY <2>1 DEF AloneOverwrites, OverwriteLeavesItsLines
    <3> QED
      BY <1>1, <3>1 DEF vars, shared, local, history, TruncatedOf, OverwroteOf, Active,
                        Completed, LastInto, Statement
  <2> QED
    BY <2>1 DEF AloneOverwrites, OverwriteLeavesItsLines
<1>2. CASE Next
  <2>1. PICK r \in Run : Acts(r)
    BY <1>2 DEF Next, Acts
  <2>2. ASSUME NEW o \in Run PROVE TruncatedOf(o)' /\ OverwroteOf(o)'
    <3>1. IdleOf(o) /\ AloneOf(o) /\ QueryingOf(o) /\ TruncatedOf(o) /\ OverwroteOf(o)
      BY <2>2 DEF AloneIsExact, AloneOverwrites, OverwriteLeavesItsLines
    <3> QED
      BY <1>2, <2>1, <3>1, TruncatedStep, OverwroteStep
  <2> QED
    BY <2>2 DEF AloneOverwrites, OverwriteLeavesItsLines
<1> QED
  BY <1>1, <1>2

\* Every step keeps the history of runs by themselves.
LEMMA AloneIsExactStep ==
  ASSUME Structure, CountersInUse, RowsBearTheirName, AloneIsExact, [Next]_vars
  PROVE  AloneIsExact'
<1>1. CASE UNCHANGED vars
  <2>1. ASSUME NEW o \in Run
        PROVE  IdleOf(o)' /\ AloneOf(o)' /\ QueryingOf(o)' /\ EmptyWriterOf(o)' /\ ExactOf(o)'
    <3>0. IdleOf(o) /\ AloneOf(o) /\ QueryingOf(o) /\ EmptyWriterOf(o) /\ ExactOf(o)
      BY <2>1 DEF AloneIsExact, ExactWhenAlone
    <3> USE <1>1 DEF vars, shared, local, history
    <3>1. IdleOf(o)' /\ EmptyWriterOf(o)'
      BY <3>0 DEF IdleOf, EmptyWriterOf, Statement
    <3>2. AloneOf(o)'
      BY <3>0 DEF AloneOf, Active, Statement, TheView
    <3>3. QueryingOf(o)'
      BY <3>0 DEF QueryingOf, Copying, CountingAll, Grouping, CountingGroups, Statement
    <3>4. ExactOf(o)'
      BY <3>0 DEF ExactOf, Completed
    <3> QED
      BY <3>1, <3>2, <3>3, <3>4
  <2> QED
    BY <2>1 DEF AloneIsExact, ExactWhenAlone
<1>2. CASE Next
  <2>1. PICK r \in Run : Acts(r)
    BY <1>2 DEF Next, Acts
  <2>2. ASSUME NEW o \in Run
        PROVE  IdleOf(o)' /\ AloneOf(o)' /\ QueryingOf(o)' /\ EmptyWriterOf(o)' /\ ExactOf(o)'
    <3>1. IdleOf(o) /\ AloneOf(o) /\ QueryingOf(o) /\ EmptyWriterOf(o) /\ ExactOf(o)
      BY <2>2 DEF AloneIsExact, ExactWhenAlone
    <3> QED
      BY <1>2, <2>1, <3>1, IdleStep, AloneStep, QueryingStep, WriterStep, ExactStep
  <2> QED
    BY <2>2 DEF AloneIsExact, ExactWhenAlone
<1> QED
  BY <1>1, <1>2

\* Nobody has begun: no counter, flag, row or input is anybody's.
LEMMA InitExact ==
  ASSUME Init
  PROVE  InputsInUse /\ RowsBearTheirName /\ AloneIsExact /\ AloneOverwrites
<1>1. ASSUME NEW r \in Run
      PROVE  /\ pc[r] = "idle" /\ at[r] = 0 /\ views[r] = {} /\ inputs[r] = {} /\ ~alone[r]
             /\ result[r] = "none" /\ out[r] = <<>>
  BY DEF Init
<1>2. InputsInUse
  BY <1>1 DEF InputsInUse, InputOf, Reading
<1>3. RowsBearTheirName
  <2>1. \A s \in Select : file[Script[s].into] = <<>>
    BY Fragments DEF Init, Fragment
  <2>2. \A r \in Run : TaggedOf(r)
    BY <1>1, Places DEF TaggedOf
  <2>3. \A r \in Run : FreshOf(r)
    BY <2>1 DEF FreshOf
  <2> QED
    BY <2>2, <2>3 DEF RowsBearTheirName
<1>4. AloneIsExact
  BY <1>1, Places
  DEF AloneIsExact, IdleOf, AloneOf, QueryingOf, EmptyWriterOf, ExactWhenAlone, ExactOf
<1>5. AloneOverwrites
  BY <1>1 DEF AloneOverwrites, TruncatedOf, OverwriteLeavesItsLines, OverwroteOf
<1> QED
  BY <1>2, <1>3, <1>4, <1>5

-----------------------------------------------------------------------------
(* Theorems *)

\* In every run of any script: the rows bear the name of the run and statement
\* they were read for, and a run by itself is where its query and the shared
\* counters, flags and targets say it is.
THEOREM ExactInvariance == Spec => []ExactInv
<1>1. ASSUME Init
      PROVE  InputsInUse /\ RowsBearTheirName /\ AloneIsExact /\ AloneOverwrites
  BY <1>1, InitExact
<1>2. ASSUME ScriptInv, InputsInUse, RowsBearTheirName, AloneIsExact, AloneOverwrites, [Next]_vars
      PROVE  InputsInUse' /\ RowsBearTheirName' /\ AloneIsExact' /\ AloneOverwrites'
  BY <1>2, InputsStep, NamesStep, AloneIsExactStep, OverwritesStep DEF ScriptInv
<1>3. ExactInv <=>
        ScriptInv /\ InputsInUse /\ RowsBearTheirName /\ AloneIsExact /\ AloneOverwrites
  BY DEF ExactInv
<1> QED
  BY <1>1, <1>2, <1>3, Invariance, PTL DEF Spec

\* A run that no other overlapped appended for every INSERT it completed what its
\* SELECTs mean on its own file, in one piece, whatever the runs before and after
\* it did with the counters, flags, statements and targets they share.
THEOREM Exact == Spec => []ExactWhenAlone
<1>1. ExactInv => ExactWhenAlone
  BY DEF ExactInv, AloneIsExact
<1> QED
  BY <1>1, ExactInvariance, PTL

\* The target a run by itself has overwritten has the lines its SELECTs mean and no
\* others, whatever was in it, until the run writes there again.
THEOREM Overwrites == Spec => []OverwriteLeavesItsLines
<1>1. ExactInv => OverwriteLeavesItsLines
  BY DEF ExactInv, AloneOverwrites
<1> QED
  BY <1>1, ExactInvariance, PTL

\* The writer of an ended run is closed, with no line left in it, and an input is
\* open only for a LIMIT it kept to, a view nobody counts, a file without rows, or
\* a read or an open that failed.
THEOREM FilesReleased == Spec => []EndedRunsReleaseTheirFiles
<1>1. ExactInv => EndedRunsReleaseTheirFiles
  <2>1. SUFFICES ASSUME ExactInv, NEW r \in Run, ~Active(r)
                 PROVE  /\ out[r] = <<>>
                        /\ \A s \in inputs[r] : LeftOpen(r, s) \/ result[r] = "io"
    BY DEF EndedRunsReleaseTheirFiles, LeftOpen
  <2>2. EmptyWriterOf(r) /\ InputOf(r)
    BY <2>1 DEF ExactInv, AloneIsExact, InputsInUse
  <2>3. out[r] = <<>>
    BY <2>1, <2>2 DEF EmptyWriterOf, Querying, AtAggregate, Active
  <2>4. \A s \in inputs[r] : LeftOpen(r, s) \/ result[r] = "io"
    BY <2>1, <2>2 DEF InputOf, Reading, Active
  <2> QED
    BY <2>3, <2>4
<1> QED
  BY <1>1, ExactInvariance, PTL
=============================================================================
