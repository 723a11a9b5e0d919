--------------------------- MODULE ScriptProperties ---------------------------
(***************************************************************************)
(* What the runs of a shared script keep to, and what they do not.         *)
(***************************************************************************)
EXTENDS Scripts, FiniteSets, SequencesExt

Query ==
  [stages : Seq(Select), feed : Seq(Row), live : BOOLEAN, taken : Nat,
   groups : [Column -> Nat], done : Seq(Row), seen : Nat]

TypeOK ==
  /\ parsed \in 1..Len(Script)
  /\ ops \in Seq(Select)
  /\ once \in [View -> BOOLEAN]
  /\ count \in [Select -> Nat]
  /\ file \in [Target -> Seq(Row)]
  /\ pc \in [Run -> {"idle", "next", "check", "toggle", "open", "lookup", "pull",
                     "group", "load", "store", "evaluate", "reset", "ended"}]
  /\ at \in [Run -> Nat]
  /\ views \in [Run -> SUBSET View]
  /\ inputs \in [Run -> SUBSET Select]
  /\ out \in [Run -> Seq(Row)]
  /\ query \in [Run -> Query]
  /\ result \in [Run -> {"none", "returned", "syntax", "noview", "io"}]
  /\ failures \in Nat
  /\ spoilt \subseteq Select /\ created \subseteq View
  /\ alone \in [Run -> BOOLEAN]

-----------------------------------------------------------------------------
(* What a SELECT means *)

Take(rows, n) == SubSeq(rows, 1, IF n < Len(rows) THEN n ELSE Len(rows))
Keys(rows) == {rows[i].key : i \in DOMAIN rows}
Having(rows, k) == Cardinality({i \in DOMAIN rows : rows[i].key = k})

\* The results of SELECT s over some rows: the groups come in any order.
Meaning(r, s, t, rows) ==
  LET taken == Take(rows, Script[s].limit) IN
  CASE Script[s].agg = "none" -> {taken}
    [] Script[s].agg = "all"  -> {<<RowOf(r, t, NoKey, Len(taken))>>}
    [] Script[s].agg = "key"  ->
         {[i \in DOMAIN ks |-> RowOf(r, t, ks[i], Having(taken, ks[i]))] :
            ks \in SetToSeqs(Keys(taken))}

\* The rows INSERT s may get from its source, and what its own SELECT makes of them.
Source(r, s) ==
  IF Script[s].from = 0 THEN {FileRows(r, s)}
  ELSE Meaning(r, Script[s].from, s, FileRows(r, s))
Results(r, s) == UNION {Meaning(r, s, s, rows) : rows \in Source(r, s)}

\* The lines INSERT s may write for the file of run r.
WithHeader(r, s, rows) == IF rows = <<>> THEN <<>> ELSE <<RowOf(r, s, Header, 0)>> \o rows
Lines(r, s) == {WithHeader(r, s, rows) : rows \in Results(r, s)}

\* The lines are among the rows of a target, in one piece, and nothing else of
\* run r and INSERT s is.
WroteExactly(r, s, lines, rows) ==
  \E n \in 0..(Len(rows) - Len(lines)) :
    /\ \A i \in DOMAIN lines : rows[n + i] = lines[i]
    /\ \A i \in DOMAIN rows : rows[i].by = r /\ rows[i].stmt = s => i - n \in DOMAIN lines

\* No statement of the script truncates the target.
Appended(t) ==
  \A s \in Select : Script[s].kind = "insert" /\ Script[s].into = t => Script[s].append

Completed(r, i) ==
  \/ i < at[r]
  \/ i = at[r] /\ (pc[r] = "next" \/ result[r] \in {"returned", "syntax"})

ExactOf(r) ==
  alone[r] =>
    \A i \in 1..Len(ops) :
      Completed(r, i) /\ Script[ops[i]].kind = "insert" /\ Appended(Script[ops[i]].into) =>
        \E lines \in Lines(r, ops[i]) :
          WroteExactly(r, ops[i], lines, file[Script[ops[i]].into])

\* A run that no other run overlapped, and before which no run had thrown in the
\* middle of an aggregate, appended for every INSERT it completed what its SELECTs
\* mean on its own file, in one piece, whatever the runs before and after it did
\* with the counters, flags, statements and targets they share.  It is said of
\* targets that every statement appends to; OverwriteLeavesItsLines is for others.
ExactWhenAlone == \A r \in Run : ExactOf(r)

\* The run has begun no later INSERT into the target of its statement i.
LastInto(r, i) ==
  \A j \in (i + 1)..at[r] :
    Script[ops[j]].kind = "insert" => Script[ops[j]].into # Script[ops[i]].into

OverwroteOf(r) ==
  alone[r] /\ Active(r) =>
    \A i \in 1..Len(ops) :
      /\ Completed(r, i) /\ LastInto(r, i)
      /\ Script[ops[i]].kind = "insert" /\ ~Script[ops[i]].append
      => file[Script[ops[i]].into] \in Lines(r, ops[i])

\* An OVERWRITE that such a run has completed leaves the lines its SELECTs mean and
\* no others, whatever earlier runs, also those that overlapped or failed half-way,
\* left in the target, until the run writes to it again.
OverwriteLeavesItsLines == \A r \in Run : OverwroteOf(r)

\* A counter is left over by a run that threw in the middle of an ungrouped
\* aggregate, by nothing else: when no run is active it is 0, however the runs
\* have interleaved.  (A GROUP BY has read all its rows before it counts any.)
LeftoverNeedsFailure ==
  (\A r \in Run : ~Active(r)) =>
    \A s \in Select : count[s] # 0 => s \in spoilt

\* "No input source found" for a view is the fate of later runs only: some
\* other run has executed the CREATE VIEW before.
MissingViewWasCreatedElsewhere ==
  \A r \in Run : result[r] = "noview" =>
    Script[Statement(r)].from \in created \ views[r]

\* On every way a run ends (through, by a syntax error, a missing view, a failed
\* open or read) its writer is closed, with no line left in it.  An input stays
\* open only if the query stopped before its end (a failure, a LIMIT), never read
\* it (the query of a view) or found it empty; one whose last row was taken is closed.
EndedRunsReleaseTheirFiles ==
  \A r \in Run : ~Active(r) =>
    /\ out[r] = <<>>
    /\ \A s \in inputs[r] :
         \/ Content[r] = <<>> \/ s \in View \/ result[r] = "io"
         \/ \E n \in {s, Script[s].from} \ {0} : Script[n].limit < Len(Content[r])

\* A line that was written to an appended target is never lost again.
AppendedLinesStay ==
  [][\A t \in Target : Appended(t) => IsPrefix(file[t], file'[t])]_file

-----------------------------------------------------------------------------
(* What the documentation says *)

\* README, VIEWS: "views are tied to the current session".  A run that has
\* executed CREATE VIEW has the view.
ViewsOfTheSession ==
  \A r \in Run : pc[r] \in {"next", "open"} =>
    \A i \in 1..at[r] :
      ops[i] \in View /\ (i < at[r] \/ pc[r] = "next") => ops[i] \in views[r]

\* README, Sample SQL Script: the script is executed when the file has been
\* observed.  A run that returned has executed all of it.
ReturnedRunsExecutedAll ==
  \A r \in Run : result[r] = "returned" => Len(ops) = Len(Script)
=============================================================================
