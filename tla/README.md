# A TLA+ development of Qwery ETL

Qwery is a SQL-like ETL tool: scripts read files, topics and tables and write others.  Around the
query engine sits a distributed system: *workers* (JVM processes, `app/jvm/etl`) watch an inbox
directory, a *supervisor* (Node.js, `app/js/supervisor`) keeps jobs in MongoDB and hands them out,
and *web clients* (`app/js/client`) show and control them.  This directory holds TLA+ models of the
parts whose correctness depends on more than one actor or more than one step, the TLC runs that
check them on small instances, and proofs, checked by TLAPS, of the properties that matter most.

Paths below leave out `src/` and the package directories.

## 1. Inventory

### 1.1 ETL worker — `QweryETL.scala`, `actors/*`, `rest/*`, `FileMoving.scala` (modelled)

| state | operations |
|---|---|
| `slaveID_?`, the inbox watch, one root `Scope` per chain of jobs, a refresh timer per job, the directories `inbox`, `work`, `failed`, `archive` | `run`, `registerAsSlave`, the watch callback with `scheduleJob`, `checkForJobs`, `processJob` (move to work, RUNNING, script, SUCCESS, statistics, outcome callbacks), `updateJobState`, `updateStatistics` |

It calls the supervisor over HTTP through actors (`jobMgr`, `slaveMgr`) and runs scripts in the
actor pool `workMgr`; every call is an Akka *ask* with a timeout.  Hard: an ask that times out does
not withdraw its request, so the supervisor may carry out a call the worker has given up; the actor
that runs a script sends nothing when the script throws; `reflect` sends nothing when the HTTP call
fails; two callbacks of the same outcome (`QweryETL.scala:163` and `:90`) run independently; a
worker may die at any point with files in `work` and jobs in state CLAIMED or RUNNING.

Correct when: no job is processed twice; SUCCESS is never reported for a job that was not processed;
no file is lost, duplicated or overwritten; a script finds its file where it was told; every chain
goes on; every accepted file leaves the inbox.

### 1.2 Supervisor — `routes/JobRoutes`, `routes/SlaveRoutes`, `dao/JobDAO`, `dao/SlaveDAO` (modelled)

| state | operations |
|---|---|
| collections `jobs` and `slaves` | POST job, checkout, change state, statistics, register slave, pause/resume/stop |

Every operation is one atomic `findOneAndUpdate` or insert.  None of them looks at the present state
of a job except the checkout.  Hard: pause, resume and stop wait for the worker's answer and write
its state afterwards, whatever happened meanwhile.

### 1.3 Web socket broadcast and web client — `WebSocketHandler`, `MainController`, `JobHandling`, `SlaveHandling`, `WebSocketService` (modelled)

| state | operations |
|---|---|
| the array of connected clients; per client: `jobs`, `slaves`, `slave.jobs`, the flags `pausing`, `resuming`, `stopping` | `emit`, `messageHandler`, connect and reconnect, `init`, `refreshJobs`, `updateJob`, `updateSlaveJobs`, `updateSlave`, pause/resume/stop |

Hard: broadcasts and snapshots travel on different connections and are applied in any order;
`emit` removes dead clients from the array it iterates over; reconnecting loses messages;
`updateJob` does not copy every field.

### 1.4 Execution of scripts — `WorkflowManagementActor`, `CodeBlock`, `ops/sql/*`, `ops/builtins/*`, `sources/*`, `devices/*` (modelled in part)

| state | operations |
|---|---|
| per trigger, shared by all runs: the lazy stream of statements, `View.once`, the accumulators of aggregates; per run: a `Scope` with its views, open inputs and a writer; the target files | `processFile`, `CodeBlock.execute`, the parser's `next`, `View.execute`, `Select.execute`, `Insert.execute`, `Count.update` and `evaluate`, opening and closing of sources |

A trigger's script is compiled once (`ScriptSupport.scala:21`) into a `CodeBlock` over a stream that
parses the next statement when a run first gets there.  The five actors of the pool then execute the
same objects for different files, at the same time.  Hard: mutable fields inside these objects, read
and written without synchronisation; what a failed run leaves in them; inputs and writers that are
closed on some paths only; the one place of the text that a syntax error is met at.

Correct when: a run that is alone writes what its SELECTs mean on its own file, whatever came before
it; damage done by overlapping runs does not outlast them; a view is there for the run that created
it; appended lines stay.

### 1.5 The language — `TokenIterator`, `TokenStream`, `ExpressionParser`, `QweryDecompiler` (conditions and expressions modelled)

Text becomes tokens, tokens become trees by recursive descent over one shared position, trees are
printed again (`SHOW VIEWS`, `SQLGenerator`).  Sequential: what can be wrong is the boundary of a
token, the grouping of operators and what gets lost on the way back to text.

Correct when: every character is in one token; AND, OR and NOT group as documented by the code's own
loops; the printed text of a tree reads as that text again.

### 1.6 Triggers — `FileTrigger`, `Constraint`, `ETLConfig` (modelled in part)

A trigger accepts a name when all its constraints match.  The model has the set of names each worker
accepts, and the script each run executes.

### 1.7 Scheduled events, Kafka stream — `events/*` (not modelled)

`ScheduledEvent` computes the next run times and schedules one-shot timers; `update` is called only
at start, so that an event fires once.  `KafkaMessageStream` is started by nothing in the repository.

### 1.8 Not modelled

See section 5.

## 2. Modules

| module | what it is |
|---|---|
| `Entities` | the sets all modules share, and their "none" values |
| `JobStore` | the supervisor's collections and the DAO operations |
| `FileMoving` | the directories of a home and `FileMoving.scala`'s moves |
| `QweryETL` | workers, chains, actors, routes, requests in flight, faults (composes the two above) |
| `JobQueue` | the abstract specification: a queue of jobs each handed out once |
| `EtlProperties` | the properties of `QweryETL`, and `ImplementsQueue` |
| `EtlInvariant` | the inductive invariants `EtlInv`, `FileInv` (files) and `CalmInv` (behaviours without faults) |
| `EtlProofs`, `EtlFileProofs` | proofs: jobs; files, and the truth of states |
| `Broadcast` | the supervisor's array of web socket clients, and the browsers' connections |
| `BroadcastProofs` | its invariant `BroadcastInv`, and proofs |
| `Activity` | the store, its broadcasts, and the pages of the web client (uses `JobStore`) |
| `ActivityProperties` | the properties of `Activity` |
| `ActivityProofs` | its invariant `FlagsTellCalls`, and proofs |
| `Scripts` | the runs of one shared script: statements, views, rows, counters, files |
| `ScriptProperties` | what a SELECT means, and the properties of `Scripts` |
| `ScriptInvariant` | the inductive invariant `ScriptInv` |
| `ScriptProofs` | proofs |
| `ScriptExactness` | the inductive invariant `ExactInv`: the rows of each run, and what its query will make of them |
| `ScriptExactProofs` | proofs, extending `ScriptProofs` |
| `Lexer` | texts and tokens |
| `Language` | tokens, trees, and the text of a tree (extends `Lexer`) |
| `LanguageProperties` | the properties of both, and what a condition means (`Reading`) |
| `LanguageProofs` | the invariant `LanguageInv`, and proofs: induction, tokens, trees, printing |
| `ReadingProofs` | proofs: the parser reads conditions as `Reading` says |
| `MCQweryETL`, `MCBroadcast`, `MCActivity`, `MCScripts`, `MCLanguage` | small instances for TLC |

### How `QweryETL` corresponds to the code

A *chain* is one run of `checkForJobs` with its recursion (`QweryETL.scala:84-99`): it owns the root
scope, checks out a job, processes it and looks for the next one.  `pc[c]` says what its current
`Future` waits for, `held[c]` is the job `processJob` was called with, `reply[c]` whether the ask was
answered.  A chain of the model is used again only when nothing refers to its former root scope.

A request in flight is a record in `creates`, `checkouts`, `updates`, `posts`, `registering` or
`controls`; `ask = 0` marks one whose answer a chain waits for.  The timeout of an ask, or the death
of its worker, changes the mark and leaves the request in the set (`Abandon`), so that it may still be
carried out later, in any order.  A reply and the execution of its request are one step, except that
the step that *uses* the reply comes later: a chain may still time out between the two (`AskTimesOut`,
fault "late"), which is the lost or late reply.

| action | code |
|---|---|
| `Start`, `OnRegistered`, `RegistrationTimesOut` | `run`, `registerAsSlave` |
| `ListInbox` | `registerWatch`'s last lines: the files that are in the inbox when it is listed, after the watch was registered |
| `HandleEvent` | the watch callback and `scheduleJob` |
| `Tick`, `ChainEnds` | the 30 s schedule; `checkForJobs` with no job or a failed ask |
| `TakeJob`, `RejectJob` | `processJob`'s two cases: file moved to work; "work file could not be determined" |
| `OnRunning`, `OnResult`, `OnSuccess` | the steps of the for-comprehension, lines 151-157 |
| `ProcessingFails` | `recoverWith`, lines 158-161 |
| `OutcomeSucceeds`, `OutcomeFails` | `outcome` completes; the recursion of line 90-93 |
| `ArchiveFile`, `FileFails` | `outcome onComplete`, lines 163-173 (a callback of its own) |
| `StoppedEnds` | lines 176-180 |
| `RefreshCycle` | the 5 s timer, lines 143-147 |
| `ScriptStarts`, `ScriptReturns`, `ScriptThrows` | `WorkflowManagementActor` |
| `HandleRegister`, `HandleCreate`, `HandleCheckout`, `HandleUpdate`, `HandlePost`, `HandleControl` | the routes |
| `RequestLost`, `RequestFails`, `Crash` | faults |

External, modelled from how the code uses them: Akka asks and timers, the file system and its watch
service (every watch of a directory gets its events), MongoDB's single-document atomicity, HTTP, the
users who write files, and the worker's control endpoint, which is not in the repository: it may
answer any state of `ControlAnswers`.

Abstractions: a file is an *upload* (an identity), a name is a model value, a home stands for the
path of `QWERY_HOME`; `job.input` is a path, modelled as a name because every home has the same
layout.  The archive has one place for each processing ID, whatever the second of the day its
path names.  A trigger is looked up by the name `scheduleJob` wrote into the job; the model asks
whether the worker accepts the file (`Accepts`), which is that of a worker with this trigger.
The supervisor keeps one slave document for each host and port, and every worker says port 1337:
workers of the model run on hosts of their own.  Statistics are the set of jobs whose sources they describe.  Wording, sizes, dates and
CPU load are left out.

### How `Broadcast` and `Activity` correspond to the code

`Broadcast`: `clients` is the array of `WebSocketHandler`; a client is the socket it was made for
(`<<browser, number>>`).  `SayHello` is the five-second timer of `connect` together with
`messageHandler`; `Emit` is one run of `emit`'s loop, `Visited` the positions it reaches while it
removes the clients whose send throws (the compiled loop reads the length of the array once, so after a
removal it also reads behind the end and throws; every send is done by then, and `Supervisor.scala:48`
logs the exception); `ConnectionLost` and `Reconnect` are `onclose` and its timer.
A closed client throws only once the server has noticed (`NoticeClose`, external).

`Activity`: `page[b]` is `$scope` (`jobs`, `slaves`, the `slave.jobs` lists, and the three flags as
`busy`).  A list entry is SHARED when it is the object of `$scope.jobs`, so that an update of one
shows in the other.  `GetSlaves`, `GetJobs`, `Load` are `init`; `RefreshJobs`, `OnRefreshed` the
interval; `OnMessage` the listeners; `ControlJob`, `JobManagement`, `OnControlled`, `ControlFails`
the control calls.  The writes are the routes of `QweryETL`, with their broadcasts and without the
workers behind them: a job that was checked out may be reported in any state.

`Activity` does not repeat the connections: a broadcast reaches a page late, out of order or never
(`transit`, `MessageMissed`), which allows all that `Broadcast` does, and at most once, which
`LiveClientsStay` shows (a client is in the array once).  Left out: which job is selected,
`refreshSlaves` (nothing calls it), toasts, and what statistics say.

### How `Scripts` corresponds to the code

`QweryETL` has a script as one step that starts and ends; `Scripts` is what happens between.  It does
not repeat the actors' queue: any idle run may begin while fewer than `PoolSize` are active.

| variable | code |
|---|---|
| `parsed`, `ops` | the position of the token stream; the part of the lazy stream that is memoized |
| `once`, `count` | `View.once`; `Count.count` |
| `file` | the target files, as rows |
| `pc`, `at` | the place in `CodeBlock`'s fold: the statement, and the step within it |
| `views`, `query`, `inputs`, `out` | the scope's views; the iterator at hand; its open inputs; the writer's buffer |
| `spoilt`, `created`, `alone` | history: which counters a failure has left half-way, which views were created, which runs were never overlapped |

| action | code |
|---|---|
| `Begin` | `processFile` in an actor of the pool |
| `NextStatement`, `ParseNext`, `SyntaxError`, `Return` | the fold over the stream, forcing its tail or not |
| `OpenTarget`, `LookupSource`, `CloseTarget` | `Insert.execute`, `DataResource.execute`, `use` |
| `CheckOnce`, `ToggleOnce` | `View.execute`, the two reads and one write of `once` |
| `Pull`, `EndOfRows` | `hasNext`/`next` of the chain of iterators, and the writer |
| `ChooseGroup` | `doAggregationByFields`, an order of groups of its own |
| `LoadCount`, `StoreCount`, `Evaluate`, `ResetCount` | `count += 1`; the two statements of `evaluate` |
| `Fail` | an exception of a read or of the target's opening |

Abstractions: a row is the run, statement and key it comes from, and a number; WHERE, JOIN, UNION and
ORDER BY are left out; COUNT(*) stands for all the aggregates (`Sum`, `Min`, `Max` and `Avg` keep the
same kind of fields in the same way); outputs fit the writer's buffer, so that they reach the file when
it is closed; views read the work file; a script has at most two SELECTs around each other.

### How `Language` corresponds to the code

A text is a sequence of *pieces*: a word, a digit, or one other character.  `Lexer`'s `NextToken` is one
call of `TokenIterator.next`, a disjunct for each of its parsers in their order.  The parser's methods are
operators that take a position and return the tree with the next position, `None` where the code
returns `None` and `Died` where it throws.  They call each other, so each of them is given the function
`p` from calls to results (`Expressions`, `Comparisons`, `Conditions`): `<<"next", i, 0>>` is one operand
from position `i` (`parseNextExpression`, `parseNextCondition`), `<<"more", i, 0>>` what the loops of
`parseExpression` and `parseCondition` make of the operators behind an operand.  The three do not call
back: in the part that is modelled, no expression holds a condition (`CASE` does).  `Parse`, `Decompile`
and `Parse` again are one compilation, its `toSQL`, and the compilation of that.

## 3. Runs

Constants: one name; one or two workers, chains, jobs and homes; `MaxFaults` bounds the faults of a
behaviour, `MaxTicks` the refresh-timer posts, `MaxControls` the control calls; uploads are finite, so
users stop dropping files at some point; object IDs (`Job`) are finite, so that events beyond the
number of jobs wait in `events`.  `PoolSize` is the number of actors, `MaxFailures` the runs that throw;
`MaxWrites` and `MaxSnapshots` bound the writes and the refreshes in flight of `Activity`; `MaxPhrases`,
`MaxOperators` and `MaxConnectives` the length of texts, expressions and conditions.

| run | instance | shows |
|---|---|---|
| `EtlReliable` | 1 worker, 2 chains, 2 jobs, 1 fault or none (a call lost, failed or late, an overrun), fair | `StateTellsTheTruth`, `InboxDrains`, `EveryChainEnds` |
| `EtlFaults` | 2 workers sharing a home, 1 fault of any kind | `TypeOK`, `SoleProcessor`, `EveryFileInOnePlace`, `WorkFileStaysWhileScriptRuns`, `ImplementsQueue` |
| `EtlWorker` | 1 worker, 1 chain, 2 faults (all but the overrun), 1 refresh tick, 1 control call | `SuccessMeansProcessed`, `TimersEndWithTheirJobs`, `ImplementsQueue` |
| `EtlFailedFiles` | no faults | **violated**: a file whose script threw is archived |
| `EtlStatistics` | 2 files, no faults | **violated**: a job gets another job's statistics |
| `BroadcastClients` | 3 browsers, 2 sockets each | `TypeOK`, `LiveClientsStay` |
| `ActivityPages` | 1 page, 2 workers, 2 writes, 2 refreshes in flight, 1 failed GET call, fair | `TypeOK`, `OneControlAtATime`, `ListedStatesCatchUp`, `ControlsComeBack` |
| `ActivityRunner` | 2 workers, no failures | **violated**: pause goes to the poster of a job, not its runner |
| `ScriptRuns` | 3 runs (files of 2, 1 and 0 rows), 2 at a time, a script of 5 fragments, 1 failure | `TypeOK`, `ExactWhenAlone`, `LeftoverNeedsFailure`, `MissingViewWasCreatedElsewhere`, `EndedRunsReleaseTheirFiles`, `OverwriteLeavesItsLines`, `AppendedLinesStay` |
| `ScriptViews` | the same, no failures | **violated**: a run passes CREATE VIEW and has no view |
| `ScriptSyntax` | the same, no failures | **violated**: a run returns behind the syntax error of an earlier one |
| `Language` | all texts of 3 phrases of 27; up to 3 operands and 2 operators; up to 4 comparisons | `TypeOK`, `EveryPieceInOneToken`, `ConditionsReadLeftToRight`, `PrintedTextIsStable`, `TreeSurvives` |

Why the bounds are enough: two jobs for one file is the least at which jobs compete for a file (CREATE
and MODIFY each post one), two chains the least at which chains compete for a job, and one fault
reaches every error path once, two every pair (a lost RUNNING and then a lost FAILED is what sends a
file to `failed`).  Symmetry is used only in runs without liveness properties; `EtlFaults` and `EtlWorker` check
`ImplementsQueue`, a safety property invariant under permuting jobs, and under swapping the two
workers of `EtlFaults` together with their chains.  `EtlFaults` has a VIEW: once every object ID is in
the database, the events that are left make no jobs, and states that differ in them are one state; its
properties do not speak of events, apart from their type.

Three browsers are the least at which `emit` passes over a client between two others.  The pages open
over any store earlier writes may have left (`EarlierStore`), so that two more writes reach every pair
of changes (a checkout and a report, a report and a control call); jobs do not interact on a page, so
one is enough, and two refreshes can overtake each other.

The script of `ScriptRuns` has one statement for each way of sharing: a GROUP BY that overwrites its
target, a broken statement, a view that counts all rows under a LIMIT that stops reading early, and two
INSERTs that append to the same target, from the view and from the file.  Two active runs
are the least that interleave on a counter or a flag, the third comes after a failure or a syntax
error.  Files of 0, 1 and 2 rows have the first, the last and a middle row apart.  `StateTellsTheTruth`
and `InboxDrains` speak of behaviours without a fault, and `EtlReliable` has both kinds.

A token is decided by at most three pieces (an operator of two and the piece behind it), so three
phrases reach every boundary; three comparisons are the least at which left and right grouping
differ on either side of a NOT.

Deadlock is not checked where faults may use up what lets the system go on (a worker whose
registration was lost waits for ever), where users have nothing left to drop, or where all runs of a
script or both passes over a text are over.

### Fairness

`Fairness` asks for weak fairness of: starting a worker (an operator restarts a dead one), its timers,
its actors and callbacks, the supervisor's routes, and scripts (they end, by returning or throwing).
Timeouts happen when they are due (`ChainStep(c) /\ UNCHANGED faults`), never because fairness makes a
fault happen.  No user action and no fault is fair.  The JVM's schedulers and Node's event loop
justify this; that scripts end is an assumption about users' scripts.

`Activity`'s `Fairness` asks that a page's GET calls are answered, that its interval timer fires, and
that a control call is answered or fails (browsers give up a dead connection).  Nothing is asked of
broadcasts, users, workers or the database: `ListedStatesCatchUp` holds even if no broadcast arrives.

### Disagreements between documentation and code

Each has a run that shows it.

* `README.md:992` says files that fail processing are moved to `failed`, and `README.md:990` that the
  archive stores processed files.  `recoverWith` makes every failed script, and every RUNNING call that
  is not answered, a successful outcome, which is archived (`EtlFailedFiles`); only a FAILED call that
  is itself unanswered sends a file to `failed`.
* `QweryETL.scala:254` says `updateStatistics` updates the statistics *for the given job*; the scope
  is shared by the jobs of a chain (`EtlStatistics`).
* `MainController.scala:78` says that `getSlaveForJob` returns the corresponding slave.  `updateJob`
  does not copy `slaveID`, so it is the slave the page first saw the job with (`ActivityRunner`).
* `README.md:464` says views are tied to the current session.  `View.once` is a field of the shared
  statement: the first run creates the view, the runs after it do not have it (`ScriptViews`).
* `README.md:1019` says the script is executed when a file has been observed.  After a syntax error the
  next run executes what is behind it and succeeds (`ScriptSyntax`).

Seen while reading, without a run:

* on the Failure outcome nothing cancels the refresh timer (`QweryETL.scala:170`), which goes on posting for
  the life of the worker; `TimersEndWithTheirJobs` names this as the only timer that stays on;
* a script that outlasts its four-hour ask goes on while its file is moved to the archive or failed area
  (`QweryETL.scala:153`), which `WorkFileStaysWhileScriptRuns` allows for, when no chain waits for the job;
* an OVERWRITE truncates its target before its source is executed (`ops/sql/Insert.scala:17`), so that a
  run that fails then has lost the lines before; `OverwriteLeavesItsLines` is about completed ones;
* a job that a worker of another home checks out is marked STOPPED and its file never processed
  (`QweryETL.scala:178`); `InboxDrains` is about workers that share a home;
* the refresh of the web client, "every 3 minutes" (`MainController.scala:72`), leaves out the states
  CLAIMED, PAUSED and FAILED (`JobStates.scala:18`); `ListedStatesCatchUp` is about the others;
* a scheduled event fires once (`ScheduledEvent.scala:37`); `README.md:1099` says three times daily;
* `LE` compares with `>= 0` (`ops/Condition.scala:45`), so `<=` means `>=`; `Language` reads and prints
  conditions and does not evaluate them;
* `IS NULL` cannot be printed (`QweryDecompiler.scala:37`), nor a string with a quote in it;
* parentheses are lost in printing (`QweryDecompiler.scala:61`, `:78`): `a * (b + c)` becomes
  `a * b + c`, and `(NOT)=1`, a field of that name, a text that does not parse.

## 4. Proofs

Every theorem holds for every value of the constants that satisfies the named assumptions
(`EntityAssumption`, `EtlAssumption`, `ActivityAssumption`, `BroadcastAssumption`, `ScriptAssumption`,
`ContentAssumption`, `InputAssumption`, `WordAssumption`): any number of workers, chains, jobs, files, homes, browsers and runs, any number of
faults, any script and any work files, texts of any length.

| theorem | states | rests on |
|---|---|---|
| `Typing` | `Spec => []TypeOK` | `EtlInv` |
| `ExclusiveProcessing` | `Spec => []SoleProcessor` | `EtlInv` |
| `HonestSuccess` | `Spec => []SuccessMeansProcessed` | `EtlInv` |
| `Refinement` | `Spec => ImplementsQueue` | `EtlInv` |
| `Invariance` | `Spec => []EtlInv` | |
| `OnePlace` | `Spec => []EveryFileInOnePlace` | `FileInv` |
| `TimersEnd` | `Spec => []TimersEndWithTheirJobs` | `FileInv` |
| `WorkFileStays` | `Spec => []WorkFileStaysWhileScriptRuns` | `FileInv` |
| `TruthfulStates` | `Spec => []StateTellsTheTruth` | `CalmInv` |
| `BroadcastInvariance` | `BroadcastInv`, for any messages | |
| `BroadcastTyping` | `Spec => []TypeOK` | `BroadcastInv` |
| `LiveClients` | `LiveClientsStay`, for any messages | `BroadcastInv` |
| `ActivityTyping` | `Spec => []TypeOK` | `FlagsTellCalls` |
| `OneControl` | `Spec => []OneControlAtATime` | `FlagsTellCalls` |
| `ScriptTyping` | `Spec => []TypeOK` | `ScriptInv` |
| `Leftovers` | `Spec => []LeftoverNeedsFailure` | `ScriptInv` |
| `MissingViews` | `Spec => []MissingViewWasCreatedElsewhere` | `ScriptInv` |
| `AppendOnly` | `Spec => AppendedLinesStay` | `ScriptInv` |
| `ExactInvariance` | `Spec => []ExactInv` | `ScriptInv` |
| `Exact` | `Spec => []ExactWhenAlone` | `ExactInv` |
| `Overwrites` | `Spec => []OverwriteLeavesItsLines` | `ExactInv` |
| `FilesReleased` | `Spec => []EndedRunsReleaseTheirFiles` | `ExactInv` |
| `LanguageInvariant` | `Spec => []LanguageInv` | |
| `LanguageTyping` | `Spec => []TypeOK` | `LanguageInv` |
| `NoPieceIsLost` | `Spec => []EveryPieceInOneToken` | `LanguageInv` |
| `ReadsLeftToRight` | `Spec => []ConditionsReadLeftToRight` | `LanguageInv` |

### Jobs: `EtlInv`

Neither safety property is inductive.  A chain that holds a job could hold it twice if its checkout
could be answered again, and SUCCESS could be written for a job without a run if an abandoned request
said so.  `EtlInv` adds what rules this out:

* `ClaimedJobs`: a job that was claimed has an owner for ever; one that was not has no run;
* `LateWrites`: whatever is still in flight is about a claimed job and never makes it NEW again;
* `AwaitedRequests`: the awaited request of a chain is unique and is the one its `pc` tells;
* `ChainKnowsItsJob`: a chain has a job while it processes, the job has no run before the actor is
  asked, and a reply to that ask means that the script returned.

The argument then goes action by action: `ClaimedForEver` and `ScriptChange` say that claims and runs
only grow, `UpdatesChange` and `ControlsChange` that new requests are about claimed jobs, `HeldChange`
that a chain comes to hold a job only when the supervisor claims it for that chain, `AnswerKnows` that
an answer reaches the chain that waits for it.  The first sections of `EtlProofs` have the
effect of each operator, and the typing step (`TypeStep`).  The refinement maps `queue` to the NEW jobs, `owner` to `slaveID` of claimed
ones, `completed` to the jobs whose script returned, `acclaimed` to those in state SUCCESS.

### Files: `FileInv`, given `EtlInv`

`moveToArchive` looks at nothing: it renames over whatever the archive has for the processing ID.  That
no file is lost by it rests on a job being archived once.  `FinishedJobs` says why: a job whose outcome
is known, or whose file is archived or failed, is claimed and no chain holds it, and by `EtlInv` no chain
ever will again, so it gets no second outcome (`ArchiveHasRoom`) and its timer is never started again.
`WorkFilesAreHeld` says the same of the time before: from the RUNNING call to the callback of its
outcome a job belongs to the chain that put its file into `work`, the file stays there, and there is one
outcome only.  `TakenFiles` follows it further: it is in `work`, archived or failed.  A script has a
chain that waits for it unless it outlasted its ask (`ScriptsAreAwaited`), and with these three
`WorkFileStaysWhileScriptRuns` follows.

`TimersEndWithTheirJobs` needs that a chain which lets go of a job has brought it to its outcome
(`TimersAreHeld`: with a timer on, it is at work on the job), and that the Failure callback, which leaves
the timer on, leaves a directory in the failed area and runs after a fault only.  The last is the hard
part: without a fault, the FAILED report of a chain is answered before its ask can time out
(`FailuresTakeAFault`).

The files themselves are followed place by place: `FileMoves` and `FileAppears` say that moving one
file to an empty place, or adding a new one, keeps every file in one place, and each move of
`FileMoving` is shown to be one of the two, or to leave the files alone (`TakeStep`, `ArchiveStep`, `FailStep`,
`DropStep`; `RenameFailsStep`, `RenameToFailedStep`).

### Truth of states: `CalmInv`, given both

`StateTellsTheTruth` is about behaviours without faults and control calls, and what it needs is that
then nothing is late or lost: every update in flight is awaited and reports what the `pc` of its chain
says (`PromptCalls`), and a chain without a reply has its request in flight (`PromptReplies`).  So no ask
but that of a script that threw times out (`OnlyScriptsAreSilent`), the state of a job that a chain
holds is the one the chain reported (`HeldJobs`), and a chain lets go of a job only once its last
report is written (`HeldUntilReported`); where its file is then, `FileInv` says.

### The broadcast: `BroadcastInv`

`emit` removes clients by their position while it walks the array, and what has to be shown is that the
ones it keeps are still there, once each and in their order.  `Ranks` and `Without`'s lemmas say so of
the removal: counting the positions that are kept from the left numbers them from 1 without a gap, so the
shorter array is a renumbering of the longer one (`WithoutKeeps`).  `BroadcastInv` says that a client is
in the array at most once (`ClientsDiffer`), that what is in the array, or known to be closed, has said
"Hello", and what is known to be closed is (`ClientsSaidHello`), and that whoever has said it on a socket
that is still open is in the array (`GreetedAreListed`).  `LiveClients` follows from the three.  The
theorem is about any set of messages, so that it also covers the broadcasts of `Activity`.

### The web client: `FlagsTellCalls`

The three flags of a page are exactly those of its control calls in flight, of which there is at most
one; `PageKeepsFlags` shows that no broadcast, snapshot or refresh touches them.

### Scripts: `ScriptInv`

`Structure` says what a run at a given place has at hand: its statement is parsed, of the kind the
place needs, and a run that counts has a SELECT that counts.  On it rest `CountersInUse` (a counter
that is not 0 belongs to a run in the middle of its aggregate, or was left by one that threw) and
`ViewsWereCreated` (a spent `once`, and any view a run has passed, was created by some run).
`StepsAreLocal` says that a step of one run leaves the local state of the others alone, so that only the
shared fields have to be followed.

### Rows: `ExactInv`, given `ScriptInv`

`ExactWhenAlone` compares what a run wrote with a definition of what SELECT means (`Meaning`), and says
nothing of a run in the middle of its query, so it is far from inductive.  `ExactInv` has these parts:

* `InputsInUse`: while a query reads its input, the rows taken and the rows ahead are those of the file;
  an input that is open is still read, or was left for one of the reasons of `LeftOpen`;
* `RowsBearTheirName`: the rows a run reads, groups and is about to write bear its name and that of its
  statement, and no target has a row of a statement that is not through.  This is what keeps runs apart
  that write to the same target, whether they overlap or not;
* `AloneOf`, `IdleOf`: while a run is by itself nobody else is active, no counter was spoilt, and the
  flags of the views it has are spent;
* `QueryingOf`: the query of a run by itself is over rows that its source may give (`Over`), it took no
  more than any LIMIT allows (`Within`), and what it has made of the rows taken is what `Meaning` says
  of them: the lines in the writer (`Copying`), the counter (`CountingAll`), the number of rows of each
  group (`Grouping`), and one result for each group that is through (`CountingGroups`);
* `TruncatedOf`, `EmptyWriterOf`: while a run by itself executes an OVERWRITE its target is empty, and
  nothing is in the writer of a run but the lines of the INSERT at hand.  So the lines it then appends are
  all there are, `OverwriteLeavesItsLines`, until the run opens the target again (`LastInto`).

What a query computes is followed row by row, so no induction over the rows is needed: the induction is
the one over steps.  Its single step is `OneMoreRow`, with `HavingOneMore` for the count of a group.  At
the end of the rows, `Ends` says that the rows taken are `Take` of the rows that came, and `EndOfCopy`,
`EndOfCount` and `EndOfGroups` that the result is among those `Meaning` allows: for GROUP BY, the order
in which groups were visited is a permutation of the keys (`GroupsListed`).  An inner SELECT that
aggregates hands its result to the outer one, which begins anew over rows its source may give
(`BeginQuery`).  A finished INSERT appends what it has in its writer, `WrittenExactly`, and
later steps of any run append rows of other names or write to other targets, `StillExactly`.

Two facts about the other runs carry the argument.  A run that acts while another still counts as alone
finds that other one inactive (`OnlyRun`), so nothing but its writes to targets can touch what the other
has done.  And a run by itself finds `once` spent for each of its own views (`AloneOf`), so that only
CREATE VIEW meets the branch "called first on creation" (`View.scala:13`), and an INSERT never gets the
single row ROWS_AFFECTED for the rows of its view.  TLC found `ExactInv` true in all 731,371 states of
`ScriptRuns` before it was proved.

### The language: `LanguageInv`, and induction over data

What the parser and the decompiler compute is defined by recursion over texts, tokens and trees, and a
recursive function is by definition a CHOOSE of one that satisfies its equation, so that nothing is
known of it before such a function is shown to exist.  `Recursion` shows it: a function whose value at each
call depends only on the values of calls with a smaller measure (`Computes`) has one, and it has the type
each step preserves (`AllCalls`).  The measure of a call of the parser is the number of tokens ahead of it,
of a tree or a token sequence its length.  Both rest on `AllNat`, induction over the natural numbers for a
set of them, which follows from the well-foundedness of `<`.

* `NoPieceIsLost`: `LexInv` is the property with the types of `pos` and `tokens`; `LexStep` shows that
  every token takes the pieces from where the blanks end to where it ends, and what it drops are blanks
  and quotes.
* `LanguageTyping`: each method, given that the later calls return an outcome for their place, returns
  one for its own (`ParseNextExpressionReads` and so on, put together in `ExpressionsRead`, `ComparisonsRead`
  and `ConditionsRead`): so they come to an end on any tokens, never go back, and the tree they
  return has as many branches at every node as the node needs (`Takes`).  That is what the decompiler
  rests on: its stack of texts never runs empty and ends with one text (`NodeTakes`, `TakesConcat`,
  `MakeSQLType`).  The mutant that breaks it prints the stack and not its one text.
* `ReadsLeftToRight` compares the parser's loops, which go through a condition from the left, with
  `Reading`, which splits it at its last connective.  A part between two connectives is read in its place
  as it is read alone (`MoreSame`, `ComparisonsSame`, `ParseComparisonSame`), since no loop looks past the
  connective.  Then, from the end of the text backwards, two claims hold of every place where a part ends
  (`AllRead`): the condition behind it is what `Reading` says (`ReadBehind`), and what the loop adds
  there to any comparisons on the left of it, not under a NOT, makes of them what `Reading` says of the
  longer condition (`ReadFrom`); the step is `ReadingLogic`, that the last connective not under a NOT
  is the root.

Three properties were wrong in texts longer than the run had, which attempts to prove them showed:

* `ConditionsReadLeftToRight`: the part before a connective may end in an operator that has no operand,
  and the operator then takes `OR` as the name of a field (`b=1* OR b=1`), so that no connective is left;
  `WellFormed` excludes it.
* `TreeSurvives`: a join column whose two parts are no names (`1 . *`) is printed as something else
  (`Sayable`), and a NOT ends before a part that is no comparison (`NOT a=1 AND b OR a=1`), but is printed
  as one over all that follows (`WellFormed`).
* `PrintedTextIsStable`: parentheses are not printed, so that `(NOT)=1`, a field, is printed as
  `NOT = 1`, which does not parse, and the argument of `b((')'))` is printed first in its list, where the
  parser takes the string for the end of it (`Sayable`).

The run has these texts now.  Outside of the runs, 45,000 longer random texts with many of these
words showed no others.

### Only model-checked

* liveness (`InboxDrains`, `EveryChainEnds`, `ListedStatesCatchUp`, `ControlsComeBack`): the prover has
  neither `ENABLED` nor fairness;
* `PrintedTextIsStable` and `TreeSurvives`.  Both relate the text of a tree to the tokens that are made
  of it again; a proof needs, for each kind of token, that its text followed by any of its possible
  neighbours is one token, and an induction over trees that keep no parentheses, on top of what is proved
  here.  The lemmas on the lexer and on the parser are the ground for it.  What a missing parenthesis
  brings together is what was wrong with these properties, so that their run has texts of all the cases
  above.

## 5. What is left

In the order in which it would add most:

1. the query engine beyond the pipeline of `Scripts`: conditions and their evaluation, ORDER BY, joins,
   UPDATE and UPSERT, variables, functions and procedures; pure functions over rows, to be checked
   against reference definitions like `Language`;
2. the templates of the statements (`SQLLanguageParser`, `SQLTemplateParams`), which decide what text
   becomes which statement;
3. the directory device, the statistics generator, and the JDBC source's update-or-insert;
4. `ScheduledEvent`: the run times over a cyclic day.

Not modelled, and why:

* feed, workflow and trigger routes of the supervisor: reads, and upserts of single documents that no
  other part looks at;
* the supervisor's start-up: the registration of the routes and the connection to the database;
* `KafkaMessageStream`: nothing starts it, and what it would do is Kafka's;
* `storeFile` and `moveFile` of the file manager: no part of the program sends their messages;
* the command line: one script, executed once, which `Scripts` has as its single run;
* the Spark examples, and the JavaScript files `*-fastopt.js`, which the Scala.js compiler makes of
  `app/js`: the map names the Scala sources, where a reader finds the code.
