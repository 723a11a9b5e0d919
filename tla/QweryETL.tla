------------------------------ MODULE QweryETL ------------------------------
(***************************************************************************)
(* The ETL workers, the supervisor and what travels between them.          *)
(*                                                                         *)
(* A worker watches the inbox of its home, posts a job for every accepted  *)
(* file, and every 30 seconds starts a "chain": check out a job, process   *)
(* it, look for the next one, until none is left.  Every call is an Akka   *)
(* ask with a timeout around an HTTP request.  The request of an ask that  *)
(* timed out, or whose worker crashed, is not withdrawn: it may still be   *)
(* carried out by the supervisor later ("abandoned").                      *)
(***************************************************************************)
EXTENDS JobStore, FileMoving, Naturals

CONSTANTS
  Chain,          (* checkForJobs chains that may be under way            *)
  NoChain,
  WorkerOf,       (* the worker a chain belongs to                        *)
  HomeOf,         (* the home of a worker; workers may share one          *)
  Accepts,        (* the file names a worker's triggers accept            *)
  FaultKinds,     (* the kinds of fault that may happen                   *)
  MaxFaults,      (* bound on the faults of a behaviour                   *)
  MaxTicks,       (* bound on the refresh-timer ticks of a behaviour      *)
  ControlAnswers, (* states a worker may answer to pause, resume, stop    *)
  MaxControls     (* bound on the pause/resume/stop calls of a behaviour  *)

ASSUME EtlAssumption ==
  /\ NoChain \notin Chain
  /\ WorkerOf \in [Chain -> Worker]
  /\ HomeOf \in [Worker -> Home]
  /\ Accepts \in [Worker -> SUBSET Name]
  /\ FaultKinds \subseteq {"lose", "error", "late", "overrun", "crash", "io"}
  /\ MaxFaults \in Nat
  /\ MaxTicks \in Nat
  /\ ControlAnswers \subseteq {"QUEUED", "RUNNING", "PAUSED", "STOPPED"}
  /\ MaxControls \in Nat

VARIABLES
  \* the users' side of the inbox
  nameOf,      (* the name each dropped upload has                         *)
  writing,     (* uploads still being written                              *)
  \* workers
  reg,         (* progress of registerAsSlave; slaveID_? is set in "slave" *)
  events,      (* directory events a worker has not handled                *)
  pc,          (* what a chain waits for                                   *)
  held,        (* the job a chain processes                                *)
  reply,       (* whether the ask of a chain was answered                  *)
  sources,     (* jobs whose sources are in the root scope of a chain      *)
  runBy,       (* the chain that took a job                                *)
  outcomes,    (* outcomes whose own callback has not run yet              *)
  timers,      (* jobs whose refreshCycle is on                            *)
  script,      (* the run of a job's script in the workflow actor          *)
  \* requests in flight
  registering, creates, checkouts, updates, posts, controls,
  \* bounds
  faults, ticks, controlled

workerVars == <<reg, events, pc, held, reply, sources, runBy, outcomes, timers, script>>
requestVars == <<registering, creates, checkouts, updates, posts, controls>>
chainVars == <<pc, held, reply>>
userVars == <<nameOf, writing>>
boundVars == <<faults, ticks, controlled>>
vars == <<jobs, slaves, fileVars, userVars, workerVars, requestVars, boundVars>>

Waits == {"checkout", "running", "script", "success", "stats", "failed", "stopped"}
ScriptState == {"none", "queued", "executing", "returned", "threw", "killed"}
EventKind == {"CREATE", "MODIFY", "EXISTING"}

\* What a worker has still to handle: the events of its watch and, once, the
\* listing of the inbox that registerWatch ends with.
Listing == [name |-> NoName, kind |-> "LISTING"]
Event == [name : Name, kind : EventKind] \union {Listing}

\* "ask" is 0 while a chain waits for the answer; a request nobody waits for
\* has the number of the fault that abandoned it, or of the refresh tick.
CreateRequest == [job : Job, input : Name, slave : Worker \union {NoWorker}]
CheckoutRequest == [chain : Chain, ask : Nat]
UpdateRequest == [chain : Chain, job : Job, state : JobState, ask : Nat]
PostRequest == [chain : Chain, job : Job, of : SUBSET Job, ask : Nat]
ControlRequest == [job : Job, state : JobState, call : Nat]

\* Every variable has its type: a file being written has a name, and a refresh
\* timer a chain whose root scope it reports.
TypeOK ==
  /\ StoreTypeOK
  /\ FileTypeOK
  /\ nameOf \in [Upload -> Name \union {NoName}]
  /\ writing \subseteq {u \in Upload : nameOf[u] \in Name}
  /\ reg \in [Worker -> {"down", "asked", "answered", "slave", "silent"}]
  /\ events \in [Worker -> SUBSET Event]
  /\ pc \in [Chain -> Waits \union {"idle"}]
  /\ held \in [Chain -> Job \union {NoJob}]
  /\ reply \in [Chain -> {"waiting", "empty", "done"}]
  /\ sources \in [Chain -> SUBSET Job]
  /\ runBy \in [Job -> Chain \union {NoChain}]
  /\ outcomes \subseteq [job : Job, to : {"archive", "failed"}]
  /\ timers \subseteq {j \in Job : runBy[j] \in Chain}
  /\ script \in [Job -> ScriptState]
  /\ registering \subseteq Worker
  /\ creates \subseteq CreateRequest
  /\ checkouts \subseteq CheckoutRequest
  /\ updates \subseteq UpdateRequest
  /\ posts \subseteq PostRequest
  /\ controls \subseteq ControlRequest
  /\ faults \in 0 .. MaxFaults
  /\ ticks \in 0 .. MaxTicks
  /\ controlled \in 0 .. MaxControls

Init ==
  /\ StoreInit
  /\ FileInit
  /\ nameOf = [u \in Upload |-> NoName]
  /\ writing = {}
  /\ reg = [w \in Worker |-> "down"]
  /\ events = [w \in Worker |-> {}]
  /\ pc = [c \in Chain |-> "idle"]
  /\ held = [c \in Chain |-> NoJob]
  /\ reply = [c \in Chain |-> "waiting"]
  /\ sources = [c \in Chain |-> {}]
  /\ runBy = [j \in Job |-> NoChain]
  /\ outcomes = {}
  /\ timers = {}
  /\ script = [j \in Job |-> "none"]
  /\ registering = {} /\ creates = {} /\ checkouts = {}
  /\ updates = {} /\ posts = {} /\ controls = {}
  /\ faults = 0 /\ ticks = 0 /\ controlled = 0

-----------------------------------------------------------------------------
(* Vocabulary *)

HomeOfChain(c) == HomeOf[WorkerOf[c]]
Up(w) == reg[w] # "down"
ChainsOf(w) == {c \in Chain : WorkerOf[c] = w}
JobsRunBy(w) == {j \in Job : runBy[j] # NoChain /\ WorkerOf[runBy[j]] = w}
ScriptActive(j) == script[j] \in {"queued", "executing"}

Fault(kind) ==
  /\ kind \in FaultKinds
  /\ faults < MaxFaults
  /\ faults' = faults + 1

\* The requests nobody waits for any longer once the asks of cs are given up.
Abandon(requests, cs) ==
  {IF r.chain \in cs /\ r.ask = 0 THEN [r EXCEPT !.ask = faults + 1] ELSE r : r \in requests}

\* An update or a statistics call of the chain's processJob is under way.
Outstanding(c) ==
  \/ \E r \in checkouts : r.chain = c /\ r.ask = 0
  \/ \E r \in updates : r.chain = c /\ r.ask = 0
  \/ \E r \in posts : r.chain = c /\ r.ask = 0

\* No answer will ever come: the request was lost or was answered with a body
\* that is no JSON (reflect sends nothing on a failed future), or the script
\* threw (the workflow actor restarts without replying).
Silent(c) ==
  /\ reply[c] = "waiting"
  /\ ~Outstanding(c)
  /\ pc[c] = "script" => ~ScriptActive(held[c])

\* The ask of chain c reaches its timeout, in vain or too early.
AskTimesOut(c) ==
  /\ pc[c] # "idle"
  /\ IF Silent(c)
     THEN UNCHANGED faults
     ELSE Fault(IF pc[c] = "script" /\ ScriptActive(held[c]) THEN "overrun" ELSE "late")

Await(c, p) ==
  /\ pc' = [pc EXCEPT ![c] = p]
  /\ reply' = [reply EXCEPT ![c] = "waiting"]

\* updateJobState, after giving up what the chain asked before.
AskUpdate(c, state) ==
  updates' = Abandon(updates, {c}) \union
               {[chain |-> c, job |-> held[c], state |-> state, ask |-> 0]}

\* checkForJobs: slaveID_? is set in every chain that runs.
AskCheckout(c) ==
  /\ Await(c, "checkout")
  /\ held' = [held EXCEPT ![c] = NoJob]
  /\ checkouts' = Abandon(checkouts, {c}) \union {[chain |-> c, ask |-> 0]}

-----------------------------------------------------------------------------
(* The users of the inbox *)

WatchersOf(h) == {w \in Worker : Up(w) /\ HomeOf[w] = h}

Notify(h, n, kind) ==
  events' = [w \in Worker |->
    IF w \in WatchersOf(h) THEN events[w] \union {[name |-> n, kind |-> kind]} ELSE events[w]]

\* A user starts writing a file into an inbox.
DropFile(h, n, u) ==
  /\ nameOf[u] = NoName
  /\ inbox[h][n] = NoUpload
  /\ nameOf' = [nameOf EXCEPT ![u] = n]
  /\ writing' = writing \union {u}
  /\ inbox' = [inbox EXCEPT ![h][n] = u]
  /\ Notify(h, n, "CREATE")
  /\ UNCHANGED <<jobs, slaves, areas, reg, chainVars, sources, runBy, outcomes, timers, script,
                 requestVars, boundVars>>

\* The last write; where the file was moved out of the inbox meanwhile, the
\* writer goes on in the moved file and no watch sees it.
FinishWriting(u) ==
  /\ u \in writing
  /\ writing' = writing \ {u}
  /\ \/ \E h \in Home : inbox[h][nameOf[u]] = u /\ Notify(h, nameOf[u], "MODIFY")
     \/ /\ \A h \in Home : inbox[h][nameOf[u]] # u
        /\ UNCHANGED events
  /\ UNCHANGED <<jobs, slaves, fileVars, nameOf, reg, chainVars, sources, runBy, outcomes, timers,
                 script, requestVars, boundVars>>

-----------------------------------------------------------------------------
(* The worker: start, registration, inbox watch *)

\* (mutant) the watch is registered and the inbox is not listed.
StartBlind(w) ==
  /\ reg[w] = "down"
  /\ reg' = [reg EXCEPT ![w] = "asked"]
  /\ registering' = registering \union {w}
  /\ UNCHANGED <<jobs, slaves, fileVars, userVars, events, chainVars, sources, runBy, outcomes,
                 timers, script, creates, checkouts, updates, posts, controls, boundVars>>

\* run(): the file manager registers the watch and will list the inbox;
\* registerAsSlave asks the supervisor, once.
Start(w) ==
  /\ reg[w] = "down"
  /\ reg' = [reg EXCEPT ![w] = "asked"]
  /\ registering' = registering \union {w}
  /\ events' = [events EXCEPT ![w] = {Listing}]
  /\ UNCHANGED <<jobs, slaves, fileVars, userVars, chainVars, sources, runBy, outcomes, timers, script,
                 creates, checkouts, updates, posts, controls, boundVars>>

\* The files already in the inbox go to the callback, as those do which
\* arrived since the watch was registered and have an event as well.
ListInbox(w) ==
  /\ Listing \in events[w]
  /\ events' = [events EXCEPT ![w] = (@ \ {Listing}) \union
       {[name |-> n, kind |-> "EXISTING"] : n \in {m \in Name : inbox[HomeOf[w]][m] # NoUpload}}]
  /\ UNCHANGED <<jobs, slaves, fileVars, userVars, reg, chainVars, sources, runBy, outcomes, timers,
                 script, requestVars, boundVars>>

OnRegistered(w) ==
  /\ reg[w] = "answered"
  /\ reg' = [reg EXCEPT ![w] = "slave"]
  /\ UNCHANGED <<jobs, slaves, fileVars, userVars, events, chainVars, sources, runBy, outcomes, timers,
                 script, requestVars, boundVars>>

\* Nothing asks again: the worker watches its inbox but never checks out.
RegistrationTimesOut(w) ==
  /\ reg[w] \in {"asked", "answered"}
  /\ IF reg[w] = "asked" /\ w \notin registering THEN UNCHANGED faults ELSE Fault("late")
  /\ reg' = [reg EXCEPT ![w] = "silent"]
  /\ UNCHANGED <<jobs, slaves, fileVars, userVars, events, chainVars, sources, runBy, outcomes, timers,
                 script, requestVars, ticks, controlled>>

\* One event of the watch: lookupTrigger, and scheduleJob where a trigger
\* accepts the name.  Whether the file is still there, or another event of it
\* already made a job, is not looked at.  The document carries slaveID_?; the
\* object ID the database will give it is chosen here, fresh.
HandleEvent(w, e) ==
  /\ Up(w)
  /\ e \in events[w] \ {Listing}
  /\ events' = [events EXCEPT ![w] = @ \ {e}]
  /\ IF e.name \in Accepts[w]
     THEN \E j \in Job :
            /\ ~Exists(j)
            /\ \A r \in creates : r.job # j
            /\ creates' = creates \union
                 {[job |-> j, input |-> e.name, slave |-> IF reg[w] = "slave" THEN w ELSE NoWorker]}
     ELSE UNCHANGED creates
  /\ UNCHANGED <<jobs, slaves, fileVars, userVars, reg, chainVars, sources, runBy, outcomes, timers,
                 script, registering, checkouts, updates, posts, controls, boundVars>>

-----------------------------------------------------------------------------
(* The worker: chains *)

\* The 30-second tick, with a new root scope.  A chain of the model is used
\* again once nothing refers to its former root scope.
Tick(c) ==
  /\ reg[WorkerOf[c]] = "slave"
  /\ pc[c] = "idle"
  /\ \A j \in Job : runBy[j] = c =>
       j \notin timers /\ ~ScriptActive(j) /\ \A o \in outcomes : o.job # j
  /\ AskCheckout(c)
  /\ sources' = [sources EXCEPT ![c] = {}]
  /\ UNCHANGED <<jobs, slaves, fileVars, userVars, reg, events, runBy, outcomes, timers, script,
                 registering, creates, updates, posts, controls, boundVars>>

\* checkForJobs: Success(None), or the checkout's ask failed.  A job the
\* supervisor had claimed for the chain is then lost to it.
ChainEnds(c) ==
  /\ pc[c] = "checkout"
  /\ \/ reply[c] = "empty" /\ UNCHANGED faults
     \/ AskTimesOut(c)
  /\ Await(c, "idle")
  /\ held' = [held EXCEPT ![c] = NoJob]
  /\ checkouts' = Abandon(checkouts, {c})
  /\ UNCHANGED <<jobs, slaves, fileVars, userVars, reg, events, sources, runBy, outcomes, timers, script,
                 registering, creates, updates, posts, controls, ticks, controlled>>

\* processJob, the trigger is known and the file could be moved to work: the
\* refresh timer starts and RUNNING is reported.  The trigger is looked up by
\* the name scheduleJob gave the job, that of the trigger that accepted its
\* file: this worker has it if it accepts the file too.
TakeJob(c) ==
  LET h == HomeOfChain(c)
      n == jobs[held[c]].input
  IN  /\ pc[c] = "checkout" /\ reply[c] = "done"
      /\ n \in Accepts[WorkerOf[c]]
      /\ MoveToWork(h, held[c], n)
      /\ runBy' = [runBy EXCEPT ![held[c]] = c]
      /\ timers' = timers \union {held[c]}
      /\ Await(c, "running")
      /\ AskUpdate(c, "RUNNING")
      /\ UNCHANGED <<jobs, slaves, userVars, reg, events, held, sources, outcomes, script,
                     registering, creates, checkouts, posts, controls, boundVars>>

\* (mutant) the job is put back into the queue for another worker.
RejectJobRequeues(c) ==
  /\ pc[c] = "checkout" /\ reply[c] = "done"
  /\ ~(/\ jobs[held[c]].input \in Accepts[WorkerOf[c]]
       /\ CanMoveToWork(HomeOfChain(c), held[c], jobs[held[c]].input))
  /\ Await(c, "stopped")
  /\ AskUpdate(c, "NEW")
  /\ UNCHANGED <<jobs, slaves, fileVars, userVars, reg, events, held, sources, runBy, outcomes,
                 timers, script, registering, creates, checkouts, posts, controls, boundVars>>

\* processJob, no work file could be determined: STOPPED is reported.
RejectJob(c) ==
  LET h == HomeOfChain(c)
      n == jobs[held[c]].input
  IN  /\ pc[c] = "checkout" /\ reply[c] = "done"
      /\ \/ /\ ~(n \in Accepts[WorkerOf[c]] /\ CanMoveToWork(h, held[c], n))
            /\ UNCHANGED <<fileVars, faults>>
         \/ /\ n \in Accepts[WorkerOf[c]]
            /\ RenameToWorkFails(h, held[c], n)
            /\ Fault("io")
      /\ Await(c, "stopped")
      /\ AskUpdate(c, "STOPPED")
      /\ UNCHANGED <<jobs, slaves, userVars, reg, events, held, sources, runBy, outcomes, timers, script,
                     registering, creates, checkouts, posts, controls, ticks, controlled>>

\* (mutant) the outcome does not wait for the script.
OnRunningDetached(c) ==
  /\ pc[c] = "running" /\ reply[c] = "done"
  /\ script' = [script EXCEPT ![held[c]] = "queued"]
  /\ outcomes' = outcomes \union {[job |-> held[c], to |-> "archive"]}
  /\ AskCheckout(c)
  /\ UNCHANGED <<jobs, slaves, fileVars, userVars, reg, events, sources, runBy, timers,
                 registering, creates, updates, posts, controls, boundVars>>

\* RUNNING was answered: the workflow actor is asked to run the script.
OnRunning(c) ==
  /\ pc[c] = "running" /\ reply[c] = "done"
  /\ Await(c, "script")
  /\ script' = [script EXCEPT ![held[c]] = "queued"]
  /\ UNCHANGED <<jobs, slaves, fileVars, userVars, reg, events, held, sources, runBy, outcomes, timers,
                 requestVars, boundVars>>

\* The result set arrived: SUCCESS is reported.
OnResult(c) ==
  /\ pc[c] = "script" /\ reply[c] = "done"
  /\ Await(c, "success")
  /\ AskUpdate(c, "SUCCESS")
  /\ UNCHANGED <<jobs, slaves, fileVars, userVars, reg, events, held, sources, runBy, outcomes, timers,
                 script, registering, creates, checkouts, posts, controls, boundVars>>

\* SUCCESS was answered: the final statistics, of all sources of the scope.
OnSuccess(c) ==
  /\ pc[c] = "success" /\ reply[c] = "done"
  /\ Await(c, "stats")
  /\ posts' = posts \union {[chain |-> c, job |-> held[c], of |-> sources[c], ask |-> 0]}
  /\ UNCHANGED <<jobs, slaves, fileVars, userVars, reg, events, held, sources, runBy, outcomes, timers,
                 script, registering, creates, checkouts, updates, controls, boundVars>>

\* (mutant) the failure is recovered from before SUCCESS is reported.
ProcessingFailsSuccessfully(c) ==
  /\ pc[c] \in {"running", "script"}
  /\ AskTimesOut(c)
  /\ Await(c, "success")
  /\ AskUpdate(c, "SUCCESS")
  /\ UNCHANGED <<jobs, slaves, fileVars, userVars, reg, events, held, sources, runBy, outcomes,
                 timers, script, registering, creates, checkouts, posts, controls, ticks,
                 controlled>>

\* (mutant) FAILED is not reported.
ProcessingFailsUnreported(c) ==
  /\ pc[c] \in {"running", "script", "success"}
  /\ AskTimesOut(c)
  /\ AskCheckout(c)
  /\ updates' = Abandon(updates, {c})
  /\ UNCHANGED <<jobs, slaves, fileVars, userVars, reg, events, sources, runBy, outcomes, timers,
                 script, registering, creates, posts, controls, ticks, controlled>>

\* (mutant) a script that never answers is waited for without a timeout.
ProcessingFailsUnlessScript(c) ==
  /\ pc[c] \in {"running", "success"}
  /\ AskTimesOut(c)
  /\ Await(c, "failed")
  /\ AskUpdate(c, "FAILED")
  /\ UNCHANGED <<jobs, slaves, fileVars, userVars, reg, events, held, sources, runBy, outcomes,
                 timers, script, registering, creates, checkouts, posts, controls, ticks,
                 controlled>>

\* recoverWith: the RUNNING call, the script or the SUCCESS call failed, which
\* all show as a timeout, and FAILED is reported.
ProcessingFails(c) ==
  /\ pc[c] \in {"running", "script", "success"}
  /\ AskTimesOut(c)
  /\ Await(c, "failed")
  /\ AskUpdate(c, "FAILED")
  /\ UNCHANGED <<jobs, slaves, fileVars, userVars, reg, events, held, sources, runBy, outcomes, timers,
                 script, registering, creates, checkouts, posts, controls, ticks, controlled>>

\* The outcome is a Success: the final statistics were answered or given up,
\* or FAILED was answered.  The chain looks for another job, in a callback of
\* its own that does not wait for ArchiveFile.
OutcomeSucceeds(c) ==
  /\ \/ pc[c] \in {"stats", "failed"} /\ reply[c] = "done" /\ UNCHANGED faults
     \/ pc[c] = "stats" /\ AskTimesOut(c)
  /\ outcomes' = outcomes \union {[job |-> held[c], to |-> "archive"]}
  /\ AskCheckout(c)
  /\ posts' = Abandon(posts, {c})
  /\ UNCHANGED <<jobs, slaves, fileVars, userVars, reg, events, sources, runBy, timers, script,
                 registering, creates, updates, controls, ticks, controlled>>

\* The outcome is a Failure: FAILED was not answered in time.
OutcomeFails(c) ==
  /\ pc[c] = "failed"
  /\ AskTimesOut(c)
  /\ outcomes' = outcomes \union {[job |-> held[c], to |-> "failed"]}
  /\ AskCheckout(c)
  /\ updates' = Abandon(updates, {c})
  /\ UNCHANGED <<jobs, slaves, fileVars, userVars, reg, events, sources, runBy, timers, script,
                 registering, creates, posts, controls, ticks, controlled>>

\* (mutant) the timer is not cancelled.
ArchiveFileTimerOn(j) ==
  /\ [job |-> j, to |-> "archive"] \in outcomes
  /\ outcomes' = outcomes \ {[job |-> j, to |-> "archive"]}
  /\ MoveToArchive(HomeOfChain(runBy[j]), j)
  /\ UNCHANGED <<jobs, slaves, userVars, reg, events, chainVars, sources, runBy, timers, script,
                 requestVars, boundVars>>

\* The outcome's own callback, Success: the timer is cancelled and the file
\* archived (or, on an I/O error, left in work).
ArchiveFile(j) ==
  /\ [job |-> j, to |-> "archive"] \in outcomes
  /\ outcomes' = outcomes \ {[job |-> j, to |-> "archive"]}
  /\ timers' = timers \ {j}
  /\ \/ MoveToArchive(HomeOfChain(runBy[j]), j) /\ UNCHANGED faults
     \/ Fault("io") /\ UNCHANGED fileVars
  /\ UNCHANGED <<jobs, slaves, userVars, reg, events, chainVars, sources, runBy, script,
                 requestVars, ticks, controlled>>

\* The outcome's own callback, Failure: the file goes to the failed area (or,
\* on an I/O error, stays in work) and the timer stays on.
FileFails(j) ==
  /\ [job |-> j, to |-> "failed"] \in outcomes
  /\ outcomes' = outcomes \ {[job |-> j, to |-> "failed"]}
  /\ \/ MoveToFailed(HomeOfChain(runBy[j]), j) /\ UNCHANGED faults
     \/ RenameToFailedFails(HomeOfChain(runBy[j]), j) /\ Fault("io")
  /\ UNCHANGED <<jobs, slaves, userVars, reg, events, chainVars, sources, runBy, timers, script,
                 requestVars, ticks, controlled>>

\* STOPPED was answered or given up.
StoppedEnds(c) ==
  /\ pc[c] = "stopped"
  /\ \/ reply[c] = "done" /\ UNCHANGED faults
     \/ AskTimesOut(c)
  /\ AskCheckout(c)
  /\ updates' = Abandon(updates, {c})
  /\ UNCHANGED <<jobs, slaves, fileVars, userVars, reg, events, sources, runBy, outcomes, timers, script,
                 registering, creates, posts, controls, ticks, controlled>>

\* One run of refreshCycle: the statistics of the whole root scope of the
\* chain that took the job, posted under the job's ID; no one waits.
RefreshCycle(j) ==
  /\ j \in timers
  /\ ticks < MaxTicks
  /\ ticks' = ticks + 1
  /\ posts' = posts \union
       {[chain |-> runBy[j], job |-> j, of |-> sources[runBy[j]], ask |-> ticks + 1]}
  /\ UNCHANGED <<jobs, slaves, fileVars, userVars, workerVars,
                 registering, creates, checkouts, updates, controls, faults, controlled>>

-----------------------------------------------------------------------------
(* The workflow actors *)

\* An actor of the pool takes the message: the script opens its sources,
\* which register with the root scope.
ScriptStarts(j) ==
  /\ script[j] = "queued"
  /\ script' = [script EXCEPT ![j] = "executing"]
  /\ sources' = [sources EXCEPT ![runBy[j]] = @ \union {j}]
  /\ UNCHANGED <<jobs, slaves, fileVars, userVars, reg, events, chainVars, runBy, outcomes, timers,
                 requestVars, boundVars>>

\* The script runs to its end; the reply counts where its ask still waits.
ScriptReturns(j) ==
  /\ script[j] = "executing"
  /\ script' = [script EXCEPT ![j] = "returned"]
  /\ reply' = [c \in Chain |->
       IF pc[c] = "script" /\ held[c] = j THEN "done" ELSE reply[c]]
  /\ UNCHANGED <<jobs, slaves, fileVars, userVars, reg, events, pc, held, sources, runBy, outcomes,
                 timers, requestVars, boundVars>>

ScriptThrows(j) ==
  /\ script[j] = "executing"
  /\ script' = [script EXCEPT ![j] = "threw"]
  /\ UNCHANGED <<jobs, slaves, fileVars, userVars, reg, events, chainVars, sources, runBy, outcomes,
                 timers, requestVars, boundVars>>

-----------------------------------------------------------------------------
(* The supervisor: one route per kind of request *)

Answer(r, value) ==
  reply' = IF r.ask = 0 THEN [reply EXCEPT ![r.chain] = value] ELSE reply

\* POST /api/slave
HandleRegister(w) ==
  /\ w \in registering
  /\ registering' = registering \ {w}
  /\ UpsertSlave(w)
  /\ reg' = IF reg[w] = "asked" THEN [reg EXCEPT ![w] = "answered"] ELSE reg
  /\ UNCHANGED <<jobs, fileVars, userVars, events, chainVars, sources, runBy, outcomes, timers, script,
                 creates, checkouts, updates, posts, controls, boundVars>>

\* POST /api/jobs
HandleCreate(r) ==
  /\ r \in creates
  /\ creates' = creates \ {r}
  /\ CreateJob(r.job, r.input, r.slave)
  /\ UNCHANGED <<slaves, fileVars, userVars, workerVars, registering, checkouts, updates,
                 posts, controls, boundVars>>

\* PATCH /api/jobs/checkout/:slaveID
HandleCheckout(r) ==
  /\ r \in checkouts
  /\ WorkerOf[r.chain] \in slaves
  /\ checkouts' = checkouts \ {r}
  /\ \/ \E j \in Job :
          /\ CheckoutJob(j, WorkerOf[r.chain])
          /\ held' = IF r.ask = 0 THEN [held EXCEPT ![r.chain] = j] ELSE held
          /\ Answer(r, "done")
     \/ /\ \A j \in Job : jobs[j].state # "NEW"
        /\ Answer(r, "empty")
        /\ UNCHANGED <<jobs, held>>
  /\ UNCHANGED <<slaves, fileVars, userVars, reg, events, pc, sources, runBy, outcomes, timers, script,
                 registering, creates, updates, posts, controls, boundVars>>

\* PATCH /api/job/:id/state/:state
HandleUpdate(r) ==
  /\ r \in updates
  /\ updates' = updates \ {r}
  /\ ChangeState(r.job, r.state)
  /\ Answer(r, "done")
  /\ UNCHANGED <<slaves, fileVars, userVars, reg, events, pc, held, sources, runBy, outcomes, timers,
                 script, registering, creates, checkouts, posts, controls, boundVars>>

\* PATCH /api/job/:id/statistics
HandlePost(r) ==
  /\ r \in posts
  /\ posts' = posts \ {r}
  /\ UpdateStatistics(r.job, r.of)
  /\ Answer(r, "done")
  /\ UNCHANGED <<slaves, fileVars, userVars, reg, events, pc, held, sources, runBy, outcomes, timers,
                 script, registering, creates, checkouts, updates, controls, boundVars>>

\* (mutant) the calls are offered for every job.
WorkerAnswersControlAnyJob(j, state) ==
  /\ Exists(j)
  /\ controlled < MaxControls
  /\ controlled' = controlled + 1
  /\ controls' = controls \union {[job |-> j, state |-> state, call |-> controlled]}
  /\ UNCHANGED <<jobs, slaves, fileVars, userVars, workerVars, registering, creates, checkouts,
                 updates, posts, faults, ticks>>

\* GET /api/job/:jobID/(pause|resume|stop)/:slaveID, up to the worker's
\* answer: its control endpoint is not part of this repository.  The route
\* looks at no state, but the client offers the calls for a job it has seen
\* running, paused or stopped, and it names the job's slave.
WorkerAnswersControl(j, state) ==
  /\ jobs[j].state \in {"RUNNING", "PAUSED", "STOPPED"}
  /\ jobs[j].slaveID \in slaves
  /\ controlled < MaxControls
  /\ controlled' = controlled + 1
  /\ controls' = controls \union {[job |-> j, state |-> state, call |-> controlled]}
  /\ UNCHANGED <<jobs, slaves, fileVars, userVars, workerVars, registering, creates, checkouts,
                 updates, posts, faults, ticks>>

\* jobManagement writes the state of the answer, whatever happened since.
HandleControl(r) ==
  /\ r \in controls
  /\ controls' = controls \ {r}
  /\ ChangeState(r.job, r.state)
  /\ UNCHANGED <<slaves, fileVars, userVars, workerVars, registering, creates, checkouts,
                 updates, posts, boundVars>>

-----------------------------------------------------------------------------
(* Faults *)

\* A request is lost, or answered with an error page that is no JSON.
RequestLost ==
  /\ Fault("lose")
  /\ \/ \E w \in registering : registering' = registering \ {w}
        /\ UNCHANGED <<creates, checkouts, updates, posts, controls>>
     \/ \E r \in creates : creates' = creates \ {r}
        /\ UNCHANGED <<registering, checkouts, updates, posts, controls>>
     \/ \E r \in checkouts : checkouts' = checkouts \ {r}
        /\ UNCHANGED <<registering, creates, updates, posts, controls>>
     \/ \E r \in updates : updates' = updates \ {r}
        /\ UNCHANGED <<registering, creates, checkouts, posts, controls>>
     \/ \E r \in posts : posts' = posts \ {r}
        /\ UNCHANGED <<registering, creates, checkouts, updates, controls>>
     \/ \E r \in controls : controls' = controls \ {r}
        /\ UNCHANGED <<registering, creates, checkouts, updates, posts>>
  /\ UNCHANGED <<jobs, slaves, fileVars, userVars, workerVars, ticks, controlled>>

\* The database fails and the error comes back as JSON that is no list of
\* jobs: the worker reads None, which it takes for "no job" after a checkout
\* and for an answer like any other after an update.
RequestFails ==
  /\ Fault("error")
  /\ \/ \E r \in checkouts : checkouts' = checkouts \ {r} /\ Answer(r, "empty")
        /\ UNCHANGED <<updates, posts>>
     \/ \E r \in updates : updates' = updates \ {r} /\ Answer(r, "done")
        /\ UNCHANGED <<checkouts, posts>>
     \/ \E r \in posts : posts' = posts \ {r} /\ Answer(r, "done")
        /\ UNCHANGED <<checkouts, updates>>
  /\ UNCHANGED <<jobs, slaves, fileVars, userVars, reg, events, pc, held, sources, runBy, outcomes, timers,
                 script, registering, creates, controls, ticks, controlled>>

\* The worker process dies: only its directories and what it had sent remain.
Crash(w) ==
  LET mine == ChainsOf(w)
  IN  /\ Up(w)
      /\ Fault("crash")
      /\ reg' = [reg EXCEPT ![w] = "down"]
      /\ events' = [events EXCEPT ![w] = {}]
      /\ pc' = [c \in Chain |-> IF c \in mine THEN "idle" ELSE pc[c]]
      /\ held' = [c \in Chain |-> IF c \in mine THEN NoJob ELSE held[c]]
      /\ reply' = [c \in Chain |-> IF c \in mine THEN "waiting" ELSE reply[c]]
      /\ outcomes' = {o \in outcomes : o.job \notin JobsRunBy(w)}
      /\ timers' = timers \ JobsRunBy(w)
      /\ script' = [j \in Job |->
           IF j \in JobsRunBy(w) /\ ScriptActive(j) THEN "killed" ELSE script[j]]
      /\ checkouts' = Abandon(checkouts, mine)
      /\ updates' = Abandon(updates, mine)
      /\ posts' = Abandon(posts, mine)
      /\ UNCHANGED <<jobs, slaves, fileVars, userVars, sources, runBy, registering, creates,
                     controls, ticks, controlled>>

-----------------------------------------------------------------------------
(* Specification *)

ChainStep(c) ==
  \/ ChainEnds(c)
  \/ TakeJob(c)
  \/ RejectJob(c)
  \/ OnRunning(c)
  \/ OnResult(c)
  \/ OnSuccess(c)
  \/ ProcessingFails(c)
  \/ OutcomeSucceeds(c)
  \/ OutcomeFails(c)
  \/ StoppedEnds(c)

SupervisorStep ==
  \/ \E w \in Worker : HandleRegister(w)
  \/ \E r \in creates : HandleCreate(r)
  \/ \E r \in checkouts : HandleCheckout(r)
  \/ \E r \in updates : HandleUpdate(r)
  \/ \E r \in posts : HandlePost(r)
  \/ \E j \in Job, s \in ControlAnswers : WorkerAnswersControl(j, s)
  \/ \E r \in controls : HandleControl(r)

Next ==
  \/ \E h \in Home, n \in Name, u \in Upload : DropFile(h, n, u)
  \/ \E u \in Upload : FinishWriting(u)
  \/ \E w \in Worker :
       \/ Start(w) \/ ListInbox(w) \/ OnRegistered(w) \/ RegistrationTimesOut(w) \/ Crash(w)
       \/ \E e \in events[w] : HandleEvent(w, e)
  \/ \E c \in Chain : Tick(c) \/ ChainStep(c)
  \/ \E j \in Job : ArchiveFile(j) \/ FileFails(j) \/ RefreshCycle(j)
  \/ \E j \in Job : ScriptStarts(j) \/ ScriptReturns(j) \/ ScriptThrows(j)
  \/ SupervisorStep
  \/ RequestLost
  \/ RequestFails

Spec == Init /\ [][Next]_vars

\* Workers are started, timers fire, actors and routes handle what they were
\* sent, scripts end.  Nothing makes a user act or a fault happen.
Fairness ==
  /\ \A w \in Worker :
       /\ WF_vars(Start(w))
       /\ WF_vars(HandleRegister(w))
       /\ WF_vars(ListInbox(w))
       /\ WF_vars(OnRegistered(w))
       /\ WF_vars(\E e \in events[w] : HandleEvent(w, e))
  /\ \A c \in Chain :
       /\ WF_vars(Tick(c))
       /\ WF_vars(ChainStep(c) /\ UNCHANGED faults)
       /\ WF_vars(\E r \in checkouts : r.chain = c /\ HandleCheckout(r))
       /\ WF_vars(\E r \in updates : r.chain = c /\ HandleUpdate(r))
       /\ WF_vars(\E r \in posts : r.chain = c /\ HandlePost(r))
  /\ \A j \in Job :
       /\ WF_vars(\E r \in creates : r.job = j /\ HandleCreate(r))
       /\ WF_vars(ArchiveFile(j) /\ UNCHANGED faults)
       /\ WF_vars(FileFails(j) /\ UNCHANGED faults)
       /\ WF_vars(ScriptStarts(j))
       /\ WF_vars(ScriptReturns(j) \/ ScriptThrows(j))

FairSpec == Spec /\ Fairness
=============================================================================
