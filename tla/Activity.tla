------------------------------- MODULE Activity -------------------------------
(***************************************************************************)
(* The supervisor and its web clients: the routes write to the store and   *)
(* broadcast what they wrote; a browser's page loads the jobs and slaves,  *)
(* applies broadcasts, refreshes its jobs every three minutes, and pauses, *)
(* resumes and stops jobs.  How a broadcast reaches a page is Broadcast's  *)
(* subject; here it may arrive late, out of order, or never.               *)
(***************************************************************************)
EXTENDS JobStore, Naturals, FiniteSets

CONSTANTS
  Browser,         (* browsers with the web client open                   *)
  ControlAnswers,  (* states a worker may answer a control call with      *)
  MaxWrites,       (* (bound) database writes                             *)
  MaxSnapshots,    (* (bound) refreshes of a page in flight               *)
  MaxFaults        (* (bound) failed GET calls of pages                   *)

ASSUME ActivityAssumption ==
  /\ ControlAnswers \subseteq JobState
  /\ {MaxWrites, MaxSnapshots, MaxFaults} \subseteq Nat

VARIABLES
  writes,     (* how many database writes there were                      *)
  transit,    (* what was broadcast and may still reach a page            *)
  page,       (* $scope of each browser                                   *)
  loading,    (* how far init() of a page is, and what it has             *)
  snapshots,  (* answers to refreshJobs on their way to a page            *)
  calls,      (* pause, resume and stop calls in flight                   *)
  faults

storeVars == <<jobs, slaves>>
clientVars == <<page, loading, snapshots, calls, faults>>
vars == <<storeVars, writes, transit, clientVars>>

\* JobStates.values: what GET /api/jobs returns unless other states are named.
RefreshedState == {"NEW", "QUEUED", "RUNNING", "STOPPED", "SUCCESS"}

\* What a page has of a job; ABSENT where it has none.
JobView == [state : JobState \union {"ABSENT"}, slaveID : Worker \union {NoWorker}]
Unlisted == [state |-> "ABSENT", slaveID |-> NoWorker]

\* The jobs of a page or of a message, by ID.
JobList == [Job -> JobView]
NoJobs == [j \in Job |-> Unlisted]
Only(j, view) == [NoJobs EXCEPT ![j] = view]

\* lists[w][j] is job j in slave.jobs of w: SHARED when it is the very object
\* of $scope.jobs, a state when it is another object.
Page ==
  [ jobs   : JobList,
    slaves : SUBSET Worker,
    lists  : [Worker -> [Job -> JobState \union {"ABSENT", "SHARED"}]],
    busy   : SUBSET {"pause", "resume", "stop"} ]

NoLists == [w \in Worker |-> [j \in Job |-> "ABSENT"]]

\* JOB_UPDATE carries a job, SLAVE_UPDATE (job = NoJob) a slave.
Message ==
  [job : Job, view : JobView] \union
  [job : {NoJob}, view : [state : {"ABSENT"}, slaveID : Worker]]

Call ==
  [ browser : Browser, op : {"pause", "resume", "stop"}, job : Job, slave : Worker,
    answer : JobState \union {"waiting"} ]

Loading ==
  [ stage : {"slaves", "jobs", "data", "done"}, slaves : SUBSET Worker, jobs : JobList ]

TypeOK ==
  /\ StoreTypeOK
  /\ writes \in 0..MaxWrites
  /\ transit \in [Browser -> SUBSET [n : 1..MaxWrites, message : Message]]
  /\ page \in [Browser -> Page]
  /\ loading \in [Browser -> Loading]
  /\ snapshots \in [Browser -> SUBSET JobList]
  /\ calls \subseteq Call
  /\ faults \in 0..MaxFaults

\* What earlier writes may have left in the store: a job that was checked out
\* has the slaveID of a registered slave, and nothing removes a slave.
EarlierJob ==
  {Unlisted} \union [state : {"NEW"}, slaveID : slaves \union {NoWorker}]
             \union [state : JobState \ {"NEW"}, slaveID : slaves]

EarlierStore ==
  /\ slaves \in SUBSET Worker
  /\ \E earlier \in [Job -> EarlierJob] :
       jobs = [j \in Job |->
         [state |-> earlier[j].state, slaveID |-> earlier[j].slaveID,
          input |-> NoName, statistics |-> {}]]

\* The web clients are opened over a store that is in use.
Init ==
  /\ EarlierStore
  /\ writes = 0
  /\ transit = [b \in Browser |-> {}]
  /\ page = [b \in Browser |->
       [jobs |-> NoJobs, slaves |-> {}, lists |-> NoLists, busy |-> {}]]
  /\ loading = [b \in Browser |-> [stage |-> "slaves", slaves |-> {}, jobs |-> NoJobs]]
  /\ snapshots = [b \in Browser |-> {}]
  /\ calls = {}
  /\ faults = 0

View(doc) == [state |-> doc.state, slaveID |-> doc.slaveID]

\* findByState(JobStates.values)
Snapshot ==
  [j \in Job |-> IF jobs[j].state \in RefreshedState THEN View(jobs[j]) ELSE Unlisted]

(***************************************************************************)
(* Writes and broadcasts                                                   *)
(***************************************************************************)
CountWrite == writes < MaxWrites /\ writes' = writes + 1

\* The driver uses several connections to the database, so that the callbacks
\* of two writes run in any order; each broadcasts the document it was given.
Broadcast(message) ==
  /\ CountWrite
  /\ transit' = [b \in Browser |-> transit[b] \union {[n |-> writes', message |-> message]}]
  /\ UNCHANGED clientVars

BroadcastJob(j) ==
  Broadcast([job |-> j, view |-> View(jobs'[j])]) /\ UNCHANGED slaves

\* A worker that could not register posts jobs without a slaveID.
PostJob(j, w) ==
  /\ w \in slaves \union {NoWorker}
  /\ CreateJob(j, NoName, w)
  /\ BroadcastJob(j)

CheckOut(j, w) == w \in slaves /\ CheckoutJob(j, w) /\ BroadcastJob(j)

\* PATCH of the state; workers report these states of jobs they checked out.
ReportState(j, state) ==
  /\ jobs[j].state # "NEW"
  /\ ChangeState(j, state)
  /\ BroadcastJob(j)

\* The statistics themselves are not told apart here.
ReportStatistics(j) ==
  /\ jobs[j].state # "NEW"
  /\ UpdateStatistics(j, {})
  /\ BroadcastJob(j)

RegisterSlave(w) ==
  /\ UpsertSlave(w)
  /\ Broadcast([job |-> NoJob, view |-> [Unlisted EXCEPT !.slaveID = w]])
  /\ UNCHANGED jobs

(***************************************************************************)
(* What a page does with the jobs and slaves it receives                   *)
(***************************************************************************)
\* (mutant) a job the page has is left as it is.
UpdateJobUnlessListed(list, data) ==
  [j \in Job |-> IF list[j] = Unlisted THEN data[j] ELSE list[j]]

\* updateJob on $scope.jobs, for each job of the data: a listed job keeps its
\* slaveID.
UpdateJob(list, data) ==
  [j \in Job |->
    IF data[j].state = "ABSENT" THEN list[j]
    ELSE IF list[j].state = "ABSENT" THEN data[j]
    ELSE [list[j] EXCEPT !.state = data[j].state]]

\* updateSlaveJobs: the list is that of the slave the received job names, and
\* a job pushed to both lists is one object.
UpdateSlaveJobs(p, data) ==
  [w \in Worker |-> [j \in Job |->
    IF data[j].state = "ABSENT" \/ data[j].slaveID # w \/ w \notin p.slaves
       \/ p.lists[w][j] = "SHARED"
    THEN p.lists[w][j]
    ELSE IF p.lists[w][j] = "ABSENT" /\ p.jobs[j].state = "ABSENT" THEN "SHARED"
    ELSE data[j].state]]

ReceiveJobs(p, data) ==
  [p EXCEPT !.jobs = UpdateJob(@, data), !.lists = UpdateSlaveJobs(p, data)]

\* The state in which a job shows in the list of a slave.
StateUnder(p, w, j) ==
  IF p.lists[w][j] = "SHARED" THEN p.jobs[j].state ELSE p.lists[w][j]

\* (mutant) the slave's jobs are overwritten with those of the received slave.
UpdateSlaveWithJobs(p, w) ==
  IF w \notin p.slaves THEN [p EXCEPT !.slaves = @ \union {w}]
  ELSE [p EXCEPT !.lists[w] = [j \in Job |-> "undefined"]]

\* updateSlave: a new slave is added, a known one drops its finished jobs.
UpdateSlave(p, w) ==
  IF w \notin p.slaves THEN [p EXCEPT !.slaves = @ \union {w}]
  ELSE [p EXCEPT !.lists[w] =
         [j \in Job |-> IF StateUnder(p, w, j) = "SUCCESS" THEN "ABSENT" ELSE @[j]]]

OnMessage(b, m) ==
  /\ m \in transit[b]
  /\ transit' = [transit EXCEPT ![b] = @ \ {m}]
  /\ LET message == m.message IN
       page' = [page EXCEPT ![b] =
         IF message.job = NoJob THEN UpdateSlave(@, message.view.slaveID)
         ELSE ReceiveJobs(@, Only(message.job, message.view))]
  /\ UNCHANGED <<storeVars, writes, loading, snapshots, calls, faults>>

\* Sent while the page had no connection, or passed over by emit.
MessageMissed(b, m) ==
  /\ m \in transit[b]
  /\ transit' = [transit EXCEPT ![b] = @ \ {m}]
  /\ UNCHANGED <<storeVars, writes, clientVars>>

(***************************************************************************)
(* init(): GET the slaves, then GET the jobs, then show both               *)
(***************************************************************************)
GetSlaves(b) ==
  /\ loading[b].stage = "slaves"
  /\ loading' = [loading EXCEPT ![b].stage = "jobs", ![b].slaves = slaves]
  /\ UNCHANGED <<storeVars, writes, transit, page, snapshots, calls, faults>>

GetJobs(b) ==
  /\ loading[b].stage = "jobs"
  /\ loading' = [loading EXCEPT ![b].stage = "data", ![b].jobs = Snapshot]
  /\ UNCHANGED <<storeVars, writes, transit, page, snapshots, calls, faults>>

LoadingDone(b) ==
  loading' = [loading EXCEPT ![b] = [stage |-> "done", slaves |-> {}, jobs |-> NoJobs]]

\* Both lists are replaced, whatever broadcasts have put there before.
Load(b) ==
  /\ loading[b].stage = "data"
  /\ LET got == loading[b] IN
       page' = [page EXCEPT ![b].jobs = got.jobs, ![b].slaves = got.slaves,
         ![b].lists = [w \in Worker |-> [j \in Job |->
           IF w \in got.slaves /\ got.jobs[j].slaveID = w THEN "SHARED" ELSE "ABSENT"]]]
  /\ LoadingDone(b)
  /\ UNCHANGED <<storeVars, writes, transit, snapshots, calls, faults>>

LoadFails(b) ==
  /\ loading[b].stage # "done" /\ faults < MaxFaults
  /\ LoadingDone(b)
  /\ faults' = faults + 1
  /\ UNCHANGED <<storeVars, writes, transit, page, snapshots, calls>>

(***************************************************************************)
(* refreshJobs, every three minutes                                        *)
(***************************************************************************)
RefreshJobs(b) ==
  /\ Cardinality(snapshots[b]) < MaxSnapshots
  /\ snapshots' = [snapshots EXCEPT ![b] = @ \union {Snapshot}]
  /\ UNCHANGED <<storeVars, writes, transit, page, loading, calls, faults>>

OnRefreshed(b, data) ==
  /\ data \in snapshots[b]
  /\ snapshots' = [snapshots EXCEPT ![b] = @ \ {data}]
  /\ page' = [page EXCEPT ![b] = ReceiveJobs(@, data)]
  /\ UNCHANGED <<storeVars, writes, transit, loading, calls, faults>>

RefreshFails(b, data) ==
  /\ data \in snapshots[b] /\ faults < MaxFaults
  /\ snapshots' = [snapshots EXCEPT ![b] = @ \ {data}]
  /\ faults' = faults + 1
  /\ UNCHANGED <<storeVars, writes, transit, page, loading, calls>>

(***************************************************************************)
(* pauseJob, resumeJob, stopJob                                            *)
(***************************************************************************)
\* The objects by which a page knows job j: that of the dashboard, and those
\* of the slaves' lists.
ObjectsOf(p, j) ==
  {p.jobs[j]} \union
  {[state |-> p.lists[w][j], slaveID |-> w] : w \in {v \in Worker : p.lists[v][j] \in JobState}}

\* (mutant) an operation looks at its own flag only.
MayControlUnlessSame(p, op, state) ==
  /\ op \notin p.busy
  /\ \/ op = "pause" /\ state = "RUNNING"
     \/ op = "resume" /\ state \in {"PAUSED", "STOPPED"}
     \/ op = "stop" /\ state \in {"PAUSED", "RUNNING"}

\* isPausable, isResumable, isStoppable: what puts the buttons on the page.
MayControl(p, op, state) ==
  /\ p.busy = {}
  /\ \/ op = "pause" /\ state = "RUNNING"
     \/ op = "resume" /\ state \in {"PAUSED", "STOPPED"}
     \/ op = "stop" /\ state \in {"PAUSED", "RUNNING"}

ControlJob(b, op, j) ==
  /\ \E object \in ObjectsOf(page[b], j) :
       /\ MayControl(page[b], op, object.state)
       /\ object.slaveID \in page[b].slaves
       /\ calls' = calls \union {[browser |-> b, op |-> op, job |-> j,
                                  slave |-> object.slaveID, answer |-> "waiting"]}
  /\ page' = [page EXCEPT ![b].busy = @ \union {op}]
  /\ UNCHANGED <<storeVars, writes, transit, loading, snapshots, faults>>

\* jobManagement: the worker is asked, and the state of its answer written;
\* nothing is broadcast.
JobManagement(c, state) ==
  /\ c \in calls /\ c.answer = "waiting" /\ c.slave \in slaves
  /\ CountWrite
  /\ ChangeState(c.job, state)
  /\ calls' = (calls \ {c}) \union {[c EXCEPT !.answer = state]}
  /\ UNCHANGED <<slaves, transit, page, loading, snapshots, faults>>

OnControlled(c) ==
  /\ c \in calls /\ c.answer # "waiting"
  /\ calls' = calls \ {c}
  /\ page' = [page EXCEPT
       ![c.browser].busy = @ \ {c.op},
       ![c.browser].jobs = UpdateJob(@, Only(c.job, [state |-> c.answer, slaveID |-> c.slave]))]
  /\ UNCHANGED <<storeVars, writes, transit, loading, snapshots, faults>>

\* (mutant) a failed call leaves its flag up.
ControlFailsBusy(c) ==
  /\ c \in calls
  /\ calls' = calls \ {c}
  /\ UNCHANGED <<storeVars, writes, transit, page, loading, snapshots, faults>>

\* The call fails before or after the supervisor has carried it out.
ControlFails(c) ==
  /\ c \in calls
  /\ calls' = calls \ {c}
  /\ page' = [page EXCEPT ![c.browser].busy = @ \ {c.op}]
  /\ UNCHANGED <<storeVars, writes, transit, loading, snapshots, faults>>

-----------------------------------------------------------------------------
Reported == {"RUNNING", "SUCCESS", "FAILED", "STOPPED"}

Write ==
  \/ \E w \in Worker : RegisterSlave(w)
  \/ \E j \in Job :
       \/ \E w \in Worker \union {NoWorker} : PostJob(j, w)
       \/ \E w \in Worker : CheckOut(j, w)
       \/ \E state \in Reported : ReportState(j, state)
       \/ ReportStatistics(j)

\* Whatever of a page's work its browser does in the end.
Refreshing(b) == \E data \in snapshots[b] : OnRefreshed(b, data)
ControlEnds(b) == \E c \in calls : c.browser = b /\ (OnControlled(c) \/ ControlFails(c))

Next ==
  \/ Write
  \/ \E b \in Browser :
       \/ \E m \in transit[b] : OnMessage(b, m) \/ MessageMissed(b, m)
       \/ GetSlaves(b) \/ GetJobs(b) \/ Load(b) \/ LoadFails(b)
       \/ RefreshJobs(b) \/ Refreshing(b) \/ ControlEnds(b)
       \/ \E data \in snapshots[b] : RefreshFails(b, data)
       \/ \E j \in Job, op \in {"pause", "resume", "stop"} : ControlJob(b, op, j)
  \/ \E c \in calls, state \in ControlAnswers : JobManagement(c, state)

Spec == Init /\ [][Next]_vars

\* Timers fire, and a call a page waits for is answered or fails.  Users need
\* not do anything, and a broadcast may never arrive.
Fairness ==
  \A b \in Browser :
    /\ WF_vars(GetSlaves(b)) /\ WF_vars(GetJobs(b)) /\ WF_vars(Load(b))
    /\ WF_vars(RefreshJobs(b)) /\ WF_vars(Refreshing(b))
    /\ WF_vars(ControlEnds(b))

FairSpec == Spec /\ Fairness
=============================================================================
