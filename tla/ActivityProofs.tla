---------------------------- MODULE ActivityProofs ----------------------------
(***************************************************************************)
(* Safety of the web clients, for any number of browsers, workers, jobs    *)
(* and calls: every variable keeps its type, and a page has at most one    *)
(* control call under way, which its flags tell.                           *)
(***************************************************************************)
EXTENDS ActivityProperties, FiniteSetTheorems, TLAPS

Op == {"pause", "resume", "stop"}

Own(b) == {c \in calls : c.browser = b}

\* OneControlAtATime without cardinalities.
FlagsTellCalls ==
  \A b \in Browser :
    /\ page[b].busy = {c.op : c \in Own(b)}
    /\ \A c, d \in Own(b) : c = d

-----------------------------------------------------------------------------
(* The operators of the page keep its type *)

\* The view of a job that is not listed has the type of views.
LEMMA UnlistedType == Unlisted \in JobView
  BY DEF Unlisted, JobView

\* The empty list has the type of lists.
LEMMA NoJobsType == NoJobs \in JobList
  BY UnlistedType DEF NoJobs, JobList

\* A list with one job has the type of lists.
LEMMA OnlyType ==
  ASSUME NEW j \in Job, NEW view \in JobView
  PROVE  Only(j, view) \in JobList
  BY NoJobsType DEF Only, JobList

\* What a page sees of a document has the type of views.
LEMMA ViewType ==
  ASSUME NEW doc \in JobData
  PROVE  View(doc) \in JobView
  BY DEF View, JobData, JobView

\* What GET /api/jobs answers has the type of lists.
LEMMA SnapshotType ==
  ASSUME jobs \in [Job -> JobData]
  PROVE  Snapshot \in JobList
  BY UnlistedType, ViewType DEF Snapshot, JobList

\* updateJob yields a list again.
LEMMA UpdateJobType ==
  ASSUME NEW list \in JobList, NEW data \in JobList
  PROVE  UpdateJob(list, data) \in JobList
<1> SUFFICES ASSUME NEW j \in Job
             PROVE  (IF data[j].state = "ABSENT" THEN list[j]
                     ELSE IF list[j].state = "ABSENT" THEN data[j]
                     ELSE [list[j] EXCEPT !.state = data[j].state]) \in JobView
  BY DEF UpdateJob, JobList
<1>1. list[j] \in JobView /\ data[j] \in JobView
  BY DEF JobList
<1>2. [list[j] EXCEPT !.state = data[j].state] \in JobView
  BY <1>1 DEF JobView
<1> QED
  BY <1>1, <1>2

\* updateSlaveJobs yields a worker's list again.
LEMMA UpdateSlaveJobsType ==
  ASSUME NEW p \in Page, NEW data \in JobList
  PROVE  UpdateSlaveJobs(p, data) \in
           [Worker -> [Job -> JobState \union {"ABSENT", "SHARED"}]]
<1>1. ASSUME NEW w \in Worker, NEW j \in Job
      PROVE  /\ p.lists[w][j] \in JobState \union {"ABSENT", "SHARED"}
             /\ data[j].state \in JobState \union {"ABSENT", "SHARED"}
  BY DEF Page, JobList, JobView
<1> QED
  BY <1>1 DEF UpdateSlaveJobs

\* Received jobs change lists, never the flags of control calls.
LEMMA ReceiveJobsType ==
  ASSUME NEW p \in Page, NEW data \in JobList
  PROVE  ReceiveJobs(p, data) \in Page /\ ReceiveJobs(p, data).busy = p.busy
<1>1. UpdateJob(p.jobs, data) \in JobList
  BY UpdateJobType DEF Page
<1> QED
  BY <1>1, UpdateSlaveJobsType DEF ReceiveJobs, Page

\* A received slave changes the slaves, never the flags of control calls.
LEMMA UpdateSlaveType ==
  ASSUME NEW p \in Page, NEW w \in Worker
  PROVE  UpdateSlave(p, w) \in Page /\ UpdateSlave(p, w).busy = p.busy
<1>1. CASE w \notin p.slaves
  BY <1>1 DEF UpdateSlave, Page
<1>2. CASE w \in p.slaves
  <2> DEFINE row == [j \in Job |->
                      IF StateUnder(p, w, j) = "SUCCESS" THEN "ABSENT" ELSE p.lists[w][j]]
  <2>1. row \in [Job -> JobState \union {"ABSENT", "SHARED"}]
    BY DEF Page
  <2>2. UpdateSlave(p, w) = [p EXCEPT !.lists[w] = row]
    BY <1>2 DEF UpdateSlave, Page
  <2> DEFINE lists == [p.lists EXCEPT ![w] = row]
  <2>3. [p EXCEPT !.lists[w] = row] = [p EXCEPT !.lists = lists]
    BY DEF Page
  <2> HIDE DEF row
  <2>4. lists \in [Worker -> [Job -> JobState \union {"ABSENT", "SHARED"}]]
    BY <2>1 DEF Page
  <2> HIDE DEF lists
  <2>5. UpdateSlave(p, w) = [p EXCEPT !.lists = lists]
    BY <2>2, <2>3
  <2> QED
    BY <2>4, <2>5 DEF Page
<1> QED
  BY <1>1, <1>2

-----------------------------------------------------------------------------
(* Every step keeps the types *)

\* What a write does besides changing the store.
Announcing ==
  \E message \in Message :
    /\ CountWrite
    /\ transit' = [b \in Browser |-> transit[b] \union {[n |-> writes', message |-> message]}]
    /\ UNCHANGED clientVars

ClientTypeOK ==
  /\ page \in [Browser -> Page]
  /\ loading \in [Browser -> Loading]
  /\ snapshots \in [Browser -> SUBSET JobList]
  /\ calls \subseteq Call
  /\ faults \in 0..MaxFaults

MessagesTypeOK ==
  /\ writes \in 0..MaxWrites
  /\ transit \in [Browser -> SUBSET [n : 1..MaxWrites, message : Message]]

\* Typing, in the parts an action may leave alone.
LEMMA TypeParts == TypeOK <=> StoreTypeOK /\ MessagesTypeOK /\ ClientTypeOK
  BY DEF TypeOK, MessagesTypeOK, ClientTypeOK

\* Counted writes stay within their bound.
LEMMA CountType ==
  ASSUME TypeOK, CountWrite
  PROVE  writes' \in 1..MaxWrites /\ writes' \in 0..MaxWrites
  BY ActivityAssumption DEF ActivityAssumption, TypeOK, CountWrite

\* A broadcast keeps the types of messages, pages and calls.
LEMMA AnnouncingType ==
  ASSUME TypeOK, Announcing
  PROVE  MessagesTypeOK' /\ ClientTypeOK'
<1>1. PICK message \in Message :
        /\ CountWrite
        /\ transit' = [b \in Browser |->
             transit[b] \union {[n |-> writes', message |-> message]}]
        /\ UNCHANGED clientVars
  BY DEF Announcing
<1>2. writes' \in 1..MaxWrites /\ writes' \in 0..MaxWrites
  BY <1>1, CountType
<1>3. transit' \in [Browser -> SUBSET [n : 1..MaxWrites, message : Message]]
  BY <1>1, <1>2 DEF TypeOK
<1> QED
  BY <1>1, <1>2, <1>3 DEF TypeOK, MessagesTypeOK, ClientTypeOK, clientVars

\* A broadcast of a stored job is a broadcast of a message.
LEMMA AnnouncedJob ==
  ASSUME NEW j \in Job, StoreTypeOK', BroadcastJob(j)
  PROVE  Announcing
<1>1. View(jobs'[j]) \in JobView
  BY ViewType DEF StoreTypeOK
<1>2. [job |-> j, view |-> View(jobs'[j])] \in Message
  BY <1>1 DEF Message
<1> QED
  BY <1>2 DEF BroadcastJob, Broadcast, Announcing

\* The writes to the store, and what is said of them.
LEMMA WriteType ==
  ASSUME TypeOK, Write
  PROVE  StoreTypeOK' /\ Announcing
<1>1. ASSUME NEW w \in Worker, RegisterSlave(w)
      PROVE  StoreTypeOK' /\ Announcing
  <2>1. [job |-> NoJob, view |-> [Unlisted EXCEPT !.slaveID = w]] \in Message
    BY DEF Message, Unlisted
  <2> QED
    BY <1>1, <2>1 DEF TypeOK, StoreTypeOK, RegisterSlave, UpsertSlave, Broadcast, Announcing
<1>2. ASSUME NEW j \in Job, NEW w \in Worker \union {NoWorker}, PostJob(j, w)
      PROVE  StoreTypeOK' /\ Announcing
  <2>1. StoreTypeOK'
    BY <1>2 DEF TypeOK, StoreTypeOK, JobData, PostJob, CreateJob, BroadcastJob, JobState
  <2> QED
    BY <1>2, <2>1, AnnouncedJob DEF PostJob
<1>3. ASSUME NEW j \in Job, NEW w \in Worker, CheckOut(j, w)
      PROVE  StoreTypeOK' /\ Announcing
  <2> DEFINE doc == [jobs[j] EXCEPT !.state = "CLAIMED", !.slaveID = w]
  <2>1. doc \in JobData
    <3>1. jobs[j] \in JobData
      BY DEF TypeOK, StoreTypeOK
    <3> QED
      BY <3>1 DEF JobData, JobState
  <2>2. jobs' = [jobs EXCEPT ![j] = doc] /\ slaves' = slaves
    BY <1>3 DEF CheckOut, CheckoutJob, BroadcastJob
  <2> HIDE DEF doc
  <2>3. StoreTypeOK'
    BY <2>1, <2>2 DEF TypeOK, StoreTypeOK
  <2> QED
    BY <1>3, <2>3, AnnouncedJob DEF CheckOut
<1>4. ASSUME NEW j \in Job, NEW state \in Reported, ReportState(j, state)
      PROVE  StoreTypeOK' /\ Announcing
  <2>1. StoreTypeOK'
    BY <1>4 DEF TypeOK, StoreTypeOK, JobData, ReportState, ChangeState, Reported,
                BroadcastJob, JobState
  <2> QED
    BY <1>4, <2>1, AnnouncedJob DEF ReportState
<1>5. ASSUME NEW j \in Job, ReportStatistics(j)
      PROVE  StoreTypeOK' /\ Announcing
  <2> DEFINE doc == [jobs[j] EXCEPT !.statistics = {}]
  <2>1. doc \in JobData
    BY DEF TypeOK, StoreTypeOK, JobData
  <2>2. jobs' = [jobs EXCEPT ![j] = doc] /\ slaves' = slaves
    BY <1>5 DEF ReportStatistics, UpdateStatistics, BroadcastJob
  <2> HIDE DEF doc
  <2>3. StoreTypeOK'
    BY <2>1, <2>2 DEF TypeOK, StoreTypeOK
  <2> QED
    BY <1>5, <2>3, AnnouncedJob DEF ReportStatistics
<1> QED
  BY <1>1, <1>2, <1>3, <1>4, <1>5 DEF Write

\* What a page does by itself.
LEMMA PageType ==
  ASSUME TypeOK, NEW b \in Browser
  PROVE  /\ \A m \in transit[b] : OnMessage(b, m) \/ MessageMissed(b, m) => TypeOK'
         /\ GetSlaves(b) \/ GetJobs(b) \/ Load(b) \/ LoadFails(b) => TypeOK'
         /\ RefreshJobs(b) \/ Refreshing(b) => TypeOK'
         /\ \A data \in snapshots[b] : RefreshFails(b, data) => TypeOK'
<1> USE DEF storeVars, clientVars
<1>0. /\ page[b] \in Page /\ loading[b] \in Loading /\ snapshots[b] \subseteq JobList
      /\ jobs \in [Job -> JobData] /\ slaves \subseteq Worker
  BY DEF TypeOK, StoreTypeOK
<1>1. ASSUME NEW m \in transit[b], OnMessage(b, m) PROVE TypeOK'
  <2>1. m.message \in Message
    BY DEF TypeOK
  <2>2. CASE m.message.job = NoJob
    <3>1. m.message.view.slaveID \in Worker
      BY <2>1, <2>2, EntityAssumption DEF EntityAssumption, Message
    <3>2. UpdateSlave(page[b], m.message.view.slaveID) \in Page
      BY <1>0, <3>1, UpdateSlaveType
    <3> QED
      BY <1>1, <2>2, <3>2 DEF OnMessage, TypeOK, StoreTypeOK
  <2>3. CASE m.message.job # NoJob
    <3>1. Only(m.message.job, m.message.view) \in JobList
      BY <2>1, <2>3, OnlyType DEF Message
    <3>2. ReceiveJobs(page[b], Only(m.message.job, m.message.view)) \in Page
      BY <1>0, <3>1, ReceiveJobsType
    <3> QED
      BY <1>1, <2>3, <3>2 DEF OnMessage, TypeOK, StoreTypeOK
  <2> QED
    BY <2>2, <2>3
<1>2. ASSUME NEW m \in transit[b], MessageMissed(b, m) PROVE TypeOK'
  BY <1>2 DEF MessageMissed, TypeOK, StoreTypeOK
<1>3. ASSUME GetSlaves(b) PROVE TypeOK'
  BY <1>0, <1>3 DEF GetSlaves, TypeOK, StoreTypeOK, Loading
<1>4. ASSUME GetJobs(b) PROVE TypeOK'
  BY <1>0, <1>4, SnapshotType DEF GetJobs, TypeOK, StoreTypeOK, Loading
<1>5. ASSUME LoadingDone(b) PROVE loading' \in [Browser -> Loading]
  BY <1>5, NoJobsType DEF LoadingDone, TypeOK, Loading
<1>6. ASSUME Load(b) PROVE TypeOK'
  <2> DEFINE got == loading[b]
             lists == [w \in Worker |-> [j \in Job |->
                        IF w \in got.slaves /\ got.jobs[j].slaveID = w
                        THEN "SHARED" ELSE "ABSENT"]]
             loaded == [page[b] EXCEPT !.jobs = got.jobs, !.slaves = got.slaves,
                                       !.lists = lists]
  <2>1. lists \in [Worker -> [Job -> JobState \union {"ABSENT", "SHARED"}]]
    OBVIOUS
  <2> HIDE DEF lists
  <2>2. loaded \in Page
    BY <1>0, <2>1 DEF Page, Loading
  <2>3. page' = [page EXCEPT ![b].jobs = got.jobs, ![b].slaves = got.slaves,
                             ![b].lists = lists]
    BY <1>6 DEF Load, lists
  <2> HIDE DEF got
  <2>4. page' = [page EXCEPT ![b] = loaded]
    BY <2>3
  <2> HIDE DEF loaded
  <2>5. page' \in [Browser -> Page]
    BY <2>2, <2>4 DEF TypeOK
  <2> QED
    BY <1>5, <1>6, <2>5 DEF Load, TypeOK, StoreTypeOK
<1>7. ASSUME LoadFails(b) PROVE TypeOK'
  BY <1>5, <1>7, ActivityAssumption DEF LoadFails, TypeOK, StoreTypeOK, ActivityAssumption
<1>8. ASSUME RefreshJobs(b) PROVE TypeOK'
  BY <1>0, <1>8, SnapshotType DEF RefreshJobs, TypeOK, StoreTypeOK
<1>9. ASSUME Refreshing(b) PROVE TypeOK'
  <2>1. PICK data \in snapshots[b] : OnRefreshed(b, data)
    BY <1>9 DEF Refreshing
  <2>2. ReceiveJobs(page[b], data) \in Page
    BY <1>0, ReceiveJobsType
  <2> QED
    BY <2>1, <2>2 DEF OnRefreshed, TypeOK, StoreTypeOK
<1>10. ASSUME NEW data \in snapshots[b], RefreshFails(b, data) PROVE TypeOK'
  BY <1>10, ActivityAssumption DEF RefreshFails, TypeOK, StoreTypeOK, ActivityAssumption
<1> QED
  BY <1>1, <1>2, <1>3, <1>4, <1>6, <1>7, <1>8, <1>9, <1>10

\* Control calls: made, carried out, answered, failed.
LEMMA ControlType ==
  ASSUME TypeOK
  PROVE  /\ \A b \in Browser, j \in Job, op \in Op : ControlJob(b, op, j) => TypeOK'
         /\ \A c \in calls, state \in ControlAnswers : JobManagement(c, state) => TypeOK'
         /\ \A c \in calls : OnControlled(c) \/ ControlFails(c) => TypeOK'
<1> USE DEF storeVars, clientVars
<1>1. ASSUME NEW b \in Browser, NEW j \in Job, NEW op \in Op, ControlJob(b, op, j)
      PROVE  TypeOK'
  <2>1. page[b] \in Page
    BY DEF TypeOK
  <2>2. calls' \subseteq Call
    BY <1>1, <2>1 DEF ControlJob, TypeOK, Page, Call, Op
  <2>3. [page[b] EXCEPT !.busy = @ \union {op}] \in Page
    BY <2>1 DEF Page, Op
  <2>4. page' = [page EXCEPT ![b] = [page[b] EXCEPT !.busy = @ \union {op}]]
    BY <1>1 DEF ControlJob
  <2> QED
    BY <1>1, <2>2, <2>3, <2>4 DEF ControlJob, TypeOK, StoreTypeOK
<1>2. ASSUME NEW c \in calls, NEW state \in ControlAnswers, JobManagement(c, state)
      PROVE  TypeOK'
  <2>1. c \in Call /\ state \in JobState
    BY ActivityAssumption DEF TypeOK, ActivityAssumption
  <2>2. [c EXCEPT !.answer = state] \in Call
    BY <2>1 DEF Call
  <2>3. jobs' \in [Job -> JobData]
    BY <1>2, <2>1 DEF JobManagement, ChangeState, TypeOK, StoreTypeOK, JobData, Call
  <2>4. writes' \in 0..MaxWrites
    BY <1>2, CountType DEF JobManagement
  <2> QED
    BY <1>2, <2>2, <2>3, <2>4 DEF JobManagement, TypeOK, StoreTypeOK
<1>3. ASSUME NEW c \in calls, OnControlled(c) PROVE TypeOK'
  <2>1. /\ c \in Call /\ c.browser \in Browser /\ page[c.browser] \in Page
        /\ c.answer \in JobState /\ c.slave \in Worker /\ c.job \in Job
    BY <1>3 DEF OnControlled, TypeOK, Call
  <2> DEFINE data == Only(c.job, [state |-> c.answer, slaveID |-> c.slave])
             list == UpdateJob(page[c.browser].jobs, data)
             free == [page[c.browser] EXCEPT !.busy = @ \ {c.op}, !.jobs = list]
  <2>2. data \in JobList
    BY <2>1, OnlyType DEF JobView
  <2>3. list \in JobList
    BY <2>1, <2>2, UpdateJobType DEF Page
  <2>4. page' = [page EXCEPT ![c.browser].busy = @ \ {c.op}, ![c.browser].jobs = list]
    BY <1>3, <2>1 DEF OnControlled, TypeOK
  <2> HIDE DEF list
  <2>5. free \in Page
    BY <2>1, <2>3 DEF Page
  <2>6. page' = [page EXCEPT ![c.browser] = free]
    BY <2>4
  <2> HIDE DEF free
  <2>7. page' \in [Browser -> Page]
    BY <2>5, <2>6 DEF TypeOK
  <2> QED
    BY <1>3, <2>7 DEF OnControlled, TypeOK, StoreTypeOK
<1>4. ASSUME NEW c \in calls, ControlFails(c) PROVE TypeOK'
  <2>1. c \in Call /\ c.browser \in Browser /\ page[c.browser] \in Page
    BY DEF TypeOK, Call
  <2>2. [page[c.browser] EXCEPT !.busy = @ \ {c.op}] \in Page
    BY <2>1 DEF Page
  <2>3. page' = [page EXCEPT ![c.browser] = [page[c.browser] EXCEPT !.busy = @ \ {c.op}]]
    BY <1>4 DEF ControlFails
  <2> QED
    BY <1>4, <2>2, <2>3 DEF ControlFails, TypeOK, StoreTypeOK
<1> QED
  BY <1>1, <1>2, <1>3, <1>4

\* Every step keeps the types.
LEMMA TypeStep ==
  ASSUME TypeOK, [Next]_vars
  PROVE  TypeOK'
<1>1. CASE UNCHANGED vars
  BY <1>1 DEF vars, storeVars, clientVars, TypeOK, StoreTypeOK
<1>2. CASE Write
  BY <1>2, WriteType, AnnouncingType DEF TypeOK, MessagesTypeOK, ClientTypeOK
<1>3. ASSUME NEW b \in Browser, ControlEnds(b) PROVE TypeOK'
  BY <1>3, ControlType DEF ControlEnds
<1> QED
  BY <1>1, <1>2, <1>3, PageType, ControlType DEF Next, Op

-----------------------------------------------------------------------------
(* At most one control call of a page *)

\* A step that leaves the calls and the flags alone.
LEMMA FlagsStay ==
  ASSUME FlagsTellCalls, UNCHANGED calls,
         \A b \in Browser : page'[b].busy = page[b].busy
  PROVE  FlagsTellCalls'
  BY DEF FlagsTellCalls, Own

\* No listener, GET call or refresh touches the flags of a page or its calls.
LEMMA PageKeepsFlags ==
  ASSUME TypeOK, FlagsTellCalls, NEW b \in Browser
  PROVE  /\ \A m \in transit[b] : OnMessage(b, m) \/ MessageMissed(b, m) => FlagsTellCalls'
         /\ GetSlaves(b) \/ GetJobs(b) \/ Load(b) \/ LoadFails(b) => FlagsTellCalls'
         /\ RefreshJobs(b) \/ Refreshing(b) => FlagsTellCalls'
         /\ \A data \in snapshots[b] : RefreshFails(b, data) => FlagsTellCalls'
<1> USE DEF storeVars, clientVars
<1>0. page \in [Browser -> Page] /\ page[b] \in Page /\ snapshots[b] \subseteq JobList
  BY DEF TypeOK
<1>1. ASSUME NEW m \in transit[b], OnMessage(b, m) PROVE FlagsTellCalls'
  <2>1. m.message \in Message
    BY DEF TypeOK
  <2>2. ASSUME m.message.job = NoJob
        PROVE  UpdateSlave(page[b], m.message.view.slaveID).busy = page[b].busy
    <3>1. m.message.view.slaveID \in Worker
      BY <2>1, <2>2, EntityAssumption DEF EntityAssumption, Message
    <3> QED
      BY <1>0, <3>1, UpdateSlaveType
  <2>3. ASSUME m.message.job # NoJob
        PROVE  ReceiveJobs(page[b], Only(m.message.job, m.message.view)).busy = page[b].busy
    <3>1. Only(m.message.job, m.message.view) \in JobList
      BY <2>1, <2>3, OnlyType DEF Message
    <3> QED
      BY <1>0, <3>1, ReceiveJobsType
  <2>4. page'[b].busy = page[b].busy
    BY <1>0, <1>1, <2>2, <2>3 DEF OnMessage
  <2>5. \A other \in Browser \ {b} : page'[other] = page[other]
    BY <1>0, <1>1 DEF OnMessage
  <2> QED
    BY <1>1, <2>4, <2>5, FlagsStay DEF OnMessage
<1>2. ASSUME NEW m \in transit[b], MessageMissed(b, m) PROVE FlagsTellCalls'
  BY <1>2, FlagsStay DEF MessageMissed
<1>3. ASSUME GetSlaves(b) \/ GetJobs(b) \/ LoadFails(b) \/ RefreshJobs(b) PROVE FlagsTellCalls'
  BY <1>3, FlagsStay DEF GetSlaves, GetJobs, LoadFails, RefreshJobs
<1>4. ASSUME Load(b) PROVE FlagsTellCalls'
  <2>1. \A other \in Browser : page'[other].busy = page[other].busy
    BY <1>0, <1>4 DEF Load, Page
  <2> QED
    BY <1>4, <2>1, FlagsStay DEF Load
<1>5. ASSUME Refreshing(b) PROVE FlagsTellCalls'
  <2>1. PICK data \in snapshots[b] : OnRefreshed(b, data)
    BY <1>5 DEF Refreshing
  <2>2. ReceiveJobs(page[b], data).busy = page[b].busy
    BY <1>0, ReceiveJobsType
  <2>3. \A other \in Browser : page'[other].busy = page[other].busy
    BY <1>0, <2>1, <2>2 DEF OnRefreshed
  <2> QED
    BY <2>1, <2>3, FlagsStay DEF OnRefreshed
<1>6. ASSUME NEW data \in snapshots[b], RefreshFails(b, data) PROVE FlagsTellCalls'
  BY <1>6, FlagsStay DEF RefreshFails
<1> QED
  BY <1>1, <1>2, <1>3, <1>4, <1>5, <1>6

\* A call that is over takes its flag with it.
LEMMA CallOver ==
  ASSUME TypeOK, FlagsTellCalls, NEW c \in calls,
         calls' = calls \ {c},
         page'[c.browser].busy = page[c.browser].busy \ {c.op},
         \A b \in Browser \ {c.browser} : page'[b].busy = page[b].busy
  PROVE  FlagsTellCalls'
<1> SUFFICES ASSUME NEW b \in Browser
             PROVE  /\ page'[b].busy = {d.op : d \in Own(b)'}
                    /\ \A d, e \in Own(b)' : d = e
  BY DEF FlagsTellCalls
<1>1. page[b].busy = {d.op : d \in Own(b)} /\ \A d, e \in Own(b) : d = e
  BY DEF FlagsTellCalls
<1>2. CASE b = c.browser
  <2>1. Own(b) = {c} /\ Own(b)' = {}
    BY <1>1, <1>2 DEF Own
  <2>2. page[b].busy = {c.op}
    BY <1>1, <2>1
  <2> QED
    BY <1>2, <2>1, <2>2
<1>3. CASE b # c.browser
  <2>1. Own(b)' = Own(b)
    BY <1>3 DEF Own
  <2> QED
    BY <1>1, <1>3, <2>1
<1> QED
  BY <1>2, <1>3

\* Control calls set and reset the flags with the call they start and end.
LEMMA ControlKeepsFlags ==
  ASSUME TypeOK, FlagsTellCalls
  PROVE  /\ \A b \in Browser, j \in Job, op \in Op : ControlJob(b, op, j) => FlagsTellCalls'
         /\ \A c \in calls, state \in ControlAnswers :
              JobManagement(c, state) => FlagsTellCalls'
         /\ \A c \in calls : OnControlled(c) \/ ControlFails(c) => FlagsTellCalls'
<1>0. page \in [Browser -> Page] /\ calls \subseteq Call
  BY DEF TypeOK
<1>1. ASSUME NEW b \in Browser, NEW j \in Job, NEW op \in Op, ControlJob(b, op, j)
      PROVE  FlagsTellCalls'
  <2>1. PICK slave : calls' = calls \union {[browser |-> b, op |-> op, job |-> j,
                                            slave |-> slave, answer |-> "waiting"]}
    BY <1>1 DEF ControlJob
  <2>2. page[b].busy = {}
    BY <1>1 DEF ControlJob, MayControl
  <2> DEFINE call == [browser |-> b, op |-> op, job |-> j, slave |-> slave,
                      answer |-> "waiting"]
  <2>3. call.browser = b /\ call.op = op
    OBVIOUS
  <2>4. Own(b) = {}
    BY <2>2 DEF FlagsTellCalls
  <2> HIDE DEF call
  <2>5. Own(b)' = {call} /\ \A other \in Browser \ {b} : Own(other)' = Own(other)
    BY <2>1, <2>3, <2>4 DEF Own, call
  <2>6. page'[b].busy = {op}
    BY <1>0, <1>1, <2>2 DEF ControlJob, Page
  <2>7. \A other \in Browser \ {b} : page'[other] = page[other]
    BY <1>0, <1>1 DEF ControlJob
  <2>8. page'[b].busy = {c.op : c \in Own(b)'} /\ \A c, d \in Own(b)' : c = d
    BY <2>3, <2>5, <2>6
  <2>9. \A other \in Browser \ {b} :
          /\ page'[other].busy = {c.op : c \in Own(other)'}
          /\ \A c, d \in Own(other)' : c = d
    BY <2>5, <2>7 DEF FlagsTellCalls
  <2> QED
    BY <2>8, <2>9 DEF FlagsTellCalls
<1>2. ASSUME NEW c \in calls, NEW state \in ControlAnswers, JobManagement(c, state)
      PROVE  FlagsTellCalls'
  <2> DEFINE answered == [c EXCEPT !.answer = state]
  <2>1. /\ answered.browser = c.browser /\ answered.op = c.op
        /\ calls' = (calls \ {c}) \union {answered} /\ page' = page
    BY <1>0, <1>2 DEF JobManagement, Call
  <2> HIDE DEF answered
  <2> SUFFICES ASSUME NEW b \in Browser
               PROVE  /\ page[b].busy = {d.op : d \in Own(b)'}
                      /\ \A d, e \in Own(b)' : d = e
    BY <2>1 DEF FlagsTellCalls
  <2>2. page[b].busy = {d.op : d \in Own(b)} /\ \A d, e \in Own(b) : d = e
    BY DEF FlagsTellCalls
  <2>3. CASE b = c.browser
    <3>1. Own(b) = {c} /\ Own(b)' = {answered}
      BY <2>1, <2>2, <2>3 DEF Own
    <3> QED
      BY <2>1, <2>2, <3>1
  <2>4. CASE b # c.browser
    <3>1. Own(b)' = Own(b)
      BY <2>1, <2>4 DEF Own
    <3> QED
      BY <2>2, <3>1
  <2> QED
    BY <2>3, <2>4
<1>3. ASSUME NEW c \in calls, OnControlled(c) \/ ControlFails(c)
      PROVE  FlagsTellCalls'
  <2>1. c.browser \in Browser /\ page[c.browser] \in Page
    BY <1>0 DEF Call
  <2>2. calls' = calls \ {c}
    BY <1>3 DEF OnControlled, ControlFails
  <2>3. page'[c.browser].busy = page[c.browser].busy \ {c.op}
    BY <1>0, <1>3, <2>1 DEF OnControlled, ControlFails, Page
  <2>4. \A b \in Browser \ {c.browser} : page'[b].busy = page[b].busy
    BY <1>0, <1>3 DEF OnControlled, ControlFails
  <2> QED
    BY <2>2, <2>3, <2>4, CallOver
<1> QED
  BY <1>1, <1>2, <1>3

\* Every step keeps the flags in agreement with the calls.
LEMMA FlagsStep ==
  ASSUME TypeOK, FlagsTellCalls, [Next]_vars
  PROVE  FlagsTellCalls'
<1>1. CASE UNCHANGED vars
  BY <1>1, FlagsStay DEF vars, clientVars
<1>2. CASE Write
  <2>1. UNCHANGED clientVars
    BY <1>2, WriteType DEF Announcing
  <2> QED
    BY <2>1, FlagsStay DEF clientVars
<1>3. ASSUME NEW b \in Browser, ControlEnds(b) PROVE FlagsTellCalls'
  BY <1>3, ControlKeepsFlags DEF ControlEnds
<1> QED
  BY <1>1, <1>2, <1>3, PageKeepsFlags, ControlKeepsFlags DEF Next, Op

-----------------------------------------------------------------------------
(* The theorems *)

\* The invariant holds before the first write.
LEMMA InitType == Init => TypeOK /\ FlagsTellCalls
<1> SUFFICES ASSUME Init PROVE TypeOK /\ FlagsTellCalls
  OBVIOUS
<1>1. StoreTypeOK
  <2>1. slaves \in SUBSET Worker
    BY DEF Init, EarlierStore
  <2>2. PICK earlier \in [Job -> EarlierJob] :
          jobs = [j \in Job |->
            [state |-> earlier[j].state, slaveID |-> earlier[j].slaveID,
             input |-> NoName, statistics |-> {}]]
    BY DEF Init, EarlierStore
  <2>3. EarlierJob \subseteq JobView
    BY <2>1, UnlistedType DEF EarlierJob, JobView, JobState
  <2>4. \A j \in Job : earlier[j] \in JobView
    BY <2>3
  <2> QED
    BY <2>1, <2>2, <2>4 DEF StoreTypeOK, JobData, JobView
<1>2. NoJobs \in JobList /\ NoLists \in [Worker -> [Job -> JobState \union {"ABSENT", "SHARED"}]]
  BY NoJobsType DEF NoLists
<1>3. page \in [Browser -> Page] /\ loading \in [Browser -> Loading]
  BY <1>2 DEF Init, Page, Loading
<1>4. TypeOK
  <2>1. writes \in 0..MaxWrites /\ faults \in 0..MaxFaults
    BY ActivityAssumption DEF Init, ActivityAssumption
  <2>2. transit \in [Browser -> SUBSET [n : 1..MaxWrites, message : Message]]
    BY DEF Init
  <2>3. snapshots \in [Browser -> SUBSET JobList] /\ calls \subseteq Call
    BY DEF Init
  <2> QED
    BY <1>1, <1>3, <2>1, <2>2, <2>3 DEF TypeOK
<1>5. FlagsTellCalls
  BY DEF Init, FlagsTellCalls, Own
<1> QED
  BY <1>4, <1>5

\* The inductive invariant of Activity.
LEMMA ActivityInvariance == Spec => [](TypeOK /\ FlagsTellCalls)
<1>1. TypeOK /\ FlagsTellCalls /\ [Next]_vars => (TypeOK /\ FlagsTellCalls)'
  BY TypeStep, FlagsStep
<1> QED
  BY InitType, <1>1, PTL DEF Spec

\* Store, messages, pages, snapshots and calls keep their types, whatever is
\* written, broadcast, missed, loaded, refreshed or controlled.
THEOREM ActivityTyping == Spec => []TypeOK
  BY ActivityInvariance, PTL

\* A page never has two control calls under way, and its flags pausing,
\* resuming and stopping are exactly those of the call it waits for
\* (MainController.scala:87-184, JobHandling.scala:110).
THEOREM OneControl == Spec => []OneControlAtATime
<1>1. ASSUME NEW S, \A c, d \in S : c = d PROVE Cardinality(S) <= 1
  <2>1. CASE S = {}
    BY <2>1, FS_EmptySet
  <2>2. ASSUME NEW c \in S PROVE Cardinality(S) = 1
    <3>1. S = {c}
      BY <1>1
    <3> QED
      BY <3>1, FS_Singleton
  <2> QED
    BY <2>1, <2>2
<1>2. FlagsTellCalls => OneControlAtATime
  BY <1>1 DEF FlagsTellCalls, OneControlAtATime, Own
<1> QED
  BY ActivityInvariance, <1>2, PTL
=============================================================================
