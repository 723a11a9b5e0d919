------------------------------ MODULE EtlProofs -------------------------------
(*****************************************************************************)
(* Safety of the ETL system for any number of workers, chains, jobs, files   *)
(* and homes, and any number of faults, ticks and control calls: the         *)
(* invariant EtlInv is inductive, and every step is one of JobQueue.         *)
(*****************************************************************************)
EXTENDS EtlInvariant, TLAPS

USE EntityAssumption, EtlAssumption

-----------------------------------------------------------------------------
(* Requests *)

\* Giving up asks changes only the "ask" of a request, and only that of the
\* awaited requests of the chains concerned.
LEMMA AbandonUpdates ==
  ASSUME updates \subseteq UpdateRequest, faults \in Nat, NEW cs
  PROVE  /\ Abandon(updates, cs) \subseteq UpdateRequest
         /\ \A r \in Abandon(updates, cs) : \E q \in updates :
              /\ r.chain = q.chain /\ r.job = q.job /\ r.state = q.state
              /\ r.ask = 0 => r = q /\ q.chain \notin cs
BY SMT DEF Abandon, UpdateRequest

\* The same of checkouts.
LEMMA AbandonCheckouts ==
  ASSUME checkouts \subseteq CheckoutRequest, faults \in Nat, NEW cs
  PROVE  /\ Abandon(checkouts, cs) \subseteq CheckoutRequest
         /\ \A r \in Abandon(checkouts, cs) :
              r.ask = 0 => r \in checkouts /\ r.chain \notin cs
BY SMT DEF Abandon, CheckoutRequest

\* The same of statistics calls.
LEMMA AbandonPosts ==
  ASSUME posts \subseteq PostRequest, faults \in Nat, NEW cs
  PROVE  /\ Abandon(posts, cs) \subseteq PostRequest
         /\ \A r \in Abandon(posts, cs) :
              r.ask = 0 => r \in posts /\ r.chain \notin cs
BY SMT DEF Abandon, PostRequest

\* The sets of requests are sets of records with the fields the code sends.
LEMMA RequestTypes ==
  ASSUME TypeOK
  PROVE  /\ updates \subseteq UpdateRequest
         /\ checkouts \subseteq CheckoutRequest
         /\ posts \subseteq PostRequest
         /\ faults \in Nat
BY DEF TypeOK

\* updateJobState adds the awaited update and leaves the chain no other one.
LEMMA AskUpdateEffect ==
  ASSUME TypeOK, NEW c \in Chain, NEW state \in JobState, held[c] \in Job, AskUpdate(c, state)
  PROVE  /\ updates' \subseteq UpdateRequest
         /\ \A r \in updates' :
              \/ r = [chain |-> c, job |-> held[c], state |-> state, ask |-> 0]
              \/ \E q \in updates :
                   /\ r.chain = q.chain /\ r.job = q.job /\ r.state = q.state
                   /\ r.ask = 0 => r = q /\ q.chain # c
<1>1. updates' = Abandon(updates, {c}) \union
                   {[chain |-> c, job |-> held[c], state |-> state, ask |-> 0]}
  BY DEF AskUpdate
<1>2. /\ Abandon(updates, {c}) \subseteq UpdateRequest
      /\ \A r \in Abandon(updates, {c}) : \E q \in updates :
           /\ r.chain = q.chain /\ r.job = q.job /\ r.state = q.state
           /\ r.ask = 0 => r = q /\ q.chain \notin {c}
  BY RequestTypes, AbandonUpdates
<1>3. [chain |-> c, job |-> held[c], state |-> state, ask |-> 0] \in UpdateRequest
  BY DEF UpdateRequest
<1> QED
  BY <1>1, <1>2, <1>3

\* checkForJobs makes the chain wait for a checkout and hold no job.
LEMMA AskCheckoutEffect ==
  ASSUME TypeOK, NEW c \in Chain, AskCheckout(c)
  PROVE  /\ pc' = [pc EXCEPT ![c] = "checkout"]
         /\ reply' = [reply EXCEPT ![c] = "waiting"]
         /\ held' = [held EXCEPT ![c] = NoJob]
         /\ checkouts' \subseteq CheckoutRequest
         /\ \A r \in checkouts' : r.ask = 0 => r.chain = c \/ r \in checkouts
<1>1. /\ checkouts' = Abandon(checkouts, {c}) \union {[chain |-> c, ask |-> 0]}
      /\ pc' = [pc EXCEPT ![c] = "checkout"]
      /\ reply' = [reply EXCEPT ![c] = "waiting"]
      /\ held' = [held EXCEPT ![c] = NoJob]
  BY DEF AskCheckout, Await
<1>2. /\ Abandon(checkouts, {c}) \subseteq CheckoutRequest
      /\ \A r \in Abandon(checkouts, {c}) : r.ask = 0 => r \in checkouts /\ r.chain \notin {c}
  BY RequestTypes, AbandonCheckouts
<1>3. [chain |-> c, ask |-> 0] \in CheckoutRequest
  BY DEF CheckoutRequest
<1>4. checkouts' \subseteq CheckoutRequest
  BY <1>1, <1>2, <1>3
<1>5. \A r \in checkouts' : r.ask = 0 => r.chain = c \/ r \in checkouts
  <2> SUFFICES ASSUME NEW r \in checkouts', r.ask = 0 PROVE r.chain = c \/ r \in checkouts
    OBVIOUS
  <2>1. CASE r \in Abandon(checkouts, {c})
    BY <2>1, <1>2
  <2>2. CASE r = [chain |-> c, ask |-> 0]
    BY <2>2
  <2> QED
    BY <2>1, <2>2, <1>1
<1> QED
  BY <1>1, <1>4, <1>5

-----------------------------------------------------------------------------
(* The store *)

\* changeState writes the state and nothing else of one document.
LEMMA ChangeStateEffect ==
  ASSUME jobs \in [Job -> JobData], NEW j \in Job, NEW state \in JobState, ChangeState(j, state)
  PROVE  /\ jobs' \in [Job -> JobData]
         /\ jobs[j].state # "ABSENT"
         /\ jobs'[j].state = state /\ jobs'[j].slaveID = jobs[j].slaveID
         /\ \A k \in Job : k # j => jobs'[k] = jobs[k]
<1>1. [jobs[j] EXCEPT !.state = state] \in JobData
  BY DEF JobData
<1>2. jobs' = [jobs EXCEPT ![j] = [jobs[j] EXCEPT !.state = state]]
  BY DEF ChangeState
<1>3. [jobs[j] EXCEPT !.state = state].state = state
  BY DEF JobData
<1>4. [jobs[j] EXCEPT !.state = state].slaveID = jobs[j].slaveID
  BY DEF JobData
<1> QED
  BY <1>1, <1>2, <1>3, <1>4 DEF ChangeState, Exists

\* A document keeps its type when it is claimed for a slave.
LEMMA ClaimedDocument ==
  ASSUME NEW d \in JobData, NEW w \in Worker
  PROVE  [d EXCEPT !.state = "CLAIMED", !.slaveID = w] \in JobData
BY DEF JobData, JobState

\* checkoutJob turns one NEW document into a CLAIMED one of the slave.
LEMMA CheckoutJobEffect ==
  ASSUME jobs \in [Job -> JobData], NEW j \in Job, NEW w \in Worker, CheckoutJob(j, w)
  PROVE  /\ jobs' \in [Job -> JobData]
         /\ jobs[j].state = "NEW"
         /\ jobs'[j].state = "CLAIMED" /\ jobs'[j].slaveID = w
         /\ \A k \in Job : k # j => jobs'[k] = jobs[k]
<1> DEFINE claimed == [jobs[j] EXCEPT !.state = "CLAIMED", !.slaveID = w]
<1>1. claimed \in JobData
  BY ClaimedDocument
<1>2. jobs' = [jobs EXCEPT ![j] = claimed]
  BY DEF CheckoutJob
<1>3. claimed.state = "CLAIMED" /\ claimed.slaveID = w
  BY DEF JobData
<1> HIDE DEF claimed
<1> QED
  BY <1>1, <1>2, <1>3 DEF CheckoutJob

\* createJob adds one document in state NEW and touches no other.
LEMMA CreateJobEffect ==
  ASSUME jobs \in [Job -> JobData], NEW j \in Job, NEW n \in Name,
         NEW w \in Worker \union {NoWorker}, CreateJob(j, n, w)
  PROVE  /\ jobs' \in [Job -> JobData]
         /\ jobs[j].state = "ABSENT"
         /\ jobs'[j].state = "NEW"
         /\ \A k \in Job : k # j => jobs'[k] = jobs[k]
<1> DEFINE doc == [state |-> "NEW", input |-> n, slaveID |-> w, statistics |-> {}]
<1>1. doc \in JobData
  BY DEF JobData, JobState
<1>2. jobs' = [jobs EXCEPT ![j] = doc]
  BY DEF CreateJob
<1>3. doc.state = "NEW"
  OBVIOUS
<1> HIDE DEF doc
<1> QED
  BY <1>1, <1>2, <1>3 DEF CreateJob, Exists

\* A document keeps its type when statistics are stored in it.
LEMMA DescribedDocument ==
  ASSUME NEW d \in JobData, NEW of \in SUBSET Job
  PROVE  /\ [d EXCEPT !.statistics = of] \in JobData
         /\ [d EXCEPT !.statistics = of].state = d.state
         /\ [d EXCEPT !.statistics = of].slaveID = d.slaveID
BY DEF JobData

\* updateStatistics leaves states and slaves alone.
LEMMA UpdateStatisticsEffect ==
  ASSUME jobs \in [Job -> JobData], NEW j \in Job, NEW of \in SUBSET Job,
         UpdateStatistics(j, of)
  PROVE  /\ jobs' \in [Job -> JobData]
         /\ \A k \in Job : jobs'[k].state = jobs[k].state /\ jobs'[k].slaveID = jobs[k].slaveID
<1> DEFINE doc == [jobs[j] EXCEPT !.statistics = of]
<1>1. jobs[j] \in JobData
  OBVIOUS
<1>2. doc \in JobData /\ doc.state = jobs[j].state /\ doc.slaveID = jobs[j].slaveID
  BY <1>1, DescribedDocument
<1>3. jobs' = [jobs EXCEPT ![j] = doc]
  BY DEF UpdateStatistics
<1> HIDE DEF doc
<1> QED
  BY <1>1, <1>2, <1>3

-----------------------------------------------------------------------------
(* Files *)

\* The events of the inbox watches keep their type.
LEMMA NotifyTyped ==
  ASSUME TypeOK, NEW h, NEW n \in Name, NEW kind \in EventKind, Notify(h, n, kind)
  PROVE  events' \in [Worker -> SUBSET Event]
<1>1. [name |-> n, kind |-> kind] \in [name : Name, kind : EventKind]
  OBVIOUS
<1>2. events \in [Worker -> SUBSET Event]
  BY DEF TypeOK
<1> QED
  BY <1>1, <1>2 DEF Notify, Event

\* Moving a file to work keeps the directories well-typed.
LEMMA MoveToWorkTyped ==
  ASSUME FileTypeOK, NEW h \in Home, NEW j \in Job, NEW n \in Name, MoveToWork(h, j, n)
  PROVE  FileTypeOK'
BY DEF FileTypeOK, MoveToWork, CanMoveToWork, Area

\* So does a rename that fails after mkdirs().
LEMMA RenameToWorkFailsTyped ==
  ASSUME FileTypeOK, NEW h \in Home, NEW j \in Job, NEW n \in Name, RenameToWorkFails(h, j, n)
  PROVE  FileTypeOK'
BY DEF FileTypeOK, RenameToWorkFails, Area

\* So does archiving a sub-directory of work.
LEMMA MoveToArchiveTyped ==
  ASSUME FileTypeOK, NEW h, NEW j \in Job, MoveToArchive(h, j)
  PROVE  FileTypeOK'
<1>1. CASE h \in Home
  BY <1>1 DEF FileTypeOK, MoveToArchive, Area
<1>2. CASE h \notin Home
  <2>1. work' = work /\ archive' = archive
    BY <1>2 DEF FileTypeOK, MoveToArchive, Area
  <2> QED
    BY <2>1 DEF FileTypeOK, MoveToArchive
<1> QED
  BY <1>1, <1>2

\* So does a move to the failed area, whether or not its rename fails.
LEMMA MoveToFailedTyped ==
  ASSUME FileTypeOK, NEW h, NEW j \in Job, MoveToFailed(h, j) \/ RenameToFailedFails(h, j)
  PROVE  FileTypeOK'
<1>1. CASE h \in Home
  <2>1. CASE MoveToFailed(h, j)
    BY <1>1, <2>1 DEF FileTypeOK, MoveToFailed, Area
  <2>2. CASE RenameToFailedFails(h, j)
    <3>1. [failed EXCEPT ![h][j] = EmptyDir] \in Area
      BY <1>1 DEF FileTypeOK, Area
    <3> QED
      BY <2>2, <3>1 DEF FileTypeOK, RenameToFailedFails
  <2> QED
    BY <2>1, <2>2
<1>2. CASE h \notin Home
  <2>1. UNCHANGED fileVars
    BY <1>2 DEF FileTypeOK, MoveToFailed, RenameToFailedFails, Area, fileVars
  <2> QED
    BY <2>1 DEF FileTypeOK, fileVars
<1> QED
  BY <1>1, <1>2

-----------------------------------------------------------------------------
(* Steps *)

\* Every step keeps the types: no handler of the worker or the supervisor
\* leaves a value the next one does not understand.
LEMMA TypeStep ==
  ASSUME TypeOK, ChainKnowsItsJob, Next
  PROVE  TypeOK'
<1> USE DEF TypeOK, StoreTypeOK, FileTypeOK, workerVars, requestVars, chainVars, userVars,
            boundVars, fileVars, areas
<1>1. ASSUME NEW h \in Home, NEW n \in Name, NEW u \in Upload, DropFile(h, n, u) PROVE TypeOK'
  <2>1. events' \in [Worker -> SUBSET Event]
    BY <1>1, NotifyTyped DEF DropFile, EventKind
  <2> QED
    BY <1>1, <2>1 DEF DropFile
<1>2. ASSUME NEW u \in Upload, FinishWriting(u) PROVE TypeOK'
  <2>1. nameOf[u] \in Name
    BY <1>2 DEF FinishWriting
  <2>2. events' \in [Worker -> SUBSET Event]
    BY <1>2, <2>1, NotifyTyped DEF FinishWriting, EventKind
  <2> QED
    BY <1>2, <2>1, <2>2 DEF FinishWriting
<1>3. ASSUME NEW w \in Worker, Start(w) PROVE TypeOK'
  BY <1>3 DEF Start, Event
<1>4. ASSUME NEW w \in Worker, OnRegistered(w) PROVE TypeOK'
  BY <1>4 DEF OnRegistered
<1>5. ASSUME NEW w \in Worker, RegistrationTimesOut(w) PROVE TypeOK'
  BY <1>5 DEF RegistrationTimesOut, Fault
<1>6. ASSUME NEW w \in Worker, Crash(w) PROVE TypeOK'
  BY <1>6, AbandonUpdates, AbandonCheckouts, AbandonPosts, RequestTypes DEF Crash, Fault,
     ScriptState
<1>7. ASSUME NEW w \in Worker, NEW e \in events[w], HandleEvent(w, e) PROVE TypeOK'
  <2>1. e \in [name : Name, kind : EventKind]
    BY <1>7 DEF HandleEvent, Event
  <2> QED
    BY <1>7, <2>1 DEF HandleEvent, CreateRequest
<1>34. ASSUME NEW w \in Worker, ListInbox(w) PROVE TypeOK'
  BY <1>34 DEF ListInbox, Event, EventKind
<1>8. ASSUME NEW c \in Chain, Tick(c) PROVE TypeOK'
  BY <1>8, AskCheckoutEffect DEF Tick, Waits
<1>9. ASSUME NEW c \in Chain, ChainEnds(c) PROVE TypeOK'
  BY <1>9, AbandonCheckouts, RequestTypes DEF ChainEnds, AskTimesOut, Fault, Await
<1>10. ASSUME NEW c \in Chain, TakeJob(c) PROVE TypeOK'
  <2>1. held[c] \in Job
    BY <1>10 DEF TakeJob, ChainKnowsItsJob
  <2>2. AskUpdate(c, "RUNNING") /\ "RUNNING" \in JobState
    BY <1>10 DEF TakeJob, JobState
  <2>3. updates' \subseteq UpdateRequest
    BY <2>1, <2>2, AskUpdateEffect
  <2>4. FileTypeOK'
    BY <1>10, <2>1, MoveToWorkTyped DEF TakeJob, HomeOfChain
  <2>5. runBy' \in [Job -> Chain \union {NoChain}] /\ timers' \subseteq {j \in Job : runBy'[j] \in Chain}
    BY <1>10, <2>1 DEF TakeJob
  <2>6. pc' \in [Chain -> Waits \union {"idle"}] /\ reply' \in [Chain -> {"waiting", "empty", "done"}]
    BY <1>10 DEF TakeJob, Await, Waits
  <2> QED
    BY <1>10, <2>3, <2>4, <2>5, <2>6 DEF TakeJob
<1>11. ASSUME NEW c \in Chain, RejectJob(c) PROVE TypeOK'
  <2>1. held[c] \in Job
    BY <1>11 DEF RejectJob, ChainKnowsItsJob
  <2>2. AskUpdate(c, "STOPPED") /\ "STOPPED" \in JobState
    BY <1>11 DEF RejectJob, JobState
  <2>3. updates' \subseteq UpdateRequest
    BY <2>1, <2>2, AskUpdateEffect
  <2>4. FileTypeOK'
    BY <1>11, <2>1, RenameToWorkFailsTyped DEF RejectJob, HomeOfChain
  <2>6. faults' \in 0 .. MaxFaults
    BY <1>11 DEF RejectJob, Fault
  <2>5. pc' \in [Chain -> Waits \union {"idle"}] /\ reply' \in [Chain -> {"waiting", "empty", "done"}]
    BY <1>11 DEF RejectJob, Await, Waits
  <2> QED
    BY <1>11, <2>3, <2>4, <2>5, <2>6 DEF RejectJob
<1>12. ASSUME NEW c \in Chain, OnRunning(c) PROVE TypeOK'
  BY <1>12 DEF OnRunning, Await, Waits, ScriptState
<1>13. ASSUME NEW c \in Chain, OnResult(c) PROVE TypeOK'
  <2>1. held[c] \in Job
    BY <1>13 DEF OnResult, ChainKnowsItsJob
  <2>2. AskUpdate(c, "SUCCESS") /\ "SUCCESS" \in JobState
    BY <1>13 DEF OnResult, JobState
  <2>3. updates' \subseteq UpdateRequest
    BY <2>1, <2>2, AskUpdateEffect
  <2> QED
    BY <1>13, <2>1, <2>3 DEF OnResult, Await, Waits
<1>14. ASSUME NEW c \in Chain, OnSuccess(c) PROVE TypeOK'
  <2>1. held[c] \in Job
    BY <1>14 DEF OnSuccess, ChainKnowsItsJob
  <2> QED
    BY <1>14, <2>1 DEF OnSuccess, Await, Waits, PostRequest
<1>15. ASSUME NEW c \in Chain, ProcessingFails(c) PROVE TypeOK'
  <2>1. held[c] \in Job
    BY <1>15 DEF ProcessingFails, ChainKnowsItsJob
  <2>2. AskUpdate(c, "FAILED") /\ "FAILED" \in JobState
    BY <1>15 DEF ProcessingFails, JobState
  <2>3. updates' \subseteq UpdateRequest
    BY <2>1, <2>2, AskUpdateEffect
  <2> QED
    BY <1>15, <2>1, <2>3 DEF ProcessingFails, AskTimesOut, Fault, Await, Waits
<1>16. ASSUME NEW c \in Chain, OutcomeSucceeds(c) PROVE TypeOK'
  <2>1. held[c] \in Job
    BY <1>16 DEF OutcomeSucceeds, ChainKnowsItsJob
  <2>2. /\ pc' \in [Chain -> Waits \union {"idle"}]
        /\ reply' \in [Chain -> {"waiting", "empty", "done"}]
        /\ held' \in [Chain -> Job \union {NoJob}]
        /\ checkouts' \subseteq CheckoutRequest
    <3>1. AskCheckout(c)
      BY <1>16 DEF OutcomeSucceeds
    <3> QED
      BY <3>1, AskCheckoutEffect DEF Waits
  <2>3. posts' \subseteq PostRequest
    BY <1>16, AbandonPosts, RequestTypes DEF OutcomeSucceeds
  <2>4. faults' \in 0 .. MaxFaults
    BY <1>16 DEF OutcomeSucceeds, AskTimesOut, Fault
  <2>5. outcomes' \subseteq [job : Job, to : {"archive", "failed"}]
    BY <1>16, <2>1 DEF OutcomeSucceeds
  <2> QED
    BY <1>16, <2>2, <2>3, <2>4, <2>5 DEF OutcomeSucceeds
<1>17. ASSUME NEW c \in Chain, OutcomeFails(c) PROVE TypeOK'
  <2>1. held[c] \in Job
    BY <1>17 DEF OutcomeFails, ChainKnowsItsJob
  <2>2. /\ pc' \in [Chain -> Waits \union {"idle"}]
        /\ reply' \in [Chain -> {"waiting", "empty", "done"}]
        /\ held' \in [Chain -> Job \union {NoJob}]
        /\ checkouts' \subseteq CheckoutRequest
    <3>1. AskCheckout(c)
      BY <1>17 DEF OutcomeFails
    <3> QED
      BY <3>1, AskCheckoutEffect DEF Waits
  <2>3. updates' \subseteq UpdateRequest
    BY <1>17, AbandonUpdates, RequestTypes DEF OutcomeFails
  <2>4. faults' \in 0 .. MaxFaults
    BY <1>17 DEF OutcomeFails, AskTimesOut, Fault
  <2>5. outcomes' \subseteq [job : Job, to : {"archive", "failed"}]
    BY <1>17, <2>1 DEF OutcomeFails
  <2> QED
    BY <1>17, <2>2, <2>3, <2>4, <2>5 DEF OutcomeFails
<1>18. ASSUME NEW c \in Chain, StoppedEnds(c) PROVE TypeOK'
  <2>1. held[c] \in Job
    BY <1>18 DEF StoppedEnds, ChainKnowsItsJob
  <2>2. /\ pc' \in [Chain -> Waits \union {"idle"}]
        /\ reply' \in [Chain -> {"waiting", "empty", "done"}]
        /\ held' \in [Chain -> Job \union {NoJob}]
        /\ checkouts' \subseteq CheckoutRequest
    <3>1. AskCheckout(c)
      BY <1>18 DEF StoppedEnds
    <3> QED
      BY <3>1, AskCheckoutEffect DEF Waits
  <2>3. updates' \subseteq UpdateRequest
    BY <1>18, AbandonUpdates, RequestTypes DEF StoppedEnds
  <2>4. faults' \in 0 .. MaxFaults
    BY <1>18 DEF StoppedEnds, AskTimesOut, Fault
  <2> QED
    BY <1>18, <2>1, <2>2, <2>3, <2>4 DEF StoppedEnds
<1>19. ASSUME NEW j \in Job, ArchiveFile(j) PROVE TypeOK'
  <2>1. FileTypeOK'
    BY <1>19, MoveToArchiveTyped DEF ArchiveFile
  <2>2. faults' \in 0 .. MaxFaults
    BY <1>19 DEF ArchiveFile, Fault
  <2> QED
    BY <1>19, <2>1, <2>2 DEF ArchiveFile
<1>20. ASSUME NEW j \in Job, FileFails(j) PROVE TypeOK'
  <2>1. FileTypeOK'
    BY <1>20, MoveToFailedTyped DEF FileFails
  <2>2. faults' \in 0 .. MaxFaults
    BY <1>20 DEF FileFails, Fault
  <2> QED
    BY <1>20, <2>1, <2>2 DEF FileFails
<1>21. ASSUME NEW j \in Job, RefreshCycle(j) PROVE TypeOK'
  BY <1>21 DEF RefreshCycle, PostRequest
<1>22. ASSUME NEW j \in Job, ScriptStarts(j) PROVE TypeOK'
  BY <1>22 DEF ScriptStarts, ScriptState
<1>23. ASSUME NEW j \in Job, ScriptReturns(j) PROVE TypeOK'
  BY <1>23 DEF ScriptReturns, ScriptState
<1>24. ASSUME NEW j \in Job, ScriptThrows(j) PROVE TypeOK'
  BY <1>24 DEF ScriptThrows, ScriptState
<1>25. ASSUME NEW w \in Worker, HandleRegister(w) PROVE TypeOK'
  BY <1>25 DEF HandleRegister, UpsertSlave
<1>26. ASSUME NEW r \in creates, HandleCreate(r) PROVE TypeOK'
  <2>1. jobs' \in [Job -> JobData]
    BY <1>26, CreateJobEffect DEF HandleCreate, CreateRequest
  <2> QED
    BY <1>26, <2>1 DEF HandleCreate
<1>27. ASSUME NEW r \in checkouts, HandleCheckout(r) PROVE TypeOK'
  <2>1. r.chain \in Chain /\ WorkerOf[r.chain] \in Worker
    BY DEF CheckoutRequest
  <2>2. jobs' \in [Job -> JobData]
    BY <1>27, <2>1, CheckoutJobEffect DEF HandleCheckout
  <2>3. held' \in [Chain -> Job \union {NoJob}]
    BY <1>27, <2>1 DEF HandleCheckout
  <2>4. reply' \in [Chain -> {"waiting", "empty", "done"}]
    BY <1>27, <2>1 DEF HandleCheckout, Answer
  <2> QED
    BY <1>27, <2>2, <2>3, <2>4 DEF HandleCheckout
<1>28. ASSUME NEW r \in updates, HandleUpdate(r) PROVE TypeOK'
  <2>1. jobs' \in [Job -> JobData]
    BY <1>28, ChangeStateEffect DEF HandleUpdate, UpdateRequest
  <2> QED
    BY <1>28, <2>1 DEF HandleUpdate, UpdateRequest, Answer
<1>29. ASSUME NEW r \in posts, HandlePost(r) PROVE TypeOK'
  <2>1. jobs' \in [Job -> JobData]
    BY <1>29, UpdateStatisticsEffect DEF HandlePost, PostRequest
  <2> QED
    BY <1>29, <2>1 DEF HandlePost, PostRequest, Answer
<1>30. ASSUME NEW j \in Job, NEW s \in ControlAnswers, WorkerAnswersControl(j, s) PROVE TypeOK'
  BY <1>30 DEF WorkerAnswersControl, ControlRequest, JobState
<1>31. ASSUME NEW r \in controls, HandleControl(r) PROVE TypeOK'
  <2>1. jobs' \in [Job -> JobData]
    BY <1>31, ChangeStateEffect DEF HandleControl, ControlRequest
  <2> QED
    BY <1>31, <2>1 DEF HandleControl
<1>32. ASSUME RequestLost PROVE TypeOK'
  BY <1>32 DEF RequestLost, Fault
<1>33. ASSUME RequestFails PROVE TypeOK'
  BY <1>33 DEF RequestFails, Fault, Answer, CheckoutRequest, UpdateRequest, PostRequest
<1> QED
  BY <1>1, <1>2, <1>3, <1>4, <1>5, <1>6, <1>7, <1>8, <1>9, <1>10, <1>11, <1>12, <1>13,
     <1>14, <1>15, <1>16, <1>17, <1>18, <1>19, <1>20, <1>21, <1>22, <1>23, <1>24, <1>25,
     <1>26, <1>27, <1>28, <1>29, <1>30, <1>31, <1>32, <1>33, <1>34 DEF Next, ChainStep,
     SupervisorStep


-----------------------------------------------------------------------------
(* What a step can do to a job, its run and the calls about it *)

\* The life of a job document: absent, NEW, claimed by a worker, and from then
\* on only overwritten by calls under way.
LEMMA JobsChange ==
  ASSUME TypeOK, Next, NEW k \in Job
  PROVE  \/ jobs'[k].state = jobs[k].state /\ jobs'[k].slaveID = jobs[k].slaveID
         \/ jobs[k].state = "ABSENT" /\ jobs'[k].state = "NEW"
         \/ jobs[k].state = "NEW" /\ jobs'[k].state = "CLAIMED" /\ jobs'[k].slaveID \in Worker
         \/ /\ jobs[k].state # "ABSENT" /\ jobs'[k].slaveID = jobs[k].slaveID
            /\ \E r \in updates \union controls : r.job = k /\ jobs'[k].state = r.state
<1> DEFINE Goal ==
       \/ jobs'[k].state = jobs[k].state /\ jobs'[k].slaveID = jobs[k].slaveID
       \/ jobs[k].state = "ABSENT" /\ jobs'[k].state = "NEW"
       \/ jobs[k].state = "NEW" /\ jobs'[k].state = "CLAIMED" /\ jobs'[k].slaveID \in Worker
       \/ /\ jobs[k].state # "ABSENT" /\ jobs'[k].slaveID = jobs[k].slaveID
          /\ \E r \in updates \union controls : r.job = k /\ jobs'[k].state = r.state
<1>0. jobs \in [Job -> JobData]
  BY DEF TypeOK, StoreTypeOK
<1>1. CASE UNCHANGED jobs
  BY <1>1
<1>2. ASSUME NEW r \in creates, HandleCreate(r) PROVE Goal
  <2>1. r.job \in Job /\ r.input \in Name /\ r.slave \in Worker \union {NoWorker}
    BY DEF TypeOK, CreateRequest
  <2>2. CreateJob(r.job, r.input, r.slave)
    BY <1>2 DEF HandleCreate
  <2> QED
    BY <1>0, <2>1, <2>2, CreateJobEffect
<1>3. ASSUME NEW r \in checkouts, HandleCheckout(r) PROVE Goal
  <2>1. WorkerOf[r.chain] \in Worker
    BY DEF TypeOK, CheckoutRequest
  <2>2. ASSUME NEW j \in Job, CheckoutJob(j, WorkerOf[r.chain]) PROVE Goal
    BY <1>0, <2>1, <2>2, CheckoutJobEffect
  <2> QED
    BY <1>3, <2>2 DEF HandleCheckout
<1>4. ASSUME NEW r \in updates, HandleUpdate(r) PROVE Goal
  <2>1. r.job \in Job /\ r.state \in JobState
    BY DEF TypeOK, UpdateRequest
  <2>2. ChangeState(r.job, r.state)
    BY <1>4 DEF HandleUpdate
  <2> QED
    BY <1>0, <2>1, <2>2, ChangeStateEffect
<1>5. ASSUME NEW r \in posts, HandlePost(r) PROVE Goal
  <2>1. r.job \in Job /\ r.of \in SUBSET Job
    BY DEF TypeOK, PostRequest
  <2>2. UpdateStatistics(r.job, r.of)
    BY <1>5 DEF HandlePost
  <2> QED
    BY <1>0, <2>1, <2>2, UpdateStatisticsEffect
<1>6. ASSUME NEW r \in controls, HandleControl(r) PROVE Goal
  <2>1. r.job \in Job /\ r.state \in JobState
    BY DEF TypeOK, ControlRequest
  <2>2. ChangeState(r.job, r.state)
    BY <1>6 DEF HandleControl
  <2> QED
    BY <1>0, <2>1, <2>2, ChangeStateEffect
<1> QED
  BY <1>1, <1>2, <1>3, <1>4, <1>5, <1>6
     DEF Next, ChainStep, SupervisorStep, DropFile, FinishWriting, Start, OnRegistered,
         RegistrationTimesOut, Crash, ListInbox, HandleEvent, Tick, ChainEnds, TakeJob, RejectJob, OnRunning,
         OnResult, OnSuccess, ProcessingFails, OutcomeSucceeds, OutcomeFails, StoppedEnds,
         ArchiveFile, FileFails, RefreshCycle, ScriptStarts, ScriptReturns, ScriptThrows,
         HandleRegister, WorkerAnswersControl, RequestLost, RequestFails

\* A claimed job stays claimed, with the slave it has.
LEMMA ClaimedForEver ==
  ASSUME TypeOK, LateWrites, Next, NEW k \in Job, Claimed(k)
  PROVE  Claimed(k)' /\ jobs'[k].slaveID = jobs[k].slaveID
<1>1. \A r \in updates \union controls : r.state \in JobState
  BY DEF TypeOK, UpdateRequest, ControlRequest
<1> QED
  BY <1>1, JobsChange DEF Claimed, LateWrites, JobState

\* The run of a job starts once, for a claimed job.
LEMMA ScriptChange ==
  ASSUME EtlInv, Next, NEW k \in Job
  PROVE  \/ script'[k] = script[k]
         \/ script[k] = "none" /\ Claimed(k) /\ script'[k] = "queued"
         \/ ScriptActive(k)
<1> DEFINE Goal ==
       \/ script'[k] = script[k]
       \/ script[k] = "none" /\ Claimed(k) /\ script'[k] = "queued"
       \/ ScriptActive(k)
<1>0. script \in [Job -> ScriptState]
  BY DEF EtlInv, TypeOK
<1>1. CASE UNCHANGED script
  BY <1>1
<1>2. ASSUME NEW c \in Chain, OnRunning(c) PROVE Goal
  <2>1. held[c] \in Job /\ script[held[c]] = "none"
    BY <1>2 DEF OnRunning, EtlInv, ChainKnowsItsJob
  <2>2. Claimed(held[c])
    BY <2>1 DEF EtlInv, SoleProcessor, Claimed
  <2> QED
    BY <1>0, <1>2, <2>1, <2>2 DEF OnRunning
<1>3. ASSUME NEW j \in Job, ScriptStarts(j) \/ ScriptReturns(j) \/ ScriptThrows(j) PROVE Goal
  BY <1>0, <1>3 DEF ScriptStarts, ScriptReturns, ScriptThrows, ScriptActive
<1>4. ASSUME NEW w \in Worker, Crash(w) PROVE Goal
  BY <1>0, <1>4 DEF Crash
<1> QED
  BY <1>1, <1>2, <1>3, <1>4
     DEF Next, ChainStep, SupervisorStep, workerVars, DropFile, FinishWriting, Start,
         OnRegistered, RegistrationTimesOut, ListInbox, HandleEvent, Tick, ChainEnds, TakeJob, RejectJob,
         OnResult, OnSuccess, ProcessingFails, OutcomeSucceeds, OutcomeFails, StoppedEnds,
         ArchiveFile, FileFails, RefreshCycle, HandleRegister, HandleCreate, HandleCheckout,
         HandleUpdate, HandlePost, WorkerAnswersControl, HandleControl, RequestLost, RequestFails

\* A state is only ever reported for the job a chain holds, and SUCCESS only
\* by a chain that has its script's reply.
LEMMA UpdatesChange ==
  ASSUME EtlInv, Next, NEW r \in updates'
  PROVE  \/ \E q \in updates : r.job = q.job /\ r.state = q.state
         \/ \E c \in Chain :
              /\ held[c] \in Job /\ r.job = held[c]
              /\ r.state \in {"RUNNING", "STOPPED", "SUCCESS", "FAILED"}
              /\ r.state = "SUCCESS" => pc[c] = "script" /\ reply[c] = "done"
<1> DEFINE Old == \E q \in updates : r.job = q.job /\ r.state = q.state
           New == \E c \in Chain :
                    /\ held[c] \in Job /\ r.job = held[c]
                    /\ r.state \in {"RUNNING", "STOPPED", "SUCCESS", "FAILED"}
                    /\ r.state = "SUCCESS" => pc[c] = "script" /\ reply[c] = "done"
<1>0. TypeOK /\ ChainKnowsItsJob
  BY DEF EtlInv
<1>1. CASE updates' \subseteq updates
  BY <1>1
<1>2. ASSUME NEW cs, updates' = Abandon(updates, cs) PROVE Old
  <2>1. \A x \in Abandon(updates, cs) : \E q \in updates : x.job = q.job /\ x.state = q.state
    BY <1>0, RequestTypes, AbandonUpdates
  <2> QED
    BY <1>2, <2>1
<1>3. ASSUME NEW c \in Chain, NEW state \in {"RUNNING", "STOPPED", "SUCCESS", "FAILED"},
             held[c] \in Job, AskUpdate(c, state),
             state = "SUCCESS" => pc[c] = "script" /\ reply[c] = "done"
      PROVE  Old \/ New
  <2>1. state \in JobState
    BY DEF JobState
  <2>2. \/ r = [chain |-> c, job |-> held[c], state |-> state, ask |-> 0]
        \/ \E q \in updates : r.job = q.job /\ r.state = q.state
    BY <1>0, <1>3, <2>1, AskUpdateEffect
  <2> QED
    BY <1>3, <2>2
<1>4. ASSUME NEW c \in Chain, TakeJob(c) PROVE Old \/ New
  BY <1>0, <1>3, <1>4 DEF TakeJob, ChainKnowsItsJob
<1>5. ASSUME NEW c \in Chain, RejectJob(c) PROVE Old \/ New
  BY <1>0, <1>3, <1>5 DEF RejectJob, ChainKnowsItsJob
<1>6. ASSUME NEW c \in Chain, OnResult(c) PROVE Old \/ New
  BY <1>0, <1>3, <1>6 DEF OnResult, ChainKnowsItsJob
<1>7. ASSUME NEW c \in Chain, ProcessingFails(c) PROVE Old \/ New
  BY <1>0, <1>3, <1>7 DEF ProcessingFails, ChainKnowsItsJob
<1>8. ASSUME NEW c \in Chain, OutcomeFails(c) \/ StoppedEnds(c) PROVE Old
  BY <1>2, <1>8 DEF OutcomeFails, StoppedEnds
<1>9. ASSUME NEW w \in Worker, Crash(w) PROVE Old
  BY <1>2, <1>9 DEF Crash
<1> QED
  BY <1>1, <1>4, <1>5, <1>6, <1>7, <1>8, <1>9
     DEF Next, ChainStep, SupervisorStep, requestVars, DropFile, FinishWriting, Start,
         OnRegistered, RegistrationTimesOut, ListInbox, HandleEvent, Tick, ChainEnds, OnRunning, OnSuccess,
         OutcomeSucceeds, ArchiveFile, FileFails, RefreshCycle, ScriptStarts, ScriptReturns,
         ScriptThrows, HandleRegister, HandleCreate, HandleCheckout, HandleUpdate, HandlePost,
         WorkerAnswersControl, HandleControl, RequestLost, RequestFails

\* Control answers are about jobs that have been claimed.
LEMMA ControlsChange ==
  ASSUME Next, NEW r \in controls'
  PROVE  \/ r \in controls
         \/ /\ r.job \in Job /\ jobs[r.job].state \in {"RUNNING", "PAUSED", "STOPPED"}
            /\ r.state \in ControlAnswers
<1>1. ASSUME NEW j \in Job, NEW s \in ControlAnswers, WorkerAnswersControl(j, s)
      PROVE  \/ r \in controls
             \/ /\ r.job \in Job /\ jobs[r.job].state \in {"RUNNING", "PAUSED", "STOPPED"}
                /\ r.state \in ControlAnswers
  BY <1>1 DEF WorkerAnswersControl
<1> QED
  BY <1>1
     DEF Next, ChainStep, SupervisorStep, requestVars, DropFile, FinishWriting, Start,
         OnRegistered, RegistrationTimesOut, Crash, ListInbox, HandleEvent, Tick, ChainEnds, TakeJob,
         RejectJob, OnRunning, OnResult, OnSuccess, ProcessingFails, OutcomeSucceeds,
         OutcomeFails, StoppedEnds, ArchiveFile, FileFails, RefreshCycle, ScriptStarts,
         ScriptReturns, ScriptThrows, HandleRegister, HandleCreate, HandleCheckout, HandleUpdate,
         HandlePost, HandleControl, RequestLost, RequestFails

\* A chain comes to hold a job only when the supervisor claims it for it.
LEMMA HeldChange ==
  ASSUME TypeOK, Next, NEW c \in Chain
  PROVE  \/ held'[c] \in {held[c], NoJob}
         \/ \E j \in Job :
              /\ jobs[j].state = "NEW" /\ jobs'[j].state = "CLAIMED"
              /\ jobs'[j].slaveID = WorkerOf[c]
              /\ held'[c] = j /\ \A d \in Chain : d # c => held'[d] = held[d]
<1> DEFINE Goal ==
       \/ held'[c] \in {held[c], NoJob}
       \/ \E j \in Job :
            /\ jobs[j].state = "NEW" /\ jobs'[j].state = "CLAIMED"
            /\ jobs'[j].slaveID = WorkerOf[c]
            /\ held'[c] = j /\ \A d \in Chain : d # c => held'[d] = held[d]
<1>0. jobs \in [Job -> JobData] /\ held \in [Chain -> Job \union {NoJob}]
  BY DEF TypeOK, StoreTypeOK
<1>1. CASE UNCHANGED held
  BY <1>1
<1>2. ASSUME NEW d \in Chain, AskCheckout(d) \/ ChainEnds(d) PROVE Goal
  BY <1>0, <1>2 DEF AskCheckout, ChainEnds
<1>3. ASSUME NEW r \in checkouts, HandleCheckout(r) PROVE Goal
  <2>1. r.chain \in Chain /\ WorkerOf[r.chain] \in Worker
    BY DEF TypeOK, CheckoutRequest
  <2>2. ASSUME NEW j \in Job, CheckoutJob(j, WorkerOf[r.chain]),
               held' = IF r.ask = 0 THEN [held EXCEPT ![r.chain] = j] ELSE held
        PROVE  Goal
    <3>1. /\ jobs[j].state = "NEW" /\ jobs'[j].state = "CLAIMED"
          /\ jobs'[j].slaveID = WorkerOf[r.chain]
      BY <1>0, <2>1, <2>2, CheckoutJobEffect
    <3>2. CASE r.ask # 0
      BY <2>2, <3>2
    <3>3. CASE r.ask = 0 /\ r.chain = c
      BY <1>0, <2>2, <3>1, <3>3
    <3>4. CASE r.ask = 0 /\ r.chain # c
      BY <1>0, <2>2, <3>4
    <3> QED
      BY <3>2, <3>3, <3>4
  <2> QED
    BY <1>1, <1>3, <2>2 DEF HandleCheckout
<1>4. ASSUME NEW w \in Worker, Crash(w) PROVE Goal
  BY <1>0, <1>4 DEF Crash
<1> QED
  BY <1>1, <1>2, <1>3, <1>4
     DEF Next, ChainStep, SupervisorStep, workerVars, chainVars, DropFile, FinishWriting, Start,
         OnRegistered, RegistrationTimesOut, ListInbox, HandleEvent, Tick, TakeJob, RejectJob, OnRunning,
         OnResult, OnSuccess, ProcessingFails, OutcomeSucceeds, OutcomeFails, StoppedEnds,
         ArchiveFile, FileFails, RefreshCycle, ScriptStarts, ScriptReturns, ScriptThrows,
         HandleRegister, HandleCreate, HandleUpdate, HandlePost, WorkerAnswersControl,
         HandleControl, RequestLost, RequestFails

-----------------------------------------------------------------------------
(* A reply answers the question a chain asked last *)

\* The types AwaitedRequests and ChainKnowsItsJob rest on.
LEMMA ChainTypes ==
  ASSUME TypeOK
  PROVE  /\ pc \in [Chain -> Waits \union {"idle"}]
         /\ reply \in [Chain -> {"waiting", "empty", "done"}]
         /\ held \in [Chain -> Job \union {NoJob}]
         /\ script \in [Job -> ScriptState]
         /\ \A r \in checkouts : r.chain \in Chain
         /\ \A r \in updates : r.chain \in Chain
         /\ \A r \in posts : r.chain \in Chain
BY DEF TypeOK, CheckoutRequest, UpdateRequest, PostRequest

\* A chain that asks for an update waits for that update only.
LEMMA AwaitUpdateStep ==
  ASSUME TypeOK, AwaitedRequests, NEW c \in Chain, held[c] \in Job,
         NEW p \in {"running", "success", "failed", "stopped"}, NEW state \in JobState,
         Await(c, p), AskUpdate(c, state), UNCHANGED <<checkouts, posts>>,
         \A r \in checkouts \union posts : r.ask = 0 => r.chain # c
  PROVE  AwaitedRequests'
<1>1. /\ pc' = [pc EXCEPT ![c] = p]
      /\ reply' = [reply EXCEPT ![c] = "waiting"]
  BY DEF Await
<1>2. \A r \in updates' :
        \/ r = [chain |-> c, job |-> held[c], state |-> state, ask |-> 0]
        \/ r.ask = 0 => r \in updates /\ r.chain # c
  BY AskUpdateEffect
<1> QED
  BY <1>1, <1>2, ChainTypes DEF AwaitedRequests

\* A chain that asks for a checkout waits for that checkout only.
LEMMA AwaitCheckoutStep ==
  ASSUME TypeOK, AwaitedRequests, NEW c \in Chain, AskCheckout(c),
         \A r \in updates' : r.ask = 0 => r \in updates /\ r.chain # c,
         \A r \in posts' : r.ask = 0 => r \in posts /\ r.chain # c
  PROVE  AwaitedRequests'
<1>1. /\ pc' = [pc EXCEPT ![c] = "checkout"]
      /\ reply' = [reply EXCEPT ![c] = "waiting"]
      /\ \A r \in checkouts' : r.ask = 0 => r.chain = c \/ r \in checkouts
  BY AskCheckoutEffect
<1> QED
  BY <1>1, ChainTypes DEF AwaitedRequests

\* No chain waits for a second request beside an awaited one.
LEMMA OneAwaited ==
  ASSUME TypeOK, AwaitedRequests
  PROVE  /\ \A r \in checkouts : r.ask = 0 =>
              \A q \in (checkouts \ {r}) \union updates \union posts :
                q.ask = 0 => q.chain # r.chain
         /\ \A r \in updates : r.ask = 0 =>
              \A q \in checkouts \union (updates \ {r}) \union posts :
                q.ask = 0 => q.chain # r.chain
         /\ \A r \in posts : r.ask = 0 =>
              \A q \in checkouts \union updates \union (posts \ {r}) :
                q.ask = 0 => q.chain # r.chain
<1>1. \A r, q \in checkouts : r.ask = 0 /\ q.ask = 0 /\ r.chain = q.chain => r = q
  BY DEF TypeOK, CheckoutRequest
<1> QED
  BY <1>1 DEF AwaitedRequests

\* A route that answers a request takes it out of the requests in flight.
LEMMA AnswerStep ==
  ASSUME TypeOK, AwaitedRequests, UNCHANGED pc,
         checkouts' \subseteq checkouts, updates' \subseteq updates, posts' \subseteq posts,
         NEW r, r.chain \in Chain,
         r.ask = 0 => \A q \in checkouts' \union updates' \union posts' :
                        q.ask = 0 => q.chain # r.chain,
         NEW value, Answer(r, value)
  PROVE  AwaitedRequests'
<1>1. \A q \in checkouts' \union updates' \union posts' :
        q.ask = 0 => reply'[q.chain] = reply[q.chain]
  BY ChainTypes DEF Answer
<1> QED
  BY <1>1, ChainTypes DEF AwaitedRequests

\* Every step keeps an awaited request the only one of its chain, and matched
\* by what the chain waits for.
LEMMA AwaitedStep ==
  ASSUME EtlInv, Next
  PROVE  AwaitedRequests'
<1>0. TypeOK /\ AwaitedRequests /\ ChainKnowsItsJob
  BY DEF EtlInv
<1>a. \A c \in Chain : held[c] \in Job <=> held[c] # NoJob
  BY <1>0, ChainTypes
<1>1. ASSUME UNCHANGED <<pc, reply, checkouts, updates>>,
             \A r \in posts' : r.ask = 0 => r \in posts
      PROVE  AwaitedRequests'
  BY <1>0, <1>1 DEF AwaitedRequests
<1>2. ASSUME NEW c \in Chain, Tick(c) PROVE AwaitedRequests'
  BY <1>0, <1>2, AwaitCheckoutStep DEF Tick, AwaitedRequests
<1>3. ASSUME NEW c \in Chain, ChainEnds(c) PROVE AwaitedRequests'
  <2>1. \A r \in checkouts' : r.ask = 0 => r \in checkouts /\ r.chain # c
    BY <1>0, <1>3, AbandonCheckouts, RequestTypes DEF ChainEnds
  <2> QED
    BY <1>0, <1>3, <2>1, ChainTypes DEF ChainEnds, Await, AwaitedRequests
<1>4. ASSUME NEW c \in Chain, TakeJob(c) PROVE AwaitedRequests'
  <2>1. held[c] \in Job /\ \A r \in checkouts \union posts : r.ask = 0 => r.chain # c
    BY <1>0, <1>4 DEF TakeJob, ChainKnowsItsJob, AwaitedRequests
  <2> QED
    BY <1>0, <1>4, <2>1, AwaitUpdateStep DEF TakeJob, JobState
<1>5. ASSUME NEW c \in Chain, RejectJob(c) PROVE AwaitedRequests'
  <2>1. held[c] \in Job /\ \A r \in checkouts \union posts : r.ask = 0 => r.chain # c
    BY <1>0, <1>5 DEF RejectJob, ChainKnowsItsJob, AwaitedRequests
  <2> QED
    BY <1>0, <1>5, <2>1, AwaitUpdateStep DEF RejectJob, JobState
<1>6. ASSUME NEW c \in Chain, OnRunning(c) PROVE AwaitedRequests'
  BY <1>0, <1>6, ChainTypes DEF OnRunning, Await, requestVars, AwaitedRequests
<1>7. ASSUME NEW c \in Chain, OnResult(c) PROVE AwaitedRequests'
  <2>1. held[c] \in Job /\ \A r \in checkouts \union posts : r.ask = 0 => r.chain # c
    BY <1>0, <1>7 DEF OnResult, ChainKnowsItsJob, AwaitedRequests
  <2> QED
    BY <1>0, <1>7, <2>1, AwaitUpdateStep DEF OnResult, JobState
<1>8. ASSUME NEW c \in Chain, OnSuccess(c) PROVE AwaitedRequests'
  BY <1>0, <1>8, ChainTypes DEF OnSuccess, Await, AwaitedRequests
<1>9. ASSUME NEW c \in Chain, ProcessingFails(c) PROVE AwaitedRequests'
  <2>1. held[c] \in Job /\ \A r \in checkouts \union posts : r.ask = 0 => r.chain # c
    BY <1>0, <1>9 DEF ProcessingFails, ChainKnowsItsJob, AwaitedRequests
  <2> QED
    BY <1>0, <1>9, <2>1, AwaitUpdateStep DEF ProcessingFails, JobState
<1>10. ASSUME NEW c \in Chain, OutcomeSucceeds(c) PROVE AwaitedRequests'
  <2>1. \A r \in posts' : r.ask = 0 => r \in posts /\ r.chain # c
    BY <1>0, <1>10, AbandonPosts, RequestTypes DEF OutcomeSucceeds
  <2>2. \A r \in updates' : r.ask = 0 => r \in updates /\ r.chain # c
    BY <1>0, <1>10 DEF OutcomeSucceeds, AwaitedRequests
  <2> QED
    BY <1>0, <1>10, <2>1, <2>2, AwaitCheckoutStep DEF OutcomeSucceeds
<1>11. ASSUME NEW c \in Chain, OutcomeFails(c) \/ StoppedEnds(c) PROVE AwaitedRequests'
  <2>1. \A r \in updates' : r.ask = 0 => r \in updates /\ r.chain # c
    BY <1>0, <1>11, AbandonUpdates, RequestTypes DEF OutcomeFails, StoppedEnds
  <2>2. \A r \in posts' : r.ask = 0 => r \in posts /\ r.chain # c
    BY <1>0, <1>11 DEF OutcomeFails, StoppedEnds, AwaitedRequests
  <2> QED
    BY <1>0, <1>11, <2>1, <2>2, AwaitCheckoutStep DEF OutcomeFails, StoppedEnds
<1>12. ASSUME NEW j \in Job, RefreshCycle(j) PROVE AwaitedRequests'
  <2>1. \A r \in posts' : r.ask = 0 => r \in posts
    BY <1>0, <1>12 DEF RefreshCycle, TypeOK
  <2> QED
    BY <1>12, <2>1, <1>1 DEF RefreshCycle, workerVars
<1>13. ASSUME NEW j \in Job, ScriptReturns(j) PROVE AwaitedRequests'
  BY <1>0, <1>13, ChainTypes DEF ScriptReturns, requestVars, AwaitedRequests
<1>b. ASSUME NEW r \in checkouts, NEW value, Answer(r, value), checkouts' = checkouts \ {r},
             UNCHANGED <<pc, updates, posts>>
      PROVE  AwaitedRequests'
  <2>1. r.chain \in Chain
    BY <1>0, ChainTypes
  <2>2. r.ask = 0 => \A q \in checkouts' \union updates' \union posts' :
                       q.ask = 0 => q.chain # r.chain
    BY <1>0, <1>b, OneAwaited
  <2> QED
    BY <1>0, <1>b, <2>1, <2>2, AnswerStep
<1>c. ASSUME NEW r \in updates, NEW value, Answer(r, value), updates' = updates \ {r},
             UNCHANGED <<pc, checkouts, posts>>
      PROVE  AwaitedRequests'
  <2>1. r.chain \in Chain
    BY <1>0, ChainTypes
  <2>2. r.ask = 0 => \A q \in checkouts' \union updates' \union posts' :
                       q.ask = 0 => q.chain # r.chain
    BY <1>0, <1>c, OneAwaited
  <2> QED
    BY <1>0, <1>c, <2>1, <2>2, AnswerStep
<1>d. ASSUME NEW r \in posts, NEW value, Answer(r, value), posts' = posts \ {r},
             UNCHANGED <<pc, checkouts, updates>>
      PROVE  AwaitedRequests'
  <2>1. r.chain \in Chain
    BY <1>0, ChainTypes
  <2>2. r.ask = 0 => \A q \in checkouts' \union updates' \union posts' :
                       q.ask = 0 => q.chain # r.chain
    BY <1>0, <1>d, OneAwaited
  <2> QED
    BY <1>0, <1>d, <2>1, <2>2, AnswerStep
<1>14. ASSUME NEW r \in checkouts, HandleCheckout(r) PROVE AwaitedRequests'
  BY <1>14, <1>b DEF HandleCheckout
<1>15. ASSUME NEW r \in updates, HandleUpdate(r) PROVE AwaitedRequests'
  BY <1>15, <1>c DEF HandleUpdate
<1>16. ASSUME NEW r \in posts, HandlePost(r) PROVE AwaitedRequests'
  BY <1>16, <1>d DEF HandlePost
<1>17. ASSUME RequestFails PROVE AwaitedRequests'
  BY <1>17, <1>b, <1>c, <1>d DEF RequestFails
<1>18. ASSUME RequestLost PROVE AwaitedRequests'
  BY <1>0, <1>18 DEF RequestLost, workerVars, AwaitedRequests
<1>19. ASSUME NEW w \in Worker, Crash(w) PROVE AwaitedRequests'
  <2>1. /\ \A r \in checkouts' : r.ask = 0 => r \in checkouts /\ r.chain \notin ChainsOf(w)
        /\ \A r \in updates' : r.ask = 0 => r \in updates /\ r.chain \notin ChainsOf(w)
        /\ \A r \in posts' : r.ask = 0 => r \in posts /\ r.chain \notin ChainsOf(w)
    BY <1>0, <1>19, AbandonCheckouts, AbandonUpdates, AbandonPosts, RequestTypes DEF Crash
  <2>2. \A c \in Chain : c \notin ChainsOf(w) => pc'[c] = pc[c] /\ reply'[c] = reply[c]
    BY <1>19 DEF Crash
  <2> QED
    BY <1>0, <2>1, <2>2, ChainTypes DEF AwaitedRequests
<1> QED
  BY <1>1, <1>2, <1>3, <1>4, <1>5, <1>6, <1>7, <1>8, <1>9, <1>10, <1>11, <1>12, <1>13, <1>14,
     <1>15, <1>16, <1>17, <1>18, <1>19
     DEF Next, ChainStep, SupervisorStep, workerVars, chainVars, requestVars, DropFile,
         FinishWriting, Start, OnRegistered, RegistrationTimesOut, ListInbox, HandleEvent, ArchiveFile,
         FileFails, ScriptStarts, ScriptThrows, HandleRegister, HandleCreate,
         WorkerAnswersControl, HandleControl

-----------------------------------------------------------------------------
(* A chain knows its job *)

\* The answer of a route other than a checkout's success leaves alone what
\* ChainKnowsItsJob says, because the chain waits for that route.
LEMMA AnswerKnows ==
  ASSUME TypeOK, ChainKnowsItsJob, UNCHANGED <<pc, held, script>>,
         NEW r, r.chain \in Chain, NEW value, Answer(r, value),
         r.ask = 0 => /\ pc[r.chain] # "script"
                      /\ pc[r.chain] = "checkout" => value # "done"
  PROVE  ChainKnowsItsJob'
<1>1. CASE r.ask # 0
  BY <1>1 DEF Answer, ChainKnowsItsJob
<1>2. CASE r.ask = 0
  <2>1. reply' = [reply EXCEPT ![r.chain] = value]
    BY <1>2 DEF Answer
  <2>2. \A c \in Chain : c # r.chain => reply'[c] = reply[c]
    BY <2>1, ChainTypes
  <2>3. reply'[r.chain] = value
    BY <2>1, ChainTypes
  <2> QED
    BY <1>2, <2>2, <2>3 DEF ChainKnowsItsJob
<1> QED
  BY <1>1, <1>2

\* Every step keeps what a chain knows of its job and of its script.
LEMMA KnowsStep ==
  ASSUME EtlInv, Next
  PROVE  ChainKnowsItsJob'
<1>0. TypeOK /\ AwaitedRequests /\ ChainKnowsItsJob
  BY DEF EtlInv
<1>1. ASSUME UNCHANGED <<pc, held, reply, script>> PROVE ChainKnowsItsJob'
  BY <1>0, <1>1 DEF ChainKnowsItsJob
<1>2. ASSUME NEW c \in Chain, AskCheckout(c), UNCHANGED script PROVE ChainKnowsItsJob'
  BY <1>0, <1>2, AskCheckoutEffect, ChainTypes DEF ChainKnowsItsJob
<1>3. ASSUME NEW c \in Chain, ChainEnds(c) PROVE ChainKnowsItsJob'
  BY <1>0, <1>3, ChainTypes DEF ChainEnds, Await, ChainKnowsItsJob
<1>4. ASSUME NEW c \in Chain, TakeJob(c) PROVE ChainKnowsItsJob'
  BY <1>0, <1>4, ChainTypes DEF TakeJob, Await, ChainKnowsItsJob
<1>5. ASSUME NEW c \in Chain, RejectJob(c) PROVE ChainKnowsItsJob'
  BY <1>0, <1>5, ChainTypes DEF RejectJob, Await, ChainKnowsItsJob
<1>6. ASSUME NEW c \in Chain, OnRunning(c) PROVE ChainKnowsItsJob'
  <2>1. /\ pc' = [pc EXCEPT ![c] = "script"]
        /\ reply' = [reply EXCEPT ![c] = "waiting"]
        /\ held' = held
        /\ script' = [script EXCEPT ![held[c]] = "queued"]
        /\ pc[c] = "running"
    BY <1>6 DEF OnRunning, Await
  <2>2. held[c] \in Job
    BY <1>0, <2>1 DEF ChainKnowsItsJob
  <2>3. \A d \in Chain : d # c /\ held[d] \in Job => script'[held[d]] = script[held[d]]
    BY <2>1, <2>2, <1>0, ChainTypes DEF EtlInv, SoleProcessor
  <2>4. \A d \in Chain : d # c => pc'[d] = pc[d] /\ reply'[d] = reply[d]
    BY <2>1, <1>0, ChainTypes
  <2>5. pc'[c] = "script" /\ reply'[c] = "waiting"
    BY <2>1, <1>0, ChainTypes
  <2> QED
    BY <1>0, <2>1, <2>2, <2>3, <2>4, <2>5 DEF ChainKnowsItsJob
<1>7. ASSUME NEW c \in Chain, OnResult(c) \/ OnSuccess(c) \/ ProcessingFails(c)
      PROVE  ChainKnowsItsJob'
  BY <1>0, <1>7, ChainTypes DEF OnResult, OnSuccess, ProcessingFails, Await, ChainKnowsItsJob
<1>8. ASSUME NEW j \in Job, ScriptStarts(j) \/ ScriptThrows(j) PROVE ChainKnowsItsJob'
  BY <1>0, <1>8, ChainTypes DEF ScriptStarts, ScriptThrows, chainVars, ChainKnowsItsJob
<1>9. ASSUME NEW j \in Job, ScriptReturns(j) PROVE ChainKnowsItsJob'
  BY <1>0, <1>9, ChainTypes DEF ScriptReturns, ChainKnowsItsJob
<1>10. ASSUME NEW w \in Worker, Crash(w) PROVE ChainKnowsItsJob'
  <2>1. \A c \in Chain :
          \/ pc'[c] = "idle" /\ held'[c] = NoJob
          \/ pc'[c] = pc[c] /\ held'[c] = held[c] /\ reply'[c] = reply[c]
    BY <1>10 DEF Crash
  <2>2. \A j \in Job : script[j] \in {"none", "returned"} => script'[j] = script[j]
    BY <1>10 DEF Crash, ScriptActive
  <2> QED
    BY <1>0, <2>1, <2>2 DEF ChainKnowsItsJob
<1>11. ASSUME NEW r \in checkouts, HandleCheckout(r) PROVE ChainKnowsItsJob'
  <2>1. r.chain \in Chain /\ (r.ask = 0 => pc[r.chain] = "checkout")
    BY <1>0, ChainTypes DEF AwaitedRequests
  <2>2. ASSUME Answer(r, "empty"), UNCHANGED held PROVE ChainKnowsItsJob'
    BY <1>0, <1>11, <2>1, <2>2, AnswerKnows DEF HandleCheckout
  <2>3. ASSUME NEW j \in Job, CheckoutJob(j, WorkerOf[r.chain]),
               held' = IF r.ask = 0 THEN [held EXCEPT ![r.chain] = j] ELSE held,
               Answer(r, "done")
        PROVE  ChainKnowsItsJob'
    <3>1. script[j] = "none"
      BY <2>3 DEF CheckoutJob, EtlInv, ClaimedJobs, Claimed
    <3>2. UNCHANGED <<pc, script>>
      BY <1>11 DEF HandleCheckout
    <3>3. CASE r.ask # 0
      BY <1>0, <2>3, <3>2, <3>3 DEF Answer, ChainKnowsItsJob
    <3>4. CASE r.ask = 0
      BY <1>0, <2>1, <2>3, <3>1, <3>2, <3>4, ChainTypes DEF Answer, ChainKnowsItsJob
    <3> QED
      BY <3>3, <3>4
  <2> QED
    BY <1>11, <2>2, <2>3 DEF HandleCheckout
<1>12. ASSUME NEW r \in updates, NEW value, Answer(r, value), UNCHANGED <<pc, held, script>>
       PROVE  ChainKnowsItsJob'
  <2>1. /\ r.chain \in Chain
        /\ r.ask = 0 => pc[r.chain] \in {"running", "success", "failed", "stopped"}
    BY <1>0, ChainTypes DEF AwaitedRequests
  <2> QED
    BY <1>0, <1>12, <2>1, AnswerKnows
<1>13. ASSUME NEW r \in posts, NEW value, Answer(r, value), UNCHANGED <<pc, held, script>>
       PROVE  ChainKnowsItsJob'
  <2>1. r.chain \in Chain /\ (r.ask = 0 => pc[r.chain] = "stats")
    BY <1>0, ChainTypes DEF AwaitedRequests
  <2> QED
    BY <1>0, <1>13, <2>1, AnswerKnows
<1>14. ASSUME RequestFails PROVE ChainKnowsItsJob'
  <2>1. ASSUME NEW r \in checkouts, Answer(r, "empty") PROVE ChainKnowsItsJob'
    <3>1. r.chain \in Chain /\ (r.ask = 0 => pc[r.chain] = "checkout")
      BY <1>0, ChainTypes DEF AwaitedRequests
    <3> QED
      BY <1>0, <1>14, <2>1, <3>1, AnswerKnows DEF RequestFails
  <2> QED
    BY <1>12, <1>13, <1>14, <2>1 DEF RequestFails
<1> QED
  BY <1>1, <1>2, <1>3, <1>4, <1>5, <1>6, <1>7, <1>8, <1>9, <1>10, <1>11, <1>12, <1>13, <1>14
     DEF Next, ChainStep, SupervisorStep, workerVars, chainVars, DropFile, FinishWriting, Start,
         OnRegistered, RegistrationTimesOut, ListInbox, HandleEvent, Tick, OutcomeSucceeds, OutcomeFails,
         StoppedEnds, ArchiveFile, FileFails, RefreshCycle, HandleRegister, HandleCreate,
         HandleUpdate, HandlePost, WorkerAnswersControl, HandleControl, RequestLost

-----------------------------------------------------------------------------
(* The invariant *)

\* Nothing is claimed, awaited or under way in the initial state.
LEMMA InvInit == Init => EtlInv
<1> SUFFICES ASSUME Init PROVE EtlInv
  OBVIOUS
<1>1. TypeOK
  BY DEF Init, TypeOK, StoreInit, StoreTypeOK, JobData, JobState, FileInit, FileTypeOK, Area,
         ScriptState, Waits
<1>2. SoleProcessor
  BY DEF Init, SoleProcessor
<1>3. SuccessMeansProcessed
  BY DEF Init, StoreInit, SuccessMeansProcessed
<1>4. ClaimedJobs
  BY DEF Init, StoreInit, ClaimedJobs, Claimed
<1>5. LateWrites /\ AwaitedRequests
  BY DEF Init, LateWrites, AwaitedRequests
<1>6. ChainKnowsItsJob
  BY DEF Init, ChainKnowsItsJob
<1> QED
  BY <1>1, <1>2, <1>3, <1>4, <1>5, <1>6 DEF EtlInv

\* Every step keeps the inductive invariant; one step of the proof per action.
LEMMA InvNext == EtlInv /\ [Next]_vars => EtlInv'
<1> SUFFICES ASSUME EtlInv, [Next]_vars PROVE EtlInv'
  OBVIOUS
<1>1. CASE UNCHANGED vars
  BY <1>1 DEF vars, fileVars, userVars, workerVars, requestVars, boundVars, EtlInv, TypeOK,
              StoreTypeOK, FileTypeOK, SoleProcessor, SuccessMeansProcessed, ClaimedJobs, Claimed,
              LateWrites, AwaitedRequests, ChainKnowsItsJob
<1>2. CASE Next
  <2>0. TypeOK /\ SoleProcessor /\ SuccessMeansProcessed /\ ClaimedJobs /\ LateWrites
    BY DEF EtlInv
  <2>1. TypeOK' /\ AwaitedRequests' /\ ChainKnowsItsJob'
    BY <1>2, TypeStep, AwaitedStep, KnowsStep DEF EtlInv
  <2>2. \A k \in Job : Claimed(k) => Claimed(k)' /\ jobs'[k].slaveID = jobs[k].slaveID
    BY <1>2, <2>0, ClaimedForEver
  <2>3. \A k \in Job : script[k] = "returned" => script'[k] = "returned"
    BY <1>2, ScriptChange DEF ScriptActive
  <2>4. SoleProcessor'
    <3>1. \A c \in Chain : held[c] # NoJob =>
            held[c] \in Job /\ Claimed(held[c]) /\ jobs[held[c]].slaveID = WorkerOf[c]
      BY <2>0, ChainTypes DEF SoleProcessor, Claimed
    <3>2. \A c \in Chain : held'[c] # NoJob =>
            /\ jobs'[held'[c]].state \notin {"ABSENT", "NEW"}
            /\ jobs'[held'[c]].slaveID = WorkerOf[c]
      BY <1>2, <2>0, <2>2, <3>1, HeldChange DEF Claimed
    <3>3. ASSUME NEW c \in Chain, NEW d \in Chain, held'[c] # NoJob, held'[c] = held'[d]
          PROVE  c = d
      <4>1. CASE held'[c] = held[c] /\ held'[d] = held[d]
        BY <2>0, <3>3, <4>1 DEF SoleProcessor
      <4>2. ASSUME NEW a \in Chain, NEW b \in Chain, a # b, held'[a] # NoJob,
                   held'[a] # held[a], held'[b] = held'[a]
            PROVE  FALSE
        <5>1. /\ jobs[held'[a]].state = "NEW"
              /\ held'[b] = held[b]
          BY <1>2, <2>0, <4>2, HeldChange
        <5> QED
          BY <3>1, <4>2, <5>1 DEF Claimed
      <4> QED
        BY <3>3, <4>1, <4>2
    <3> QED
      BY <3>2, <3>3 DEF SoleProcessor
  <2>5. SuccessMeansProcessed'
    <3>1. ASSUME NEW k \in Job, jobs'[k].state = "SUCCESS" PROVE script'[k] = "returned"
      BY <1>2, <2>0, <2>3, <3>1, JobsChange DEF SuccessMeansProcessed, LateWrites
    <3>2. ASSUME NEW r \in updates', r.state = "SUCCESS" PROVE script'[r.job] = "returned"
      <4>1. \A q \in updates : q.job \in Job
        BY <2>0 DEF TypeOK, UpdateRequest
      <4> QED
        BY <1>2, <2>0, <2>3, <3>2, <4>1, UpdatesChange
           DEF SuccessMeansProcessed, EtlInv, ChainKnowsItsJob
    <3> QED
      BY <3>1, <3>2 DEF SuccessMeansProcessed
  <2>6. ClaimedJobs'
    <3> SUFFICES ASSUME NEW k \in Job
                 PROVE  IF Claimed(k)' THEN jobs'[k].slaveID \in Worker ELSE script'[k] = "none"
      BY DEF ClaimedJobs
    <3>1. CASE Claimed(k)
      BY <2>0, <2>2, <3>1 DEF ClaimedJobs
    <3>2. CASE ~Claimed(k)
      <4>1. script[k] = "none" /\ script'[k] = "none"
        BY <1>2, <2>0, <3>2, ScriptChange DEF ClaimedJobs, ScriptActive
      <4>2. Claimed(k)' => jobs'[k].slaveID \in Worker
        BY <1>2, <2>0, <3>2, JobsChange DEF Claimed, LateWrites
      <4> QED
        BY <4>1, <4>2
    <3> QED
      BY <3>1, <3>2
  <2>7. LateWrites'
    <3>0. /\ \A q \in updates : q.job \in Job
          /\ \A q \in controls : q.job \in Job
      BY <2>0 DEF TypeOK, UpdateRequest, ControlRequest
    <3>1. ASSUME NEW r \in updates' PROVE Claimed(r.job)' /\ r.state # "NEW"
      <4>1. ASSUME NEW q \in updates, r.job = q.job, r.state = q.state
            PROVE  Claimed(r.job)' /\ r.state # "NEW"
        BY <2>0, <2>2, <3>0, <4>1 DEF LateWrites
      <4>2. ASSUME NEW c \in Chain, held[c] \in Job, r.job = held[c],
                   r.state \in {"RUNNING", "STOPPED", "SUCCESS", "FAILED"}
            PROVE  Claimed(r.job)' /\ r.state # "NEW"
        BY <2>0, <2>2, <4>2 DEF SoleProcessor, Claimed
      <4> QED
        BY <1>2, <4>1, <4>2, UpdatesChange
    <3>2. ASSUME NEW r \in controls' PROVE Claimed(r.job)' /\ r.state \notin {"NEW", "SUCCESS"}
      <4>1. CASE r \in controls
        BY <2>0, <2>2, <3>0, <4>1 DEF LateWrites
      <4>2. CASE /\ r.job \in Job /\ jobs[r.job].state \in {"RUNNING", "PAUSED", "STOPPED"}
                 /\ r.state \in ControlAnswers
        BY <2>2, <4>2 DEF Claimed
      <4> QED
        BY <1>2, <4>1, <4>2, ControlsChange
    <3> QED
      BY <3>1, <3>2 DEF LateWrites
  <2> QED
    BY <2>1, <2>4, <2>5, <2>6, <2>7 DEF EtlInv
<1> QED
  BY <1>1, <1>2

\* The inductive invariant holds in every reachable state.
THEOREM Invariance == Spec => []EtlInv
<1> QED
  BY InvInit, InvNext, PTL DEF Spec

\* Every variable has its type in every reachable state.
THEOREM Typing == Spec => []TypeOK
<1>1. EtlInv => TypeOK
  BY DEF EtlInv
<1> QED
  BY <1>1, Invariance, PTL

\* No job is ever processed by two chains, or by a worker that is not its
\* slave in the database (JobDAO.checkoutJob, QweryETL.processJob).
THEOREM ExclusiveProcessing == Spec => []SoleProcessor
<1>1. EtlInv => SoleProcessor
  BY DEF EtlInv
<1> QED
  BY <1>1, Invariance, PTL

\* No call, late, lost or repeated, makes a job a SUCCESS whose script did not
\* run to its end (QweryETL.processJob, JobRoutes' state changes).
THEOREM HonestSuccess == Spec => []SuccessMeansProcessed
<1>1. EtlInv => SuccessMeansProcessed
  BY DEF EtlInv
<1> QED
  BY <1>1, Invariance, PTL

-----------------------------------------------------------------------------
(* Refinement *)

\* What the variables of the abstract queue stand for.
queueOf == {j \in Job : jobs[j].state = "NEW"}
ownerOf == [j \in Job |-> IF jobs[j].state \in {"ABSENT", "NEW"} THEN NoWorker ELSE jobs[j].slaveID]
completedOf == {j \in Job : script[j] = "returned"}
acclaimedOf == {j \in Job : jobs[j].state = "SUCCESS"}

\* A call that overwrites the state of a claimed job acclaims it, retracts it
\* or shows nothing.
LEMMA OverwriteStep ==
  ASSUME EtlInv, NEW k \in Job, NEW state \in JobState, Claimed(k), state # "NEW",
         state = "SUCCESS" => script[k] = "returned",
         ChangeState(k, state), UNCHANGED script
  PROVE  [Queue!QueueNext]_(Queue!queueVars)
<1>1. /\ jobs'[k].state = state /\ jobs'[k].slaveID = jobs[k].slaveID
      /\ \A j \in Job : j # k => jobs'[j] = jobs[j]
  BY ChangeStateEffect DEF EtlInv, TypeOK, StoreTypeOK
<1>2. queueOf' = queueOf
  BY <1>1 DEF queueOf, Claimed
<1>3. ownerOf' = ownerOf
  BY <1>1 DEF ownerOf, Claimed, JobState
<1>4. completedOf' = completedOf
  BY DEF completedOf
<1>5. CASE state = "SUCCESS"
  <2>1. acclaimedOf' = acclaimedOf \union {k}
    BY <1>1, <1>5 DEF acclaimedOf
  <2>2. k \in completedOf
    BY <1>5 DEF completedOf
  <2>3. Queue!Acclaim(k)
    BY <1>2, <1>3, <1>4, <2>1, <2>2
       DEF Queue!Acclaim, queueOf, ownerOf, completedOf, acclaimedOf
  <2> QED
    BY <2>3 DEF Queue!QueueNext
<1>6. CASE state # "SUCCESS"
  <2>1. acclaimedOf' = acclaimedOf \ {k}
    BY <1>1, <1>6 DEF acclaimedOf
  <2>2. Queue!Retract(k)
    BY <1>2, <1>3, <1>4, <2>1
       DEF Queue!Retract, queueOf, ownerOf, completedOf, acclaimedOf
  <2> QED
    BY <2>2 DEF Queue!QueueNext
<1> QED
  BY <1>5, <1>6

\* Every step of the system is a step of the abstract queue or shows nothing.
LEMMA QueueStep ==
  ASSUME EtlInv, [Next]_vars
  PROVE  [Queue!QueueNext]_(Queue!queueVars)
<1> DEFINE Goal == [Queue!QueueNext]_(Queue!queueVars)
<1>0. TypeOK /\ jobs \in [Job -> JobData] /\ script \in [Job -> ScriptState]
  BY DEF EtlInv, TypeOK, StoreTypeOK
<1>1. ASSUME \A j \in Job : jobs'[j].state = jobs[j].state /\ jobs'[j].slaveID = jobs[j].slaveID,
             \A j \in Job : script[j] = "returned" <=> script'[j] = "returned"
      PROVE  Goal
  <2>1. queueOf' = queueOf /\ ownerOf' = ownerOf /\ acclaimedOf' = acclaimedOf
    BY <1>1 DEF queueOf, ownerOf, acclaimedOf
  <2>2. completedOf' = completedOf
    BY <1>1 DEF completedOf
  <2> QED
    BY <2>1, <2>2 DEF Queue!queueVars, queueOf, ownerOf, completedOf, acclaimedOf
<1>2. ASSUME NEW r \in creates, HandleCreate(r) PROVE Goal
  <2>1. r.job \in Job /\ r.input \in Name /\ r.slave \in Worker \union {NoWorker}
    BY <1>0 DEF TypeOK, CreateRequest
  <2>2. /\ jobs[r.job].state = "ABSENT" /\ jobs'[r.job].state = "NEW"
        /\ \A j \in Job : j # r.job => jobs'[j] = jobs[j]
    BY <1>0, <1>2, <2>1, CreateJobEffect DEF HandleCreate
  <2>3. queueOf' = queueOf \union {r.job} /\ acclaimedOf' = acclaimedOf
    BY <2>1, <2>2 DEF queueOf, acclaimedOf
  <2>4. ownerOf' = ownerOf /\ ownerOf[r.job] = NoWorker
    BY <2>1, <2>2 DEF ownerOf
  <2>5. completedOf' = completedOf
    BY <1>2 DEF completedOf, HandleCreate, workerVars
  <2>6. Queue!Enqueue(r.job)
    BY <2>3, <2>4, <2>5 DEF Queue!Enqueue, queueOf, ownerOf, completedOf, acclaimedOf
  <2> QED
    BY <2>1, <2>6 DEF Queue!QueueNext
<1>3. ASSUME NEW r \in checkouts, HandleCheckout(r) PROVE Goal
  <2>1. WorkerOf[r.chain] \in Worker
    BY <1>0 DEF TypeOK, CheckoutRequest
  <2>2. UNCHANGED script
    BY <1>3 DEF HandleCheckout
  <2>3. ASSUME NEW j \in Job, CheckoutJob(j, WorkerOf[r.chain]) PROVE Goal
    <3>1. /\ jobs[j].state = "NEW"
          /\ jobs'[j].state = "CLAIMED" /\ jobs'[j].slaveID = WorkerOf[r.chain]
          /\ \A k \in Job : k # j => jobs'[k] = jobs[k]
      BY <1>0, <2>1, <2>3, CheckoutJobEffect
    <3>2. queueOf' = queueOf \ {j} /\ j \in queueOf /\ acclaimedOf' = acclaimedOf
      BY <3>1 DEF queueOf, acclaimedOf
    <3>3. ownerOf' = [ownerOf EXCEPT ![j] = WorkerOf[r.chain]]
      BY <3>1 DEF ownerOf
    <3>4. completedOf' = completedOf
      BY <2>2 DEF completedOf
    <3>5. Queue!Dequeue(j, WorkerOf[r.chain])
      BY <3>2, <3>3, <3>4 DEF Queue!Dequeue, queueOf, ownerOf, completedOf, acclaimedOf
    <3> QED
      BY <2>1, <3>5 DEF Queue!QueueNext
  <2> QED
    BY <1>1, <1>3, <2>2, <2>3 DEF HandleCheckout
<1>4. ASSUME NEW r \in updates, HandleUpdate(r) PROVE Goal
  <2>1. r.job \in Job /\ r.state \in JobState
    BY <1>0 DEF TypeOK, UpdateRequest
  <2> QED
    BY <1>4, <2>1, OverwriteStep DEF HandleUpdate, EtlInv, LateWrites, SuccessMeansProcessed
<1>5. ASSUME NEW r \in controls, HandleControl(r) PROVE Goal
  <2>1. r.job \in Job /\ r.state \in JobState
    BY <1>0 DEF TypeOK, ControlRequest
  <2> QED
    BY <1>5, <2>1, OverwriteStep DEF HandleControl, workerVars, EtlInv, LateWrites
<1>6. ASSUME NEW r \in posts, HandlePost(r) PROVE Goal
  <2>1. r.job \in Job /\ r.of \in SUBSET Job
    BY <1>0 DEF TypeOK, PostRequest
  <2>2. \A k \in Job : jobs'[k].state = jobs[k].state /\ jobs'[k].slaveID = jobs[k].slaveID
    BY <1>0, <1>6, <2>1, UpdateStatisticsEffect DEF HandlePost
  <2> QED
    BY <1>1, <1>6, <2>2 DEF HandlePost
<1>7. ASSUME NEW j \in Job, ScriptReturns(j) PROVE Goal
  <2>1. Claimed(j) /\ jobs[j].slaveID \in Worker
    BY <1>7 DEF ScriptReturns, EtlInv, ClaimedJobs
  <2>2. queueOf' = queueOf /\ ownerOf' = ownerOf /\ acclaimedOf' = acclaimedOf
    BY <1>7 DEF ScriptReturns, queueOf, ownerOf, acclaimedOf
  <2>3. completedOf' = completedOf \union {j} /\ j \notin completedOf
    BY <1>0, <1>7 DEF ScriptReturns, completedOf
  <2>4. ownerOf[j] # NoWorker
    BY <2>1 DEF ownerOf, Claimed
  <2>5. Queue!Complete(j)
    BY <2>2, <2>3, <2>4 DEF Queue!Complete, queueOf, ownerOf, completedOf, acclaimedOf
  <2> QED
    BY <2>5 DEF Queue!QueueNext
<1>8. ASSUME UNCHANGED jobs, ~(\E j \in Job : ScriptReturns(j)), Next PROVE Goal
  <2>1. ASSUME NEW c \in Chain, OnRunning(c), NEW j \in Job
        PROVE  script[j] = "returned" <=> script'[j] = "returned"
    BY <1>0, <2>1 DEF OnRunning, EtlInv, ChainKnowsItsJob
  <2>2. ASSUME NEW k \in Job, ScriptStarts(k) \/ ScriptThrows(k), NEW j \in Job
        PROVE  script[j] = "returned" <=> script'[j] = "returned"
    BY <1>0, <2>2 DEF ScriptStarts, ScriptThrows
  <2>3. ASSUME NEW w \in Worker, Crash(w), NEW j \in Job
        PROVE  script[j] = "returned" <=> script'[j] = "returned"
    BY <1>0, <2>3 DEF Crash, ScriptActive
  <2> QED
    BY <1>1, <1>8, <2>1, <2>2, <2>3
       DEF Next, ChainStep, SupervisorStep, workerVars, DropFile, FinishWriting, Start,
           OnRegistered, RegistrationTimesOut, ListInbox, HandleEvent, Tick, ChainEnds, TakeJob, RejectJob,
           OnResult, OnSuccess, ProcessingFails, OutcomeSucceeds, OutcomeFails, StoppedEnds,
           ArchiveFile, FileFails, RefreshCycle, HandleRegister, HandleCreate, HandleCheckout,
           HandleUpdate, HandlePost, WorkerAnswersControl, HandleControl, RequestLost,
           RequestFails
<1>9. CASE UNCHANGED vars
  BY <1>1, <1>9 DEF vars, workerVars
<1> QED
  BY <1>2, <1>3, <1>4, <1>5, <1>6, <1>7, <1>8, <1>9
     DEF Next, ChainStep, SupervisorStep, DropFile, FinishWriting, Start, OnRegistered,
         RegistrationTimesOut, Crash, ListInbox, HandleEvent, Tick, ChainEnds, TakeJob, RejectJob, OnRunning,
         OnResult, OnSuccess, ProcessingFails, OutcomeSucceeds, OutcomeFails, StoppedEnds,
         ArchiveFile, FileFails, RefreshCycle, ScriptStarts, ScriptThrows, HandleRegister,
         WorkerAnswersControl, RequestLost, RequestFails

\* Workers and supervisor together implement the abstract queue: a job enters
\* it once, goes to one worker for ever, completes at most once and is called
\* SUCCESS only after it completed.
THEOREM Refinement == Spec => ImplementsQueue
<1>1. Init => Queue!QueueInit
  BY DEF Init, StoreInit, Queue!QueueInit
<1> QED
  BY <1>1, QueueStep, Invariance, PTL DEF Spec, ImplementsQueue, Queue!QueueSpec
===============================================================================
