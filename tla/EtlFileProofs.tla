---------------------------- MODULE EtlFileProofs -----------------------------
(*****************************************************************************)
(* The files of the ETL system, for any number of workers, chains, jobs,     *)
(* files and homes: no move loses or duplicates one, a script finds its      *)
(* work file, and timers end with their jobs.  FileInv is inductive given    *)
(* EtlInv.  Without faults and control calls, the state the database shows   *)
(* for a job is what happened to it: CalmInv is inductive given EtlInv and   *)
(* FileInv.                                                                  *)
(*****************************************************************************)
EXTENDS EtlProofs

USE EntityAssumption, EtlAssumption

-----------------------------------------------------------------------------
(* What a step can do to faults, areas, outcomes and timers *)

\* Faults are counted.
LEMMA FaultsCount ==
  ASSUME Next
  PROVE  UNCHANGED faults \/ faults' = faults + 1
<1> DEFINE Counted == UNCHANGED faults \/ faults' = faults + 1
<1>1. ASSUME NEW c, AskTimesOut(c) PROVE Counted
  BY <1>1 DEF AskTimesOut, Fault
<1>2. ASSUME NEW c \in Chain, ChainStep(c) PROVE Counted
  BY <1>1, <1>2
     DEF ChainStep, ChainEnds, TakeJob, RejectJob, OnRunning, OnResult, OnSuccess,
         ProcessingFails, OutcomeSucceeds, OutcomeFails, StoppedEnds, Fault, boundVars
<1>3. ASSUME NEW j \in Job, ArchiveFile(j) \/ FileFails(j) \/ RefreshCycle(j) PROVE Counted
  BY <1>3 DEF ArchiveFile, FileFails, RefreshCycle, Fault, boundVars
<1>4. ASSUME NEW w \in Worker, RegistrationTimesOut(w) \/ Crash(w) PROVE Counted
  BY <1>4 DEF RegistrationTimesOut, Crash, Fault
<1>5. ASSUME RequestLost \/ RequestFails PROVE Counted
  BY <1>5 DEF RequestLost, RequestFails, Fault
<1>6. ASSUME SupervisorStep PROVE Counted
  BY <1>6
     DEF SupervisorStep, HandleRegister, HandleCreate, HandleCheckout, HandleUpdate, HandlePost,
         WorkerAnswersControl, HandleControl, boundVars
<1> QED
  BY <1>2, <1>3, <1>4, <1>5, <1>6
     DEF Next, DropFile, FinishWriting, Start, OnRegistered, ListInbox, HandleEvent, Tick, ScriptStarts,
         ScriptReturns, ScriptThrows, boundVars

\* Only ArchiveFile touches the archive.
LEMMA ArchiveChange ==
  ASSUME Next
  PROVE  UNCHANGED archive \/ \E j \in Job : ArchiveFile(j)
BY DEF Next, ChainStep, SupervisorStep, fileVars, areas, DropFile, FinishWriting, Start,
       OnRegistered, RegistrationTimesOut, Crash, ListInbox, HandleEvent, Tick, ChainEnds, TakeJob,
       RejectJob, OnRunning, OnResult, OnSuccess, ProcessingFails, OutcomeSucceeds,
       OutcomeFails, StoppedEnds, FileFails, RefreshCycle, ScriptStarts, ScriptReturns,
       ScriptThrows, HandleRegister, HandleCreate, HandleCheckout, HandleUpdate, HandlePost,
       WorkerAnswersControl, HandleControl, RequestLost, RequestFails,
       MoveToWork, RenameToWorkFails, MoveToFailed, RenameToFailedFails

\* Only FileFails touches the failed area.
LEMMA FailedChange ==
  ASSUME Next
  PROVE  UNCHANGED failed \/ \E j \in Job : FileFails(j)
BY DEF Next, ChainStep, SupervisorStep, fileVars, areas, DropFile, FinishWriting, Start,
       OnRegistered, RegistrationTimesOut, Crash, ListInbox, HandleEvent, Tick, ChainEnds, TakeJob,
       RejectJob, OnRunning, OnResult, OnSuccess, ProcessingFails, OutcomeSucceeds,
       OutcomeFails, StoppedEnds, ArchiveFile, RefreshCycle, ScriptStarts, ScriptReturns,
       ScriptThrows, HandleRegister, HandleCreate, HandleCheckout, HandleUpdate, HandlePost,
       WorkerAnswersControl, HandleControl, RequestLost, RequestFails,
       MoveToWork, RenameToWorkFails, MoveToArchive

\* ArchiveFile fills the place of its job and no other, or none.
LEMMA ArchiveFileEffect ==
  ASSUME TypeOK, NEW j \in Job, ArchiveFile(j), NEW h \in Home, NEW k \in Job
  PROVE  /\ k # j => archive'[h][k] = archive[h][k]
         /\ \A o \in outcomes' : o.job = j => o.to # "archive"
         /\ outcomes' \subseteq outcomes /\ j \notin timers' /\ timers' \subseteq timers
<1>1. archive \in Area /\ outcomes \subseteq [job : Job, to : {"archive", "failed"}]
  BY DEF TypeOK, FileTypeOK
<1>2. k # j => archive'[h][k] = archive[h][k]
  BY <1>1 DEF ArchiveFile, MoveToArchive, fileVars, Area
<1> QED
  BY <1>1, <1>2 DEF ArchiveFile

\* FileFails fills the place of its job and no other, and only where there is
\* nothing yet.
LEMMA FileFailsEffect ==
  ASSUME TypeOK, NEW j \in Job, FileFails(j), NEW h \in Home, NEW k \in Job
  PROVE  /\ k # j \/ failed[h][k] # NoDir => failed'[h][k] = failed[h][k]
         /\ failed[h][k] = NoDir \/ failed'[h][k] # NoDir
<1>0. failed \in Area
  BY DEF TypeOK, FileTypeOK
<1>1. CASE MoveToFailed(HomeOfChain(runBy[j]), j)
  BY <1>0, <1>1 DEF MoveToFailed, Area
<1>2. CASE RenameToFailedFails(HomeOfChain(runBy[j]), j)
  BY <1>0, <1>2 DEF RenameToFailedFails, Area
<1> QED
  BY <1>1, <1>2 DEF FileFails

\* A new outcome is that of the job its chain processed until now.
LEMMA OutcomesChange ==
  ASSUME TypeOK, ChainKnowsItsJob, Next, NEW o \in outcomes'
  PROVE  \/ o \in outcomes
         \/ \E c \in Chain :
              /\ OutcomeSucceeds(c) \/ OutcomeFails(c)
              /\ pc[c] \in Working /\ held[c] \in Job /\ o.job = held[c]
              /\ outcomes' = outcomes \union {o} /\ UNCHANGED <<archive, work, runBy>>
              /\ held' = [held EXCEPT ![c] = NoJob]
<1> DEFINE New(c) == /\ OutcomeSucceeds(c) \/ OutcomeFails(c)
                     /\ pc[c] \in Working /\ held[c] \in Job /\ o.job = held[c]
                     /\ outcomes' = outcomes \union {o} /\ UNCHANGED <<archive, work, runBy>>
                     /\ held' = [held EXCEPT ![c] = NoJob]
<1>1. ASSUME NEW c \in Chain, OutcomeSucceeds(c) \/ OutcomeFails(c), o \notin outcomes
      PROVE  New(c)
  <2>1. pc[c] \in {"stats", "failed"}
    BY <1>1 DEF OutcomeSucceeds, OutcomeFails
  <2>2. held[c] \in Job
    BY <2>1 DEF ChainKnowsItsJob
  <2>3. held' = [held EXCEPT ![c] = NoJob] /\ UNCHANGED <<archive, work, runBy>>
    BY <1>1 DEF OutcomeSucceeds, OutcomeFails, AskCheckout, fileVars, areas
  <2>4. /\ o = [job |-> held[c], to |-> "archive"] \/ o = [job |-> held[c], to |-> "failed"]
        /\ outcomes' = outcomes \union {o}
    BY <1>1 DEF OutcomeSucceeds, OutcomeFails
  <2> QED
    BY <1>1, <2>1, <2>2, <2>3, <2>4 DEF Working
<1> HIDE DEF New
<1>2. o \in outcomes \/ \E c \in Chain : OutcomeSucceeds(c) \/ OutcomeFails(c)
  BY DEF Next, ChainStep, SupervisorStep, workerVars, DropFile, FinishWriting, Start,
         OnRegistered, RegistrationTimesOut, Crash, ListInbox, HandleEvent, Tick, ChainEnds,
         TakeJob, RejectJob, OnRunning, OnResult, OnSuccess, ProcessingFails, StoppedEnds,
         ArchiveFile, FileFails, RefreshCycle, ScriptStarts, ScriptReturns, ScriptThrows,
         HandleRegister, HandleCreate, HandleCheckout, HandleUpdate, HandlePost,
         WorkerAnswersControl, HandleControl, RequestLost, RequestFails
<1>3. o \in outcomes \/ \E c \in Chain : New(c)
  BY <1>1, <1>2
<1> QED
  BY <1>3 DEF New

\* An outcome goes with its own callback, or with its worker.
LEMMA OutcomesLeave ==
  ASSUME TypeOK, Next, NEW o \in outcomes
  PROVE  \/ o \in outcomes'
         \/ ArchiveFile(o.job) /\ o.to = "archive"
         \/ FileFails(o.job) /\ o.to = "failed"
         \/ \E w \in Worker : Crash(w) /\ o.job \in JobsRunBy(w)
<1> DEFINE Goal == \/ o \in outcomes'
                   \/ ArchiveFile(o.job) /\ o.to = "archive"
                   \/ FileFails(o.job) /\ o.to = "failed"
                   \/ \E w \in Worker : Crash(w) /\ o.job \in JobsRunBy(w)
<1>1. ASSUME NEW w \in Worker, Crash(w) PROVE Goal
  BY <1>1 DEF Crash
<1>0. o = [job |-> o.job, to |-> o.to]
  BY DEF TypeOK
<1>2. ASSUME NEW j \in Job, ArchiveFile(j) PROVE Goal
  <2>1. outcomes' = outcomes \ {[job |-> j, to |-> "archive"]}
    BY <1>2 DEF ArchiveFile
  <2> QED
    BY <1>2, <2>1
<1>3. ASSUME NEW j \in Job, FileFails(j) PROVE Goal
  <2>1. outcomes' = outcomes \ {[job |-> j, to |-> "failed"]}
    BY <1>3 DEF FileFails
  <2> QED
    BY <1>3, <2>1
<1>4. ASSUME outcomes \subseteq outcomes' PROVE Goal
  BY <1>4
<1> HIDE DEF Goal
<1>5. Goal
  BY <1>1, <1>2, <1>3, <1>4
     DEF Next, ChainStep, SupervisorStep, workerVars, DropFile, FinishWriting, Start,
         OnRegistered, RegistrationTimesOut, ListInbox, HandleEvent, Tick, ChainEnds, TakeJob,
         RejectJob, OnRunning, OnResult, OnSuccess, ProcessingFails, OutcomeSucceeds,
         OutcomeFails, StoppedEnds, RefreshCycle, ScriptStarts, ScriptReturns, ScriptThrows,
         HandleRegister, HandleCreate, HandleCheckout, HandleUpdate, HandlePost,
         WorkerAnswersControl, HandleControl, RequestLost, RequestFails
<1> QED
  BY <1>5 DEF Goal

\* A timer starts with the job a chain takes.
LEMMA TimersChange ==
  ASSUME TypeOK, ChainKnowsItsJob, Next, NEW j \in timers'
  PROVE  \/ j \in timers
         \/ \E c \in Chain : TakeJob(c) /\ held[c] \in Job /\ j = held[c] /\ UNCHANGED archive
<1> DEFINE Goal ==
      \/ j \in timers
      \/ \E c \in Chain : TakeJob(c) /\ held[c] \in Job /\ j = held[c] /\ UNCHANGED archive
<1>1. ASSUME NEW c \in Chain, TakeJob(c) PROVE Goal
  BY <1>1 DEF TakeJob, MoveToWork, ChainKnowsItsJob
<1> QED
  BY <1>1
     DEF Next, ChainStep, SupervisorStep, workerVars, DropFile, FinishWriting, Start,
         OnRegistered, RegistrationTimesOut, Crash, ListInbox, HandleEvent, Tick, ChainEnds,
         RejectJob, OnRunning, OnResult, OnSuccess, ProcessingFails, OutcomeSucceeds,
         OutcomeFails, StoppedEnds, ArchiveFile, FileFails, RefreshCycle, ScriptStarts,
         ScriptReturns, ScriptThrows, HandleRegister, HandleCreate, HandleCheckout,
         HandleUpdate, HandlePost, WorkerAnswersControl, HandleControl, RequestLost, RequestFails

\* Only TakeJob gives a job to a chain.
LEMMA RunByChange ==
  ASSUME Next
  PROVE  UNCHANGED runBy \/ \E c \in Chain : TakeJob(c)
BY DEF Next, ChainStep, SupervisorStep, workerVars, DropFile, FinishWriting, Start,
       OnRegistered, RegistrationTimesOut, Crash, ListInbox, HandleEvent, Tick, ChainEnds,
       RejectJob, OnRunning, OnResult, OnSuccess, ProcessingFails, OutcomeSucceeds,
       OutcomeFails, StoppedEnds, ArchiveFile, FileFails, RefreshCycle, ScriptStarts,
       ScriptReturns, ScriptThrows, HandleRegister, HandleCreate, HandleCheckout, HandleUpdate,
       HandlePost, WorkerAnswersControl, HandleControl, RequestLost, RequestFails

\* Work directories and the chains of jobs change where a chain takes or
\* rejects a job, and where a job is over.
LEMMA WorkChange ==
  ASSUME TypeOK, ChainKnowsItsJob, Next, NEW h \in Home, NEW k \in Job
  PROVE  \/ work'[h][k] = work[h][k] /\ runBy'[k] = runBy[k]
         \/ \E d \in Chain : held[d] = k /\ (TakeJob(d) \/ RejectJob(d))
         \/ ArchiveFile(k) \/ FileFails(k)
<1> DEFINE Same == work'[h][k] = work[h][k] /\ runBy'[k] = runBy[k]
<1>0. work \in Area /\ runBy \in [Job -> Chain \union {NoChain}]
  BY DEF TypeOK, FileTypeOK
<1>1. CASE UNCHANGED <<work, runBy>>
  BY <1>1
<1>2. ASSUME NEW d \in Chain, TakeJob(d) \/ RejectJob(d), held[d] # k PROVE Same
  <2>1. CASE TakeJob(d)
    BY <1>0, <1>2, <2>1 DEF TakeJob, MoveToWork, Area
  <2>2. CASE RejectJob(d)
    BY <1>0, <1>2, <2>2 DEF RejectJob, RenameToWorkFails, Area, fileVars, areas
  <2> QED
    BY <1>2, <2>1, <2>2
<1>3. ASSUME NEW j \in Job, ArchiveFile(j) \/ FileFails(j), j # k PROVE Same
  <2>1. CASE ArchiveFile(j)
    BY <1>0, <1>3, <2>1 DEF ArchiveFile, MoveToArchive, Area, fileVars, areas
  <2>2. CASE FileFails(j)
    BY <1>0, <1>3, <2>2 DEF FileFails, MoveToFailed, RenameToFailedFails, Area
  <2> QED
    BY <1>3, <2>1, <2>2
<1> QED
  BY <1>1, <1>2, <1>3
     DEF Next, ChainStep, SupervisorStep, workerVars, fileVars, areas, DropFile, FinishWriting,
         Start, OnRegistered, RegistrationTimesOut, Crash, ListInbox, HandleEvent, Tick,
         ChainEnds, OnRunning, OnResult, OnSuccess, ProcessingFails, OutcomeSucceeds,
         OutcomeFails, StoppedEnds, RefreshCycle, ScriptStarts, ScriptReturns, ScriptThrows,
         HandleRegister, HandleCreate, HandleCheckout, HandleUpdate, HandlePost,
         WorkerAnswersControl, HandleControl, RequestLost, RequestFails

-----------------------------------------------------------------------------
(* Jobs that are over *)

\* Every step leaves a job that is over with no chain.
LEMMA FinishedStep ==
  ASSUME EtlInv, FinishedJobs, Next
  PROVE  FinishedJobs'
<1>0. TypeOK /\ LateWrites /\ ChainKnowsItsJob /\ SoleProcessor
  BY DEF EtlInv
<1>1. ASSUME NEW j \in Job, Claimed(j), \A c \in Chain : held[c] # j
      PROVE  Claimed(j)' /\ \A c \in Chain : held'[c] # j
  <2>1. Claimed(j)'
    BY <1>0, <1>1, ClaimedForEver
  <2>2. ASSUME NEW c \in Chain PROVE held'[c] # j
    BY <1>0, <1>1, HeldChange DEF Claimed
  <2> QED
    BY <2>1, <2>2
<1>2. ASSUME NEW j \in Job, NEW c \in Chain, held[c] = j, held' = [held EXCEPT ![c] = NoJob]
      PROVE  Claimed(j)' /\ \A d \in Chain : held'[d] # j
  <2>1. Claimed(j)
    BY <1>0, <1>2 DEF SoleProcessor, Claimed
  <2>2. Claimed(j)'
    BY <1>0, <2>1, ClaimedForEver
  <2>3. \A d \in Chain : held[d] = j => d = c
    BY <1>0, <1>2 DEF SoleProcessor
  <2>4. held \in [Chain -> Job \union {NoJob}]
    BY <1>0 DEF TypeOK
  <2> QED
    BY <1>2, <2>2, <2>3, <2>4
<1>3. ASSUME NEW j \in Job, NEW h \in Home, archive'[h][j] \in Upload \/ failed'[h][j] \in Upload
      PROVE  Claimed(j)' /\ \A c \in Chain : held'[c] # j
  <2>1. \/ archive[h][j] \in Upload \/ failed[h][j] \in Upload
        \/ \E o \in outcomes : o.job = j
    <3>1. ASSUME NEW k \in Job, ArchiveFile(k), archive'[h][j] \in Upload
          PROVE  archive[h][j] \in Upload \/ \E o \in outcomes : o.job = j
      BY <1>0, <1>3, <3>1, ArchiveFileEffect DEF ArchiveFile
    <3>2. ASSUME NEW k \in Job, FileFails(k), failed'[h][j] \in Upload
          PROVE  failed[h][j] \in Upload \/ \E o \in outcomes : o.job = j
      BY <1>0, <1>3, <3>2, FileFailsEffect DEF FileFails
    <3> QED
      BY <1>3, <3>1, <3>2, ArchiveChange, FailedChange
  <2> QED
    BY <1>1, <2>1 DEF FinishedJobs
<1>4. ASSUME NEW j \in Job, NEW o \in outcomes', o.job = j
      PROVE  Claimed(j)' /\ \A c \in Chain : held'[c] # j
  <2>1. CASE o \in outcomes
    BY <1>1, <1>4, <2>1 DEF FinishedJobs
  <2>2. ASSUME NEW c \in Chain, held[c] = j, held' = [held EXCEPT ![c] = NoJob]
        PROVE  Claimed(j)' /\ \A d \in Chain : held'[d] # j
    BY <1>2, <2>2
  <2> QED
    BY <1>0, <1>4, <2>1, <2>2, OutcomesChange
<1> QED
  BY <1>3, <1>4 DEF FinishedJobs

\* Every step leaves room in the archive for what is about to be archived.
LEMMA RoomStep ==
  ASSUME EtlInv, FinishedJobs, ArchiveHasRoom, Next
  PROVE  ArchiveHasRoom'
<1>0. TypeOK /\ ChainKnowsItsJob
  BY DEF EtlInv
<1> SUFFICES ASSUME NEW o \in outcomes', o.to = "archive", NEW h \in Home
             PROVE  archive'[h][o.job] \notin Upload
  BY DEF ArchiveHasRoom
<1>1. CASE o \in outcomes
  <2>1. archive[h][o.job] \notin Upload /\ o.job \in Job
    BY <1>0, <1>1 DEF ArchiveHasRoom, TypeOK
  <2>2. CASE UNCHANGED archive
    BY <2>1, <2>2
  <2>3. ASSUME NEW k \in Job, ArchiveFile(k) PROVE archive'[h][o.job] \notin Upload
    BY <1>0, <2>1, <2>3, ArchiveFileEffect
  <2> QED
    BY <2>2, <2>3, ArchiveChange
<1>2. ASSUME NEW c \in Chain, held[c] \in Job, o.job = held[c], UNCHANGED archive
      PROVE  archive'[h][o.job] \notin Upload
  BY <1>2 DEF FinishedJobs
<1> QED
  BY <1>0, <1>1, <1>2, OutcomesChange

-----------------------------------------------------------------------------
(* Work files and the chains that process their jobs *)

\* A chain that processes goes on with its wait, for the same job, but for a
\* few steps of its own and a crash of its worker.
LEMMA WaitingStays ==
  ASSUME TypeOK, AwaitedRequests, Next, NEW c \in Chain
  PROVE  \/ /\ pc[c] \in Working => pc'[c] = pc[c] /\ held'[c] = held[c]
            /\ pc'[c] \in Working => pc[c] \in Working
         \/ TakeJob(c) \/ OnRunning(c) \/ OnResult(c) \/ OnSuccess(c) \/ ProcessingFails(c)
         \/ OutcomeSucceeds(c) \/ OutcomeFails(c) \/ Crash(WorkerOf[c])
<1> DEFINE Stays == /\ pc[c] \in Working => pc'[c] = pc[c] /\ held'[c] = held[c]
                    /\ pc'[c] \in Working => pc[c] \in Working
           Own(d) == \/ TakeJob(d) \/ OnRunning(d) \/ OnResult(d) \/ OnSuccess(d)
                     \/ ProcessingFails(d) \/ OutcomeSucceeds(d) \/ OutcomeFails(d)
<1>0. /\ pc \in [Chain -> Waits \union {"idle"}] /\ held \in [Chain -> Job \union {NoJob}]
      /\ \A r \in checkouts : r.chain \in Chain
  BY ChainTypes
<1>1. ASSUME UNCHANGED <<pc, held>> PROVE Stays
  BY <1>1
<1>2. ASSUME NEW d \in Chain, Own(d) PROVE Stays \/ Own(c)
  <2>1. CASE d = c
    BY <1>2, <2>1
  <2>2. CASE d # c
    BY <1>0, <1>2, <2>2
       DEF TakeJob, OnRunning, OnResult, OnSuccess, ProcessingFails, OutcomeSucceeds,
           OutcomeFails, AskCheckout, Await
  <2> QED
    BY <2>1, <2>2
<1>3. ASSUME NEW d \in Chain, RejectJob(d) PROVE Stays
  BY <1>0, <1>3 DEF RejectJob, Await, Working
<1>4. ASSUME NEW d \in Chain, Tick(d) \/ StoppedEnds(d) PROVE Stays
  <2>1. AskCheckout(d) /\ pc[d] \notin Working
    BY <1>4 DEF Tick, StoppedEnds, Working
  <2> QED
    BY <1>0, <2>1 DEF AskCheckout, Await, Working
<1>6. ASSUME NEW d \in Chain, ChainEnds(d) PROVE Stays
  BY <1>0, <1>6 DEF ChainEnds, Await, Working
<1>7. ASSUME NEW r \in checkouts, HandleCheckout(r) PROVE Stays
  <2>1. pc' = pc /\ (r.ask = 0 => pc[r.chain] = "checkout")
    BY <1>7 DEF HandleCheckout, AwaitedRequests
  <2>2. c # r.chain \/ r.ask # 0 => held'[c] = held[c]
    BY <1>0, <1>7 DEF HandleCheckout
  <2> QED
    BY <2>1, <2>2 DEF Working
<1>8. ASSUME NEW w \in Worker, Crash(w) PROVE Stays \/ Crash(WorkerOf[c])
  <2>1. CASE WorkerOf[c] = w
    BY <1>8, <2>1
  <2>2. CASE WorkerOf[c] # w
    BY <1>0, <1>8, <2>2 DEF Crash, ChainsOf
  <2> QED
    BY <2>1, <2>2
<1> HIDE DEF Stays
<1>9. Stays \/ Own(c) \/ Crash(WorkerOf[c])
  <2>1. ASSUME UNCHANGED <<pc, held>> PROVE Stays
    BY <1>1, <2>1
  <2> QED
    BY <1>2, <1>3, <1>4, <1>6, <1>7, <1>8, <2>1
       DEF Next, ChainStep, SupervisorStep, workerVars, chainVars, DropFile, FinishWriting,
           Start, OnRegistered, RegistrationTimesOut, ListInbox, HandleEvent, ArchiveFile,
           FileFails, RefreshCycle, ScriptStarts, ScriptReturns, ScriptThrows, HandleRegister,
           HandleCreate, HandleUpdate, HandlePost, WorkerAnswersControl, HandleControl,
           RequestLost, RequestFails
<1> QED
  BY <1>9 DEF Stays

\* A taken file goes to the work directory of its job.
LEMMA TakeJobEffect ==
  ASSUME TypeOK, ChainKnowsItsJob, NEW c \in Chain, TakeJob(c)
  PROVE  /\ held[c] \in Job /\ held' = held /\ pc' = [pc EXCEPT ![c] = "running"]
         /\ runBy' = [runBy EXCEPT ![held[c]] = c]
         /\ work'[HomeOfChain(c)][held[c]] \in Upload
         /\ UNCHANGED <<archive, failed>>
<1>1. /\ work \in Area /\ inbox \in [Home -> [Name -> Upload \union {NoUpload}]]
      /\ HomeOfChain(c) \in Home
  BY DEF TypeOK, FileTypeOK, HomeOfChain
<1>2. held[c] \in Job /\ held' = held
  BY DEF TakeJob, ChainKnowsItsJob
<1>3. work'[HomeOfChain(c)][held[c]] = inbox[HomeOfChain(c)][jobs[held[c]].input]
  BY <1>1, <1>2 DEF TakeJob, MoveToWork, Area
<1>4. jobs[held[c]].input \in Name
  BY DEF TakeJob
<1>5. work'[HomeOfChain(c)][held[c]] \in Upload
  BY <1>1, <1>3, <1>4 DEF TakeJob, MoveToWork, CanMoveToWork
<1> QED
  BY <1>2, <1>5 DEF TakeJob, Await, MoveToWork

\* A work file that belongs to a job in process stays where it is.
LEMMA WorkFileRests ==
  ASSUME EtlInv, FinishedJobs, WorkFilesAreHeld, Next, NEW k \in Job, FileAtWork(k),
         \/ \E c \in Chain : pc[c] \in Working /\ held[c] = k
         \/ \E o \in outcomes : o \in outcomes' /\ o.job = k
  PROVE  FileAtWork(k)' /\ runBy'[k] = runBy[k]
<1>0. /\ TypeOK /\ ChainKnowsItsJob /\ SoleProcessor /\ HomeOfChain(runBy[k]) \in Home
      /\ outcomes \subseteq [job : Job, to : {"archive", "failed"}]
  BY DEF EtlInv, FileAtWork, HomeOfChain, TypeOK
<1>1. ASSUME NEW d \in Chain, held[d] = k, TakeJob(d) \/ RejectJob(d) PROVE FALSE
  <2>1. pc[d] \notin Working
    BY <1>1 DEF TakeJob, RejectJob, Working
  <2>2. ASSUME NEW c \in Chain, pc[c] \in Working, held[c] = k PROVE FALSE
    <3>1. held[c] # NoJob
      BY <1>0, <2>2
    <3> QED
      BY <1>0, <1>1, <2>1, <2>2, <3>1 DEF SoleProcessor
  <2>3. ASSUME NEW o \in outcomes, o.job = k PROVE FALSE
    BY <1>1, <2>3 DEF FinishedJobs
  <2> QED
    BY <2>2, <2>3
<1>2. ASSUME ArchiveFile(k) \/ FileFails(k) PROVE FALSE
  <2>1. PICK p \in outcomes : p.job = k /\ p \notin outcomes'
    BY <1>2 DEF ArchiveFile, FileFails
  <2>2. ASSUME NEW c \in Chain, held[c] = k PROVE FALSE
    BY <2>1, <2>2 DEF FinishedJobs
  <2>3. ASSUME NEW o \in outcomes, o \in outcomes', o.job = k PROVE FALSE
    BY <2>1, <2>3 DEF WorkFilesAreHeld
  <2> QED
    BY <2>2, <2>3
<1>3. work'[HomeOfChain(runBy[k])][k] = work[HomeOfChain(runBy[k])][k] /\ runBy'[k] = runBy[k]
  BY <1>0, <1>1, <1>2, WorkChange
<1> QED
  BY <1>3 DEF FileAtWork, HomeOfChain

\* Every step leaves the work file of a job in process where it is.
LEMMA WorkFilesStep ==
  ASSUME EtlInv, FinishedJobs, WorkFilesAreHeld, Next
  PROVE  WorkFilesAreHeld'
<1>0. TypeOK /\ AwaitedRequests /\ ChainKnowsItsJob /\ SoleProcessor
  BY DEF EtlInv
<1>1. ASSUME NEW c \in Chain, pc'[c] \in Working
      PROVE  runBy'[held'[c]] = c /\ work'[HomeOfChain(c)][held'[c]] \in Upload
  <2>1. ASSUME pc[c] \in Working, held'[c] = held[c]
        PROVE  runBy'[held'[c]] = c /\ work'[HomeOfChain(c)][held'[c]] \in Upload
    <3>1. held[c] \in Job /\ runBy[held[c]] = c /\ FileAtWork(held[c])
      BY <1>0, <2>1 DEF WorkFilesAreHeld, ChainKnowsItsJob, Working
    <3>2. FileAtWork(held[c])' /\ runBy'[held[c]] = runBy[held[c]]
      BY <2>1, <3>1, WorkFileRests
    <3> QED
      BY <2>1, <3>1, <3>2 DEF FileAtWork, HomeOfChain
  <2>2. CASE TakeJob(c)
    <3>1. /\ held[c] \in Job /\ held'[c] = held[c] /\ runBy' = [runBy EXCEPT ![held[c]] = c]
          /\ work'[HomeOfChain(c)][held[c]] \in Upload
      BY <1>0, <2>2, TakeJobEffect
    <3>2. runBy'[held[c]] = c
      BY <1>0, <3>1 DEF TypeOK
    <3> QED
      BY <3>1, <3>2
  <2>3. CASE OnRunning(c) \/ OnResult(c) \/ OnSuccess(c) \/ ProcessingFails(c)
    BY <2>1, <2>3 DEF OnRunning, OnResult, OnSuccess, ProcessingFails, Working
  <2>4. ~OutcomeSucceeds(c) /\ ~OutcomeFails(c)
    BY <1>0, <1>1, ChainTypes DEF OutcomeSucceeds, OutcomeFails, AskCheckout, Await, Working
  <2>5. ~Crash(WorkerOf[c])
    BY <1>0, <1>1, ChainTypes DEF Crash, ChainsOf, Working
  <2> QED
    BY <1>0, <1>1, <2>1, <2>2, <2>3, <2>4, <2>5, WaitingStays
<1>2. ASSUME NEW o \in outcomes' PROVE FileAtWork(o.job)'
  <2>1. CASE o \in outcomes
    <3>1. o.job \in Job /\ FileAtWork(o.job)
      BY <1>0, <2>1 DEF WorkFilesAreHeld, TypeOK
    <3> QED
      BY <1>2, <2>1, <3>1, WorkFileRests
  <2>2. ASSUME NEW c \in Chain, pc[c] \in Working, o.job = held[c], UNCHANGED <<work, runBy>>
        PROVE  FileAtWork(o.job)'
    BY <2>2 DEF WorkFilesAreHeld, FileAtWork, HomeOfChain
  <2> QED
    BY <1>0, <2>1, <2>2, OutcomesChange
<1>3. ASSUME NEW o \in outcomes', NEW p \in outcomes', o.job = p.job PROVE o = p
  <2>1. ASSUME NEW q \in outcomes', q \notin outcomes, NEW r \in outcomes', q.job = r.job
        PROVE  q = r
    <3>1. PICK c \in Chain : /\ held[c] \in Job /\ q.job = held[c]
                             /\ outcomes' = outcomes \union {q}
      BY <1>0, <2>1, OutcomesChange
    <3>2. r \notin outcomes
      BY <2>1, <3>1 DEF FinishedJobs
    <3> QED
      BY <3>1, <3>2
  <2>2. CASE o \in outcomes /\ p \in outcomes
    BY <1>3, <2>2 DEF WorkFilesAreHeld
  <2> QED
    BY <1>3, <2>1, <2>2
<1> QED
  BY <1>1, <1>2, <1>3 DEF WorkFilesAreHeld, FileAtWork, HomeOfChain

\* Every step leaves the file of a taken job in its home.
LEMMA TakenStep ==
  ASSUME EtlInv, FinishedJobs, ArchiveHasRoom, WorkFilesAreHeld, TakenFiles, Next
  PROVE  TakenFiles'
<1>0. /\ TypeOK /\ AwaitedRequests /\ ChainKnowsItsJob /\ SoleProcessor /\ LateWrites
      /\ work \in Area /\ archive \in Area /\ failed \in Area
      /\ runBy \in [Job -> Chain \union {NoChain}]
  BY DEF EtlInv, TypeOK, FileTypeOK
<1> SUFFICES ASSUME NEW j \in Job, runBy'[j] \in Chain
             PROVE  /\ Claimed(j)'
                    /\ \/ work'[HomeOfChain(runBy'[j])][j] \in Upload
                       \/ archive'[HomeOfChain(runBy'[j])][j] \in Upload
                       \/ failed'[HomeOfChain(runBy'[j])][j] \in Upload
  BY DEF TakenFiles, HomeOfChain
<1>1. CASE \E c \in Chain : TakeJob(c) /\ held[c] = j
  <2>1. PICK c \in Chain : TakeJob(c) /\ held[c] = j
    BY <1>1
  <2>2. Claimed(j)'
    <3>1. Claimed(j)
      BY <1>0, <2>1 DEF SoleProcessor, Claimed
    <3> QED
      BY <1>0, <3>1, ClaimedForEver
  <2>3. runBy'[j] = c /\ work'[HomeOfChain(c)][j] \in Upload
    BY <1>0, <2>1, TakeJobEffect
  <2> QED
    BY <2>2, <2>3
<1>2. CASE ~\E c \in Chain : TakeJob(c) /\ held[c] = j
  <2>1. runBy'[j] = runBy[j]
    <3>1. CASE UNCHANGED runBy
      BY <3>1
    <3>2. ASSUME NEW c \in Chain, TakeJob(c) PROVE runBy'[j] = runBy[j]
      BY <1>0, <1>2, <3>2, TakeJobEffect
    <3> QED
      BY <3>1, <3>2, RunByChange
  <2> DEFINE h == HomeOfChain(runBy[j])
  <2>2. h \in Home /\ runBy[j] \in Chain
    BY <2>1 DEF HomeOfChain
  <2>3. Claimed(j)'
    BY <1>0, <2>2, ClaimedForEver DEF TakenFiles
  <2>4. archive[h][j] \in Upload => archive'[h][j] \in Upload
    <3>1. ASSUME NEW k \in Job, ArchiveFile(k), archive[h][j] \in Upload
          PROVE  archive'[h][j] \in Upload
      <4>1. k # j
        BY <2>2, <3>1 DEF ArchiveFile, ArchiveHasRoom
      <4> QED
        BY <1>0, <2>2, <3>1, <4>1, ArchiveFileEffect
    <3> QED
      BY <3>1, ArchiveChange
  <2>5. failed[h][j] \in Upload => failed'[h][j] \in Upload
    BY <1>0, <2>2, FailedChange, FileFailsEffect
  <2>6. work[h][j] \in Upload =>
          work'[h][j] \in Upload \/ archive'[h][j] \in Upload \/ failed'[h][j] \in Upload
    <3> SUFFICES ASSUME work[h][j] \in Upload
                 PROVE  \/ work'[h][j] \in Upload
                        \/ archive'[h][j] \in Upload \/ failed'[h][j] \in Upload
      OBVIOUS
    <3>1. ASSUME NEW d \in Chain, held[d] = j, RejectJob(d) PROVE work'[h][j] \in Upload
      BY <1>0, <2>2, <3>1 DEF RejectJob, RenameToWorkFails, CanMoveToWork, Area, fileVars, areas
    <3>2. ASSUME ArchiveFile(j) PROVE work'[h][j] \in Upload \/ archive'[h][j] \in Upload
      BY <1>0, <2>2, <3>2 DEF ArchiveFile, MoveToArchive, Area, fileVars, areas
    <3>3. ASSUME FileFails(j) PROVE work'[h][j] \in Upload \/ failed'[h][j] \in Upload
      BY <1>0, <2>2, <3>3 DEF FileFails, MoveToFailed, RenameToFailedFails, Area
    <3> QED
      BY <1>0, <1>2, <2>2, <3>1, <3>2, <3>3, WorkChange
  <2>7. work[h][j] \in Upload \/ archive[h][j] \in Upload \/ failed[h][j] \in Upload
    BY <2>2 DEF TakenFiles
  <2> QED
    BY <2>1, <2>3, <2>4, <2>5, <2>6, <2>7
<1> QED
  BY <1>1, <1>2

\* Every active script has a chain that waits for it, or outlasted its ask.
LEMMA AwaitedScriptsStep ==
  ASSUME EtlInv, WorkFilesAreHeld, ScriptsAreAwaited, Next
  PROVE  ScriptsAreAwaited'
<1>0. TypeOK /\ AwaitedRequests /\ ChainKnowsItsJob /\ SoleProcessor
  BY DEF EtlInv
<1>1. /\ pc \in [Chain -> Waits \union {"idle"}] /\ held \in [Chain -> Job \union {NoJob}]
      /\ script \in [Job -> ScriptState] /\ faults \in Nat
      /\ runBy \in [Job -> Chain \union {NoChain}]
  BY <1>0 DEF TypeOK
<1>a. faults' \in Nat /\ faults' >= faults
  BY <1>1, FaultsCount
<1> SUFFICES ASSUME NEW j \in Job, ScriptActive(j)'
             PROVE  /\ runBy'[j] \in Chain
                    /\ \/ \E c \in Chain : pc'[c] = "script" /\ held'[c] = j
                       \/ faults' > 0 /\ "overrun" \in FaultKinds
  BY DEF ScriptsAreAwaited
<1>b. runBy[j] \in Chain => runBy'[j] \in Chain
  BY <1>0, <1>1, RunByChange, TakeJobEffect
<1>2. CASE ScriptActive(j)
  <2>a. runBy'[j] \in Chain
    BY <1>b, <1>2 DEF ScriptsAreAwaited
  <2>1. CASE \E c \in Chain : pc[c] = "script" /\ held[c] = j
    <3>1. PICK c \in Chain : pc[c] = "script" /\ held[c] = j
      BY <2>1
    <3>2. ~OnResult(c)
      BY <1>0, <1>2, <3>1 DEF OnResult, ChainKnowsItsJob, ScriptActive
    <3>3. ProcessingFails(c) => faults' > 0 /\ "overrun" \in FaultKinds
      BY <1>1, <1>2, <3>1 DEF ProcessingFails, AskTimesOut, Silent, Fault
    <3>4. /\ ~TakeJob(c) /\ ~OnRunning(c) /\ ~OnSuccess(c)
          /\ ~OutcomeSucceeds(c) /\ ~OutcomeFails(c)
      BY <3>1 DEF TakeJob, OnRunning, OnSuccess, OutcomeSucceeds, OutcomeFails
    <3>5. ~Crash(WorkerOf[c])
      <4>1. j \in JobsRunBy(WorkerOf[c])
        BY <3>1 DEF WorkFilesAreHeld, JobsRunBy, Working
      <4> QED
        BY <1>1, <1>2, <4>1 DEF Crash, ScriptActive
    <3> QED
      BY <1>0, <2>a, <3>1, <3>2, <3>3, <3>4, <3>5, WaitingStays DEF Working
  <2>2. CASE faults > 0 /\ "overrun" \in FaultKinds
    BY <1>1, <1>a, <2>a, <2>2
  <2> QED
    BY <1>2, <2>1, <2>2 DEF ScriptsAreAwaited
<1>3. CASE ~ScriptActive(j)
  <2>1. PICK c \in Chain : OnRunning(c) /\ held[c] = j
    <3>1. ASSUME NEW c \in Chain, OnRunning(c) PROVE held[c] = j
      BY <1>1, <1>3, <3>1 DEF OnRunning, ScriptActive
    <3>2. ASSUME NEW k \in Job, ScriptStarts(k) \/ ScriptReturns(k) \/ ScriptThrows(k) PROVE FALSE
      BY <1>1, <1>3, <3>2 DEF ScriptStarts, ScriptReturns, ScriptThrows, ScriptActive
    <3>3. ASSUME NEW w \in Worker, Crash(w) PROVE FALSE
      BY <1>1, <1>3, <3>3 DEF Crash, ScriptActive
    <3>4. ASSUME UNCHANGED script PROVE FALSE
      BY <1>3, <3>4 DEF ScriptActive
    <3> QED
      BY <3>1, <3>2, <3>3, <3>4
         DEF Next, ChainStep, SupervisorStep, workerVars, DropFile, FinishWriting, Start,
             OnRegistered, RegistrationTimesOut, ListInbox, HandleEvent, Tick, ChainEnds,
             TakeJob, RejectJob, OnResult, OnSuccess, ProcessingFails, OutcomeSucceeds,
             OutcomeFails, StoppedEnds, ArchiveFile, FileFails, RefreshCycle, HandleRegister,
             HandleCreate, HandleCheckout, HandleUpdate, HandlePost, WorkerAnswersControl,
             HandleControl, RequestLost, RequestFails
  <2>2. runBy[j] = c
    BY <2>1 DEF OnRunning, WorkFilesAreHeld, Working
  <2> QED
    BY <1>1, <2>1, <2>2 DEF OnRunning, Await
<1> QED
  BY <1>2, <1>3

-----------------------------------------------------------------------------
(* Timers and the failed area *)

\* Every step leaves timers to the chains that took their jobs.
LEMMA TimersHeldStep ==
  ASSUME EtlInv, TakenFiles, TimersAreHeld, Next
  PROVE  TimersAreHeld'
<1>0. /\ TypeOK /\ AwaitedRequests /\ ChainKnowsItsJob /\ SoleProcessor
      /\ pc \in [Chain -> Waits \union {"idle"}] /\ held \in [Chain -> Job \union {NoJob}]
      /\ runBy \in [Job -> Chain \union {NoChain}]
      /\ timers \subseteq {j \in Job : runBy[j] \in Chain}
  BY DEF EtlInv, TypeOK
<1> SUFFICES ASSUME NEW c \in Chain, NEW j \in timers', held'[c] = j
             PROVE  runBy'[j] = c /\ pc'[c] \in Working
  BY DEF TimersAreHeld
<1>1. ASSUME NEW d \in Chain, TakeJob(d), held[d] = j PROVE runBy'[j] = c /\ pc'[c] \in Working
  <2>1. held' = held /\ j \in Job /\ pc'[d] = "running" /\ runBy'[j] = d
    BY <1>0, <1>1, TakeJobEffect
  <2>2. d = c
    BY <1>0, <1>1, <2>1 DEF SoleProcessor
  <2> QED
    BY <2>1, <2>2 DEF Working
<1>2. CASE j \in timers
  <2>1. j \in Job /\ Claimed(j)
    BY <1>0, <1>2 DEF TakenFiles
  <2>2. held[c] = j
    BY <1>0, <2>1, HeldChange DEF Claimed
  <2>3. runBy[j] = c /\ pc[c] \in Working
    BY <1>2, <2>2 DEF TimersAreHeld
  <2>4. ~TakeJob(c)
    BY <2>3 DEF TakeJob, Working
  <2>5. runBy'[j] = runBy[j]
    <3>1. ASSUME NEW d \in Chain, TakeJob(d) PROVE held[d] # j
      BY <1>0, <2>1, <2>2, <2>4, <3>1 DEF SoleProcessor
    <3> QED
      BY <1>0, <2>1, <3>1, RunByChange, TakeJobEffect
  <2>6. pc'[c] \in Working
    <3>1. CASE OnRunning(c) \/ OnResult(c) \/ OnSuccess(c) \/ ProcessingFails(c)
      BY <1>0, <3>1 DEF OnRunning, OnResult, OnSuccess, ProcessingFails, Await, Working
    <3>2. ~OutcomeSucceeds(c) /\ ~OutcomeFails(c)
      BY <1>0, <2>1 DEF OutcomeSucceeds, OutcomeFails, AskCheckout
    <3>3. ~Crash(WorkerOf[c])
      BY <1>0, <2>1 DEF Crash, ChainsOf
    <3> QED
      BY <1>0, <2>3, <2>4, <3>1, <3>2, <3>3, WaitingStays
  <2> QED
    BY <2>3, <2>5, <2>6
<1> QED
  BY <1>0, <1>1, <1>2, TimersChange

\* Without a fault, FAILED is answered and every outcome is a Success.
LEMMA FailuresStep ==
  ASSUME EtlInv, FailuresTakeAFault, Next
  PROVE  FailuresTakeAFault'
<1>0. /\ TypeOK /\ AwaitedRequests /\ faults \in Nat
      /\ pc \in [Chain -> Waits \union {"idle"}]
      /\ reply \in [Chain -> {"waiting", "empty", "done"}]
  BY DEF EtlInv, TypeOK
<1> SUFFICES ASSUME faults' = 0
             PROVE  /\ \A c \in Chain : pc'[c] = "failed" /\ reply'[c] = "waiting" =>
                         \E r \in updates' : r.chain = c /\ r.ask = 0
                    /\ \A o \in outcomes' : o.to = "archive"
                    /\ \A h \in Home, j \in Job : failed'[h][j] = NoDir
  BY DEF FailuresTakeAFault
<1>1. faults = 0 /\ UNCHANGED faults
  BY <1>0, FaultsCount
<1>2. /\ \A w \in Worker : ~Crash(w)
      /\ ~RequestLost /\ ~RequestFails
  BY <1>1 DEF Crash, RequestLost, RequestFails, Fault
<1>3. \A c \in Chain : ~OutcomeFails(c)
  BY <1>1 DEF OutcomeFails, AskTimesOut, Silent, Outstanding, Fault, FailuresTakeAFault
<1>4. ASSUME NEW c \in Chain, pc'[c] = "failed", reply'[c] = "waiting"
      PROVE  \E r \in updates' : r.chain = c /\ r.ask = 0
  <2> DEFINE Asked == \E r \in updates' : r.chain = c /\ r.ask = 0
  <2>1. ASSUME NEW d \in Chain, Tick(d) \/ ChainStep(d) PROVE Asked
    <3>1. CASE ProcessingFails(d) /\ d = c
      <4>1. [chain |-> c, job |-> held[c], state |-> "FAILED", ask |-> 0] \in updates'
        BY <3>1 DEF ProcessingFails, AskUpdate
      <4> QED
        BY <4>1
    <3>2. CASE d = c /\ ~ProcessingFails(c)
      <4>1. pc'[c] # "failed"
        BY <1>0, <2>1, <3>2
           DEF Tick, ChainStep, AskCheckout, Await, ChainEnds, TakeJob, RejectJob, OnRunning,
               OnResult, OnSuccess, OutcomeSucceeds, OutcomeFails, StoppedEnds
      <4> QED
        BY <1>4, <4>1
    <3>3. CASE d # c
      <4>1. pc[c] = "failed" /\ reply[c] = "waiting"
        BY <1>0, <1>4, <2>1, <3>3
           DEF Tick, ChainStep, AskCheckout, Await, ChainEnds, TakeJob, RejectJob, OnRunning,
               OnResult, OnSuccess, ProcessingFails, OutcomeSucceeds, OutcomeFails, StoppedEnds
      <4>2. PICK r \in updates : r.chain = c /\ r.ask = 0
        BY <1>1, <4>1 DEF FailuresTakeAFault
      <4>3. r \in Abandon(updates, {d})
        BY <3>3, <4>2 DEF Abandon
      <4>4. updates' = updates \/ Abandon(updates, {d}) \subseteq updates'
        BY <2>1
           DEF Tick, ChainStep, ChainEnds, TakeJob, RejectJob, OnRunning, OnResult, OnSuccess,
               ProcessingFails, OutcomeSucceeds, OutcomeFails, StoppedEnds, AskUpdate, requestVars
      <4> QED
        BY <4>2, <4>3, <4>4
    <3> QED
      BY <3>1, <3>2, <3>3
  <2>2. ASSUME NEW r \in updates, HandleUpdate(r) PROVE Asked
    <3>1. reply[c] = "waiting" /\ pc[c] = "failed" /\ (r.ask = 0 => r.chain # c)
      BY <1>0, <1>4, <2>2, ChainTypes DEF HandleUpdate, Answer
    <3>2. PICK q \in updates : q.chain = c /\ q.ask = 0
      BY <1>1, <3>1 DEF FailuresTakeAFault
    <3> QED
      BY <2>2, <3>1, <3>2 DEF HandleUpdate
  <2>3. ASSUME reply'[c] = "waiting" => reply[c] = "waiting", UNCHANGED <<pc, updates>> PROVE Asked
    BY <1>1, <1>4, <2>3 DEF FailuresTakeAFault
  <2>4. ASSUME NEW j \in Job, ScriptReturns(j) PROVE Asked
    BY <1>4, <2>3, <2>4 DEF ScriptReturns, requestVars
  <2>5. ASSUME NEW r \in checkouts, HandleCheckout(r) PROVE Asked
    BY <1>0, <1>4, <2>3, <2>5, ChainTypes DEF HandleCheckout, Answer
  <2>6. ASSUME NEW r \in posts, HandlePost(r) PROVE Asked
    BY <1>0, <1>4, <2>3, <2>6, ChainTypes DEF HandlePost, Answer
  <2> HIDE DEF Asked
  <2>7. Asked
    BY <1>2, <2>1, <2>2, <2>3, <2>4, <2>5, <2>6
       DEF Next, SupervisorStep, workerVars, chainVars, requestVars, DropFile, FinishWriting,
           Start, OnRegistered, RegistrationTimesOut, ListInbox, HandleEvent, ArchiveFile,
           FileFails, RefreshCycle, ScriptStarts, ScriptThrows, HandleRegister, HandleCreate,
           WorkerAnswersControl, HandleControl
  <2> QED
    BY <2>7 DEF Asked
<1>5. ASSUME NEW o \in outcomes' PROVE o.to = "archive"
  <2>1. CASE o \in outcomes
    BY <1>1, <2>1 DEF FailuresTakeAFault
  <2>2. CASE o \notin outcomes
    <3>1. PICK c \in Chain : OutcomeSucceeds(c)
      BY <1>0, <1>3, <1>5, <2>2, OutcomesChange DEF EtlInv
    <3>2. o = [job |-> held[c], to |-> "archive"]
      BY <1>5, <2>2, <3>1 DEF OutcomeSucceeds
    <3> QED
      BY <3>2
  <2> QED
    BY <2>1, <2>2
<1>6. UNCHANGED failed
  <2>1. \A j \in Job : ~FileFails(j)
    BY <1>1 DEF FileFails, FailuresTakeAFault
  <2> QED
    BY <2>1, FailedChange
<1> QED
  BY <1>1, <1>4, <1>5, <1>6 DEF FailuresTakeAFault

\* No step leaves a timer on after its job, but for the Failure callback.
LEMMA TimersStep ==
  ASSUME EtlInv, FinishedJobs, WorkFilesAreHeld, TimersAreHeld, TimersEndWithTheirJobs,
         FailuresTakeAFault, Next
  PROVE  TimersEndWithTheirJobs'
<1>0. /\ TypeOK /\ AwaitedRequests /\ ChainKnowsItsJob /\ SoleProcessor
      /\ pc \in [Chain -> Waits \union {"idle"}] /\ held \in [Chain -> Job \union {NoJob}]
      /\ runBy \in [Job -> Chain \union {NoChain}] /\ failed \in Area /\ faults \in Nat
      /\ timers \subseteq {j \in Job : runBy[j] \in Chain}
      /\ outcomes \subseteq [job : Job, to : {"archive", "failed"}]
  BY DEF EtlInv, TypeOK, FileTypeOK
<1> SUFFICES ASSUME NEW j \in timers'
             PROVE  /\ \A h \in Home : archive'[h][j] \notin Upload
                    /\ \/ \E c \in Chain : held'[c] = j
                       \/ \E o \in outcomes' : o.job = j
                       \/ faults' > 0 /\ failed'[HomeOfChain(runBy'[j])][j] # NoDir
  BY DEF TimersEndWithTheirJobs, HomeOfChain
<1>1. ASSUME NEW h \in Home, archive'[h][j] \in Upload PROVE FALSE
  <2>1. CASE j \in timers
    <3>1. archive[h][j] \notin Upload
      BY <2>1 DEF TimersEndWithTheirJobs
    <3>2. PICK k \in Job : ArchiveFile(k)
      BY <1>1, <3>1, ArchiveChange
    <3> QED
      BY <1>0, <1>1, <2>1, <3>1, <3>2, ArchiveFileEffect
  <2>2. ASSUME NEW c \in Chain, held[c] \in Job, j = held[c], UNCHANGED archive PROVE FALSE
    BY <1>1, <2>2 DEF FinishedJobs
  <2> QED
    BY <1>0, <2>1, <2>2, TimersChange
<1> DEFINE Goal == \/ \E c \in Chain : held'[c] = j
                   \/ \E o \in outcomes' : o.job = j
                   \/ faults' > 0 /\ failed'[HomeOfChain(runBy'[j])][j] # NoDir
<1>2. ASSUME NEW c \in Chain, TakeJob(c), j = held[c] PROVE Goal
  BY <1>0, <1>2, TakeJobEffect
<1>3. ASSUME j \in timers, NEW c \in Chain, held[c] = j PROVE Goal
  <2>1. runBy[j] = c /\ pc[c] \in Working /\ j \in Job
    BY <1>0, <1>3 DEF TimersAreHeld
  <2>2. CASE OnRunning(c) \/ OnResult(c) \/ OnSuccess(c) \/ ProcessingFails(c)
    BY <1>3, <2>2 DEF OnRunning, OnResult, OnSuccess, ProcessingFails
  <2>3. CASE OutcomeSucceeds(c) \/ OutcomeFails(c)
    <3>1. \/ [job |-> j, to |-> "archive"] \in outcomes'
          \/ [job |-> j, to |-> "failed"] \in outcomes'
      BY <1>3, <2>3 DEF OutcomeSucceeds, OutcomeFails
    <3> QED
      BY <3>1
  <2>4. ~Crash(WorkerOf[c])
    BY <2>1 DEF Crash, JobsRunBy
  <2>5. ~TakeJob(c)
    BY <2>1 DEF TakeJob, Working
  <2> QED
    BY <1>0, <1>3, <2>1, <2>2, <2>3, <2>4, <2>5, WaitingStays
<1>4. ASSUME j \in timers PROVE runBy'[j] = runBy[j] /\ runBy[j] \in Chain /\ j \in Job
  <2>1. ASSUME NEW d \in Chain, TakeJob(d) PROVE held[d] # j
    BY <1>4, <2>1 DEF TimersAreHeld, TakeJob, Working
  <2> QED
    BY <1>0, <1>4, <2>1, RunByChange, TakeJobEffect
<1>5. ASSUME j \in timers, faults > 0, failed[HomeOfChain(runBy[j])][j] # NoDir PROVE Goal
  <2>1. HomeOfChain(runBy[j]) \in Home
    BY <1>4, <1>5 DEF HomeOfChain
  <2>2. failed'[HomeOfChain(runBy[j])][j] # NoDir
    BY <1>0, <1>4, <1>5, <2>1, FailedChange, FileFailsEffect
  <2>3. faults' > 0
    BY <1>0, <1>5, FaultsCount
  <2> QED
    BY <1>4, <1>5, <2>2, <2>3
<1>6. ASSUME j \in timers, NEW o \in outcomes, o.job = j PROVE Goal
  <2>1. ~ArchiveFile(j)
    BY DEF ArchiveFile
  <2>2. ASSUME NEW w \in Worker, Crash(w), j \in JobsRunBy(w) PROVE FALSE
    BY <2>2 DEF Crash
  <2>3. CASE FileFails(j) /\ o.to = "failed"
    <3>1. faults' > 0
      <4>1. faults # 0
        BY <2>3 DEF FailuresTakeAFault
      <4> QED
        BY <1>0, <4>1, FaultsCount
    <3> DEFINE h == HomeOfChain(runBy[j])
    <3>2. h \in Home /\ work[h][j] \in Upload
      BY <1>4, <1>6 DEF WorkFilesAreHeld, FileAtWork, HomeOfChain
    <3>3. failed'[h][j] # NoDir
      <4>1. CASE MoveToFailed(h, j)
        BY <1>0, <1>4, <1>6, <3>2, <4>1 DEF MoveToFailed, Area
      <4>2. CASE RenameToFailedFails(h, j)
        BY <1>0, <1>4, <1>6, <3>2, <4>2 DEF RenameToFailedFails, Area
      <4> QED
        BY <2>3, <4>1, <4>2 DEF FileFails
    <3> QED
      BY <1>4, <1>6, <3>1, <3>3
  <2>4. CASE o \in outcomes'
    BY <1>6, <2>4
  <2> QED
    BY <1>0, <1>6, <2>1, <2>2, <2>3, <2>4, OutcomesLeave
<1>7. Goal
  <2>1. CASE j \in timers
    BY <1>3, <1>5, <1>6, <2>1 DEF TimersEndWithTheirJobs
  <2> QED
    BY <1>0, <1>2, <2>1, TimersChange
<1> QED
  BY <1>1, <1>7

-----------------------------------------------------------------------------
(* Where the files are *)

Inbox(h, n) == <<"inbox", h, n>>
Place(area, h, j) == <<area, h, j>>

\* The places are those of the inbox and of the three areas.
LEMMA Slots ==
  /\ \A h \in Home, n \in Name : Inbox(h, n) \in Slot
  /\ \A area \in {"work", "failed", "archive"}, h \in Home, j \in Job :
       Place(area, h, j) \in Slot
  /\ \A s \in Slot :
       \/ \E h \in Home, n \in Name : s = Inbox(h, n)
       \/ \E area \in {"work", "failed", "archive"}, h \in Home, j \in Job :
            s = Place(area, h, j)
BY DEF Slot, Inbox, Place

\* What is in a place.
LEMMA SlotContents ==
  /\ \A h, n : Holds(Inbox(h, n)) = inbox[h][n]
  /\ \A h, j : Holds(Place("work", h, j)) = work[h][j]
  /\ \A h, j : Holds(Place("failed", h, j)) = failed[h][j]
  /\ \A h, j : Holds(Place("archive", h, j)) = archive[h][j]
BY DEF Holds, Inbox, Place

\* What is in a place after a step.
LEMMA SlotContentsNext ==
  /\ \A h, n : Holds(Inbox(h, n))' = inbox'[h][n]
  /\ \A h, j : Holds(Place("work", h, j))' = work'[h][j]
  /\ \A h, j : Holds(Place("failed", h, j))' = failed'[h][j]
  /\ \A h, j : Holds(Place("archive", h, j))' = archive'[h][j]
BY DEF Holds, Inbox, Place

FilesKnown == EveryFileInOnePlace /\ DroppedFiles

\* A step that leaves every file in its place.
LEMMA FilesRest ==
  ASSUME FilesKnown, UNCHANGED nameOf,
         \A s \in Slot : Holds(s)' = Holds(s) \/ {Holds(s), Holds(s)'} \cap Upload = {}
  PROVE  FilesKnown'
BY DEF FilesKnown, EveryFileInOnePlace, DroppedFiles

\* One file moves to a place where there is none.
LEMMA FileMoves ==
  ASSUME FilesKnown, UNCHANGED nameOf, NEW from \in Slot, NEW to \in Slot, from # to,
         Holds(to) \notin Upload, Holds(from)' \notin Upload, Holds(to)' = Holds(from),
         \A s \in Slot \ {from, to} : Holds(s)' = Holds(s)
  PROVE  FilesKnown'
<1>1. \A s \in Slot : Holds(s)' \in Upload => nameOf[Holds(s)'] # NoName
  BY DEF FilesKnown, DroppedFiles
<1>2. ASSUME NEW u \in Upload, nameOf[u] # NoName
      PROVE  \E s \in Slot : Holds(s)' = u /\ \A t \in Slot : Holds(t)' = u => t = s
  <2>1. PICK s \in Slot : Holds(s) = u /\ \A t \in Slot : Holds(t) = u => t = s
    BY <1>2 DEF FilesKnown, EveryFileInOnePlace
  <2>2. CASE s = from
    BY <2>1, <2>2
  <2>3. CASE s # from
    BY <2>1, <2>3
  <2> QED
    BY <2>2, <2>3
<1> QED
  BY <1>1, <1>2 DEF FilesKnown, EveryFileInOnePlace, DroppedFiles

\* A new file appears where there is none.
LEMMA FileAppears ==
  ASSUME FilesKnown, NEW u \in Upload, nameOf[u] = NoName, NEW n \in Name,
         nameOf' = [nameOf EXCEPT ![u] = n], nameOf \in [Upload -> Name \union {NoName}],
         NEW at \in Slot, Holds(at) \notin Upload, Holds(at)' = u,
         \A s \in Slot \ {at} : Holds(s)' = Holds(s)
  PROVE  FilesKnown'
<1>1. \A s \in Slot : Holds(s) # u
  BY DEF FilesKnown, DroppedFiles
<1>2. \A v \in Upload : v # u => nameOf'[v] = nameOf[v]
  OBVIOUS
<1>3. nameOf'[u] # NoName
  OBVIOUS
<1>4. \A s \in Slot : Holds(s)' \in Upload => nameOf'[Holds(s)'] # NoName
  BY <1>1, <1>2, <1>3 DEF FilesKnown, DroppedFiles
<1>5. ASSUME NEW v \in Upload, nameOf'[v] # NoName
      PROVE  \E s \in Slot : Holds(s)' = v /\ \A t \in Slot : Holds(t)' = v => t = s
  <2>1. CASE v = u
    BY <1>1, <2>1
  <2>2. CASE v # u
    <3>1. PICK s \in Slot : Holds(s) = v /\ \A t \in Slot : Holds(t) = v => t = s
      BY <1>2, <1>5, <2>2 DEF FilesKnown, EveryFileInOnePlace
    <3> QED
      BY <2>2, <3>1
  <2> QED
    BY <2>1, <2>2
<1> QED
  BY <1>4, <1>5 DEF FilesKnown, EveryFileInOnePlace, DroppedFiles

\* Every other place holds what it held, if the moves say so.
LEMMA OtherPlaces ==
  ASSUME NEW S,
         \A h \in Home, n \in Name : Inbox(h, n) \in S \/ inbox'[h][n] = inbox[h][n],
         \A h \in Home, j \in Job : Place("work", h, j) \in S \/ work'[h][j] = work[h][j],
         \A h \in Home, j \in Job : Place("failed", h, j) \in S \/ failed'[h][j] = failed[h][j],
         \A h \in Home, j \in Job : Place("archive", h, j) \in S \/ archive'[h][j] = archive[h][j]
  PROVE  \A s \in Slot \ S : Holds(s)' = Holds(s)
<1> SUFFICES ASSUME NEW s \in Slot, s \notin S PROVE Holds(s)' = Holds(s)
  OBVIOUS
<1>1. ASSUME NEW h \in Home, NEW n \in Name, s = Inbox(h, n) PROVE Holds(s)' = Holds(s)
  BY <1>1 DEF Holds, Inbox
<1>2. ASSUME NEW h \in Home, NEW j \in Job, s = Place("work", h, j) PROVE Holds(s)' = Holds(s)
  BY <1>2 DEF Holds, Place
<1>3. ASSUME NEW h \in Home, NEW j \in Job, s = Place("failed", h, j) PROVE Holds(s)' = Holds(s)
  BY <1>3 DEF Holds, Place
<1>4. ASSUME NEW h \in Home, NEW j \in Job, s = Place("archive", h, j) PROVE Holds(s)' = Holds(s)
  BY <1>4 DEF Holds, Place
<1> QED
  BY <1>1, <1>2, <1>3, <1>4, Slots

\* A dropped file is a new one, in an empty place.
LEMMA DropStep ==
  ASSUME TypeOK, FilesKnown, NEW h \in Home, NEW n \in Name, NEW u \in Upload, DropFile(h, n, u)
  PROVE  FilesKnown'
<1> DEFINE at == Inbox(h, n)
<1>0. inbox \in [Home -> [Name -> Upload \union {NoUpload}]]
  BY DEF TypeOK, FileTypeOK
<1>1. inbox[h][n] = NoUpload /\ inbox' = [inbox EXCEPT ![h][n] = u] /\ UNCHANGED areas
  BY DEF DropFile
<1>2. \A g \in Home, m \in Name : Inbox(g, m) \in {at} \/ inbox'[g][m] = inbox[g][m]
  BY <1>0, <1>1 DEF Inbox
<1>3. \A s \in Slot \ {at} : Holds(s)' = Holds(s)
  BY <1>1, <1>2, OtherPlaces DEF areas
<1>4. Holds(at) \notin Upload /\ Holds(at)' = u /\ at \in Slot
  BY <1>0, <1>1, SlotContents, SlotContentsNext, Slots
<1>5. /\ nameOf[u] = NoName /\ nameOf' = [nameOf EXCEPT ![u] = n]
      /\ nameOf \in [Upload -> Name \union {NoName}]
  BY DEF DropFile, TypeOK
<1> HIDE DEF at
<1> QED
  BY <1>3, <1>4, <1>5, FileAppears

\* moveToDirectory moves a file from the inbox to work.
LEMMA TakeStep ==
  ASSUME TypeOK, FilesKnown, UNCHANGED nameOf,
         NEW h \in Home, NEW j \in Job, NEW n \in Name, MoveToWork(h, j, n)
  PROVE  FilesKnown'
<1> DEFINE from == Inbox(h, n)
           to == Place("work", h, j)
<1>0. inbox \in [Home -> [Name -> Upload \union {NoUpload}]] /\ work \in Area
  BY DEF TypeOK, FileTypeOK
<1>2. /\ work[h][j] = NoDir /\ work' = [work EXCEPT ![h][j] = inbox[h][n]]
      /\ inbox' = [inbox EXCEPT ![h][n] = NoUpload] /\ UNCHANGED <<failed, archive>>
  BY DEF MoveToWork, CanMoveToWork
<1>3. \A g \in Home, m \in Name : Inbox(g, m) \in {from, to} \/ inbox'[g][m] = inbox[g][m]
  BY <1>0, <1>2 DEF Inbox
<1>4. \A g \in Home, k \in Job : Place("work", g, k) \in {from, to} \/ work'[g][k] = work[g][k]
  BY <1>0, <1>2 DEF Place, Area
<1>5. \A s \in Slot \ {from, to} : Holds(s)' = Holds(s)
  BY <1>2, <1>3, <1>4, OtherPlaces
<1>6. from \in Slot /\ to \in Slot /\ from # to
  BY Slots DEF Inbox, Place
<1>7. Holds(to) \notin Upload /\ Holds(from)' \notin Upload /\ Holds(to)' = Holds(from)
  <2>1. work'[h][j] = inbox[h][n] /\ inbox'[h][n] = NoUpload
    BY <1>0, <1>2 DEF Area
  <2> QED
    BY <1>2, <2>1, SlotContents, SlotContentsNext
<1> HIDE DEF from, to
<1> QED
  BY <1>5, <1>6, <1>7, FileMoves

\* A failed rename leaves every file where it is.
LEMMA RenameFailsStep ==
  ASSUME TypeOK, FilesKnown, UNCHANGED nameOf,
         NEW h \in Home, NEW j \in Job, NEW n \in Name, RenameToWorkFails(h, j, n)
  PROVE  FilesKnown'
<1> DEFINE at == Place("work", h, j)
<1>0. work \in Area
  BY DEF TypeOK, FileTypeOK
<1>1. /\ work[h][j] = NoDir /\ work' = [work EXCEPT ![h][j] = EmptyDir]
      /\ UNCHANGED <<inbox, failed, archive>>
  BY DEF RenameToWorkFails, CanMoveToWork
<1>2. \A g \in Home, k \in Job : Place("work", g, k) \in {at} \/ work'[g][k] = work[g][k]
  BY <1>0, <1>1 DEF Place, Area
<1>3. \A s \in Slot \ {at} : Holds(s)' = Holds(s)
  BY <1>1, <1>2, OtherPlaces
<1>4. work'[h][j] \in {NoDir, EmptyDir}
  BY <1>0, <1>1 DEF Area
<1>5. {Holds(at), Holds(at)'} \cap Upload = {}
  BY <1>1, <1>4, SlotContents, SlotContentsNext
<1> HIDE DEF at
<1> QED
  BY <1>3, <1>5, FilesRest

\* Files stay known where no directory changes.
LEMMA NothingMoves ==
  ASSUME FilesKnown, UNCHANGED <<nameOf, inbox, work, failed, archive>>
  PROVE  FilesKnown'
<1>1. \A s \in Slot \ {} : Holds(s)' = Holds(s)
  BY OtherPlaces
<1> QED
  BY <1>1, FilesRest

\* moveToArchive moves a file from work to the archive.
LEMMA ArchiveStep ==
  ASSUME TypeOK, FilesKnown, UNCHANGED nameOf,
         NEW h, NEW j \in Job, MoveToArchive(h, j), h \in Home => archive[h][j] \notin Upload
  PROVE  FilesKnown'
<1> DEFINE from == Place("work", h, j)
           to == Place("archive", h, j)
<1>0. work \in Area /\ archive \in Area
  BY DEF TypeOK, FileTypeOK
<1>1. CASE h \notin Home \/ work[h][j] = NoDir
  <2>1. UNCHANGED <<inbox, work, failed, archive>>
    BY <1>0, <1>1 DEF MoveToArchive, Area
  <2> QED
    BY <2>1, NothingMoves
<1>2. CASE h \in Home /\ work[h][j] # NoDir
  <2>1. /\ archive' = [archive EXCEPT ![h][j] = work[h][j]]
        /\ work' = [work EXCEPT ![h][j] = NoDir]
        /\ UNCHANGED <<inbox, failed>>
    BY <1>2 DEF MoveToArchive
  <2>2. \A g \in Home, k \in Job : Place("work", g, k) \in {from, to} \/ work'[g][k] = work[g][k]
    BY <1>0, <2>1 DEF Place, Area
  <2>3. \A g \in Home, k \in Job :
          Place("archive", g, k) \in {from, to} \/ archive'[g][k] = archive[g][k]
    BY <1>0, <2>1 DEF Place, Area
  <2>4. \A s \in Slot \ {from, to} : Holds(s)' = Holds(s)
    BY <2>1, <2>2, <2>3, OtherPlaces
  <2>5. archive'[h][j] = work[h][j] /\ work'[h][j] = NoDir
    BY <1>0, <1>2, <2>1 DEF Area
  <2>6. from \in Slot /\ to \in Slot /\ from # to
    BY <1>2, Slots DEF Place
  <2>7. Holds(to) \notin Upload /\ Holds(from)' \notin Upload /\ Holds(to)' = Holds(from)
    BY <1>2, <2>5, SlotContents, SlotContentsNext
  <2> HIDE DEF from, to
  <2> QED
    BY <2>4, <2>6, <2>7, FileMoves
<1> QED
  BY <1>1, <1>2

\* moveToDirectory moves a file from work to failed.
LEMMA FailStep ==
  ASSUME TypeOK, FilesKnown, UNCHANGED nameOf, NEW h, NEW j \in Job, MoveToFailed(h, j)
  PROVE  FilesKnown'
<1> DEFINE from == Place("work", h, j)
           to == Place("failed", h, j)
<1>0. work \in Area /\ failed \in Area
  BY DEF TypeOK, FileTypeOK
<1>1. CASE h \notin Home \/ ~(work[h][j] \in Upload /\ failed[h][j] = NoDir)
  <2>1. UNCHANGED <<inbox, work, failed, archive>>
    BY <1>0, <1>1 DEF MoveToFailed, Area
  <2> QED
    BY <2>1, NothingMoves
<1>2. CASE h \in Home /\ work[h][j] \in Upload /\ failed[h][j] = NoDir
  <2>1. /\ failed' = [failed EXCEPT ![h][j] = work[h][j]]
        /\ work' = [work EXCEPT ![h][j] = EmptyDir]
        /\ UNCHANGED <<inbox, archive>>
    BY <1>2 DEF MoveToFailed
  <2>2. \A g \in Home, k \in Job : Place("work", g, k) \in {from, to} \/ work'[g][k] = work[g][k]
    BY <1>0, <2>1 DEF Place, Area
  <2>3. \A g \in Home, k \in Job :
          Place("failed", g, k) \in {from, to} \/ failed'[g][k] = failed[g][k]
    BY <1>0, <2>1 DEF Place, Area
  <2>4. \A s \in Slot \ {from, to} : Holds(s)' = Holds(s)
    BY <2>1, <2>2, <2>3, OtherPlaces
  <2>5. failed'[h][j] = work[h][j] /\ work'[h][j] = EmptyDir
    BY <1>0, <1>2, <2>1 DEF Area
  <2>6. from \in Slot /\ to \in Slot /\ from # to
    BY <1>2, Slots DEF Place
  <2>7. Holds(to) \notin Upload /\ Holds(from)' \notin Upload /\ Holds(to)' = Holds(from)
    BY <1>2, <2>5, SlotContents, SlotContentsNext
  <2> HIDE DEF from, to
  <2> QED
    BY <2>4, <2>6, <2>7, FileMoves
<1> QED
  BY <1>1, <1>2

\* A failed rename into the failed area leaves every file where it is.
LEMMA RenameToFailedStep ==
  ASSUME TypeOK, FilesKnown, UNCHANGED nameOf, NEW h, NEW j \in Job, RenameToFailedFails(h, j)
  PROVE  FilesKnown'
<1> DEFINE at == Place("failed", h, j)
<1>0. failed \in Area
  BY DEF TypeOK, FileTypeOK
<1>1. /\ failed[h][j] = NoDir /\ failed' = [failed EXCEPT ![h][j] = EmptyDir]
      /\ UNCHANGED <<inbox, work, archive>>
  BY DEF RenameToFailedFails
<1>2. CASE h \notin Home
  <2>1. UNCHANGED failed
    BY <1>0, <1>1, <1>2 DEF Area
  <2> QED
    BY <1>1, <2>1, NothingMoves
<1>3. CASE h \in Home
  <2>1. \A g \in Home, k \in Job :
          Place("failed", g, k) \in {at} \/ failed'[g][k] = failed[g][k]
    BY <1>0, <1>1 DEF Place, Area
  <2>2. \A s \in Slot \ {at} : Holds(s)' = Holds(s)
    BY <1>1, <2>1, OtherPlaces
  <2>3. failed'[h][j] = EmptyDir
    BY <1>0, <1>1, <1>3 DEF Area
  <2>4. {Holds(at), Holds(at)'} \cap Upload = {}
    BY <1>1, <2>3, SlotContents, SlotContentsNext
  <2> HIDE DEF at
  <2> QED
    BY <2>2, <2>4, FilesRest
<1> QED
  BY <1>2, <1>3

\* Every step keeps every file in one place.
LEMMA FilesStep ==
  ASSUME EtlInv, FilesKnown, ArchiveHasRoom, Next
  PROVE  FilesKnown'
<1>0. TypeOK /\ ChainKnowsItsJob
  BY DEF EtlInv
<1>1. ASSUME NEW h \in Home, NEW n \in Name, NEW u \in Upload, DropFile(h, n, u)
      PROVE  FilesKnown'
  BY <1>0, <1>1, DropStep
<1>2. ASSUME NEW c \in Chain, TakeJob(c) PROVE FilesKnown'
  <2>1. MoveToWork(HomeOfChain(c), held[c], jobs[held[c]].input) /\ UNCHANGED nameOf
    BY <1>2 DEF TakeJob, userVars
  <2>2. HomeOfChain(c) \in Home /\ held[c] \in Job /\ jobs[held[c]].input \in Name
    BY <1>0, <1>2 DEF TakeJob, HomeOfChain, ChainKnowsItsJob
  <2> QED
    BY <1>0, <2>1, <2>2, TakeStep
<1>3. ASSUME NEW c \in Chain, RejectJob(c) PROVE FilesKnown'
  <2>1. UNCHANGED nameOf
    BY <1>3 DEF RejectJob, userVars
  <2>2. CASE UNCHANGED fileVars
    BY <2>1, <2>2, NothingMoves DEF fileVars
  <2>3. CASE /\ jobs[held[c]].input \in Accepts[WorkerOf[c]]
             /\ RenameToWorkFails(HomeOfChain(c), held[c], jobs[held[c]].input)
    <3>1. HomeOfChain(c) \in Home /\ held[c] \in Job /\ jobs[held[c]].input \in Name
      BY <1>0, <1>3, <2>3 DEF RejectJob, HomeOfChain, ChainKnowsItsJob
    <3> QED
      BY <1>0, <2>1, <2>3, <3>1, RenameFailsStep
  <2> QED
    BY <1>3, <2>2, <2>3 DEF RejectJob
<1>4. ASSUME NEW j \in Job, ArchiveFile(j) PROVE FilesKnown'
  <2>1. UNCHANGED nameOf /\ (UNCHANGED fileVars \/ MoveToArchive(HomeOfChain(runBy[j]), j))
    BY <1>4 DEF ArchiveFile, userVars
  <2>2. \A h \in Home : archive[h][j] \notin Upload
    BY <1>4 DEF ArchiveFile, ArchiveHasRoom
  <2> QED
    BY <1>0, <2>1, <2>2, NothingMoves, ArchiveStep DEF fileVars
<1>5. ASSUME NEW j \in Job, FileFails(j) PROVE FilesKnown'
  BY <1>0, <1>5, FailStep, RenameToFailedStep DEF FileFails, userVars
<1>6. ASSUME UNCHANGED <<fileVars, nameOf>> PROVE FilesKnown'
  BY <1>6, NothingMoves DEF fileVars
<1> QED
  BY <1>1, <1>2, <1>3, <1>4, <1>5, <1>6
     DEF Next, ChainStep, SupervisorStep, userVars, FinishWriting, Start,
         OnRegistered, RegistrationTimesOut, Crash, ListInbox, HandleEvent, Tick, ChainEnds, OnRunning,
         OnResult, OnSuccess, ProcessingFails, OutcomeSucceeds, OutcomeFails, StoppedEnds,
         RefreshCycle, ScriptStarts, ScriptReturns, ScriptThrows, HandleRegister, HandleCreate,
         HandleCheckout, HandleUpdate, HandlePost, WorkerAnswersControl, HandleControl,
         RequestLost, RequestFails

-----------------------------------------------------------------------------
(* The theorems *)

\* FileInv holds before the first step.
LEMMA FileInvInit == Init => FileInv
<1> SUFFICES ASSUME Init PROVE FileInv
  OBVIOUS
<1>1. EveryFileInOnePlace
  BY DEF Init, EveryFileInOnePlace
<1>2. /\ \A h \in Home, n \in Name : inbox[h][n] \notin Upload
      /\ \A h \in Home, j \in Job :
           /\ work[h][j] \notin Upload
           /\ failed[h][j] \notin Upload
           /\ archive[h][j] \notin Upload
  BY DEF Init, FileInit
<1>3. DroppedFiles
  <2>1. ASSUME NEW s \in Slot PROVE Holds(s) \notin Upload
    BY <1>2, Slots, SlotContents
  <2> QED
    BY <2>1 DEF DroppedFiles
<1>4. TimersEndWithTheirJobs /\ FinishedJobs /\ ArchiveHasRoom /\ TimersAreHeld
  BY <1>2 DEF Init, TimersEndWithTheirJobs, FinishedJobs, ArchiveHasRoom, TimersAreHeld
<1>5. WorkFilesAreHeld /\ TakenFiles /\ ScriptsAreAwaited
  BY DEF Init, WorkFilesAreHeld, Working, TakenFiles, ScriptsAreAwaited, ScriptActive
<1>6. FailuresTakeAFault
  BY DEF Init, FileInit, FailuresTakeAFault
<1> QED
  BY <1>1, <1>3, <1>4, <1>5, <1>6 DEF FileInv

\* Every step keeps FileInv.
LEMMA FileInvNext == EtlInv /\ FileInv /\ [Next]_vars => FileInv'
<1>1. ASSUME EtlInv, FileInv, Next PROVE FileInv'
  <2>1. FilesKnown'
    BY <1>1, FilesStep DEF FileInv, FilesKnown
  <2>2. FinishedJobs' /\ ArchiveHasRoom'
    BY <1>1, FinishedStep, RoomStep DEF FileInv
  <2>3. WorkFilesAreHeld' /\ TakenFiles' /\ ScriptsAreAwaited'
    BY <1>1, WorkFilesStep, TakenStep, AwaitedScriptsStep DEF FileInv
  <2>4. TimersAreHeld' /\ FailuresTakeAFault' /\ TimersEndWithTheirJobs'
    BY <1>1, TimersHeldStep, FailuresStep, TimersStep DEF FileInv
  <2> QED
    BY <2>1, <2>2, <2>3, <2>4 DEF FileInv, FilesKnown
<1>2. ASSUME FileInv, UNCHANGED vars PROVE FileInv'
  <2>1. UNCHANGED <<fileVars, userVars, workerVars, jobs, updates, faults>>
    BY <1>2 DEF vars, requestVars, boundVars
  <2>2. EveryFileInOnePlace' /\ DroppedFiles'
    BY <1>2, <2>1, NothingMoves DEF FileInv, FilesKnown, fileVars, userVars
  <2>3. FinishedJobs' /\ ArchiveHasRoom' /\ TimersAreHeld'
    BY <1>2, <2>1
       DEF FileInv, FinishedJobs, Claimed, ArchiveHasRoom, TimersAreHeld, fileVars, workerVars
  <2>4. WorkFilesAreHeld'
    BY <1>2, <2>1
       DEF FileInv, WorkFilesAreHeld, FileAtWork, HomeOfChain, fileVars, workerVars
  <2>5. TakenFiles' /\ ScriptsAreAwaited'
    BY <1>2, <2>1
       DEF FileInv, TakenFiles, Claimed, HomeOfChain, ScriptsAreAwaited, ScriptActive,
           fileVars, workerVars
  <2>6. FailuresTakeAFault' /\ TimersEndWithTheirJobs'
    BY <1>2, <2>1
       DEF FileInv, FailuresTakeAFault, TimersEndWithTheirJobs, HomeOfChain, fileVars, workerVars
  <2> QED
    BY <2>2, <2>3, <2>4, <2>5, <2>6 DEF FileInv
<1> QED
  BY <1>1, <1>2

\* FileInv is an invariant.
LEMMA FileInvariance == Spec => []FileInv
  BY FileInvInit, FileInvNext, Invariance, PTL DEF Spec

\* No move of any worker overwrites, duplicates or loses a dropped file, not
\* even between workers that share a home and between faults
\* (FileMoving.scala, QweryETL.processJob).
THEOREM OnePlace == Spec => []EveryFileInOnePlace
<1>1. FileInv => EveryFileInOnePlace
  BY DEF FileInv
<1> QED
  BY <1>1, FileInvariance, PTL

\* The refresh timer of a job ends with the job, but for the Failure callback,
\* which a fault precedes (QweryETL.processJob's outcome callback).
THEOREM TimersEnd == Spec => []TimersEndWithTheirJobs
<1>1. FileInv => TimersEndWithTheirJobs
  BY DEF FileInv
<1> QED
  BY <1>1, FileInvariance, PTL

\* A script that is queued or executing finds its work file.  Only one that
\* outlasts its 4-hour ask may find it in the archive or failed area, and then no
\* chain waits for the job (WorkflowManagementActor, QweryETL.processJob).
THEOREM WorkFileStays == Spec => []WorkFileStaysWhileScriptRuns
<1>1. EtlInv /\ FileInv => WorkFileStaysWhileScriptRuns
  <2> SUFFICES ASSUME EtlInv, FileInv, NEW j \in Job, ScriptActive(j),
                      work[HomeOfChain(runBy[j])][j] \notin Upload
               PROVE  /\ faults > 0 /\ "overrun" \in FaultKinds
                      /\ \A c \in Chain : held[c] # j
                      /\ \/ archive[HomeOfChain(runBy[j])][j] \in Upload
                         \/ failed[HomeOfChain(runBy[j])][j] \in Upload
    BY DEF WorkFileStaysWhileScriptRuns
  <2>1. runBy[j] \in Chain /\ HomeOfChain(runBy[j]) \in Home
    BY DEF FileInv, ScriptsAreAwaited, HomeOfChain
  <2>2. \/ archive[HomeOfChain(runBy[j])][j] \in Upload
        \/ failed[HomeOfChain(runBy[j])][j] \in Upload
    BY <2>1 DEF FileInv, TakenFiles
  <2>3. \A c \in Chain : held[c] # j
    BY <2>1, <2>2 DEF FileInv, FinishedJobs
  <2>4. faults > 0 /\ "overrun" \in FaultKinds
    BY <2>3 DEF FileInv, ScriptsAreAwaited
  <2> QED
    BY <2>2, <2>3, <2>4
<1> QED
  BY <1>1, Invariance, FileInvariance, PTL

-----------------------------------------------------------------------------
(* Behaviours without faults and control calls *)

Calm == PromptCalls /\ PromptReplies /\ HeldJobs /\ StateTellsTheTruth

\* The step is neither a fault nor a control call.
CalmStep == Next /\ faults = 0 /\ UNCHANGED faults /\ ControlAnswers = {}

-----------------------------------------------------------------------------
(* Calls and replies *)

\* The waits that follow a report.
LEMMA ReportDomain == DOMAIN Report = {"running", "success", "failed", "stopped"}
BY DEF Report

\* No request is given up where none is awaited.
LEMMA NoneAbandoned ==
  ASSUME NEW requests, NEW c, \A r \in requests : r.ask = 0 => r.chain # c
  PROVE  Abandon(requests, {c}) = requests
BY DEF Abandon

\* A chain that has its reply, or waits for a script, awaits no request.
LEMMA QuietChain ==
  ASSUME TypeOK, AwaitedRequests, NEW c \in Chain,
         pc[c] \in {"idle", "script"} \/ reply[c] # "waiting"
  PROVE  \A r \in checkouts \union updates \union posts : r.ask = 0 => r.chain # c
BY DEF AwaitedRequests

\* Without faults only an ask of the workflow actor times out, whose script threw.
LEMMA OnlyScriptsAreSilent ==
  ASSUME TypeOK, faults = 0, UNCHANGED faults, PromptCalls, PromptReplies,
         NEW c \in Chain, AskTimesOut(c)
  PROVE  pc[c] = "script" /\ reply[c] = "waiting"
<1>1. Silent(c)
  BY DEF AskTimesOut, Fault
<1>2. pc[c] \in Waits
  BY DEF AskTimesOut, TypeOK
<1>3. reply[c] = "waiting" /\ ~Outstanding(c)
  BY <1>1 DEF Silent
<1>4. pc[c] \notin {"checkout", "stats"} \union DOMAIN Report
  BY <1>3 DEF Outstanding, PromptCalls, PromptReplies
<1> QED
  BY <1>2, <1>3, <1>4, ReportDomain DEF Waits

\* What the chains do next when there is no fault.
LEMMA CalmChains ==
  ASSUME TypeOK, faults = 0, UNCHANGED faults, PromptCalls, PromptReplies, NEW c \in Chain
  PROVE  /\ ChainEnds(c) => pc[c] = "checkout" /\ reply[c] = "empty"
         /\ ProcessingFails(c) => pc[c] = "script"
         /\ OutcomeSucceeds(c) => pc[c] \in {"stats", "failed"} /\ reply[c] = "done"
         /\ StoppedEnds(c) => pc[c] = "stopped" /\ reply[c] = "done"
         /\ ~OutcomeFails(c)
BY OnlyScriptsAreSilent
   DEF ChainEnds, ProcessingFails, OutcomeSucceeds, StoppedEnds, OutcomeFails

\* One chain goes on, to a wait of its own or to none.
LEMMA ChainGoesOn ==
  ASSUME TypeOK, PromptCalls, PromptReplies, NEW c \in Chain, UNCHANGED controls,
         \A r \in checkouts \union updates \union posts : r.ask = 0 => r.chain # c,
         \A d \in Chain \ {c} : pc'[d] = pc[d] /\ reply'[d] = reply[d] /\ held'[d] = held[d],
         checkouts \subseteq checkouts', updates \subseteq updates', posts \subseteq posts',
         \A r \in checkouts' : r \in checkouts \/ r.ask = 0,
         \A r \in updates' :
           r \in updates \/ (/\ r.chain = c /\ r.ask = 0
                             /\ r.job = held'[c] /\ r.state = Report[pc'[c]]),
         reply'[c] = "waiting" =>
           /\ pc'[c] = "checkout" => \E r \in checkouts' : r.chain = c
           /\ pc'[c] \in DOMAIN Report => \E r \in updates' : r.chain = c
           /\ pc'[c] = "stats" => \E r \in posts' : r.chain = c /\ r.ask = 0
  PROVE  PromptCalls' /\ PromptReplies'
<1>1. PromptCalls'
  BY ChainTypes DEF PromptCalls, Report
<1>2. ASSUME NEW d \in Chain, d # c, reply'[d] = "waiting"
      PROVE  /\ pc'[d] = "checkout" => \E r \in checkouts' : r.chain = d
             /\ pc'[d] \in DOMAIN Report => \E r \in updates' : r.chain = d
             /\ pc'[d] = "stats" => \E r \in posts' : r.chain = d /\ r.ask = 0
  BY <1>2 DEF PromptReplies
<1> QED
  BY <1>1, <1>2 DEF PromptReplies, Report

\* Routes take requests away only as they answer them.
LEMMA CallsAnswered ==
  ASSUME TypeOK, PromptCalls, PromptReplies, UNCHANGED <<pc, controls>>,
         checkouts' \subseteq checkouts, updates' \subseteq updates,
         \A r \in updates' : held'[r.chain] = held[r.chain],
         \A d \in Chain : reply'[d] = "waiting" =>
           /\ reply[d] = "waiting"
           /\ \A r \in checkouts : r.chain = d => r \in checkouts'
           /\ \A r \in updates : r.chain = d => r \in updates'
           /\ \A r \in posts : r.chain = d /\ r.ask = 0 => r \in posts'
  PROVE  PromptCalls' /\ PromptReplies'
BY DEF PromptCalls, PromptReplies, Report

\* A chain that reports a state has its request under way.
LEMMA AskingStep ==
  ASSUME TypeOK, PromptCalls, PromptReplies, NEW c \in Chain, UNCHANGED controls,
         NEW p \in DOMAIN Report, Await(c, p), AskUpdate(c, Report[p]),
         UNCHANGED <<held, checkouts, posts>>,
         \A r \in checkouts \union updates \union posts : r.ask = 0 => r.chain # c
  PROVE  PromptCalls' /\ PromptReplies'
<1> DEFINE mine == [chain |-> c, job |-> held[c], state |-> Report[p], ask |-> 0]
<1>1. updates' = updates \union {mine}
  BY NoneAbandoned DEF AskUpdate
<1>2. /\ pc'[c] = p /\ \A d \in Chain \ {c} : pc'[d] = pc[d] /\ reply'[d] = reply[d]
  BY ChainTypes DEF Await
<1>3. mine.chain = c /\ mine.ask = 0 /\ mine.job = held[c] /\ mine.state = Report[p]
  OBVIOUS
<1>4. p # "checkout" /\ p # "stats"
  BY ReportDomain
<1> HIDE DEF mine
<1> QED
  BY <1>1, <1>2, <1>3, <1>4, ChainGoesOn

\* A chain that checks out has its request under way.
LEMMA CheckingOutStep ==
  ASSUME TypeOK, PromptCalls, PromptReplies, NEW c \in Chain, UNCHANGED controls,
         AskCheckout(c), UNCHANGED updates, posts' = posts,
         \A r \in checkouts \union updates \union posts : r.ask = 0 => r.chain # c
  PROVE  PromptCalls' /\ PromptReplies'
<1> DEFINE mine == [chain |-> c, ask |-> 0]
<1>1. checkouts' = checkouts \union {mine}
  BY NoneAbandoned DEF AskCheckout
<1>4. mine.chain = c /\ mine.ask = 0
  OBVIOUS
<1>2. /\ pc'[c] = "checkout"
      /\ \A d \in Chain \ {c} : pc'[d] = pc[d] /\ reply'[d] = reply[d] /\ held'[d] = held[d]
  BY ChainTypes DEF AskCheckout, Await
<1>3. "checkout" \notin DOMAIN Report
  BY ReportDomain
<1> HIDE DEF mine
<1> QED
  BY <1>1, <1>2, <1>3, <1>4, ChainGoesOn

\* Every step leaves what is under way prompt, and every chain a way on.
LEMMA CallsStep ==
  ASSUME EtlInv, Calm, CalmStep
  PROVE  PromptCalls' /\ PromptReplies'
<1> DEFINE Goal == PromptCalls' /\ PromptReplies'
<1>0. TypeOK /\ AwaitedRequests /\ ChainKnowsItsJob /\ PromptCalls /\ PromptReplies
  BY DEF EtlInv, Calm
<1>a. faults = 0 /\ UNCHANGED faults /\ ControlAnswers = {} /\ controls = {}
  BY <1>0 DEF CalmStep, PromptCalls
<1>1. ASSUME NEW c \in Chain, Tick(c) PROVE Goal
  <2>1. \A r \in checkouts \union updates \union posts : r.ask = 0 => r.chain # c
    BY <1>0, <1>1, QuietChain DEF Tick
  <2> QED
    BY <1>0, <1>1, <2>1, CheckingOutStep DEF Tick
<1>2. ASSUME NEW c \in Chain, ChainEnds(c) PROVE Goal
  <2>1. \A r \in checkouts \union updates \union posts : r.ask = 0 => r.chain # c
    BY <1>0, <1>a, <1>2, CalmChains, QuietChain
  <2>2. /\ pc'[c] = "idle" /\ checkouts' = checkouts /\ UNCHANGED <<updates, posts, controls>>
        /\ \A d \in Chain \ {c} : pc'[d] = pc[d] /\ reply'[d] = reply[d] /\ held'[d] = held[d]
    <3>1. Abandon(checkouts, {c}) = checkouts
      BY <2>1, NoneAbandoned
    <3> QED
      BY <1>0, <1>2, <3>1, ChainTypes DEF ChainEnds, Await
  <2> QED
    BY <1>0, <2>1, <2>2, ReportDomain, ChainGoesOn
<1>3. ASSUME NEW c \in Chain, TakeJob(c) \/ RejectJob(c) \/ OnResult(c) PROVE Goal
  <2>1. \A r \in checkouts \union updates \union posts : r.ask = 0 => r.chain # c
    BY <1>0, <1>3, QuietChain DEF TakeJob, RejectJob, OnResult
  <2>2. /\ \E p \in DOMAIN Report : Await(c, p) /\ AskUpdate(c, Report[p])
        /\ UNCHANGED <<held, checkouts, posts, controls>>
    BY <1>3, ReportDomain DEF TakeJob, RejectJob, OnResult, Report
  <2> QED
    BY <1>0, <2>1, <2>2, AskingStep
<1>4. ASSUME NEW c \in Chain, ProcessingFails(c) PROVE Goal
  <2>1. \A r \in checkouts \union updates \union posts : r.ask = 0 => r.chain # c
    BY <1>0, <1>a, <1>4, CalmChains, QuietChain
  <2>2. /\ \E p \in DOMAIN Report : Await(c, p) /\ AskUpdate(c, Report[p])
        /\ UNCHANGED <<held, checkouts, posts, controls>>
    BY <1>4, ReportDomain DEF ProcessingFails, Report
  <2> QED
    BY <1>0, <2>1, <2>2, AskingStep
<1>5. ASSUME NEW c \in Chain, OnRunning(c) PROVE Goal
  <2>1. \A r \in checkouts \union updates \union posts : r.ask = 0 => r.chain # c
    BY <1>0, <1>5, QuietChain DEF OnRunning
  <2>2. /\ pc'[c] = "script" /\ UNCHANGED <<held, checkouts, updates, posts, controls>>
        /\ \A d \in Chain \ {c} : pc'[d] = pc[d] /\ reply'[d] = reply[d]
    BY <1>0, <1>5, ChainTypes DEF OnRunning, Await, requestVars
  <2> QED
    BY <1>0, <2>1, <2>2, ReportDomain, ChainGoesOn
<1>6. ASSUME NEW c \in Chain, OnSuccess(c) PROVE Goal
  <2>1. \A r \in checkouts \union updates \union posts : r.ask = 0 => r.chain # c
    BY <1>0, <1>6, QuietChain DEF OnSuccess
  <2> DEFINE mine == [chain |-> c, job |-> held[c], of |-> sources[c], ask |-> 0]
  <2>2. /\ pc'[c] = "stats" /\ UNCHANGED <<held, checkouts, updates, controls>>
        /\ \A d \in Chain \ {c} : pc'[d] = pc[d] /\ reply'[d] = reply[d]
        /\ posts' = posts \union {mine}
    BY <1>0, <1>6, ChainTypes DEF OnSuccess, Await
  <2>3. mine.chain = c /\ mine.ask = 0
    OBVIOUS
  <2> HIDE DEF mine
  <2> QED
    BY <1>0, <2>1, <2>2, <2>3, ReportDomain, ChainGoesOn
<1>7. ASSUME NEW c \in Chain, OutcomeSucceeds(c) \/ StoppedEnds(c) PROVE Goal
  <2>1. \A r \in checkouts \union updates \union posts : r.ask = 0 => r.chain # c
    BY <1>0, <1>a, <1>7, CalmChains, QuietChain
  <2>2. AskCheckout(c) /\ UNCHANGED <<updates, controls>> /\ posts' = posts
    <3>1. Abandon(updates, {c}) = updates /\ Abandon(posts, {c}) = posts
      BY <2>1, NoneAbandoned
    <3> QED
      BY <1>7, <3>1 DEF OutcomeSucceeds, StoppedEnds
  <2> QED
    BY <1>0, <2>1, <2>2, CheckingOutStep
<1>8. ASSUME UNCHANGED <<pc, held, reply, checkouts, updates, controls>>, posts \subseteq posts'
      PROVE  Goal
  BY <1>0, <1>8, CallsAnswered
<1>9. ASSUME NEW j \in Job, ScriptReturns(j) PROVE Goal
  <2>1. \A d \in Chain : reply'[d] = "waiting" => reply[d] = "waiting"
    BY <1>9 DEF ScriptReturns
  <2>2. UNCHANGED <<pc, held, checkouts, updates, posts, controls>>
    BY <1>9 DEF ScriptReturns, requestVars
  <2> QED
    BY <1>0, <2>1, <2>2, CallsAnswered
<1>10. ASSUME NEW r \in checkouts, HandleCheckout(r) PROVE Goal
  <2>1. r.ask = 0 /\ r.chain \in Chain
    BY <1>0, ChainTypes DEF PromptCalls
  <2>2. /\ \A d \in Chain : d # r.chain => reply'[d] = reply[d] /\ held'[d] = held[d]
        /\ reply'[r.chain] # "waiting"
    BY <1>0, <1>10, <2>1, ChainTypes DEF HandleCheckout, Answer
  <2>3. \A q \in updates : q.chain # r.chain
    BY <1>0, <2>1, OneAwaited DEF PromptCalls
  <2>4. checkouts' = checkouts \ {r} /\ UNCHANGED <<pc, updates, posts, controls>>
    BY <1>10 DEF HandleCheckout
  <2> QED
    BY <1>0, <2>2, <2>3, <2>4, ChainTypes, CallsAnswered
<1>11. ASSUME NEW r \in updates, HandleUpdate(r) PROVE Goal
  <2>1. r.ask = 0 /\ r.chain \in Chain
    BY <1>0, ChainTypes DEF PromptCalls
  <2>2. /\ \A d \in Chain : d # r.chain => reply'[d] = reply[d]
        /\ reply'[r.chain] # "waiting"
    BY <1>0, <1>11, <2>1, ChainTypes DEF HandleUpdate, Answer
  <2>3. updates' = updates \ {r} /\ UNCHANGED <<pc, held, checkouts, posts, controls>>
    BY <1>11 DEF HandleUpdate
  <2> QED
    BY <1>0, <2>2, <2>3, CallsAnswered
<1>12. ASSUME NEW r \in posts, HandlePost(r) PROVE Goal
  <2>1. r.chain \in Chain
    BY <1>0, ChainTypes
  <2>2. \A d \in Chain : reply'[d] = "waiting" =>
          reply[d] = "waiting" /\ (r.ask = 0 => d # r.chain)
    BY <1>0, <1>12, <2>1, ChainTypes DEF HandlePost, Answer
  <2>3. posts' = posts \ {r} /\ UNCHANGED <<pc, held, checkouts, updates, controls>>
    BY <1>12 DEF HandlePost
  <2> QED
    BY <1>0, <2>2, <2>3, CallsAnswered
<1>13. ASSUME NEW c \in Chain PROVE ~OutcomeFails(c)
  BY <1>0, <1>a, CalmChains
<1>14. /\ \A w \in Worker : ~Crash(w)
       /\ ~RequestLost /\ ~RequestFails
  BY <1>a DEF Crash, RequestLost, RequestFails, Fault
<1> QED
  BY <1>a, <1>1, <1>2, <1>3, <1>4, <1>5, <1>6, <1>7, <1>8, <1>9, <1>10, <1>11, <1>12, <1>13, <1>14
     DEF CalmStep, Next, ChainStep, SupervisorStep, workerVars, chainVars, requestVars, DropFile,
         FinishWriting, Start, OnRegistered, RegistrationTimesOut, ListInbox, HandleEvent, ArchiveFile,
         FileFails, RefreshCycle, ScriptStarts, ScriptThrows, HandleRegister, HandleCreate

-----------------------------------------------------------------------------
(* Jobs *)

\* What the calm steps do to the states of jobs.
LEMMA CalmJobs ==
  ASSUME EtlInv, PromptCalls, CalmStep, NEW k \in Job
  PROVE  \/ jobs'[k].state = jobs[k].state
         \/ ~Claimed(k) /\ jobs'[k].state = "NEW"
         \/ \E r \in checkouts :
              /\ r.ask = 0 /\ r.chain \in Chain /\ HandleCheckout(r)
              /\ held'[r.chain] = k /\ jobs'[k].state = "CLAIMED" /\ ~Claimed(k)
         \/ \E r \in updates :
              /\ r.chain \in Chain /\ HandleUpdate(r)
              /\ held[r.chain] = k /\ jobs'[k].state = Report[pc[r.chain]]
<1> DEFINE Goal ==
       \/ jobs'[k].state = jobs[k].state
       \/ ~Claimed(k) /\ jobs'[k].state = "NEW"
       \/ \E r \in checkouts :
            /\ r.ask = 0 /\ r.chain \in Chain /\ HandleCheckout(r)
            /\ held'[r.chain] = k /\ jobs'[k].state = "CLAIMED" /\ ~Claimed(k)
       \/ \E r \in updates :
            /\ r.chain \in Chain /\ HandleUpdate(r)
            /\ held[r.chain] = k /\ jobs'[k].state = Report[pc[r.chain]]
<1>0. TypeOK /\ jobs \in [Job -> JobData]
  BY DEF EtlInv, TypeOK, StoreTypeOK
<1>1. CASE UNCHANGED jobs
  BY <1>1
<1>2. ASSUME NEW r \in creates, HandleCreate(r) PROVE Goal
  <2>1. r.job \in Job /\ r.input \in Name /\ r.slave \in Worker \union {NoWorker}
    BY <1>0 DEF TypeOK, CreateRequest
  <2>2. CreateJob(r.job, r.input, r.slave)
    BY <1>2 DEF HandleCreate
  <2> QED
    BY <1>0, <2>1, <2>2, CreateJobEffect DEF Claimed
<1>3. ASSUME NEW r \in checkouts, HandleCheckout(r) PROVE Goal
  <2>1. r.ask = 0 /\ r.chain \in Chain /\ WorkerOf[r.chain] \in Worker
    BY <1>0, ChainTypes DEF PromptCalls
  <2>2. ASSUME NEW j \in Job, CheckoutJob(j, WorkerOf[r.chain]),
               held' = IF r.ask = 0 THEN [held EXCEPT ![r.chain] = j] ELSE held
        PROVE  Goal
    <3>1. /\ jobs[j].state = "NEW" /\ jobs'[j].state = "CLAIMED"
          /\ \A i \in Job : i # j => jobs'[i] = jobs[i]
      BY <1>0, <2>1, <2>2, CheckoutJobEffect
    <3>2. held'[r.chain] = j
      BY <1>0, <2>1, <2>2, ChainTypes
    <3> QED
      BY <1>3, <2>1, <3>1, <3>2 DEF Claimed
  <2> QED
    BY <1>1, <1>3, <2>2 DEF HandleCheckout
<1>4. ASSUME NEW r \in updates, HandleUpdate(r) PROVE Goal
  <2>1. /\ r.job \in Job /\ r.state \in JobState /\ r.chain \in Chain
        /\ r.job = held[r.chain] /\ r.state = Report[pc[r.chain]]
    BY <1>0 DEF TypeOK, UpdateRequest, PromptCalls
  <2>2. ChangeState(r.job, r.state)
    BY <1>4 DEF HandleUpdate
  <2>3. jobs'[r.job].state = r.state /\ \A i \in Job : i # r.job => jobs'[i] = jobs[i]
    BY <1>0, <2>1, <2>2, ChangeStateEffect
  <2> QED
    BY <1>4, <2>1, <2>3
<1>5. ASSUME NEW r \in posts, HandlePost(r) PROVE Goal
  <2>1. r.job \in Job /\ r.of \in SUBSET Job
    BY <1>0 DEF TypeOK, PostRequest
  <2>2. UpdateStatistics(r.job, r.of)
    BY <1>5 DEF HandlePost
  <2> QED
    BY <1>0, <2>1, <2>2, UpdateStatisticsEffect
<1>6. \A r \in controls : FALSE
  BY DEF PromptCalls
<1> QED
  BY <1>1, <1>2, <1>3, <1>4, <1>5, <1>6
     DEF CalmStep, Next, ChainStep, SupervisorStep, DropFile, FinishWriting, Start, OnRegistered,
         RegistrationTimesOut, Crash, ListInbox, HandleEvent, Tick, ChainEnds, TakeJob, RejectJob, OnRunning,
         OnResult, OnSuccess, ProcessingFails, OutcomeSucceeds, OutcomeFails, StoppedEnds,
         ArchiveFile, FileFails, RefreshCycle, ScriptStarts, ScriptReturns, ScriptThrows,
         HandleRegister, WorkerAnswersControl, RequestLost, RequestFails

\* What the calm steps do to a chain: it rests, gets a reply or goes on.
LEMMA CalmChain ==
  ASSUME EtlInv, PromptCalls, CalmStep, NEW c \in Chain
  PROVE  \/ /\ pc'[c] = pc[c] /\ held'[c] = held[c]
            /\ reply'[c] = reply[c] \/ pc[c] \in {"script", "stats"}
         \/ \E r \in checkouts : r.ask = 0 /\ r.chain = c /\ HandleCheckout(r)
         \/ \E r \in updates : r.ask = 0 /\ r.chain = c /\ HandleUpdate(r)
         \/ Tick(c) \/ ChainStep(c)
<1> DEFINE Rests == /\ pc'[c] = pc[c] /\ held'[c] = held[c]
                    /\ reply'[c] = reply[c] \/ pc[c] \in {"script", "stats"}
           Goal == \/ Rests
                   \/ \E r \in checkouts : r.ask = 0 /\ r.chain = c /\ HandleCheckout(r)
                   \/ \E r \in updates : r.ask = 0 /\ r.chain = c /\ HandleUpdate(r)
                   \/ Tick(c) \/ ChainStep(c)
<1>0. TypeOK /\ AwaitedRequests /\ faults = 0 /\ UNCHANGED faults
  BY DEF EtlInv, CalmStep
<1>1. CASE UNCHANGED <<pc, held, reply>>
  BY <1>1
<1>2. ASSUME NEW d \in Chain, AskCheckout(d), d # c PROVE Rests
  BY <1>0, <1>2, ChainTypes DEF AskCheckout, Await
<1>3. ASSUME NEW d \in Chain, Tick(d) \/ ChainStep(d) PROVE Goal
  <2>1. CASE d = c
    BY <1>3, <2>1
  <2>2. CASE d # c
    BY <1>0, <1>2, <1>3, <2>2, ChainTypes
       DEF Tick, ChainStep, ChainEnds, TakeJob, RejectJob, OnRunning, OnResult, OnSuccess,
           ProcessingFails, OutcomeSucceeds, OutcomeFails, StoppedEnds, Await
  <2> QED
    BY <2>1, <2>2
<1>4. ASSUME NEW j \in Job, ScriptReturns(j) PROVE Rests
  BY <1>4 DEF ScriptReturns
<1>5. ASSUME NEW r \in checkouts, HandleCheckout(r) PROVE Goal
  <2>1. r.ask = 0 /\ r.chain \in Chain
    BY <1>0, ChainTypes DEF PromptCalls
  <2>2. r.chain # c => Rests
    BY <1>0, <1>5, <2>1, ChainTypes DEF HandleCheckout, Answer
  <2> QED
    BY <1>5, <2>1, <2>2
<1>6. ASSUME NEW r \in updates, HandleUpdate(r) PROVE Goal
  <2>1. r.ask = 0 /\ r.chain \in Chain
    BY <1>0, ChainTypes DEF PromptCalls
  <2>2. r.chain # c => Rests
    BY <1>0, <1>6, <2>1, ChainTypes DEF HandleUpdate, Answer
  <2> QED
    BY <1>6, <2>1, <2>2
<1>7. ASSUME NEW r \in posts, HandlePost(r) PROVE Rests
  <2>1. r.chain \in Chain /\ (r.ask = 0 => pc[r.chain] = "stats")
    BY <1>0, ChainTypes DEF AwaitedRequests
  <2> QED
    BY <1>0, <1>7, <2>1, ChainTypes DEF HandlePost, Answer
<1>8. /\ \A w \in Worker : ~Crash(w)
      /\ ~RequestLost /\ ~RequestFails
  BY <1>0 DEF Crash, RequestLost, RequestFails, Fault
<1> QED
  BY <1>1, <1>3, <1>4, <1>5, <1>6, <1>7, <1>8
     DEF CalmStep, Next, SupervisorStep, workerVars, chainVars, DropFile, FinishWriting, Start,
         OnRegistered, RegistrationTimesOut, ListInbox, HandleEvent, ArchiveFile, FileFails, RefreshCycle,
         ScriptStarts, ScriptThrows, HandleRegister, HandleCreate, WorkerAnswersControl,
         HandleControl

\* While a chain holds a job, only its own reports change the job's state.
LEMMA HeldJobState ==
  ASSUME EtlInv, Calm, CalmStep, NEW c \in Chain, held[c] \in Job
  PROVE  \/ jobs'[held[c]].state = jobs[held[c]].state
         \/ \E r \in updates : /\ r.chain = c /\ HandleUpdate(r)
                               /\ jobs'[held[c]].state = Report[pc[c]]
<1>1. Claimed(held[c]) /\ \A d \in Chain : held[d] = held[c] => d = c
  BY DEF EtlInv, SoleProcessor, Claimed
<1> QED
  BY <1>1, CalmJobs DEF Calm

\* The run of a job whose chain reports STOPPED does not start.
LEMMA StoppedScript ==
  ASSUME EtlInv, Calm, CalmStep, NEW j \in Job, script[j] = "none", jobs[j].state = "STOPPED"
         \/ \E c \in Chain : held[c] = j /\ pc[c] = "stopped"
  PROVE  script'[j] = "none"
<1>0. script \in [Job -> ScriptState] /\ faults = 0 /\ UNCHANGED faults
  BY DEF EtlInv, TypeOK, CalmStep
<1>1. CASE UNCHANGED script
  BY <1>1
<1>2. ASSUME NEW c \in Chain, OnRunning(c) PROVE script'[j] = "none"
  <2>1. /\ held[c] \in Job /\ jobs[held[c]].state = "RUNNING" /\ pc[c] = "running"
        /\ script' = [script EXCEPT ![held[c]] = "queued"]
    BY <1>2, ReportDomain DEF OnRunning, EtlInv, ChainKnowsItsJob, Calm, HeldJobs, Report
  <2>2. held[c] # j
    BY <2>1 DEF EtlInv, SoleProcessor
  <2> QED
    BY <1>0, <2>1, <2>2
<1>3. ASSUME NEW k \in Job, ScriptStarts(k) \/ ScriptReturns(k) \/ ScriptThrows(k)
      PROVE  script'[j] = "none"
  BY <1>0, <1>3 DEF ScriptStarts, ScriptReturns, ScriptThrows
<1>4. \A w \in Worker : ~Crash(w)
  BY <1>0 DEF Crash, Fault
<1> QED
  BY <1>1, <1>2, <1>3, <1>4
     DEF CalmStep, Next, ChainStep, SupervisorStep, workerVars, DropFile, FinishWriting, Start,
         OnRegistered, RegistrationTimesOut, ListInbox, HandleEvent, Tick, ChainEnds, TakeJob, RejectJob,
         OnResult, OnSuccess, ProcessingFails, OutcomeSucceeds, OutcomeFails, StoppedEnds,
         ArchiveFile, FileFails, RefreshCycle, HandleRegister, HandleCreate, HandleCheckout,
         HandleUpdate, HandlePost, WorkerAnswersControl, HandleControl, RequestLost, RequestFails

\* Every step keeps what the database says of the job of a chain.
LEMMA HeldStep ==
  ASSUME EtlInv, Calm, CalmStep
  PROVE  HeldJobs'
<1>0. /\ TypeOK /\ AwaitedRequests /\ ChainKnowsItsJob
      /\ PromptCalls /\ PromptReplies /\ HeldJobs /\ faults = 0 /\ UNCHANGED faults
      /\ jobs \in [Job -> JobData]
  BY DEF EtlInv, Calm, CalmStep, TypeOK, StoreTypeOK
<1> SUFFICES ASSUME NEW c \in Chain
             PROVE  /\ pc'[c] = "idle" \/ (pc'[c] = "checkout" /\ reply'[c] # "done") =>
                         held'[c] = NoJob
                    /\ pc'[c] = "checkout" /\ reply'[c] = "done" =>
                         jobs'[held'[c]].state = "CLAIMED"
                    /\ pc'[c] = "running" => jobs'[held'[c]].state \in {"CLAIMED", "RUNNING"}
                    /\ pc'[c] = "stats" => jobs'[held'[c]].state = "SUCCESS"
                    /\ pc'[c] \in DOMAIN Report /\ reply'[c] = "done" =>
                         jobs'[held'[c]].state = Report[pc'[c]]
                    /\ pc'[c] = "stopped" => script'[held'[c]] = "none"
  BY DEF HeldJobs, Report
<1>1. pc'[c] = "stopped" => script'[held'[c]] = "none"
  <2> SUFFICES ASSUME pc'[c] = "stopped" PROVE script'[held'[c]] = "none"
    OBVIOUS
  <2>1. CASE pc[c] = "stopped" /\ held'[c] = held[c]
    <3>1. held[c] \in Job /\ script[held[c]] = "none"
      BY <1>0, <2>1 DEF ChainKnowsItsJob, HeldJobs
    <3> QED
      BY <2>1, <3>1, StoppedScript
  <2>2. CASE RejectJob(c)
    BY <1>0, <2>2 DEF RejectJob, ChainKnowsItsJob
  <2>3. ASSUME Tick(c) \/ ChainStep(c) PROVE RejectJob(c)
    BY <1>0, <2>3, ChainTypes
       DEF Tick, ChainStep, AskCheckout, Await, ChainEnds, TakeJob, OnRunning, OnResult,
           OnSuccess, ProcessingFails, OutcomeSucceeds, OutcomeFails, StoppedEnds
  <2>4. ASSUME NEW r \in checkouts, r.ask = 0, r.chain = c, HandleCheckout(r) PROVE FALSE
    BY <1>0, <2>4 DEF HandleCheckout, AwaitedRequests
  <2> QED
    BY <1>0, <2>1, <2>2, <2>3, <2>4, CalmChain DEF HandleUpdate
<1>2. CASE /\ pc'[c] = pc[c] /\ held'[c] = held[c]
           /\ reply'[c] = reply[c] \/ pc[c] \in {"script", "stats"}
  <2>1. CASE held[c] = NoJob
    <3>1. pc[c] = "idle" \/ (pc[c] = "checkout" /\ reply[c] # "done")
      BY <1>0, <2>1 DEF ChainKnowsItsJob
    <3> QED
      BY <1>1, <1>2, <2>1, <3>1, ReportDomain
  <2>2. CASE held[c] \in Job /\ jobs'[held[c]].state = jobs[held[c]].state
    BY <1>0, <1>1, <1>2, <2>2, ReportDomain DEF HeldJobs
  <2>3. ASSUME NEW r \in updates, r.chain = c, held[c] \in Job,
               jobs'[held[c]].state = Report[pc[c]]
        PROVE  pc[c] \in {"running", "success", "failed", "stopped"}
    BY <1>0, <2>3 DEF PromptCalls, AwaitedRequests
  <2> QED
    BY <1>0, <1>1, <1>2, <2>1, <2>2, <2>3, HeldJobState, ChainTypes DEF Report
<1>3. ASSUME NEW r \in checkouts, r.ask = 0, r.chain = c, HandleCheckout(r)
      PROVE  /\ pc'[c] = "checkout"
             /\ reply'[c] # "done" => held'[c] = NoJob
             /\ reply'[c] = "done" => jobs'[held'[c]].state = "CLAIMED"
  <2>1. pc'[c] = "checkout" /\ held[c] = NoJob /\ WorkerOf[c] \in Worker
    BY <1>0, <1>3 DEF HandleCheckout, AwaitedRequests, HeldJobs
  <2>2. ASSUME NEW j \in Job, CheckoutJob(j, WorkerOf[c]), held' = [held EXCEPT ![c] = j],
               Answer(r, "done")
        PROVE  reply'[c] = "done" /\ jobs'[held'[c]].state = "CLAIMED"
    BY <1>0, <1>3, <2>1, <2>2, CheckoutJobEffect, ChainTypes DEF Answer
  <2>3. ASSUME Answer(r, "empty"), UNCHANGED held
        PROVE  reply'[c] # "done" /\ held'[c] = NoJob
    BY <1>0, <1>3, <2>1, <2>3, ChainTypes DEF Answer
  <2> QED
    BY <1>3, <2>1, <2>2, <2>3 DEF HandleCheckout
<1>4. ASSUME NEW r \in updates, r.ask = 0, r.chain = c, HandleUpdate(r)
      PROVE  /\ pc'[c] \in {"running", "success", "failed", "stopped"}
             /\ jobs'[held'[c]].state = Report[pc'[c]]
  <2>1. /\ pc[c] \in {"running", "success", "failed", "stopped"}
        /\ r.job = held[c] /\ r.state = Report[pc[c]] /\ r.job \in Job /\ r.state \in JobState
    BY <1>0, <1>4 DEF AwaitedRequests, PromptCalls, TypeOK, UpdateRequest
  <2>2. ChangeState(r.job, r.state) /\ UNCHANGED <<pc, held>>
    BY <1>4 DEF HandleUpdate
  <2> QED
    BY <1>0, <2>1, <2>2, ChangeStateEffect
<1>5. ASSUME Tick(c) \/ OutcomeSucceeds(c) \/ OutcomeFails(c) \/ StoppedEnds(c)
      PROVE  pc'[c] = "checkout" /\ reply'[c] = "waiting" /\ held'[c] = NoJob
  BY <1>0, <1>5, ChainTypes
     DEF Tick, OutcomeSucceeds, OutcomeFails, StoppedEnds, AskCheckout, Await
<1>6. ASSUME ChainEnds(c) PROVE pc'[c] = "idle" /\ held'[c] = NoJob
  BY <1>0, <1>6, ChainTypes DEF ChainEnds, Await
<1>7. ASSUME TakeJob(c)
      PROVE  pc'[c] = "running" /\ reply'[c] = "waiting" /\ jobs'[held'[c]].state = "CLAIMED"
  BY <1>0, <1>7, ChainTypes DEF TakeJob, Await, HeldJobs
<1>8. ASSUME RejectJob(c) \/ OnResult(c) \/ ProcessingFails(c) \/ OnRunning(c)
      PROVE  pc'[c] \in {"stopped", "success", "failed", "script"} /\ reply'[c] = "waiting"
  BY <1>0, <1>8, ChainTypes DEF RejectJob, OnResult, ProcessingFails, OnRunning, Await
<1>9. ASSUME OnSuccess(c) PROVE pc'[c] = "stats" /\ jobs'[held'[c]].state = "SUCCESS"
  BY <1>0, <1>9, ChainTypes, ReportDomain DEF OnSuccess, Await, HeldJobs, Report
<1>10. CASE Tick(c) \/ ChainStep(c)
  BY <1>1, <1>5, <1>6, <1>7, <1>8, <1>9, <1>10, ReportDomain DEF ChainStep
<1> QED
  BY <1>0, <1>1, <1>2, <1>3, <1>4, <1>10, CalmChain, ReportDomain DEF Report

-----------------------------------------------------------------------------
(* The truth of states *)

\* A chain gives up a job only once its last report is written.
LEMMA HeldUntilReported ==
  ASSUME EtlInv, Calm, CalmStep, NEW c \in Chain, held[c] \in Job
  PROVE  \/ held'[c] = held[c]
         \/ jobs[held[c]].state = "STOPPED"
         \/ /\ jobs[held[c]].state \in {"SUCCESS", "FAILED"}
            /\ [job |-> held[c], to |-> "archive"] \in outcomes'
<1>0. /\ TypeOK /\ AwaitedRequests /\ ChainKnowsItsJob
      /\ PromptCalls /\ PromptReplies /\ HeldJobs /\ faults = 0 /\ UNCHANGED faults
  BY DEF EtlInv, Calm, CalmStep
<1>1. CASE OutcomeSucceeds(c)
  <2>1. pc[c] \in {"stats", "failed"} /\ reply[c] = "done"
    BY <1>0, <1>1, CalmChains
  <2>2. jobs[held[c]].state \in {"SUCCESS", "FAILED"}
    BY <1>0, <2>1, ReportDomain DEF HeldJobs, Report
  <2> QED
    BY <1>1, <2>2 DEF OutcomeSucceeds
<1>2. CASE StoppedEnds(c)
  <2>1. pc[c] = "stopped" /\ reply[c] = "done"
    BY <1>0, <1>2, CalmChains
  <2> QED
    BY <1>0, <2>1, ReportDomain DEF HeldJobs, Report
<1>3. ASSUME Tick(c) \/ ChainEnds(c) PROVE FALSE
  <2>1. pc[c] = "idle" \/ (pc[c] = "checkout" /\ reply[c] = "empty")
    BY <1>0, <1>3, CalmChains DEF Tick
  <2> QED
    BY <1>0, <2>1 DEF HeldJobs
<1>4. ~OutcomeFails(c)
  BY <1>0, CalmChains
<1>5. ASSUME NEW r \in checkouts, r.ask = 0, r.chain = c PROVE FALSE
  BY <1>0, <1>5 DEF AwaitedRequests, HeldJobs
<1> QED
  BY <1>0, <1>1, <1>2, <1>3, <1>4, <1>5, CalmChain
     DEF ChainStep, TakeJob, RejectJob, OnRunning, OnResult, OnSuccess, ProcessingFails,
         HandleUpdate

\* The file of a job that is over is archived or about to be.
LEMMA ArchivedSoon ==
  ASSUME EtlInv, FileInv, Calm, CalmStep, NEW j \in Job,
         \/ [job |-> j, to |-> "archive"] \in outcomes
         \/ \E h \in Home : archive[h][j] \in Upload
  PROVE  \/ [job |-> j, to |-> "archive"] \in outcomes'
         \/ \E h \in Home : archive'[h][j] \in Upload
<1> DEFINE o == [job |-> j, to |-> "archive"]
<1>0. /\ TypeOK /\ archive \in Area /\ runBy \in [Job -> Chain \union {NoChain}]
      /\ ArchiveHasRoom /\ WorkFilesAreHeld /\ Next /\ faults = 0 /\ UNCHANGED faults
  BY DEF EtlInv, FileInv, Calm, CalmStep, TypeOK, FileTypeOK
<1>1. ASSUME NEW h \in Home, archive[h][j] \in Upload
      PROVE  \E g \in Home : archive'[g][j] \in Upload
  <2>1. o \notin outcomes
    BY <1>0, <1>1 DEF ArchiveHasRoom
  <2>2. ASSUME NEW k \in Job, ArchiveFile(k) PROVE archive'[h][j] = archive[h][j]
    <3>1. k # j
      BY <2>1, <2>2 DEF ArchiveFile
    <3> QED
      BY <1>0, <2>2, <3>1, ArchiveFileEffect
  <2> QED
    BY <1>0, <1>1, <2>2, ArchiveChange
<1>2. ASSUME o \in outcomes, ArchiveFile(j) PROVE \E g \in Home : archive'[g][j] \in Upload
  <2> DEFINE h == HomeOfChain(runBy[j])
  <2>1. h \in Home /\ work[h][j] \in Upload
    BY <1>0, <1>2 DEF WorkFilesAreHeld, FileAtWork, HomeOfChain
  <2>2. MoveToArchive(h, j)
    BY <1>0, <1>2 DEF ArchiveFile, Fault
  <2>3. archive'[h][j] = work[h][j]
    BY <1>0, <2>1, <2>2 DEF MoveToArchive, Area
  <2> QED
    BY <2>1, <2>3
<1>3. ASSUME o \in outcomes PROVE o \in outcomes' \/ ArchiveFile(j)
  <2>1. \A w \in Worker : ~Crash(w)
    BY <1>0 DEF Crash, Fault
  <2>2. ASSUME NEW k \in Job, ArchiveFile(k) PROVE o \in outcomes' \/ ArchiveFile(j)
    BY <1>3, <2>2 DEF ArchiveFile
  <2>3. ASSUME NEW k \in Job, FileFails(k) PROVE o \in outcomes'
    BY <1>3, <2>3 DEF FileFails
  <2> QED
    BY <1>0, <1>3, <2>1, <2>2, <2>3
       DEF Next, ChainStep, SupervisorStep, workerVars, DropFile, FinishWriting, Start,
           OnRegistered, RegistrationTimesOut, ListInbox, HandleEvent, Tick, ChainEnds, TakeJob, RejectJob,
           OnRunning, OnResult, OnSuccess, ProcessingFails, OutcomeSucceeds, OutcomeFails,
           StoppedEnds, RefreshCycle, ScriptStarts, ScriptReturns, ScriptThrows, HandleRegister,
           HandleCreate, HandleCheckout, HandleUpdate, HandlePost, WorkerAnswersControl,
           HandleControl, RequestLost, RequestFails
<1> HIDE DEF o
<1>4. o = [job |-> j, to |-> "archive"]
  BY DEF o
<1> QED
  BY <1>1, <1>2, <1>3, <1>4

\* Every step keeps the states of jobs true.
LEMMA TruthStep ==
  ASSUME EtlInv, FileInv, Calm, CalmStep
  PROVE  StateTellsTheTruth'
<1>0. /\ TypeOK /\ AwaitedRequests /\ ChainKnowsItsJob /\ PromptCalls /\ HeldJobs
      /\ StateTellsTheTruth /\ faults = 0 /\ ControlAnswers = {}
      /\ \A c \in Chain : held[c] \in Job \union {NoJob}
  BY DEF EtlInv, Calm, CalmStep, TypeOK
<1> SUFFICES ASSUME NEW j \in Job
             PROVE  /\ jobs'[j].state \in {"CLAIMED", "RUNNING"} => \E c \in Chain : held'[c] = j
                    /\ jobs'[j].state \in {"SUCCESS", "FAILED"} =>
                         \/ \E c \in Chain : held'[c] = j
                         \/ [job |-> j, to |-> "archive"] \in outcomes'
                         \/ \E h \in Home : archive'[h][j] \in Upload
                    /\ jobs'[j].state = "STOPPED" => script'[j] = "none"
  BY DEF StateTellsTheTruth
<1>1. CASE jobs'[j].state = jobs[j].state
  <2>1. ASSUME NEW c \in Chain, held[c] = j
        PROVE  \/ held'[c] = j \/ jobs[j].state = "STOPPED"
               \/ /\ jobs[j].state \in {"SUCCESS", "FAILED"}
                  /\ [job |-> j, to |-> "archive"] \in outcomes'
    BY <2>1, HeldUntilReported
  <2>2. jobs[j].state \in {"CLAIMED", "RUNNING"} => \E c \in Chain : held'[c] = j
    BY <1>0, <2>1 DEF StateTellsTheTruth
  <2>3. jobs[j].state \in {"SUCCESS", "FAILED"} =>
          \/ \E c \in Chain : held'[c] = j
          \/ [job |-> j, to |-> "archive"] \in outcomes'
          \/ \E h \in Home : archive'[h][j] \in Upload
    BY <1>0, <2>1, ArchivedSoon DEF StateTellsTheTruth
  <2>4. jobs[j].state = "STOPPED" => script'[j] = "none"
    BY <1>0, StoppedScript DEF StateTellsTheTruth
  <2> QED
    BY <1>1, <2>2, <2>3, <2>4
<1>2. CASE jobs'[j].state = "NEW"
  BY <1>2
<1>3. ASSUME NEW r \in checkouts, r.chain \in Chain, held'[r.chain] = j,
             jobs'[j].state = "CLAIMED"
      PROVE  \E c \in Chain : held'[c] = j
  BY <1>3
<1>4. ASSUME NEW r \in updates, r.chain \in Chain, HandleUpdate(r), held[r.chain] = j,
             jobs'[j].state = Report[pc[r.chain]]
      PROVE  /\ \E c \in Chain : held'[c] = j
             /\ jobs'[j].state \in {"RUNNING", "SUCCESS", "FAILED", "STOPPED"}
             /\ jobs'[j].state = "STOPPED" => script'[j] = "none"
  <2>1. pc[r.chain] \in {"running", "success", "failed", "stopped"} /\ held' = held
    BY <1>0, <1>4 DEF PromptCalls, AwaitedRequests, HandleUpdate
  <2>2. pc[r.chain] = "stopped" => script'[j] = "none"
    BY <1>0, <1>4, StoppedScript DEF HeldJobs
  <2> QED
    BY <1>4, <2>1, <2>2 DEF Report
<1> QED
  BY <1>0, <1>1, <1>2, <1>3, <1>4, CalmJobs

-----------------------------------------------------------------------------
(* The theorem *)

\* CalmInv holds before the first step.
LEMMA CalmInvInit == Init => CalmInv
<1> SUFFICES ASSUME Init PROVE Calm
  BY DEF CalmInv, Calm
<1>1. \A j \in Job : jobs[j].state = "ABSENT"
  BY DEF Init, StoreInit
<1>2. PromptCalls /\ PromptReplies /\ HeldJobs
  BY ReportDomain DEF Init, PromptCalls, PromptReplies, HeldJobs
<1>3. StateTellsTheTruth
  BY <1>1 DEF StateTellsTheTruth
<1> QED
  BY <1>2, <1>3 DEF Calm

\* Every step keeps CalmInv.
LEMMA CalmInvNext == EtlInv /\ FileInv /\ CalmInv /\ [Next]_vars => CalmInv'
<1>1. ASSUME EtlInv, FileInv, CalmInv, Next PROVE CalmInv'
  <2> SUFFICES ASSUME Undisturbed' PROVE Calm'
    BY DEF CalmInv, Calm
  <2>1. faults' = 0 /\ ControlAnswers = {}
    BY DEF Undisturbed
  <2>2. faults = 0
    BY <1>1, <2>1, FaultsCount, RequestTypes DEF EtlInv
  <2>3. CalmStep /\ Calm
    BY <1>1, <2>1, <2>2 DEF CalmStep, Calm, CalmInv, Undisturbed
  <2> QED
    BY <1>1, <2>3, CallsStep, HeldStep, TruthStep DEF Calm
<1>2. ASSUME CalmInv, UNCHANGED vars PROVE CalmInv'
  BY <1>2
     DEF CalmInv, Undisturbed, vars, PromptCalls, PromptReplies, HeldJobs,
         StateTellsTheTruth, Report, fileVars, areas, workerVars, requestVars,
         boundVars
<1> QED
  BY <1>1, <1>2

\* Without faults and control calls, the state the database shows for a job
\* tells what became of it (QweryETL.processJob, JobDAO.changeState): no job is
\* CLAIMED or RUNNING without a chain, none is SUCCESS or FAILED without its
\* file being archived, and none that is STOPPED ever ran.
THEOREM TruthfulStates == Spec => []StateTellsTheTruth
<1>1. CalmInv => StateTellsTheTruth
  BY DEF CalmInv, Undisturbed, StateTellsTheTruth
<1>2. Spec => []CalmInv
  BY CalmInvInit, CalmInvNext, Invariance, FileInvariance, PTL DEF Spec
<1> QED
  BY <1>1, <1>2, PTL
===============================================================================
