---------------------------- MODULE EtlInvariant ----------------------------
(***************************************************************************)
(* The inductive invariant behind the safety properties of the ETL system. *)
(* SoleProcessor and SuccessMeansProcessed are not inductive by            *)
(* themselves: they also need what the calls in flight may still write,    *)
(* and that a reply always answers the question a chain asked last.        *)
(***************************************************************************)
EXTENDS EtlProperties

Claimed(j) == jobs[j].state \notin {"ABSENT", "NEW"}

\* A claimed job has an owner; a job nobody claimed has no run.
ClaimedJobs ==
  \A j \in Job : IF Claimed(j) THEN jobs[j].slaveID \in Worker ELSE script[j] = "none"

\* Whatever is still under way is about a claimed job and never makes it NEW;
\* a control answer never makes it a SUCCESS.
LateWrites ==
  /\ \A r \in updates : Claimed(r.job) /\ r.state # "NEW"
  /\ \A r \in controls : Claimed(r.job) /\ r.state \notin {"NEW", "SUCCESS"}

\* The awaited request of a chain is the one its pc tells, it is the only one,
\* and its chain has no reply yet.
AwaitedRequests ==
  /\ \A r \in checkouts : r.ask = 0 =>
       pc[r.chain] = "checkout" /\ reply[r.chain] = "waiting"
  /\ \A r \in updates : r.ask = 0 =>
       pc[r.chain] \in {"running", "success", "failed", "stopped"} /\ reply[r.chain] = "waiting"
  /\ \A r \in posts : r.ask = 0 => pc[r.chain] = "stats" /\ reply[r.chain] = "waiting"
  /\ \A r, s \in updates : r.ask = 0 /\ s.ask = 0 /\ r.chain = s.chain => r = s
  /\ \A r, s \in posts : r.ask = 0 /\ s.ask = 0 /\ r.chain = s.chain => r = s

\* A chain that processes has a job; before the workflow actor is asked, the
\* job has no run, and the reply to that ask is the script's own.
ChainKnowsItsJob ==
  \A c \in Chain :
    /\ pc[c] \notin {"idle", "checkout"} => held[c] \in Job
    /\ pc[c] = "checkout" /\ reply[c] = "done" => held[c] \in Job
    /\ pc[c] \in {"checkout", "running"} /\ held[c] \in Job => script[held[c]] = "none"
    /\ pc[c] = "script" /\ reply[c] = "done" => script[held[c]] = "returned"

\* Inductive: implies SoleProcessor and SuccessMeansProcessed, and makes every
\* step a step of the abstract queue.
EtlInv ==
  /\ TypeOK
  /\ SoleProcessor
  /\ SuccessMeansProcessed
  /\ ClaimedJobs
  /\ LateWrites
  /\ AwaitedRequests
  /\ ChainKnowsItsJob

-----------------------------------------------------------------------------
(* Files *)

Working == {"running", "script", "success", "stats", "failed"}

\* The work file of a job is in the home of the chain that took it.
FileAtWork(j) == runBy[j] \in Chain /\ work[HomeOfChain(runBy[j])][j] \in Upload

\* A job whose outcome is known, or whose file is archived or failed, is over:
\* no chain holds it, and none will.
FinishedJobs ==
  \A j \in Job :
    \/ \E h \in Home : archive[h][j] \in Upload \/ failed[h][j] \in Upload
    \/ \E o \in outcomes : o.job = j
    => Claimed(j) /\ \A c \in Chain : held[c] # j

\* What is about to be archived is not archived yet.
ArchiveHasRoom ==
  \A o \in outcomes : o.to = "archive" => \A h \in Home : archive[h][o.job] \notin Upload

DroppedFiles ==
  \A s \in Slot : Holds(s) \in Upload => nameOf[Holds(s)] # NoName

\* From the RUNNING call to the outcome's own callback the work file stays
\* where the chain has put it, and the job is the chain's own.
WorkFilesAreHeld ==
  /\ \A c \in Chain : pc[c] \in Working => runBy[held[c]] = c /\ FileAtWork(held[c])
  /\ \A o \in outcomes : FileAtWork(o.job)
  /\ \A o, p \in outcomes : o.job = p.job => o = p

\* The file of a job a chain ever took is in one of the areas of its home.
TakenFiles ==
  \A j \in Job : runBy[j] \in Chain =>
    LET h == HomeOfChain(runBy[j])
    IN  /\ Claimed(j)
        /\ work[h][j] \in Upload \/ archive[h][j] \in Upload \/ failed[h][j] \in Upload

\* A script that is queued or executing has a chain that waits for it, unless
\* it outlasted its ask; its job has been taken.
ScriptsAreAwaited ==
  \A j \in Job : ScriptActive(j) =>
    /\ runBy[j] \in Chain
    /\ \/ \E c \in Chain : pc[c] = "script" /\ held[c] = j
       \/ faults > 0 /\ "overrun" \in FaultKinds

\* A chain holds no job with a timer but one it took itself and processes.
TimersAreHeld ==
  \A c \in Chain : held[c] \in timers => runBy[held[c]] = c /\ pc[c] \in Working

\* A FAILED report without a fault is answered, so that the outcome is a
\* Success: only after a fault does a file go to the failed area.
FailuresTakeAFault ==
  faults = 0 =>
    /\ \A c \in Chain : pc[c] = "failed" /\ reply[c] = "waiting" =>
         \E r \in updates : r.chain = c /\ r.ask = 0
    /\ \A o \in outcomes : o.to = "archive"
    /\ \A h \in Home, j \in Job : failed[h][j] = NoDir

\* Inductive together with EtlInv: implies EveryFileInOnePlace,
\* WorkFileStaysWhileScriptRuns and TimersEndWithTheirJobs.
FileInv ==
  /\ EveryFileInOnePlace
  /\ TimersEndWithTheirJobs
  /\ FinishedJobs
  /\ ArchiveHasRoom
  /\ DroppedFiles
  /\ WorkFilesAreHeld
  /\ TakenFiles
  /\ ScriptsAreAwaited
  /\ TimersAreHeld
  /\ FailuresTakeAFault

-----------------------------------------------------------------------------
(* Behaviours without faults and control calls *)

Undisturbed == faults = 0 /\ ControlAnswers = {}

\* The state a chain reports while its pc is this.
Report ==
  [running |-> "RUNNING", success |-> "SUCCESS", failed |-> "FAILED", stopped |-> "STOPPED"]

\* Nothing is late: every update is awaited and says what its chain reports.
PromptCalls ==
  /\ controls = {}
  /\ \A r \in checkouts : r.ask = 0
  /\ \A r \in updates : r.ask = 0 /\ r.job = held[r.chain] /\ r.state = Report[pc[r.chain]]

\* Nothing is lost: a chain without a reply has its request under way.
PromptReplies ==
  \A c \in Chain : reply[c] = "waiting" =>
    /\ pc[c] = "checkout" => \E r \in checkouts : r.chain = c
    /\ pc[c] \in DOMAIN Report => \E r \in updates : r.chain = c
    /\ pc[c] = "stats" => \E r \in posts : r.chain = c /\ r.ask = 0

\* What the database says of the job of a chain.
HeldJobs ==
  \A c \in Chain :
    /\ pc[c] = "idle" \/ (pc[c] = "checkout" /\ reply[c] # "done") => held[c] = NoJob
    /\ pc[c] = "checkout" /\ reply[c] = "done" => jobs[held[c]].state = "CLAIMED"
    /\ pc[c] = "running" => jobs[held[c]].state \in {"CLAIMED", "RUNNING"}
    /\ pc[c] = "stats" => jobs[held[c]].state = "SUCCESS"
    /\ pc[c] \in DOMAIN Report /\ reply[c] = "done" => jobs[held[c]].state = Report[pc[c]]
    /\ pc[c] = "stopped" => script[held[c]] = "none"

\* Inductive together with EtlInv and FileInv: implies StateTellsTheTruth.
CalmInv ==
  Undisturbed => PromptCalls /\ PromptReplies /\ HeldJobs /\ StateTellsTheTruth
=============================================================================
