---------------------------- MODULE EtlProperties ----------------------------
(***************************************************************************)
(* What the ETL system guarantees, and what its documentation says of it.  *)
(***************************************************************************)
EXTENDS QweryETL

\* The abstract queue of jobs this system implements.
Queue == INSTANCE JobQueue WITH
  queue     <- {j \in Job : jobs[j].state = "NEW"},
  owner     <- [j \in Job |-> IF jobs[j].state \in {"ABSENT", "NEW"}
                              THEN NoWorker ELSE jobs[j].slaveID],
  completed <- {j \in Job : script[j] = "returned"},
  acclaimed <- {j \in Job : jobs[j].state = "SUCCESS"}

\* Jobs enter the queue once, are handed to one worker for ever, complete at
\* most once and are called SUCCESS only after they completed, whatever calls
\* are lost, late, or overtaken by a pause, resume or stop.
ImplementsQueue == Queue!QueueSpec

-----------------------------------------------------------------------------
(* Safety *)

\* No two chains, of one worker or of several, ever process the same job, and
\* the chain that does is one of the worker the database names as its slave,
\* although state changes are written without looking at the present state.
SoleProcessor ==
  /\ \A c, d \in Chain : held[c] # NoJob /\ held[c] = held[d] => c = d
  /\ \A c \in Chain : held[c] # NoJob =>
       /\ jobs[held[c]].state \notin {"ABSENT", "NEW"}
       /\ jobs[held[c]].slaveID = WorkerOf[c]

\* A job is called SUCCESS, or about to be, only if its script ran to its end:
\* no late, lost or repeated call and no control call can turn a job that was
\* rejected, threw or never ran into a success.
SuccessMeansProcessed ==
  /\ \A j \in Job : jobs[j].state = "SUCCESS" => script[j] = "returned"
  /\ \A r \in updates : r.state = "SUCCESS" => script[r.job] = "returned"

Slot ==
  ({"inbox"} \X Home \X Name) \union ({"work", "failed", "archive"} \X Home \X Job)

Holds(s) ==
  CASE s[1] = "inbox"   -> inbox[s[2]][s[3]]
    [] s[1] = "work"    -> work[s[2]][s[3]]
    [] s[1] = "failed"  -> failed[s[2]][s[3]]
    [] s[1] = "archive" -> archive[s[2]][s[3]]

\* A dropped file is in exactly one place at any time: no move of any worker
\* overwrites, duplicates or loses a file, not even between workers that share
\* a home, and at most one job ever got it although it may have several jobs.
EveryFileInOnePlace ==
  \A u \in Upload : nameOf[u] # NoName =>
    \E s \in Slot : Holds(s) = u /\ \A t \in Slot : Holds(t) = u => t = s

\* A script that is queued or executing finds its work file where
\* "work.file.path" says it is.  Only a script that outlasts its 4-hour ask may
\* lose it, and then no chain waits for the job any more and the file is in
\* the archive or failed area of its home.
WorkFileStaysWhileScriptRuns ==
  \A j \in Job : ScriptActive(j) =>
    LET h == HomeOfChain(runBy[j])
    IN  \/ work[h][j] \in Upload
        \/ /\ faults > 0 /\ "overrun" \in FaultKinds
           /\ \A c \in Chain : held[c] # j
           /\ archive[h][j] \in Upload \/ failed[h][j] \in Upload

\* The refresh timer of a job ends with the job, however its processing ends:
\* it is on only while a chain or the outcome's own callback still has the job,
\* and never once the file is archived.  Only the Failure callback leaves it
\* on for ever, and that takes a fault and leaves a trace in the failed area.
TimersEndWithTheirJobs ==
  \A j \in timers :
    /\ \A h \in Home : archive[h][j] \notin Upload
    /\ \/ \E c \in Chain : held[c] = j
       \/ \E o \in outcomes : o.job = j
       \/ faults > 0 /\ failed[HomeOfChain(runBy[j])][j] # NoDir

\* As long as there was no fault or control call, a job the database shows as CLAIMED or
\* RUNNING is in the hands of a chain (none is forgotten), one shown as SUCCESS
\* or FAILED that no chain holds has its file in the archive, and one shown as
\* STOPPED was never run.
StateTellsTheTruth ==
  faults = 0 /\ ControlAnswers = {} =>
    \A j \in Job :
      /\ jobs[j].state \in {"CLAIMED", "RUNNING"} => \E c \in Chain : held[c] = j
      /\ jobs[j].state \in {"SUCCESS", "FAILED"} =>
           \/ \E c \in Chain : held[c] = j
           \/ [job |-> j, to |-> "archive"] \in outcomes
           \/ \E h \in Home : archive[h][j] \in Upload
      /\ jobs[j].state = "STOPPED" => script[j] = "none"

-----------------------------------------------------------------------------
(* Liveness *)

\* Every chain comes to its end, whatever replies are lost: each ask times out
\* and every outcome goes on to the next checkout.
EveryChainEnds == \A c \in Chain : (pc[c] # "idle") ~> (pc[c] = "idle")

\* Unless there is a fault, every file a trigger of every worker accepts leaves the
\* inbox, however its writing, the watch and the start of the worker interleave.
InboxDrains ==
  \A h \in Home, n \in Name :
    (\A w \in Worker : n \in Accepts[w]) /\ [](faults = 0) =>
      ((inbox[h][n] # NoUpload) ~> (inbox[h][n] = NoUpload))

-----------------------------------------------------------------------------
(* What the documentation says *)

\* README, directory table: "archive" is where processed files are stored, and
\* "failed" where files that fail processing are moved to.  A file is archived
\* only after its script ran to its end.
ArchivedFilesWereProcessed ==
  \A h \in Home, j \in Job : archive[h][j] \in Upload => script[j] = "returned"

\* updateStatistics "updates the statistics for the given job": those stored
\* for a job describe the sources of that job only.
StatisticsAreOfTheJob == \A j \in Job : jobs[j].statistics \subseteq {j}
=============================================================================
