------------------------------ MODULE JobStore ------------------------------
(***************************************************************************)
(* The supervisor's two collections, "jobs" and "slaves", and the database *)
(* operations its routes perform on them.  Each operation is one atomic    *)
(* findOneAndUpdate or insert of the database; what happens before and     *)
(* after it (the HTTP request, the reply) belongs to QweryETL.             *)
(***************************************************************************)
EXTENDS Entities

VARIABLES
  jobs,      (* the documents of collection "jobs"                      *)
  slaves     (* the slaves with a document in collection "slaves"       *)

JobState ==
  {"NEW", "CLAIMED", "QUEUED", "RUNNING", "PAUSED", "STOPPED", "SUCCESS", "FAILED"}

\* A job without a document is in state ABSENT.  "statistics" abstracts the
\* statistics array to the set of jobs whose sources it describes.
JobData ==
  [ state      : JobState \union {"ABSENT"},
    input      : Name \union {NoName},
    slaveID    : Worker \union {NoWorker},
    statistics : SUBSET Job ]

StoreTypeOK ==
  /\ jobs \in [Job -> JobData]
  /\ slaves \subseteq Worker

StoreInit ==
  /\ jobs = [j \in Job |->
       [state |-> "ABSENT", input |-> NoName, slaveID |-> NoWorker, statistics |-> {}]]
  /\ slaves = {}

Exists(j) == jobs[j].state # "ABSENT"

\* (mutant) the posted document says nothing of its state.
CreateJobStateless(j, name, slave) ==
  /\ ~Exists(j)
  /\ jobs' = [jobs EXCEPT ![j] =
       [state |-> "undefined", input |-> name, slaveID |-> slave, statistics |-> {}]]

\* JobDAO.createJob: the document the worker posted, under a fresh object ID.
CreateJob(j, name, slave) ==
  /\ ~Exists(j)
  /\ jobs' = [jobs EXCEPT ![j] =
       [state |-> "NEW", input |-> name, slaveID |-> slave, statistics |-> {}]]

\* (mutant) the checkout does not filter by state.
CheckoutJobAnyState(j, slave) ==
  /\ Exists(j)
  /\ jobs' = [jobs EXCEPT ![j].state = "CLAIMED", ![j].slaveID = slave]

\* JobDAO.checkoutJob: no document has a "priority", so the sort orders
\* nothing and any NEW job can be the one found.
CheckoutJob(j, slave) ==
  /\ jobs[j].state = "NEW"
  /\ jobs' = [jobs EXCEPT ![j].state = "CLAIMED", ![j].slaveID = slave]

\* JobDAO.changeState: found by ID alone, whatever the present state is.
ChangeState(j, state) ==
  /\ Exists(j)
  /\ jobs' = [jobs EXCEPT ![j].state = state]

\* JobDAO.updateStatistics.
UpdateStatistics(j, of) ==
  /\ Exists(j)
  /\ jobs' = [jobs EXCEPT ![j].statistics = of]

\* SlaveDAO.upsertSlave: one document for each host and port.  The port is
\* always 1337, so that workers that are told apart run on hosts of their own.
UpsertSlave(w) == slaves' = slaves \union {w}
=============================================================================
