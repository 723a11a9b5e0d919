------------------------- MODULE ActivityProperties -------------------------
(* What the web client promises its users. *)
EXTENDS Activity

\* A page shows its jobs as busy exactly while one call of its own is under
\* way, and never has two: the flags pausing, resuming and stopping agree with
\* the calls whatever happens to them (MainController.scala:87-184,
\* JobHandling.scala:110).
OneControlAtATime ==
  \A b \in Browser :
    LET own == {c \in calls : c.browser = b} IN
      /\ page[b].busy = {c.op : c \in own}
      /\ Cardinality(own) <= 1

\* The buttons come back: no operation keeps its flag for ever
\* (MainController.scala:98, :102, :150, :154, :174, :178).
ControlsComeBack ==
  \A b \in Browser : page[b].busy # {} ~> page[b].busy = {}

\* Whatever broadcasts a page misses or gets out of order, however late its
\* snapshots are: once a job stays in a state that refreshJobs asks for, the
\* page comes to show that state and goes on showing it, on the dashboard and
\* in the list of the job's slave (MainController.scala:73, :109-122, :190-206).
ListedStatesCatchUp ==
  \A b \in Browser, j \in Job :
    <>[](jobs[j].state \in RefreshedState) =>
      <>[](/\ page[b].jobs[j].state = jobs[j].state
           /\ jobs[j].slaveID \in page[b].slaves =>
                StateUnder(page[b], jobs[j].slaveID, j) = jobs[j].state)

\* MainController.scala:78: getSlaveForJob "retrieves the corresponding slave
\* for the given job".  updateJob does not copy slaveID, so the slave is the
\* one that posted the job.
ControlReachesRunner ==
  \A c \in calls : c.slave = jobs[c.job].slaveID
=============================================================================
