------------------------------ MODULE JobQueue ------------------------------
(***************************************************************************)
(* What the supervisor and its workers promise together about jobs, with   *)
(* no word of HTTP calls, actors, timeouts or files: a job enters the      *)
(* queue once, leaves it for exactly one worker and stays with that        *)
(* worker, is run to completion at most once, and is reported as a         *)
(* success only after its run completed.  QweryETL implements this.        *)
(***************************************************************************)
CONSTANTS
  Worker,    (* the ETL workers                *)
  Job,       (* the identifiers of job records *)
  NoWorker   (* the owner of an unclaimed job  *)

VARIABLES
  queue,     (* jobs waiting to be claimed                     *)
  owner,     (* the worker a job was handed to                 *)
  completed, (* jobs whose script ran to its end               *)
  acclaimed  (* jobs whose record says SUCCESS                 *)

queueVars == <<queue, owner, completed, acclaimed>>

QueueInit ==
  /\ queue = {}
  /\ owner = [j \in Job |-> NoWorker]
  /\ completed = {}
  /\ acclaimed = {}

Enqueue(j) ==
  /\ owner[j] = NoWorker
  /\ queue' = queue \union {j}
  /\ UNCHANGED <<owner, completed, acclaimed>>

Dequeue(j, w) ==
  /\ j \in queue
  /\ queue' = queue \ {j}
  /\ owner' = [owner EXCEPT ![j] = w]
  /\ UNCHANGED <<completed, acclaimed>>

Complete(j) ==
  /\ owner[j] # NoWorker
  /\ j \notin completed
  /\ completed' = completed \union {j}
  /\ UNCHANGED <<queue, owner, acclaimed>>

Acclaim(j) ==
  /\ j \in completed
  /\ acclaimed' = acclaimed \union {j}
  /\ UNCHANGED <<queue, owner, completed>>

\* Another state is written over SUCCESS.
Retract(j) ==
  /\ acclaimed' = acclaimed \ {j}
  /\ UNCHANGED <<queue, owner, completed>>

QueueNext ==
  \E j \in Job :
    \/ Retract(j)
    \/ Enqueue(j)
    \/ \E w \in Worker : Dequeue(j, w)
    \/ Complete(j)
    \/ Acclaim(j)

QueueSpec == QueueInit /\ [][QueueNext]_queueVars
=============================================================================
