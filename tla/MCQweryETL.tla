----------------------------- MODULE MCQweryETL -----------------------------
(* Small instances of the ETL system for TLC. *)
EXTENDS EtlInvariant, TLC

CONSTANTS w1, w2, c1, c2, h1, h2, n1

\* One worker with two chains.
OneWorkerOf == [c \in Chain |-> w1]
OneHomeOf == [w \in Worker |-> h1]

\* Two workers with a chain each and a home they share.
TwoWorkerOf == [c \in Chain |-> IF c = c1 THEN w1 ELSE w2]
SharedHomeOf == [w \in Worker |-> h1]

AcceptsAll == [w \in Worker |-> Name]

JobSymmetry == Permutations(Job)

\* The two workers of SharedHomeOf differ in nothing, each with its chain.
WorkerSwap == w1 :> w2 @@ w2 :> w1 @@ c1 :> c2 @@ c2 :> c1
JobWorkerSymmetry == JobSymmetry \union {WorkerSwap}

\* Once the database has a job of every ID, no event makes another one, and no
\* action but ListInbox and HandleEvent looks at events: states that differ in
\* them only are taken for one.
WithoutSpentEvents ==
  <<IF \E j \in Job : ~Exists(j) THEN events ELSE <<>>,
    jobs, slaves, fileVars, userVars, reg, chainVars, sources, runBy, outcomes, timers, script,
    requestVars, boundVars>>
=============================================================================
