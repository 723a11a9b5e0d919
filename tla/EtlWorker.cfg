\* One worker with one chain: two faults of the kinds a network and an operator
\* cause, a refresh tick and a control call.  "overrun" is left to EtlFaults.
SPECIFICATION Spec
CONSTANTS
  w1 = w1  w2 = w2  c1 = c1  c2 = c2  h1 = h1  h2 = h2  n1 = n1
  Worker = {w1}
  Chain = {c1}
  Job = {j1, j2}
  Name = {n1}
  Home = {h1}
  Upload = {u1}
  NoWorker = NoWorker  NoJob = NoJob  NoName = NoName  NoUpload = NoUpload
  NoDir = NoDir  EmptyDir = EmptyDir  NoChain = NoChain
  WorkerOf <- OneWorkerOf
  HomeOf <- OneHomeOf
  Accepts <- AcceptsAll
  FaultKinds = {"lose", "error", "late", "crash", "io"}
  MaxFaults = 2
  MaxTicks = 1
  ControlAnswers = {"PAUSED"}
  MaxControls = 1
SYMMETRY JobSymmetry
INVARIANTS SuccessMeansProcessed TimersEndWithTheirJobs
PROPERTIES ImplementsQueue
CHECK_DEADLOCK FALSE
