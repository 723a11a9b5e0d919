\* One worker with two chains and a fault or none: liveness, and the truth of states.
SPECIFICATION FairSpec
CONSTANTS
  w1 = w1  w2 = w2  c1 = c1  c2 = c2  h1 = h1  h2 = h2  n1 = n1
  Worker = {w1}
  Chain = {c1, c2}
  Job = {j1, j2}
  Name = {n1}
  Home = {h1}
  Upload = {u1}
  NoWorker = NoWorker  NoJob = NoJob  NoName = NoName  NoUpload = NoUpload
  NoDir = NoDir  EmptyDir = EmptyDir  NoChain = NoChain
  WorkerOf <- OneWorkerOf
  HomeOf <- OneHomeOf
  Accepts <- AcceptsAll
  FaultKinds = {"lose", "error", "late", "overrun"}
  MaxFaults = 1
  MaxTicks = 0
  ControlAnswers = {}
  MaxControls = 0
INVARIANT StateTellsTheTruth
PROPERTIES InboxDrains EveryChainEnds
CHECK_DEADLOCK FALSE
