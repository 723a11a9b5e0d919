\* One worker, no faults, two files: whose statistics a job gets.
SPECIFICATION Spec
CONSTANTS
  w1 = w1  w2 = w2  c1 = c1  c2 = c2  h1 = h1  h2 = h2  n1 = n1
  Worker = {w1}
  Chain = {c1}
  Job = {j1, j2}
  Name = {n1}
  Home = {h1}
  Upload = {u1, u2}
  NoWorker = NoWorker  NoJob = NoJob  NoName = NoName  NoUpload = NoUpload
  NoDir = NoDir  EmptyDir = EmptyDir  NoChain = NoChain
  WorkerOf <- OneWorkerOf
  HomeOf <- OneHomeOf
  Accepts <- AcceptsAll
  FaultKinds = {}
  MaxFaults = 0
  MaxTicks = 0
  ControlAnswers = {}
  MaxControls = 0
INVARIANT StatisticsAreOfTheJob
CHECK_DEADLOCK FALSE
