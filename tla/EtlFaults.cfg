\* Two workers sharing a home, a chain each, and one fault of any kind.
SPECIFICATION Spec
CONSTANTS
  w1 = w1  w2 = w2  c1 = c1  c2 = c2  h1 = h1  h2 = h2  n1 = n1
  Worker = {w1, w2}
  Chain = {c1, c2}
  Job = {j1, j2}
  Name = {n1}
  Home = {h1}
  Upload = {u1}
  NoWorker = NoWorker  NoJob = NoJob  NoName = NoName  NoUpload = NoUpload
  NoDir = NoDir  EmptyDir = EmptyDir  NoChain = NoChain
  WorkerOf <- TwoWorkerOf
  HomeOf <- SharedHomeOf
  Accepts <- AcceptsAll
  FaultKinds = {"lose", "error", "late", "overrun", "crash", "io"}
  MaxFaults = 1
  MaxTicks = 0
  ControlAnswers = {}
  MaxControls = 0
SYMMETRY JobWorkerSymmetry
VIEW WithoutSpentEvents
INVARIANTS TypeOK SoleProcessor EveryFileInOnePlace WorkFileStaysWhileScriptRuns
PROPERTIES ImplementsQueue
CHECK_DEADLOCK FALSE
