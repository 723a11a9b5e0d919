\* Does a control call go to the worker that runs the job?
SPECIFICATION Spec
CONSTANTS
  Browser = {b1}
  Worker = {w1, w2}
  Job = {j1}
  Name = {}  Home = {}  Upload = {}
  NoWorker = NoWorker  NoJob = NoJob  NoName = NoName  NoUpload = NoUpload
  NoDir = NoDir  EmptyDir = EmptyDir
  MaxWrites = 2
  MaxSnapshots = 1
  MaxFaults = 0
  ControlAnswers = {}
INVARIANT ControlReachesRunner
