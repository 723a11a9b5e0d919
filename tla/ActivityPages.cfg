\* One browser: what its page shows and controls, every failure, fair.
SPECIFICATION FairSpec
CONSTANTS
  Browser = {b1}
  Worker = {w1, w2}
  Job = {j1}
  Name = {}  Home = {}  Upload = {}
  NoWorker = NoWorker  NoJob = NoJob  NoName = NoName  NoUpload = NoUpload
  NoDir = NoDir  EmptyDir = EmptyDir
  MaxWrites = 2
  MaxSnapshots = 2
  MaxFaults = 1
  ControlAnswers = {"PAUSED"}
INVARIANT TypeOK
INVARIANT OneControlAtATime
PROPERTY ListedStatesCatchUp
PROPERTY ControlsComeBack
