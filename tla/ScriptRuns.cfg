\* Three runs, two at a time, of a script that overwrites, appends, counts and uses a view.
SPECIFICATION Spec
CONSTANTS
  r1 = r1  r2 = r2  r3 = r3  k1 = k1  k2 = k2  t1 = t1  t2 = t2
  Run = {r1, r2, r3}
  Key = {k1, k2}
  Target = {t1, t2}
  NoKey = NoKey  Header = Header
  Script <- MixedScript
  Content <- MixedContent
  NoLimit = 9
  PoolSize = 2
  MaxFailures = 1
INVARIANTS TypeOK ExactWhenAlone LeftoverNeedsFailure MissingViewWasCreatedElsewhere EndedRunsReleaseTheirFiles OverwriteLeavesItsLines
PROPERTY AppendedLinesStay
CHECK_DEADLOCK FALSE
