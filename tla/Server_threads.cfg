SPECIFICATION Spec
CONSTANTS
  None = None
  Job = {j1}
  Copy = {c1, c2, c3, c4}
  Thread = {t1, t2}
  Delayed1 = None
  Target <- MCTarget
  Undecodable = {}
  MaxRetries = 1
  BackoffRaises = {}
  Unruled = {j1}
  PublishTries = 1
  PublishRetries = 1
  ConfirmPublish = TRUE
  Epoch = 8
  Horizon = 0
  MaxFaults = 1
SYMMETRY Symmetry
INVARIANTS TypeOK NoJobLost
PROPERTIES KeepsAtLeastOnce NoRepeatWithoutFaults StopSeesIdle
