SPECIFICATION FairSpec
CONSTANTS
  None = None
  Job = {j1, j2}
  Copy = {c1, c2, c3, c4, c5}
  Thread = {t1}
  Delayed1 = None
  Target <- MCTarget
  Undecodable = {j2}
  MaxRetries = 1
  BackoffRaises = {}
  Unruled = {}
  PublishTries = 1
  PublishRetries = 0
  ConfirmPublish = TRUE
  Epoch = 8
  Horizon = 0
  MaxFaults = 1
PROPERTIES JobsSettle StopHappens
