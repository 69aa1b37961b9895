SPECIFICATION Spec
CONSTANTS
  None = None
  Job = {j1}
  Copy = {c1, c2, c3, c4}
  Thread = {t1}
  Delayed1 = j1
  Target <- MCTarget
  Undecodable = {}
  MaxRetries = 3
  BackoffRaises = {2}
  Unruled = {j1}
  PublishTries = 2
  PublishRetries = 1
  ConfirmPublish = FALSE
  Epoch = 14
  Horizon = 1
  MaxFaults = 1
INVARIANTS DroppedOnlyAfterRetries
PROPERTIES NeverEarly PostponedOnlyBeforeTarget
