SPECIFICATION FairSpec
CONSTANTS
  None = None
  Gone = Gone
  Never = 1000001
  a = a
  b = b
  wa = wa
  wb = wb
  patient = patient
  Client = {u1, patient}
  Worker = {wa, wb}
  Service = {a, b}
  ServiceOf <- MCServiceOf
  Callees <- MCCallees
  MaxTimeout <- ShortCall
  MaxCalls = 1
  Replies = {"OK"}
  MaxLost = 0
  MaxQueue = 1
  MaxSlip = 0
CHECK_DEADLOCK FALSE
PROPERTIES CallsEnd HandlersReturn
