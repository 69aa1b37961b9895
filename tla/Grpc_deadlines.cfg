SPECIFICATION Spec
CONSTANTS
  None = None
  Gone = Gone
  Never = 1000001
  a = a
  b = b
  wa = wa
  wb = wb
  patient = patient
  Client = {u1}
  Worker = {wa, wb}
  Service = {a, b}
  ServiceOf <- MCServiceOf
  Callees <- MCCallees
  MaxTimeout <- OneOrTwo
  MaxCalls = 1
  Replies = {"OK", "INTERNAL", "UNAVAILABLE"}
  MaxLost = 1
  MaxQueue = 1
  MaxSlip = 1
INVARIANTS TypeOK DeadlineInherited RetriesBounded
