SPECIFICATION Spec
CONSTANTS
  None = None
  Request = {q1, q2}
  Call = {c1, c2}
  MaxAttempts = 5
INVARIANT RetriesWithinTable
