SPECIFICATION FairSpec
CONSTANTS
  None = None
  Request = {q1, q2}
  Call = {c1, c2}
  MaxAttempts = 2
INVARIANTS TypeOK ContextKept StateStaysWithRequest SequentialUpdatesAddUp ObservedOnce
PROPERTIES CallsEnd
