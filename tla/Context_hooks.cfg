SPECIFICATION Spec
CONSTANTS
  None = None
  Request = {q1, q2, q3}
  Slot = {s1, s2}
INVARIANTS TypeOK OwnContext GaugeExact
