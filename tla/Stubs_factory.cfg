SPECIFICATION Spec
CONSTANTS
  None = None
  s1 = s1
  s2 = s2
  n1 = n1
  m1 = m1
  m2 = m2
  i1 = i1
  i2 = i2
  Thread = {t1, t2}
  Service = {s1, s2}
  Name = {n1, n2}
  e1 = e1
  x1 = x1
  x2 = x2
  Empty = Empty
  Endpoint = {e1, Empty}
  Exchange = {x1, x2}
  Instance <- MCInstance
  Worker <- MCWorker
  Method = {m1, m2}
  Impl = {i1, i2}
  Definition <- MCDefinition
  ImplFor <- MCImplFor
  Has <- MCHas
  MaxStubs = 2
SYMMETRY Symmetry
INVARIANTS TypeOK StubFits ClientsBounded CallsReachTheirServicer
