SPECIFICATION FairSpec
CONSTANTS
  None = None
  Thread = {t1, t2, t3}
  Connection = {k1}
  Exchange = {x1, x2}
  Retries = 1
  PublishTries = 2
INVARIANTS TypeOK DeclaredBeforeUse DeclaredOnce PoolExclusive AttemptsAccounted
PROPERTIES CallsEnd
