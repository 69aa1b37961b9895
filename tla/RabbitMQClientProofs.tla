------------------------ MODULE RabbitMQClientProofs ------------------------
(***************************************************************************)
(* Proofs about RabbitMQClient, for any threads, connections, exchanges    *)
(* and number of retries.                                                  *)
(***************************************************************************)
EXTENDS RabbitMQClient, TLAPS

InLock == {"recheck", "take", "declare", "close", "enter"}

(***************************************************************************)
(* The invariant: the lock is with the thread whose control is inside the  *)
(* with statement; the table holds exchanges that the broker knows; an     *)
(* exchange whose declaration went through, which it did once, is in the   *)
(* table or is to be entered by the thread that declared it.               *)
(***************************************************************************)
LockInv == \A t \in Thread : point[t] \in InLock <=> exchange_lock = t

TableInv ==
  /\ exchange_by_name \subseteq declared
  /\ \A t \in Thread : point[t] \in {"take", "declare", "close"} => name[t] \notin exchange_by_name
  /\ \A t \in Thread : point[t] \in {"close", "enter", "acquire", "publish"}
                         => name[t] \in declared

CountInv ==
  \A x \in Exchange :
    declares[x] = 0 \/ /\ declares[x] = 1
                       /\ \/ x \in exchange_by_name
                          \/ \E t \in Thread : point[t] = "enter" /\ name[t] = x

(* Until a call returns or raises, the attempts that raised and the retries   *)
(* that are left add up to Retries.                                           *)
BeforePublish == {"idle", "lookup", "lock", "recheck", "take", "declare", "close",
                  "enter"}

AttemptsInv ==
  /\ AttemptsAccounted
  /\ \A t \in Thread :
       /\ point[t] \notin {"returned", "raised"} => failed[t] + retry_left[t] = Retries
       /\ point[t] \in BeforePublish => failed[t] = 0 /\ stored[t] = 0
       /\ point[t] = "returned" => failed[t] <= Retries

ClientInv == TypeOK /\ PoolExclusive /\ LockInv /\ TableInv /\ CountInv /\ AttemptsInv

LEMMA InitClientInv == Init => ClientInv
<1> SUFFICES ASSUME Init PROVE ClientInv
  OBVIOUS
<1>1. TypeOK
  BY ClientAssumption DEF Init, TypeOK, Point
<1>2. LockInv /\ TableInv /\ CountInv
  BY ClientAssumption DEF Init, LockInv, TableInv, CountInv, InLock
<1>3. PoolExclusive
  BY ClientAssumption DEF Init, PoolExclusive
<1>4. AttemptsInv
  BY ClientAssumption DEF Init, AttemptsInv, AttemptsAccounted, BeforePublish
<1> QED
  BY <1>1, <1>2, <1>3, <1>4 DEF ClientInv

LEMMA ReachesType ==
  ASSUME TypeOK, NEW t \in Thread, Reaches(t)
  PROVE  /\ stored' \in [Thread -> Nat]
         /\ stored'[t] \in stored[t] .. stored[t] + PublishTries
         /\ \A u \in Thread \ {t} : stored'[u] = stored[u]
<1>1. PICK n \in 0 .. PublishTries : stored' = [stored EXCEPT ![t] = @ + n]
  BY DEF Reaches
<1>2. n \in Nat /\ stored[t] \in Nat /\ n <= PublishTries
  BY ClientAssumption DEF TypeOK
<1> QED
  BY <1>1, <1>2, ClientAssumption DEF TypeOK

(* The copies of one more attempt, in integers that the solver multiplies.    *)
LEMMA OneMoreAttempt ==
  ASSUME NEW p \in Nat, NEW a \in Nat
  PROVE  p * (a + 1) = p * a + p /\ p * a \in Nat
  OBVIOUS

(* Every step keeps the types. *)
LEMMA NextTypeOK == TypeOK /\ PoolExclusive /\ [Next]_vars => TypeOK'
<1> SUFFICES ASSUME TypeOK, PoolExclusive, [Next]_vars PROVE TypeOK'
  OBVIOUS
<1> USE ClientAssumption
<1>1. ASSUME NEW t \in Thread, NEW x \in Exchange, GetStub(t, x) PROVE TypeOK'
  BY <1>1 DEF GetStub, tableVars, poolVars, At, TypeOK, PoolExclusive, Point
<1>2. ASSUME NEW t \in Thread, Lookup(t) PROVE TypeOK'
  BY <1>2 DEF Lookup, tableVars, poolVars, callVars, At, TypeOK,
    PoolExclusive, Point
<1>3. ASSUME NEW t \in Thread, Lock(t) PROVE TypeOK'
  BY <1>3 DEF Lock, poolVars, callVars, At, TypeOK, PoolExclusive, Point
<1>4. ASSUME NEW t \in Thread, Recheck(t) PROVE TypeOK'
  BY <1>4 DEF Recheck, CreatedMeanwhile, poolVars, callVars, At, TypeOK,
    PoolExclusive, Point
<1>5. ASSUME NEW t \in Thread, TakeConnection(t) PROVE TypeOK'
  BY <1>5 DEF TakeConnection, Acquire, tableVars, callVars, At, TypeOK,
    PoolExclusive, Point
<1>6. ASSUME NEW t \in Thread, Declare(t) PROVE TypeOK'
  BY <1>6 DEF Declare, poolVars, callVars, At, TypeOK, PoolExclusive, Point
<1>7. ASSUME NEW t \in Thread, DeclareRaises(t) PROVE TypeOK'
  BY <1>7 DEF DeclareRaises, LeaveLock, Release, At, TypeOK, PoolExclusive,
    Point
<1>8. ASSUME NEW t \in Thread, EnterExchange(t) PROVE TypeOK'
  BY <1>8 DEF EnterExchange, poolVars, callVars, At, TypeOK, PoolExclusive,
    Point
<1>9. ASSUME NEW t \in Thread, Close(t) PROVE TypeOK'
  BY <1>9 DEF Close, Release, callVars, At, TypeOK, PoolExclusive,
    Point
<1>10. ASSUME NEW t \in Thread, AcquireForPublish(t) PROVE TypeOK'
  BY <1>10 DEF AcquireForPublish, Acquire, tableVars, callVars, At, TypeOK,
    PoolExclusive, Point
<1>11. ASSUME NEW t \in Thread, PublishReturns(t) PROVE TypeOK'
  <2>1. stored' \in [Thread -> Nat]
    BY <1>11, ReachesType DEF PublishReturns
  <2>2. held[t] \in Connection
    BY <1>11 DEF PublishReturns, At, TypeOK, PoolExclusive
  <2> QED
    BY <1>11, <2>1, <2>2 DEF PublishReturns, Release, tableVars, At, TypeOK, Point
<1>12. ASSUME NEW t \in Thread, PublishRaises(t) PROVE TypeOK'
  <2>1. stored' \in [Thread -> Nat]
    BY <1>12, ReachesType DEF PublishRaises
  <2>2. failed' \in [Thread -> Nat]
    BY <1>12 DEF PublishRaises, TypeOK
  <2>3. retry_left' \in [Thread -> 0 .. Retries]
    BY <1>12 DEF PublishRaises, LastAttempt, TypeOK
  <2> QED
    BY <1>12, <2>1, <2>2, <2>3 DEF PublishRaises, Retry, Release, tableVars, At,
      TypeOK, PoolExclusive, Point
<1>13. ASSUME NEW t \in Thread, CloseRaises(t) PROVE TypeOK'
  BY <1>13 DEF CloseRaises, LeaveLock, Release, At, TypeOK, PoolExclusive, Point
<1>14. CASE UNCHANGED vars
  BY <1>14 DEF vars, tableVars, poolVars, callVars, TypeOK, PoolExclusive, Point
<1> QED
  BY <1>1, <1>2, <1>3, <1>4, <1>5, <1>6, <1>7, <1>8, <1>9, <1>10, <1>11,
     <1>12, <1>13, <1>14
     DEF Next, Running, Waiting

(* A connection that is taken leaves the pool, and goes back to it once. *)
LEMMA NextPoolExclusive == TypeOK /\ PoolExclusive /\ [Next]_vars => PoolExclusive'
<1> SUFFICES ASSUME TypeOK, PoolExclusive, [Next]_vars PROVE PoolExclusive'
  OBVIOUS
<1> USE ClientAssumption
<1>1. ASSUME NEW t \in Thread, NEW x \in Exchange, GetStub(t, x) PROVE PoolExclusive'
  BY <1>1 DEF GetStub, tableVars, poolVars, At, TypeOK, PoolExclusive
<1>2. ASSUME NEW t \in Thread, Lookup(t) PROVE PoolExclusive'
  BY <1>2 DEF Lookup, tableVars, poolVars, callVars, At, TypeOK, PoolExclusive
<1>3. ASSUME NEW t \in Thread, Lock(t) PROVE PoolExclusive'
  BY <1>3 DEF Lock, poolVars, callVars, At, TypeOK, PoolExclusive
<1>4. ASSUME NEW t \in Thread, Recheck(t) PROVE PoolExclusive'
  BY <1>4 DEF Recheck, CreatedMeanwhile, poolVars, callVars, At, TypeOK,
    PoolExclusive
<1>5. ASSUME NEW t \in Thread, TakeConnection(t) PROVE PoolExclusive'
  BY <1>5 DEF TakeConnection, Acquire, tableVars, callVars, At, TypeOK,
    PoolExclusive
<1>6. ASSUME NEW t \in Thread, Declare(t) PROVE PoolExclusive'
  BY <1>6 DEF Declare, poolVars, callVars, At, TypeOK, PoolExclusive
<1>7. ASSUME NEW t \in Thread, DeclareRaises(t) PROVE PoolExclusive'
  BY <1>7 DEF DeclareRaises, LeaveLock, Release, At, TypeOK, PoolExclusive
<1>8. ASSUME NEW t \in Thread, EnterExchange(t) PROVE PoolExclusive'
  BY <1>8 DEF EnterExchange, poolVars, callVars, At, TypeOK, PoolExclusive
<1>9. ASSUME NEW t \in Thread, Close(t) PROVE PoolExclusive'
  BY <1>9 DEF Close, Release, callVars, At, TypeOK, PoolExclusive
<1>10. ASSUME NEW t \in Thread, AcquireForPublish(t) PROVE PoolExclusive'
  BY <1>10 DEF AcquireForPublish, Acquire, tableVars, callVars, At, TypeOK,
    PoolExclusive
<1>11. ASSUME NEW t \in Thread, PublishReturns(t) PROVE PoolExclusive'
  BY <1>11 DEF PublishReturns, Release, tableVars, At, TypeOK, PoolExclusive
<1>12. ASSUME NEW t \in Thread, PublishRaises(t) PROVE PoolExclusive'
  BY <1>12 DEF PublishRaises, LastAttempt, Retry, Release,
    tableVars, At, TypeOK, PoolExclusive
<1>13. ASSUME NEW t \in Thread, CloseRaises(t) PROVE PoolExclusive'
  BY <1>13 DEF CloseRaises, LeaveLock, Release, At, TypeOK, PoolExclusive
<1>14. CASE UNCHANGED vars
  BY <1>14 DEF vars, tableVars, poolVars, callVars, TypeOK, PoolExclusive
<1> QED
  BY <1>1, <1>2, <1>3, <1>4, <1>5, <1>6, <1>7, <1>8, <1>9, <1>10, <1>11,
     <1>12, <1>13, <1>14
     DEF Next, Running, Waiting

(* The lock is taken when it is free and given back by its holder. *)
LEMMA NextLockInv == TypeOK /\ LockInv /\ [Next]_vars => LockInv'
<1> SUFFICES ASSUME TypeOK, LockInv, [Next]_vars PROVE LockInv'
  OBVIOUS
<1> USE ClientAssumption
<1>1. ASSUME NEW t \in Thread, NEW x \in Exchange, GetStub(t, x) PROVE LockInv'
  BY <1>1 DEF GetStub, tableVars, poolVars, At, TypeOK, LockInv, InLock
<1>2. ASSUME NEW t \in Thread, Lookup(t) PROVE LockInv'
  BY <1>2 DEF Lookup, tableVars, poolVars, callVars, At, TypeOK, LockInv,
    InLock
<1>3. ASSUME NEW t \in Thread, Lock(t) PROVE LockInv'
  BY <1>3 DEF Lock, poolVars, callVars, At, TypeOK, LockInv, InLock
<1>4. ASSUME NEW t \in Thread, Recheck(t) PROVE LockInv'
  BY <1>4 DEF Recheck, CreatedMeanwhile, poolVars, callVars, At, TypeOK,
    LockInv, InLock
<1>5. ASSUME NEW t \in Thread, TakeConnection(t) PROVE LockInv'
  BY <1>5 DEF TakeConnection, Acquire, tableVars, callVars, At, TypeOK,
    LockInv, InLock
<1>6. ASSUME NEW t \in Thread, Declare(t) PROVE LockInv'
  BY <1>6 DEF Declare, poolVars, callVars, At, TypeOK, LockInv, InLock
<1>7. ASSUME NEW t \in Thread, DeclareRaises(t) PROVE LockInv'
  BY <1>7 DEF DeclareRaises, LeaveLock, Release, At, TypeOK, LockInv, InLock
<1>8. ASSUME NEW t \in Thread, EnterExchange(t) PROVE LockInv'
  BY <1>8 DEF EnterExchange, poolVars, callVars, At, TypeOK, LockInv, InLock
<1>9. ASSUME NEW t \in Thread, Close(t) PROVE LockInv'
  BY <1>9 DEF Close, Release, callVars, At, TypeOK, LockInv, InLock
<1>10. ASSUME NEW t \in Thread, AcquireForPublish(t) PROVE LockInv'
  BY <1>10 DEF AcquireForPublish, Acquire, tableVars, callVars, At, TypeOK,
    LockInv, InLock
<1>11. ASSUME NEW t \in Thread, PublishReturns(t) PROVE LockInv'
  BY <1>11 DEF PublishReturns, Release, tableVars, At, TypeOK, LockInv, InLock
<1>12. ASSUME NEW t \in Thread, PublishRaises(t) PROVE LockInv'
  BY <1>12 DEF PublishRaises, LastAttempt, Retry, Release,
    tableVars, At, TypeOK, LockInv, InLock
<1>13. ASSUME NEW t \in Thread, CloseRaises(t) PROVE LockInv'
  BY <1>13 DEF CloseRaises, LeaveLock, Release, At, TypeOK, LockInv, InLock
<1>14. CASE UNCHANGED vars
  BY <1>14 DEF vars, tableVars, poolVars, callVars, TypeOK, LockInv, InLock
<1> QED
  BY <1>1, <1>2, <1>3, <1>4, <1>5, <1>6, <1>7, <1>8, <1>9, <1>10, <1>11,
     <1>12, <1>13, <1>14
     DEF Next, Running, Waiting

(* What a thread saw of the table under the lock is still true of it. *)
LEMMA NextTableInv == TypeOK /\ LockInv /\ TableInv /\ [Next]_vars => TableInv'
<1> SUFFICES ASSUME TypeOK, LockInv, TableInv, [Next]_vars PROVE TableInv'
  OBVIOUS
<1> USE ClientAssumption
<1>1. ASSUME NEW t \in Thread, NEW x \in Exchange, GetStub(t, x) PROVE TableInv'
  BY <1>1 DEF GetStub, tableVars, poolVars, At, TypeOK, LockInv, TableInv,
    InLock
<1>2. ASSUME NEW t \in Thread, Lookup(t) PROVE TableInv'
  BY <1>2 DEF Lookup, tableVars, poolVars, callVars, At, TypeOK, LockInv,
    TableInv, InLock
<1>3. ASSUME NEW t \in Thread, Lock(t) PROVE TableInv'
  BY <1>3 DEF Lock, poolVars, callVars, At, TypeOK, LockInv, TableInv, InLock
<1>4. ASSUME NEW t \in Thread, Recheck(t) PROVE TableInv'
  BY <1>4 DEF Recheck, CreatedMeanwhile, poolVars, callVars, At, TypeOK,
    LockInv, TableInv, InLock
<1>5. ASSUME NEW t \in Thread, TakeConnection(t) PROVE TableInv'
  BY <1>5 DEF TakeConnection, Acquire, tableVars, callVars, At, TypeOK,
    LockInv, TableInv, InLock
<1>6. ASSUME NEW t \in Thread, Declare(t) PROVE TableInv'
  BY <1>6 DEF Declare, poolVars, callVars, At, TypeOK, LockInv, TableInv, InLock
<1>7. ASSUME NEW t \in Thread, DeclareRaises(t) PROVE TableInv'
  BY <1>7 DEF DeclareRaises, LeaveLock, Release, At, TypeOK, LockInv,
    TableInv, InLock
<1>8. ASSUME NEW t \in Thread, EnterExchange(t) PROVE TableInv'
  BY <1>8 DEF EnterExchange, poolVars, callVars, At, TypeOK, LockInv,
    TableInv, InLock
<1>9. ASSUME NEW t \in Thread, Close(t) PROVE TableInv'
  BY <1>9 DEF Close, Release, callVars, At, TypeOK, LockInv,
    TableInv, InLock
<1>10. ASSUME NEW t \in Thread, AcquireForPublish(t) PROVE TableInv'
  BY <1>10 DEF AcquireForPublish, Acquire, tableVars, callVars, At, TypeOK,
    LockInv, TableInv, InLock
<1>11. ASSUME NEW t \in Thread, PublishReturns(t) PROVE TableInv'
  BY <1>11 DEF PublishReturns, Release, tableVars, At, TypeOK, LockInv,
    TableInv, InLock
<1>12. ASSUME NEW t \in Thread, PublishRaises(t) PROVE TableInv'
  BY <1>12 DEF PublishRaises, LastAttempt, Retry, Release,
    tableVars, At, TypeOK, LockInv, TableInv, InLock
<1>13. ASSUME NEW t \in Thread, CloseRaises(t) PROVE TableInv'
  BY <1>13 DEF CloseRaises, LeaveLock, Release, At, TypeOK, LockInv, TableInv,
    InLock
<1>14. CASE UNCHANGED vars
  BY <1>14 DEF vars, tableVars, poolVars, callVars, TypeOK, LockInv, TableInv, InLock
<1> QED
  BY <1>1, <1>2, <1>3, <1>4, <1>5, <1>6, <1>7, <1>8, <1>9, <1>10, <1>11,
     <1>12, <1>13, <1>14
     DEF Next, Running, Waiting

(* Nobody declares what the table holds or what is to be entered. *)
LEMMA NextCountInv == TypeOK /\ LockInv /\ TableInv /\ CountInv /\ [Next]_vars => CountInv'
<1> SUFFICES ASSUME TypeOK, LockInv, TableInv, CountInv, [Next]_vars PROVE CountInv'
  OBVIOUS
<1> USE ClientAssumption
<1>1. ASSUME NEW t \in Thread, NEW x \in Exchange, GetStub(t, x) PROVE CountInv'
  BY <1>1 DEF GetStub, tableVars, poolVars, At, TypeOK, LockInv, TableInv,
    CountInv, InLock
<1>2. ASSUME NEW t \in Thread, Lookup(t) PROVE CountInv'
  BY <1>2 DEF Lookup, tableVars, poolVars, callVars, At, TypeOK, LockInv,
    TableInv, CountInv, InLock
<1>3. ASSUME NEW t \in Thread, Lock(t) PROVE CountInv'
  BY <1>3 DEF Lock, poolVars, callVars, At, TypeOK, LockInv, TableInv,
    CountInv, InLock
<1>4. ASSUME NEW t \in Thread, Recheck(t) PROVE CountInv'
  BY <1>4 DEF Recheck, CreatedMeanwhile, poolVars, callVars, At, TypeOK,
    LockInv, TableInv, CountInv, InLock
<1>5. ASSUME NEW t \in Thread, TakeConnection(t) PROVE CountInv'
  BY <1>5 DEF TakeConnection, Acquire, tableVars, callVars, At, TypeOK,
    LockInv, TableInv, CountInv, InLock
<1>6. ASSUME NEW t \in Thread, Declare(t) PROVE CountInv'
  BY <1>6 DEF Declare, poolVars, callVars, At, TypeOK, LockInv, TableInv,
    CountInv, InLock
<1>7. ASSUME NEW t \in Thread, DeclareRaises(t) PROVE CountInv'
  BY <1>7 DEF DeclareRaises, LeaveLock, Release, At, TypeOK, LockInv,
    TableInv, CountInv, InLock
<1>8. ASSUME NEW t \in Thread, EnterExchange(t) PROVE CountInv'
  BY <1>8 DEF EnterExchange, poolVars, callVars, At, TypeOK, LockInv,
    TableInv, CountInv, InLock
<1>9. ASSUME NEW t \in Thread, Close(t) PROVE CountInv'
  BY <1>9 DEF Close, Release, callVars, At, TypeOK, LockInv,
    TableInv, CountInv, InLock
<1>10. ASSUME NEW t \in Thread, AcquireForPublish(t) PROVE CountInv'
  BY <1>10 DEF AcquireForPublish, Acquire, tableVars, callVars, At, TypeOK,
    LockInv, TableInv, CountInv, InLock
<1>11. ASSUME NEW t \in Thread, PublishReturns(t) PROVE CountInv'
  BY <1>11 DEF PublishReturns, Release, tableVars, At, TypeOK, LockInv,
    TableInv, CountInv, InLock
<1>12. ASSUME NEW t \in Thread, PublishRaises(t) PROVE CountInv'
  BY <1>12 DEF PublishRaises, LastAttempt, Retry, Release,
    tableVars, At, TypeOK, LockInv, TableInv, CountInv, InLock
<1>13. ASSUME NEW t \in Thread, CloseRaises(t) PROVE CountInv'
  BY <1>13 DEF CloseRaises, LeaveLock, Release, At, TypeOK, LockInv, TableInv,
    CountInv, InLock
<1>14. CASE UNCHANGED vars
  BY <1>14 DEF vars, tableVars, poolVars, callVars, TypeOK, LockInv, TableInv, CountInv, InLock
<1> QED
  BY <1>1, <1>2, <1>3, <1>4, <1>5, <1>6, <1>7, <1>8, <1>9, <1>10, <1>11,
     <1>12, <1>13, <1>14
     DEF Next, Running, Waiting

(* Each attempt that raises uses up one of the retries. *)
LEMMA NextAttempts == TypeOK /\ AttemptsInv /\ [Next]_vars => AttemptsInv'
<1> SUFFICES ASSUME TypeOK, AttemptsInv, [Next]_vars PROVE AttemptsInv'
  OBVIOUS
<1> USE ClientAssumption
<1>1. ASSUME NEW t \in Thread, NEW x \in Exchange, GetStub(t, x) PROVE AttemptsInv'
  BY <1>1 DEF GetStub, tableVars, poolVars, At, TypeOK, AttemptsInv,
    AttemptsAccounted, BeforePublish
<1>2. ASSUME NEW t \in Thread, Lookup(t) PROVE AttemptsInv'
  BY <1>2 DEF Lookup, tableVars, poolVars, callVars, At, TypeOK, AttemptsInv,
    AttemptsAccounted, BeforePublish
<1>3. ASSUME NEW t \in Thread, Lock(t) PROVE AttemptsInv'
  BY <1>3 DEF Lock, poolVars, callVars, At, TypeOK, AttemptsInv,
    AttemptsAccounted, BeforePublish
<1>4. ASSUME NEW t \in Thread, Recheck(t) PROVE AttemptsInv'
  BY <1>4 DEF Recheck, CreatedMeanwhile, poolVars, callVars, At, TypeOK,
    AttemptsInv, AttemptsAccounted, BeforePublish
<1>5. ASSUME NEW t \in Thread, TakeConnection(t) PROVE AttemptsInv'
  BY <1>5 DEF TakeConnection, Acquire, tableVars, callVars, At, TypeOK,
    AttemptsInv, AttemptsAccounted, BeforePublish
<1>6. ASSUME NEW t \in Thread, Declare(t) PROVE AttemptsInv'
  BY <1>6 DEF Declare, poolVars, callVars, At, TypeOK, AttemptsInv,
    AttemptsAccounted, BeforePublish
<1>7. ASSUME NEW t \in Thread, DeclareRaises(t) PROVE AttemptsInv'
  BY <1>7 DEF DeclareRaises, LeaveLock, Release, At, TypeOK, AttemptsInv,
    AttemptsAccounted, BeforePublish
<1>8. ASSUME NEW t \in Thread, EnterExchange(t) PROVE AttemptsInv'
  BY <1>8 DEF EnterExchange, poolVars, callVars, At, TypeOK, AttemptsInv,
    AttemptsAccounted, BeforePublish
<1>9. ASSUME NEW t \in Thread, Close(t) PROVE AttemptsInv'
  BY <1>9 DEF Close, Release, callVars, At, TypeOK, AttemptsInv,
    AttemptsAccounted, BeforePublish
<1>10. ASSUME NEW t \in Thread, AcquireForPublish(t) PROVE AttemptsInv'
  BY <1>10 DEF AcquireForPublish, Acquire, tableVars, callVars, At, TypeOK,
    AttemptsInv, AttemptsAccounted, BeforePublish
<1>11. ASSUME NEW t \in Thread, PublishReturns(t) PROVE AttemptsInv'
  <2>1. /\ stored[t] \in Nat /\ failed[t] \in 0 .. Retries
        /\ stored[t] <= PublishTries * failed[t]
        /\ retry_left[t] = Retries - failed[t] /\ Retries \in Nat
    BY <1>11 DEF PublishReturns, At, TypeOK, AttemptsInv, AttemptsAccounted
  <2>2. /\ PublishTries * (failed[t] + 1) = PublishTries * failed[t] + PublishTries
        /\ PublishTries * failed[t] \in Nat
    BY <2>1, OneMoreAttempt
  <2>3. /\ stored'[t] \in Nat /\ stored'[t] <= PublishTries * (failed[t] + 1)
        /\ \A u \in Thread \ {t} : stored'[u] = stored[u]
    BY <1>11, <2>1, <2>2, ReachesType DEF PublishReturns
  <2> QED
    BY <1>11, <2>1, <2>3
       DEF PublishReturns, At, TypeOK, AttemptsInv, AttemptsAccounted, BeforePublish
<1>12. ASSUME NEW t \in Thread, PublishRaises(t) PROVE AttemptsInv'
  <2>1. /\ stored[t] \in Nat /\ failed[t] \in 0 .. Retries
        /\ stored[t] <= PublishTries * failed[t]
        /\ retry_left[t] = Retries - failed[t] /\ Retries \in Nat
    BY <1>12 DEF PublishRaises, Retry, At, TypeOK, AttemptsInv, AttemptsAccounted
  <2>2. /\ PublishTries * (failed[t] + 1) = PublishTries * failed[t] + PublishTries
        /\ PublishTries * failed[t] \in Nat
    BY <2>1, OneMoreAttempt
  <2>3. /\ stored'[t] \in Nat /\ stored'[t] <= PublishTries * (failed[t] + 1)
        /\ \A u \in Thread \ {t} : stored'[u] = stored[u]
    BY <1>12, <2>1, <2>2, ReachesType DEF PublishRaises
  <2>4. /\ failed'[t] = failed[t] + 1
        /\ \A u \in Thread \ {t} : /\ failed'[u] = failed[u]
                                   /\ point'[u] = point[u]
                                   /\ retry_left'[u] = retry_left[u]
    BY <1>12 DEF PublishRaises, Retry, At, TypeOK
  <2>5. \/ /\ point'[t] = "raised" /\ retry_left[t] < 1
        \/ /\ point'[t] = "acquire" /\ retry_left[t] >= 1
           /\ retry_left'[t] = retry_left[t] - 1
    BY <1>12, <2>1 DEF PublishRaises, LastAttempt, Retry, At, TypeOK
  <2>6. AttemptsAccounted'
    BY <2>1, <2>3, <2>4, <2>5 DEF AttemptsInv, AttemptsAccounted
  <2> QED
    BY <2>1, <2>4, <2>3, <2>5, <2>6 DEF AttemptsInv, BeforePublish
<1>13. ASSUME NEW t \in Thread, CloseRaises(t) PROVE AttemptsInv'
  BY <1>13 DEF CloseRaises, LeaveLock, Release, At, TypeOK, AttemptsInv,
    AttemptsAccounted, BeforePublish
<1>14. CASE UNCHANGED vars
  BY <1>14 DEF vars, tableVars, poolVars, callVars, TypeOK, AttemptsInv, AttemptsAccounted, BeforePublish
<1> QED
  BY <1>1, <1>2, <1>3, <1>4, <1>5, <1>6, <1>7, <1>8, <1>9, <1>10, <1>11,
     <1>12, <1>13, <1>14
     DEF Next, Running, Waiting

LEMMA ClientInvHolds == Spec => []ClientInv
<1>1. ClientInv /\ [Next]_vars => ClientInv'
  BY NextTypeOK, NextPoolExclusive, NextLockInv, NextTableInv, NextCountInv,
     NextAttempts
     DEF ClientInv
<1> QED
  BY InitClientInv, <1>1, PTL DEF Spec
-----------------------------------------------------------------------------
(* Type correctness of the client's tables, pool and calls.                  *)
THEOREM TypeCorrect == Spec => []TypeOK
<1>1. ClientInv => TypeOK
  BY DEF ClientInv
<1> QED
  BY ClientInvHolds, <1>1, PTL

(* A pooled connection is with one thread at a time, and only while that     *)
(* thread declares or publishes (client.py 78-94, 121-127).                  *)
THEOREM ConnectionsExclusive == Spec => []PoolExclusive
<1>1. ClientInv => PoolExclusive
  BY DEF ClientInv
<1> QED
  BY ClientInvHolds, <1>1, PTL

(* The unlocked look into _exchange_by_name never lets a thread publish to   *)
(* an exchange that the broker does not know (client.py 114-129).            *)
THEOREM ExchangeKnown == Spec => []DeclaredBeforeUse
<1>1. ClientInv => DeclaredBeforeUse
  BY DEF ClientInv, TableInv, DeclaredBeforeUse
<1> QED
  BY ClientInvHolds, <1>1, PTL

(* The double-checked lock declares each exchange once: whatever raised in    *)
(* declare() or after it, an exchange whose declaration went through is not   *)
(* declared again by any thread (client.py 114-129).                          *)
THEOREM DeclaredAtMostOnce == Spec => []DeclaredOnce
<1>1. ClientInv => DeclaredOnce
  <2> SUFFICES ASSUME ClientInv PROVE DeclaredOnce
    OBVIOUS
  <2> USE DEF ClientInv
  <2>1. \A x \in Exchange : declares[x] <= 1
    BY DEF CountInv
  <2>2. ASSUME NEW t \in Thread, point[t] \in {"declare", "close"}
        PROVE  declares[name[t]] = 0
    <3>1. name[t] \in Exchange /\ name[t] \notin exchange_by_name
      BY <2>2 DEF TypeOK, TableInv
    <3>2. \A u \in Thread : point[u] # "enter"
      BY <2>2 DEF LockInv, InLock
    <3> QED
      BY <3>1, <3>2 DEF CountInv
  <2> QED
    BY <2>1, <2>2 DEF DeclaredOnce
<1> QED
  BY ClientInvHolds, <1>1, PTL

(* A call raises after Retries + 1 failed attempts, and however many of its  *)
(* publishes kombu repeats, no attempt leaves more copies than it publishes   *)
(* (client.py 86-112).                                                       *)
THEOREM AttemptsBounded == Spec => []AttemptsAccounted
<1>1. ClientInv => AttemptsAccounted
  BY DEF ClientInv, AttemptsInv
<1> QED
  BY ClientInvHolds, <1>1, PTL
-----------------------------------------------------------------------------
(***************************************************************************)
(* No deadlock.  A thread waits for the lock, or for a connection, and the *)
(* one that declares waits for a connection with the lock.  The order is   *)
(* always lock before connection, and whoever has a connection goes on.    *)
(***************************************************************************)
Blocked(t) == \/ point[t] = "lock" /\ exchange_lock # None
              \/ point[t] \in {"take", "acquire"} /\ free = {}

(* However few connections there are, the threads never all wait for one      *)
(* another (client.py 78-94, 114-129).                                        *)
THEOREM SomeThreadGoesOn ==
  ASSUME Thread # {}, Connection # {}
  PROVE  Spec => [](\E t \in Thread : ~Blocked(t))
<1>1. ClientInv => \E t \in Thread : ~Blocked(t)
  <2> SUFFICES ASSUME ClientInv, \A t \in Thread : Blocked(t) PROVE FALSE
    OBVIOUS
  <2> USE DEF ClientInv
  <2>1. free # {}
    <3> SUFFICES ASSUME free = {} PROVE FALSE
      OBVIOUS
    <3>1. PICK c \in Connection, t \in Thread : held[t] = c
      BY DEF PoolExclusive
    <3>2. point[t] \in {"declare", "close", "publish"}
      BY <3>1, ClientAssumption DEF PoolExclusive
    <3> QED
      BY <3>2 DEF Blocked
  <2>2. PICK t \in Thread : point[t] = "lock" /\ exchange_lock # None
    BY <2>1 DEF Blocked
  <2>3. PICK u \in Thread : u = exchange_lock
    BY <2>2 DEF TypeOK
  <2>4. point[u] \in InLock
    BY <2>3 DEF LockInv
  <2> QED
    BY <2>1, <2>4 DEF Blocked, InLock
<1> QED
  BY <1>1, ClientInvHolds, PTL
=============================================================================
