--------------------------- MODULE GrpcCallProofs ---------------------------
(***************************************************************************)
(* Proofs about GrpcCall, for any clients, workers, services, timeouts and *)
(* numbers of calls and lost connections.                                  *)
(***************************************************************************)
EXTENDS GrpcCall, TLAPS

(***************************************************************************)
(* The invariant.  A thread that waits in a queue or is worked for has an  *)
(* attempt out (OutInv), and is there once: in one place of one queue or   *)
(* with one worker (OnceInv).  So when a worker answers or its caller is   *)
(* gone, no other worker goes on under the caller's old time.  While the   *)
(* caller waits, its time and its server's agree, in the queue (TimesInv)  *)
(* as with the worker; time without a limit is inherited as such.          *)
(***************************************************************************)
OutInv ==
  /\ \A s \in Service : \A i \in DOMAIN queue[s] :
        queue[s][i].caller \in Thread => point[queue[s][i].caller] = "sent"
  /\ \A w \in Worker : serving[w] \in Thread => point[serving[w]] = "sent"

OnceInv ==
  /\ \A v, w \in Worker : serving[v] = serving[w] => serving[v] \notin Thread \/ v = w
  /\ \A w \in Worker, s \in Service : \A i \in DOMAIN queue[s] :
        queue[s][i].caller = serving[w] => serving[w] \notin Thread
  /\ \A s, z \in Service : \A i \in DOMAIN queue[s], j \in DOMAIN queue[z] :
        queue[s][i].caller = queue[z][j].caller => queue[s][i].caller \notin Thread \/ (s = z /\ i = j)

TimesInv ==
  \A s \in Service : \A i \in DOMAIN queue[s] :
     queue[s][i].caller \in Thread => queue[s][i].time = left[queue[s][i].caller]

UnlimitedInv ==
  \A w \in Worker : point[w] \in {"timed", "sent"} /\ left[w] = Never => limit[w] = Never

(* A retry that is being waited for was within the limit.                    *)
BackoffInv == \A t \in Thread : point[t] = "backoff" => retries[t] <= 3

GrpcInv ==
  /\ TypeOK /\ RetriesBounded /\ BackoffInv /\ OutInv /\ OnceInv
  /\ TimesInv /\ UnlimitedInv /\ DeadlineInherited

LEMMA InitGrpcInv == Init => GrpcInv
<1> SUFFICES ASSUME Init PROVE GrpcInv
  OBVIOUS
<1> USE GrpcAssumption
<1>1. queue \in [Service -> Seq(Waiting)]
  <2>1. <<>> \in Seq(Waiting)
    OBVIOUS
  <2> QED
    BY <2>1 DEF Init
<1>2. TypeOK
  BY <1>1 DEF Init, TypeOK, Point, Code, Thread
<1>3. RetriesBounded /\ BackoffInv /\ UnlimitedInv /\ DeadlineInherited
  BY DEF Init, RetriesBounded, BackoffInv, UnlimitedInv, DeadlineInherited, Thread
<1>4. OutInv /\ OnceInv /\ TimesInv
  BY DEF Init, OutInv, OnceInv, TimesInv
<1> QED
  BY <1>2, <1>3, <1>4 DEF GrpcInv

-----------------------------------------------------------------------------
(* What the steps do to the queues.                                          *)
LEMMA Appended ==
  ASSUME NEW S, NEW q \in Seq(S), NEW e \in S
  PROVE  /\ Append(q, e) \in Seq(S)
         /\ \A i \in DOMAIN Append(q, e) :
              \/ i \in DOMAIN q /\ Append(q, e)[i] = q[i]
              \/ i = Len(q) + 1 /\ i \notin DOMAIN q /\ Append(q, e)[i] = e
  OBVIOUS

LEMMA Taken ==
  ASSUME NEW S, NEW q \in Seq(S), q # <<>>
  PROVE  /\ Head(q) \in S /\ Head(q) = q[1] /\ 1 \in DOMAIN q
         /\ Tail(q) \in Seq(S)
         /\ \A i \in DOMAIN Tail(q) : i + 1 \in DOMAIN q /\ Tail(q)[i] = q[i + 1] /\ i \in Nat /\ i # 0
  OBVIOUS

(* Both leave each place of a queue to what it becomes.                       *)
LEMMA MappedQueue ==
  ASSUME NEW q \in Seq(Waiting), NEW m, DOMAIN m = DOMAIN q,
         \A i \in DOMAIN q : m[i] \in Waiting, m = [i \in DOMAIN q |-> m[i]]
  PROVE  m \in Seq(Waiting)
<1>1. DOMAIN q = 1 .. Len(q) /\ Len(q) \in Nat
  OBVIOUS
<1>2. m = [i \in 1 .. Len(q) |-> m[i]] /\ \A i \in 1 .. Len(q) : m[i] \in Waiting
  BY <1>1
<1> QED
  BY <1>1, <1>2

LEMMA AbandonedQueue ==
  ASSUME NEW q \in Seq(Waiting), NEW t \in Thread
  PROVE  /\ Abandoned(q, t) \in Seq(Waiting)
         /\ DOMAIN Abandoned(q, t) = DOMAIN q
         /\ \A i \in DOMAIN q :
              /\ Abandoned(q, t)[i].caller = IF q[i].caller = t THEN Gone ELSE q[i].caller
              /\ Abandoned(q, t)[i].time = q[i].time
<1>1. \A i \in DOMAIN q : q[i] \in Waiting
  OBVIOUS
<1>2. \A i \in DOMAIN q :
        LET e == [q[i] EXCEPT !.caller = Forget(@, t)]
        IN  /\ e.caller = IF q[i].caller = t THEN Gone ELSE q[i].caller
            /\ e.time = q[i].time /\ e \in Waiting
  BY <1>1 DEF Forget, Waiting
<1>3. /\ DOMAIN Abandoned(q, t) = DOMAIN q
      /\ \A i \in DOMAIN q : Abandoned(q, t)[i] = [q[i] EXCEPT !.caller = Forget(@, t)]
      /\ Abandoned(q, t) = [i \in DOMAIN q |-> Abandoned(q, t)[i]]
  BY DEF Abandoned
<1>4. Abandoned(q, t) \in Seq(Waiting)
  BY <1>2, <1>3, MappedQueue
<1> QED
  BY <1>2, <1>3, <1>4

LEMMA LaterType ==
  ASSUME NEW n \in 0 .. Never
  PROVE  Later(n) \in 0 .. Never
  BY GrpcAssumption DEF Later

LEMMA AgedQueue ==
  ASSUME NEW q \in Seq(Waiting)
  PROVE  /\ Aged(q) \in Seq(Waiting)
         /\ DOMAIN Aged(q) = DOMAIN q
         /\ \A i \in DOMAIN q : /\ Aged(q)[i].caller = q[i].caller
                                /\ Aged(q)[i].time = Later(q[i].time)
<1>1. \A i \in DOMAIN q : q[i] \in Waiting
  OBVIOUS
<1>2. \A i \in DOMAIN q :
        LET e == [q[i] EXCEPT !.time = Later(@)]
        IN  e.caller = q[i].caller /\ e.time = Later(q[i].time) /\ e \in Waiting
  BY <1>1, LaterType DEF Waiting
<1>3. /\ DOMAIN Aged(q) = DOMAIN q
      /\ \A i \in DOMAIN q : Aged(q)[i] = [q[i] EXCEPT !.time = Later(@)]
      /\ Aged(q) = [i \in DOMAIN q |-> Aged(q)[i]]
  BY DEF Aged
<1>4. Aged(q) \in Seq(Waiting)
  BY <1>2, <1>3, MappedQueue
<1> QED
  BY <1>2, <1>3, <1>4

(* What is left to a thread, and what it gives its calls, is a time.         *)
LEMMA TimeoutType ==
  ASSUME TypeOK, NEW t \in Thread
  PROVE  /\ Timeout(t) \in 0 .. Never
         /\ Remaining(t) \in 0 .. Never
         /\ Timeout(t) <= Remaining(t)
<1>1. Remaining(t) \in 0 .. Never
  BY GrpcAssumption DEF Remaining, TypeOK, Thread
<1>2. MaxTimeout[t] \in 0 .. Never
  BY GrpcAssumption
<1> QED
  BY <1>1, <1>2 DEF Timeout
-----------------------------------------------------------------------------
(* The kinds of steps: an attempt ends by its deadline or with its connection. *)
LEMMA StepCases ==
  ASSUME TypeOK, [Next]_vars
  PROVE  \/ Tick \/ UNCHANGED vars
         \/ \E t \in Thread :
              \/ \E s \in Service : Start(t, s)
              \/ Skip(t) \/ Compute(t) \/ Send(t) \/ SendRaises(t) \/ BackOff(t)
              \/ TryAgain(t) \/ Finish(t)
              \/ \E c \in Code : Answered(t, c) /\ lost' \in 0 .. MaxLost
         \/ \E w \in Worker : Take(w) \/ Notice(w) \/ \E c \in Replies : Reply(w, c)
<1>1. ASSUME NEW t \in Thread, DeadlineExceeded(t) \/ ConnectionLost(t)
      PROVE  \E c \in Code : Answered(t, c) /\ lost' \in 0 .. MaxLost
  BY <1>1, GrpcAssumption DEF DeadlineExceeded, ConnectionLost, Code, TypeOK
<1> QED
  BY <1>1 DEF Next, Call, Handle

(* Every step keeps the types. *)
LEMMA NextTypeOK == TypeOK /\ BackoffInv /\ OutInv /\ [Next]_vars => TypeOK'
<1> SUFFICES ASSUME TypeOK, BackoffInv, OutInv, [Next]_vars PROVE TypeOK'
  OBVIOUS
<1> USE GrpcAssumption
<1>1. ASSUME Tick PROVE TypeOK'
  <2>1. left' \in [Thread -> 0 .. Never] /\ slip' \in [Thread -> 0 .. MaxSlip]
    <3>1. \A t \in Thread : left[t] \in 0 .. Never /\ slip[t] \in 0 .. MaxSlip
      BY DEF TypeOK
    <3>2. \A t \in Thread : point[t] = "timed" => slip[t] + 1 \in 0 .. MaxSlip
      BY <1>1, <3>1 DEF Tick
    <3>3. \A t \in Thread : Running(t) => left[t] - 1 \in 0 .. Never
      BY <3>1 DEF Running
    <3> QED
      BY <1>1, <3>1, <3>2, <3>3 DEF Tick
  <2>2. limit' \in [Worker -> 0 .. Never]
    BY <1>1, LaterType DEF Tick, TypeOK
  <2>3. queue' \in [Service -> Seq(Waiting)]
    BY <1>1, AgedQueue DEF Tick, TypeOK
  <2> QED
    BY <1>1, <2>1, <2>2, <2>3 DEF Tick, TypeOK, Point
<1>2. ASSUME NEW t \in Thread, NEW s \in Service, Start(t, s) PROVE TypeOK'
  <2>1. calls' \in [Worker -> 0 .. MaxCalls]
    <3>1. CASE calls' = calls
      BY <3>1 DEF TypeOK
    <3>2. CASE t \in Worker /\ calls[t] < MaxCalls /\ calls' = [calls EXCEPT ![t] = @ + 1]
      BY <3>2 DEF TypeOK
    <3> QED
      BY <1>2, <3>1, <3>2 DEF Start
  <2> QED
    BY <1>2, <2>1 DEF Start, TypeOK, Point
<1>3. ASSUME NEW t \in Thread, Skip(t) PROVE TypeOK'
  BY <1>3 DEF Skip, At, serverVars, TypeOK, Point, Code, Thread
<1>4. ASSUME NEW t \in Thread, Send(t) PROVE TypeOK'
  <2>1. callee[t] \in Service /\ left[t] \in 0 .. Never
    BY <1>4 DEF Send, At, TypeOK
  <2>2. [caller |-> t, time |-> left[t]] \in Waiting
    BY <2>1 DEF Waiting
  <2>3. Append(queue[callee[t]], [caller |-> t, time |-> left[t]]) \in Seq(Waiting)
    BY <2>1, <2>2, Appended DEF TypeOK
  <2>4. queue' \in [Service -> Seq(Waiting)]
    BY <1>4, <2>3 DEF Send, TypeOK
  <2> QED
    BY <1>4, <2>4 DEF Send, At, callVars, TypeOK, Point
<1>5. ASSUME NEW t \in Thread, SendRaises(t) PROVE TypeOK'
  BY <1>5 DEF SendRaises, At, serverVars, TypeOK, Point, Code, Thread
<1>6. ASSUME NEW t \in Thread, NEW c \in Code, Answered(t, c),
    lost' \in 0 .. MaxLost PROVE TypeOK'
  <2>1. queue' \in [Service -> Seq(Waiting)]
    BY <1>6, AbandonedQueue DEF Answered, TypeOK
  <2>2. serving' \in [Worker -> Thread \cup {Gone, None}]
    BY <1>6 DEF Answered, Forget, TypeOK
  <2> QED
    BY <1>6, <2>1, <2>2 DEF Answered, At, TypeOK, Point
<1>7. ASSUME NEW t \in Thread, BackOff(t) PROVE TypeOK'
  BY <1>7 DEF BackOff, At, callVars, serverVars, TypeOK, Point, Code, Thread
<1>8. ASSUME NEW t \in Thread, TryAgain(t) PROVE TypeOK'
  <2>1. retries[t] \in 0 .. 3
    BY <1>8 DEF TryAgain, At, serverVars, BackoffInv, TypeOK
  <2> QED
    BY <1>8, <2>1 DEF TryAgain, At, serverVars, TypeOK, Point, Code
<1>9. ASSUME NEW t \in Thread, Finish(t) PROVE TypeOK'
  BY <1>9 DEF Finish, At, serverVars, TypeOK, Point, Code, Thread
<1>10. ASSUME NEW w \in Worker, Take(w) PROVE TypeOK'
  <2>1. ServiceOf[w] \in Service /\ w \in Thread
    BY DEF Thread
  <2>2. queue[ServiceOf[w]] \in Seq(Waiting) /\ queue[ServiceOf[w]] # <<>>
    BY <1>10, <2>1 DEF Take, TypeOK
  <2>3. /\ Head(queue[ServiceOf[w]]) \in Waiting
        /\ Tail(queue[ServiceOf[w]]) \in Seq(Waiting)
    BY <2>2, Taken
  <2>4. /\ Head(queue[ServiceOf[w]]).caller \in Thread \cup {Gone}
        /\ Head(queue[ServiceOf[w]]).time \in 0 .. Never
    BY <2>3 DEF Waiting
  <2>5. /\ serving' \in [Worker -> Thread \cup {Gone, None}]
        /\ limit' \in [Worker -> 0 .. Never] /\ active' \in [Worker -> BOOLEAN]
    BY <1>10, <2>4 DEF Take, TypeOK
  <2>6. queue' \in [Service -> Seq(Waiting)] /\ calls' \in [Worker -> 0 .. MaxCalls]
    BY <1>10, <2>1, <2>3 DEF Take, TypeOK
  <2> QED
    BY <1>10, <2>1, <2>5, <2>6 DEF Take, At, callVars, TypeOK, Point
<1>11. ASSUME NEW w \in Worker, NEW c \in Replies, Reply(w, c) PROVE TypeOK'
  <2>1. w \in Thread /\ c \in Code
    BY DEF Thread
  <2>2. serving[w] \in Thread => callee[serving[w]] \in Service
    BY DEF OutInv, TypeOK
  <2> QED
    BY <1>11, <2>1, <2>2 DEF Reply, TypeOK, Point
<1>12. CASE UNCHANGED vars
  BY <1>12 DEF vars, callVars, serverVars, TypeOK, Point, Code, Thread
<1>13. ASSUME NEW t \in Thread, Compute(t) PROVE TypeOK'
  BY <1>13, TimeoutType DEF Compute, At, serverVars, TypeOK, Point, Code, Thread
<1>14. ASSUME NEW w \in Worker, Notice(w) PROVE TypeOK'
  BY <1>14 DEF Notice, callVars, TypeOK, Point, Code, Thread
<1> QED
  BY <1>1, <1>2, <1>3, <1>4, <1>5, <1>6, <1>7, <1>8, <1>9, <1>10, <1>11, <1>12,
     <1>13, <1>14, StepCases

(* Retries are made only within the limits, and counted. *)
LEMMA NextRetriesBounded == TypeOK /\ OutInv /\ RetriesBounded /\ BackoffInv /\ [Next]_vars => (RetriesBounded /\ BackoffInv)'
<1> SUFFICES ASSUME TypeOK, OutInv, RetriesBounded, BackoffInv,
  [Next]_vars PROVE (RetriesBounded /\ BackoffInv)'
  OBVIOUS
<1> USE GrpcAssumption
<1>1. ASSUME Tick PROVE (RetriesBounded /\ BackoffInv)'
  BY <1>1 DEF Tick, TypeOK, RetriesBounded, BackoffInv
<1>2. ASSUME NEW t \in Thread, NEW s \in Service, Start(t,
    s) PROVE (RetriesBounded /\ BackoffInv)'
  BY <1>2 DEF Start, Thread, TypeOK, RetriesBounded, BackoffInv
<1>3. ASSUME NEW t \in Thread, Skip(t) PROVE (RetriesBounded /\ BackoffInv)'
  BY <1>3 DEF Skip, At, serverVars, TypeOK, RetriesBounded, BackoffInv
<1>4. ASSUME NEW t \in Thread, Send(t) PROVE (RetriesBounded /\ BackoffInv)'
  BY <1>4 DEF Send, At, callVars, TypeOK, RetriesBounded, BackoffInv
<1>5. ASSUME NEW t \in Thread,
    SendRaises(t) PROVE (RetriesBounded /\ BackoffInv)'
  BY <1>5 DEF SendRaises, At, serverVars, TypeOK, RetriesBounded, BackoffInv
<1>6. ASSUME NEW t \in Thread, NEW c \in Code, Answered(t, c),
    lost' \in 0 .. MaxLost PROVE (RetriesBounded /\ BackoffInv)'
  BY <1>6 DEF Answered, At, TypeOK, RetriesBounded, BackoffInv
<1>7. ASSUME NEW t \in Thread, BackOff(t) PROVE (RetriesBounded /\ BackoffInv)'
  <2>1. /\ retries[t] \in 0 .. 4
        /\ retries[t] <= IF code[t] = "INTERNAL" THEN 1 ELSE 3
    BY <1>7 DEF BackOff, TriesAgain, max_retries_by_code, TypeOK
  <2> QED
    BY <1>7, <2>1 DEF BackOff, At, callVars, serverVars, TypeOK, RetriesBounded, BackoffInv
<1>8. ASSUME NEW t \in Thread,
    TryAgain(t) PROVE (RetriesBounded /\ BackoffInv)'
  <2>1. retries[t] \in 0 .. 3 /\ retries'[t] = retries[t] + 1
    BY <1>8 DEF TryAgain, At, serverVars, BackoffInv, TypeOK
  <2>2. \A u \in Thread : u # t => retries'[u] = retries[u] /\ point'[u] = point[u]
    BY <1>8 DEF TryAgain, At, serverVars, TypeOK
  <2>3. point'[t] = "attempt" /\ \A u \in Thread : u # t => code'[u] = code[u]
    BY <1>8 DEF TryAgain, At, serverVars, TypeOK
  <2> QED
    BY <2>1, <2>2, <2>3 DEF RetriesBounded, BackoffInv
<1>9. ASSUME NEW t \in Thread, Finish(t) PROVE (RetriesBounded /\ BackoffInv)'
  BY <1>9 DEF Finish, At, serverVars, TypeOK, RetriesBounded, BackoffInv
<1>10. ASSUME NEW w \in Worker, Take(w) PROVE (RetriesBounded /\ BackoffInv)'
  BY <1>10 DEF Take, At, callVars, serverVars, TypeOK, RetriesBounded, BackoffInv
<1>11. ASSUME NEW w \in Worker, NEW c \in Replies, Reply(w,
    c) PROVE (RetriesBounded /\ BackoffInv)'
  BY <1>11 DEF Reply, TypeOK, OutInv, RetriesBounded, BackoffInv, Thread
<1>12. CASE UNCHANGED vars
  BY <1>12 DEF vars, callVars, serverVars, TypeOK, RetriesBounded, BackoffInv
<1>13. ASSUME NEW t \in Thread, Compute(t) PROVE (RetriesBounded /\ BackoffInv)'
  BY <1>13 DEF Compute, At, serverVars, TypeOK, RetriesBounded, BackoffInv
<1>14. ASSUME NEW w \in Worker, Notice(w) PROVE (RetriesBounded /\ BackoffInv)'
  BY <1>14 DEF Notice, callVars, TypeOK, RetriesBounded, BackoffInv
<1> QED
  BY <1>1, <1>2, <1>3, <1>4, <1>5, <1>6, <1>7, <1>8, <1>9, <1>10, <1>11, <1>12,
     <1>13, <1>14, StepCases

(* The queues and workers after a step, where they change.                   *)
LEMMA SendQueues ==
  ASSUME TypeOK, NEW t \in Thread, Send(t), NEW s \in Service, NEW i \in DOMAIN queue'[s]
  PROVE  \/ i \in DOMAIN queue[s] /\ queue'[s][i] = queue[s][i]
         \/ /\ queue'[s][i].caller = t /\ queue'[s][i].time = left[t]
            /\ s = callee[t] /\ i = Len(queue[s]) + 1
<1> DEFINE e == [caller |-> t, time |-> left[t]]
<1>1. callee[t] \in Service /\ e \in Waiting
  BY DEF Send, At, TypeOK, Waiting
<1>2. queue' = [queue EXCEPT ![callee[t]] = Append(queue[callee[t]], e)]
  BY DEF Send
<1>3. e.caller = t /\ e.time = left[t]
  OBVIOUS
<1> HIDE DEF e
<1>4. CASE s # callee[t]
  BY <1>1, <1>2, <1>4 DEF TypeOK
<1>5. CASE s = callee[t]
  <2>1. queue'[s] = Append(queue[s], e) /\ queue[s] \in Seq(Waiting)
    BY <1>1, <1>2, <1>5 DEF TypeOK
  <2> QED
    BY <2>1, <1>1, <1>3, <1>5, Appended
<1> QED
  BY <1>4, <1>5

LEMMA AnsweredQueues ==
  ASSUME TypeOK, NEW t \in Thread, NEW c \in Code, Answered(t, c)
  PROVE  /\ \A s \in Service :
               /\ DOMAIN queue'[s] = DOMAIN queue[s]
               /\ \A i \in DOMAIN queue[s] :
                    /\ queue'[s][i].caller = IF queue[s][i].caller = t THEN Gone
                                             ELSE queue[s][i].caller
                    /\ queue'[s][i].time = queue[s][i].time
         /\ \A w \in Worker : serving'[w] = IF serving[w] = t THEN Gone ELSE serving[w]
<1>1. \A s \in Service : queue'[s] = Abandoned(queue[s], t)
  BY DEF Answered
<1>2. \A s \in Service : queue[s] \in Seq(Waiting)
  BY DEF TypeOK
<1>3. \A w \in Worker : serving'[w] = IF serving[w] = t THEN Gone ELSE serving[w]
  BY DEF Answered, Forget
<1>4. \A s \in Service :
         /\ DOMAIN queue'[s] = DOMAIN queue[s]
         /\ \A i \in DOMAIN queue[s] :
              /\ queue'[s][i].caller = IF queue[s][i].caller = t THEN Gone
                                       ELSE queue[s][i].caller
              /\ queue'[s][i].time = queue[s][i].time
  BY <1>1, <1>2, AbandonedQueue
<1> QED
  BY <1>3, <1>4

LEMMA TakeQueues ==
  ASSUME TypeOK, NEW w \in Worker, Take(w)
  PROVE  /\ serving' = [serving EXCEPT ![w] = queue[ServiceOf[w]][1].caller]
         /\ limit' = [limit EXCEPT ![w] = queue[ServiceOf[w]][1].time]
         /\ 1 \in DOMAIN queue[ServiceOf[w]] /\ ServiceOf[w] \in Service
         /\ \A s \in Service : \A i \in DOMAIN queue'[s] :
              IF s = ServiceOf[w]
              THEN i + 1 \in DOMAIN queue[s] /\ queue'[s][i] = queue[s][i + 1] /\ i \in Nat \ {0}
              ELSE i \in DOMAIN queue[s] /\ queue'[s][i] = queue[s][i]
<1>1. ServiceOf[w] \in Service
  BY GrpcAssumption
<1> DEFINE q == queue[ServiceOf[w]]
<1>2. q \in Seq(Waiting) /\ q # <<>>
  BY <1>1 DEF Take, TypeOK
<1>3. /\ queue' = [queue EXCEPT ![ServiceOf[w]] = Tail(q)]
      /\ serving' = [serving EXCEPT ![w] = Head(q).caller]
      /\ limit' = [limit EXCEPT ![w] = Head(q).time]
  BY DEF Take
<1>4. /\ Head(q) = q[1] /\ 1 \in DOMAIN q
      /\ \A i \in DOMAIN Tail(q) : i + 1 \in DOMAIN q /\ Tail(q)[i] = q[i + 1] /\ i \in Nat \ {0}
  BY <1>2, Taken
<1>5. \A s \in Service : queue'[s] = IF s = ServiceOf[w] THEN Tail(q) ELSE queue[s]
  BY <1>1, <1>3 DEF TypeOK
<1> HIDE DEF q
<1>6. \A s \in Service : \A i \in DOMAIN queue'[s] :
         IF s = ServiceOf[w]
         THEN i + 1 \in DOMAIN q /\ queue'[s][i] = q[i + 1] /\ i \in Nat \ {0}
         ELSE i \in DOMAIN queue[s] /\ queue'[s][i] = queue[s][i]
  BY <1>4, <1>5
<1> QED
  BY <1>1, <1>3, <1>4, <1>6 DEF q

LEMMA TickQueues ==
  ASSUME TypeOK, Tick, NEW s \in Service
  PROVE  /\ DOMAIN queue'[s] = DOMAIN queue[s]
         /\ \A i \in DOMAIN queue[s] : /\ queue'[s][i].caller = queue[s][i].caller
                                       /\ queue'[s][i].time = Later(queue[s][i].time)
<1>1. queue'[s] = Aged(queue[s]) /\ queue[s] \in Seq(Waiting)
  BY DEF Tick, TypeOK
<1> QED
  BY <1>1, AgedQueue

(* Who is in a queue or with a worker waits for the answer. *)
LEMMA NextOutInv == TypeOK /\ OutInv /\ OnceInv /\ [Next]_vars => OutInv'
<1> SUFFICES ASSUME TypeOK, OutInv, OnceInv, [Next]_vars PROVE OutInv'
  OBVIOUS
<1> USE GrpcAssumption
<1>1. ASSUME Tick PROVE OutInv'
  BY <1>1, TickQueues DEF Tick, OutInv
<1>2. ASSUME NEW t \in Thread, NEW s \in Service, Start(t, s) PROVE OutInv'
  BY <1>2 DEF Start, TypeOK, OutInv
<1>3. ASSUME NEW t \in Thread, Skip(t) PROVE OutInv'
  BY <1>3 DEF Skip, At, serverVars, TypeOK, OutInv
<1>4. ASSUME NEW t \in Thread, Send(t) PROVE OutInv'
  <2>1. point' = [point EXCEPT ![t] = "sent"] /\ serving' = serving
    BY <1>4 DEF Send, At
  <2>2. \A s \in Service : \A i \in DOMAIN queue'[s] :
           queue'[s][i].caller \in Thread => point'[queue'[s][i].caller] = "sent"
    BY <1>4, <2>1, SendQueues DEF TypeOK, OutInv
  <2> QED
    BY <2>1, <2>2 DEF OutInv, TypeOK
<1>5. ASSUME NEW t \in Thread, SendRaises(t) PROVE OutInv'
  BY <1>5 DEF SendRaises, At, serverVars, TypeOK, OutInv
<1>6. ASSUME NEW t \in Thread, NEW c \in Code, Answered(t, c),
    lost' \in 0 .. MaxLost PROVE OutInv'
  <2>1. \A u \in Thread : u # t => point'[u] = point[u]
    BY <1>6 DEF Answered, At, TypeOK
  <2>2. \A s \in Service : \A i \in DOMAIN queue'[s] : queue'[s][i].caller \in Thread =>
           i \in DOMAIN queue[s] /\ queue'[s][i].caller = queue[s][i].caller /\ queue[s][i].caller # t
    BY <1>6, AnsweredQueues
  <2>3. \A w \in Worker : serving'[w] \in Thread =>
           serving'[w] = serving[w] /\ serving[w] # t
    BY <1>6, AnsweredQueues
  <2> QED
    BY <2>1, <2>2, <2>3 DEF OutInv
<1>7. ASSUME NEW t \in Thread, BackOff(t) PROVE OutInv'
  BY <1>7 DEF BackOff, At, callVars, serverVars, TypeOK, OutInv
<1>8. ASSUME NEW t \in Thread, TryAgain(t) PROVE OutInv'
  BY <1>8 DEF TryAgain, At, serverVars, TypeOK, OutInv
<1>9. ASSUME NEW t \in Thread, Finish(t) PROVE OutInv'
  BY <1>9 DEF Finish, At, serverVars, TypeOK, OutInv
<1>10. ASSUME NEW w \in Worker, Take(w) PROVE OutInv'
  <2>1. \A u \in Thread : point[u] = "sent" => point'[u] = "sent"
    BY <1>10 DEF Take, At, TypeOK
  <2>2. \A s \in Service : \A i \in DOMAIN queue'[s] :
           queue'[s][i].caller \in Thread => point[queue'[s][i].caller] = "sent"
    BY <1>10, TakeQueues DEF OutInv
  <2>3. \A v \in Worker : serving'[v] \in Thread => point[serving'[v]] = "sent"
    <3>1. /\ \A v \in Worker : v # w => serving'[v] = serving[v]
          /\ serving'[w] = queue[ServiceOf[w]][1].caller
          /\ 1 \in DOMAIN queue[ServiceOf[w]] /\ ServiceOf[w] \in Service
      BY <1>10, TakeQueues DEF TypeOK
    <3> QED
      BY <3>1 DEF OutInv
  <2> QED
    BY <2>1, <2>2, <2>3 DEF OutInv
<1>11. ASSUME NEW w \in Worker, NEW c \in Replies, Reply(w, c) PROVE OutInv'
  <2>1. /\ \A u \in Thread : u # w /\ u # serving[w] => point'[u] = point[u]
        /\ point[w] = "work" /\ queue' = queue
        /\ serving' = [serving EXCEPT ![w] = None]
    BY <1>11 DEF Reply, TypeOK
  <2>2. \A v \in Worker : serving'[v] \in Thread =>
           serving'[v] = serving[v] /\ serving[v] # serving[w] /\ serving[v] # w
    BY <2>1 DEF OnceInv, OutInv, TypeOK
  <2>3. \A s \in Service : \A i \in DOMAIN queue[s] : queue[s][i].caller \in Thread =>
           queue[s][i].caller # serving[w] /\ queue[s][i].caller # w
    BY <2>1 DEF OnceInv, OutInv
  <2> QED
    BY <2>1, <2>2, <2>3 DEF OutInv
<1>12. CASE UNCHANGED vars
  BY <1>12 DEF vars, callVars, serverVars, TypeOK, OutInv
<1>13. ASSUME NEW t \in Thread, Compute(t) PROVE OutInv'
  BY <1>13 DEF Compute, At, serverVars, TypeOK, OutInv
<1>14. ASSUME NEW w \in Worker, Notice(w) PROVE OutInv'
  BY <1>14 DEF Notice, callVars, TypeOK, OutInv
<1> QED
  BY <1>1, <1>2, <1>3, <1>4, <1>5, <1>6, <1>7, <1>8, <1>9, <1>10, <1>11, <1>12,
     <1>13, <1>14, StepCases

(* Nobody is queued or worked for twice. *)
LEMMA NextOnceInv == TypeOK /\ OutInv /\ OnceInv /\ [Next]_vars => OnceInv'
<1> SUFFICES ASSUME TypeOK, OutInv, OnceInv, [Next]_vars PROVE OnceInv'
  OBVIOUS
<1> USE GrpcAssumption
<1>1. ASSUME Tick PROVE OnceInv'
  <2>1. serving' = serving
    BY <1>1 DEF Tick
  <2> QED
    BY <1>1, <2>1, TickQueues DEF OnceInv
<1>2. ASSUME NEW t \in Thread, NEW s \in Service, Start(t, s) PROVE OnceInv'
  <2>1. serving' = serving /\ queue' = queue
    BY <1>2 DEF Start
  <2> QED
    BY <2>1 DEF OnceInv
<1>3. ASSUME NEW t \in Thread, Skip(t) PROVE OnceInv'
  BY <1>3 DEF Skip, At, serverVars, TypeOK, OnceInv
<1>4. ASSUME NEW t \in Thread, Send(t) PROVE OnceInv'
  <2>1. point[t] = "timed" /\ serving' = serving
    BY <1>4 DEF Send, At
  <2>2. /\ \A s \in Service : \A i \in DOMAIN queue[s] : queue[s][i].caller # t
        /\ \A w \in Worker : serving[w] # t
    BY <2>1 DEF OutInv
  <2>3. \A w \in Worker, s \in Service : \A i \in DOMAIN queue'[s] :
           queue'[s][i].caller = serving[w] => serving[w] \notin Thread
    BY <1>4, <2>2, SendQueues DEF OnceInv
  <2>4. \A s, z \in Service : \A i \in DOMAIN queue'[s], j \in DOMAIN queue'[z] :
           queue'[s][i].caller = queue'[z][j].caller => queue'[s][i].caller \notin Thread \/ (s = z /\ i = j)
    <3> SUFFICES ASSUME NEW s \in Service, NEW z \in Service,
                        NEW i \in DOMAIN queue'[s], NEW j \in DOMAIN queue'[z],
                        queue'[s][i].caller = queue'[z][j].caller, queue'[s][i].caller \in Thread
                 PROVE  s = z /\ i = j
      OBVIOUS
    <3>1. CASE queue'[s][i].caller = t
      <4>1. s = callee[t] /\ i = Len(queue[s]) + 1
        BY <1>4, <2>2, <3>1, SendQueues
      <4>2. queue'[z][j].caller = t
        BY <3>1
      <4>3. \/ j \in DOMAIN queue[z] /\ queue'[z][j].caller = queue[z][j].caller
            \/ z = callee[t] /\ j = Len(queue[z]) + 1
        BY <1>4, SendQueues
      <4>4. z = callee[t] /\ j = Len(queue[z]) + 1
        BY <2>2, <4>2, <4>3
      <4> QED
        BY <4>1, <4>4
    <3>2. CASE queue'[s][i].caller # t
      BY <1>4, <2>2, <3>2, SendQueues DEF OnceInv
    <3> QED
      BY <3>1, <3>2
  <2> QED
    BY <2>1, <2>3, <2>4 DEF OnceInv
<1>5. ASSUME NEW t \in Thread, SendRaises(t) PROVE OnceInv'
  BY <1>5 DEF SendRaises, At, serverVars, TypeOK, OnceInv
<1>6. ASSUME NEW t \in Thread, NEW c \in Code, Answered(t, c),
    lost' \in 0 .. MaxLost PROVE OnceInv'
  <2>1. Gone \notin Thread
    OBVIOUS
  <2> QED
    BY <1>6, <2>1, AnsweredQueues DEF OnceInv
<1>7. ASSUME NEW t \in Thread, BackOff(t) PROVE OnceInv'
  BY <1>7 DEF BackOff, At, callVars, serverVars, TypeOK, OnceInv
<1>8. ASSUME NEW t \in Thread, TryAgain(t) PROVE OnceInv'
  BY <1>8 DEF TryAgain, At, serverVars, TypeOK, OnceInv
<1>9. ASSUME NEW t \in Thread, Finish(t) PROVE OnceInv'
  BY <1>9 DEF Finish, At, serverVars, TypeOK, OnceInv
<1>10. ASSUME NEW w \in Worker, Take(w) PROVE OnceInv'
  <2> DEFINE S == ServiceOf[w]
             q == queue[S]
  <2>1. /\ \A v \in Worker : v # w => serving'[v] = serving[v]
        /\ serving'[w] = q[1].caller /\ 1 \in DOMAIN q /\ S \in Service
    BY <1>10, TakeQueues DEF TypeOK
  <2>2. \A s \in Service : \A i \in DOMAIN queue'[s] :
           IF s = S THEN i + 1 \in DOMAIN q /\ queue'[s][i].caller = q[i + 1].caller /\ i \in Nat \ {0}
                    ELSE i \in DOMAIN queue[s] /\ queue'[s][i].caller = queue[s][i].caller
    BY <1>10, TakeQueues
  <2> HIDE DEF S
  <2>3. \A u, v \in Worker : serving'[u] = serving'[v] => serving'[u] \notin Thread \/ u = v
    BY <2>1 DEF OnceInv
  <2>4. ASSUME NEW v \in Worker, NEW s \in Service, NEW i \in DOMAIN queue'[s],
               queue'[s][i].caller = serving'[v], serving'[v] \in Thread
        PROVE  FALSE
    <3>1. CASE v # w
      BY <2>1, <2>2, <2>4, <3>1 DEF OnceInv
    <3>2. CASE v = w /\ s # S
      BY <2>1, <2>2, <2>4, <3>2 DEF OnceInv
    <3>3. CASE v = w /\ s = S
      <4>1. i + 1 \in DOMAIN q /\ q[i + 1].caller = q[1].caller /\ i + 1 # 1
        BY <2>1, <2>2, <2>4, <3>3
      <4> QED
        BY <4>1, <2>1, <2>4, <3>3 DEF OnceInv
    <3> QED
      BY <3>1, <3>2, <3>3
  <2>5. ASSUME NEW s \in Service, NEW z \in Service,
               NEW i \in DOMAIN queue'[s], NEW j \in DOMAIN queue'[z],
               queue'[s][i].caller = queue'[z][j].caller, queue'[s][i].caller \in Thread
        PROVE  s = z /\ i = j
    <3>1. CASE s # S /\ z # S
      BY <2>2, <2>5, <3>1 DEF OnceInv
    <3>2. CASE s = S /\ z # S
      BY <2>1, <2>2, <2>5, <3>2 DEF OnceInv
    <3>3. CASE s # S /\ z = S
      <4>1. i \in DOMAIN queue[s] /\ queue'[s][i].caller = queue[s][i].caller
        BY <2>2, <3>3
      <4>2. j + 1 \in DOMAIN queue[S] /\ queue'[z][j].caller = queue[S][j + 1].caller
        BY <2>2, <3>3
      <4>3. queue[s][i].caller = queue[S][j + 1].caller /\ queue[s][i].caller \in Thread
        BY <4>1, <4>2, <2>5
      <4> QED
        BY <2>1, <4>1, <4>2, <4>3, <3>3 DEF OnceInv
    <3>4. CASE s = S /\ z = S
      <4>1. /\ i + 1 \in DOMAIN q /\ j + 1 \in DOMAIN q /\ q[i + 1].caller = q[j + 1].caller
            /\ q[i + 1].caller \in Thread /\ i \in Nat /\ j \in Nat
        BY <2>2, <2>5, <3>4
      <4>2. i + 1 = j + 1
        BY <4>1, <2>1 DEF OnceInv
      <4> QED
        BY <4>1, <4>2, <3>4
    <3> QED
      BY <3>1, <3>2, <3>3, <3>4
  <2> QED
    BY <2>3, <2>4, <2>5 DEF OnceInv
<1>11. ASSUME NEW w \in Worker, NEW c \in Replies, Reply(w, c) PROVE OnceInv'
  <2>1. None \notin Thread
    OBVIOUS
  <2>2. serving' = [serving EXCEPT ![w] = None] /\ queue' = queue
    BY <1>11 DEF Reply
  <2> QED
    <3>1. \A v \in Worker : serving'[v] = IF v = w THEN None ELSE serving[v]
      BY <2>2 DEF TypeOK
    <3> QED
      BY <2>1, <2>2, <3>1 DEF OnceInv
<1>12. CASE UNCHANGED vars
  BY <1>12 DEF vars, callVars, serverVars, TypeOK, OnceInv
<1>13. ASSUME NEW t \in Thread, Compute(t) PROVE OnceInv'
  BY <1>13 DEF Compute, At, serverVars, TypeOK, OnceInv
<1>14. ASSUME NEW w \in Worker, Notice(w) PROVE OnceInv'
  <2>1. serving' = serving /\ queue' = queue
    BY <1>14 DEF Notice
  <2> QED
    BY <2>1 DEF OnceInv
<1> QED
  BY <1>1, <1>2, <1>3, <1>4, <1>5, <1>6, <1>7, <1>8, <1>9, <1>10, <1>11, <1>12,
     <1>13, <1>14, StepCases

(* A call in a queue has the time that its caller has.                        *)
LEMMA NextTimesInv ==
  TypeOK /\ OutInv /\ OnceInv /\ TimesInv /\ [Next]_vars => TimesInv'
<1> SUFFICES ASSUME TypeOK, OutInv, OnceInv, TimesInv, [Next]_vars PROVE TimesInv'
  OBVIOUS
<1> USE GrpcAssumption
<1>1. ASSUME Tick PROVE TimesInv'
  <2> SUFFICES ASSUME NEW s \in Service, NEW i \in DOMAIN queue'[s],
                      queue'[s][i].caller \in Thread
               PROVE  queue'[s][i].time = left'[queue'[s][i].caller]
    BY DEF TimesInv
  <2> DEFINE u == queue[s][i].caller
  <2>1. /\ i \in DOMAIN queue[s] /\ queue'[s][i].caller = u
        /\ queue'[s][i].time = Later(queue[s][i].time)
    BY <1>1, TickQueues
  <2>2. u \in Thread /\ point[u] = "sent" /\ queue[s][i].time = left[u]
    BY <2>1 DEF OutInv, TimesInv
  <2> HIDE DEF u
  <2>3. left'[u] = Later(left[u])
    BY <1>1, <2>2 DEF Tick, Running, Later
  <2> QED
    BY <2>1, <2>2, <2>3
<1>2. ASSUME UNCHANGED <<queue, left>> PROVE TimesInv'
  BY <1>2 DEF TimesInv
<1>3. ASSUME NEW t \in Thread,
             \/ Skip(t) \/ BackOff(t) \/ TryAgain(t) \/ Finish(t)
             \/ \E s \in Service : Start(t, s)
      PROVE  TimesInv'
  BY <1>2, <1>3 DEF Skip, BackOff, TryAgain, Finish, Start, callVars, serverVars
<1>4. ASSUME NEW t \in Thread, Compute(t) \/ SendRaises(t) PROVE TimesInv'
  <2>1. /\ queue' = queue /\ point[t] # "sent"
        /\ \A u \in Thread : u # t => left'[u] = left[u]
    BY <1>4 DEF Compute, SendRaises, At, serverVars, TypeOK
  <2>2. \A s \in Service : \A i \in DOMAIN queue[s] :
           queue[s][i].caller \in Thread => queue[s][i].caller # t
    BY <2>1 DEF OutInv
  <2> QED
    BY <2>1, <2>2 DEF TimesInv
<1>5. ASSUME NEW t \in Thread, Send(t) PROVE TimesInv'
  <2>1. left' = left
    BY <1>5 DEF Send, callVars
  <2> QED
    BY <1>5, <2>1, SendQueues DEF TimesInv
<1>6. ASSUME NEW t \in Thread, NEW c \in Code, Answered(t, c) PROVE TimesInv'
  <2>1. \A u \in Thread : u # t => left'[u] = left[u]
    BY <1>6 DEF Answered, TypeOK
  <2>2. \A s \in Service : \A i \in DOMAIN queue'[s] : queue'[s][i].caller \in Thread =>
           /\ i \in DOMAIN queue[s] /\ queue'[s][i].caller = queue[s][i].caller
           /\ queue[s][i].caller # t /\ queue'[s][i].time = queue[s][i].time
    BY <1>6, AnsweredQueues
  <2> QED
    BY <2>1, <2>2 DEF TimesInv
<1>7. ASSUME NEW w \in Worker, Take(w) PROVE TimesInv'
  <2>1. left' = left
    BY <1>7 DEF Take, callVars
  <2> QED
    BY <1>7, <2>1, TakeQueues DEF TimesInv
<1>8. ASSUME NEW w \in Worker, NEW c \in Replies, Reply(w, c) PROVE TimesInv'
  <2>1. queue' = queue /\ \A u \in Thread : u # serving[w] => left'[u] = left[u]
    BY <1>8 DEF Reply
  <2>2. \A s \in Service : \A i \in DOMAIN queue[s] :
           queue[s][i].caller \in Thread => queue[s][i].caller # serving[w]
    BY DEF OnceInv
  <2> QED
    BY <2>1, <2>2 DEF TimesInv
<1>9. ASSUME NEW w \in Worker, Notice(w) PROVE TimesInv'
  BY <1>2, <1>9 DEF Notice, callVars
<1>10. CASE UNCHANGED vars
  BY <1>2, <1>10 DEF vars, callVars, serverVars
<1> QED
  BY <1>1, <1>3, <1>4, <1>5, <1>6, <1>7, <1>8, <1>9, <1>10, StepCases

(* No call outlives the time of the call it is made for, but for its slip.    *)
Inherited(w) ==
  /\ point[w] \in {"timed", "sent"} => left[w] <= limit[w] + slip[w]
  /\ serving[w] \in Thread => limit[w] = left[serving[w]]
  /\ point[w] \in {"timed", "sent"} /\ left[w] = Never => limit[w] = Never

LEMMA NextInherited ==
  /\ TypeOK /\ OutInv /\ OnceInv /\ TimesInv /\ UnlimitedInv /\ DeadlineInherited
  /\ [Next]_vars
  => (UnlimitedInv /\ DeadlineInherited)'
<1> SUFFICES ASSUME TypeOK, OutInv, OnceInv, TimesInv, UnlimitedInv, DeadlineInherited,
                    [Next]_vars, NEW w \in Worker
             PROVE  Inherited(w)'
  BY DEF UnlimitedInv, DeadlineInherited, Inherited
<1> USE GrpcAssumption
<1>1. Inherited(w)
  BY DEF UnlimitedInv, DeadlineInherited, Inherited
<1>2. /\ w \in Thread /\ w \notin Client
      /\ left[w] \in 0 .. Never /\ slip[w] \in 0 .. MaxSlip /\ limit[w] \in 0 .. Never
      /\ Never \in Nat /\ MaxSlip \in Nat
  BY DEF TypeOK, Thread
<1>3. ASSUME \/ point'[w] = point[w] /\ left'[w] = left[w] /\ slip'[w] = slip[w]
             \/ point'[w] \notin {"timed", "sent"},
             limit'[w] = limit[w],
             serving'[w] \in Thread => /\ serving'[w] = serving[w]
                                       /\ left'[serving[w]] = left[serving[w]]
      PROVE  Inherited(w)'
  BY <1>1, <1>3 DEF Inherited
<1>4. CASE Tick
  <2>1. /\ point' = point /\ serving' = serving /\ limit'[w] = Later(limit[w])
        /\ left'[w] = IF Running(w) THEN left[w] - 1 ELSE left[w]
        /\ slip'[w] = IF point[w] = "timed" THEN slip[w] + 1 ELSE slip[w]
    BY <1>2, <1>4 DEF Tick
  <2>2. serving[w] \in Thread => left'[serving[w]] = Later(left[serving[w]])
    BY <1>4 DEF Tick, Running, Later, OutInv
  <2>3. serving'[w] \in Thread => limit'[w] = left'[serving'[w]]
    BY <1>1, <2>1, <2>2 DEF Inherited
  <2>4. point'[w] \in {"timed", "sent"} => /\ left'[w] <= limit'[w] + slip'[w]
                                          /\ (left'[w] = Never => limit'[w] = Never)
    <3>1. CASE point[w] = "timed"
      BY <1>1, <1>2, <2>1, <3>1 DEF Inherited, Running, Later
    <3>2. CASE point[w] = "sent"
      BY <1>1, <1>2, <2>1, <3>2 DEF Inherited, Running, Later
    <3> QED
      BY <2>1, <3>1, <3>2
  <2> QED
    BY <2>3, <2>4 DEF Inherited
<1>5. ASSUME NEW t \in Thread,
             \/ Skip(t) \/ BackOff(t) \/ TryAgain(t) \/ Finish(t)
             \/ \E s \in Service : Start(t, s)
      PROVE  Inherited(w)'
  <2>1. left' = left /\ slip' = slip /\ limit' = limit /\ serving' = serving
    BY <1>5 DEF Skip, BackOff, TryAgain, Finish, Start, callVars, serverVars
  <2>2. point'[w] = point[w] \/ point'[w] \notin {"timed", "sent"}
    BY <1>2, <1>5 DEF Skip, BackOff, TryAgain, Finish, Start, At, TypeOK
  <2> QED
    BY <1>3, <2>1, <2>2
<1>6. ASSUME NEW t \in Thread, Compute(t) PROVE Inherited(w)'
  <2>1. /\ point[t] = "attempt" /\ limit' = limit /\ slip' = slip /\ serving' = serving
        /\ left'[t] = Timeout(t)
        /\ \A u \in Thread : u # t => left'[u] = left[u] /\ point'[u] = point[u]
    BY <1>6 DEF Compute, At, serverVars, TypeOK
  <2>2. serving[w] \in Thread => serving[w] # t
    BY <2>1 DEF OutInv
  <2>3. CASE w = t
    <3>1. Timeout(w) <= Remaining(w) /\ Remaining(w) <= limit[w] /\ Timeout(w) \in 0 .. Never
          /\ Remaining(w) \in 0 .. Never
      BY <1>2, TimeoutType DEF Remaining
    <3>2. left'[w] <= limit'[w] + slip'[w] /\ (left'[w] = Never => limit'[w] = Never)
      BY <1>2, <2>1, <2>3, <3>1
    <3>3. serving'[w] \in Thread => limit'[w] = left'[serving'[w]]
      BY <1>1, <2>1, <2>2 DEF Inherited
    <3> QED
      BY <3>2, <3>3 DEF Inherited
  <2>4. CASE w # t
    BY <1>2, <1>3, <2>1, <2>2, <2>4
  <2> QED
    BY <2>3, <2>4
<1>7. ASSUME NEW t \in Thread, Send(t) PROVE Inherited(w)'
  <2>1. left' = left /\ slip' = slip /\ limit' = limit /\ serving' = serving
    BY <1>7 DEF Send, callVars
  <2>2. point'[w] = point[w] \/ (point[w] = "timed" /\ point'[w] = "sent")
    BY <1>2, <1>7 DEF Send, At, TypeOK
  <2> QED
    BY <1>1, <2>1, <2>2 DEF Inherited
<1>8. ASSUME NEW t \in Thread, SendRaises(t) PROVE Inherited(w)'
  <2>1. /\ point[t] = "timed" /\ point'[t] = "judge" /\ limit' = limit /\ serving' = serving
        /\ \A u \in Thread : u # t => /\ left'[u] = left[u] /\ point'[u] = point[u]
                                      /\ slip'[u] = slip[u]
    BY <1>8 DEF SendRaises, At, serverVars, TypeOK
  <2>2. serving[w] \in Thread => serving[w] # t
    BY <2>1 DEF OutInv
  <2> QED
    BY <1>2, <1>3, <2>1, <2>2
<1>9. ASSUME NEW t \in Thread, NEW c \in Code, Answered(t, c) PROVE Inherited(w)'
  <2>1. /\ point'[t] = "judge" /\ limit' = limit
        /\ \A u \in Thread : u # t => /\ left'[u] = left[u] /\ point'[u] = point[u]
                                      /\ slip'[u] = slip[u]
    BY <1>9 DEF Answered, At, TypeOK
  <2>2. serving'[w] \in Thread => serving'[w] = serving[w] /\ serving[w] # t
    BY <1>9, AnsweredQueues
  <2> QED
    BY <1>2, <1>3, <2>1, <2>2
<1>10. ASSUME NEW v \in Worker, Take(v) PROVE Inherited(w)'
  <2>1. /\ left' = left /\ slip' = slip /\ point'[v] = "work"
        /\ \A u \in Thread : u # v => point'[u] = point[u]
    BY <1>10 DEF Take, At, callVars, TypeOK, Thread
  <2>2. CASE w = v
    <3>1. /\ 1 \in DOMAIN queue[ServiceOf[w]] /\ ServiceOf[w] \in Service
          /\ serving'[w] = queue[ServiceOf[w]][1].caller
          /\ limit'[w] = queue[ServiceOf[w]][1].time
      BY <1>10, <2>2, TakeQueues DEF TypeOK
    <3>2. serving'[w] \in Thread => limit'[w] = left'[serving'[w]]
      BY <2>1, <3>1 DEF TimesInv
    <3> QED
      BY <2>1, <2>2, <3>2 DEF Inherited
  <2>3. CASE w # v
    <3>1. serving'[w] = serving[w] /\ limit'[w] = limit[w]
      BY <1>10, <2>3 DEF Take, TypeOK
    <3> QED
      BY <1>2, <1>3, <2>1, <2>3, <3>1
  <2> QED
    BY <2>2, <2>3
<1>11. ASSUME NEW v \in Worker, NEW c \in Replies, Reply(v, c) PROVE Inherited(w)'
  <2>1. /\ point[v] = "work" /\ v \in Thread /\ point'[v] = "idle"
        /\ \A u \in Thread \ {v} : point'[u] = IF u = serving[v] THEN "judge" ELSE point[u]
        /\ \A u \in Thread : u # serving[v] => left'[u] = left[u] /\ slip'[u] = slip[u]
    BY <1>11 DEF Reply, Thread
  <2>2. CASE w = v
    <3>1. serving'[w] = None
      BY <1>11, <2>2 DEF Reply, TypeOK
    <3> QED
      BY <2>1, <2>2, <3>1 DEF Inherited
  <2>3. CASE w # v
    <3>1. serving'[w] = serving[w] /\ limit'[w] = limit[w]
      BY <1>11, <2>3 DEF Reply, TypeOK
    <3>2. serving[w] \in Thread => serving[w] # serving[v]
      BY <2>3 DEF OnceInv
    <3> QED
      BY <1>2, <1>3, <2>1, <2>3, <3>1, <3>2
  <2> QED
    BY <2>2, <2>3
<1>12. ASSUME NEW v \in Worker, Notice(v) PROVE Inherited(w)'
  BY <1>3, <1>12 DEF Notice, callVars
<1>13. CASE UNCHANGED vars
  BY <1>3, <1>13 DEF vars, callVars, serverVars
<1> QED
  BY <1>4, <1>5, <1>6, <1>7, <1>8, <1>9, <1>10, <1>11, <1>12, <1>13, StepCases

LEMMA GrpcInvHolds == Spec => []GrpcInv
<1>1. GrpcInv /\ [Next]_vars => GrpcInv'
  BY NextTypeOK, NextRetriesBounded, NextOutInv, NextOnceInv, NextTimesInv,
     NextInherited
     DEF GrpcInv
<1> QED
  BY InitGrpcInv, <1>1, PTL DEF Spec
-----------------------------------------------------------------------------
(* The calls, queues and workers keep their types (retry.py, timeout.py and  *)
(* grpc_server/).                                                            *)
THEOREM TypeCorrect == Spec => []TypeOK
<1>1. GrpcInv => TypeOK
  BY DEF GrpcInv
<1> QED
  BY GrpcInvHolds, <1>1, PTL

(* However deep the chain of calls, whatever retries, lost connections and   *)
(* abandoned callers there are, and however late a server learns of them,    *)
(* the attempt that a handler has out outlives the call it serves by no more *)
(* than the time between its computing and its sending (timeout.py 18-27).   *)
THEOREM DeadlinesInherited == Spec => []DeadlineInherited
<1>1. GrpcInv => DeadlineInherited
  BY DEF GrpcInv
<1> QED
  BY GrpcInvHolds, <1>1, PTL

(* No call is retried more than four times (retry.py 77-86).                 *)
THEOREM RetriesLimited == Spec => []RetriesBounded
<1>1. GrpcInv => RetriesBounded
  BY DEF GrpcInv
<1> QED
  BY GrpcInvHolds, <1>1, PTL
-----------------------------------------------------------------------------
(***************************************************************************)
(* Calls end (CallsEnd) because each has a bounded number of steps before  *)
(* it.  The measure is lexicographic: the retries that may follow, then    *)
(* how far the attempt has got; while an attempt is out, its time.         *)
(***************************************************************************)
InCall(t) == point[t] \in {"attempt", "timed", "sent", "judge", "backoff"}

Rank(p) == CASE p = "attempt" -> 4 [] p = "timed" -> 3 [] p = "sent" -> 2
             [] p = "judge" -> 1 [] OTHER -> 0

StepsLeft(t) == 5 * (4 - retries[t]) + Rank(point[t])

(* The call of thread t is one step further, or has at most less time.       *)
Advance(t) == \/ StepsLeft(t)' < StepsLeft(t)
              \/ UNCHANGED <<point[t], retries[t]>> /\ left'[t] <= left[t]

LEMMA StepsLeftType ==
  ASSUME TypeOK, NEW t \in Thread
  PROVE  StepsLeft(t) \in 0 .. 24
<1>1. retries[t] \in 0 .. 4 /\ Rank(point[t]) \in 0 .. 4
  BY DEF TypeOK, Rank
<1> QED
  BY <1>1 DEF StepsLeft

(* A control point further on with the same retries is a step less.          *)
LEMMA LowerRank ==
  ASSUME TypeOK, NEW t \in Thread, retries'[t] = retries[t],
         \/ point[t] = "attempt" /\ point'[t] \in {"timed", "judge"}
         \/ point[t] = "timed" /\ point'[t] \in {"sent", "judge"}
         \/ point[t] = "sent" /\ point'[t] = "judge"
         \/ point[t] = "judge" /\ point'[t] = "backoff"
  PROVE  StepsLeft(t)' < StepsLeft(t)
<1>1. retries[t] \in 0 .. 4
  BY DEF TypeOK
<1>2. Rank(point[t]) \in 0 .. 4 /\ Rank(point'[t]) \in 0 .. 4 /\ Rank(point'[t]) < Rank(point[t])
  BY DEF Rank
<1> QED
  BY <1>1, <1>2 DEF StepsLeft

LEMMA CallStep ==
  ASSUME GrpcInv, [Next]_vars, NEW t \in Thread, InCall(t), InCall(t)'
  PROVE  callee'[t] = callee[t] /\ Advance(t)
<1> USE GrpcAssumption
<1>0. TypeOK /\ OutInv /\ BackoffInv
  BY DEF GrpcInv
<1>1. ASSUME UNCHANGED <<point[t], retries[t], callee[t], left[t]>>
      PROVE  callee'[t] = callee[t] /\ Advance(t)
  BY <1>0, <1>1 DEF Advance, TypeOK
<1>2. CASE Tick
  BY <1>0, <1>2 DEF Tick, Advance, TypeOK
<1>3. CASE UNCHANGED vars
  BY <1>1, <1>3 DEF vars, callVars, serverVars
<1>4. ASSUME NEW u \in Thread, NEW s \in Service, Start(u, s)
      PROVE  callee'[t] = callee[t] /\ Advance(t)
  <2>1. t # u
    BY <1>0, <1>4 DEF Start, InCall
  <2> QED
    BY <1>0, <1>1, <1>4, <2>1 DEF Start, TypeOK
<1>5. ASSUME NEW u \in Thread,
             \/ Skip(u) \/ Compute(u) \/ Send(u) \/ SendRaises(u) \/ BackOff(u)
             \/ \E c \in Code : Answered(u, c)
      PROVE  callee'[t] = callee[t] /\ Advance(t)
  <2>1. CASE t = u
    <3>1. retries'[t] = retries[t] /\ callee'[t] = callee[t]
      BY <1>5 DEF Skip, Compute, Send, SendRaises, BackOff, Answered, callVars
    <3>2. \/ point[t] = "attempt" /\ point'[t] \in {"timed", "judge"}
          \/ point[t] = "timed" /\ point'[t] \in {"sent", "judge"}
          \/ point[t] = "sent" /\ point'[t] = "judge"
          \/ point[t] = "judge" /\ point'[t] = "backoff"
      BY <1>0, <1>5, <2>1 DEF Skip, Compute, Send, SendRaises, BackOff, Answered, At, TypeOK
    <3> QED
      BY <1>0, <3>1, <3>2, LowerRank DEF Advance
  <2>2. CASE t # u
    BY <1>0, <1>1, <1>5, <2>2
       DEF Skip, Compute, Send, SendRaises, BackOff, Answered, At, callVars, serverVars, TypeOK
  <2> QED
    BY <2>1, <2>2
<1>6. ASSUME NEW u \in Thread, TryAgain(u)
      PROVE  callee'[t] = callee[t] /\ Advance(t)
  <2>1. CASE t = u
    <3>1. /\ point[t] = "backoff" /\ point'[t] = "attempt" /\ callee' = callee
          /\ retries[t] \in 0 .. 3 /\ retries'[t] = retries[t] + 1
      BY <1>0, <1>6, <2>1 DEF TryAgain, At, serverVars, BackoffInv, TypeOK
    <3> QED
      BY <3>1 DEF Advance, StepsLeft, Rank
  <2>2. CASE t # u
    BY <1>0, <1>1, <1>6, <2>2 DEF TryAgain, At, serverVars, TypeOK
  <2> QED
    BY <2>1, <2>2
<1>7. ASSUME NEW u \in Thread, Finish(u)
      PROVE  callee'[t] = callee[t] /\ Advance(t)
  <2>1. t # u
    BY <1>0, <1>7 DEF Finish, At, serverVars, TypeOK, InCall
  <2> QED
    BY <1>0, <1>1, <1>7, <2>1 DEF Finish, At, serverVars, TypeOK
<1>8. ASSUME NEW w \in Worker, Take(w)
      PROVE  callee'[t] = callee[t] /\ Advance(t)
  <2>1. t # w
    BY <1>0, <1>8 DEF Take, At, InCall
  <2> QED
    BY <1>0, <1>1, <1>8, <2>1 DEF Take, At, callVars, serverVars, TypeOK
<1>10. ASSUME NEW w \in Worker, Notice(w)
      PROVE  callee'[t] = callee[t] /\ Advance(t)
  BY <1>1, <1>10 DEF Notice, callVars
<1>9. ASSUME NEW w \in Worker, NEW c \in Replies, Reply(w, c)
      PROVE  callee'[t] = callee[t] /\ Advance(t)
  <2>1. t # w /\ callee' = callee /\ retries' = retries
    BY <1>9 DEF Reply, InCall
  <2>2. CASE t = serving[w]
    <3>1. point[t] = "sent" /\ point'[t] = "judge"
      BY <1>0, <1>9, <2>1, <2>2 DEF Reply, OutInv
    <3> QED
      BY <1>0, <2>1, <3>1, LowerRank DEF Advance
  <2>3. CASE t # serving[w]
    BY <1>1, <1>9, <2>1, <2>3 DEF Reply
  <2> QED
    BY <2>2, <2>3
<1> QED
  BY <1>0, <1>2, <1>3, <1>4, <1>5, <1>6, <1>7, <1>8, <1>9, <1>10, StepCases

(* No step of any thread takes a call back or gives its attempt more time    *)
(* (retry.py 61-86, timeout.py 41-52): a call ends after at most 24 steps   *)
(* of its own beside the passing of time, for any failures of its attempts,  *)
(* and goes to one service throughout.                                       *)
THEOREM CallsGoForward ==
  Spec => /\ [](\A t \in Thread : StepsLeft(t) \in 0 .. 24)
          /\ [][\A t \in Thread : InCall(t) /\ InCall(t)'
                  => callee'[t] = callee[t] /\ Advance(t)]_vars
<1>1. GrpcInv => \A t \in Thread : StepsLeft(t) \in 0 .. 24
  BY StepsLeftType DEF GrpcInv
<1>2. GrpcInv /\ [Next]_vars
        => [\A t \in Thread : InCall(t) /\ InCall(t)'
              => callee'[t] = callee[t] /\ Advance(t)]_vars
  BY CallStep
<1> QED
  BY GrpcInvHolds, <1>1, <1>2, PTL DEF Spec

(* An attempt that is out has at most the time its caller gives.             *)
WithinTimeout == \A t \in Thread : point[t] \in {"timed", "sent"} => left[t] <= MaxTimeout[t]

LEMMA NextWithinTimeout == TypeOK /\ WithinTimeout /\ [Next]_vars => WithinTimeout'
<1> SUFFICES ASSUME TypeOK, WithinTimeout, [Next]_vars, NEW t \in Thread,
                    point'[t] \in {"timed", "sent"}
             PROVE  left'[t] <= MaxTimeout[t]
  BY DEF WithinTimeout
<1> USE GrpcAssumption
<1>1. MaxTimeout[t] \in 0 .. Never /\ left[t] \in 0 .. Never
  BY DEF TypeOK
<1>2. ASSUME point[t] \in {"timed", "sent"}, left'[t] = left[t] PROVE left'[t] <= MaxTimeout[t]
  BY <1>2 DEF WithinTimeout
<1>3. CASE Tick
  <2>1. point'[t] = point[t] /\ left'[t] = IF Running(t) THEN left[t] - 1 ELSE left[t]
    BY <1>3 DEF Tick
  <2> QED
    BY <1>1, <2>1 DEF WithinTimeout
<1>4. ASSUME NEW u \in Thread, Compute(u) PROVE left'[t] <= MaxTimeout[t]
  <2>1. CASE t = u
    <3>1. left'[t] = Timeout(t) /\ Remaining(t) \in 0 .. Never
      BY <1>4, <2>1, TimeoutType DEF Compute, TypeOK
    <3> QED
      BY <1>1, <3>1 DEF Timeout
  <2>2. CASE t # u
    BY <1>2, <1>4, <2>2 DEF Compute, At, TypeOK
  <2> QED
    BY <2>1, <2>2
<1>5. ASSUME NEW u \in Thread,
             \/ Skip(u) \/ Send(u) \/ BackOff(u) \/ TryAgain(u) \/ Finish(u)
             \/ \E s \in Service : Start(u, s)
      PROVE  left'[t] <= MaxTimeout[t]
  BY <1>2, <1>5 DEF Skip, Send, BackOff, TryAgain, Finish, Start, At, callVars, TypeOK
<1>6. ASSUME NEW u \in Thread, SendRaises(u) \/ \E c \in Code : Answered(u, c)
      PROVE  left'[t] <= MaxTimeout[t]
  BY <1>2, <1>6 DEF SendRaises, Answered, At, TypeOK
<1>7. ASSUME NEW w \in Worker, Take(w) \/ Notice(w) \/ \E c \in Replies : Reply(w, c)
      PROVE  left'[t] <= MaxTimeout[t]
  <2>1. CASE Take(w)
    BY <1>2, <2>1 DEF Take, At, callVars, TypeOK
  <2>2. CASE Notice(w)
    BY <1>2, <2>2 DEF Notice, callVars
  <2>3. ASSUME NEW c \in Replies, Reply(w, c) PROVE left'[t] <= MaxTimeout[t]
    BY <1>2, <2>3 DEF Reply
  <2> QED
    BY <1>7, <2>1, <2>2, <2>3
<1>8. CASE UNCHANGED vars
  BY <1>2, <1>8 DEF vars, callVars
<1> QED
  BY <1>3, <1>4, <1>5, <1>6, <1>7, <1>8, StepCases

(* No attempt that is out has more time than the timeout that is given with  *)
(* the call, though time_remaining may say there is no limit (timeout.py     *)
(* 18-27): with CallsGoForward, either its time passes or it is over.        *)
THEOREM AttemptsAreLimited == Spec => []WithinTimeout
<1>1. Init => WithinTimeout
  BY DEF Init, WithinTimeout
<1> QED
  BY TypeCorrect, NextWithinTimeout, <1>1, PTL DEF Spec
=============================================================================
