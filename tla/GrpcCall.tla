------------------------------ MODULE GrpcCall ------------------------------
(***************************************************************************)
(* Blocking gRPC calls between services: grpc/interceptors/retry.py and    *)
(* timeout.py around every call, and grpc_server/ around every handler.  A *)
(* server runs its handlers on a bounded pool of workers, and a handler    *)
(* that calls on waits in its worker; the time that is left to it bounds   *)
(* the calls it makes.  Time is counted in ticks that are longer than a    *)
(* backoff (10 to 50 ms), so that a backoff ends some time after it began, *)
(* and than a message takes: a server's deadline for a call comes less than *)
(* a tick after its caller's.                                              *)
(***************************************************************************)
EXTENDS Integers, Sequences, FiniteSets

CONSTANTS
  Client,      \* threads that call without a task context, or one without time_remaining
  Worker,      \* the threads of the servers' pools
  Service,     \* the services
  ServiceOf,   \* the service that each worker belongs to
  Callees,     \* the services that each thread may call
  Never,       \* a time that is no limit: above 1E6 in the code (timeout.py 22-24)
  MaxTimeout,  \* the timeout that each thread gives to its calls, or Never
  None,        \* no caller
  Gone,        \* a caller that does not wait for the answer any more
  Replies,     \* status codes that handlers answer with
  MaxLost,     \* bound: connections lost
  MaxCalls,    \* bound: calls that one handler makes
  MaxQueue,    \* bound: a service is called while fewer calls wait for it
  MaxSlip      \* bound: ticks between the computing of a timeout and its sending

Thread == Client \cup Worker

Code == {"OK", "INTERNAL", "ABORTED", "UNAVAILABLE", "DEADLINE_EXCEEDED", "UNKNOWN"}

ASSUME GrpcAssumption ==
  /\ Client \cap Worker = {} /\ None \notin Thread /\ Gone \notin Thread /\ None # Gone
  /\ ServiceOf \in [Worker -> Service]
  /\ Callees \in [Thread -> SUBSET Service]
  /\ Never \in Nat \ {0} /\ MaxTimeout \in [Thread -> 0 .. Never]
  /\ Replies \subseteq Code \ {"DEADLINE_EXCEEDED"}
  /\ MaxLost \in Nat /\ MaxCalls \in Nat /\ MaxQueue \in Nat /\ MaxSlip \in Nat

VARIABLES
  point,    \* control point of each thread
  callee,   \* the service that each thread calls
  retries,  \* retries of the call so far
  code,     \* status code of the call's last attempt, until the next one
  left,     \* time left to the thread's attempt, or Never; it runs while sent
  slip,     \* history: ticks between the computing of that time and its sending
  queue,    \* calls that wait for a worker of each service: callers and time left
  serving,  \* the caller that each worker works for: None when idle
  limit,    \* time left to the call that each worker has, as its server counts
  active,   \* is_active() of the call that each worker has
  calls,    \* calls that the handler in each worker has made
  lost      \* connections lost so far

callVars   == <<callee, retries, code, left, slip>>
serverVars == <<queue, serving, limit, active, calls>>
vars == <<point, callVars, serverVars, lost>>
-----------------------------------------------------------------------------
Point == {"idle", "work", "attempt", "timed", "sent", "judge", "backoff"}

max_retries_by_code ==
  [c \in {"INTERNAL", "ABORTED", "UNAVAILABLE"} |-> IF c = "INTERNAL" THEN 1 ELSE 3]

Init ==
  /\ point = [t \in Thread |-> "idle"]
  /\ callee = [t \in Thread |-> None]
  /\ retries = [t \in Thread |-> 0]
  /\ code = [t \in Thread |-> "OK"]
  /\ left = [t \in Thread |-> 0]
  /\ slip = [t \in Thread |-> 0]
  /\ queue = [s \in Service |-> <<>>]
  /\ serving = [w \in Worker |-> None]
  /\ limit = [w \in Worker |-> 0]
  /\ active = [w \in Worker |-> FALSE]
  /\ calls = [w \in Worker |-> 0]
  /\ lost = 0

At(t, from, to) ==
  /\ point[t] = from
  /\ point' = [point EXCEPT ![t] = to]

(* time_remaining of the task context. *)
Remaining(t) == IF t \in Client THEN Never ELSE IF active[t] THEN limit[t] ELSE 0

(* Mutants: each attempt has the whole timeout; only calls without a timeout *)
(* of their own are cut.                                                     *)
TimeoutOwn(t) == MaxTimeout[t]
TimeoutSole(t) == IF MaxTimeout[t] = Never THEN Remaining(t) ELSE MaxTimeout[t]

(* _get_timeout *)
Timeout(t) == IF Remaining(t) > MaxTimeout[t] THEN MaxTimeout[t] ELSE Remaining(t)

(* A caller that has its answer, or has stopped to wait for it. *)
Forget(who, t) == IF who = t THEN Gone ELSE who
Abandoned(q, t) == [i \in DOMAIN q |-> [q[i] EXCEPT !.caller = Forget(@, t)]]

(* What is left of n a tick later. *)
Later(n) == IF n \in 1 .. Never - 1 THEN n - 1 ELSE n
Aged(q)  == [i \in DOMAIN q |-> [q[i] EXCEPT !.time = Later(@)]]
-----------------------------------------------------------------------------
(* A thread calls service s. *)
Start(t, s) ==
  /\ s \in Callees[t] /\ Len(queue[s]) < MaxQueue
  /\ \/ t \in Client /\ point[t] = "idle" /\ UNCHANGED calls
     \/ /\ t \in Worker /\ point[t] = "work"
        /\ calls[t] < MaxCalls
        /\ calls' = [calls EXCEPT ![t] = @ + 1]
  /\ point' = [point EXCEPT ![t] = "attempt"]
  /\ callee' = [callee EXCEPT ![t] = s]
  /\ retries' = [retries EXCEPT ![t] = 0]
  /\ UNCHANGED <<code, left, slip, queue, serving, limit, active, lost>>

(* TimeoutInterceptor: no time is left ... *)
Skip(t) ==
  /\ Timeout(t) <= 0
  /\ At(t, "attempt", "judge")
  /\ code' = [code EXCEPT ![t] = "DEADLINE_EXCEEDED"]
  /\ UNCHANGED <<callee, retries, left, slip, serverVars, lost>>

(* ... or the attempt gets what there is ... *)
Compute(t) ==
  /\ Timeout(t) > 0
  /\ At(t, "attempt", "timed")
  /\ left' = [left EXCEPT ![t] = Timeout(t)]
  /\ UNCHANGED <<callee, retries, code, slip, serverVars, lost>>

(* ... and is sent with it, whoever has gone meanwhile, to wait for a worker  *)
(* ...                                                                       *)
Send(t) ==
  /\ At(t, "timed", "sent")
  /\ queue' = [queue EXCEPT ![callee[t]] = Append(@, [caller |-> t, time |-> left[t]])]
  /\ UNCHANGED <<callVars, serving, limit, active, calls, lost>>

(* ... or raises something that is no grpc.Call.                             *)
SendRaises(t) ==
  /\ At(t, "timed", "judge")
  /\ code' = [code EXCEPT ![t] = "UNKNOWN"]
  /\ left' = [left EXCEPT ![t] = 0]
  /\ slip' = [slip EXCEPT ![t] = 0]
  /\ UNCHANGED <<callee, retries, serverVars, lost>>

(* The attempt ends with status c for its caller; the server may go on.      *)
Answered(t, c) ==
  /\ At(t, "sent", "judge")
  /\ code' = [code EXCEPT ![t] = c]
  /\ left' = [left EXCEPT ![t] = 0]
  /\ slip' = [slip EXCEPT ![t] = 0]
  /\ queue' = [s \in Service |-> Abandoned(queue[s], t)]
  /\ serving' = [w \in Worker |-> Forget(serving[w], t)]
  /\ UNCHANGED <<callee, retries, limit, active, calls>>

(* Mutant: the time that a call waits for a worker is not counted. *)
DeadlineExceededServed(t) ==
  /\ left[t] <= 1 /\ \E w \in Worker : serving[w] = t
  /\ Answered(t, "DEADLINE_EXCEEDED")
  /\ UNCHANGED lost

DeadlineExceeded(t) ==
  /\ left[t] <= 1
  /\ Answered(t, "DEADLINE_EXCEEDED")
  /\ UNCHANGED lost

ConnectionLost(t) ==
  /\ lost < MaxLost
  /\ Answered(t, "UNAVAILABLE")
  /\ lost' = lost + 1

Running(t) == point[t] = "sent" /\ left[t] \in 1 .. Never - 1

Tick ==
  /\ \/ \E t \in Thread : Running(t)
     \/ \E w \in Worker : limit[w] \in 1 .. Never - 1
  /\ \A t \in Thread : point[t] = "timed" => slip[t] < MaxSlip
  /\ left' = [t \in Thread |-> IF Running(t) THEN left[t] - 1 ELSE left[t]]
  /\ slip' = [t \in Thread |-> IF point[t] = "timed" THEN slip[t] + 1 ELSE slip[t]]
  /\ limit' = [w \in Worker |-> Later(limit[w])]
  /\ queue' = [s \in Service |-> Aged(queue[s])]
  /\ UNCHANGED <<point, callee, retries, code, serving, active, calls, lost>>
-----------------------------------------------------------------------------
(* RetryInterceptor. *)

(* Mutants: no limit; a retry for every failure. *)
TriesAgainAlways(t) == code[t] \in DOMAIN max_retries_by_code
TriesAgainAny(t)    == code[t] # "OK" /\ retries[t] <= 3

TriesAgain(t) == /\ code[t] \in DOMAIN max_retries_by_code
                 /\ retries[t] <= max_retries_by_code[code[t]]

BackOff(t) ==
  /\ TriesAgain(t)
  /\ At(t, "judge", "backoff")
  /\ UNCHANGED <<callVars, serverVars, lost>>

TryAgain(t) ==
  /\ At(t, "backoff", "attempt")
  /\ retries' = [retries EXCEPT ![t] = @ + 1]
  /\ code' = [code EXCEPT ![t] = "OK"]
  /\ UNCHANGED <<callee, left, slip, serverVars, lost>>

(* The response or the exception goes to the caller's code. *)
Finish(t) ==
  /\ ~TriesAgain(t)
  /\ At(t, "judge", IF t \in Client THEN "idle" ELSE "work")
  /\ callee' = [callee EXCEPT ![t] = None]
  /\ retries' = [retries EXCEPT ![t] = 0]
  /\ code' = [code EXCEPT ![t] = "OK"]
  /\ UNCHANGED <<left, slip, serverVars, lost>>
-----------------------------------------------------------------------------
(* A worker of the server, and its handler. *)

(* setup_context: the handler's task context is that of its call. *)
Take(w) ==
  /\ queue[ServiceOf[w]] # <<>>
  /\ At(w, "idle", "work")
  /\ serving' = [serving EXCEPT ![w] = Head(queue[ServiceOf[w]]).caller]
  /\ limit' = [limit EXCEPT ![w] = Head(queue[ServiceOf[w]]).time]
  /\ active' = [active EXCEPT ![w] = TRUE]
  /\ queue' = [queue EXCEPT ![ServiceOf[w]] = Tail(@)]
  /\ calls' = [calls EXCEPT ![w] = 0]
  /\ UNCHANGED <<callVars, lost>>

(* The server learns, some time later, that a caller has gone.               *)
Notice(w) ==
  /\ serving[w] = Gone /\ active[w]
  /\ active' = [active EXCEPT ![w] = FALSE]
  /\ UNCHANGED <<point, callVars, queue, serving, limit, calls, lost>>

Reply(w, c) ==
  /\ point[w] = "work"
  /\ point' = [t \in Thread |-> IF t = w THEN "idle"
                                ELSE IF t = serving[w] THEN "judge" ELSE point[t]]
  /\ code' = [t \in Thread |-> IF t = serving[w] THEN c ELSE code[t]]
  /\ left' = [t \in Thread |-> IF t = serving[w] THEN 0 ELSE left[t]]
  /\ slip' = [t \in Thread |-> IF t = serving[w] THEN 0 ELSE slip[t]]
  /\ serving' = [serving EXCEPT ![w] = None]
  /\ limit' = [limit EXCEPT ![w] = 0]
  /\ active' = [active EXCEPT ![w] = FALSE]
  /\ calls' = [calls EXCEPT ![w] = 0]
  /\ UNCHANGED <<callee, retries, queue, lost>>
-----------------------------------------------------------------------------
Call(t) == \/ Skip(t) \/ Compute(t) \/ Send(t) \/ SendRaises(t) \/ DeadlineExceeded(t)
           \/ BackOff(t) \/ TryAgain(t) \/ Finish(t)

Handle(w) == \/ Take(w)
             \/ \E c \in Replies : Reply(w, c)

Next == \/ Tick
        \/ \E t \in Thread : \/ Call(t) \/ ConnectionLost(t)
                             \/ \E s \in Service : Start(t, s)
        \/ \E w \in Worker : Handle(w) \/ Notice(w)

Spec == Init /\ [][Next]_vars

(* Time passes, threads go on, workers take calls, handlers end.             *)
Fairness == /\ WF_vars(Tick)
            /\ \A t \in Thread : WF_vars(Call(t))
            /\ \A w \in Worker : WF_vars(Handle(w))

FairSpec == Spec /\ Fairness
-----------------------------------------------------------------------------
Waiting == [caller : Thread \cup {Gone}, time : 0 .. Never]

(* Type invariant. *)
TypeOK ==
  /\ point \in [Thread -> Point]
  /\ callee \in [Thread -> Service \cup {None}]
  /\ \A t \in Thread : point[t] \notin {"idle", "work"} => callee[t] \in Service
  /\ retries \in [Thread -> 0 .. 4]
  /\ code \in [Thread -> Code]
  /\ left \in [Thread -> 0 .. Never] /\ slip \in [Thread -> 0 .. MaxSlip]
  /\ queue \in [Service -> Seq(Waiting)]
  /\ serving \in [Worker -> Thread \cup {Gone, None}]
  /\ limit \in [Worker -> 0 .. Never] /\ active \in [Worker -> BOOLEAN]
  /\ calls \in [Worker -> 0 .. MaxCalls]
  /\ lost \in 0 .. MaxLost

(* A call that a handler makes has no more time than the call that it serves *)
(* has left, at every depth of calls, through all retries and also when its  *)
(* caller has gone, although every attempt is given its timeout anew         *)
(* (timeout.py 18-27) and is sent some time after it was computed.           *)
DeadlineInherited ==
  \A w \in Worker :
    /\ point[w] \in {"timed", "sent"} => left[w] <= limit[w] + slip[w]
    /\ serving[w] \in Thread => limit[w] = left[serving[w]]

(* A call is retried at most four times, whatever codes its attempts end     *)
(* with, and never when INTERNAL follows two or more retries.                *)
RetriesBounded ==
  \A t \in Thread : /\ retries[t] <= 4
                    /\ point[t] = "backoff" /\ code[t] = "INTERNAL" => retries[t] <= 1

(* A call that is given a timeout ends, and a handler whose caller has one   *)
(* returns, even when other calls have none and their workers wait for each  *)
(* other for ever.                                                           *)
CallsEnd ==
  \A t \in Thread : point[t] = "attempt" /\ Timeout(t) < Never
                      ~> point[t] \in {"idle", "work"}
HandlersReturn ==
  \A w \in Worker : point[w] = "work" /\ Remaining(w) < Never ~> point[w] = "idle"
=============================================================================
