------------------------------ MODULE SanicCall ------------------------------
(***************************************************************************)
(* sanic/grpc_client_creator.py: GrpcMethodCaller, the asynchronous gRPC   *)
(* calls that the tasks of one event loop make, one task for each request. *)
(* A call's attempts are started on the loop; gRPC's threads run the       *)
(* callbacks: that of grpc/interceptors/flags.py, which replaces the state *)
(* of the request by the one that the callee returns, then set_result,     *)
(* which ends the call, and observes it once the caller may go on, or has  *)
(* the loop try again after a backoff.                                     *)
(* A request state is the set of calls whose updates it has in it.         *)
(***************************************************************************)
EXTENDS Integers, Sequences

CONSTANTS
  Request,     \* the requests that the service handles
  Call,        \* the calls that their tasks make
  None,        \* no context, no code
  MaxAttempts  \* bound: attempts that the history counts

ASSUME SanicAssumption == None \notin Request /\ MaxAttempts \in Nat \ {0}

VARIABLES
  loop,      \* the event loop: running a task, about to select, or in select
  point,     \* control point of each call
  running,   \* the request whose task the loop runs, or None
  maker,     \* the request whose task makes the call
  context,   \* the context that each GrpcMethodCaller has captured
  sent,      \* the context that each call's last attempt was sent with
  carried,   \* the request state in the metadata of that attempt
  code,      \* status code of the last attempt, None while it is out
  arriving,  \* the state a call has returned, until the flags callback has run
  state,     \* request_state of each request's context
  attempts,  \* history: attempts of each call, up to MaxAttempts
  finishing, \* who has set a call's result and has yet to observe it
  observed,  \* history: what CLIENT_RETRIES observed of each call
  applied,   \* history: the calls whose update has been applied
  overlap    \* history: requests with a call made before another's update

attemptVars == <<context, sent, carried, code, attempts>>
stateVars   == <<arriving, state, applied, overlap>>
metricVars  == <<finishing, observed>>
callVars == <<point, maker, attemptVars, stateVars, metricVars>>
vars == <<loop, running, callVars>>
-----------------------------------------------------------------------------
Code == {"OK", "INTERNAL", "UNAVAILABLE", "UNKNOWN"}

(* max_retries_by_code.get(code) or 0; ABORTED is treated as UNAVAILABLE is. *)
MaxRetries(c) == IF c = "INTERNAL" THEN 1 ELSE IF c = "UNAVAILABLE" THEN 3 ELSE 0

LoopPoint == {"runs", "decided", "selects"}
Point     == {"idle", "calling", "hasty", "out", "answered", "ready", "sleeping", "over",
              "done"}

Finisher  == {"nobody", "callback", "loop"}

Init ==
  /\ loop = "runs" /\ running = None
  /\ point = [c \in Call |-> "idle"]
  /\ maker \in [Call -> Request]
  /\ context = [c \in Call |-> None]
  /\ sent = [c \in Call |-> None]
  /\ carried = [c \in Call |-> {}]
  /\ code = [c \in Call |-> None]
  /\ arriving = [c \in Call |-> {}]
  /\ state = [q \in Request |-> {}]
  /\ attempts = [c \in Call |-> 0]
  /\ finishing = [c \in Call |-> "nobody"]
  /\ observed = [c \in Call |-> <<>>]
  /\ applied = {} /\ overlap = {}

(* The loop's thread is busy, gRPC's are not, between method.future and the  *)
(* end of the set_result that it runs itself, if it does.                    *)
LoopFree ==
  \A c \in Call : point[c] \notin {"calling", "hasty"} /\ finishing[c] # "loop"

(* Mutant: the context is that of the task that runs.                        *)
ContextNow(c) == running'

(* RequestWithContext holds the context that its creator had.                *)
ContextOf(c) == context'[c]

(* Mutant: the metadata has the state of the request's own headers.          *)
StateReceived(q) == {}

(* The metadata has the state that the context has by then.                  *)
StateSent(q) == IF q = None THEN {} ELSE state[q]

(* result.set_result or set_exception: the caller may go on before `who' has *)
(* observed the call.                                                        *)
Over(c, who) ==
  /\ point' = [point EXCEPT ![c] = "over"]
  /\ finishing' = [finishing EXCEPT ![c] = who]
  /\ UNCHANGED observed

(* call_method: the attempt is out, with the flags callback attached, or it  *)
(* raises at once, which is never retried: what it raises is no grpc.Call.   *)
CallMethod(c) ==
  /\ LoopFree
  /\ \/ point' = [point EXCEPT ![c] = "calling"] /\ UNCHANGED metricVars
     \/ Over(c, "loop")
  /\ code' = [code EXCEPT ![c] = None]
  /\ sent' = [sent EXCEPT ![c] = ContextOf(c)]
  /\ carried' = [carried EXCEPT ![c] = StateSent(ContextOf(c))]
  /\ attempts' = [attempts EXCEPT ![c] = IF @ = MaxAttempts THEN @ ELSE @ + 1]

(* Before its update is applied, a call is under way for the context, even   *)
(* if its caller has gone on.                                                *)
UnderWay(c) == point[c] \notin {"idle", "over", "done"} \/ arriving[c] # {}

(* GrpcMethodCaller.__init__, in the task of the caller.                     *)
Start(c) ==
  /\ loop = "runs" /\ point[c] = "idle"
  /\ running' = maker[c]
  /\ context' = [context EXCEPT ![c] = maker[c]]
  /\ CallMethod(c)
  /\ overlap' = IF \E d \in Call \ {c} : maker[d] = maker[c] /\ UnderWay(d)
                THEN overlap \cup {maker[c]} ELSE overlap
  /\ UNCHANGED <<loop, maker, arriving, state, applied>>

(* add_done_callback(set_result), the attempt being out.                     *)
Attach(c) ==
  /\ point[c] = "calling"
  /\ point' = [point EXCEPT ![c] = "out"]
  /\ UNCHANGED <<loop, running, maker, attemptVars, stateVars, metricVars>>

(* The attempt ends with code k; a callee that has updated the state returns *)
(* what it was sent with its update.                                         *)
Complete(c, k) ==
  /\ \/ point[c] = "out" /\ point' = [point EXCEPT ![c] = "answered"]
     \/ point[c] = "calling" /\ point' = [point EXCEPT ![c] = "hasty"]
  /\ code' = [code EXCEPT ![c] = k]
  /\ \/ UNCHANGED arriving
     \/ k = "OK" /\ arriving' = [arriving EXCEPT ![c] = carried[c] \cup {c}]
  /\ UNCHANGED <<loop, running, maker, context, sent, carried, attempts, state, applied,
                 overlap, metricVars>>

(* Mutant: the state goes to the context of the task that runs.              *)
ProcessResultNow(c) ==
  /\ arriving[c] # {}
  /\ arriving' = [arriving EXCEPT ![c] = {}]
  /\ state' = IF running = None THEN state ELSE [state EXCEPT ![running] = arriving[c]]
  /\ applied' = applied \cup {c}
  /\ UNCHANGED <<loop, running, point, maker, attemptVars, overlap, metricVars>>

(* _process_result, on a thread of gRPC's: update_state of the context that  *)
(* the attempt was sent with, as a whole.                                    *)
ProcessResult(c) ==
  /\ arriving[c] # {}
  /\ arriving' = [arriving EXCEPT ![c] = {}]
  /\ state' = IF sent[c] = None THEN state ELSE [state EXCEPT ![sent[c]] = arriving[c]]
  /\ applied' = applied \cup {c}
  /\ UNCHANGED <<loop, running, point, maker, attemptVars, overlap, metricVars>>

retry_cnt == 0  \* every call of call_method passes on the count it was given

DoRetry(k) == retry_cnt < MaxRetries(k)

(* gRPC's thread runs set_result after the flags callback; the loop's thread *)
(* runs it at once when the attempt ended before it was attached.            *)
CanSetResult(c) == point[c] = "hasty" \/ (point[c] = "answered" /\ arriving[c] = {})

(* Who runs set_result. *)
SetBy(c) == IF point[c] = "hasty" THEN "loop" ELSE "callback"

(* Mutant: a failure is not set as the result.                               *)
SetResultSuccess(c) ==
  /\ CanSetResult(c) /\ (code[c] = "UNKNOWN" => point[c] = "hasty")
  /\ \/ /\ DoRetry(code[c])
        /\ point' = [point EXCEPT ![c] = "ready"]
        /\ UNCHANGED <<loop, metricVars>>
     \/ /\ ~DoRetry(code[c])
        /\ Over(c, SetBy(c))
        /\ loop' = "runs"
  /\ UNCHANGED <<running, maker, attemptVars, stateVars>>

(* Mutant: the metric is observed whether or not the call is tried again.    *)
SetResultEach(c) ==
  /\ CanSetResult(c)
  /\ \/ /\ DoRetry(code[c])
        /\ point' = [point EXCEPT ![c] = "ready"]
        /\ finishing' = [finishing EXCEPT ![c] = SetBy(c)]
        /\ UNCHANGED <<loop, observed>>
     \/ /\ ~DoRetry(code[c])
        /\ Over(c, SetBy(c))
        /\ loop' = "runs"
  /\ UNCHANGED <<running, maker, attemptVars, stateVars>>

(* set_result up to the call's result, which wakes the loop.  ensure_future  *)
(* puts the retry in the loop's queue and does not wake the loop.            *)
SetResult(c) ==
  /\ CanSetResult(c)
  /\ \/ /\ DoRetry(code[c])
        /\ point' = [point EXCEPT ![c] = "ready"]
        /\ UNCHANGED <<loop, metricVars>>
     \/ /\ ~DoRetry(code[c])
        /\ Over(c, SetBy(c))
        /\ loop' = "runs"
  /\ UNCHANGED <<running, maker, attemptVars, stateVars>>

(* Mutant: the attempts are counted from 0 and the first is taken off.       *)
ObserveLess(c) ==
  /\ finishing[c] # "nobody"
  /\ observed' = [observed EXCEPT ![c] = Append(@, retry_cnt - 1)]
  /\ finishing' = [finishing EXCEPT ![c] = "nobody"]
  /\ UNCHANGED <<loop, running, point, maker, attemptVars, stateVars>>

(* The rest of set_result: CLIENT_RETRIES observes the count, whether or not *)
(* the caller has gone on.                                                   *)
Observe(c) ==
  /\ finishing[c] # "nobody"
  /\ observed' = [observed EXCEPT ![c] = Append(@, retry_cnt)]
  /\ finishing' = [finishing EXCEPT ![c] = "nobody"]
  /\ UNCHANGED <<loop, running, point, maker, attemptVars, stateVars>>
-----------------------------------------------------------------------------
(* timeout_retry, in a task of its own. *)
BackOff(c) ==
  /\ loop = "runs" /\ LoopFree /\ point[c] = "ready"
  /\ running' = None
  /\ point' = [point EXCEPT ![c] = "sleeping"]
  /\ UNCHANGED <<loop, maker, attemptVars, stateVars, metricVars>>

(* The backoff's timer ends select. *)
TryAgain(c) ==
  /\ point[c] = "sleeping"
  /\ loop' = "runs" /\ running' = None
  /\ UNCHANGED <<maker, context, stateVars>>
  /\ CallMethod(c)

(* The caller's await returns or raises. *)
Resume(c) ==
  /\ loop = "runs" /\ LoopFree /\ point[c] = "over"
  /\ running' = maker[c]
  /\ point' = [point EXCEPT ![c] = "done"]
  /\ UNCHANGED <<loop, maker, attemptVars, stateVars, metricVars>>

(* The loop has nothing to run and selects; what it runs next may arrive     *)
(* between the two.                                                          *)
Decide ==
  /\ loop = "runs" /\ LoopFree /\ \A c \in Call : point[c] \notin {"ready", "over"}
  /\ loop' = "decided" /\ running' = None
  /\ UNCHANGED callVars

Select ==
  /\ loop = "decided"
  /\ loop' = "selects"
  /\ UNCHANGED <<running, callVars>>

(* Another timer, a connection, a request. *)
Wake ==
  /\ loop = "selects"
  /\ loop' = "runs"
  /\ UNCHANGED <<running, callVars>>
-----------------------------------------------------------------------------
LoopStep == \/ Decide \/ Select \/ Wake
            \/ \E c \in Call : BackOff(c) \/ TryAgain(c) \/ Resume(c)

Next == \/ LoopStep
        \/ \E c \in Call : \/ Start(c) \/ Attach(c) \/ ProcessResult(c) \/ SetResult(c)
                           \/ Observe(c)
                           \/ \E k \in Code : Complete(c, k)

Spec == Init /\ [][Next]_vars

(* The loop and gRPC's threads keep running and the loop has other events,   *)
(* that wake it; a server that is asked for ever does not fail for ever.     *)
Fairness ==
  /\ WF_vars(Decide) /\ WF_vars(Select) /\ WF_vars(Wake)
  /\ \A c \in Call :
       /\ WF_vars(Attach(c))
       /\ WF_vars(ProcessResult(c))
       /\ WF_vars(SetResult(c))
       /\ WF_vars(Observe(c))
       /\ WF_vars(BackOff(c))
       /\ WF_vars(TryAgain(c))
       /\ WF_vars(Resume(c))
       /\ SF_vars(\E k \in {k \in Code : ~DoRetry(k)} : Complete(c, k))

FairSpec == Spec /\ Fairness
-----------------------------------------------------------------------------
(* Every variable keeps its type.                                            *)
TypeOK ==
  /\ loop \in LoopPoint
  /\ running \in Request \cup {None}
  /\ point \in [Call -> Point]
  /\ maker \in [Call -> Request]
  /\ context \in [Call -> Request \cup {None}]
  /\ sent \in [Call -> Request \cup {None}]
  /\ carried \in [Call -> SUBSET Call]
  /\ code \in [Call -> Code \cup {None}]
  /\ arriving \in [Call -> SUBSET Call]
  /\ state \in [Request -> SUBSET Call]
  /\ attempts \in [Call -> 0..MaxAttempts]
  /\ finishing \in [Call -> Finisher] /\ observed \in [Call -> Seq(Nat)]
  /\ applied \subseteq Call /\ overlap \subseteq Request

(* Every attempt of a call, the ones that a task of the loop's own makes     *)
(* after a backoff included, carries the state and trace of the request that *)
(* the caller serves, whatever tasks ran in between.                         *)
ContextKept == \A c \in Call : attempts[c] > 0 => sent[c] = maker[c]

(* The state that callees return on gRPC's threads reaches the request that  *)
(* called them and no other, whatever task the loop runs by then, and only   *)
(* the attempts that succeeded change it.                                    *)
StateStaysWithRequest ==
  \A q \in Request : \A c \in state[q] :
    maker[c] = q /\ code[c] = "OK" /\ c \in applied

(* The updates of calls that a request makes one after another add up: each  *)
(* callee sees the ones before it and none is lost.  A call follows another  *)
(* only when the other's update is applied, which its caller's await does    *)
(* not always wait for (Resume of a "hasty" call).                           *)
SequentialUpdatesAddUp ==
  \A q \in Request \ overlap : state[q] = {c \in applied : maker[c] = q}

(* A call adds one observation to CLIENT_RETRIES, however many attempts it   *)
(* made and whichever thread ended it, never before its result is set, and   *)
(* it is missing only while the thread that set the result has yet to get    *)
(* there: its caller may see the result before the metric has it.            *)
ObservedOnce ==
  \A c \in Call :
    Len(observed[c]) =
      IF point[c] \in {"over", "done"} /\ finishing[c] = "nobody" THEN 1 ELSE 0

(* Every task that awaits a call goes on, though a retry is handed to the    *)
(* loop without waking it, and the metric gets its observation of the call.  *)
CallsEnd == \A c \in Call : attempts[c] > 0 ~> (point[c] = "done" /\ observed[c] # <<>>)

(* What max_retries_by_code (retry.py:14) says it is: no call is retried     *)
(* more often than the table allows for any code.                            *)
RetriesWithinTable ==
  \A c \in Call : \E k \in Code : attempts[c] - 1 <= MaxRetries(k)
=============================================================================
