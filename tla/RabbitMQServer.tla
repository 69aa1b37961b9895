--------------------------- MODULE RabbitMQServer ---------------------------
(***************************************************************************)
(* rabbitmq/server.py: RabbitMQServer and its Worker.  One consumer thread *)
(* (kombu's ConsumerMixin loop) takes messages from the broker and applies *)
(* the requeue, ack and reject operations that the executor threads put in *)
(* _msg_opr_queue; the executor threads run _try_on_message.  Connections  *)
(* break, publishes fail, the process crashes and restarts.                *)
(***************************************************************************)
EXTENDS Broker, Sequences

CONSTANTS
  Thread,          \* the executor's threads: num_workers of them
  Target,          \* target_ts of each job; 0 when the call has no delay
  Undecodable,     \* jobs whose message makes _on_message raise before its handler runs
  Unruled,         \* jobs its coordinator's max_retries may raise on
  MaxRetries,      \* max_retries of the retry coordinator for INTERNAL
  BackoffRaises,   \* retry counts its backoff may raise on; RetryCoordinator never raises
  PublishRetries,  \* retry_left of requeue_with_retry: 3 in the code
  PublishTries,    \* publishes kombu makes in one attempt: 6 in the code
  ConfirmPublish,  \* the confirm_publish transport option of the connection
  Epoch, Horizon,  \* bound: the clock runs from Epoch to Epoch + Horizon
  MaxFaults        \* bound: stops, crashes, broken connections, publishes failed or repeated

ASSUME ServerAssumption ==
  /\ Target \in [Job -> Nat]
  /\ IsFiniteSet(Thread)
  /\ Undecodable \subseteq Job /\ Unruled \subseteq Job
  /\ PublishTries \in Nat \ {0}
  /\ MaxRetries \in Nat /\ PublishRetries \in Nat /\ MaxFaults \in Nat
  /\ ConfirmPublish \in BOOLEAN
  /\ BackoffRaises \subseteq Nat
  /\ Epoch \in Nat /\ Horizon \in Nat
  /\ Epoch >= 5 + 3 * MaxRetries  \* the clock has left the first milliseconds of 1970

VARIABLES
  now,              \* the clock, in the unit of execute_at: milliseconds
  published,        \* jobs a client has published
  served,           \* history: jobs a handler answered with a final status
  dropped,          \* history: jobs given up after their last retry
  refused,          \* history: jobs given up because the backoff raised
  failures,         \* history: INTERNAL answers of each job, up to MaxRetries + 1
  pc,               \* control point of the consumer thread
  broken,           \* the broker has closed the session, the consumer has not noticed
  session,          \* number of the current channel
  set_should_stop,  \* the local of on_iteration, until the loop reads should_stop
  retry_left,       \* retries left of the requeue being applied
  publish_left,     \* publishes left of its current attempt
  requested_stop,   \* _requested_stop
  in_progress,      \* _in_progress
  msg_opr_queue,    \* _msg_opr_queue
  backlog,          \* the executor's queue of submitted calls
  phase,            \* control point of each executor thread
  dlv,              \* the delivery each executor thread works on
  out,              \* the message an executor thread is about to have requeued
  reg,              \* the value of _in_progress each executor thread has loaded
  lost_update,      \* history: an update of _in_progress has overwritten another
  faults            \* faults so far

historyVars  == <<served, dropped, refused, failures>>
consumerVars == <<pc, broken, session, set_should_stop, retry_left, publish_left,
                  requested_stop>>
counterVars  == <<in_progress, lost_update>>
threadVars   == <<phase, dlv, out, reg>>
vars == <<brokerVars, now, published, historyVars, consumerVars, counterVars,
          msg_opr_queue, backlog, threadVars, faults>>
-----------------------------------------------------------------------------
Delivery   == [copy : Copy, session : Nat, msg : Message]
NoDelivery == [copy |-> None, session |-> 0, msg |-> Blank]
Operation  == [op : {"requeue", "ack", "reject"}, dlv : Delivery,
               out : Message \cup {Blank}]

ConsumerPoint == {"connect", "check", "iter", "drain", "stopped", "dead"}
Connected     == pc \in {"check", "iter", "drain"}

ThreadPoint == {"idle", "loaded", "begin", "exec", "requeue", "ack", "reject",
                "exit", "unload"}

Settled  == served \cup dropped \cup refused

(* Mutant: a prefetch count of num_workers. *)
PrefetchHalved == Cardinality(Thread)

Prefetch == 2 * Cardinality(Thread)
Clock    == Epoch .. (Epoch + Horizon)

(* message.channel.connection, as the process sees it and as the broker does. *)
Live(d)     == Connected /\ d.session = session
Attached(d) == Live(d) /\ ~broken

(* Mutants: the postponed message counts as a retry; a retry is postponed by *)
(* its backoff.                                                              *)
DelayedAsRetry(m) == [m EXCEPT !.retry_cnt = @ + 1]
RetriedLater(m)   == [m EXCEPT !.retry_cnt = @ + 1,
                               !.execute_at = now + 5 + 3 * m.retry_cnt]

(* linear_backoff()(n), and the headers _requeue leaves in the new message. *)
Backoff(n)      == 5 + 3 * n
Delayed(m)      == [m EXCEPT !.execute_at = Target[m.job]]
Retried(m)      == [m EXCEPT !.retry_cnt = @ + 1, !.execute_at = Backoff(m.retry_cnt)]
NotDue(m)       == m.execute_at > now
BeforeTarget(m) == m.retry_cnt = 0 /\ now < Target[m.job]

(* Mutants: one retry too few; operations put in a LifoQueue, or without     *)
(* their message; the stop does not wait, or waits for the broker.           *)
RetriesLeftShort(m)    == m.retry_cnt + 1 < MaxRetries
EnqueueFirst(queue, o) == <<o>> \o queue
EnqueueBare(queue, o)  == Append(queue, [op |-> o.op])
LastIterationHasty     == requested_stop
LastIterationDrained   == requested_stop /\ Unacked = {}

RetriesLeft(m)    == m.retry_cnt < MaxRetries
AttemptsLeft      == retry_left > 0
PublishesLeft     == publish_left > 0
Enqueue(queue, o) == Append(queue, o)
LastIteration     == requested_stop /\ in_progress = 0

Init ==
  /\ BrokerInit
  /\ now = Epoch
  /\ published = {} /\ served = {} /\ dropped = {} /\ refused = {}
  /\ failures = [j \in Job |-> 0]
  /\ pc = "connect" /\ broken = FALSE /\ session = 0
  /\ set_should_stop = FALSE /\ requested_stop = FALSE
  /\ retry_left = PublishRetries /\ publish_left = PublishTries
  /\ in_progress = 0 /\ lost_update = FALSE
  /\ msg_opr_queue = <<>> /\ backlog = <<>>
  /\ phase = [t \in Thread |-> "idle"]
  /\ dlv = [t \in Thread |-> NoDelivery]
  /\ out = [t \in Thread |-> Blank]
  /\ reg = [t \in Thread |-> 0]
  /\ faults = 0
-----------------------------------------------------------------------------
(* The environment: a client's publish reaches the queue, time passes, the *)
(* retry queue's TTL expires, an operator asks the worker to stop.         *)

Call(j) == [job |-> j, retry_cnt |-> 0, execute_at |-> 0]

Publish(j) ==
  /\ j \notin published
  /\ published' = published \cup {j}
  /\ \E c \in Copy : Store(c, "ready", Call(j))
  /\ UNCHANGED <<superseded, now, historyVars, consumerVars, counterVars,
                 msg_opr_queue, backlog, threadVars, faults>>

(* The client's publish is retried although the broker has the message.     *)
PublishAgain(j) ==
  /\ j \in published /\ faults < MaxFaults
  /\ \E c \in Copy : Store(c, "ready", Call(j))
  /\ faults' = faults + 1
  /\ UNCHANGED <<superseded, now, published, historyVars, consumerVars, counterVars,
                 msg_opr_queue, backlog, threadVars>>

Tick ==
  /\ now < Epoch + Horizon
  /\ now' = now + 1
  /\ UNCHANGED <<brokerVars, published, historyVars, consumerVars, counterVars,
                 msg_opr_queue, backlog, threadVars, faults>>

Expire(c) ==
  /\ DeadLetter(c)
  /\ UNCHANGED <<now, published, historyVars, consumerVars, counterVars,
                 msg_opr_queue, backlog, threadVars, faults>>

StopWorker ==
  /\ faults < MaxFaults
  /\ ~requested_stop /\ pc \notin {"stopped", "dead"}
  /\ requested_stop' = TRUE
  /\ faults' = faults + 1
  /\ UNCHANGED <<brokerVars, now, published, historyVars, pc, broken, session,
                 set_should_stop, retry_left, publish_left, counterVars,
                 msg_opr_queue, backlog, threadVars>>
-----------------------------------------------------------------------------
(* The consumer thread. *)

Reconnect ==
  /\ pc = "connect"
  /\ pc' = "check"
  /\ session' = session + 1
  /\ UNCHANGED <<brokerVars, now, published, historyVars, broken, set_should_stop,
                 retry_left, publish_left, requested_stop, counterVars,
                 msg_opr_queue, backlog, threadVars, faults>>

(* requeue_with_retry(3, ...) starts with all its attempts and publishes. *)
FreshRequeue == retry_left' = PublishRetries /\ publish_left' = PublishTries

(* The session ends: the channel is closed and the next control point follows. *)
EndSession(next) ==
  /\ ReturnUnacked
  /\ pc' = next
  /\ broken' = FALSE
  /\ set_should_stop' = FALSE
  /\ FreshRequeue
  /\ UNCHANGED <<session, requested_stop>>

(* The head of the consuming loop reads should_stop ... *)
LoopStop ==
  /\ pc = "check" /\ set_should_stop
  /\ EndSession("stopped")
  /\ UNCHANGED <<now, published, historyVars, counterVars, msg_opr_queue, backlog,
                 threadVars, faults>>

(* ... or enters on_iteration, which first decides whether this is the last. *)
LoopIterate ==
  /\ pc = "check" /\ ~set_should_stop
  /\ pc' = "iter"
  /\ set_should_stop' = LastIteration
  /\ UNCHANGED <<brokerVars, now, published, historyVars, broken, session,
                 retry_left, publish_left, requested_stop, counterVars,
                 msg_opr_queue, backlog, threadVars, faults>>

IterEnd ==
  /\ pc = "iter" /\ msg_opr_queue = <<>>
  /\ pc' = "drain"
  /\ UNCHANGED <<brokerVars, now, published, historyVars, broken, session,
                 set_should_stop, retry_left, publish_left, requested_stop,
                 counterVars, msg_opr_queue, backlog, threadVars, faults>>

NextOp(kinds) ==
  /\ pc = "iter" /\ msg_opr_queue # <<>>
  /\ Head(msg_opr_queue).op \in kinds

(* _ack_message and _reject_message: nothing happens on a closed channel, and *)
(* an amqp ConnectionError is swallowed.                                      *)
ApplyAck ==
  /\ NextOp({"ack", "reject"})
  /\ LET d == Head(msg_opr_queue).dlv IN
       IF Attached(d) THEN Settle(d.copy) ELSE UNCHANGED brokerVars
  /\ msg_opr_queue' = Tail(msg_opr_queue)
  /\ UNCHANGED <<now, published, historyVars, consumerVars, counterVars, backlog,
                 threadVars, faults>>

(* Any other error of the dead socket leaves on_iteration. *)
AckRaises ==
  /\ NextOp({"ack", "reject"})
  /\ broken /\ Live(Head(msg_opr_queue).dlv)
  /\ EndSession("connect")
  /\ msg_opr_queue' = Tail(msg_opr_queue)
  /\ UNCHANGED <<now, published, historyVars, counterVars, backlog, threadVars,
                 faults>>

(* requeue_with_retry: a publish succeeds.  Without publisher confirms the    *)
(* broker may nevertheless never see the message.                            *)
RequeueOk ==
  /\ NextOp({"requeue"}) /\ PublishesLeft
  /\ LET o == Head(msg_opr_queue) IN
       /\ \E c \in Copy : Store(c, "retry", o.out)
       /\ superseded' = IF Attached(o.dlv) THEN superseded \cup {o.dlv.copy}
                                           ELSE superseded
  /\ msg_opr_queue' = Tail(msg_opr_queue)
  /\ FreshRequeue
  /\ UNCHANGED <<now, published, historyVars, pc, broken, session,
                 set_should_stop, requested_stop, counterVars, backlog,
                 threadVars, faults>>

RequeueUnseen ==
  /\ NextOp({"requeue"}) /\ PublishesLeft
  /\ ~ConfirmPublish /\ faults < MaxFaults
  /\ faults' = faults + 1
  /\ msg_opr_queue' = Tail(msg_opr_queue)
  /\ FreshRequeue
  /\ UNCHANGED <<brokerVars, now, published, historyVars, pc, broken, session,
                 set_should_stop, requested_stop, counterVars, backlog,
                 threadVars>>

(* A publish raises inside an attempt, and kombu may make another one in the  *)
(* same attempt.  The broker may have stored the message all the same.        *)
PublishRaises ==
  /\ NextOp({"requeue"}) /\ PublishesLeft
  /\ faults < MaxFaults
  /\ \/ /\ \E c \in Copy : Store(c, "retry", Head(msg_opr_queue).out)
        /\ UNCHANGED superseded
     \/ UNCHANGED brokerVars
  /\ faults' = faults + 1
  /\ publish_left' = publish_left - 1
  /\ UNCHANGED <<now, published, historyVars, pc, broken, session,
                 set_should_stop, retry_left, requested_stop, counterVars,
                 msg_opr_queue, backlog, threadVars>>

(* The error ends the attempt, kombu having no publish left or giving up: the *)
(* next attempt starts over ...                                               *)
RequeueFails ==
  /\ NextOp({"requeue"})
  /\ publish_left < PublishTries
  /\ AttemptsLeft
  /\ retry_left' = retry_left - 1
  /\ publish_left' = PublishTries
  /\ UNCHANGED <<brokerVars, now, published, historyVars, pc, broken, session,
                 set_should_stop, requested_stop, counterVars, msg_opr_queue,
                 backlog, threadVars, faults>>

(* ... and the last one raises out of on_iteration: a connection error makes  *)
(* the consumer reconnect, any other error ends its thread.                   *)
RequeueRaises ==
  /\ NextOp({"requeue"})
  /\ publish_left < PublishTries
  /\ ~AttemptsLeft
  /\ \E next \in {"connect", "dead"} : EndSession(next)
  /\ msg_opr_queue' = Tail(msg_opr_queue)
  /\ UNCHANGED <<now, published, historyVars, counterVars, backlog, threadVars,
                 faults>>

(* drain_events: one delivery, which on_message submits to the executor ... *)
Deliver(c) ==
  /\ pc = "drain" /\ ~broken
  /\ Push(c, Prefetch)
  /\ backlog' = Append(backlog, [copy |-> c, session |-> session, msg |-> msg[c]])
  /\ pc' = "check"
  /\ UNCHANGED <<now, published, historyVars, broken, session, set_should_stop,
                 retry_left, publish_left, requested_stop, counterVars,
                 msg_opr_queue, threadVars, faults>>

(* ... or nothing within the safety interval ... *)
DrainTimeout ==
  /\ pc = "drain"
  /\ pc' = "check"
  /\ UNCHANGED <<brokerVars, now, published, historyVars, broken, session,
                 set_should_stop, retry_left, publish_left, requested_stop,
                 counterVars, msg_opr_queue, backlog, threadVars, faults>>

(* ... or the error of the dead connection; run() reconnects unless should_stop. *)
DrainRaises ==
  /\ pc = "drain" /\ broken
  /\ EndSession(IF set_should_stop THEN "stopped" ELSE "connect")
  /\ UNCHANGED <<now, published, historyVars, counterVars, msg_opr_queue, backlog,
                 threadVars, faults>>
-----------------------------------------------------------------------------
(* The executor threads: _try_on_message. *)

Move(t, from, to) ==
  /\ phase[t] = from
  /\ phase' = [phase EXCEPT ![t] = to]

(* `self._in_progress += 1' is a load and a store; so is `-= 1'.  The     *)
(* store undoes what another thread has stored in between.                   *)
Update(t, value) ==
  /\ in_progress' = value
  /\ lost_update' = (lost_update \/ in_progress # reg[t])

Take(t) ==
  /\ backlog # <<>>
  /\ Move(t, "idle", "loaded")
  /\ dlv' = [dlv EXCEPT ![t] = Head(backlog)]
  /\ backlog' = Tail(backlog)
  /\ reg' = [reg EXCEPT ![t] = in_progress]
  /\ UNCHANGED <<brokerVars, now, published, historyVars, consumerVars,
                 counterVars, msg_opr_queue, out, faults>>

StoreInc(t) ==
  /\ Move(t, "loaded", "begin")
  /\ Update(t, reg[t] + 1)
  /\ UNCHANGED <<brokerVars, now, published, historyVars, consumerVars,
                 msg_opr_queue, backlog, dlv, out, reg, faults>>

(* _on_message up to the call of the handler.  A dead channel or an          *)
(* undecodable message ends it with no operation put; a message that is not  *)
(* due, or that comes before its target, is requeued and acked.              *)
Begin(t) ==
  /\ LET m == dlv[t].msg IN
       \/ /\ ~Live(dlv[t]) \/ m.job \in Undecodable
          /\ Move(t, "begin", "exit")
          /\ UNCHANGED out
       \/ /\ Live(dlv[t]) /\ m.job \notin Undecodable
          /\ NotDue(m) \/ BeforeTarget(m)
          /\ Move(t, "begin", "requeue")
          /\ out' = [out EXCEPT ![t] = IF NotDue(m) THEN m ELSE Delayed(m)]
       \/ /\ Live(dlv[t]) /\ m.job \notin Undecodable
          /\ ~NotDue(m) /\ ~BeforeTarget(m)
          /\ Move(t, "begin", "exec")
          /\ UNCHANGED out
  /\ UNCHANGED <<brokerVars, now, published, historyVars, consumerVars,
                 counterVars, msg_opr_queue, backlog, dlv, reg, faults>>

(* The handler ends with a status other than INTERNAL: nothing to retry. *)
HandlerAnswers(t) ==
  /\ Move(t, "exec", "ack")
  /\ served' = served \cup {dlv[t].msg.job}
  /\ UNCHANGED <<brokerVars, now, published, dropped, refused, failures,
                 consumerVars, counterVars, msg_opr_queue, backlog, dlv, out, reg,
                 faults>>

(* The handler raises or sets INTERNAL: retry while retries are left and the *)
(* channel is alive, leave it to the redelivery when it is not; give up when *)
(* none is left or the coordinator's backoff raises.  Its max_retries is     *)
(* asked outside the inner try: when that raises, no operation is put.       *)
HandlerFails(t) ==
  /\ LET m == dlv[t].msg IN
       /\ failures' = [failures EXCEPT ![m.job] = IF @ > MaxRetries THEN @ ELSE @ + 1]
       /\ \/ /\ RetriesLeft(m) /\ Live(dlv[t])
             /\ Move(t, "exec", "requeue")
             /\ out' = [out EXCEPT ![t] = Retried(m)]
             /\ UNCHANGED <<dropped, refused>>
          \/ /\ m.job \in Unruled \/ (RetriesLeft(m) /\ ~Live(dlv[t]))
             /\ Move(t, "exec", "exit")
             /\ UNCHANGED <<out, dropped, refused>>
          \/ /\ ~RetriesLeft(m)
             /\ Move(t, "exec", "reject")
             /\ dropped' = dropped \cup {m.job}
             /\ UNCHANGED <<out, refused>>
          \/ /\ RetriesLeft(m) /\ Live(dlv[t]) /\ m.retry_cnt \in BackoffRaises
             /\ Move(t, "exec", "reject")
             /\ refused' = refused \cup {m.job}
             /\ UNCHANGED <<out, dropped>>
  /\ UNCHANGED <<brokerVars, now, published, served, consumerVars, counterVars,
                 msg_opr_queue, backlog, dlv, reg, faults>>

(* _msg_opr_queue.put: the requeue first, then the ack. *)
Put(t, kind, to) ==
  /\ Move(t, kind, to)
  /\ msg_opr_queue' = Enqueue(msg_opr_queue, [op |-> kind, dlv |-> dlv[t], out |-> out[t]])
  /\ out' = [out EXCEPT ![t] = Blank]
  /\ UNCHANGED <<brokerVars, now, published, historyVars, consumerVars,
                 counterVars, backlog, dlv, reg, faults>>

PutRequeue(t) == Put(t, "requeue", "ack")
PutAck(t)     == Put(t, "ack", "exit")
PutReject(t)  == Put(t, "reject", "exit")

LoadDec(t) ==
  /\ Move(t, "exit", "unload")
  /\ reg' = [reg EXCEPT ![t] = in_progress]
  /\ UNCHANGED <<brokerVars, now, published, historyVars, consumerVars,
                 counterVars, msg_opr_queue, backlog, dlv, out, faults>>

StoreDec(t) ==
  /\ Move(t, "unload", "idle")
  /\ Update(t, reg[t] - 1)
  /\ dlv' = [dlv EXCEPT ![t] = NoDelivery]
  /\ reg' = [reg EXCEPT ![t] = 0]
  /\ UNCHANGED <<brokerVars, now, published, historyVars, consumerVars,
                 msg_opr_queue, backlog, out, faults>>
-----------------------------------------------------------------------------
(* Faults. *)

(* The broker loses the consumer's connection; the process learns it later. *)
Break ==
  /\ faults < MaxFaults
  /\ Connected /\ ~broken
  /\ broken' = TRUE
  /\ faults' = faults + 1
  /\ ReturnUnacked
  /\ UNCHANGED <<now, published, historyVars, pc, session, set_should_stop,
                 retry_left, publish_left, requested_stop, counterVars,
                 msg_opr_queue, backlog, threadVars>>

(* A new process: everything the old one held in memory is gone. *)
NewProcess ==
  /\ ReturnUnacked
  /\ pc' = "connect" /\ broken' = FALSE
  /\ set_should_stop' = FALSE /\ requested_stop' = FALSE
  /\ FreshRequeue
  /\ in_progress' = 0 /\ lost_update' = FALSE
  /\ msg_opr_queue' = <<>> /\ backlog' = <<>>
  /\ phase' = [t \in Thread |-> "idle"]
  /\ dlv' = [t \in Thread |-> NoDelivery]
  /\ out' = [t \in Thread |-> Blank]
  /\ reg' = [t \in Thread |-> 0]
  /\ UNCHANGED <<now, published, historyVars, session>>

Crash   == faults < MaxFaults /\ NewProcess /\ faults' = faults + 1
Restart == pc \in {"stopped", "dead"} /\ NewProcess /\ UNCHANGED faults
-----------------------------------------------------------------------------
Environment == \/ \E j \in Job : Publish(j) \/ PublishAgain(j)
               \/ \E c \in Copy : Expire(c)
               \/ Tick \/ StopWorker \/ Break \/ Crash \/ Restart

Consumer == \/ Reconnect \/ LoopStop \/ LoopIterate \/ IterEnd
            \/ ApplyAck \/ AckRaises
            \/ RequeueOk \/ RequeueUnseen
            \/ PublishRaises \/ RequeueFails \/ RequeueRaises
            \/ DrainTimeout \/ DrainRaises
            \/ \E c \in Copy : Deliver(c)

Executor(t) == \/ Take(t) \/ StoreInc(t) \/ Begin(t)
               \/ HandlerAnswers(t) \/ HandlerFails(t)
               \/ PutRequeue(t) \/ PutAck(t) \/ PutReject(t)
               \/ LoadDec(t) \/ StoreDec(t)

Next == Environment \/ Consumer \/ \E t \in Thread : Executor(t)

Spec == Init /\ [][Next]_vars

(* The scheduling the code relies on: its threads keep running, a handler    *)
(* ends, the retry queue's TTLs expire, the clock advances.  When messages   *)
(* can be pushed again and again, drain_events some day returns one of them, *)
(* and so it raises the error of a dead connection.  Nobody is obliged to    *)
(* restart a process, nor to publish.                                        *)
Fairness ==
  /\ WF_vars(Consumer)
  /\ \A t \in Thread : WF_vars(Executor(t))
  /\ WF_vars(\E c \in Copy : Expire(c))
  /\ SF_vars(\E c \in Copy : Deliver(c))
  /\ SF_vars(DrainRaises)
  /\ WF_vars(Tick)

FairSpec == Spec /\ Fairness
-----------------------------------------------------------------------------
(* Correctness. *)

(* Type invariant. *)
TypeOK ==
  /\ BrokerTypeOK
  /\ now \in Nat
  /\ published \subseteq Job /\ served \subseteq Job
  /\ dropped \subseteq Job /\ refused \subseteq Job
  /\ failures \in [Job -> 0 .. (MaxRetries + 1)]
  /\ pc \in ConsumerPoint
  /\ broken \in BOOLEAN /\ session \in Nat
  /\ set_should_stop \in BOOLEAN /\ requested_stop \in BOOLEAN
  /\ retry_left \in 0 .. PublishRetries /\ publish_left \in 0 .. PublishTries
  /\ in_progress \in Int /\ lost_update \in BOOLEAN
  /\ msg_opr_queue \in Seq(Operation)
  /\ backlog \in Seq(Delivery)
  /\ phase \in [Thread -> ThreadPoint]
  /\ dlv \in [Thread -> Delivery \cup {NoDelivery}]
  /\ out \in [Thread -> Message \cup {Blank}]
  /\ reg \in [Thread -> Int]
  /\ faults \in Nat

(* With publisher confirms no call is ever lost: until a handler has answered *)
(* it or its retries are exhausted, the broker stores it, whatever crash,     *)
(* reconnection or failed publish happens (_requeue is applied before         *)
(* _ack_message, line 238 before 256).                                        *)
NoJobLost == \A j \in published \ Settled : Holding(j) # {}

(* A call is given up for want of retries only after max_retries + 1 handler  *)
(* failures, over all its redeliveries and requeues; before that only when    *)
(* the coordinator's backoff raised on the count of failures it had already   *)
(* had (lines 232-252).                                                       *)
DroppedOnlyAfterRetries ==
  /\ \A j \in dropped : failures[j] > MaxRetries
  /\ \A j \in refused : \E n \in BackoffRaises : n < MaxRetries /\ n < failures[j]

(* Executor thread t leaves the checks of _on_message for the handler.        *)
Starts(t) == phase[t] = "begin" /\ phase'[t] = "exec"

(* No handler starts a call before its target_ts, on any delivery: a message  *)
(* with a retry count skips the target check (line 198), so its count must    *)
(* mean that the call was once due.                                           *)
NeverEarly == [][\A t \in Thread : Starts(t) => now >= Target[dlv[t].msg.job]]_vars

(* A delivery is put off only while its call is not due: neither execute_at,  *)
(* which holds a target or a backoff, nor target_ts delays a call further.    *)
PostponedOnlyBeforeTarget ==
  [][\A t \in Thread : phase[t] = "begin" /\ phase'[t] = "requeue"
                        => now < Target[dlv[t].msg.job]]_vars

(* As long as nothing has failed or been stopped, a settled call is never     *)
(* started again: each delivery has one owner, which acks it exactly once.    *)
NoRepeatWithoutFaults ==
  [][\A t \in Thread : Starts(t) /\ faults = 0 => dlv[t].msg.job \notin Settled]_vars

(* When on_iteration decides that this is the last iteration, no thread works *)
(* on a call it has counted, and every ack of such a call is in the queue     *)
(* about to be drained (lines 155-159), unless one thread's update of         *)
(* _in_progress has overwritten another's (lines 119, 127).                   *)
Working(t) == phase[t] \in ThreadPoint \ {"idle", "loaded"}
StopSeesIdle ==
  [][~set_should_stop /\ set_should_stop' /\ ~lost_update
       => \A t \in Thread : ~Working(t)]_vars

(* Copies the consumer holds that no thread and no operation will settle:     *)
(* those _on_message has raised on (lines 223, 233).                          *)
InHand(c) ==
  LET Current(d) == d.copy = c /\ d.session = session
  IN  \/ \E i \in DOMAIN backlog : Current(backlog[i])
      \/ \E i \in DOMAIN msg_opr_queue : Current(msg_opr_queue[i].dlv)
      \/ \E t \in Thread : /\ phase[t] \notin {"idle", "exit", "unload"}
                            /\ Current(dlv[t])
Orphans == {c \in Unacked : ~InHand(c)}

(* Every published call whose message _on_message does not raise on is        *)
(* eventually settled, unless the process stays stopped or dead or orphans    *)
(* fill the whole prefetch count of 2 * num_workers (lines 34, 101).          *)
Down    == pc \in {"stopped", "dead"}
Clogged == Cardinality(Orphans) >= 2 * Cardinality(Thread)
JobsSettle ==
  \A j \in Job \ (Undecodable \cup Unruled) :
    j \in published ~> (j \in Settled \/ Down \/ Clogged)

(* With a single executor thread a requested stop eventually takes effect.    *)
StopHappens == requested_stop ~> (~requested_stop \/ Down)

(* The server keeps the promise of AtLeastOnce.                               *)
Abstract == INSTANCE AtLeastOnce
              WITH settled <- Settled, queued <- {j \in Job : Holding(j) # {}}
KeepsAtLeastOnce == Abstract!Spec
=============================================================================
