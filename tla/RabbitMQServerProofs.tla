------------------------ MODULE RabbitMQServerProofs ------------------------
(***************************************************************************)
(* Proofs about RabbitMQServer, for any jobs, executor threads, retry      *)
(* limits and numbers of faults.                                           *)
(***************************************************************************)
EXTENDS RabbitMQServer, FiniteSetTheorems, TLAPS

(***************************************************************************)
(* The type invariant, by groups of variables, with what makes it          *)
(* inductive: what the broker stores, and what a busy thread or a requeue  *)
(* holds, is a message.                                                    *)
(***************************************************************************)
BrokerInv ==
  /\ BrokerTypeOK
  /\ \A c \in Copy : Stored(c) => msg[c] \in Message

RecordInv ==
  /\ now \in Nat /\ faults \in Nat /\ in_progress \in Int
  /\ published \subseteq Job /\ served \subseteq Job
  /\ dropped \subseteq Job /\ refused \subseteq Job
  /\ failures \in [Job -> 0 .. (MaxRetries + 1)]

ConsumerInv ==
  /\ pc \in ConsumerPoint
  /\ broken \in BOOLEAN /\ session \in Nat
  /\ set_should_stop \in BOOLEAN /\ requested_stop \in BOOLEAN
  /\ lost_update \in BOOLEAN
  /\ retry_left \in 0 .. PublishRetries
  /\ publish_left \in 0 .. PublishTries

QueueInv ==
  /\ msg_opr_queue \in Seq(Operation)
  /\ backlog \in Seq(Delivery)
  /\ \A i \in DOMAIN msg_opr_queue :
        msg_opr_queue[i].op = "requeue" => msg_opr_queue[i].out \in Message

ThreadInv ==
  /\ phase \in [Thread -> ThreadPoint]
  /\ dlv \in [Thread -> Delivery \cup {NoDelivery}]
  /\ out \in [Thread -> Message \cup {Blank}]
  /\ reg \in [Thread -> Int]
  /\ \A t \in Thread : phase[t] # "idle" => dlv[t] \in Delivery
  /\ \A t \in Thread : phase[t] = "requeue" => out[t] \in Message

TypeInv == BrokerInv /\ RecordInv /\ ConsumerInv /\ QueueInv /\ ThreadInv

LEMMA TypeInvTypeOK == TypeInv => TypeOK
  BY DEF TypeInv, BrokerInv, RecordInv, ConsumerInv, QueueInv, ThreadInv, TypeOK

LEMMA EmptySeqType == \A S : <<>> \in Seq(S)
  OBVIOUS

LEMMA RetriedMessage ==
  ASSUME NEW m \in Message
  PROVE  /\ Retried(m) \in Message
         /\ Retried(m).job = m.job
         /\ Retried(m).retry_cnt = m.retry_cnt + 1
         /\ Retried(m).execute_at = 5 + 3 * m.retry_cnt
<1> DEFINE b == Backoff(m.retry_cnt)
<1>1. m.retry_cnt + 1 \in Nat /\ b \in Nat
  BY DEF Message, Backoff
<1>2. Retried(m) = [m EXCEPT !.retry_cnt = m.retry_cnt + 1, !.execute_at = b]
  BY DEF Retried
<1>3. b = 5 + 3 * m.retry_cnt
  BY DEF Backoff
<1> HIDE DEF b
<1> QED
  BY <1>1, <1>2, <1>3 DEF Message

LEMMA CallMessage == \A j \in Job : Call(j) \in Message
  BY DEF Call, Message

LEMMA InitTypeInv == Init => TypeInv
<1> SUFFICES ASSUME Init PROVE TypeInv
  OBVIOUS
<1>1. BrokerInv
  BY DEF Init, BrokerInit, BrokerInv, BrokerTypeOK, Place, Stored
<1>2. RecordInv
  BY ServerAssumption DEF Init, RecordInv
<1>3. ConsumerInv
  <2>1. /\ retry_left \in 0 .. PublishRetries /\ publish_left \in 0 .. PublishTries
        /\ session \in Nat
    BY ServerAssumption DEF Init
  <2>2. pc \in ConsumerPoint
    BY DEF Init, ConsumerPoint
  <2>3. /\ broken \in BOOLEAN /\ set_should_stop \in BOOLEAN
        /\ requested_stop \in BOOLEAN /\ lost_update \in BOOLEAN
    BY Zenon DEF Init
  <2> QED
    BY <2>1, <2>2, <2>3 DEF ConsumerInv
<1>4. QueueInv
  BY EmptySeqType DEF Init, QueueInv
<1>5. ThreadInv
  BY DEF Init, ThreadInv, ThreadPoint, NoDelivery
<1> QED
  BY <1>1, <1>2, <1>3, <1>4, <1>5 DEF TypeInv

LEMMA BrokerStep == TypeInv /\ [Next]_vars => BrokerInv'
<1> SUFFICES ASSUME TypeInv, [Next]_vars PROVE BrokerInv'
  OBVIOUS
<1> USE DEF BrokerInv, BrokerTypeOK, Place, Stored
<1>1. BrokerInv
  BY DEF TypeInv
<1>2. CASE UNCHANGED brokerVars
  BY <1>1, <1>2 DEF brokerVars
<1>3. CASE ReturnUnacked
  BY <1>1, <1>3 DEF ReturnUnacked
<1>4. ASSUME NEW c \in Copy, NEW q \in {"ready", "retry"}, NEW m \in Message, Store(c, q, m),
             superseded' \subseteq Copy
      PROVE  BrokerInv'
  BY <1>1, <1>4 DEF Store
<1>5. CASE \E j \in Job : Publish(j) \/ PublishAgain(j)
  <2> PICK j \in Job, c \in Copy :
         Store(c, "ready", Call(j)) /\ UNCHANGED superseded
    BY <1>5 DEF Publish, PublishAgain
  <2> QED
    BY <1>1, <1>4, CallMessage
<1>6. ASSUME NEW c \in Copy, DeadLetter(c) \/ Push(c, Prefetch) PROVE BrokerInv'
  BY <1>1, <1>6 DEF DeadLetter, Push
<1>7. CASE \E c \in Copy : Expire(c) \/ Deliver(c)
  BY <1>6, <1>7 DEF Expire, Deliver
<1>8. ASSUME msg_opr_queue # <<>>
      PROVE  /\ Head(msg_opr_queue) \in Operation
             /\ Head(msg_opr_queue).op = "requeue" => Head(msg_opr_queue).out \in Message
  BY <1>8 DEF TypeInv, QueueInv
<1>9. CASE ApplyAck
  <2>1. Head(msg_opr_queue).dlv.copy \in Copy
    BY <1>8, <1>9 DEF ApplyAck, NextOp, Operation, Delivery
  <2> DEFINE c == Head(msg_opr_queue).dlv.copy
  <2>2. CASE Settle(c)
    <3> HIDE DEF c
    <3> QED
      BY <1>1, <2>1, <2>2 DEF Settle
  <2> QED
    BY <1>2, <1>9, <2>2 DEF ApplyAck
<1>10. CASE RequeueOk \/ PublishRaises
  <2>1. Head(msg_opr_queue).op = "requeue" /\ msg_opr_queue # <<>>
    BY <1>10 DEF RequeueOk, PublishRaises, NextOp
  <2>2. Head(msg_opr_queue).dlv.copy \in Copy
    BY <1>8, <2>1 DEF Operation, Delivery
  <2>3. superseded' \subseteq Copy
    BY <1>1, <1>10, <2>2 DEF RequeueOk, PublishRaises, brokerVars
  <2>4. \/ \E c \in Copy : Store(c, "retry", Head(msg_opr_queue).out)
        \/ UNCHANGED brokerVars
    BY <1>10 DEF RequeueOk, PublishRaises
  <2> QED
    BY <1>2, <1>4, <1>8, <2>1, <2>3, <2>4
<1>11. CASE Environment
  BY <1>2, <1>3, <1>5, <1>7, <1>11
     DEF Environment, Tick, StopWorker, Break, Crash, Restart, NewProcess
<1>12. CASE Consumer
  BY <1>2, <1>3, <1>7, <1>9, <1>10, <1>12
     DEF Consumer, Reconnect, LoopStop, LoopIterate, IterEnd, AckRaises, RequeueUnseen,
         RequeueFails, RequeueRaises, DrainTimeout, DrainRaises, EndSession
<1>13. CASE \E t \in Thread : Executor(t)
  BY <1>2, <1>13
     DEF Executor, Take, StoreInc, Begin, HandlerAnswers, HandlerFails, PutRequeue, PutAck,
         PutReject, Put, LoadDec, StoreDec
<1>14. CASE UNCHANGED vars
  BY <1>2, <1>14 DEF vars
<1> QED
  BY <1>11, <1>12, <1>13, <1>14 DEF Next

LEMMA RecordStep == TypeInv /\ [Next]_vars => RecordInv'
<1> SUFFICES ASSUME TypeInv, [Next]_vars PROVE RecordInv'
  OBVIOUS
<1> USE DEF RecordInv
<1>1. RecordInv /\ ThreadInv /\ Epoch \in Nat /\ MaxRetries \in Nat
  BY ServerAssumption DEF TypeInv
<1> USE DEF historyVars, counterVars
<1>2. CASE UNCHANGED <<now, faults, in_progress, published, historyVars>>
  BY <1>1, <1>2
<1> DEFINE Kept == UNCHANGED <<now, in_progress, published, historyVars>>
<1>a. CASE Kept /\ (faults' = faults \/ faults' = faults + 1)
  BY <1>1, <1>a
<1>b. ASSUME NEW j \in Job, Publish(j) \/ PublishAgain(j) PROVE RecordInv'
  BY <1>1, <1>b DEF Publish, PublishAgain
<1>c. CASE Tick
  BY <1>1, <1>c DEF Tick
<1>d. CASE NewProcess /\ (faults' = faults \/ faults' = faults + 1)
  <2>1. /\ UNCHANGED <<now, published, historyVars>>
        /\ in_progress' = 0
    BY <1>d DEF NewProcess
  <2> QED
    BY <1>1, <1>d, <2>1
<1>3. CASE Environment
  <2>1. CASE \E c \in Copy : Expire(c)
    BY <1>2, <2>1 DEF Expire
  <2>2. CASE StopWorker \/ Break
    BY <1>a, <2>2 DEF StopWorker, Break
  <2>3. CASE Crash \/ Restart
    BY <1>d, <2>3 DEF Crash, Restart
  <2> QED
    BY <1>3, <1>b, <1>c, <2>1, <2>2, <2>3 DEF Environment
<1>4. CASE Consumer
  <2>1. CASE RequeueUnseen \/ PublishRaises \/ RequeueFails \/ RequeueRaises
    BY <1>a, <2>1 DEF RequeueUnseen, PublishRaises, RequeueFails, RequeueRaises
  <2>2. CASE \/ Reconnect \/ LoopStop \/ LoopIterate \/ IterEnd \/ ApplyAck \/ AckRaises
             \/ RequeueOk \/ DrainTimeout \/ DrainRaises \/ \E c \in Copy : Deliver(c)
    <3>1. UNCHANGED <<now, faults, in_progress, published, historyVars>>
      BY <2>2 DEF Reconnect, LoopStop, LoopIterate, IterEnd, ApplyAck, AckRaises,
                  RequeueOk, DrainTimeout, DrainRaises, Deliver
    <3> QED
      BY <1>2, <3>1
  <2> QED
    BY <1>4, <2>1, <2>2 DEF Consumer
<1>5. ASSUME NEW t \in Thread, HandlerAnswers(t) \/ HandlerFails(t) PROVE RecordInv'
  <2>1. dlv[t].msg.job \in Job
    BY <1>1, <1>5 DEF ThreadInv, HandlerAnswers, HandlerFails, Move, Delivery, Message
  <2>2. failures' \in [Job -> 0 .. (MaxRetries + 1)]
    BY <1>1, <1>5, <2>1 DEF HandlerAnswers, HandlerFails
  <2> QED
    BY <1>1, <1>5, <2>1, <2>2 DEF HandlerAnswers, HandlerFails
<1>6. ASSUME NEW t \in Thread, StoreInc(t) \/ StoreDec(t) PROVE RecordInv'
  BY <1>1, <1>6 DEF StoreInc, StoreDec, Update, ThreadInv
<1>7. CASE \E t \in Thread : Executor(t)
  BY <1>2, <1>5, <1>6, <1>7
     DEF Executor, Take, Begin, PutRequeue, PutAck, PutReject, Put, LoadDec
<1>8. CASE UNCHANGED vars
  BY <1>2, <1>8 DEF vars
<1> QED
  BY <1>3, <1>4, <1>7, <1>8 DEF Next

LEMMA ConsumerStep == TypeInv /\ [Next]_vars => ConsumerInv'
<1> SUFFICES ASSUME TypeInv, [Next]_vars PROVE ConsumerInv'
  OBVIOUS
<1>1. ConsumerInv /\ PublishRetries \in Nat /\ PublishTries \in Nat
  BY ServerAssumption DEF TypeInv
<1>2. CASE UNCHANGED <<consumerVars, lost_update>>
  BY <1>1, <1>2 DEF ConsumerInv, consumerVars
<1>3. ASSUME pc' \in ConsumerPoint,
             \/ broken' \in BOOLEAN /\ set_should_stop' \in BOOLEAN
             \/ UNCHANGED <<broken, set_should_stop>>,
             requested_stop' \in BOOLEAN \/ UNCHANGED requested_stop,
             lost_update' \in BOOLEAN \/ UNCHANGED lost_update,
             session' = session \/ session' = session + 1,
             \/ UNCHANGED <<retry_left, publish_left>>
             \/ FreshRequeue
             \/ /\ PublishesLeft
                /\ retry_left' = retry_left /\ publish_left' = publish_left - 1
             \/ /\ AttemptsLeft
                /\ retry_left' = retry_left - 1 /\ publish_left' = PublishTries
      PROVE  ConsumerInv'
  <2>1. /\ session' \in Nat
        /\ retry_left' \in 0 .. PublishRetries /\ publish_left' \in 0 .. PublishTries
    BY <1>1, <1>3 DEF ConsumerInv, FreshRequeue, PublishesLeft, AttemptsLeft
  <2>2. /\ broken' \in BOOLEAN /\ set_should_stop' \in BOOLEAN
        /\ requested_stop' \in BOOLEAN /\ lost_update' \in BOOLEAN
    BY <1>1, <1>3, Zenon DEF ConsumerInv
  <2> QED
    BY <1>3, <2>1, <2>2 DEF ConsumerInv
<1>4. ASSUME NEW next \in ConsumerPoint, EndSession(next), UNCHANGED lost_update
      PROVE  ConsumerInv'
  BY <1>3, <1>4, Zenon DEF EndSession
<1>5. CASE LoopStop \/ AckRaises \/ RequeueRaises \/ DrainRaises
  <2>1. {"connect", "stopped", "dead"} \subseteq ConsumerPoint
    BY DEF ConsumerPoint
  <2> QED
    BY <1>4, <1>5, <2>1 DEF LoopStop, AckRaises, RequeueRaises, DrainRaises, counterVars
<1>6. CASE StopWorker \/ Break
  BY <1>1, <1>3, <1>6, Zenon DEF StopWorker, Break, ConsumerInv, counterVars
<1>7. CASE NewProcess
  <2>1. "connect" \in ConsumerPoint
    BY DEF ConsumerPoint
  <2> QED
    BY <1>3, <1>7, <2>1, Zenon DEF NewProcess
<1>8. CASE Reconnect \/ IterEnd \/ DrainTimeout \/ \E c \in Copy : Deliver(c)
  BY <1>3, <1>8 DEF Reconnect, IterEnd, DrainTimeout, Deliver, ConsumerPoint, counterVars
<1>9. CASE LoopIterate
  <2>1. "iter" \in ConsumerPoint /\ LastIteration \in BOOLEAN
    BY DEF ConsumerPoint, LastIteration
  <2>2. broken' \in BOOLEAN /\ set_should_stop' \in BOOLEAN
    BY <1>1, <1>9, <2>1, Zenon DEF ConsumerInv, LoopIterate
  <2> QED
    BY <1>3, <1>9, <2>1, <2>2, Zenon DEF LoopIterate, counterVars
<1>10. CASE RequeueOk \/ RequeueUnseen \/ PublishRaises \/ RequeueFails
  <2>1. /\ pc' \in ConsumerPoint
        /\ UNCHANGED <<broken, session, set_should_stop, requested_stop, lost_update>>
    BY <1>1, <1>10
       DEF RequeueOk, RequeueUnseen, PublishRaises, RequeueFails, ConsumerInv, counterVars
  <2>2. \/ FreshRequeue
        \/ /\ PublishesLeft
           /\ retry_left' = retry_left /\ publish_left' = publish_left - 1
        \/ /\ AttemptsLeft
           /\ retry_left' = retry_left - 1 /\ publish_left' = PublishTries
    BY <1>10 DEF RequeueOk, RequeueUnseen, PublishRaises, RequeueFails
  <2> QED
    BY <1>3, <2>1, <2>2
<1>11. CASE Environment
  BY <1>2, <1>6, <1>7, <1>11 DEF Environment, Publish, PublishAgain, Tick, Expire, Crash, Restart,
                                       counterVars
<1>12. CASE Consumer
  BY <1>2, <1>5, <1>8, <1>9, <1>10, <1>12 DEF Consumer, ApplyAck, counterVars
<1>13. CASE \E t \in Thread : Executor(t)
  <2>1. CASE UNCHANGED lost_update
    BY <1>2, <1>13, <2>1
       DEF Executor, Take, StoreInc, Begin, HandlerAnswers, HandlerFails, PutRequeue,
           PutAck, PutReject, Put, LoadDec, StoreDec
  <2>2. CASE \E t \in Thread : StoreInc(t) \/ StoreDec(t)
    <3>1. lost_update' \in BOOLEAN /\ UNCHANGED consumerVars
      BY <2>2 DEF StoreInc, StoreDec, Update
    <3> QED
      BY <1>1, <3>1, Zenon DEF ConsumerInv, consumerVars
  <2> QED
    BY <1>13, <2>1, <2>2
       DEF Executor, Take, Begin, HandlerAnswers, HandlerFails, PutRequeue, PutAck,
           PutReject, Put, LoadDec, counterVars
<1>14. CASE UNCHANGED vars
  BY <1>2, <1>14 DEF vars, counterVars
<1> QED
  BY <1>11, <1>12, <1>13, <1>14 DEF Next

LEMMA QueueStep == TypeInv /\ [Next]_vars => QueueInv'
<1> SUFFICES ASSUME TypeInv, [Next]_vars PROVE QueueInv'
  OBVIOUS
<1> USE DEF QueueInv
<1>1. QueueInv
  BY DEF TypeInv
<1>2. CASE UNCHANGED <<msg_opr_queue, backlog>>
  BY <1>1, <1>2
<1>3. ASSUME msg_opr_queue # <<>>, msg_opr_queue' = Tail(msg_opr_queue), UNCHANGED backlog
      PROVE  QueueInv'
  <2>1. msg_opr_queue' \in Seq(Operation)
    BY <1>1, <1>3
  <2>2. \A i \in DOMAIN msg_opr_queue' : /\ i + 1 \in DOMAIN msg_opr_queue
                                         /\ msg_opr_queue'[i] = msg_opr_queue[i + 1]
    BY <1>1, <1>3
  <2> QED
    BY <1>1, <1>3, <2>1, <2>2
<1>4. CASE msg_opr_queue' = <<>> /\ backlog' = <<>>
  BY <1>4, EmptySeqType
<1>5. CASE Environment
  BY <1>2, <1>4, <1>5
     DEF Environment, Publish, PublishAgain, Tick, Expire, StopWorker, Break, Crash, Restart, NewProcess
<1>6. ASSUME NEW c \in Copy, Deliver(c) PROVE QueueInv'
  <2>1. [copy |-> c, session |-> session, msg |-> msg[c]] \in Delivery
    BY <1>6 DEF Deliver, Push, Delivery, TypeInv, BrokerInv, Stored, ConsumerInv
  <2> QED
    BY <1>1, <1>6, <2>1 DEF Deliver
<1>7. CASE Consumer
  BY <1>2, <1>3, <1>6, <1>7
     DEF Consumer, Reconnect, LoopStop, LoopIterate, IterEnd, ApplyAck, AckRaises, RequeueOk,
         RequeueUnseen, PublishRaises, RequeueFails, RequeueRaises, DrainTimeout, DrainRaises, NextOp
<1>8. ASSUME NEW t \in Thread, Take(t) PROVE QueueInv'
  BY <1>1, <1>8 DEF Take
<1>9. ASSUME NEW t \in Thread, NEW kind \in {"requeue", "ack", "reject"},
             NEW to \in {"ack", "exit"}, Put(t, kind, to)
      PROVE  QueueInv'
  <2> DEFINE o == [op |-> kind, dlv |-> dlv[t], out |-> out[t]]
  <2>1. o \in Operation /\ (kind = "requeue" => o.out \in Message)
    BY <1>9 DEF Put, Move, TypeInv, ThreadInv, Operation
  <2>2. msg_opr_queue' = Append(msg_opr_queue, o) /\ UNCHANGED backlog /\ o.op = kind
    BY <1>9 DEF Put, Enqueue
  <2> HIDE DEF o
  <2> QED
    BY <1>1, <2>1, <2>2
<1>10. CASE \E t \in Thread : Executor(t)
  BY <1>2, <1>8, <1>9, <1>10
     DEF Executor, StoreInc, Begin, HandlerAnswers, HandlerFails, PutRequeue, PutAck,
         PutReject, LoadDec, StoreDec
<1>11. CASE UNCHANGED vars
  BY <1>2, <1>11 DEF vars
<1> QED
  BY <1>5, <1>7, <1>10, <1>11 DEF Next

LEMMA ThreadStep == TypeInv /\ [Next]_vars => ThreadInv'
<1> SUFFICES ASSUME TypeInv, [Next]_vars PROVE ThreadInv'
  OBVIOUS
<1> USE DEF ThreadInv
<1>1. ThreadInv
  BY DEF TypeInv
<1>2. CASE UNCHANGED threadVars
  BY <1>1, <1>2 DEF threadVars
<1>3. CASE NewProcess
  BY <1>3 DEF NewProcess, ThreadPoint, NoDelivery
<1>4. CASE Environment
  BY <1>2, <1>3, <1>4
     DEF Environment, Publish, PublishAgain, Tick, Expire, StopWorker, Break, Crash, Restart
<1>5. CASE Consumer
  BY <1>2, <1>5
     DEF Consumer, Reconnect, LoopStop, LoopIterate, IterEnd, ApplyAck, AckRaises, RequeueOk,
         RequeueUnseen, PublishRaises, RequeueFails, RequeueRaises, DrainTimeout, DrainRaises, Deliver
<1>6. ASSUME NEW t \in Thread, Take(t) PROVE ThreadInv'
  <2>1. Head(backlog) \in Delivery /\ in_progress \in Int
    BY <1>6 DEF Take, TypeInv, QueueInv, RecordInv
  <2> QED
    BY <1>1, <1>6, <2>1 DEF Take, Move, ThreadPoint
<1>7. ASSUME NEW t \in Thread, StoreInc(t) \/ HandlerAnswers(t) \/ LoadDec(t) \/ StoreDec(t)
      PROVE  ThreadInv'
  BY <1>1, <1>7
     DEF StoreInc, HandlerAnswers, LoadDec, StoreDec, Move, ThreadPoint, TypeInv, RecordInv
<1>8. ASSUME NEW t \in Thread, Begin(t) PROVE ThreadInv'
  <2>1. /\ dlv[t].msg \in Message
        /\ Delayed(dlv[t].msg) \in Message
    BY <1>1, <1>8, ServerAssumption DEF Begin, Move, Delivery, Message, Delayed
  <2> QED
    BY <1>1, <1>8, <2>1 DEF Begin, Move, ThreadPoint
<1>9. ASSUME NEW t \in Thread, HandlerFails(t) PROVE ThreadInv'
  <2>1. dlv[t].msg \in Message
    BY <1>1, <1>9 DEF HandlerFails, Move, Delivery
  <2>2. Retried(dlv[t].msg) \in Message
    BY <2>1, RetriedMessage
  <2> QED
    BY <1>1, <1>9, <2>2 DEF HandlerFails, Move, ThreadPoint
<1>10. ASSUME NEW t \in Thread, PutRequeue(t) \/ PutAck(t) \/ PutReject(t) PROVE ThreadInv'
  BY <1>1, <1>10 DEF PutRequeue, PutAck, PutReject, Put, Move, ThreadPoint
<1>11. CASE \E t \in Thread : Executor(t)
  BY <1>6, <1>7, <1>8, <1>9, <1>10, <1>11 DEF Executor
<1>12. CASE UNCHANGED vars
  BY <1>2, <1>12 DEF vars
<1> QED
  BY <1>4, <1>5, <1>11, <1>12 DEF Next

LEMMA SpecTypeInv == Spec => []TypeInv
<1>1. Init => TypeInv
  BY InitTypeInv
<1>2. TypeInv /\ [Next]_vars => TypeInv'
  BY BrokerStep, RecordStep, ConsumerStep, QueueStep, ThreadStep DEF TypeInv
<1> QED
  BY <1>1, <1>2, PTL DEF Spec

(* The variables always have their types (the runs check it as TypeOK).       *)
THEOREM TypeCorrect == Spec => []TypeOK
  BY SpecTypeInv, TypeInvTypeOK, PTL
-----------------------------------------------------------------------------
(***************************************************************************)
(* Retry counts and execute_at headers can be trusted, wherever the        *)
(* message is: it is a published call's, a count says how often the call   *)
(* has failed at least, a positive count that the call was once due, and   *)
(* execute_at is never later than the target time unless it is long past.  *)
(***************************************************************************)
Good(m, clock, failed, known) ==
  /\ m.job \in known
  /\ m.retry_cnt <= failed[m.job]
  /\ m.retry_cnt > 0 => clock >= Target[m.job]
  /\ m.execute_at <= Epoch \/ m.execute_at <= Target[m.job]

GoodMsg(m) == Good(m, now, failures, published)

StoredInv == \A c \in Copy : Stored(c) => GoodMsg(msg[c])

BusyInv == \A t \in Thread :
  /\ phase[t] # "idle" => GoodMsg(dlv[t].msg)
  /\ phase[t] = "exec" => now >= Target[dlv[t].msg.job]
  /\ phase[t] = "requeue" => GoodMsg(out[t])

PendingInv ==
  /\ \A i \in DOMAIN backlog : GoodMsg(backlog[i].msg)
  /\ \A i \in DOMAIN msg_opr_queue :
        msg_opr_queue[i].op = "requeue" => GoodMsg(msg_opr_queue[i].out)

MessageInv ==
  now >= Epoch /\ StoredInv /\ BusyInv /\ PendingInv /\ DroppedOnlyAfterRetries
LEMMA InitMessageInv == Init => MessageInv
<1> SUFFICES ASSUME Init PROVE MessageInv
  OBVIOUS
<1>1. now >= Epoch
  BY ServerAssumption DEF Init
<1>2. StoredInv /\ BusyInv
  BY DEF Init, BrokerInit, StoredInv, BusyInv, Stored
<1>3. PendingInv /\ DroppedOnlyAfterRetries
  BY DEF Init, PendingInv, DroppedOnlyAfterRetries
<1> QED
  BY <1>1, <1>2, <1>3 DEF MessageInv

(* Time and failure counts only grow, so a good message stays good. *)
LEMMA Growth ==
  TypeInv /\ [Next]_vars => /\ now' >= now
                            /\ \A j \in Job : failures'[j] >= failures[j]
                            /\ published \subseteq published' /\ Settled \subseteq Settled'
<1> SUFFICES ASSUME TypeInv, [Next]_vars
             PROVE  /\ now' >= now
                    /\ \A j \in Job : failures'[j] >= failures[j]
                    /\ published \subseteq published' /\ Settled \subseteq Settled'
  OBVIOUS
<1>1. now \in Nat /\ failures \in [Job -> Nat] /\ MaxRetries \in Nat
  BY ServerAssumption DEF TypeInv, RecordInv
<1> USE DEF Settled
<1>2. CASE UNCHANGED <<now, failures, published, served, dropped, refused>>
  BY <1>1, <1>2
<1>3. CASE Tick
  BY <1>1, <1>3 DEF Tick, historyVars
<1>4. CASE \E j \in Job : Publish(j) \/ PublishAgain(j)
  BY <1>1, <1>4 DEF Publish, PublishAgain, historyVars
<1>5. ASSUME NEW t \in Thread, HandlerAnswers(t) \/ HandlerFails(t)
      PROVE  /\ now' >= now
             /\ \A j \in Job : failures'[j] >= failures[j]
             /\ published \subseteq published' /\ Settled \subseteq Settled'
  BY <1>1, <1>5 DEF HandlerAnswers, HandlerFails
<1>6. CASE Environment
  BY <1>2, <1>3, <1>4, <1>6
     DEF Environment, Expire, StopWorker, Break, Crash, Restart, NewProcess, historyVars
<1>7. CASE Consumer
  BY <1>2, <1>7
     DEF Consumer, Reconnect, LoopStop, LoopIterate, IterEnd, ApplyAck, AckRaises, RequeueOk,
         RequeueUnseen, PublishRaises, RequeueFails, RequeueRaises, DrainTimeout, DrainRaises, Deliver,
         historyVars
<1>8. CASE \E t \in Thread : Executor(t)
  BY <1>2, <1>5, <1>8
     DEF Executor, Take, StoreInc, Begin, PutRequeue, PutAck, PutReject, Put, LoadDec,
         StoreDec, historyVars
<1>9. CASE UNCHANGED vars
  BY <1>2, <1>9 DEF vars, historyVars
<1> QED
  BY <1>6, <1>7, <1>8, <1>9 DEF Next

LEMMA GoodMsgKept ==
  TypeInv /\ [Next]_vars =>
    \A m \in Message : GoodMsg(m) => Good(m, now', failures', published')
<1> SUFFICES ASSUME TypeInv, [Next]_vars, NEW m \in Message, GoodMsg(m)
             PROVE  Good(m, now', failures', published')
  OBVIOUS
<1>1. /\ now \in Nat /\ failures \in [Job -> 0 .. (MaxRetries + 1)] /\ MaxRetries \in Nat
      /\ Target \in [Job -> Nat]
      /\ m.job \in Job /\ m.retry_cnt \in Nat
  BY ServerAssumption DEF TypeInv, RecordInv, Message
<1>2. now' >= now /\ failures'[m.job] >= failures[m.job]
  BY <1>1, Growth
<1>3. now' \in Nat /\ failures'[m.job] \in Nat /\ failures[m.job] \in Nat
      /\ Target[m.job] \in Nat
  BY <1>1, RecordStep DEF RecordInv
<1>4. published \subseteq published'
  BY Growth
<1> QED
  BY <1>1, <1>2, <1>3, <1>4 DEF GoodMsg, Good

LEMMA HeadOperation ==
  ASSUME TypeInv, msg_opr_queue # <<>>
  PROVE  /\ Head(msg_opr_queue) \in Operation
         /\ Head(msg_opr_queue).dlv \in Delivery
         /\ Head(msg_opr_queue).dlv.copy \in Copy
         /\ Head(msg_opr_queue).dlv.msg \in Message
         /\ Head(msg_opr_queue).op = "requeue" => Head(msg_opr_queue).out \in Message
<1>1. /\ Head(msg_opr_queue) \in Operation
      /\ Head(msg_opr_queue).op = "requeue" => Head(msg_opr_queue).out \in Message
  BY DEF TypeInv, QueueInv
<1> QED
  BY <1>1 DEF Operation, Delivery

LEMMA StoredStep == TypeInv /\ MessageInv /\ [Next]_vars => StoredInv'
<1> SUFFICES ASSUME TypeInv, MessageInv, [Next]_vars PROVE StoredInv'
  OBVIOUS
<1>1. StoredInv /\ BrokerInv /\ MessageInv
  BY DEF TypeInv, MessageInv
<1>2. ASSUME NEW c \in Copy, Stored(c)', Stored(c), msg'[c] = msg[c] PROVE GoodMsg(msg[c])'
  BY <1>1, <1>2, GoodMsgKept DEF StoredInv, BrokerInv, GoodMsg
<1>3. ASSUME \A c \in Copy : Stored(c)' => Stored(c) /\ msg'[c] = msg[c] PROVE StoredInv'
  BY <1>2, <1>3 DEF StoredInv
<1>4. ASSUME NEW c \in Copy, NEW q \in {"ready", "retry"}, NEW m \in Message, Store(c, q, m),
             Good(m, now', failures', published')
      PROVE  StoredInv'
  <2>1. \A d \in Copy \ {c} : place'[d] = place[d] /\ msg'[d] = msg[d]
    BY <1>1, <1>4 DEF Store, BrokerInv, BrokerTypeOK
  <2>2. msg'[c] = m
    BY <1>1, <1>4 DEF Store, BrokerInv, BrokerTypeOK
  <2>3. GoodMsg(msg[c])'
    BY <1>4, <2>2 DEF GoodMsg
  <2> QED
    BY <1>2, <2>1, <2>3 DEF StoredInv, Stored
<1>5. CASE UNCHANGED brokerVars
  BY <1>3, <1>5 DEF brokerVars, Stored
<1>6. CASE ReturnUnacked
  BY <1>1, <1>3, <1>6 DEF ReturnUnacked, Stored, BrokerInv, BrokerTypeOK
<1>7. CASE \E c \in Copy : DeadLetter(c) \/ Push(c, Prefetch) \/ Settle(c)
  BY <1>1, <1>3, <1>7 DEF DeadLetter, Push, Settle, Stored, BrokerInv, BrokerTypeOK
<1>8. CASE \E j \in Job : Publish(j) \/ PublishAgain(j)
  <2> PICK j \in Job, c \in Copy :
         /\ Publish(j) \/ PublishAgain(j)
         /\ Store(c, "ready", Call(j))
    BY <1>8 DEF Publish, PublishAgain
  <2>1. Good(Call(j), now', failures', published')
    BY ServerAssumption
       DEF Call, Good, TypeInv, RecordInv, Publish, PublishAgain, historyVars
  <2> QED
    BY <1>4, <2>1, CallMessage
<1>9. CASE RequeueOk \/ PublishRaises
  <2>1. Head(msg_opr_queue).op = "requeue" /\ msg_opr_queue # <<>>
    BY <1>9 DEF RequeueOk, PublishRaises, NextOp
  <2>2. /\ Head(msg_opr_queue).out \in Message
        /\ Good(Head(msg_opr_queue).out, now', failures', published')
    BY <1>1, <2>1, GoodMsgKept DEF TypeInv, QueueInv, MessageInv, PendingInv
  <2>3. \/ \E c \in Copy : Store(c, "retry", Head(msg_opr_queue).out)
        \/ UNCHANGED brokerVars
    BY <1>9 DEF RequeueOk, PublishRaises
  <2> QED
    BY <1>4, <1>5, <2>2, <2>3
<1>10. CASE ApplyAck
  <2>1. msg_opr_queue # <<>> /\ Head(msg_opr_queue).dlv.copy \in Copy
    BY <1>10, HeadOperation DEF ApplyAck, NextOp
  <2> QED
    BY <1>5, <1>7, <1>10, <2>1 DEF ApplyAck
<1>11. CASE Environment
  BY <1>5, <1>6, <1>7, <1>8, <1>11
     DEF Environment, Tick, Expire, StopWorker, Break, Crash, Restart, NewProcess
<1>12. CASE Consumer
  BY <1>5, <1>6, <1>7, <1>9, <1>10, <1>12
     DEF Consumer, Reconnect, LoopStop, LoopIterate, IterEnd, AckRaises, RequeueUnseen,
         RequeueFails, RequeueRaises, DrainTimeout, DrainRaises, Deliver, EndSession
<1>13. CASE \E t \in Thread : Executor(t)
  BY <1>5, <1>13
     DEF Executor, Take, StoreInc, Begin, HandlerAnswers, HandlerFails, PutRequeue, PutAck,
         PutReject, Put, LoadDec, StoreDec
<1>14. CASE UNCHANGED vars
  BY <1>5, <1>14 DEF vars
<1> QED
  BY <1>11, <1>12, <1>13, <1>14 DEF Next
LEMMA BusyStep == TypeInv /\ MessageInv /\ [Next]_vars => BusyInv'
<1> DEFINE Fine(t) == /\ phase'[t] # "idle" => Good(dlv'[t].msg, now', failures', published')
                      /\ phase'[t] = "exec" => now' >= Target[dlv'[t].msg.job]
                      /\ phase'[t] = "requeue" => Good(out'[t], now', failures', published')
<1> SUFFICES ASSUME TypeInv, MessageInv, [Next]_vars, NEW t \in Thread PROVE Fine(t)
  BY DEF BusyInv, GoodMsg
<1>1. /\ ThreadInv /\ PendingInv
      /\ phase[t] # "idle" => /\ GoodMsg(dlv[t].msg) /\ dlv[t] \in Delivery
                             /\ dlv[t].msg \in Message /\ dlv[t].msg.job \in Job
      /\ phase[t] = "exec" => now >= Target[dlv[t].msg.job]
      /\ phase[t] = "requeue" => GoodMsg(out[t]) /\ out[t] \in Message
  BY DEF TypeInv, ThreadInv, MessageInv, BusyInv, Delivery, Message
<1>2. /\ now \in Nat /\ now' \in Nat /\ now' >= now /\ Target \in [Job -> Nat]
      /\ failures \in [Job -> Nat] /\ failures' \in [Job -> Nat]
      /\ MaxRetries \in Nat /\ Epoch \in Nat /\ Epoch >= 5 + 3 * MaxRetries /\ now >= Epoch
  BY ServerAssumption, RecordStep, Growth DEF TypeInv, RecordInv, MessageInv
<1>3. \A m \in Message : GoodMsg(m) => Good(m, now', failures', published')
  BY GoodMsgKept
<1>4. ASSUME phase[t] # "idle", dlv'[t] = dlv[t]
      PROVE  Good(dlv'[t].msg, now', failures', published')
  BY <1>1, <1>3, <1>4
<1>5. CASE dlv'[t] = dlv[t] /\ out'[t] = out[t] /\ phase'[t] = phase[t]
  <2>1. phase'[t] = "exec" => now' >= Target[dlv'[t].msg.job]
    BY <1>1, <1>2, <1>5
  <2>2. phase'[t] = "requeue" => Good(out'[t], now', failures', published')
    BY <1>1, <1>3, <1>5
  <2> QED
    BY <1>4, <1>5, <2>1, <2>2
<1>6. CASE NewProcess
  BY <1>6 DEF NewProcess
<1>7. CASE Take(t)
  <2>1. Head(backlog) \in Delivery /\ GoodMsg(Head(backlog).msg)
    BY <1>1, <1>7 DEF Take, TypeInv, QueueInv, PendingInv
  <2>2. Head(backlog).msg \in Message
    BY <2>1 DEF Delivery
  <2>3. dlv'[t] = Head(backlog) /\ phase'[t] = "loaded"
    BY <1>1, <1>7 DEF Take, Move, ThreadInv
  <2> QED
    BY <1>3, <2>1, <2>2, <2>3
<1>8. CASE \/ StoreInc(t) \/ HandlerAnswers(t) \/ PutRequeue(t) \/ PutAck(t)
           \/ PutReject(t) \/ LoadDec(t)
  <2>1. phase[t] # "idle" /\ dlv'[t] = dlv[t] /\ phase'[t] \notin {"exec", "requeue"}
    BY <1>1, <1>8 DEF StoreInc, HandlerAnswers, PutRequeue, PutAck, PutReject, Put, LoadDec,
                      Move, ThreadInv
  <2> QED
    BY <1>4, <2>1
<1>9. CASE StoreDec(t)
  BY <1>1, <1>9 DEF StoreDec, Move, ThreadInv
<1>10. CASE Begin(t)
  <2> DEFINE m == dlv[t].msg
  <2>1. phase[t] = "begin" /\ dlv'[t] = dlv[t]
    BY <1>10 DEF Begin, Move
  <2>2. m \in Message /\ GoodMsg(m) /\ m.job \in Job /\ m.retry_cnt \in Nat
    BY <1>1, <2>1 DEF Message
  <2>3. CASE phase'[t] = "exec"
    <3>1. ~BeforeTarget(m)
      BY <1>1, <1>10, <2>3 DEF Begin, Move, ThreadInv
    <3>2. now >= Target[m.job]
      BY <1>2, <2>2, <3>1 DEF BeforeTarget, GoodMsg, Good
    <3>3. Target[m.job] \in Nat
      BY <1>2, <2>2
    <3>4. now' >= Target[m.job]
      BY <1>2, <3>2, <3>3
    <3> QED
      BY <1>4, <2>1, <2>3, <3>4
  <2>4. CASE phase'[t] = "requeue"
    <3>1. out'[t] = m \/ out'[t] = Delayed(m)
      BY <1>1, <1>10, <2>4 DEF Begin, Move, ThreadInv
    <3>2. Delayed(m) \in Message /\ GoodMsg(Delayed(m))
      BY <1>2, <2>2 DEF Delayed, Message, GoodMsg, Good
    <3> QED
      BY <1>3, <1>4, <2>1, <2>2, <2>4, <3>1, <3>2
  <2>5. CASE phase'[t] = "exit"
    BY <1>4, <2>1, <2>5
  <2> QED
    BY <1>1, <1>10, <2>3, <2>4, <2>5 DEF Begin, Move, ThreadInv
<1>11. CASE HandlerFails(t)
  <2> DEFINE m == dlv[t].msg
  <2>1. phase[t] = "exec" /\ dlv'[t] = dlv[t] /\ phase'[t] \in {"requeue", "reject", "exit"}
    BY <1>1, <1>11 DEF HandlerFails, Move, ThreadInv
  <2>2. m \in Message /\ GoodMsg(m) /\ m.job \in Job /\ m.retry_cnt \in Nat
    BY <1>1, <2>1 DEF Message
  <2>3. CASE phase'[t] = "requeue"
    <3>1. out'[t] = Retried(m) /\ m.retry_cnt < MaxRetries
      BY <1>1, <1>11, <2>3 DEF HandlerFails, Move, ThreadInv, RetriesLeft
    <3>2. failures'[m.job] >= m.retry_cnt + 1
      BY <1>2, <1>11, <2>2, <3>1 DEF HandlerFails, GoodMsg, Good
    <3>3. now' >= Target[m.job]
      <4>1. now >= Target[m.job] /\ Target[m.job] \in Nat
        BY <1>1, <1>2, <2>1, <2>2
      <4> QED
        BY <1>2, <4>1
    <3>4. 5 + 3 * m.retry_cnt <= Epoch
      BY <1>2, <2>2, <3>1
    <3>5. m.job \in published'
      BY <2>2, Growth DEF GoodMsg, Good
    <3>6. Good(Retried(m), now', failures', published')
      BY <2>2, <3>2, <3>3, <3>4, <3>5, RetriedMessage DEF Good
    <3> QED
      BY <1>4, <2>1, <2>3, <3>1, <3>6
  <2>4. CASE phase'[t] # "requeue"
    BY <1>4, <2>1, <2>4
  <2> QED
    BY <2>3, <2>4
<1>12. ASSUME NEW u \in Thread, u # t, Executor(u) PROVE Fine(t)
  <2>1. dlv'[t] = dlv[t] /\ out'[t] = out[t] /\ phase'[t] = phase[t]
    BY <1>1, <1>12
       DEF Executor, Take, StoreInc, Begin, HandlerAnswers, HandlerFails, PutRequeue,
           PutAck, PutReject, Put, LoadDec, StoreDec, Move, ThreadInv
  <2> QED
    BY <1>5, <2>1
<1>13. CASE \E u \in Thread : Executor(u)
  BY <1>7, <1>8, <1>9, <1>10, <1>11, <1>12, <1>13 DEF Executor
<1>14. CASE UNCHANGED threadVars
  BY <1>5, <1>14 DEF threadVars
<1>15. CASE Environment
  BY <1>6, <1>14, <1>15
     DEF Environment, Publish, PublishAgain, Tick, Expire, StopWorker, Break, Crash, Restart
<1>16. CASE Consumer
  BY <1>14, <1>16
     DEF Consumer, Reconnect, LoopStop, LoopIterate, IterEnd, ApplyAck, AckRaises, RequeueOk,
         RequeueUnseen, PublishRaises, RequeueFails, RequeueRaises, DrainTimeout, DrainRaises, Deliver
<1>17. CASE UNCHANGED vars
  BY <1>14, <1>17 DEF vars
<1> QED
  BY <1>13, <1>15, <1>16, <1>17 DEF Next

LEMMA PendingStep == TypeInv /\ MessageInv /\ [Next]_vars => PendingInv'
<1> SUFFICES ASSUME TypeInv, MessageInv, [Next]_vars PROVE PendingInv'
  OBVIOUS
<1> DEFINE GoodDlv(d) == Good(d.msg, now', failures', published')
           GoodOp(o)  == o.op = "requeue" => Good(o.out, now', failures', published')
<1>1. QueueInv /\ PendingInv /\ BrokerInv /\ StoredInv /\ ThreadInv /\ BusyInv
  BY DEF TypeInv, MessageInv
<1>2. \A m \in Message : GoodMsg(m) => Good(m, now', failures', published')
  BY GoodMsgKept
<1>3. /\ \A i \in DOMAIN backlog : GoodDlv(backlog[i])
      /\ \A i \in DOMAIN msg_opr_queue : GoodOp(msg_opr_queue[i])
  <2>1. \A i \in DOMAIN backlog : backlog[i] \in Delivery
    BY <1>1 DEF QueueInv
  <2>2. \A i \in DOMAIN backlog : backlog[i].msg \in Message /\ GoodMsg(backlog[i].msg)
    BY <1>1, <2>1 DEF PendingInv, Delivery
  <2>3. \A i \in DOMAIN backlog : GoodDlv(backlog[i])
    BY <1>2, <2>2
  <2>4. \A i \in DOMAIN msg_opr_queue : GoodOp(msg_opr_queue[i])
    BY <1>1, <1>2 DEF QueueInv, PendingInv
  <2> QED
    BY <2>3, <2>4
<1>4. SUFFICES /\ \A i \in DOMAIN backlog' : GoodDlv(backlog'[i])
               /\ \A i \in DOMAIN msg_opr_queue' : GoodOp(msg_opr_queue'[i])
  BY DEF PendingInv, GoodMsg
<1> HIDE DEF GoodDlv, GoodOp
<1>5. CASE UNCHANGED <<backlog, msg_opr_queue>>
  BY <1>3, <1>5
<1>6. CASE backlog' = <<>> /\ msg_opr_queue' = <<>>
  BY <1>6
<1>7. CASE UNCHANGED backlog /\ msg_opr_queue # <<>> /\ msg_opr_queue' = Tail(msg_opr_queue)
  BY <1>1, <1>3, <1>7 DEF QueueInv
<1>8. ASSUME NEW c \in Copy, Deliver(c)
      PROVE  /\ \A i \in DOMAIN backlog' : GoodDlv(backlog'[i])
             /\ \A i \in DOMAIN msg_opr_queue' : GoodOp(msg_opr_queue'[i])
  <2> DEFINE d == [copy |-> c, session |-> session, msg |-> msg[c]]
  <2>1. GoodDlv(d)
    BY <1>1, <1>2, <1>8 DEF Deliver, Push, BrokerInv, StoredInv, Stored, GoodDlv
  <2>2. backlog' = Append(backlog, d) /\ UNCHANGED msg_opr_queue
    BY <1>8 DEF Deliver
  <2> HIDE DEF d
  <2> QED
    BY <1>1, <1>3, <2>1, <2>2 DEF QueueInv
<1>9. ASSUME NEW t \in Thread, Take(t)
      PROVE  /\ \A i \in DOMAIN backlog' : GoodDlv(backlog'[i])
             /\ \A i \in DOMAIN msg_opr_queue' : GoodOp(msg_opr_queue'[i])
  BY <1>1, <1>3, <1>9 DEF Take, QueueInv
<1>10. ASSUME NEW t \in Thread, NEW kind \in {"requeue", "ack", "reject"}, NEW to, Put(t, kind, to)
      PROVE  /\ \A i \in DOMAIN backlog' : GoodDlv(backlog'[i])
             /\ \A i \in DOMAIN msg_opr_queue' : GoodOp(msg_opr_queue'[i])
  <2> DEFINE o == [op |-> kind, dlv |-> dlv[t], out |-> out[t]]
  <2>1. GoodOp(o)
    BY <1>1, <1>2, <1>10 DEF Put, Move, ThreadInv, BusyInv, GoodOp
  <2>2. msg_opr_queue' = Append(msg_opr_queue, o) /\ UNCHANGED backlog
    BY <1>10 DEF Put, Enqueue
  <2> HIDE DEF o
  <2> QED
    BY <1>1, <1>3, <2>1, <2>2 DEF QueueInv
<1>11. CASE Environment
  BY <1>5, <1>6, <1>11
     DEF Environment, Publish, PublishAgain, Tick, Expire, StopWorker, Break, Crash, Restart, NewProcess
<1>12. CASE Consumer
  BY <1>5, <1>7, <1>8, <1>12
     DEF Consumer, Reconnect, LoopStop, LoopIterate, IterEnd, ApplyAck, AckRaises, RequeueOk,
         RequeueUnseen, PublishRaises, RequeueFails, RequeueRaises, DrainTimeout, DrainRaises, NextOp
<1>13. CASE \E t \in Thread : Executor(t)
  BY <1>5, <1>9, <1>10, <1>13
     DEF Executor, StoreInc, Begin, HandlerAnswers, HandlerFails, PutRequeue, PutAck,
         PutReject, LoadDec, StoreDec
<1>14. CASE UNCHANGED vars
  BY <1>5, <1>14 DEF vars
<1> QED
  BY <1>11, <1>12, <1>13, <1>14 DEF Next

LEMMA DroppedStep == TypeInv /\ MessageInv /\ [Next]_vars => DroppedOnlyAfterRetries'
<1> DEFINE Spent(j)  == failures'[j] > MaxRetries
           Raised(j) == \E n \in BackoffRaises : n < MaxRetries /\ n < failures'[j]
<1> SUFFICES ASSUME TypeInv, MessageInv, [Next]_vars, NEW j
             PROVE  (j \in dropped' => Spent(j)) /\ (j \in refused' => Raised(j))
  BY DEF DroppedOnlyAfterRetries
<1>1. /\ DroppedOnlyAfterRetries
      /\ dropped \subseteq Job /\ refused \subseteq Job
      /\ failures \in [Job -> Nat] /\ failures' \in [Job -> Nat]
      /\ \A k \in Job : failures'[k] >= failures[k]
      /\ MaxRetries \in Nat /\ BackoffRaises \subseteq Nat
  BY ServerAssumption, Growth, RecordStep DEF TypeInv, RecordInv, MessageInv
<1>2. (j \in dropped => Spent(j)) /\ (j \in refused => Raised(j))
  BY <1>1 DEF DroppedOnlyAfterRetries
<1>3. ASSUME NEW t \in Thread, HandlerFails(t)
      PROVE  (j \in dropped' => Spent(j)) /\ (j \in refused' => Raised(j))
  <2> DEFINE m == dlv[t].msg
  <2>1. m \in Message /\ GoodMsg(m)
    BY <1>3 DEF HandlerFails, Move, TypeInv, ThreadInv, MessageInv, BusyInv, Delivery
  <2>2. m.job \in Job /\ m.retry_cnt \in Nat /\ m.retry_cnt <= failures[m.job]
    BY <2>1 DEF Message, GoodMsg, Good
  <2>3. failures'[m.job] = IF failures[m.job] > MaxRetries THEN failures[m.job]
                                                           ELSE failures[m.job] + 1
    BY <1>1, <1>3, <2>2 DEF HandlerFails
  <2>4. j \in dropped' \ dropped => j = m.job /\ ~(m.retry_cnt < MaxRetries)
    BY <1>3 DEF HandlerFails, RetriesLeft
  <2>5. j \in refused' \ refused =>
          j = m.job /\ m.retry_cnt < MaxRetries /\ m.retry_cnt \in BackoffRaises
    BY <1>3 DEF HandlerFails, RetriesLeft
  <2>6. j \in dropped' \ dropped => Spent(j)
    BY <1>1, <2>2, <2>3, <2>4
  <2>7. j \in refused' \ refused => Raised(j)
    BY <1>1, <2>2, <2>3, <2>5
  <2> QED
    BY <1>2, <2>6, <2>7
<1>4. CASE UNCHANGED <<dropped, refused>>
  BY <1>2, <1>4
<1> USE DEF historyVars
<1>5. CASE Environment
  BY <1>4, <1>5
     DEF Environment, Publish, PublishAgain, Tick, Expire, StopWorker, Break, Crash,
         Restart, NewProcess
<1>6. CASE Consumer
  BY <1>4, <1>6
     DEF Consumer, Reconnect, LoopStop, LoopIterate, IterEnd, ApplyAck, AckRaises, RequeueOk,
         RequeueUnseen, PublishRaises, RequeueFails, RequeueRaises, DrainTimeout,
         DrainRaises, Deliver
<1>7. CASE \E t \in Thread : Executor(t)
  BY <1>3, <1>4, <1>7
     DEF Executor, Take, StoreInc, Begin, HandlerAnswers, PutRequeue, PutAck, PutReject, Put,
         LoadDec, StoreDec
<1>8. CASE UNCHANGED vars
  BY <1>4, <1>8 DEF vars
<1> QED
  BY <1>5, <1>6, <1>7, <1>8 DEF Next

LEMMA SpecMessageInv == Spec => [](TypeInv /\ MessageInv)
<1>1. Init => TypeInv /\ MessageInv
  BY InitTypeInv, InitMessageInv
<1>2. TypeInv /\ MessageInv /\ [Next]_vars => (TypeInv /\ MessageInv)'
  <2> SUFFICES ASSUME TypeInv, MessageInv, [Next]_vars PROVE (TypeInv /\ MessageInv)'
    OBVIOUS
  <2>1. TypeInv'
    BY BrokerStep, RecordStep, ConsumerStep, QueueStep, ThreadStep DEF TypeInv
  <2>2. now' >= Epoch
    BY <2>1, Growth, ServerAssumption DEF MessageInv, TypeInv, RecordInv
  <2> QED
    BY <2>1, <2>2, StoredStep, BusyStep, PendingStep, DroppedStep DEF MessageInv
<1> QED
  BY <1>1, <1>2, PTL DEF Spec

(* A call is given up only after MaxRetries + 1 failures of its handler, or   *)
(* when the coordinator's backoff raised.                                     *)
THEOREM DropsAreEarned == Spec => []DroppedOnlyAfterRetries
<1>1. TypeInv /\ MessageInv => DroppedOnlyAfterRetries
  BY DEF MessageInv
<1> QED
  BY <1>1, SpecMessageInv, PTL

(* Only _on_message moves a thread on from "begin", unless its process ends.  *)
LEMMA OnlyBegin ==
  ASSUME TypeInv, [Next]_vars, NEW t \in Thread,
         phase[t] = "begin", phase'[t] \notin {"begin", "idle"}
  PROVE  Begin(t)
<1>1. phase \in [Thread -> ThreadPoint]
  BY DEF TypeInv, ThreadInv
<1>2. phase' # phase
  OBVIOUS
<1>3. ~NewProcess
  BY DEF NewProcess
<1>4. ~Environment
  BY <1>2, <1>3
     DEF Environment, Publish, PublishAgain, Tick, Expire, StopWorker, Break, Crash, Restart, threadVars
<1>5. ~Consumer
  BY <1>2
     DEF Consumer, Reconnect, LoopStop, LoopIterate, IterEnd, ApplyAck, AckRaises, RequeueOk,
         RequeueUnseen, PublishRaises, RequeueFails, RequeueRaises, DrainTimeout, DrainRaises, Deliver,
         threadVars
<1>6. PICK u \in Thread : Executor(u)
  BY <1>2, <1>4, <1>5 DEF Next, vars, threadVars
<1>7. u = t
  BY <1>1, <1>6
     DEF Executor, Take, StoreInc, Begin, HandlerAnswers, HandlerFails, PutRequeue,
         PutAck, PutReject, Put, LoadDec, StoreDec, Move
<1> QED
  BY <1>1, <1>6, <1>7
     DEF Executor, Take, StoreInc, HandlerAnswers, HandlerFails, PutRequeue,
         PutAck, PutReject, Put, LoadDec, StoreDec, Move

LEMMA DueToStart ==
  ASSUME TypeInv, MessageInv, [Next]_vars, NEW t \in Thread, phase[t] = "begin"
  PROVE  /\ phase'[t] = "exec" => now >= Target[dlv[t].msg.job]
         /\ phase'[t] = "requeue" => now < Target[dlv[t].msg.job]
<1> DEFINE m == dlv[t].msg
<1>1. m \in Message /\ GoodMsg(m)
  BY DEF TypeInv, ThreadInv, MessageInv, BusyInv, Delivery
<1>2. /\ m.retry_cnt \in Nat /\ Target[m.job] \in Nat /\ now \in Nat /\ Epoch \in Nat
      /\ m.execute_at \in Nat /\ now >= Epoch
      /\ m.retry_cnt > 0 => now >= Target[m.job]
      /\ m.execute_at <= Epoch \/ m.execute_at <= Target[m.job]
  BY <1>1, ServerAssumption DEF Message, GoodMsg, Good, TypeInv, RecordInv, MessageInv
<1>3. phase \in [Thread -> ThreadPoint]
  BY DEF TypeInv, ThreadInv
<1>4. CASE phase'[t] = "exec"
  <2>1. ~BeforeTarget(m)
    BY <1>3, <1>4, OnlyBegin DEF Begin, Move
  <2> QED
    BY <1>2, <1>4, <2>1 DEF BeforeTarget
<1>5. CASE phase'[t] = "requeue"
  <2>1. NotDue(m) \/ BeforeTarget(m)
    BY <1>3, <1>5, OnlyBegin DEF Begin, Move
  <2> QED
    BY <1>2, <1>5, <2>1 DEF NotDue, BeforeTarget
<1> QED
  BY <1>4, <1>5

(* No handler starts a call before its target time.                           *)
THEOREM StartsAreDue == Spec => NeverEarly
<1>1. TypeInv /\ MessageInv /\ [Next]_vars =>
        [\A t \in Thread : Starts(t) => now >= Target[dlv[t].msg.job]]_vars
  BY DueToStart DEF Starts
<1> QED
  BY <1>1, SpecMessageInv, PTL DEF Spec, NeverEarly

(* A delivery is put off only while its call is not due.                      *)
THEOREM PostponedAreNotDue == Spec => PostponedOnlyBeforeTarget
<1>1. TypeInv /\ MessageInv /\ [Next]_vars =>
        [\A t \in Thread : phase[t] = "begin" /\ phase'[t] = "requeue"
                           => now < Target[dlv[t].msg.job]]_vars
  BY DueToStart
<1> QED
  BY <1>1, SpecMessageInv, PTL DEF Spec, PostponedOnlyBeforeTarget
-----------------------------------------------------------------------------
(***************************************************************************)
(* A stop waits for the running calls.  As long as every store of          *)
(* _in_progress finds the value its thread has loaded, the counter is the  *)
(* number of the threads between their two updates.                        *)
(***************************************************************************)
Counted == {t \in Thread : Working(t)}

CountInv == ~lost_update => in_progress = Cardinality(Counted)

LEMMA InitCountInv == Init => CountInv
<1> SUFFICES ASSUME Init PROVE in_progress = Cardinality(Counted)
  BY DEF CountInv
<1>1. Counted = {}
  BY DEF Init, Counted, Working
<1> QED
  BY <1>1, FS_EmptySet DEF Init

LEMMA CountStep ==
  ASSUME TypeInv, CountInv, [Next]_vars
  PROVE  CountInv'
<1>1. phase \in [Thread -> ThreadPoint] /\ IsFiniteSet(Counted)
  BY ServerAssumption, FS_Subset DEF TypeInv, ThreadInv, Counted
<1>2. CASE UNCHANGED <<counterVars, phase>>
  BY <1>2 DEF CountInv, Counted, Working, counterVars
<1>3. CASE NewProcess
  <2>1. Counted' = {}
    BY <1>3 DEF NewProcess, Counted, Working
  <2> QED
    BY <1>3, <2>1, FS_EmptySet DEF NewProcess, CountInv
<1>4. ASSUME NEW t \in Thread,
             \/ Take(t) \/ Begin(t) \/ HandlerAnswers(t) \/ HandlerFails(t)
             \/ PutRequeue(t) \/ PutAck(t) \/ PutReject(t) \/ LoadDec(t)
      PROVE  CountInv'
  <2>1. /\ phase' \in [Thread -> ThreadPoint] /\ UNCHANGED counterVars
        /\ \A u \in Thread \ {t} : phase'[u] = phase[u]
        /\ Working(t)' = Working(t)
    BY <1>1, <1>4
       DEF Take, Begin, HandlerAnswers, HandlerFails, PutRequeue, PutAck, PutReject, Put,
           LoadDec, Move, ThreadPoint, Working
  <2>2. Counted' = Counted
    BY <2>1 DEF Counted, Working
  <2> QED
    BY <2>1, <2>2 DEF CountInv, counterVars
<1>5. ASSUME NEW t \in Thread, StoreInc(t), ~lost_update' PROVE CountInv'
  <2>1. ~lost_update /\ in_progress' = in_progress + 1
    BY <1>5 DEF StoreInc, Update
  <2>2. t \notin Counted /\ Counted' = Counted \cup {t}
    BY <1>1, <1>5 DEF StoreInc, Move, Counted, Working, ThreadPoint
  <2>3. Cardinality(Counted') = Cardinality(Counted) + 1
    BY <1>1, <2>2, FS_AddElement
  <2> QED
    BY <2>1, <2>3 DEF CountInv
<1>6. ASSUME NEW t \in Thread, StoreDec(t), ~lost_update' PROVE CountInv'
  <2>1. ~lost_update /\ in_progress' = in_progress - 1
    BY <1>6 DEF StoreDec, Update
  <2>2. t \in Counted /\ Counted' = Counted \ {t}
    BY <1>1, <1>6 DEF StoreDec, Move, Counted, Working, ThreadPoint
  <2>3. Cardinality(Counted') = Cardinality(Counted) - 1
    BY <1>1, <2>2, FS_RemoveElement
  <2> QED
    BY <2>1, <2>3 DEF CountInv
<1>7. CASE Environment
  BY <1>2, <1>3, <1>7
     DEF Environment, Publish, PublishAgain, Tick, Expire, StopWorker, Break, Crash, Restart,
         threadVars
<1>8. CASE Consumer
  BY <1>2, <1>8
     DEF Consumer, Reconnect, LoopStop, LoopIterate, IterEnd, ApplyAck, AckRaises, RequeueOk,
         RequeueUnseen, PublishRaises, RequeueFails, RequeueRaises, DrainTimeout,
         DrainRaises, Deliver, threadVars
<1>9. CASE \E t \in Thread : Executor(t)
  BY <1>4, <1>5, <1>6, <1>9 DEF Executor, CountInv
<1>10. CASE UNCHANGED vars
  BY <1>2, <1>10 DEF vars, threadVars
<1> QED
  BY <1>7, <1>8, <1>9, <1>10 DEF Next

(* on_iteration alone sets the flag, from what it sees of the stop and of the *)
(* calls in progress.                                                         *)
LEMMA OnlyLastIteration ==
  ASSUME TypeInv, [Next]_vars, ~set_should_stop, set_should_stop'
  PROVE  LoopIterate /\ LastIteration
<1>1. ~EndSession("connect") /\ ~EndSession("stopped") /\ ~EndSession("dead") /\ ~NewProcess
  BY DEF EndSession, NewProcess
<1>2. ~Environment /\ ~UNCHANGED vars
  BY <1>1
     DEF Environment, Publish, PublishAgain, Tick, Expire, StopWorker, Break, Crash, Restart, vars,
         consumerVars
<1>3. ~\E t \in Thread : Executor(t)
  BY DEF Executor, Take, StoreInc, Begin, HandlerAnswers, HandlerFails, PutRequeue, PutAck,
         PutReject, Put, LoadDec, StoreDec, consumerVars
<1>4. LoopIterate
  BY <1>1, <1>2, <1>3
     DEF Next, Consumer, Reconnect, LoopStop, IterEnd, ApplyAck, AckRaises, RequeueOk,
         RequeueUnseen, PublishRaises, RequeueFails, RequeueRaises, DrainTimeout, DrainRaises, Deliver,
         consumerVars
<1> QED
  BY <1>4 DEF LoopIterate

(* For any number of executor threads, a worker that decides to stop while a  *)
(* thread works on a call has lost an update of _in_progress before.          *)
THEOREM StopsIdle == Spec => StopSeesIdle
<1>1. Init => TypeInv /\ CountInv
  BY InitTypeInv, InitCountInv
<1>2. TypeInv /\ CountInv /\ [Next]_vars => CountInv'
  BY CountStep
<1>3. TypeInv /\ CountInv /\ [Next]_vars =>
        [~set_should_stop /\ set_should_stop' /\ ~lost_update
           => \A t \in Thread : ~Working(t)]_vars
  <2> SUFFICES ASSUME TypeInv, CountInv, [Next]_vars,
                      ~set_should_stop, set_should_stop', ~lost_update
               PROVE  Counted = {}
    BY DEF Counted
  <2>1. in_progress = 0
    BY OnlyLastIteration DEF LastIteration
  <2>2. IsFiniteSet(Counted)
    BY ServerAssumption, FS_Subset DEF Counted
  <2> QED
    BY <2>1, <2>2, FS_EmptySet DEF CountInv
<1> QED
  BY <1>1, <1>2, <1>3, SpecTypeInv, PTL DEF Spec, StopSeesIdle
=============================================================================
