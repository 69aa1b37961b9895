----------------------- MODULE RabbitMQDeliveryProofs -----------------------
(***************************************************************************)
(* No call is lost when publishes are confirmed, or as long as nothing has *)
(* failed: the proof that RabbitMQServer keeps NoJobLost and implements    *)
(* AtLeastOnce.                                                            *)
(***************************************************************************)
EXTENDS RabbitMQServerProofs

(***************************************************************************)
(* Ownership.  A delivery of the current channel has one owner: its place  *)
(* in the executor's backlog, the thread that works on it, or the ack or   *)
(* reject that the thread put.  The broker holds the delivered message     *)
(* unacked until the owner is done; a requeue is followed by its ack; and  *)
(* an ack of an unsettled call comes after the requeue that replaces it.   *)
(***************************************************************************)
BusyPoint == {"loaded", "begin", "exec", "requeue", "ack", "reject"}

Final(i)  == msg_opr_queue[i].op \in {"ack", "reject"}
Ops       == DOMAIN msg_opr_queue
OpDlv(i)  == msg_opr_queue[i].dlv
Busy(t)   == phase[t] \in BusyPoint

Offline == {"connect", "stopped", "dead"}

Held(d) == /\ place[d.copy] = "unacked"
           /\ msg[d.copy] = d.msg

HeldInv ==
  /\ \A i \in DOMAIN backlog : Attached(backlog[i]) => Held(backlog[i])
  /\ \A t \in Thread : Busy(t) /\ Attached(dlv[t]) => Held(dlv[t])
  /\ \A i \in Ops : Final(i) /\ Attached(OpDlv(i)) => Held(OpDlv(i))

Apart(d, e) == Attached(d) /\ Attached(e) => d.copy # e.copy

OneOwner ==
  /\ \A i, k \in DOMAIN backlog : i # k => Apart(backlog[i], backlog[k])
  /\ \A t, u \in Thread : Busy(t) /\ Busy(u) /\ t # u => Apart(dlv[t], dlv[u])
  /\ \A i, k \in Ops : Final(i) /\ Final(k) /\ i # k => Apart(OpDlv(i), OpDlv(k))
  /\ \A i \in DOMAIN backlog, t \in Thread : Busy(t) => Apart(backlog[i], dlv[t])
  /\ \A i \in DOMAIN backlog, k \in Ops : Final(k) => Apart(backlog[i], OpDlv(k))
  /\ \A t \in Thread, k \in Ops : Busy(t) /\ Final(k) => Apart(dlv[t], OpDlv(k))

SessionInv ==
  /\ \A i \in DOMAIN backlog : backlog[i].session <= session
  /\ \A t \in Thread : Busy(t) => dlv[t].session <= session
  /\ \A i \in Ops : OpDlv(i).session <= session
  /\ pc \in Offline => ~broken /\ Unacked = {}

RequeuedThenAcked == \A i \in Ops :
  msg_opr_queue[i].op = "requeue" =>
    /\ msg_opr_queue[i].out.job = OpDlv(i).msg.job
    /\ \/ \E k \in Ops : i < k /\ msg_opr_queue[k].op = "ack" /\ OpDlv(k) = OpDlv(i)
       \/ \E t \in Thread : phase[t] = "ack" /\ dlv[t] = OpDlv(i)

(* The broker has stored every message whose publish succeeded: publishes are *)
(* confirmed, or nothing has failed yet.                                      *)
Sure == ConfirmPublish \/ faults = 0

(* The call of delivery d is settled, or its replacement is stored or sits in *)
(* the operations before n.                                                   *)
Replaced(d, n) ==
  \/ ~Sure
  \/ ~Attached(d)
  \/ d.msg.job \in Settled
  \/ d.copy \in superseded
  \/ \E k \in Ops : k < n /\ msg_opr_queue[k].op = "requeue" /\ OpDlv(k) = d

AckInv ==
  /\ \A i \in Ops : Final(i) => Replaced(OpDlv(i), i)
  /\ \A t \in Thread :
        /\ phase[t] = "ack" => Replaced(dlv[t], Len(msg_opr_queue) + 1)
        /\ phase[t] = "reject" => dlv[t].msg.job \in Settled
        /\ phase[t] = "requeue" => out[t].job = dlv[t].msg.job

StillHeld ==
  /\ superseded \subseteq Unacked
  /\ Sure => \A j \in published \ Settled :
                \E c \in Copy \ superseded : Stored(c) /\ msg[c].job = j

OwnerInv == HeldInv /\ OneOwner /\ SessionInv /\ RequeuedThenAcked /\ AckInv /\ StillHeld

(* Operations of the queue, and their positions after a get or a put.        *)
LEMMA OpsTyped ==
  ASSUME TypeInv
  PROVE  /\ \A i \in Ops : msg_opr_queue[i] \in Operation /\ OpDlv(i) \in Delivery
         /\ Ops = 1 .. Len(msg_opr_queue) /\ Len(msg_opr_queue) \in Nat
<1>1. msg_opr_queue \in Seq(Operation)
  BY DEF TypeInv, QueueInv
<1>2. \A i \in Ops : msg_opr_queue[i] \in Operation
  BY <1>1 DEF Ops
<1> QED
  BY <1>1, <1>2 DEF Ops, OpDlv, Operation

LEMMA TailPositions ==
  ASSUME NEW S, NEW q \in Seq(S), q # <<>>
  PROVE  /\ \A i \in DOMAIN Tail(q) : i + 1 \in DOMAIN q /\ Tail(q)[i] = q[i + 1]
         /\ \A i \in DOMAIN q : i # 1 => i - 1 \in DOMAIN Tail(q) /\ Tail(q)[i - 1] = q[i]
         /\ DOMAIN Tail(q) \subseteq Nat \ {0} /\ DOMAIN q \subseteq Nat \ {0}
         /\ 1 \in DOMAIN q /\ q[1] = Head(q)
         /\ Len(q) \in Nat /\ Len(Tail(q)) = Len(q) - 1
         /\ DOMAIN q = 1 .. Len(q) /\ DOMAIN Tail(q) = 1 .. Len(Tail(q))
  OBVIOUS

LEMMA AppendPositions ==
  ASSUME NEW S, NEW q \in Seq(S), NEW x \in S
  PROVE  /\ DOMAIN Append(q, x) = 1 .. (Len(q) + 1)
         /\ DOMAIN q = 1 .. Len(q) /\ Len(q) \in Nat
         /\ Len(Append(q, x)) = Len(q) + 1
         /\ Append(q, x)[Len(q) + 1] = x
         /\ \A i \in DOMAIN q : Append(q, x)[i] = q[i]
  OBVIOUS

LEMMA GetOp ==
  ASSUME TypeInv, msg_opr_queue # <<>>, msg_opr_queue' = Tail(msg_opr_queue)
  PROVE  /\ \A i \in Ops' : i + 1 \in Ops /\ msg_opr_queue'[i] = msg_opr_queue[i + 1]
         /\ \A i \in Ops : i # 1 => i - 1 \in Ops' /\ msg_opr_queue'[i - 1] = msg_opr_queue[i]
         /\ Ops \subseteq Nat \ {0} /\ Ops' \subseteq Nat \ {0}
         /\ 1 \in Ops /\ msg_opr_queue[1] = Head(msg_opr_queue)
         /\ Len(msg_opr_queue) \in Nat /\ Len(msg_opr_queue') = Len(msg_opr_queue) - 1
<1>1. msg_opr_queue \in Seq(Operation)
  BY DEF TypeInv, QueueInv
<1> QED
  BY <1>1, TailPositions DEF Ops

(* Applying an operation keeps each requeue before its ack.                   *)
LEMMA RequeuedGet ==
  ASSUME TypeInv, RequeuedThenAcked, msg_opr_queue # <<>>,
         msg_opr_queue' = Tail(msg_opr_queue), UNCHANGED <<phase, dlv>>
  PROVE  RequeuedThenAcked'
<1> SUFFICES ASSUME NEW i \in Ops', msg_opr_queue'[i].op = "requeue"
             PROVE  /\ msg_opr_queue'[i].out.job = OpDlv(i)'.msg.job
                    /\ \/ \E k \in Ops' : /\ i < k /\ msg_opr_queue'[k].op = "ack"
                                          /\ OpDlv(k)' = OpDlv(i)'
                       \/ \E t \in Thread : phase'[t] = "ack" /\ dlv'[t] = OpDlv(i)'
  BY DEF RequeuedThenAcked
<1>1. /\ i + 1 \in Ops /\ msg_opr_queue'[i] = msg_opr_queue[i + 1]
      /\ i \in Nat \ {0}
  BY GetOp
<1>2. /\ msg_opr_queue[i + 1].out.job = OpDlv(i + 1).msg.job
      /\ OpDlv(i)' = OpDlv(i + 1)
  BY <1>1 DEF RequeuedThenAcked, OpDlv
<1>3. CASE \E t \in Thread : phase[t] = "ack" /\ dlv[t] = OpDlv(i + 1)
  BY <1>1, <1>2, <1>3
<1>4. CASE \E k \in Ops : i + 1 < k /\ msg_opr_queue[k].op = "ack" /\ OpDlv(k) = OpDlv(i + 1)
  <2> PICK k \in Ops : i + 1 < k /\ msg_opr_queue[k].op = "ack" /\ OpDlv(k) = OpDlv(i + 1)
    BY <1>4
  <2>1. Ops \subseteq Nat
    BY GetOp
  <2>2. k \in Nat /\ k # 1 /\ i < k - 1
    BY <1>1, <2>1
  <2>3. k - 1 \in Ops' /\ msg_opr_queue'[k - 1] = msg_opr_queue[k] /\ i < k - 1
    BY <2>2, GetOp
  <2> QED
    BY <1>1, <1>2, <2>2, <2>3 DEF OpDlv
<1> QED
  BY <1>1, <1>2, <1>3, <1>4 DEF RequeuedThenAcked

LEMMA InitOwnerInv == Init => OwnerInv
<1> SUFFICES ASSUME Init PROVE OwnerInv
  OBVIOUS
<1> USE DEF Init, BrokerInit
<1>1. HeldInv /\ OneOwner
  BY DEF HeldInv, OneOwner, Busy, BusyPoint, Ops
<1>2. SessionInv
  BY DEF SessionInv, Busy, BusyPoint, Ops, Unacked
<1>3. RequeuedThenAcked /\ AckInv
  BY DEF RequeuedThenAcked, AckInv, Ops
<1>4. StillHeld
  BY DEF StillHeld
<1> QED
  BY <1>1, <1>2, <1>3, <1>4 DEF OwnerInv

(* A step that leaves no delivery attached: the end of a session, a new       *)
(* process, a broken connection, a new channel.                               *)
LEMMA DetachStep ==
  ASSUME TypeInv, TypeInv', OwnerInv, Sure' => Sure,
         \A d \in Delivery : d.session <= session => ~Attached(d)',
         session' = session \/ session' = session + 1,
         pc' \in Offline => ~broken' /\ Unacked' = {},
         superseded' \subseteq Unacked', superseded' \subseteq superseded,
         \A c \in Copy : Stored(c) => Stored(c)' /\ msg'[c] = msg[c],
         published' = published, Settled' = Settled,
         backlog' = backlog \/ backlog' = <<>>,
         \/ msg_opr_queue' = <<>>
         \/ /\ msg_opr_queue' = msg_opr_queue
            /\ UNCHANGED <<phase, dlv, out>>
         \/ /\ msg_opr_queue # <<>> /\ msg_opr_queue' = Tail(msg_opr_queue)
            /\ UNCHANGED <<phase, dlv, out>>,
         \/ UNCHANGED <<phase, dlv, out>>
         \/ \A t \in Thread : phase'[t] = "idle"
  PROVE  OwnerInv'
<1>1. /\ \A i \in DOMAIN backlog' : backlog'[i] \in Delivery /\ backlog'[i].session <= session
      /\ \A t \in Thread : Busy(t)' => dlv'[t] \in Delivery /\ dlv'[t].session <= session
      /\ \A i \in Ops' : OpDlv(i)' \in Delivery /\ OpDlv(i)'.session <= session
  <2>1. \A i \in DOMAIN backlog' : backlog'[i] \in Delivery /\ backlog'[i].session <= session
    BY DEF TypeInv, QueueInv, OwnerInv, SessionInv
  <2>2. \A t \in Thread : Busy(t)' => dlv'[t] \in Delivery /\ dlv'[t].session <= session
    BY DEF TypeInv, ThreadInv, OwnerInv, SessionInv, Busy, BusyPoint
  <2>3. \A i \in Ops : OpDlv(i) \in Delivery /\ OpDlv(i).session <= session
    BY OpsTyped DEF OwnerInv, SessionInv
  <2>4. \A i \in Ops' : \E k \in Ops : OpDlv(i)' = OpDlv(k)
    <3>1. CASE msg_opr_queue' = <<>>
      BY <3>1 DEF Ops
    <3>2. CASE msg_opr_queue' = msg_opr_queue
      BY <3>2 DEF Ops, OpDlv
    <3>3. CASE msg_opr_queue # <<>> /\ msg_opr_queue' = Tail(msg_opr_queue)
      BY <3>3, GetOp DEF OpDlv
    <3> QED
      BY <3>1, <3>2, <3>3
  <2> QED
    BY <2>1, <2>2, <2>3, <2>4
<1>2. /\ \A i \in DOMAIN backlog' : ~Attached(backlog[i])'
      /\ \A t \in Thread : Busy(t)' => ~Attached(dlv[t])'
      /\ \A i \in Ops' : ~Attached(OpDlv(i))'
  BY <1>1
<1>3. HeldInv' /\ OneOwner'
  BY <1>2 DEF HeldInv, OneOwner, Apart
<1>4. SessionInv'
  BY <1>1 DEF SessionInv, TypeInv, ConsumerInv, Delivery
<1>5. RequeuedThenAcked'
  <2>1. CASE msg_opr_queue' = <<>>
    BY <2>1 DEF RequeuedThenAcked, Ops
  <2>2. CASE msg_opr_queue' = msg_opr_queue /\ UNCHANGED <<phase, dlv, out>>
    BY <2>2 DEF RequeuedThenAcked, Ops, OpDlv, OwnerInv
  <2>3. CASE /\ msg_opr_queue # <<>> /\ msg_opr_queue' = Tail(msg_opr_queue)
             /\ UNCHANGED <<phase, dlv, out>>
    BY <2>3, RequeuedGet DEF OwnerInv
  <2> QED
    BY <2>1, <2>2, <2>3
<1>6. AckInv'
  <2>1. \A i \in Ops' : Final(i)' => Replaced(OpDlv(i), i)'
    BY <1>2 DEF Replaced
  <2>2. \A t \in Thread : phase'[t] = "ack" => Replaced(dlv[t], Len(msg_opr_queue) + 1)'
    BY <1>2 DEF Replaced, Busy, BusyPoint
  <2>3. \A t \in Thread : /\ phase'[t] = "reject" => dlv'[t].msg.job \in Settled'
                          /\ phase'[t] = "requeue" => out'[t].job = dlv'[t].msg.job
    BY DEF OwnerInv, AckInv
  <2> QED
    BY <2>1, <2>2, <2>3 DEF AckInv
<1>7. StillHeld'
  BY DEF StillHeld, OwnerInv
<1> QED
  BY <1>3, <1>4, <1>5, <1>6, <1>7 DEF OwnerInv

(* The steps that end a session, a process or a channel. *)
LEMMA DetachingActions ==
  ASSUME TypeInv, TypeInv', OwnerInv, Sure' => Sure,
         \/ Reconnect \/ LoopStop \/ AckRaises \/ RequeueRaises \/ DrainRaises
         \/ Break \/ Crash \/ Restart
  PROVE  OwnerInv'
<1> USE DEF Offline
<1>1. session \in Nat /\ superseded \subseteq Unacked /\ place \in [Copy -> Place]
  BY DEF TypeInv, ConsumerInv, OwnerInv, StillHeld, BrokerInv, BrokerTypeOK
<1>2. ASSUME ReturnUnacked
      PROVE  /\ Unacked' = {} /\ superseded' = {}
             /\ \A c \in Copy : Stored(c) => Stored(c)' /\ msg'[c] = msg[c]
  BY <1>1, <1>2 DEF ReturnUnacked, Unacked, Stored
<1>3. CASE Reconnect
  <2>1. \A d \in Delivery : d.session <= session => ~Attached(d)'
    BY <1>1, <1>3 DEF Reconnect, Attached, Live, Delivery
  <2>2. /\ session' = session + 1 /\ pc' \notin Offline
        /\ superseded' = superseded /\ Unacked' = Unacked
        /\ \A c \in Copy : Stored(c) => Stored(c)' /\ msg'[c] = msg[c]
        /\ UNCHANGED <<published, backlog, msg_opr_queue, phase, dlv, out>> /\ Settled' = Settled
    BY <1>3 DEF Reconnect, brokerVars, historyVars, threadVars, Settled, Stored, Unacked
  <2> QED
    BY <1>1, <2>1, <2>2, DetachStep
<1>4. ASSUME NEW next \in Offline, EndSession(next)
      PROVE  /\ \A d \in Delivery : ~Attached(d)'
             /\ session' = session /\ ~broken'
  BY <1>4 DEF EndSession, Attached, Live, Connected
<1>5. CASE LoopStop \/ AckRaises \/ RequeueRaises \/ DrainRaises
  <2>1. \E next \in Offline : EndSession(next)
    BY <1>5 DEF LoopStop, AckRaises, RequeueRaises, DrainRaises
  <2>2. ReturnUnacked
    BY <2>1 DEF EndSession
  <2>3. /\ UNCHANGED <<published, backlog, phase, dlv, out>> /\ Settled' = Settled
        /\ \/ msg_opr_queue' = msg_opr_queue
           \/ msg_opr_queue # <<>> /\ msg_opr_queue' = Tail(msg_opr_queue)
    BY <1>5 DEF LoopStop, AckRaises, RequeueRaises, DrainRaises, NextOp, historyVars,
                threadVars, Settled
  <2> QED
    BY <1>2, <1>4, <2>1, <2>2, <2>3, DetachStep
<1>6. CASE Break
  <2>1. \A d \in Delivery : ~Attached(d)'
    BY <1>6 DEF Break, Attached
  <2>2. ReturnUnacked /\ session' = session /\ pc' \notin Offline
    BY <1>6 DEF Break, Connected
  <2>3. /\ UNCHANGED <<published, backlog, msg_opr_queue, phase, dlv, out>> /\ Settled' = Settled
    BY <1>6 DEF Break, historyVars, threadVars, Settled
  <2> QED
    BY <1>2, <2>1, <2>2, <2>3, DetachStep
<1>7. CASE Crash \/ Restart
  <2>1. NewProcess
    BY <1>7 DEF Crash, Restart
  <2>2. /\ \A d \in Delivery : ~Attached(d)'
        /\ session' = session /\ ~broken'
    BY <2>1 DEF NewProcess, Attached, Live, Connected
  <2>3. /\ ReturnUnacked /\ published' = published /\ Settled' = Settled
        /\ backlog' = <<>> /\ msg_opr_queue' = <<>>
        /\ \A t \in Thread : phase'[t] = "idle"
    BY <2>1 DEF NewProcess, historyVars, Settled
  <2> QED
    BY <1>2, <2>2, <2>3, DetachStep
<1> QED
  BY <1>3, <1>5, <1>6, <1>7

(* A step that leaves the threads, the queues and the unacked copies alone:   *)
(* the environment's, and those of the consumer between two operations.       *)
LEMMA QuietStep ==
  ASSUME TypeInv, TypeInv', OwnerInv, Sure' => Sure,
         UNCHANGED <<backlog, msg_opr_queue, phase, dlv, out, broken, session, superseded>>,
         Connected' = Connected, pc' \in Offline => pc \in Offline,
         Unacked' = Unacked, \A c \in Unacked : msg'[c] = msg[c],
         \A c \in Copy : Stored(c) => Stored(c)' /\ msg'[c] = msg[c],
         Settled \subseteq Settled',
         \A j \in published' \ published :
            \E c \in Copy : ~Stored(c) /\ Stored(c)' /\ msg'[c].job = j
  PROVE  OwnerInv'
<1>1. \A d : Attached(d)' = Attached(d)
  BY DEF Attached, Live
<1>2. /\ \A t : Busy(t)' = Busy(t) /\ \A i : Final(i)' = Final(i) /\ OpDlv(i)' = OpDlv(i)
      /\ Ops' = Ops
  BY DEF Busy, Final, OpDlv, Ops
<1>3. HeldInv'
  <2>1. \A d \in Delivery : Held(d) => Held(d)'
    BY DEF Held, Unacked, Delivery
  <2>2. /\ \A i \in DOMAIN backlog : backlog[i] \in Delivery
        /\ \A t \in Thread : Busy(t) => dlv[t] \in Delivery
        /\ \A i \in Ops : OpDlv(i) \in Delivery
    BY OpsTyped DEF TypeInv, QueueInv, ThreadInv, Busy, BusyPoint
  <2> QED
    BY <1>1, <1>2, <2>1, <2>2 DEF OwnerInv, HeldInv
<1>4. OneOwner'
  BY <1>1, <1>2 DEF OwnerInv, OneOwner, Apart
<1>5. SessionInv'
  BY <1>2 DEF OwnerInv, SessionInv
<1>6. RequeuedThenAcked'
  BY <1>2 DEF OwnerInv, RequeuedThenAcked
<1>7. AckInv'
  BY <1>1, <1>2 DEF OwnerInv, AckInv, Replaced
<1>8. StillHeld'
  <2>1. \A c \in superseded : Stored(c)
    BY DEF OwnerInv, StillHeld, Unacked, Stored
  <2> QED
    BY <2>1 DEF OwnerInv, StillHeld
<1> QED
  BY <1>3, <1>4, <1>5, <1>6, <1>7, <1>8 DEF OwnerInv

LEMMA QuietActions ==
  ASSUME TypeInv, TypeInv', OwnerInv, Sure' => Sure,
         \/ \E j \in Job : Publish(j) \/ PublishAgain(j)
         \/ \E c \in Copy : Expire(c)
         \/ Tick \/ StopWorker \/ LoopIterate \/ IterEnd \/ DrainTimeout
         \/ PublishRaises \/ RequeueFails
         \/ UNCHANGED vars
  PROVE  OwnerInv'
<1> DEFINE Kept == /\ UNCHANGED <<backlog, msg_opr_queue, phase, dlv, out, broken, session>>
                   /\ Connected' = Connected /\ (pc' \in Offline => pc \in Offline)
<1>1. place \in [Copy -> Place] /\ msg \in [Copy -> Message \cup {Blank}]
  BY DEF TypeInv, BrokerInv, BrokerTypeOK
<1>2. ASSUME NEW c \in Copy, NEW q \in {"ready", "retry"}, NEW m \in Message, Store(c, q, m)
      PROVE  /\ ~Stored(c) /\ Stored(c)' /\ msg'[c] = m
             /\ Unacked' = Unacked /\ \A d \in Unacked : msg'[d] = msg[d]
             /\ \A d \in Copy : Stored(d) => Stored(d)' /\ msg'[d] = msg[d]
  BY <1>1, <1>2 DEF Store, Stored, Unacked
<1>3. ASSUME UNCHANGED brokerVars, Kept, Settled' = Settled, published' = published
      PROVE  OwnerInv'
  <2>1. /\ Unacked' = Unacked
        /\ \A d \in Unacked : msg'[d] = msg[d]
        /\ \A d \in Copy : Stored(d) => Stored(d)' /\ msg'[d] = msg[d]
    BY <1>3 DEF brokerVars, Unacked, Stored
  <2> QED
    BY <1>3, <2>1, QuietStep DEF brokerVars
<1>4. CASE \E j \in Job : Publish(j) \/ PublishAgain(j)
  <2> PICK j \in Job, c \in Copy :
         /\ Publish(j) \/ PublishAgain(j)
         /\ Store(c, "ready", Call(j))
    BY <1>4 DEF Publish, PublishAgain
  <2>1. Call(j) \in Message /\ Call(j).job = j
    BY CallMessage DEF Call
  <2>2. Kept /\ Settled' = Settled /\ superseded' = superseded
        /\ published' \ published \subseteq {j}
    BY DEF Publish, PublishAgain, historyVars, consumerVars, threadVars, Settled, Connected
  <2> QED
    BY <1>2, <2>1, <2>2, QuietStep
<1>5. CASE \E c \in Copy : Expire(c)
  <2> PICK c \in Copy : Expire(c)
    BY <1>5
  <2>1. /\ Unacked' = Unacked
        /\ \A d \in Unacked : msg'[d] = msg[d]
        /\ \A d \in Copy : Stored(d) => Stored(d)' /\ msg'[d] = msg[d]
        /\ superseded' = superseded
    BY <1>1 DEF Expire, DeadLetter, Unacked, Stored
  <2>2. Kept /\ Settled' = Settled /\ published' = published
    BY DEF Expire, historyVars, consumerVars, threadVars, Settled, Connected
  <2> QED
    BY <2>1, <2>2, QuietStep
<1>6. CASE PublishRaises
  <2>1. Kept /\ Settled' = Settled /\ published' = published /\ superseded' = superseded
    BY <1>6 DEF PublishRaises, historyVars, threadVars, Settled, Connected, brokerVars
  <2>2. Head(msg_opr_queue).out \in Message
    BY <1>6, HeadOperation DEF PublishRaises, NextOp
  <2>3. CASE UNCHANGED brokerVars
    BY <1>3, <2>1, <2>3
  <2>4. CASE \E c \in Copy : Store(c, "retry", Head(msg_opr_queue).out)
    BY <1>2, <2>1, <2>2, <2>4, QuietStep
  <2> QED
    BY <1>6, <2>3, <2>4 DEF PublishRaises
<1>7. CASE \/ Tick \/ StopWorker \/ LoopIterate \/ IterEnd \/ DrainTimeout
           \/ RequeueFails \/ UNCHANGED vars
  <2>1. UNCHANGED brokerVars /\ Settled' = Settled /\ published' = published
    BY <1>7 DEF Tick, StopWorker, LoopIterate, IterEnd, DrainTimeout, RequeueFails, vars,
                historyVars, Settled
  <2>2. Kept
    BY <1>7 DEF Tick, StopWorker, LoopIterate, IterEnd, DrainTimeout, RequeueFails, vars,
                consumerVars, threadVars, Connected, Offline
  <2> QED
    BY <1>3, <2>1, <2>2
<1> QED
  BY <1>4, <1>5, <1>6, <1>7

(* An executor thread moves on with the same delivery, or lets it go.         *)
LEMMA MoveStep ==
  ASSUME TypeInv, TypeInv', OwnerInv, Sure' => Sure, NEW t \in Thread,
         UNCHANGED <<brokerVars, published, consumerVars, backlog, msg_opr_queue>>,
         \A u \in Thread \ {t} : phase'[u] = phase[u] /\ dlv'[u] = dlv[u] /\ out'[u] = out[u],
         Busy(t)' => Busy(t) /\ dlv'[t] = dlv[t],
         phase[t] # "ack",
         Settled \subseteq Settled',
         phase'[t] \in {"ack", "reject"} => dlv'[t].msg.job \in Settled',
         phase'[t] = "requeue" => out'[t].job = dlv'[t].msg.job
  PROVE  OwnerInv'
<1>1. \A d : Attached(d)' = Attached(d) /\ (Held(d) => Held(d)')
  BY DEF Attached, Live, Connected, Held, consumerVars, brokerVars
<1>2. /\ \A i : Final(i)' = Final(i) /\ OpDlv(i)' = OpDlv(i)
      /\ Ops' = Ops
      /\ \A u \in Thread \ {t} : Busy(u)' = Busy(u)
  BY DEF Busy, Final, OpDlv, Ops
<1>3. \A u \in Thread : Busy(u)' => Busy(u) /\ dlv'[u] = dlv[u]
  BY <1>2
<1>4. HeldInv'
  BY <1>1, <1>2, <1>3 DEF OwnerInv, HeldInv
<1>5. OneOwner'
  BY <1>1, <1>2, <1>3 DEF OwnerInv, OneOwner, Apart
<1>6. SessionInv'
  BY <1>2, <1>3 DEF OwnerInv, SessionInv, consumerVars, brokerVars, Unacked
<1>7. RequeuedThenAcked'
  BY <1>2 DEF OwnerInv, RequeuedThenAcked
<1>8. AckInv'
  <2>1. \A d, n : Replaced(d, n) => Replaced(d, n)'
    BY <1>1, <1>2 DEF Replaced, brokerVars
  <2>2. \A i \in Ops' : Final(i)' => Replaced(OpDlv(i), i)'
    BY <1>2, <2>1 DEF OwnerInv, AckInv
  <2>3. ASSUME NEW u \in Thread
        PROVE  /\ phase'[u] = "ack" => Replaced(dlv[u], Len(msg_opr_queue) + 1)'
               /\ phase'[u] = "reject" => dlv'[u].msg.job \in Settled'
               /\ phase'[u] = "requeue" => out'[u].job = dlv'[u].msg.job
    <3>1. CASE u = t
      BY <3>1 DEF Replaced
    <3>2. CASE u # t
      BY <2>1, <3>2 DEF OwnerInv, AckInv
    <3> QED
      BY <3>1, <3>2
  <2> QED
    BY <2>2, <2>3 DEF AckInv
<1>9. StillHeld'
  BY DEF OwnerInv, StillHeld, brokerVars, Unacked, Stored
<1> QED
  BY <1>4, <1>5, <1>6, <1>7, <1>8, <1>9 DEF OwnerInv

LEMMA MoveActions ==
  ASSUME TypeInv, TypeInv', OwnerInv, Sure' => Sure, NEW t \in Thread,
         \/ StoreInc(t) \/ Begin(t) \/ HandlerAnswers(t) \/ HandlerFails(t)
         \/ LoadDec(t) \/ StoreDec(t)
  PROVE  OwnerInv'
<1>1. /\ phase \in [Thread -> ThreadPoint] /\ dlv \in [Thread -> Delivery \cup {NoDelivery}]
      /\ out \in [Thread -> Message \cup {Blank}]
      /\ phase[t] # "idle" => dlv[t] \in Delivery /\ dlv[t].msg \in Message
  BY DEF TypeInv, ThreadInv, Delivery
<1>2. UNCHANGED <<brokerVars, published, consumerVars, backlog, msg_opr_queue>>
  BY DEF StoreInc, Begin, HandlerAnswers, HandlerFails, LoadDec, StoreDec
<1>3. \A u \in Thread \ {t} : phase'[u] = phase[u] /\ dlv'[u] = dlv[u] /\ out'[u] = out[u]
  BY <1>1 DEF StoreInc, Begin, HandlerAnswers, HandlerFails, LoadDec, StoreDec, Move
<1>4. Busy(t)' => Busy(t) /\ dlv'[t] = dlv[t]
  BY <1>1 DEF StoreInc, Begin, HandlerAnswers, HandlerFails, LoadDec, StoreDec, Move, Busy,
              BusyPoint
<1>5. phase[t] # "ack"
  BY DEF StoreInc, Begin, HandlerAnswers, HandlerFails, LoadDec, StoreDec, Move
<1>6. Settled \subseteq Settled'
  BY DEF StoreInc, Begin, HandlerAnswers, HandlerFails, LoadDec, StoreDec, Settled, historyVars
<1>7. phase'[t] \in {"ack", "reject"} => dlv'[t].msg.job \in Settled'
  BY <1>1 DEF StoreInc, Begin, HandlerAnswers, HandlerFails, LoadDec, StoreDec, Move, Settled
<1>8. phase'[t] = "requeue" => out'[t].job = dlv'[t].msg.job
  <2>1. Begin(t) => (phase'[t] = "requeue" => out'[t].job = dlv'[t].msg.job)
    BY <1>1 DEF Begin, Move, Delayed, Message
  <2>2. HandlerFails(t) => (phase'[t] = "requeue" => out'[t].job = dlv'[t].msg.job)
    BY <1>1, RetriedMessage DEF HandlerFails, Move
  <2>3. StoreInc(t) \/ HandlerAnswers(t) \/ LoadDec(t) \/ StoreDec(t) => phase'[t] # "requeue"
    BY <1>1 DEF StoreInc, HandlerAnswers, LoadDec, StoreDec, Move
  <2> QED
    BY <2>1, <2>2, <2>3
<1> QED
  BY <1>2, <1>3, <1>4, <1>5, <1>6, <1>7, <1>8, MoveStep

(* drain_events: the delivered copy was ready, so nobody owned it.            *)
LEMMA DeliverStep ==
  ASSUME TypeInv, TypeInv', OwnerInv, Sure' => Sure, NEW c \in Copy, Deliver(c)
  PROVE  OwnerInv'
<1> DEFINE d == [copy |-> c, session |-> session, msg |-> msg[c]]
<1>1. /\ backlog \in Seq(Delivery) /\ d \in Delivery
      /\ backlog' = Append(backlog, d)
      /\ place \in [Copy -> Place] /\ place[c] = "ready"
      /\ place' = [place EXCEPT ![c] = "unacked"] /\ msg' = msg /\ superseded' = superseded
  BY DEF TypeInv, QueueInv, BrokerInv, BrokerTypeOK, ConsumerInv, Stored, Deliver, Push, Delivery
<1>2. /\ UNCHANGED <<msg_opr_queue, phase, dlv, out, broken, session, published>>
      /\ Settled' = Settled /\ pc' \notin Offline /\ ~broken
      /\ \A e : Attached(e)' = Attached(e)
  BY DEF Deliver, historyVars, threadVars, Settled, Attached, Live, Connected, Offline
<1>3. /\ \A t : Busy(t)' = Busy(t) /\ \A i : Final(i)' = Final(i) /\ OpDlv(i)' = OpDlv(i)
      /\ Ops' = Ops
  BY <1>2 DEF Busy, Final, OpDlv, Ops
<1>4. /\ DOMAIN backlog' = 1 .. (Len(backlog) + 1) /\ DOMAIN backlog = 1 .. Len(backlog)
      /\ Len(backlog) \in Nat
      /\ backlog'[Len(backlog) + 1] = d
      /\ \A i \in DOMAIN backlog : backlog'[i] = backlog[i] /\ backlog[i] \in Delivery
  BY <1>1, AppendPositions
<1> DEFINE n == Len(backlog) + 1
<1>5. /\ DOMAIN backlog' = DOMAIN backlog \cup {n} /\ n \notin DOMAIN backlog
  BY <1>4
<1>6. /\ \A t \in Thread : Busy(t) => dlv[t] \in Delivery
      /\ \A i \in Ops : OpDlv(i) \in Delivery
      /\ d.copy = c /\ d.session = session /\ d.msg = msg[c]
  BY OpsTyped DEF TypeInv, ThreadInv, Busy, BusyPoint
<1> HIDE DEF d, n
<1>7. \A e \in Delivery : Held(e) => Held(e)' /\ e.copy # c
  BY <1>1 DEF Held, Delivery
<1>8. HeldInv'
  <2>1. place'[c] = "unacked" /\ msg'[c] = msg[c]
    BY <1>1
  <2>2. \A i \in DOMAIN backlog' : Attached(backlog[i])' => Held(backlog[i])'
    <3> SUFFICES ASSUME NEW i \in DOMAIN backlog', Attached(backlog[i])'
                 PROVE  Held(backlog[i])'
      OBVIOUS
    <3>1. CASE i = n
      BY <1>4, <1>6, <2>1, <3>1 DEF n, Held
    <3>2. CASE i \in DOMAIN backlog
      <4>1. backlog'[i] = backlog[i] /\ backlog[i] \in Delivery /\ Attached(backlog[i])
        BY <1>2, <1>4, <3>2
      <4>2. Held(backlog[i])
        BY <3>2, <4>1 DEF OwnerInv, HeldInv
      <4> QED
        BY <1>7, <4>1, <4>2 DEF Held
    <3> QED
      BY <1>5, <3>1, <3>2
  <2>3. \A t \in Thread : Busy(t)' /\ Attached(dlv[t])' => Held(dlv[t])'
    BY <1>2, <1>3, <1>6, <1>7 DEF OwnerInv, HeldInv, Held
  <2>4. \A i \in Ops' : Final(i)' /\ Attached(OpDlv(i))' => Held(OpDlv(i))'
    BY <1>2, <1>3, <1>6, <1>7 DEF OwnerInv, HeldInv, Held
  <2> QED
    BY <2>2, <2>3, <2>4 DEF HeldInv
<1>9. OneOwner'
  <2>1. /\ \A i \in DOMAIN backlog : Apart(backlog[i], d) /\ Apart(d, backlog[i])
        /\ \A t \in Thread : Busy(t) => Apart(d, dlv[t])
        /\ \A i \in Ops : Final(i) => Apart(d, OpDlv(i))
    BY <1>4, <1>6, <1>7 DEF OwnerInv, HeldInv, Apart
  <2>2. \A e, f : Apart(e, f) => Apart(e, f)'
    BY <1>2 DEF Apart
  <2>3. backlog'[n] = d
    BY <1>4 DEF n
  <2>4. \A i, k \in DOMAIN backlog' : i # k => Apart(backlog[i], backlog[k])'
    BY <1>4, <1>5, <2>1, <2>2, <2>3 DEF OwnerInv, OneOwner
  <2>5. \A i \in DOMAIN backlog', t \in Thread : Busy(t)' => Apart(backlog[i], dlv[t])'
    BY <1>2, <1>3, <1>4, <1>5, <2>1, <2>2, <2>3 DEF OwnerInv, OneOwner
  <2>6. \A i \in DOMAIN backlog', k \in Ops' : Final(k)' => Apart(backlog[i], OpDlv(k))'
    BY <1>2, <1>3, <1>4, <1>5, <2>1, <2>2, <2>3 DEF OwnerInv, OneOwner
  <2>7. /\ \A t, u \in Thread : Busy(t)' /\ Busy(u)' /\ t # u => Apart(dlv[t], dlv[u])'
        /\ \A i, k \in Ops' : Final(i)' /\ Final(k)' /\ i # k => Apart(OpDlv(i), OpDlv(k))'
        /\ \A t \in Thread, k \in Ops' : Busy(t)' /\ Final(k)' => Apart(dlv[t], OpDlv(k))'
    BY <1>2, <1>3, <2>2 DEF OwnerInv, OneOwner
  <2> QED
    BY <2>4, <2>5, <2>6, <2>7 DEF OneOwner
<1>10. SessionInv'
  <2>1. session \in Nat
    BY DEF TypeInv, ConsumerInv
  <2>2. \A i \in DOMAIN backlog' : backlog'[i].session <= session
    BY <1>4, <1>5, <1>6, <2>1 DEF n, OwnerInv, SessionInv
  <2> QED
    BY <1>2, <1>3, <2>2 DEF OwnerInv, SessionInv
<1>11. RequeuedThenAcked'
  BY <1>2, <1>3 DEF OwnerInv, RequeuedThenAcked
<1>12. AckInv'
  BY <1>1, <1>2, <1>3 DEF OwnerInv, AckInv, Replaced
<1>13. StillHeld'
  BY <1>1, <1>2 DEF OwnerInv, StillHeld, Stored, Unacked
<1> QED
  BY <1>8, <1>9, <1>10, <1>11, <1>12, <1>13 DEF OwnerInv

(* An executor thread takes over the first delivery of the backlog.           *)
LEMMA TakeStep ==
  ASSUME TypeInv, TypeInv', OwnerInv, Sure' => Sure, NEW t \in Thread, Take(t)
  PROVE  OwnerInv'
<1> DEFINE d == Head(backlog)
<1>1. /\ backlog \in Seq(Delivery) /\ backlog # <<>> /\ backlog' = Tail(backlog)
      /\ phase[t] = "idle" /\ phase'[t] = "loaded" /\ dlv'[t] = d
      /\ \A u \in Thread \ {t} : phase'[u] = phase[u] /\ dlv'[u] = dlv[u]
      /\ out' = out
  BY DEF TypeInv, QueueInv, ThreadInv, Take, Move
<1>2. /\ UNCHANGED <<brokerVars, msg_opr_queue, consumerVars, published>>
      /\ Settled' = Settled
      /\ \A e : Attached(e)' = Attached(e) /\ Held(e)' = Held(e) /\ \A f : Apart(e, f)' = Apart(e, f)
  BY DEF Take, historyVars, Settled, Attached, Live, Connected, Held, consumerVars, brokerVars,
         Apart
<1>3. /\ \A i \in DOMAIN backlog' : /\ i + 1 \in DOMAIN backlog /\ i + 1 # 1
                                    /\ backlog'[i] = backlog[i + 1]
      /\ \A i, k \in DOMAIN backlog' : i # k => i + 1 # k + 1
      /\ 1 \in DOMAIN backlog /\ backlog[1] = d
  BY <1>1, TailPositions
<1>4. /\ \A i : Final(i)' = Final(i) /\ OpDlv(i)' = OpDlv(i)
      /\ Ops' = Ops
      /\ \A u \in Thread \ {t} : Busy(u)' = Busy(u)
      /\ ~Busy(t) /\ Busy(t)'
  BY <1>1, <1>2 DEF Busy, BusyPoint, Final, OpDlv, Ops
<1> HIDE DEF d
<1>5. HeldInv'
  <2>1. \A i \in DOMAIN backlog' : Attached(backlog[i])' => Held(backlog[i])'
    BY <1>2, <1>3 DEF OwnerInv, HeldInv
  <2>2. \A u \in Thread : Busy(u)' /\ Attached(dlv[u])' => Held(dlv[u])'
    BY <1>1, <1>2, <1>3, <1>4 DEF OwnerInv, HeldInv
  <2>3. \A i \in Ops' : Final(i)' /\ Attached(OpDlv(i))' => Held(OpDlv(i))'
    BY <1>2, <1>4 DEF OwnerInv, HeldInv
  <2> QED
    BY <2>1, <2>2, <2>3 DEF HeldInv
<1>6. OneOwner'
  <2>1. \A i, k \in DOMAIN backlog' : i # k => Apart(backlog[i], backlog[k])'
    BY <1>2, <1>3 DEF OwnerInv, OneOwner
  <2>2. \A i \in DOMAIN backlog', u \in Thread : Busy(u)' => Apart(backlog[i], dlv[u])'
    BY <1>1, <1>2, <1>3, <1>4 DEF OwnerInv, OneOwner
  <2>3. \A i \in DOMAIN backlog', k \in Ops' : Final(k)' => Apart(backlog[i], OpDlv(k))'
    BY <1>2, <1>3, <1>4 DEF OwnerInv, OneOwner
  <2>4. \A e, f : Apart(e, f) => Apart(f, e)
    BY DEF Apart
  <2>5. \A u, v \in Thread : Busy(u)' /\ Busy(v)' /\ u # v => Apart(dlv[u], dlv[v])'
    BY <1>1, <1>2, <1>3, <1>4, <2>4 DEF OwnerInv, OneOwner
  <2>6. \A i, k \in Ops' : Final(i)' /\ Final(k)' /\ i # k => Apart(OpDlv(i), OpDlv(k))'
    BY <1>2, <1>4 DEF OwnerInv, OneOwner
  <2>7. \A u \in Thread, k \in Ops' : Busy(u)' /\ Final(k)' => Apart(dlv[u], OpDlv(k))'
    BY <1>1, <1>2, <1>3, <1>4 DEF OwnerInv, OneOwner
  <2> QED
    BY <2>1, <2>2, <2>3, <2>5, <2>6, <2>7 DEF OneOwner
<1>7. SessionInv'
  <2>1. \A i \in DOMAIN backlog' : backlog'[i].session <= session
    BY <1>3 DEF OwnerInv, SessionInv
  <2>2. \A u \in Thread : Busy(u)' => dlv'[u].session <= session
    BY <1>1, <1>3, <1>4 DEF OwnerInv, SessionInv
  <2> QED
    BY <1>2, <1>4, <2>1, <2>2 DEF OwnerInv, SessionInv, consumerVars, brokerVars, Unacked
<1>8. RequeuedThenAcked'
  <2>1. \A u \in Thread : phase[u] = "ack" => phase'[u] = "ack" /\ dlv'[u] = dlv[u]
    BY <1>1
  <2> QED
    BY <1>2, <1>4, <2>1 DEF OwnerInv, RequeuedThenAcked
<1>9. AckInv'
  <2>1. \A e, n : Replaced(e, n) => Replaced(e, n)'
    BY <1>2, <1>4 DEF Replaced, brokerVars
  <2> QED
    BY <1>1, <1>2, <1>4, <2>1 DEF OwnerInv, AckInv
<1>10. StillHeld'
  BY <1>2 DEF OwnerInv, StillHeld, brokerVars, Unacked, Stored
<1> QED
  BY <1>5, <1>6, <1>7, <1>8, <1>9, <1>10 DEF OwnerInv

(* _msg_opr_queue.put: the thread passes its delivery to its ack or reject,   *)
(* or keeps it when it puts the requeue.                                      *)
LEMMA PutStep ==
  ASSUME TypeInv, TypeInv', OwnerInv, Sure' => Sure, NEW t \in Thread,
         PutRequeue(t) \/ PutAck(t) \/ PutReject(t)
  PROVE  OwnerInv'
<1> PICK n : n = Len(msg_opr_queue) + 1
  OBVIOUS
<1>1. /\ phase \in [Thread -> ThreadPoint] /\ out \in [Thread -> Message \cup {Blank}]
      /\ phase[t] \in {"requeue", "ack", "reject"} /\ dlv[t] \in Delivery
      /\ dlv' = dlv
      /\ \A u \in Thread \ {t} : phase'[u] = phase[u] /\ out'[u] = out[u]
      /\ phase'[t] \in {"ack", "exit"}
  BY DEF TypeInv, ThreadInv, PutRequeue, PutAck, PutReject, Put, Move
<1> DEFINE o == [op |-> phase[t], dlv |-> dlv[t], out |-> out[t]]
<1>2. /\ msg_opr_queue' = Append(msg_opr_queue, o)
      /\ msg_opr_queue \in Seq(Operation) /\ o \in Operation
      /\ o.op = phase[t] /\ o.dlv = dlv[t] /\ o.out = out[t]
  BY <1>1 DEF TypeInv, QueueInv, PutRequeue, PutAck, PutReject, Put, Move, Enqueue, Operation
<1> HIDE DEF o
<1>3. /\ UNCHANGED <<brokerVars, published, consumerVars, backlog>> /\ Settled' = Settled
      /\ \A e : Attached(e)' = Attached(e) /\ Held(e)' = Held(e)
  BY DEF PutRequeue, PutAck, PutReject, Put, historyVars, Settled, Attached, Live, Connected, Held,
         consumerVars, brokerVars
<1>4. \A e, f : Apart(e, f)' = Apart(e, f) /\ (Apart(e, f) => Apart(f, e))
  BY <1>3 DEF Apart
<1>5. /\ n \in Nat /\ n \notin Ops /\ Ops' = Ops \cup {n} /\ Ops \subseteq Nat
      /\ Len(msg_opr_queue') = n
      /\ msg_opr_queue'[n] = o
      /\ \A i \in Ops : i < n /\ msg_opr_queue'[i] = msg_opr_queue[i]
  BY <1>2, AppendPositions DEF Ops
<1>6. /\ \A i \in Ops : Final(i)' = Final(i) /\ OpDlv(i)' = OpDlv(i)
      /\ OpDlv(n)' = dlv[t]
  BY <1>2, <1>5 DEF Final, OpDlv
<1>7. /\ Busy(t)
      /\ \A u \in Thread : Busy(u)' => Busy(u)
      /\ Final(n)' => ~Busy(t)'
  BY <1>1, <1>2, <1>5 DEF Busy, BusyPoint, Final, PutRequeue, PutAck, PutReject, Put, Move
<1>8. HeldInv'
  <2>1. \A i \in Ops' : Final(i)' /\ Attached(OpDlv(i))' => Held(OpDlv(i))'
    BY <1>3, <1>5, <1>6, <1>7 DEF OwnerInv, HeldInv
  <2>2. \A u \in Thread : Busy(u)' /\ Attached(dlv[u])' => Held(dlv[u])'
    BY <1>1, <1>3, <1>7 DEF OwnerInv, HeldInv
  <2> QED
    BY <1>3, <2>1, <2>2 DEF OwnerInv, HeldInv
<1>9. OneOwner'
  <2>1. \A u, v \in Thread : Busy(u)' /\ Busy(v)' /\ u # v => Apart(dlv[u], dlv[v])'
    BY <1>1, <1>4, <1>7 DEF OwnerInv, OneOwner
  <2>2. \A i, k \in Ops' : Final(i)' /\ Final(k)' /\ i # k => Apart(OpDlv(i), OpDlv(k))'
    BY <1>4, <1>5, <1>6, <1>7 DEF OwnerInv, OneOwner
  <2>3. \A i \in DOMAIN backlog', u \in Thread : Busy(u)' => Apart(backlog[i], dlv[u])'
    BY <1>1, <1>3, <1>4, <1>7 DEF OwnerInv, OneOwner
  <2>4. \A i \in DOMAIN backlog', k \in Ops' : Final(k)' => Apart(backlog[i], OpDlv(k))'
    BY <1>3, <1>4, <1>5, <1>6, <1>7 DEF OwnerInv, OneOwner
  <2>5. \A u \in Thread, k \in Ops' : Busy(u)' /\ Final(k)' => Apart(dlv[u], OpDlv(k))'
    BY <1>1, <1>4, <1>5, <1>6, <1>7 DEF OwnerInv, OneOwner
  <2>6. \A i, k \in DOMAIN backlog' : i # k => Apart(backlog[i], backlog[k])'
    BY <1>3, <1>4 DEF OwnerInv, OneOwner
  <2> QED
    BY <2>1, <2>2, <2>3, <2>4, <2>5, <2>6 DEF OneOwner
<1>10. SessionInv'
  <2>1. \A i \in Ops' : OpDlv(i)'.session <= session
    BY <1>5, <1>6, <1>7 DEF OwnerInv, SessionInv
  <2>2. \A u \in Thread : Busy(u)' => dlv'[u].session <= session
    BY <1>1, <1>7 DEF OwnerInv, SessionInv
  <2> QED
    BY <1>3, <2>1, <2>2 DEF OwnerInv, SessionInv, consumerVars, brokerVars, Unacked
<1>11. RequeuedThenAcked'
  <2> SUFFICES ASSUME NEW i \in Ops', msg_opr_queue'[i].op = "requeue"
               PROVE  /\ msg_opr_queue'[i].out.job = OpDlv(i)'.msg.job
                      /\ \/ \E k \in Ops' : /\ i < k /\ msg_opr_queue'[k].op = "ack"
                                            /\ OpDlv(k)' = OpDlv(i)'
                         \/ \E u \in Thread : phase'[u] = "ack" /\ dlv'[u] = OpDlv(i)'
    BY DEF RequeuedThenAcked
  <2>1. CASE i = n
    <3>1. phase[t] = "requeue" /\ phase'[t] = "ack"
      BY <1>1, <1>2, <1>5, <2>1 DEF PutRequeue, PutAck, PutReject, Put, Move
    <3> QED
      BY <1>1, <1>2, <1>5, <1>6, <2>1, <3>1 DEF OwnerInv, AckInv
  <2>2. CASE i \in Ops
    <3>1. /\ msg_opr_queue[i].out.job = OpDlv(i).msg.job
          /\ \/ \E k \in Ops : i < k /\ msg_opr_queue[k].op = "ack" /\ OpDlv(k) = OpDlv(i)
             \/ \E u \in Thread : phase[u] = "ack" /\ dlv[u] = OpDlv(i)
      BY <1>5, <2>2 DEF OwnerInv, RequeuedThenAcked
    <3>2. CASE \E k \in Ops : i < k /\ msg_opr_queue[k].op = "ack" /\ OpDlv(k) = OpDlv(i)
      BY <1>5, <1>6, <2>2, <3>1, <3>2
    <3>3. CASE phase[t] = "ack" /\ dlv[t] = OpDlv(i)
      BY <1>2, <1>5, <1>6, <2>2, <3>1, <3>3
    <3>4. CASE \E u \in Thread \ {t} : phase[u] = "ack" /\ dlv[u] = OpDlv(i)
      BY <1>1, <1>5, <1>6, <2>2, <3>1, <3>4
    <3> QED
      BY <3>1, <3>2, <3>3, <3>4
  <2> QED
    BY <1>5, <2>1, <2>2
<1>12. AckInv'
  <2>1. \A e : \A k, l \in Nat : k <= l /\ Replaced(e, k) => Replaced(e, l)'
    <3> SUFFICES ASSUME NEW e, NEW k \in Nat, NEW l \in Nat, k <= l, Replaced(e, k)
                 PROVE  Replaced(e, l)'
      OBVIOUS
    <3>1. CASE \E r \in Ops : r < k /\ msg_opr_queue[r].op = "requeue" /\ OpDlv(r) = e
      BY <1>5, <1>6, <3>1 DEF Replaced
    <3> QED
      BY <1>3, <3>1 DEF Replaced, brokerVars
  <2>2. phase[t] = "ack" => Replaced(dlv[t], n)'
    BY <1>1, <1>5, <2>1 DEF OwnerInv, AckInv
  <2>3. phase[t] = "reject" => Replaced(dlv[t], n)'
    BY <1>1, <1>3 DEF OwnerInv, AckInv, Replaced
  <2>4. \A i \in Ops' : Final(i)' => Replaced(OpDlv(i), i)'
    <3>1. \A i \in Ops : Final(i)' => Replaced(OpDlv(i), i)'
      BY <1>5, <1>6, <2>1 DEF OwnerInv, AckInv
    <3>2. Final(n)' => Replaced(OpDlv(n), n)'
      <4>1. Final(n)' => phase[t] \in {"ack", "reject"}
        BY <1>2, <1>5 DEF Final
      <4> QED
        BY <1>1, <1>6, <2>2, <2>3, <4>1
    <3> QED
      BY <1>5, <3>1, <3>2
  <2>5. ASSUME NEW u \in Thread
        PROVE  /\ phase'[u] = "ack" => Replaced(dlv[u], Len(msg_opr_queue) + 1)'
               /\ phase'[u] = "reject" => dlv'[u].msg.job \in Settled'
               /\ phase'[u] = "requeue" => out'[u].job = dlv'[u].msg.job
    <3>1. CASE u = t
      <4>1. phase'[t] = "ack" => phase[t] = "requeue"
        BY <1>1 DEF PutRequeue, PutAck, PutReject, Put, Move
      <4>2. CASE phase[t] = "requeue"
        <5>1. n \in Ops' /\ n < Len(msg_opr_queue') + 1 /\ msg_opr_queue'[n].op = "requeue"
              /\ OpDlv(n)' = dlv'[t]
          BY <1>1, <1>2, <1>5, <1>6, <4>2
        <5> QED
          BY <1>1, <3>1, <5>1 DEF Replaced
      <4> QED
        BY <1>1, <3>1, <4>1, <4>2
    <3>2. CASE u # t
      <4>1. phase[u] = "ack" => Replaced(dlv[u], n)
        BY DEF OwnerInv, AckInv
      <4>2. Replaced(dlv[u], n) => Replaced(dlv[u], n + 1)'
        BY <1>1, <1>5, <2>1
      <4>3. phase'[u] = "ack" => Replaced(dlv[u], n + 1)'
        BY <1>1, <3>2, <4>1, <4>2
      <4> QED
        BY <1>1, <1>3, <1>5, <3>2, <4>3 DEF OwnerInv, AckInv, Replaced
    <3> QED
      BY <3>1, <3>2
  <2> QED
    BY <2>4, <2>5 DEF AckInv
<1>13. StillHeld'
  BY <1>3 DEF OwnerInv, StillHeld, brokerVars, Unacked, Stored
<1> QED
  BY <1>8, <1>9, <1>10, <1>11, <1>12, <1>13 DEF OwnerInv

(* An operation is applied: the first one leaves the queue, and what the      *)
(* channel, the threads and the backlog hold stays as it is.                  *)
LEMMA ApplyStep ==
  ASSUME TypeInv, TypeInv', OwnerInv, Sure' => Sure, pc \notin Offline,
         msg_opr_queue # <<>>, msg_opr_queue' = Tail(msg_opr_queue),
         UNCHANGED <<published, pc, broken, session, backlog, phase, dlv, out>>,
         Settled' = Settled,
         \A e \in Delivery : /\ Attached(e) /\ Held(e) => (Final(1) /\ ~Apart(OpDlv(1), e)) \/ Held(e)'
                             /\ Attached(e) /\ e.copy \in superseded =>
                                  (Final(1) /\ ~Apart(OpDlv(1), e)) \/ e.copy \in superseded',
         Sure' /\ msg_opr_queue[1].op = "requeue" /\ Attached(OpDlv(1)) =>
           OpDlv(1).copy \in superseded',
         StillHeld'
  PROVE  OwnerInv'
<1> DEFINE d == OpDlv(1)
<1>0. /\ \A i \in Ops' : i + 1 \in Ops /\ msg_opr_queue'[i] = msg_opr_queue[i + 1]
      /\ Ops' \subseteq Nat \ {0}
      /\ Len(msg_opr_queue') = Len(msg_opr_queue) - 1
  BY GetOp
<1>1. /\ \A i \in Ops' : /\ i + 1 \in Ops /\ i + 1 # 1 /\ i \in Nat
                         /\ msg_opr_queue'[i] = msg_opr_queue[i + 1]
      /\ \A i \in Ops : i # 1 => i - 1 \in Ops' /\ msg_opr_queue'[i - 1] = msg_opr_queue[i]
      /\ Ops \subseteq Nat \ {0} /\ 1 \in Ops
      /\ Len(msg_opr_queue) \in Nat /\ Len(msg_opr_queue') + 1 = Len(msg_opr_queue)
  <2>1. \A i \in Ops' : i + 1 # 1 /\ i \in Nat
    BY <1>0
  <2>2. Len(msg_opr_queue) \in Nat
    BY GetOp
  <2>3. Len(msg_opr_queue') + 1 = Len(msg_opr_queue)
    BY <1>0, <2>2
  <2> QED
    BY <1>0, <2>1, <2>2, <2>3, GetOp
<1>2. /\ \A i \in Ops' : Final(i)' = Final(i + 1) /\ OpDlv(i)' = OpDlv(i + 1)
      /\ \A i, k \in Ops' : i # k => i + 1 # k + 1
  <2>1. \A i, k \in Ops' : i # k => i + 1 # k + 1
    BY <1>0
  <2> QED
    BY <1>1, <2>1 DEF Final, OpDlv
<1>3. /\ \A e : Attached(e)' = Attached(e) /\ \A f : Apart(e, f)' = Apart(e, f)
      /\ \A t : Busy(t)' = Busy(t)
  BY DEF Attached, Live, Connected, Apart, Busy
<1>4. /\ \A i \in DOMAIN backlog : backlog[i] \in Delivery /\ (Final(1) => Apart(d, backlog[i]))
      /\ \A t \in Thread : Busy(t) => dlv[t] \in Delivery /\ (Final(1) => Apart(d, dlv[t]))
      /\ \A i \in Ops : /\ OpDlv(i) \in Delivery
                        /\ Final(1) /\ Final(i) /\ i # 1 => Apart(d, OpDlv(i))
  <2>1. \A i \in DOMAIN backlog : backlog[i] \in Delivery
    BY DEF TypeInv, QueueInv
  <2>2. \A t \in Thread : Busy(t) => dlv[t] \in Delivery
    BY DEF TypeInv, ThreadInv, Busy, BusyPoint
  <2>3. \A e, f : Apart(e, f) => Apart(f, e)
    BY DEF Apart
  <2> QED
    BY <1>1, <2>1, <2>2, <2>3, OpsTyped DEF OwnerInv, OneOwner
<1> HIDE DEF d
<1>5. HeldInv'
  <2>1. \A i \in DOMAIN backlog' : Attached(backlog[i])' => Held(backlog[i])'
    BY <1>3, <1>4 DEF OwnerInv, HeldInv, d
  <2>2. \A t \in Thread : Busy(t)' /\ Attached(dlv[t])' => Held(dlv[t])'
    BY <1>3, <1>4 DEF OwnerInv, HeldInv, d
  <2>3. ASSUME NEW i \in Ops', Final(i)', Attached(OpDlv(i))'
        PROVE  Held(OpDlv(i))'
    <3>1. Final(i + 1) /\ Attached(OpDlv(i + 1)) /\ i + 1 \in Ops /\ i + 1 # 1
      BY <1>1, <1>2, <1>3, <2>3
    <3>2. Held(OpDlv(i + 1)) /\ OpDlv(i + 1) \in Delivery
      BY <1>4, <3>1 DEF OwnerInv, HeldInv
    <3>3. Final(1) => Apart(OpDlv(1), OpDlv(i + 1))
      BY <1>4, <3>1 DEF d
    <3> QED
      BY <1>2, <3>1, <3>2, <3>3 DEF Held
  <2> QED
    BY <2>1, <2>2, <2>3 DEF HeldInv
<1>6. OneOwner'
  <2>1. \A i, k \in DOMAIN backlog' : i # k => Apart(backlog[i], backlog[k])'
    BY <1>3 DEF OwnerInv, OneOwner
  <2>2. \A i \in DOMAIN backlog', t \in Thread : Busy(t)' => Apart(backlog[i], dlv[t])'
    BY <1>3 DEF OwnerInv, OneOwner
  <2>3. \A i \in DOMAIN backlog', k \in Ops' : Final(k)' => Apart(backlog[i], OpDlv(k))'
    BY <1>1, <1>2, <1>3 DEF OwnerInv, OneOwner
  <2>4. \A t, u \in Thread : Busy(t)' /\ Busy(u)' /\ t # u => Apart(dlv[t], dlv[u])'
    BY <1>3 DEF OwnerInv, OneOwner
  <2>5. \A i, k \in Ops' : Final(i)' /\ Final(k)' /\ i # k => Apart(OpDlv(i), OpDlv(k))'
    BY <1>1, <1>2, <1>3 DEF OwnerInv, OneOwner
  <2>6. \A t \in Thread, k \in Ops' : Busy(t)' /\ Final(k)' => Apart(dlv[t], OpDlv(k))'
    BY <1>1, <1>2, <1>3 DEF OwnerInv, OneOwner
  <2> QED
    BY <2>1, <2>2, <2>3, <2>4, <2>5, <2>6 DEF OneOwner
<1>7. SessionInv'
  <2>1. \A i \in Ops' : OpDlv(i)'.session <= session
    BY <1>1, <1>2 DEF OwnerInv, SessionInv
  <2> QED
    BY <1>3, <2>1 DEF OwnerInv, SessionInv
<1>8. RequeuedThenAcked'
  BY RequeuedGet DEF OwnerInv
<1>9. AckInv'
  <2>1. \A e \in Delivery, k \in Nat :
          Replaced(e, k + 1) /\ (Final(1) => Apart(OpDlv(1), e)) => Replaced(e, k)'
    <3> SUFFICES ASSUME NEW e \in Delivery, NEW k \in Nat, Replaced(e, k + 1),
                        Final(1) => Apart(OpDlv(1), e)
                 PROVE  Replaced(e, k)'
      OBVIOUS
    <3>1. CASE ~Attached(e) \/ e.msg.job \in Settled
      BY <1>3, <3>1 DEF Replaced
    <3>2. CASE Attached(e) /\ e.copy \in superseded
      BY <3>2 DEF Replaced
    <3>3. ASSUME NEW r \in Ops, r < k + 1, msg_opr_queue[r].op = "requeue", OpDlv(r) = e
          PROVE  Replaced(e, k)'
      <4>1. CASE r = 1
        BY <1>3, <3>3, <4>1 DEF Replaced
      <4>2. CASE r # 1
        <5>0. r \in Nat /\ r - 1 < k
          BY <1>1, <3>3
        <5>1. r - 1 \in Ops' /\ r - 1 < k /\ msg_opr_queue'[r - 1] = msg_opr_queue[r]
          BY <1>1, <3>3, <4>2, <5>0
        <5> QED
          BY <3>3, <5>1 DEF Replaced, OpDlv
      <4> QED
        BY <4>1, <4>2
    <3> QED
      BY <3>1, <3>2, <3>3 DEF Replaced
  <2>2. ASSUME NEW i \in Ops', Final(i)' PROVE Replaced(OpDlv(i), i)'
    <3>1. Final(i + 1) /\ i + 1 \in Ops /\ i + 1 # 1 /\ i \in Nat
      BY <1>1, <1>2, <2>2
    <3>2. /\ Replaced(OpDlv(i + 1), i + 1) /\ OpDlv(i + 1) \in Delivery
          /\ Final(1) => Apart(OpDlv(1), OpDlv(i + 1))
      BY <1>4, <3>1 DEF OwnerInv, AckInv, d
    <3>3. PICK e \in Delivery : e = OpDlv(i + 1)
      BY <3>2
    <3>4. Replaced(e, i)'
      BY <2>1, <3>1, <3>2, <3>3
    <3> QED
      BY <1>2, <3>3, <3>4
  <2>3. ASSUME NEW t \in Thread, phase'[t] = "ack"
        PROVE  Replaced(dlv[t], Len(msg_opr_queue) + 1)'
    <3>1. PICK e \in Delivery : e = dlv[t]
      BY <1>4, <2>3 DEF Busy, BusyPoint
    <3>2. PICK k \in Nat : k = Len(msg_opr_queue)
      BY <1>1
    <3>3. Replaced(e, k + 1) /\ (Final(1) => Apart(OpDlv(1), e))
      BY <1>4, <2>3, <3>1, <3>2 DEF OwnerInv, AckInv, d, Busy, BusyPoint
    <3>4. Replaced(e, k)'
      BY <2>1, <3>3
    <3>5. e = dlv'[t] /\ k = Len(msg_opr_queue') + 1
      BY <1>1, <3>1, <3>2
    <3> QED
      BY <3>4, <3>5
  <2> QED
    BY <2>2, <2>3 DEF OwnerInv, AckInv
<1> QED
  BY <1>5, <1>6, <1>7, <1>8, <1>9 DEF OwnerInv

LEMMA ApplyAckStep ==
  ASSUME TypeInv, TypeInv', OwnerInv, Sure' => Sure, ApplyAck
  PROVE  OwnerInv'
<1> DEFINE d == OpDlv(1)
<1>1. /\ place \in [Copy -> Place] /\ msg \in [Copy -> Message \cup {Blank}]
      /\ superseded \subseteq Copy
  BY DEF TypeInv, BrokerInv, BrokerTypeOK
<1>2. /\ pc \notin Offline /\ msg_opr_queue # <<>> /\ msg_opr_queue' = Tail(msg_opr_queue)
      /\ UNCHANGED <<published, pc, broken, session, backlog, phase, dlv, out>>
      /\ Settled' = Settled
  BY DEF ApplyAck, NextOp, historyVars, consumerVars, threadVars, Settled, Offline
<1>3. 1 \in Ops /\ msg_opr_queue[1] = Head(msg_opr_queue) /\ Ops \subseteq Nat \ {0}
  BY <1>2, GetOp
<1>4. Final(1) /\ d \in Delivery /\ d.copy \in Copy
  BY <1>3, OpsTyped DEF ApplyAck, NextOp, Final, Delivery
<1>5. IF Attached(d) THEN Settle(d.copy) ELSE UNCHANGED brokerVars
  BY <1>3 DEF ApplyAck, OpDlv
<1>6. Attached(d) => Held(d) /\ Replaced(d, 1)
  BY <1>3, <1>4 DEF OwnerInv, HeldInv, AckInv
<1> HIDE DEF d
<1>7. CASE ~Attached(d)
  <2>1. place' = place /\ msg' = msg /\ superseded' = superseded
    BY <1>5, <1>7 DEF brokerVars
  <2>2. \A e \in Delivery : /\ Attached(e) /\ Held(e) => Held(e)'
                            /\ Attached(e) /\ e.copy \in superseded => e.copy \in superseded'
    BY <2>1 DEF Held
  <2>3. StillHeld'
    BY <1>2, <2>1 DEF OwnerInv, StillHeld, Unacked, Stored
  <2> QED
    BY <1>2, <1>4, <2>2, <2>3, ApplyStep DEF Final
<1>8. CASE Attached(d)
  <2>1. /\ place' = [place EXCEPT ![d.copy] = "free"]
        /\ msg' = [msg EXCEPT ![d.copy] = Blank]
        /\ superseded' = superseded \ {d.copy}
    BY <1>5, <1>8 DEF Settle
  <2>2. \A c \in Copy : c # d.copy => place'[c] = place[c] /\ msg'[c] = msg[c]
    BY <1>1, <2>1
  <2>3. ASSUME NEW e \in Delivery, Attached(e), Apart(d, e)
        PROVE  /\ Held(e) => Held(e)'
               /\ e.copy \in superseded => e.copy \in superseded'
    <3>1. e.copy \in Copy /\ e.copy # d.copy
      BY <1>8, <2>3 DEF Apart, Delivery
    <3> QED
      BY <2>1, <2>2, <3>1 DEF Held
  <2>4. StillHeld'
    <3>1. superseded' \subseteq Unacked'
      BY <1>1, <2>1, <2>2 DEF OwnerInv, StillHeld, Unacked
    <3>2. ASSUME Sure', NEW j \in published \ Settled
          PROVE  \E c \in Copy \ superseded' : place'[c] # "free" /\ msg'[c].job = j
      <4> PICK w \in Copy \ superseded : Stored(w) /\ msg[w].job = j
        BY <3>2 DEF OwnerInv, StillHeld
      <4>1. Sure /\ msg[d.copy] = d.msg /\ Replaced(d, 1)
        BY <1>6, <1>8, <3>2 DEF Held
      <4>2. d.msg.job \in Settled \/ d.copy \in superseded
        BY <1>3, <1>8, <4>1 DEF Replaced
      <4>3. w # d.copy
        BY <4>1, <4>2
      <4> QED
        BY <2>1, <2>2, <4>3 DEF Stored
    <3> QED
      BY <1>2, <3>1, <3>2 DEF StillHeld, Stored
  <2> QED
    BY <1>2, <1>4, <2>3, <2>4, ApplyStep DEF Final, d
<1> QED
  BY <1>7, <1>8

(* The requeue applied: its copy replaces the delivered one, which its ack,   *)
(* still to come, keeps unacked until then.                                   *)
LEMMA RequeueOkStep ==
  ASSUME TypeInv, TypeInv', OwnerInv, Sure' => Sure, RequeueOk
  PROVE  OwnerInv'
<1> DEFINE d == OpDlv(1)
           m == msg_opr_queue[1].out
<1>1. /\ place \in [Copy -> Place] /\ msg \in [Copy -> Message \cup {Blank}]
      /\ superseded \subseteq Copy
  BY DEF TypeInv, BrokerInv, BrokerTypeOK
<1>2. /\ pc \notin Offline /\ msg_opr_queue # <<>> /\ msg_opr_queue' = Tail(msg_opr_queue)
      /\ UNCHANGED <<published, pc, broken, session, backlog, phase, dlv, out>>
      /\ Settled' = Settled
  BY DEF RequeueOk, NextOp, historyVars, threadVars, Settled, Offline
<1>3. 1 \in Ops /\ msg_opr_queue[1] = Head(msg_opr_queue)
  BY <1>2, GetOp
<1>4. msg_opr_queue[1].op = "requeue" /\ ~Final(1) /\ m.job = d.msg.job /\ d \in Delivery
  BY <1>3, OpsTyped DEF RequeueOk, NextOp, Final, OwnerInv, RequeuedThenAcked
<1>5. PICK c \in Copy : Store(c, "retry", m)
  BY <1>3 DEF RequeueOk
<1>6. superseded' = IF Attached(d) THEN superseded \cup {d.copy} ELSE superseded
  BY <1>3 DEF RequeueOk, OpDlv
<1>7. Attached(d) => Held(d)
  <2>1. CASE \E k \in Ops : msg_opr_queue[k].op = "ack" /\ OpDlv(k) = d
    BY <2>1 DEF OwnerInv, HeldInv, Final
  <2>2. CASE \E t \in Thread : phase[t] = "ack" /\ dlv[t] = d
    BY <2>2 DEF OwnerInv, HeldInv, Busy, BusyPoint
  <2> QED
    BY <1>3, <1>4, <2>1, <2>2 DEF OwnerInv, RequeuedThenAcked
<1> HIDE DEF d, m
<1>8. /\ place[c] = "free" /\ place'[c] = "retry" /\ msg'[c] = m
      /\ \A b \in Copy : b # c => place'[b] = place[b] /\ msg'[b] = msg[b]
  BY <1>1, <1>5 DEF Store
<1>9. \A e \in Delivery : Held(e) => Held(e)' /\ e.copy # c
  BY <1>8 DEF Held, Delivery
<1>10. Unacked \subseteq Unacked' /\ c \notin Unacked
  BY <1>8 DEF Unacked
<1>11. StillHeld'
  <2>1. superseded' \subseteq Unacked'
    <3>1. Attached(d) => d.copy \in Unacked'
      BY <1>4, <1>7, <1>9 DEF Held, Unacked, Delivery
    <3> QED
      BY <1>6, <1>10, <3>1 DEF OwnerInv, StillHeld
  <2>2. c \notin superseded'
    BY <1>4, <1>6, <1>7, <1>9, <1>10 DEF OwnerInv, StillHeld
  <2>3. ASSUME Sure', NEW j \in published \ Settled
        PROVE  \E b \in Copy \ superseded' : place'[b] # "free" /\ msg'[b].job = j
    <3> PICK w \in Copy \ superseded : Stored(w) /\ msg[w].job = j
      BY <2>3 DEF OwnerInv, StillHeld
    <3>1. CASE w \in superseded'
      <4>1. w = d.copy /\ Attached(d)
        BY <1>6, <3>1
      <4>2. m.job = j
        BY <1>4, <1>7, <4>1 DEF Held
      <4> QED
        BY <1>8, <2>2, <4>2
    <3>2. CASE w \notin superseded'
      BY <1>8, <3>2 DEF Stored
    <3> QED
      BY <3>1, <3>2
  <2> QED
    BY <1>2, <2>1, <2>3 DEF StillHeld, Stored
<1>12. \A e \in Delivery : /\ Attached(e) /\ Held(e) => Held(e)'
                           /\ Attached(e) /\ e.copy \in superseded => e.copy \in superseded'
  BY <1>6, <1>9
<1>13. Attached(OpDlv(1)) => OpDlv(1).copy \in superseded'
  BY <1>6 DEF d
<1> QED
  BY <1>2, <1>11, <1>12, <1>13, ApplyStep

(* A publish the broker never saw, on a connection without confirms.          *)
LEMMA RequeueUnseenStep ==
  ASSUME TypeInv, TypeInv', OwnerInv, RequeueUnseen
  PROVE  OwnerInv'
<1>1. ~Sure'
  BY DEF RequeueUnseen, Sure, TypeInv, RecordInv
<1>2. /\ pc \notin Offline /\ msg_opr_queue # <<>> /\ msg_opr_queue' = Tail(msg_opr_queue)
      /\ UNCHANGED <<published, pc, broken, session, backlog, phase, dlv, out, brokerVars>>
      /\ Settled' = Settled
  BY DEF RequeueUnseen, NextOp, historyVars, threadVars, Settled, Offline
<1>3. \A e : (Held(e) => Held(e)') /\ superseded' = superseded
  BY <1>2 DEF Held, brokerVars
<1>4. StillHeld'
  BY <1>1, <1>2 DEF OwnerInv, StillHeld, brokerVars, Unacked
<1> QED
  BY <1>1, <1>2, <1>3, <1>4, ApplyStep

(* No step takes a fault back.                                                *)
LEMMA FaultsGrow ==
  ASSUME [Next]_vars
  PROVE  faults' = faults \/ faults' = faults + 1
  BY DEF Next, vars, Environment, Publish, Tick, Expire, StopWorker, Break, Crash, Restart,
         Consumer, Reconnect, LoopStop, LoopIterate, IterEnd, ApplyAck, AckRaises, RequeueOk,
         RequeueUnseen, PublishRaises, RequeueFails, RequeueRaises, DrainTimeout, DrainRaises,
         Deliver, Executor, Take, StoreInc, Begin, HandlerAnswers, HandlerFails, PutRequeue,
         PutAck, PutReject, Put, LoadDec, StoreDec, PublishAgain

LEMMA StillSure ==
  ASSUME TypeInv, [Next]_vars
  PROVE  Sure' => Sure
  BY FaultsGrow DEF Sure, TypeInv, RecordInv

LEMMA OwnerStep ==
  ASSUME TypeInv, TypeInv', OwnerInv, [Next]_vars
  PROVE  OwnerInv'
<1>1. Sure' => Sure
  BY StillSure
<1>2. CASE Environment \/ UNCHANGED vars
  BY <1>1, <1>2, QuietActions, DetachingActions DEF Environment
<1>3. CASE Consumer
  <2>1. CASE RequeueUnseen
    BY <2>1, RequeueUnseenStep
  <2>2. CASE \E c \in Copy : Deliver(c)
    BY <1>1, <2>2, DeliverStep
  <2>3. CASE LoopIterate \/ IterEnd \/ DrainTimeout \/ PublishRaises \/ RequeueFails
    BY <1>1, <2>3, QuietActions
  <2>4. CASE Reconnect \/ LoopStop \/ AckRaises \/ RequeueRaises \/ DrainRaises
    BY <1>1, <2>4, DetachingActions
  <2> QED
    BY <1>1, <1>3, <2>1, <2>2, <2>3, <2>4, ApplyAckStep, RequeueOkStep DEF Consumer
<1>4. CASE \E t \in Thread : Executor(t)
  <2> PICK t \in Thread : Executor(t)
    BY <1>4
  <2>1. CASE Take(t)
    BY <1>1, <2>1, TakeStep
  <2>2. CASE PutRequeue(t) \/ PutAck(t) \/ PutReject(t)
    BY <1>1, <2>2, PutStep
  <2> QED
    BY <1>1, <2>1, <2>2, MoveActions DEF Executor
<1> QED
  BY <1>2, <1>3, <1>4 DEF Next

LEMMA SpecOwnerInv == Spec => [](TypeInv /\ OwnerInv)
<1>1. TypeInv /\ TypeInv' /\ OwnerInv /\ [Next]_vars => OwnerInv'
  BY OwnerStep
<1> QED
  BY <1>1, InitOwnerInv, SpecTypeInv, PTL DEF Spec

(* With publisher confirms, the broker stores every call that is neither      *)
(* answered nor given up, after any number of faults.                         *)
THEOREM NothingLost ==
  ASSUME ConfirmPublish
  PROVE  Spec => []NoJobLost
<1>1. OwnerInv => NoJobLost
  BY DEF OwnerInv, StillHeld, NoJobLost, Holding, Sure
<1> QED
  BY <1>1, SpecOwnerInv, PTL

(* Without publisher confirms a call can be lost, and only by a fault: as     *)
(* long as nothing has failed the broker stores it all the same.              *)
THEOREM NothingLostWithoutFaults == Spec => [](faults = 0 => NoJobLost)
<1>1. OwnerInv => (faults = 0 => NoJobLost)
  BY DEF OwnerInv, StillHeld, NoJobLost, Holding, Sure
<1> QED
  BY <1>1, SpecOwnerInv, PTL
-----------------------------------------------------------------------------
(***************************************************************************)
(* No call is started again after it was settled, as long as nothing has   *)
(* failed.  A call settles while a thread holds the only copy of it that   *)
(* is not yet superseded; from then on that copy is closing: its ack or    *)
(* reject is put or about to be, and by OneOwner no other thread has it.   *)
(***************************************************************************)
Requeue(i) == msg_opr_queue[i].op = "requeue"

Closing(c) == \/ \E t \in Thread : phase[t] \in {"ack", "reject"} /\ dlv[t].copy = c
              \/ \E i \in Ops : Final(i) /\ OpDlv(i).copy = c

Calm == /\ ~broken /\ ~requested_stop /\ ~set_should_stop
        /\ pc \notin {"stopped", "dead"}
        /\ publish_left = PublishTries

OneOutcome == served \cap (dropped \cup refused) = {} /\ dropped \cap refused = {}

AllAttached ==
  /\ \A i \in DOMAIN backlog : Attached(backlog[i])
  /\ \A t \in Thread : Busy(t) => Attached(dlv[t])
  /\ \A i \in Ops : Attached(OpDlv(i))

OneLive == \A c, d \in Copy \ superseded :
  Stored(c) /\ Stored(d) /\ msg[c].job = msg[d].job => c = d

ClosingInv == \A c \in Copy :
  Stored(c) /\ (c \in superseded \/ msg[c].job \in Settled) => Closing(c)

RequeueInv ==
  /\ \A i \in Ops : Requeue(i) => /\ OpDlv(i).copy \notin superseded
                                  /\ OpDlv(i).msg.job \notin Settled
  /\ \A i, k \in Ops : Requeue(i) /\ Requeue(k) /\ i # k => OpDlv(i).copy # OpDlv(k).copy

CopyInv == OneLive /\ ClosingInv /\ RequeueInv

Faultless == /\ Calm /\ AllAttached /\ CopyInv
             /\ Settled \subseteq published /\ OneOutcome

(* The steps of a server that nothing breaks and nobody stops. *)
CalmStep == \/ \E j \in Job : Publish(j)
            \/ \E c \in Copy : Expire(c) \/ Deliver(c)
            \/ Tick \/ Reconnect \/ LoopIterate \/ IterEnd \/ DrainTimeout
            \/ ApplyAck \/ RequeueOk
            \/ \E t \in Thread : Executor(t)
            \/ UNCHANGED vars

LEMMA OnlyCalmSteps ==
  ASSUME TypeInv, Calm, [Next]_vars, faults = 0, faults' = 0
  PROVE  CalmStep /\ Calm'
<1>1. /\ ~StopWorker /\ ~Break /\ ~Crash /\ ~RequeueUnseen /\ ~PublishRaises
      /\ \A j \in Job : ~PublishAgain(j)
  BY DEF StopWorker, Break, Crash, RequeueUnseen, PublishRaises, PublishAgain
<1>2. /\ ~Restart /\ ~LoopStop /\ ~AckRaises /\ ~DrainRaises
      /\ ~RequeueFails /\ ~RequeueRaises
  BY ServerAssumption
     DEF Restart, LoopStop, AckRaises, DrainRaises, RequeueFails, RequeueRaises, Calm
<1>3. CalmStep
  BY <1>1, <1>2 DEF Next, Environment, Consumer, CalmStep
<1> DEFINE Kept == /\ UNCHANGED <<broken, requested_stop, set_should_stop>>
                   /\ publish_left' \in {publish_left, PublishTries}
<1>4. ASSUME Kept, pc' \notin {"stopped", "dead"} PROVE Calm'
  BY <1>4, Zenon DEF Calm
<1> HIDE DEF Kept
<1>5. CASE Reconnect \/ IterEnd \/ DrainTimeout \/ \E c \in Copy : Deliver(c)
  <2>1. Kept /\ pc' \notin {"stopped", "dead"}
    BY <1>5 DEF Kept, Reconnect, IterEnd, DrainTimeout, Deliver
  <2> QED
    BY <1>3, <1>4, <2>1
<1>6. CASE LoopIterate
  <2>1. ~set_should_stop' /\ ~broken' /\ ~requested_stop' /\ publish_left' = PublishTries
    BY <1>6, Zenon DEF Calm, LoopIterate, LastIteration
  <2>2. pc' \notin {"stopped", "dead"}
    BY <1>6 DEF LoopIterate
  <2> QED
    BY <1>3, <2>1, <2>2, Zenon DEF Calm
<1>7. CASE RequeueOk \/ UNCHANGED consumerVars
  <2>1. Kept /\ pc' = pc
    BY <1>7 DEF Kept, RequeueOk, FreshRequeue, consumerVars
  <2> QED
    BY <1>3, <1>4, <2>1 DEF Calm
<1>8. CASE \E t \in Thread : Executor(t)
  BY <1>7, <1>8 DEF Executor, Take, StoreInc, Begin, HandlerAnswers, HandlerFails, PutRequeue,
                    PutAck, PutReject, Put, LoadDec, StoreDec
<1>9. CASE \/ \E j \in Job : Publish(j)
           \/ \E c \in Copy : Expire(c)
           \/ Tick \/ ApplyAck \/ UNCHANGED vars
  BY <1>7, <1>9 DEF Publish, Expire, Tick, ApplyAck, vars
<1> QED
  BY <1>3, <1>5, <1>6, <1>7, <1>8, <1>9 DEF CalmStep

(* Every delivery the process holds is of the current channel.                *)
LEMMA AttachedStep ==
  ASSUME TypeInv, Calm, AllAttached, CalmStep
  PROVE  AllAttached'
<1>1. \A d : Attached(d) => Attached(d)'
  <2>1. CASE \/ Reconnect \/ LoopIterate \/ IterEnd \/ DrainTimeout
             \/ \E c \in Copy : Deliver(c)
    BY <2>1 DEF Attached, Live, Connected, Reconnect, LoopIterate, IterEnd, DrainTimeout, Deliver
  <2>2. CASE RequeueOk
    BY <2>2 DEF Attached, Live, Connected, RequeueOk
  <2>3. CASE UNCHANGED consumerVars
    BY <2>3 DEF Attached, Live, Connected, consumerVars
  <2>4. CASE \E t \in Thread : Executor(t)
    BY <2>3, <2>4 DEF Executor, Take, StoreInc, Begin, HandlerAnswers, HandlerFails,
                      PutRequeue, PutAck, PutReject, Put, LoadDec, StoreDec
  <2>5. CASE \/ \E j \in Job : Publish(j)
             \/ \E c \in Copy : Expire(c)
             \/ Tick \/ ApplyAck \/ UNCHANGED vars
    BY <2>3, <2>5 DEF Publish, Expire, Tick, ApplyAck, vars
  <2> QED
    BY <2>1, <2>2, <2>4, <2>5 DEF CalmStep
<1> USE DEF AllAttached
<1>2. CASE UNCHANGED <<backlog, msg_opr_queue, phase, dlv>>
  BY <1>1, <1>2 DEF Busy, Ops, OpDlv
<1>3. ASSUME NEW c \in Copy, Deliver(c) PROVE AllAttached'
  <2> DEFINE d == [copy |-> c, session |-> session, msg |-> msg[c]]
  <2>1. /\ backlog \in Seq(Delivery) /\ d \in Delivery /\ backlog' = Append(backlog, d)
        /\ UNCHANGED <<msg_opr_queue, phase, dlv>>
    BY <1>3 DEF TypeInv, QueueInv, BrokerInv, BrokerTypeOK, ConsumerInv, Stored, Deliver, Push,
                Delivery, threadVars
  <2>2. Attached(d)
    BY <1>3 DEF Deliver, Attached, Live, Connected
  <2> HIDE DEF d
  <2>3. \A i \in DOMAIN backlog' : backlog'[i] = d \/ \E k \in DOMAIN backlog : backlog'[i] = backlog[k]
    BY <2>1, AppendPositions
  <2>4. \A i \in DOMAIN backlog' : Attached(backlog'[i])
    BY <2>2, <2>3
  <2> QED
    BY <1>1, <2>1, <2>4 DEF Busy, Ops, OpDlv
<1>4. CASE ApplyAck \/ RequeueOk
  <2>1. /\ msg_opr_queue # <<>> /\ msg_opr_queue' = Tail(msg_opr_queue)
        /\ UNCHANGED <<backlog, phase, dlv>>
    BY <1>4 DEF ApplyAck, RequeueOk, NextOp, threadVars
  <2>2. \A i \in Ops' : i + 1 \in Ops /\ OpDlv(i)' = OpDlv(i + 1)
    BY <2>1, GetOp DEF OpDlv
  <2> QED
    BY <1>1, <2>1, <2>2 DEF Busy
<1>5. ASSUME NEW t \in Thread, Take(t) PROVE AllAttached'
  <2>1. /\ backlog \in Seq(Delivery) /\ backlog # <<>> /\ backlog' = Tail(backlog)
        /\ dlv'[t] = Head(backlog) /\ msg_opr_queue' = msg_opr_queue
        /\ \A u \in Thread \ {t} : phase'[u] = phase[u] /\ dlv'[u] = dlv[u]
    BY <1>5 DEF TypeInv, QueueInv, ThreadInv, Take, Move
  <2>2. /\ \A i \in DOMAIN backlog' : i + 1 \in DOMAIN backlog /\ backlog'[i] = backlog[i + 1]
        /\ 1 \in DOMAIN backlog /\ backlog[1] = Head(backlog)
    BY <2>1, TailPositions
  <2>3. \A i \in DOMAIN backlog' : Attached(backlog[i])'
    BY <1>1, <2>2
  <2>4. \A u \in Thread : Busy(u)' => Attached(dlv[u])'
    BY <1>1, <2>1, <2>2 DEF Busy
  <2> QED
    BY <1>1, <2>1, <2>3, <2>4 DEF Ops, OpDlv
<1>6. ASSUME NEW t \in Thread, PutRequeue(t) \/ PutAck(t) \/ PutReject(t) PROVE AllAttached'
  <2> DEFINE o == [op |-> phase[t], dlv |-> dlv[t], out |-> out[t]]
  <2>1. /\ msg_opr_queue' = Append(msg_opr_queue, o)
        /\ msg_opr_queue \in Seq(Operation) /\ o \in Operation /\ o.dlv = dlv[t] /\ Busy(t)
        /\ backlog' = backlog /\ dlv' = dlv
        /\ \A u \in Thread : Busy(u)' => Busy(u)
    BY <1>6 DEF TypeInv, ThreadInv, QueueInv, PutRequeue, PutAck, PutReject, Put, Move, Enqueue,
                Operation, Busy, BusyPoint
  <2> HIDE DEF o
  <2>2. \A i \in Ops' : OpDlv(i)' = dlv[t] \/ (i \in Ops /\ OpDlv(i)' = OpDlv(i))
    BY <2>1, AppendPositions DEF Ops, OpDlv
  <2> QED
    BY <1>1, <2>1, <2>2
<1>7. ASSUME NEW t \in Thread, \/ StoreInc(t) \/ Begin(t) \/ HandlerAnswers(t) \/ HandlerFails(t)
                               \/ LoadDec(t) \/ StoreDec(t)
      PROVE  AllAttached'
  <2>1. /\ backlog' = backlog /\ msg_opr_queue' = msg_opr_queue
        /\ \A u \in Thread : Busy(u)' => Busy(u) /\ dlv'[u] = dlv[u]
    BY <1>7 DEF TypeInv, ThreadInv, StoreInc, Begin, HandlerAnswers, HandlerFails, LoadDec,
                StoreDec, Move, Busy, BusyPoint
  <2> QED
    BY <1>1, <2>1 DEF Ops, OpDlv
<1>8. CASE \/ \E j \in Job : Publish(j)
           \/ \E c \in Copy : Expire(c)
           \/ Tick \/ Reconnect \/ LoopIterate \/ IterEnd \/ DrainTimeout \/ UNCHANGED vars
  BY <1>2, <1>8 DEF Publish, Expire, Tick, Reconnect, LoopIterate, IterEnd, DrainTimeout, vars,
                    threadVars
<1> QED
  BY <1>3, <1>4, <1>5, <1>6, <1>7, <1>8 DEF CalmStep, Executor

(* A requeue put is followed by its ack, so the copy it replaces is closing.  *)
LEMMA RequeueCloses ==
  ASSUME TypeInv, OwnerInv, AllAttached, NEW i \in Ops, Requeue(i)
  PROVE  /\ Closing(OpDlv(i).copy)
         /\ OpDlv(i).copy \in Copy
         /\ Stored(OpDlv(i).copy) /\ msg[OpDlv(i).copy] = OpDlv(i).msg
<1>1. OpDlv(i) \in Delivery /\ OpDlv(i).copy \in Copy
  BY OpsTyped DEF Delivery
<1>2. CASE \E k \in Ops : msg_opr_queue[k].op = "ack" /\ OpDlv(k) = OpDlv(i)
  BY <1>1, <1>2 DEF OwnerInv, HeldInv, Held, Final, Closing, AllAttached, Stored
<1>3. CASE \E t \in Thread : phase[t] = "ack" /\ dlv[t] = OpDlv(i)
  BY <1>1, <1>3 DEF OwnerInv, HeldInv, Held, Busy, BusyPoint, Closing, AllAttached, Stored
<1> QED
  BY <1>2, <1>3 DEF OwnerInv, RequeuedThenAcked, Requeue

(* The copy of a thread that is not done with it is nobody else's, and its    *)
(* call is not settled.                                                       *)
LEMMA NotClosing ==
  ASSUME TypeInv, OwnerInv, AllAttached, CopyInv, NEW t \in Thread,
         phase[t] \in {"loaded", "begin", "exec", "requeue"}
  PROVE  /\ dlv[t].copy \in Copy /\ Stored(dlv[t].copy) /\ msg[dlv[t].copy] = dlv[t].msg
         /\ dlv[t].copy \notin superseded /\ dlv[t].msg.job \notin Settled
         /\ \A i \in Ops : Requeue(i) => OpDlv(i).copy # dlv[t].copy
<1>1. Busy(t) /\ Attached(dlv[t]) /\ dlv[t] \in Delivery /\ dlv[t].copy \in Copy
  BY DEF TypeInv, ThreadInv, Busy, BusyPoint, AllAttached, Delivery
<1>2. Stored(dlv[t].copy) /\ msg[dlv[t].copy] = dlv[t].msg
  BY <1>1 DEF OwnerInv, HeldInv, Held, Stored
<1>3. ~Closing(dlv[t].copy)
  <2>1. ASSUME NEW u \in Thread, phase[u] \in {"ack", "reject"} PROVE dlv[u].copy # dlv[t].copy
    <3>1. u # t /\ Busy(u) /\ Attached(dlv[u])
      BY <2>1 DEF Busy, BusyPoint, AllAttached
    <3> QED
      BY <1>1, <3>1 DEF OwnerInv, OneOwner, Apart
  <2>2. ASSUME NEW i \in Ops, Final(i) PROVE OpDlv(i).copy # dlv[t].copy
    BY <1>1, <2>2 DEF OwnerInv, OneOwner, Apart, AllAttached
  <2> QED
    BY <2>1, <2>2 DEF Closing
<1> QED
  BY <1>1, <1>2, <1>3, RequeueCloses DEF CopyInv, ClosingInv

(* A step that settles no call and leaves the operations, the closing threads *)
(* and what the broker stores alone.                                          *)
LEMMA CopiesKept ==
  ASSUME CopyInv, superseded' = superseded, Settled' = Settled, msg_opr_queue' = msg_opr_queue,
         \A c \in Copy : Stored(c)' = Stored(c) /\ (Stored(c) => msg'[c] = msg[c]),
         \A t \in Thread : phase[t] \in {"ack", "reject"} => phase'[t] = phase[t] /\ dlv'[t] = dlv[t]
  PROVE  CopyInv'
<1>1. OneLive'
  BY DEF CopyInv, OneLive
<1>2. \A c : Closing(c) => Closing(c)'
  BY DEF Closing, Final, Ops, OpDlv
<1>3. ClosingInv'
  BY <1>2 DEF CopyInv, ClosingInv
<1>4. RequeueInv'
  BY DEF CopyInv, RequeueInv, Requeue, Ops, OpDlv
<1> QED
  BY <1>1, <1>3, <1>4 DEF CopyInv

LEMMA CopiesPublish ==
  ASSUME TypeInv, MessageInv, OwnerInv, CopyInv, Settled \subseteq published,
         NEW j \in Job, Publish(j)
  PROVE  CopyInv'
<1> PICK c \in Copy : Store(c, "ready", Call(j))
  BY DEF Publish
<1>1. /\ place \in [Copy -> Place] /\ msg \in [Copy -> Message \cup {Blank}]
      /\ superseded \subseteq Unacked
  BY DEF TypeInv, BrokerInv, BrokerTypeOK, OwnerInv, StillHeld
<1>2. /\ ~Stored(c) /\ Stored(c)' /\ msg'[c].job = j /\ c \notin superseded
      /\ \A b \in Copy \ {c} : Stored(b)' = Stored(b) /\ msg'[b] = msg[b]
  BY <1>1 DEF Store, Stored, Unacked, Call
<1>3. /\ UNCHANGED <<superseded, msg_opr_queue, phase, dlv>> /\ Settled' = Settled
      /\ j \notin published /\ j \notin Settled
  BY DEF Publish, historyVars, threadVars, Settled
<1>4. \A b \in Copy : Stored(b) => msg[b].job # j
  BY <1>3 DEF MessageInv, StoredInv, GoodMsg, Good
<1>5. OneLive'
  BY <1>2, <1>3, <1>4 DEF CopyInv, OneLive
<1>6. \A b : Closing(b) => Closing(b)'
  BY <1>3 DEF Closing, Final, Ops, OpDlv
<1>7. ClosingInv'
  BY <1>2, <1>3, <1>6 DEF CopyInv, ClosingInv
<1>8. RequeueInv'
  BY <1>3 DEF CopyInv, RequeueInv, Requeue, Ops, OpDlv
<1> QED
  BY <1>5, <1>7, <1>8 DEF CopyInv

(* The handler answers, or its call is given up.                              *)
LEMMA CopiesSettle ==
  ASSUME TypeInv, OwnerInv, AllAttached, CopyInv, NEW t \in Thread,
         phase[t] = "exec", phase'[t] \in {"ack", "reject"},
         \A u \in Thread \ {t} : phase'[u] = phase[u],
         UNCHANGED <<brokerVars, dlv, msg_opr_queue>>,
         Settled' = Settled \cup {dlv[t].msg.job}
  PROVE  CopyInv'
<1> DEFINE j == dlv[t].msg.job
<1> PICK b : b = dlv[t].copy
  OBVIOUS
<1>1. /\ b \in Copy /\ Stored(b) /\ msg[b].job = j /\ b \notin superseded
      /\ \A i \in Ops : Requeue(i) => OpDlv(i).copy # b
  BY NotClosing
<1>2. /\ \A c : Stored(c)' = Stored(c) /\ msg' = msg /\ superseded' = superseded
      /\ Ops' = Ops /\ \A i : OpDlv(i)' = OpDlv(i) /\ Requeue(i)' = Requeue(i)
      /\ \A i : Final(i)' = Final(i)
  BY DEF brokerVars, Stored, Ops, OpDlv, Requeue, Final
<1>3. Closing(b)' /\ \A c : Closing(c) => Closing(c)'
  BY <1>2 DEF Closing
<1>4. OneLive'
  BY <1>2 DEF CopyInv, OneLive
<1>5. \A c \in Copy \ superseded : Stored(c) /\ msg[c].job = j => c = b
  BY <1>1 DEF CopyInv, OneLive
<1> HIDE DEF j
<1>6. ClosingInv'
  <2>1. ASSUME NEW c \in Copy, Stored(c), c \in superseded \/ msg[c].job \in Settled \cup {j}
        PROVE  Closing(c)'
    <3>1. CASE c \in superseded \/ msg[c].job \in Settled
      BY <1>3, <2>1, <3>1 DEF CopyInv, ClosingInv
    <3>2. CASE c \notin superseded /\ msg[c].job = j
      <4>1. c = b
        BY <1>5, <2>1, <3>2
      <4> QED
        BY <1>3, <4>1
    <3> QED
      BY <2>1, <3>1, <3>2
  <2> QED
    BY <1>2, <2>1 DEF ClosingInv, j
<1>7. \A i \in Ops : Requeue(i) => OpDlv(i).msg.job # j
  BY <1>1, <1>5, RequeueCloses DEF CopyInv, RequeueInv
<1>8. RequeueInv'
  BY <1>2, <1>7 DEF CopyInv, RequeueInv, j
<1> QED
  BY <1>4, <1>6, <1>8 DEF CopyInv

LEMMA CopiesPut ==
  ASSUME TypeInv, OwnerInv, AllAttached, CopyInv, NEW t \in Thread,
         PutRequeue(t) \/ PutAck(t) \/ PutReject(t)
  PROVE  CopyInv'
<1> PICK n : n = Len(msg_opr_queue) + 1
  OBVIOUS
<1> DEFINE o == [op |-> phase[t], dlv |-> dlv[t], out |-> out[t]]
<1>1. /\ msg_opr_queue' = Append(msg_opr_queue, o)
      /\ msg_opr_queue \in Seq(Operation) /\ o \in Operation
      /\ o.op = phase[t] /\ o.dlv = dlv[t] /\ phase[t] \in {"requeue", "ack", "reject"}
      /\ dlv' = dlv /\ \A u \in Thread \ {t} : phase'[u] = phase[u]
  BY DEF TypeInv, ThreadInv, QueueInv, PutRequeue, PutAck, PutReject, Put, Move, Enqueue,
         Operation
<1>2. UNCHANGED brokerVars /\ Settled' = Settled
  BY DEF PutRequeue, PutAck, PutReject, Put, historyVars, Settled
<1> HIDE DEF o
<1>3. /\ n \notin Ops /\ Ops' = Ops \cup {n} /\ msg_opr_queue'[n] = o
      /\ \A i \in Ops : msg_opr_queue'[i] = msg_opr_queue[i]
  BY <1>1, AppendPositions DEF Ops
<1>4. /\ \A i \in Ops : /\ OpDlv(i)' = OpDlv(i) /\ Final(i)' = Final(i)
                        /\ Requeue(i)' = Requeue(i)
      /\ OpDlv(n)' = dlv[t] /\ (Requeue(n)' <=> phase[t] = "requeue")
      /\ phase[t] \in {"ack", "reject"} => Final(n)'
  BY <1>1, <1>3 DEF OpDlv, Final, Requeue
<1>5. OneLive'
  BY <1>2 DEF CopyInv, OneLive, brokerVars, Stored
<1>6. \A c : Closing(c) => Closing(c)'
  BY <1>1, <1>3, <1>4 DEF Closing
<1>7. ClosingInv'
  BY <1>2, <1>6 DEF CopyInv, ClosingInv, brokerVars, Stored
<1>8. phase[t] = "requeue" => /\ dlv[t].copy \notin superseded /\ dlv[t].msg.job \notin Settled
                              /\ \A i \in Ops : Requeue(i) => OpDlv(i).copy # dlv[t].copy
  BY NotClosing
<1>9. RequeueInv'
  BY <1>2, <1>3, <1>4, <1>8 DEF CopyInv, RequeueInv, brokerVars
<1> QED
  BY <1>5, <1>7, <1>9 DEF CopyInv

LEMMA CopiesAck ==
  ASSUME TypeInv, OwnerInv, AllAttached, CopyInv, ApplyAck
  PROVE  CopyInv'
<1> DEFINE d == OpDlv(1)
<1>1. /\ msg_opr_queue # <<>> /\ msg_opr_queue' = Tail(msg_opr_queue)
      /\ UNCHANGED <<phase, dlv>> /\ Settled' = Settled
  BY DEF ApplyAck, NextOp, historyVars, threadVars, Settled
<1>2. /\ 1 \in Ops /\ msg_opr_queue[1] = Head(msg_opr_queue)
      /\ Ops \subseteq Nat \ {0} /\ Ops' \subseteq Nat \ {0}
      /\ \A i \in Ops' : i + 1 \in Ops /\ msg_opr_queue'[i] = msg_opr_queue[i + 1]
      /\ \A i \in Ops : i # 1 => i - 1 \in Ops' /\ msg_opr_queue'[i - 1] = msg_opr_queue[i]
  BY <1>1, GetOp
<1>3. Settle(d.copy) /\ d.copy \in Copy
  BY <1>2, OpsTyped DEF ApplyAck, AllAttached, OpDlv, Delivery
<1> HIDE DEF d
<1>4. /\ superseded' = superseded \ {d.copy}
      /\ \A c \in Copy : Stored(c)' => c # d.copy /\ Stored(c) /\ msg'[c] = msg[c]
  BY <1>3 DEF Settle, Stored, TypeInv, BrokerInv, BrokerTypeOK
<1>5. OneLive'
  BY <1>4 DEF CopyInv, OneLive
<1>6. \A c : c # d.copy /\ Closing(c) => Closing(c)'
  BY <1>1, <1>2 DEF Closing, Final, OpDlv, d
<1>7. ClosingInv'
  BY <1>1, <1>4, <1>6 DEF CopyInv, ClosingInv
<1>8. /\ \A i \in Ops' : OpDlv(i)' = OpDlv(i + 1) /\ Requeue(i)' = Requeue(i + 1)
      /\ \A i, k \in Ops' : i # k => i + 1 # k + 1
  <2>1. \A i \in Ops' : OpDlv(i)' = OpDlv(i + 1) /\ Requeue(i)' = Requeue(i + 1)
    BY <1>2, Zenon DEF OpDlv, Requeue
  <2>2. \A i, k \in Nat \ {0} : i # k => i + 1 # k + 1
    OBVIOUS
  <2> QED
    BY <1>2, <2>1, <2>2
<1>9. RequeueInv'
  BY <1>1, <1>2, <1>4, <1>8 DEF CopyInv, RequeueInv
<1> QED
  BY <1>5, <1>7, <1>9 DEF CopyInv

LEMMA CopiesRequeue ==
  ASSUME TypeInv, OwnerInv, AllAttached, CopyInv, RequeueOk
  PROVE  CopyInv'
<1> DEFINE d == OpDlv(1)
           m == msg_opr_queue[1].out
<1>1. /\ msg_opr_queue # <<>> /\ msg_opr_queue' = Tail(msg_opr_queue)
      /\ UNCHANGED <<phase, dlv>> /\ Settled' = Settled
  BY DEF RequeueOk, NextOp, historyVars, threadVars, Settled
<1>2. /\ 1 \in Ops /\ msg_opr_queue[1] = Head(msg_opr_queue)
      /\ Ops \subseteq Nat \ {0} /\ Ops' \subseteq Nat \ {0}
      /\ \A i \in Ops' : i + 1 \in Ops /\ msg_opr_queue'[i] = msg_opr_queue[i + 1]
      /\ \A i \in Ops : i # 1 => i - 1 \in Ops' /\ msg_opr_queue'[i - 1] = msg_opr_queue[i]
  BY <1>1, GetOp
<1>3. Requeue(1) /\ ~Final(1) /\ m.job = d.msg.job
  BY <1>2 DEF RequeueOk, NextOp, Requeue, Final, OwnerInv, RequeuedThenAcked
<1>4. PICK c \in Copy : Store(c, "retry", m)
  BY <1>2 DEF RequeueOk
<1>5. superseded' = superseded \cup {d.copy}
  BY <1>2 DEF RequeueOk, OpDlv, AllAttached
<1>6. /\ Closing(d.copy) /\ d.copy \in Copy /\ Stored(d.copy) /\ msg[d.copy].job = m.job
      /\ d.copy \notin superseded /\ m.job \notin Settled
  BY <1>2, <1>3, RequeueCloses DEF CopyInv, RequeueInv
<1> HIDE DEF d, m
<1>7. /\ ~Stored(c) /\ msg'[c] = m /\ c \notin superseded'
      /\ \A b \in Copy \ {c} : Stored(b)' = Stored(b) /\ msg'[b] = msg[b]
  <2>1. /\ place \in [Copy -> Place] /\ msg \in [Copy -> Message \cup {Blank}]
        /\ superseded \subseteq Unacked
    BY DEF TypeInv, BrokerInv, BrokerTypeOK, OwnerInv, StillHeld
  <2> QED
    BY <1>4, <1>5, <1>6, <2>1 DEF Store, Stored, Unacked
<1>8. OneLive'
  <2>1. \A b \in Copy \ superseded' : b # c /\ Stored(b) => msg[b].job # m.job
    BY <1>5, <1>6 DEF CopyInv, OneLive
  <2> QED
    BY <1>5, <1>7, <2>1 DEF CopyInv, OneLive
<1>9. ASSUME NEW b, Closing(b) PROVE Closing(b)'
  <2>1. CASE \E t \in Thread : phase[t] \in {"ack", "reject"} /\ dlv[t].copy = b
    BY <1>1, <2>1 DEF Closing
  <2>2. ASSUME NEW i \in Ops, Final(i), OpDlv(i).copy = b PROVE Closing(b)'
    <3>1. i - 1 \in Ops' /\ Final(i - 1)' /\ OpDlv(i - 1)' = OpDlv(i)
      BY <1>2, <1>3, <2>2 DEF Final, OpDlv
    <3> QED
      BY <2>2, <3>1 DEF Closing
  <2> QED
    BY <1>9, <2>1, <2>2 DEF Closing
<1>10. ClosingInv'
  BY <1>1, <1>5, <1>6, <1>7, <1>9 DEF CopyInv, ClosingInv
<1>11. /\ \A i \in Ops' : OpDlv(i)' = OpDlv(i + 1) /\ Requeue(i)' = Requeue(i + 1) /\ i + 1 # 1
       /\ \A i, k \in Ops' : i # k => i + 1 # k + 1
  <2>1. \A i \in Ops' : OpDlv(i)' = OpDlv(i + 1) /\ Requeue(i)' = Requeue(i + 1)
    BY <1>2, Zenon DEF OpDlv, Requeue
  <2>2. \A i, k \in Nat \ {0} : i + 1 # 1 /\ (i # k => i + 1 # k + 1)
    OBVIOUS
  <2>3. Ops' \subseteq Nat \ {0}
    BY <1>2
  <2> QED
    BY <2>1, <2>2, <2>3
<1>12. RequeueInv'
  BY <1>1, <1>2, <1>3, <1>5, <1>11 DEF CopyInv, RequeueInv, d
<1> QED
  BY <1>8, <1>10, <1>12 DEF CopyInv

LEMMA CopyStep ==
  ASSUME TypeInv, MessageInv, OwnerInv, Faultless, CalmStep
  PROVE  CopyInv'
<1>1. AllAttached /\ CopyInv /\ Settled \subseteq published
  BY DEF Faultless
<1>2. CASE \E j \in Job : Publish(j)
  BY <1>1, <1>2, CopiesPublish
<1>3. CASE ApplyAck
  BY <1>1, <1>3, CopiesAck
<1>4. CASE RequeueOk
  BY <1>1, <1>4, CopiesRequeue
<1>5. ASSUME NEW t \in Thread, PutRequeue(t) \/ PutAck(t) \/ PutReject(t) PROVE CopyInv'
  BY <1>1, <1>5, CopiesPut
<1>6. ASSUME NEW t \in Thread, HandlerAnswers(t) \/ (HandlerFails(t) /\ phase'[t] = "reject")
      PROVE  CopyInv'
  <2>1. phase[t] = "exec" /\ phase'[t] \in {"ack", "reject"}
        /\ \A u \in Thread \ {t} : phase'[u] = phase[u]
    BY <1>6 DEF HandlerAnswers, HandlerFails, Move, TypeInv, ThreadInv
  <2>2. /\ UNCHANGED <<brokerVars, dlv, msg_opr_queue>>
        /\ Settled' = Settled \cup {dlv[t].msg.job}
    BY <1>6, <2>1 DEF HandlerAnswers, HandlerFails, Settled, Move, TypeInv, ThreadInv
  <2> QED
    BY <1>1, <2>1, <2>2, CopiesSettle
<1>7. CASE \E c \in Copy : Expire(c) \/ Deliver(c)
  <2>1. \A c \in Copy : Stored(c)' = Stored(c) /\ msg'[c] = msg[c]
    BY <1>7 DEF Expire, DeadLetter, Deliver, Push, Stored, TypeInv, BrokerInv, BrokerTypeOK
  <2>2. /\ UNCHANGED <<superseded, msg_opr_queue, phase, dlv>> /\ Settled' = Settled
    BY <1>7 DEF Expire, DeadLetter, Deliver, Push, historyVars, threadVars, Settled
  <2> QED
    BY <1>1, <2>1, <2>2, CopiesKept
<1>8. CASE Tick \/ Reconnect \/ LoopIterate \/ IterEnd \/ DrainTimeout \/ UNCHANGED vars
  <2>1. UNCHANGED <<brokerVars, msg_opr_queue, phase, dlv>> /\ Settled' = Settled
    BY <1>8 DEF Tick, Reconnect, LoopIterate, IterEnd, DrainTimeout, vars, historyVars,
                threadVars, Settled
  <2>2. \A c \in Copy : Stored(c)' = Stored(c) /\ msg'[c] = msg[c]
    BY <2>1 DEF brokerVars, Stored
  <2> QED
    BY <1>1, <2>1, <2>2, CopiesKept DEF brokerVars
<1>9. ASSUME NEW t \in Thread,
             \/ Take(t) \/ StoreInc(t) \/ Begin(t) \/ LoadDec(t) \/ StoreDec(t)
             \/ HandlerFails(t) /\ phase'[t] # "reject"
      PROVE  CopyInv'
  <2>1. UNCHANGED <<brokerVars, msg_opr_queue>> /\ Settled' = Settled
    BY <1>9 DEF Take, StoreInc, Begin, LoadDec, StoreDec, HandlerFails, historyVars, Settled,
                Move, TypeInv, ThreadInv
  <2>2. \A u \in Thread : phase[u] \in {"ack", "reject"} => phase'[u] = phase[u] /\ dlv'[u] = dlv[u]
    BY <1>9 DEF Take, StoreInc, Begin, LoadDec, StoreDec, HandlerFails, Move, TypeInv, ThreadInv
  <2>3. \A c \in Copy : Stored(c)' = Stored(c) /\ msg'[c] = msg[c]
    BY <2>1 DEF brokerVars, Stored
  <2> QED
    BY <1>1, <2>1, <2>2, <2>3, CopiesKept DEF brokerVars
<1> QED
  BY <1>2, <1>3, <1>4, <1>5, <1>6, <1>7, <1>8, <1>9 DEF CalmStep, Executor

LEMMA FaultlessStep ==
  ASSUME TypeInv, MessageInv, OwnerInv, faults = 0 => Faultless, [Next]_vars, faults' = 0
  PROVE  Faultless'
<1>1. faults = 0
  BY FaultsGrow DEF TypeInv, RecordInv
<1>2. Faultless /\ Calm /\ AllAttached
  BY <1>1 DEF Faultless
<1>3. CalmStep /\ Calm'
  BY <1>1, <1>2, OnlyCalmSteps
<1>4. AllAttached' /\ CopyInv'
  BY <1>2, <1>3, AttachedStep, CopyStep
<1>5. Settled' \subseteq published' /\ OneOutcome'
  <2>1. published \subseteq published'
    BY Growth
  <2>2. UNCHANGED <<served, dropped, refused>> \/ \E t \in Thread : HandlerAnswers(t) \/ HandlerFails(t)
    BY <1>3 DEF CalmStep, Executor, Publish, Expire, Deliver, Tick, Reconnect, LoopIterate,
                IterEnd, DrainTimeout, ApplyAck, RequeueOk, Take, StoreInc, Begin, PutRequeue,
                PutAck, PutReject, Put, LoadDec, StoreDec, vars, historyVars, Settled
  <2>3. ASSUME NEW t \in Thread, HandlerAnswers(t) \/ HandlerFails(t)
        PROVE  /\ Settled' \subseteq Settled \cup {dlv[t].msg.job} /\ dlv[t].msg.job \in published
               /\ OneOutcome'
    <3>1. phase[t] = "exec" /\ dlv[t].msg.job \in published
      BY <2>3 DEF HandlerAnswers, HandlerFails, Move, MessageInv, BusyInv, GoodMsg, Good
    <3>2. dlv[t].msg.job \notin Settled
      BY <1>2, <3>1, NotClosing DEF Faultless
    <3> QED
      BY <1>2, <2>3, <3>1, <3>2 DEF HandlerAnswers, HandlerFails, Settled, Faultless, OneOutcome
  <2> QED
    BY <1>2, <2>1, <2>2, <2>3 DEF Faultless, Settled, OneOutcome
<1> QED
  BY <1>3, <1>4, <1>5 DEF Faultless

LEMMA InitFaultless == Init => Faultless
<1> SUFFICES ASSUME Init PROVE Faultless
  OBVIOUS
<1> USE DEF Init, BrokerInit
<1>1. Calm /\ Settled \subseteq published /\ OneOutcome
  BY DEF Calm, Settled, OneOutcome
<1>2. AllAttached
  BY DEF AllAttached, Busy, BusyPoint, Ops
<1>3. CopyInv
  BY DEF CopyInv, OneLive, ClosingInv, RequeueInv, Stored, Ops
<1> QED
  BY <1>1, <1>2, <1>3 DEF Faultless

LEMMA SpecFaultless ==
  Spec => [](TypeInv /\ MessageInv /\ OwnerInv /\ (faults = 0 => Faultless))
<1>1. /\ TypeInv /\ MessageInv /\ OwnerInv /\ (faults = 0 => Faultless) /\ [Next]_vars
      => (faults = 0 => Faultless)'
  BY FaultlessStep
<1>2. Init => (faults = 0 => Faultless)
  BY InitFaultless
<1> QED
  BY <1>1, <1>2, SpecMessageInv, SpecOwnerInv, PTL DEF Spec

(* As long as nothing has failed, a thread that reaches the handler starts a  *)
(* call that is not settled: no handler answers a call twice.                 *)
THEOREM NoRepeats == Spec => NoRepeatWithoutFaults
<1>1. TypeInv /\ OwnerInv /\ (faults = 0 => Faultless)
      => \A t \in Thread : Starts(t) /\ faults = 0 => dlv[t].msg.job \notin Settled
  BY NotClosing DEF Starts, Faultless
<1> QED
  BY <1>1, SpecFaultless, PTL DEF NoRepeatWithoutFaults

(* As long as nothing has failed, the broker stores one copy of a call at     *)
(* most, apart from those that a requeue has replaced, and a call has one     *)
(* outcome: answered, given up after its retries, or given up by its backoff. *)
THEOREM OneCopyOneOutcome == Spec => [](faults = 0 => OneLive /\ OneOutcome)
<1>1. (faults = 0 => Faultless) => (faults = 0 => OneLive /\ OneOutcome)
  BY DEF Faultless, CopyInv
<1> QED
  BY <1>1, SpecFaultless, PTL
-----------------------------------------------------------------------------
(***************************************************************************)
(* No delivery is forgotten: whatever the broker counts against the        *)
(* prefetch is on its way to an ack, except for the messages on which      *)
(* _on_message raises.  Those keep their place in the prefetch until the   *)
(* channel closes.                                                         *)
(***************************************************************************)
Raising == Undecodable \cup Unruled

Owned(c) ==
  \/ \E i \in DOMAIN backlog : Attached(backlog[i]) /\ backlog[i].copy = c
  \/ \E t \in Thread : Busy(t) /\ Attached(dlv[t]) /\ dlv[t].copy = c
  \/ \E i \in Ops : Final(i) /\ Attached(OpDlv(i)) /\ OpDlv(i).copy = c

NoneForgotten ==
  /\ broken => Unacked = {}
  /\ \A c \in Unacked : Owned(c) \/ msg[c].job \in Raising

(* A step that keeps the unacked copies, or some of them, and their owners.   *)
LEMMA OwnersKept ==
  ASSUME NoneForgotten, broken' = broken, Unacked' \subseteq Unacked,
         \A c \in Unacked' : msg'[c] = msg[c] /\ (Owned(c) => Owned(c)' \/ msg[c].job \in Raising)
  PROVE  NoneForgotten'
  BY DEF NoneForgotten

(* The owners of a step that leaves the consumer's session alone.             *)
LEMMA SameOwners ==
  ASSUME Connected' = Connected, session' = session, broken' = broken, backlog' = backlog,
         \A t \in Thread : Busy(t) /\ Attached(dlv[t]) => Busy(t)' /\ dlv'[t] = dlv[t],
         \A i \in Ops : Final(i) /\ Attached(OpDlv(i)) =>
            \E k \in Ops' : Final(k)' /\ OpDlv(k)' = OpDlv(i)
  PROVE  \A c : Owned(c) => Owned(c)'
<1>1. \A d : Attached(d)' = Attached(d)
  BY DEF Attached, Live
<1> SUFFICES ASSUME NEW c, Owned(c) PROVE Owned(c)'
  OBVIOUS
<1>2. CASE \E i \in DOMAIN backlog : Attached(backlog[i]) /\ backlog[i].copy = c
  BY <1>1, <1>2 DEF Owned
<1>3. CASE \E t \in Thread : Busy(t) /\ Attached(dlv[t]) /\ dlv[t].copy = c
  BY <1>1, <1>3 DEF Owned
<1>4. ASSUME NEW i \in Ops, Final(i), Attached(OpDlv(i)), OpDlv(i).copy = c
      PROVE  Owned(c)'
  <2> PICK k \in Ops' : Final(k)' /\ OpDlv(k)' = OpDlv(i)
    BY <1>4
  <2>1. Attached(OpDlv(k))'
    BY <1>1, <1>4
  <2> QED
    BY <1>4, <2>1 DEF Owned
<1> QED
  BY <1>2, <1>3, <1>4 DEF Owned

(* The environment and the consumer between two operations.                   *)
LEMMA ForgottenQuiet ==
  ASSUME TypeInv, OwnerInv, NoneForgotten,
         \/ \E j \in Job : Publish(j) \/ PublishAgain(j)
         \/ \E c \in Copy : Expire(c)
         \/ Tick \/ StopWorker \/ LoopIterate \/ IterEnd \/ DrainTimeout
         \/ PublishRaises \/ RequeueFails
         \/ UNCHANGED vars
  PROVE  NoneForgotten'
<1>1. place \in [Copy -> Place] /\ msg \in [Copy -> Message \cup {Blank}]
  BY DEF TypeInv, BrokerInv, BrokerTypeOK
<1>2. /\ UNCHANGED <<backlog, msg_opr_queue, phase, dlv, broken, session>>
      /\ Connected' = Connected
  <2>1. CASE \/ \E j \in Job : Publish(j) \/ PublishAgain(j)
             \/ \E c \in Copy : Expire(c)
             \/ Tick \/ UNCHANGED vars
    BY <2>1 DEF Publish, PublishAgain, Expire, Tick, vars, consumerVars, threadVars, Connected
  <2>2. CASE \/ StopWorker \/ LoopIterate \/ IterEnd \/ DrainTimeout
             \/ PublishRaises \/ RequeueFails
    BY <2>2 DEF StopWorker, LoopIterate, IterEnd, DrainTimeout, PublishRaises, RequeueFails,
                NextOp, threadVars, Connected
  <2> QED
    BY <2>1, <2>2
<1>3. Unacked' = Unacked /\ \A c \in Unacked : msg'[c] = msg[c]
  <2>1. CASE UNCHANGED brokerVars
    BY <2>1 DEF brokerVars, Unacked
  <2>2. CASE \E c \in Copy : DeadLetter(c)
    BY <1>1, <2>2 DEF DeadLetter, Unacked
  <2>3. ASSUME NEW c \in Copy, NEW q \in {"ready", "retry"}, NEW m, Store(c, q, m)
        PROVE  Unacked' = Unacked /\ \A b \in Unacked : msg'[b] = msg[b]
    BY <1>1, <2>3 DEF Store, Unacked
  <2> QED
    BY <2>1, <2>2, <2>3 DEF Publish, PublishAgain, Expire, Tick, StopWorker, LoopIterate, IterEnd,
                            DrainTimeout, PublishRaises, RequeueFails, vars
<1>4. \A c : Owned(c) => Owned(c)'
  BY <1>2, SameOwners DEF Busy, Final, Ops, OpDlv
<1> QED
  BY <1>2, <1>3, <1>4, OwnersKept

(* The steps that end a session, a process or a channel.                      *)
LEMMA ForgottenDetach ==
  ASSUME TypeInv, OwnerInv, NoneForgotten,
         \/ Reconnect \/ LoopStop \/ AckRaises \/ RequeueRaises \/ DrainRaises
         \/ Break \/ Crash \/ Restart
  PROVE  NoneForgotten'
<1>1. Unacked' = {}
  <2>1. CASE Reconnect
    BY <2>1 DEF Reconnect, OwnerInv, SessionInv, Offline, brokerVars, Unacked
  <2>2. CASE ReturnUnacked
    BY <2>2 DEF ReturnUnacked, Unacked, TypeInv, BrokerInv, BrokerTypeOK
  <2> QED
    BY <2>1, <2>2 DEF LoopStop, AckRaises, RequeueRaises, DrainRaises, EndSession, Break, Crash,
                      Restart, NewProcess
<1> QED
  BY <1>1 DEF NoneForgotten

(* An operation leaves the queue.                                             *)
LEMMA ForgottenApply ==
  ASSUME TypeInv, OwnerInv, NoneForgotten, ApplyAck \/ RequeueOk \/ RequeueUnseen
  PROVE  NoneForgotten'
<1> DEFINE d == OpDlv(1)
<1>1. /\ msg_opr_queue # <<>> /\ msg_opr_queue' = Tail(msg_opr_queue)
      /\ UNCHANGED <<pc, broken, session, backlog, phase, dlv>>
  BY DEF ApplyAck, RequeueOk, RequeueUnseen, NextOp, consumerVars, threadVars
<1>2. /\ 1 \in Ops /\ msg_opr_queue[1] = Head(msg_opr_queue)
      /\ \A i \in Ops : i # 1 => i - 1 \in Ops' /\ msg_opr_queue'[i - 1] = msg_opr_queue[i]
  BY <1>1, GetOp
<1>3. d.copy \in Copy /\ place \in [Copy -> Place] /\ msg \in [Copy -> Message \cup {Blank}]
  BY <1>2, OpsTyped DEF Delivery, TypeInv, BrokerInv, BrokerTypeOK
<1> HIDE DEF d
<1>4. \A e : Attached(e)' = Attached(e)
  BY <1>1 DEF Attached, Live, Connected
<1>5. ASSUME NEW c, Owned(c), ~(Final(1) /\ Attached(d) /\ d.copy = c) PROVE Owned(c)'
  <2>1. CASE \/ \E i \in DOMAIN backlog : Attached(backlog[i]) /\ backlog[i].copy = c
             \/ \E t \in Thread : Busy(t) /\ Attached(dlv[t]) /\ dlv[t].copy = c
    BY <1>1, <1>4, <2>1 DEF Owned, Busy
  <2>2. ASSUME NEW i \in Ops, Final(i), Attached(OpDlv(i)), OpDlv(i).copy = c PROVE Owned(c)'
    <3>1. i # 1
      BY <1>5, <2>2 DEF d
    <3>2. i - 1 \in Ops' /\ Final(i - 1)' /\ OpDlv(i - 1)' = OpDlv(i)
      BY <1>2, <2>2, <3>1 DEF Final, OpDlv
    <3>3. Attached(OpDlv(i - 1))'
      BY <1>4, <2>2, <3>2
    <3> QED
      BY <2>2, <3>2, <3>3 DEF Owned
  <2> QED
    BY <1>5, <2>1, <2>2 DEF Owned
<1>6. ASSUME NEW c \in Unacked' PROVE c \in Unacked /\ msg'[c] = msg[c]
  <2>1. CASE RequeueOk
    BY <1>3, <2>1 DEF RequeueOk, Store, Unacked
  <2>2. CASE UNCHANGED brokerVars
    BY <2>2 DEF brokerVars, Unacked
  <2>3. CASE Settle(d.copy)
    BY <1>3, <2>3 DEF Settle, Unacked
  <2> QED
    BY <1>2, <2>1, <2>2, <2>3 DEF ApplyAck, RequeueUnseen, OpDlv, d
<1>7. ASSUME NEW c \in Unacked', Owned(c) PROVE Owned(c)'
  <2>1. CASE ApplyAck /\ Attached(d)
    <3>1. Settle(d.copy)
      BY <1>2, <2>1 DEF ApplyAck, OpDlv, d
    <3>2. c # d.copy
      BY <1>3, <3>1 DEF Settle, Unacked
    <3> QED
      BY <1>5, <1>7, <3>2
  <2>2. CASE (RequeueOk \/ RequeueUnseen) /\ ~Final(1)
    BY <1>5, <1>7, <2>2
  <2>3. RequeueOk \/ RequeueUnseen => ~Final(1)
    BY <1>2 DEF RequeueOk, RequeueUnseen, NextOp, Final
  <2>4. CASE ~Attached(d)
    BY <1>5, <1>7, <2>4
  <2> QED
    BY <2>1, <2>2, <2>3, <2>4
<1> QED
  BY <1>1, <1>6, <1>7, OwnersKept

LEMMA ForgottenDeliver ==
  ASSUME TypeInv, NoneForgotten, NEW c \in Copy, Deliver(c)
  PROVE  NoneForgotten'
<1> DEFINE d == [copy |-> c, session |-> session, msg |-> msg[c]]
<1>1. /\ backlog \in Seq(Delivery) /\ d \in Delivery /\ backlog' = Append(backlog, d)
      /\ Unacked' = Unacked \cup {c} /\ msg' = msg
      /\ UNCHANGED <<msg_opr_queue, phase, dlv>> /\ ~broken /\ ~broken'
  BY DEF TypeInv, QueueInv, BrokerInv, BrokerTypeOK, ConsumerInv, Stored, Deliver, Push,
         Delivery, threadVars, Unacked
<1>2. Attached(d) /\ \A e : Attached(e)' = Attached(e)
  BY DEF Deliver, Attached, Live, Connected
<1>3. d.copy = c
  OBVIOUS
<1> HIDE DEF d
<1>4. /\ Len(backlog) + 1 \in DOMAIN backlog' /\ backlog'[Len(backlog) + 1] = d
      /\ \A i \in DOMAIN backlog : i \in DOMAIN backlog' /\ backlog'[i] = backlog[i]
  <2>1. /\ DOMAIN backlog' = 1 .. (Len(backlog) + 1) /\ DOMAIN backlog = 1 .. Len(backlog)
        /\ Len(backlog) \in Nat
    BY <1>1, AppendPositions
  <2> QED
    BY <1>1, <2>1, AppendPositions
<1>5. Owned(c)'
  BY <1>2, <1>3, <1>4 DEF Owned
<1>6. ASSUME NEW b, Owned(b) PROVE Owned(b)'
  <2>1. CASE \E i \in DOMAIN backlog : Attached(backlog[i]) /\ backlog[i].copy = b
    BY <1>2, <1>4, <2>1 DEF Owned
  <2>2. CASE \E t \in Thread : Busy(t) /\ Attached(dlv[t]) /\ dlv[t].copy = b
    BY <1>1, <1>2, <2>2 DEF Owned, Busy
  <2>3. CASE \E i \in Ops : Final(i) /\ Attached(OpDlv(i)) /\ OpDlv(i).copy = b
    BY <1>1, <1>2, <2>3 DEF Owned, Final, Ops, OpDlv
  <2> QED
    BY <1>6, <2>1, <2>2, <2>3 DEF Owned
<1> QED
  BY <1>1, <1>5, <1>6 DEF NoneForgotten

(* An executor thread passes its delivery on, from the backlog to itself and  *)
(* from itself to its ack; it lets go only of a dead channel's, or of one     *)
(* that _on_message raises on.                                                *)
LEMMA ForgottenThread ==
  ASSUME TypeInv, OwnerInv, NoneForgotten, NEW t \in Thread, Executor(t)
  PROVE  NoneForgotten'
<1>1. /\ UNCHANGED <<brokerVars, consumerVars>>
  BY DEF Executor, Take, StoreInc, Begin, HandlerAnswers, HandlerFails, PutRequeue, PutAck,
         PutReject, Put, LoadDec, StoreDec
<1>2. /\ Unacked' = Unacked /\ msg' = msg /\ broken' = broken /\ session' = session
      /\ Connected' = Connected /\ \A d : Attached(d)' = Attached(d)
  BY <1>1 DEF brokerVars, consumerVars, Unacked, Attached, Live, Connected
<1>3. ASSUME \A c \in Unacked : Owned(c) => Owned(c)' \/ msg[c].job \in Raising
      PROVE  NoneForgotten'
  BY <1>2, <1>3, OwnersKept
<1>4. CASE Take(t)
  <2>1. /\ backlog \in Seq(Delivery) /\ backlog # <<>> /\ backlog' = Tail(backlog)
        /\ dlv'[t] = Head(backlog) /\ Busy(t)' /\ ~Busy(t) /\ msg_opr_queue' = msg_opr_queue
        /\ \A u \in Thread \ {t} : phase'[u] = phase[u] /\ dlv'[u] = dlv[u]
    BY <1>4 DEF TypeInv, QueueInv, ThreadInv, Take, Move, Busy, BusyPoint
  <2>2. /\ \A i \in DOMAIN backlog : i # 1 => i - 1 \in DOMAIN backlog' /\ backlog'[i - 1] = backlog[i]
        /\ backlog[1] = Head(backlog)
    BY <2>1, TailPositions
  <2>3. ASSUME NEW c, Owned(c) PROVE Owned(c)'
    <3>1. ASSUME NEW i \in DOMAIN backlog, Attached(backlog[i]), backlog[i].copy = c PROVE Owned(c)'
      <4>1. CASE i = 1
        BY <1>2, <2>1, <2>2, <3>1, <4>1 DEF Owned
      <4>2. CASE i # 1
        BY <1>2, <2>2, <3>1, <4>2 DEF Owned
      <4> QED
        BY <4>1, <4>2
    <3>2. ASSUME NEW u \in Thread, Busy(u), Attached(dlv[u]), dlv[u].copy = c PROVE Owned(c)'
      <4>1. Busy(u)' /\ dlv'[u] = dlv[u]
        BY <2>1, <3>2 DEF Busy
      <4> QED
        BY <1>2, <3>2, <4>1 DEF Owned
    <3>3. CASE \E i \in Ops : Final(i) /\ Attached(OpDlv(i)) /\ OpDlv(i).copy = c
      BY <1>2, <2>1, <3>3 DEF Owned, Final, Ops, OpDlv
    <3> QED
      BY <2>3, <3>1, <3>2, <3>3 DEF Owned
  <2> QED
    BY <1>3, <2>3
<1>5. CASE PutRequeue(t) \/ PutAck(t) \/ PutReject(t)
  <2> DEFINE o == [op |-> phase[t], dlv |-> dlv[t], out |-> out[t]]
  <2> PICK n : n = Len(msg_opr_queue) + 1
    OBVIOUS
  <2>1. /\ msg_opr_queue' = Append(msg_opr_queue, o)
        /\ msg_opr_queue \in Seq(Operation) /\ o \in Operation /\ o.dlv = dlv[t] /\ o.op = phase[t]
        /\ backlog' = backlog /\ dlv' = dlv
        /\ \A u \in Thread \ {t} : phase'[u] = phase[u]
        /\ Busy(t)' \/ phase[t] \in {"ack", "reject"}
    BY <1>5 DEF TypeInv, ThreadInv, QueueInv, PutRequeue, PutAck, PutReject, Put, Move, Enqueue,
                Operation, Busy, BusyPoint
  <2> HIDE DEF o
  <2>2. /\ n \in Ops' /\ msg_opr_queue'[n] = o
        /\ \A i \in Ops : i \in Ops' /\ msg_opr_queue'[i] = msg_opr_queue[i]
    <3>1. Ops' = 1 .. n /\ Ops = 1 .. Len(msg_opr_queue) /\ Len(msg_opr_queue) \in Nat
      BY <2>1, AppendPositions DEF Ops
    <3> QED
      BY <2>1, <3>1, AppendPositions DEF Ops
  <2>3. ASSUME NEW c, Owned(c) PROVE Owned(c)'
    <3>1. CASE \E i \in DOMAIN backlog : Attached(backlog[i]) /\ backlog[i].copy = c
      BY <1>2, <2>1, <3>1 DEF Owned
    <3>2. ASSUME NEW u \in Thread, Busy(u), Attached(dlv[u]), dlv[u].copy = c PROVE Owned(c)'
      <4>1. CASE Busy(u)'
        BY <1>2, <2>1, <3>2, <4>1 DEF Owned
      <4>2. CASE ~Busy(u)'
        <5>1. u = t /\ phase[t] \in {"ack", "reject"}
          BY <2>1, <3>2, <4>2 DEF Busy
        <5>2. Final(n)' /\ OpDlv(n)' = dlv[t]
          BY <2>1, <2>2, <5>1 DEF Final, OpDlv
        <5>3. Attached(OpDlv(n))'
          BY <1>2, <3>2, <5>1, <5>2
        <5> QED
          BY <2>2, <3>2, <5>1, <5>2, <5>3 DEF Owned
      <4> QED
        BY <4>1, <4>2
    <3>3. ASSUME NEW i \in Ops, Final(i), Attached(OpDlv(i)), OpDlv(i).copy = c PROVE Owned(c)'
      <4>1. i \in Ops' /\ Final(i)' /\ OpDlv(i)' = OpDlv(i)
        BY <2>2, <3>3 DEF Final, OpDlv
      <4> QED
        BY <1>2, <3>3, <4>1 DEF Owned
    <3> QED
      BY <2>3, <3>1, <3>2, <3>3 DEF Owned
  <2> QED
    BY <1>3, <2>3
<1>6. CASE \/ StoreInc(t) \/ Begin(t) \/ HandlerAnswers(t) \/ HandlerFails(t)
           \/ LoadDec(t) \/ StoreDec(t)
  <2>1. /\ backlog' = backlog /\ msg_opr_queue' = msg_opr_queue
        /\ phase \in [Thread -> ThreadPoint] /\ dlv \in [Thread -> Delivery \cup {NoDelivery}]
    BY <1>6 DEF TypeInv, ThreadInv, StoreInc, Begin, HandlerAnswers, HandlerFails, LoadDec, StoreDec
  <2>2. \A u \in Thread \ {t} : phase'[u] = phase[u] /\ dlv'[u] = dlv[u]
    BY <1>6, <2>1 DEF StoreInc, Begin, HandlerAnswers, HandlerFails, LoadDec, StoreDec, Move
  <2>3. Busy(t) /\ Attached(dlv[t]) => \/ Busy(t)' /\ dlv'[t] = dlv[t]
                                       \/ dlv[t].msg.job \in Raising
    BY <1>6, <2>1 DEF StoreInc, Begin, HandlerAnswers, HandlerFails, LoadDec, StoreDec, Move, Busy,
                      BusyPoint, Attached, Raising
  <2>4. ASSUME NEW c \in Unacked, Owned(c) PROVE Owned(c)' \/ msg[c].job \in Raising
    <3>1. CASE \E i \in DOMAIN backlog : Attached(backlog[i]) /\ backlog[i].copy = c
      BY <1>2, <2>1, <3>1 DEF Owned
    <3>2. ASSUME NEW u \in Thread, Busy(u), Attached(dlv[u]), dlv[u].copy = c
          PROVE  Owned(c)' \/ msg[c].job \in Raising
      <4>1. CASE Busy(u)' /\ dlv'[u] = dlv[u]
        BY <1>2, <3>2, <4>1 DEF Owned
      <4>2. CASE dlv[u].msg.job \in Raising
        BY <3>2, <4>2 DEF OwnerInv, HeldInv, Held
      <4>3. \/ Busy(u)' /\ dlv'[u] = dlv[u]
            \/ dlv[u].msg.job \in Raising
        BY <2>2, <2>3, <3>2 DEF Busy
      <4> QED
        BY <4>1, <4>2, <4>3
    <3>3. CASE \E i \in Ops : Final(i) /\ Attached(OpDlv(i)) /\ OpDlv(i).copy = c
      BY <1>2, <2>1, <3>3 DEF Owned, Final, Ops, OpDlv
    <3> QED
      BY <2>4, <3>1, <3>2, <3>3 DEF Owned
  <2> QED
    BY <1>3, <2>4
<1> QED
  BY <1>4, <1>5, <1>6 DEF Executor

(* Every delivery the broker waits for has an owner that will ack or reject   *)
(* it, unless _on_message raises on its message, before the handler (line 223)*)
(* or asking max_retries (line 233): nothing else can use up the prefetch.    *)
THEOREM DeliveriesOwned == Spec => []NoneForgotten
<1>1. Init => NoneForgotten
  BY DEF Init, BrokerInit, NoneForgotten, Unacked
<1>2. TypeInv /\ OwnerInv /\ NoneForgotten /\ [Next]_vars => NoneForgotten'
  <2> SUFFICES ASSUME TypeInv, OwnerInv, NoneForgotten, [Next]_vars PROVE NoneForgotten'
    OBVIOUS
  <2>1. CASE Environment \/ UNCHANGED vars
    BY <2>1, ForgottenQuiet, ForgottenDetach DEF Environment
  <2>2. CASE Consumer
    BY <2>2, ForgottenQuiet, ForgottenDetach, ForgottenApply, ForgottenDeliver DEF Consumer
  <2> QED
    BY <2>1, <2>2, ForgottenThread DEF Next
<1> QED
  BY <1>1, <1>2, SpecOwnerInv, PTL DEF Spec
-----------------------------------------------------------------------------

(***************************************************************************)
(* Refinement: with confirms every step of the server is a step of the     *)
(* promise, AtLeastOnce, or changes nothing the promise speaks of.         *)
(***************************************************************************)
Queued == {j \in Job : Holding(j) # {}}

Idle == Queued' = Queued /\ published' = published /\ Settled' = Settled

LEMMA SameQueued ==
  ASSUME \A c \in Copy : Stored(c)' = Stored(c) /\ (Stored(c) => msg'[c] = msg[c])
  PROVE  Queued' = Queued
<1>1. \A j \in Job : Holding(j)' = Holding(j)
  BY DEF Holding
<1> QED
  BY <1>1 DEF Queued

LEMMA StoreQueued ==
  ASSUME TypeInv, NEW c \in Copy, NEW q \in {"ready", "retry"}, NEW m \in Message,
         Store(c, q, m)
  PROVE  Queued' = Queued \cup {m.job}
<1>1. /\ place \in [Copy -> Place] /\ msg \in [Copy -> Message \cup {Blank}] /\ m.job \in Job
  BY DEF TypeInv, BrokerInv, BrokerTypeOK, Message
<1>2. /\ ~Stored(c) /\ Stored(c)' /\ msg'[c].job = m.job
      /\ \A d \in Copy : d # c => Stored(d)' = Stored(d) /\ msg'[d] = msg[d]
  BY <1>1 DEF Store, Stored
<1>3. Holding(m.job)' # {}
  BY <1>2 DEF Holding
<1>4. \A j \in Job : j # m.job => Holding(j)' = Holding(j)
  BY <1>2 DEF Holding
<1> QED
  BY <1>1, <1>3, <1>4 DEF Queued

LEMMA SettleQueued ==
  ASSUME TypeInv, NEW c \in Copy, Stored(c), Settle(c), msg[c].job \in Job
  PROVE  /\ msg[c].job \in Queued
         /\ Queued' = Queued \/ Queued' = Queued \ {msg[c].job}
<1>1. /\ place \in [Copy -> Place] /\ msg \in [Copy -> Message \cup {Blank}]
  BY DEF TypeInv, BrokerInv, BrokerTypeOK
<1>2. /\ ~Stored(c)'
      /\ \A d \in Copy : d # c => Stored(d)' = Stored(d) /\ msg'[d] = msg[d]
  BY <1>1 DEF Settle, Stored
<1>3. Holding(msg[c].job) # {}
  BY DEF Holding
<1>4. \A j \in Job : j # msg[c].job => Holding(j)' = Holding(j)
  BY <1>2 DEF Holding
<1> QED
  BY <1>3, <1>4 DEF Queued

(* What a step may do to the calls the broker stores. *)
LEMMA QueuedStep ==
  ASSUME TypeInv, MessageInv, OwnerInv, OwnerInv', ConfirmPublish, [Next]_vars,
         ~\E j \in Job : Publish(j),
         ~\E t \in Thread : HandlerAnswers(t) \/ HandlerFails(t)
  PROVE  /\ published' = published /\ Settled' = Settled
         /\ \/ Queued' = Queued
            \/ \E j \in Settled \cap Queued : Queued' = Queued \ {j}
            \/ \E j \in (Settled \cap Job) \ Queued : Queued' = Queued \cup {j}
<1>1. /\ place \in [Copy -> Place] /\ msg \in [Copy -> Message \cup {Blank}]
      /\ \A c \in Copy : Stored(c) => msg[c].job \in published /\ msg[c].job \in Job
      /\ published \subseteq Job
  BY DEF TypeInv, BrokerInv, BrokerTypeOK, RecordInv, MessageInv, StoredInv, GoodMsg, Good, Message
<1>2. /\ \A j \in published \ Settled : j \in Queued
      /\ \A j \in published' \ Settled' : j \in Queued'
  <2>1. OwnerInv => \A j \in published \ Settled : Holding(j) # {}
    BY DEF OwnerInv, StillHeld, Holding, Sure
  <2>2. OwnerInv' => \A j \in published' \ Settled' : Holding(j)' # {}
    BY DEF OwnerInv, StillHeld, Holding, Sure
  <2>3. published' \subseteq Job
    BY RecordStep DEF RecordInv
  <2> QED
    BY <1>1, <2>1, <2>2, <2>3 DEF Queued
<1>3. published' = published /\ Settled' = Settled
  BY DEF Next, vars, Settled, historyVars,
         Environment, Tick, Expire, StopWorker, Break, Crash, Restart, NewProcess,
         Consumer, Reconnect, LoopStop, LoopIterate, IterEnd, ApplyAck, AckRaises, RequeueOk,
         RequeueUnseen, PublishRaises, RequeueFails, RequeueRaises, DrainTimeout, DrainRaises,
         Deliver, Executor, Take, StoreInc, Begin, PutRequeue, PutAck, PutReject, Put, LoadDec,
         StoreDec, PublishAgain
<1>4. CASE UNCHANGED brokerVars
  BY <1>3, <1>4, SameQueued DEF brokerVars, Stored
<1>5. CASE ReturnUnacked \/ \E c \in Copy : DeadLetter(c) \/ Push(c, Prefetch)
  BY <1>1, <1>3, <1>5, SameQueued DEF ReturnUnacked, DeadLetter, Push, Stored
<1>6. ASSUME NEW c \in Copy, NEW q \in {"ready", "retry"}, NEW m \in Message,
             Store(c, q, m), m.job \in published
      PROVE  \/ Queued' = Queued
             \/ \E j \in (Settled \cap Job) \ Queued : Queued' = Queued \cup {j}
  <2>1. Queued' = Queued \cup {m.job}
    BY <1>6, StoreQueued
  <2> QED
    BY <1>1, <1>2, <1>6, <2>1
<1>7. CASE RequeueOk \/ PublishRaises
  <2> DEFINE m == Head(msg_opr_queue).out
  <2>1. Head(msg_opr_queue).op = "requeue" /\ msg_opr_queue # <<>>
    BY <1>7 DEF RequeueOk, PublishRaises, NextOp
  <2>2. m \in Message /\ m.job \in published
    BY <2>1 DEF TypeInv, QueueInv, MessageInv, PendingInv, GoodMsg, Good
  <2>3. \/ \E c \in Copy : Store(c, "retry", m)
        \/ UNCHANGED brokerVars
    BY <1>7 DEF RequeueOk, PublishRaises
  <2> HIDE DEF m
  <2> QED
    BY <1>3, <1>4, <1>6, <2>2, <2>3
<1>8. CASE \E j \in Job : PublishAgain(j)
  <2> PICK j \in Job, c \in Copy : j \in published /\ Store(c, "ready", Call(j))
    BY <1>8 DEF PublishAgain
  <2>1. Call(j) \in Message /\ Call(j).job = j
    BY CallMessage DEF Call
  <2> QED
    BY <1>3, <1>6, <2>1
<1>9. CASE ApplyAck
  <2> DEFINE d == Head(msg_opr_queue).dlv
  <2>1. /\ msg_opr_queue # <<>> /\ Head(msg_opr_queue).op \in {"ack", "reject"}
        /\ IF Attached(d) THEN Settle(d.copy) ELSE UNCHANGED brokerVars
    BY <1>9 DEF ApplyAck, NextOp
  <2>2. 1 \in Ops /\ d = OpDlv(1) /\ Final(1) /\ d.copy \in Copy
    BY <1>9, <2>1, GetOp, HeadOperation DEF ApplyAck, Final, OpDlv
  <2> HIDE DEF d
  <2>3. Attached(d) => Stored(d.copy)
    BY <2>2 DEF OwnerInv, HeldInv, Held, Stored
  <2>4. CASE Attached(d)
    <3>1. /\ msg[d.copy].job \in Queued /\ msg[d.copy].job \in published
          /\ Queued' = Queued \/ Queued' = Queued \ {msg[d.copy].job}
      BY <1>1, <2>1, <2>2, <2>3, <2>4, SettleQueued
    <3> QED
      BY <1>2, <1>3, <3>1
  <2> QED
    BY <1>4, <2>1, <2>4
<1>10. CASE Environment
  BY <1>4, <1>5, <1>8, <1>10 DEF Environment, Tick, Expire, StopWorker, Break, Crash, Restart, NewProcess
<1>11. CASE Consumer
  BY <1>4, <1>5, <1>7, <1>9, <1>11
     DEF Consumer, Reconnect, LoopStop, LoopIterate, IterEnd, AckRaises, RequeueUnseen,
         RequeueFails, RequeueRaises, DrainTimeout, DrainRaises, Deliver, EndSession
<1>12. CASE \E t \in Thread : Executor(t)
  BY <1>4, <1>12
     DEF Executor, Take, StoreInc, Begin, PutRequeue, PutAck, PutReject, Put, LoadDec, StoreDec
<1>13. CASE UNCHANGED vars
  BY <1>4, <1>13 DEF vars
<1> QED
  BY <1>10, <1>11, <1>12, <1>13 DEF Next

LEMMA AbstractStep ==
  ASSUME TypeInv, MessageInv, OwnerInv, OwnerInv', ConfirmPublish, [Next]_vars
  PROVE  [Abstract!Next]_(Abstract!vars)
<1> DEFINE Step == Queued' # Queued \/ published' # published \/ Settled' # Settled
<1>1. /\ \A j \in Job : Abstract!Publish(j) <=> /\ j \notin published
                                               /\ published' = published \cup {j}
                                               /\ Queued' = Queued \cup {j}
                                               /\ Settled' = Settled
      /\ \A j \in Job : Abstract!Settle(j) <=> /\ j \in published
                                              /\ Settled' = Settled \cup {j}
                                              /\ published' = published /\ Queued' = Queued
      /\ \A j \in Job : Abstract!Leave(j) <=> /\ j \in Queued \cap Settled
                                             /\ Queued' = Queued \ {j}
                                             /\ published' = published /\ Settled' = Settled
      /\ \A j \in Job : Abstract!Reappear(j) <=> /\ j \in Settled \ Queued
                                                /\ Queued' = Queued \cup {j}
                                                /\ published' = published /\ Settled' = Settled
      /\ ~Step => UNCHANGED Abstract!vars
  BY DEF Abstract!Publish, Abstract!Settle, Abstract!Leave, Abstract!Reappear, Abstract!vars, Queued
<1>2. CASE \E j \in Job : Publish(j)
  <2> PICK j \in Job, c \in Copy :
         /\ Publish(j)
         /\ Store(c, "ready", Call(j))
    BY <1>2 DEF Publish
  <2>1. Call(j) \in Message /\ Call(j).job = j
    BY CallMessage DEF Call
  <2>2. Queued' = Queued \cup {j}
    BY <2>1, StoreQueued
  <2>3. j \notin published /\ published' = published \cup {j} /\ Settled' = Settled
    BY DEF Publish, historyVars, Settled
  <2> QED
    BY <1>1, <2>2, <2>3 DEF Abstract!Next
<1>3. CASE \E t \in Thread : HandlerAnswers(t) \/ HandlerFails(t)
  <2> PICK t \in Thread : HandlerAnswers(t) \/ HandlerFails(t)
    BY <1>3
  <2> DEFINE j == dlv[t].msg.job
  <2>1. j \in published /\ j \in Job
    BY DEF HandlerAnswers, HandlerFails, Move, MessageInv, BusyInv, GoodMsg, Good, TypeInv,
           RecordInv
  <2>2. published' = published /\ UNCHANGED brokerVars
    BY DEF HandlerAnswers, HandlerFails
  <2>3. Settled' = Settled \/ Settled' = Settled \cup {j}
    BY DEF HandlerAnswers, HandlerFails, Settled
  <2>4. Queued' = Queued
    BY <2>2, SameQueued DEF brokerVars, Stored
  <2> QED
    BY <1>1, <2>1, <2>2, <2>3, <2>4 DEF Abstract!Next
<1>4. CASE ~(\E j \in Job : Publish(j)) /\ ~(\E t \in Thread : HandlerAnswers(t) \/ HandlerFails(t))
  <2>1. /\ published' = published /\ Settled' = Settled
        /\ \/ Queued' = Queued
           \/ \E j \in Settled \cap Queued : Queued' = Queued \ {j}
           \/ \E j \in (Settled \cap Job) \ Queued : Queued' = Queued \cup {j}
    BY <1>4, QueuedStep
  <2>2. Queued \subseteq Job
    BY DEF Queued
  <2> QED
    BY <1>1, <2>1, <2>2 DEF Abstract!Next
<1> QED
  BY <1>2, <1>3, <1>4

(* With publisher confirms the server implements AtLeastOnce: a call leaves   *)
(* the broker only once it is settled.                                        *)
THEOREM AtLeastOnceKept ==
  ASSUME ConfirmPublish
  PROVE  Spec => KeepsAtLeastOnce
<1>1. Init => Abstract!Init
  BY DEF Init, BrokerInit, Abstract!Init, Settled, Holding, Stored
<1>2. TypeInv /\ MessageInv /\ OwnerInv /\ OwnerInv' /\ [Next]_vars => [Abstract!Next]_(Abstract!vars)
  BY AbstractStep
<1> QED
  BY <1>1, <1>2, SpecMessageInv, SpecOwnerInv, PTL DEF Spec, KeepsAtLeastOnce, Abstract!Spec
=============================================================================
