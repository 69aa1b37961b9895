------------------------------- MODULE Broker -------------------------------
(***************************************************************************)
(* The RabbitMQ broker as rabbitmq/server.py uses it (external code): one  *)
(* servicer's durable queue and the "__retry" queue declared beside it,    *)
(* whose only consumer is its x-message-ttl, which dead-letters a message  *)
(* back to the servicer's queue.  A copy is one stored message; the same   *)
(* job may be stored several times, after a republish or a redelivery.     *)
(***************************************************************************)
EXTENDS Integers, FiniteSets

CONSTANTS
  Job,      \* the asynchronous calls
  Copy,     \* message slots of the broker: bounds the messages stored at once
  None      \* absence of a job, of a copy

ASSUME NoneAssumption == None \notin Job /\ None \notin Copy

VARIABLES
  place,      \* where each copy is
  msg,        \* what each copy holds
  superseded  \* history: unacked copies whose replacement is already published

brokerVars == <<place, msg, superseded>>

(***************************************************************************)
(* The headers the server reads and writes; 0 stands for an absent         *)
(* execute_at, which the code treats as the value 0.                       *)
(***************************************************************************)
Message == [job : Job, retry_cnt : Nat, execute_at : Nat]
Blank   == [job |-> None, retry_cnt |-> 0, execute_at |-> 0]

Place == {"free", "ready", "unacked", "retry"}

Stored(c)  == place[c] # "free"
Unacked    == {c \in Copy : place[c] = "unacked"}
Holding(j) == {c \in Copy : Stored(c) /\ msg[c].job = j}

BrokerTypeOK ==
  /\ place \in [Copy -> Place]
  /\ msg \in [Copy -> Message \cup {Blank}]
  /\ superseded \subseteq Copy

BrokerInit ==
  /\ place = [c \in Copy |-> "free"]
  /\ msg = [c \in Copy |-> Blank]
  /\ superseded = {}

(* Which free slot takes a message is nothing the server can see. *)
FreeSlot == CHOOSE c \in Copy : place[c] = "free"

(* Store message m in the free slot c of queue q ("ready" or "retry"). *)
Store(c, q, m) ==
  /\ place[c] = "free" /\ c = FreeSlot
  /\ place' = [place EXCEPT ![c] = q]
  /\ msg' = [msg EXCEPT ![c] = m]

(* Hand a ready copy to the consumer, which may hold `prefetch' of them. *)
Push(c, prefetch) ==
  /\ place[c] = "ready"
  /\ Cardinality(Unacked) < prefetch
  /\ place' = [place EXCEPT ![c] = "unacked"]
  /\ UNCHANGED <<msg, superseded>>

(* Mutants: the consumer rejects with requeue; it consumes without acks. *)
SettleRequeues(c) ==
  /\ place' = [place EXCEPT ![c] = "ready"]
  /\ UNCHANGED <<msg, superseded>>
ForgetUnacked ==
  /\ place' = [c \in Copy |-> IF place[c] = "unacked" THEN "free" ELSE place[c]]
  /\ superseded' = {}
  /\ UNCHANGED msg

(* basic.ack, or basic.reject without requeue: the copy is forgotten. *)
Settle(c) ==
  /\ place' = [place EXCEPT ![c] = "free"]
  /\ msg' = [msg EXCEPT ![c] = Blank]
  /\ superseded' = superseded \ {c}

(* The consumer's channel is gone: what it had not acked is ready again. *)
ReturnUnacked ==
  /\ place' = [c \in Copy |-> IF place[c] = "unacked" THEN "ready" ELSE place[c]]
  /\ superseded' = {}
  /\ UNCHANGED msg

(* The message TTL of the retry queue: dead-lettered to the servicer's queue. *)
DeadLetter(c) ==
  /\ place[c] = "retry"
  /\ place' = [place EXCEPT ![c] = "ready"]
  /\ UNCHANGED <<msg, superseded>>
=============================================================================
