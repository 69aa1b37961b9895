---------------------------- MODULE AtLeastOnce ----------------------------
(***************************************************************************)
(* What asynchronous calls over RabbitMQ promise when publishes are        *)
(* confirmed: a published call stays with the broker until it is settled,  *)
(* by an answer of its handler or by the last failure its retries allow.   *)
(* Only a settled call may leave; a settled call may come back as a        *)
(* duplicate.  RabbitMQServer implements it.                               *)
(***************************************************************************)
CONSTANT Job

VARIABLES
  published,  \* calls a client has published
  settled,    \* calls answered, or given up after their last failure
  queued      \* calls the broker stores

vars == <<published, settled, queued>>

Init == published = {} /\ settled = {} /\ queued = {}

Publish(j) ==
  /\ j \notin published
  /\ published' = published \cup {j}
  /\ queued' = queued \cup {j}
  /\ UNCHANGED settled

Settle(j) ==
  /\ j \in published
  /\ settled' = settled \cup {j}
  /\ UNCHANGED <<published, queued>>

Leave(j) ==
  /\ j \in queued \cap settled
  /\ queued' = queued \ {j}
  /\ UNCHANGED <<published, settled>>

Reappear(j) ==
  /\ j \in settled \ queued
  /\ queued' = queued \cup {j}
  /\ UNCHANGED <<published, settled>>

Next == \E j \in Job : Publish(j) \/ Settle(j) \/ Leave(j) \/ Reappear(j)

Spec == Init /\ [][Next]_vars
=============================================================================
