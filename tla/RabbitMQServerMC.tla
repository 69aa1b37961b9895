-------------------------- MODULE RabbitMQServerMC --------------------------
(* Small instances of RabbitMQServer for TLC. *)
EXTENDS RabbitMQServer, TLC

CONSTANT Delayed1   \* the job, if any, whose target_ts is one tick after Epoch

MCTarget == [j \in Job |-> IF j = Delayed1 THEN Epoch + 1 ELSE 0]

Symmetry == Permutations(Thread)
=============================================================================
