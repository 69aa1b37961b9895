----------------------------- MODULE GrpcCallMC -----------------------------
(* Small instances of GrpcCall for TLC. *)
EXTENDS GrpcCall, TLC

CONSTANTS a, b, wa, wb, patient

(* Service a calls b, which calls a: with one worker each, the second call   *)
(* for a waits for the worker that waits for it.                             *)
MCServiceOf == (wa :> a) @@ (wb :> b)
MCCallees   == [t \in Thread |-> IF t = wa THEN {b} ELSE {a}]

OneOrTwo  == [t \in Thread |-> IF t = wb THEN 1 ELSE 2]

(* Clients give one tick, but patient waits for ever; handlers set no timeout. *)
ShortCall == [t \in Thread |-> IF t \in Client \ {patient} THEN 1 ELSE Never]
=============================================================================
