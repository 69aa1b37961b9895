--------------------------- MODULE ServiceStubsMC ---------------------------
(* A small instance of ServiceStubs for TLC. *)
EXTENDS ServiceStubs, TLC

CONSTANTS s1, s2, n1, m1, m2, i1, i2, e1, x1, x2

(* s2 has no name in its definition and no servicer in the worker; i2        *)
(* replaces one method of i1, or i1 that of i2.                              *)
MCDefinition == (s1 :> n1) @@ (s2 :> None)
MCImplFor    == (i1 :> s1) @@ (i2 :> s1)
MCHas        == (i1 :> {m1, m2}) @@ (i2 :> {m1})

(* The worker's broker with its exchange and with another one, and a         *)
(* configuration without an endpoint, which gets a broker of its own.        *)
MCWorker   == [endpoint |-> e1, exchange |-> x1]
MCInstance == {MCWorker, [endpoint |-> e1, exchange |-> x2],
               [endpoint |-> Empty, exchange |-> x1]}

Symmetry == Permutations(Thread)
=============================================================================
