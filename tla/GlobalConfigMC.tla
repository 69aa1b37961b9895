--------------------------- MODULE GlobalConfigMC ---------------------------
(* Small instances of GlobalConfig for TLC. *)
EXTENDS GlobalConfig, TLC

CONSTANTS s1, s2, n1, n2

Plain(fs, routes) == [flags |-> fs, serves |-> routes, stamped |-> TRUE, paced |-> TRUE]

Def(s, t, n) == [flag |-> s, type |-> t, value |-> n]

MCEmpty == Plain(<<>>, <<>>)

(* Both services move from one servicer to the other, by flag and by route.  *)
First  == Plain(<<Def(s1, "STRING", n1), Def(s2, "STRING", None)>>, n1 :> {s1, s2})
Second == Plain(<<Def(s2, "STRING", n2)>>, n2 :> {s1})
Both   == Plain(<<Def(s1, "STRING", n2), Def(s2, "STRING", n1)>>,
                (n1 :> {s1}) @@ (n2 :> {s2}))

(* The flag of s1 has another type; no 'ts'; a reload period below zero.     *)
Mistyped  == Plain(<<Def(s2, "STRING", n2), Def(s1, "OTHER", n1)>>, n2 :> {s1, s2})
Unstamped == [Second EXCEPT !.stamped = FALSE]
Unpaced   == [First EXCEPT !.paced = FALSE]

(* The environment sets the flag of s2 and serves s2 itself.                 *)
EnvBoth == Plain(<<Def(s2, "STRING", n2)>>, n2 :> {s2})

MCLoads == {First, Mistyped, Unstamped, Unpaced}
MCLive  == {Both, Mistyped}
=============================================================================
