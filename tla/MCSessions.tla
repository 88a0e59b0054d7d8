----------------------------- MODULE MCSessions -----------------------------
(* Two tabs, each with the GET of its login page; the first has one more   *)
(* request, a logout or another, that may be queued behind it.             *)
EXTENDS Sessions

CONSTANTS a, b, r1, r2, r3

MCtabOf == [r \in Request |-> IF r = r3 THEN b ELSE a]
=============================================================================
