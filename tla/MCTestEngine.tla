---------------------------- MODULE MCTestEngine ---------------------------
(* Three modules: one with two cases, one with a single case and one with  *)
(* none.                                                                   *)
EXTENDS TestEngine

CONSTANTS m1, m2, m3, a1, a2, b, t1, t2

Modules == {m1, m2, m3}
Cases == {a1, a2, b}
Owner == [c \in Cases |-> IF c = b THEN m2 ELSE m1]
Cfgs == [m \in Modules |-> IF m = m1 THEN <<a1, a2>> ELSE IF m = m2 THEN <<b>> ELSE <<>>]
UserOrders == {<<a1>>, <<a2, b>>}
============================================================================
