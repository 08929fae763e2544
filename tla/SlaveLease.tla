---------------------------- MODULE SlaveLease -----------------------------
(***************************************************************************)
(* What the pool of slaves promises: a slave is leased to one test at a    *)
(* time, works only for the test that has leased it, and is taken back     *)
(* only when that test no longer uses it and the slave is at rest.         *)
(***************************************************************************)
CONSTANTS Slaves, Tests, Nobody

VARIABLES
  holder,   \* the test each slave is leased to
  working,  \* whether the slave executes a test case
  users     \* the tests that count on having a slave

vars == <<holder, working, users>>

Init ==
  /\ holder = [s \in Slaves |-> Nobody]
  /\ working = [s \in Slaves |-> FALSE]
  /\ users = {}

Lease(s, t) ==
  /\ holder[s] = Nobody /\ ~working[s]
  /\ holder' = [holder EXCEPT ![s] = t]
  /\ UNCHANGED <<working, users>>

Use(t) ==
  /\ \E s \in Slaves : holder[s] = t
  /\ users' = users \cup {t}
  /\ UNCHANGED <<holder, working>>

Leave(t) ==
  /\ users' = users \ {t}
  /\ UNCHANGED <<holder, working>>

Work(s) ==
  /\ holder[s] # Nobody
  /\ working' = [working EXCEPT ![s] = TRUE]
  /\ UNCHANGED <<holder, users>>

Rest(s) ==
  /\ working' = [working EXCEPT ![s] = FALSE]
  /\ UNCHANGED <<holder, users>>

Return(s) ==
  /\ holder[s] \notin users /\ ~working[s]
  /\ holder' = [holder EXCEPT ![s] = Nobody]
  /\ UNCHANGED <<working, users>>

Next ==
  \/ \E s \in Slaves : Work(s) \/ Rest(s) \/ Return(s) \/ \E t \in Tests : Lease(s, t)
  \/ \E t \in Tests : Use(t) \/ Leave(t)

Spec == Init /\ [][Next]_vars
============================================================================
