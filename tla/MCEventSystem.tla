--------------------------- MODULE MCEventSystem ---------------------------
(* EventSystem for TLC: every request about every kind of event.           *)
EXTENDS EventSystem, TLC

AllCalls == Request
Symmetry == Permutations(Client)
============================================================================
