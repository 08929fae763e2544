----------------------------- MODULE StateGate -----------------------------
(***************************************************************************)
(* What a state event promises to those who request it, without messages,  *)
(* registrations or pending unsets: each event is a gate that processes    *)
(* enter while it is open, and it is never closed with somebody inside.    *)
(***************************************************************************)
CONSTANTS User, Gate

VARIABLES open, inside

vars == <<open, inside>>

Init ==
  /\ open = [g \in Gate |-> FALSE]
  /\ inside = [g \in Gate |-> {}]

(* Opening lets in those who were waiting at the gate.                     *)
Open(g, waiting) ==
  /\ ~open[g]
  /\ open' = [open EXCEPT ![g] = TRUE]
  /\ inside' = [inside EXCEPT ![g] = waiting]

Enter(g, u) ==
  /\ open[g]
  /\ inside' = [inside EXCEPT ![g] = @ \cup {u}]
  /\ UNCHANGED open

(* The last one to leave may close the gate behind him.                    *)
Leave(g, u) ==
  /\ u \in inside[g]
  /\ inside' = [inside EXCEPT ![g] = @ \ {u}]
  /\ open' \in {open, [open EXCEPT ![g] = inside'[g] # {}]}

Close(g) ==
  /\ open[g] /\ inside[g] = {}
  /\ open' = [open EXCEPT ![g] = FALSE]
  /\ UNCHANGED inside

Next ==
  \E g \in Gate :
    \/ \E waiting \in SUBSET User : Open(g, waiting)
    \/ \E u \in User : Enter(g, u) \/ Leave(g, u)
    \/ Close(g)

Spec == Init /\ [][Next]_vars
============================================================================
