---------------------------- MODULE SlaveSession ---------------------------
(***************************************************************************)
(* What a master relies on when it has test cases executed by a slave      *)
(* (SlavePool): the slave takes one "remote run" at a time, says "started" *)
(* with the number of the case and later "ready" with the same number, and *)
(* starts the next only then.  It may go deaf: a run it cannot start is    *)
(* not answered, and nothing after it.                                     *)
(***************************************************************************)
EXTENDS Naturals, Sequences

VARIABLES
  asked,  \* number of runs taken
  cases,  \* number of runs started
  busy,   \* whether the last one is executed
  deaf,   \* whether it has stopped listening
  said    \* its answers: [type, case]

vars == <<asked, cases, busy, deaf, said>>

Init == asked = 0 /\ cases = 0 /\ busy = FALSE /\ deaf = FALSE /\ said = <<>>

Say(type, n) == said' = Append(said, [type |-> type, case |-> n])

Take ==
  /\ asked = cases
  /\ asked' = asked + 1
  /\ UNCHANGED <<cases, busy, deaf, said>>

Start ==
  /\ cases < asked /\ ~busy /\ ~deaf
  /\ cases' = cases + 1 /\ busy' = TRUE
  /\ Say("started", cases + 1)
  /\ UNCHANGED <<asked, deaf>>

Finish ==
  /\ busy /\ busy' = FALSE
  /\ Say("ready", cases)
  /\ UNCHANGED <<asked, cases, deaf>>

GoDeaf ==
  /\ cases < asked /\ ~busy /\ deaf' = TRUE
  /\ UNCHANGED <<asked, cases, busy, said>>

Next == Take \/ Start \/ Finish \/ GoDeaf

Safety == Init /\ [][Next]_vars

Spec == Safety /\ WF_vars(Start) /\ WF_vars(Finish)
============================================================================
