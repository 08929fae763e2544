----------------------------- MODULE RunService ----------------------------
(***************************************************************************)
(* What the engine relies on when it hands test cases to a test module     *)
(* controller: it asks for one run at a time, gets one report for each run *)
(* it asks for, never a report for another run, and nothing of the test is *)
(* left behind when the report is there.                                   *)
(***************************************************************************)
EXTENDS Naturals, Sequences

CONSTANT Result

VARIABLES asked,     \* number of runs asked for
          reports,   \* the reports, in order: [run, res]
          busy       \* the runs whose process exists

vars == <<asked, reports, busy>>

Init == asked = 0 /\ reports = <<>> /\ busy = {}

Ask ==
  /\ asked = Len(reports) /\ busy = {}
  /\ asked' = asked + 1
  /\ UNCHANGED <<reports, busy>>

Begin ==
  /\ asked = Len(reports) + 1 /\ busy = {}
  /\ busy' = {asked}
  /\ UNCHANGED <<asked, reports>>

Finish ==
  /\ busy # {}
  /\ busy' = {}
  /\ UNCHANGED <<asked, reports>>

Report ==
  /\ asked = Len(reports) + 1 /\ busy = {}
  /\ \E res \in Result : reports' = Append(reports, [run |-> asked, res |-> res])
  /\ UNCHANGED <<asked, busy>>

Next == Ask \/ Begin \/ Finish \/ Report

Spec == Init /\ [][Next]_vars
============================================================================
