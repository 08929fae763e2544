--------------------------- MODULE ScriptMeaning ---------------------------
(***************************************************************************)
(* Abstract specification of the flow of control in a scripted test case,  *)
(* as the chapters on the keywords loop, endloop, breakloop, if, else and  *)
(* endif give it: a loop is executed the number of times it says, or until *)
(* its time is over; breakloop leaves the innermost loop; one branch of an *)
(* if is executed.  The author writes the lines one by one, then the       *)
(* script runs; pos is the next line.                                      *)
(***************************************************************************)
EXTENDS Naturals, Sequences, FiniteSets, FiniteSetsExt

CONSTANT Line   \* [type, times, msec]: what may be written

VARIABLES script, pos, left   \* left[l]: passes of loop l that are still due

vars == <<script, pos, left>>

IsType(l, type) == l \in DOMAIN script /\ script[l].type = type

(* Lines of a type from line a to line b.                                  *)
Count(a, b, type) == Cardinality({l \in a..b : script[l].type = type})

(* The line that closes what line l opens.                                 *)
Closing(l, open, close) ==
  Min({k \in l..Len(script) : Count(l, k, open) = Count(l, k, close)})

EndloopOf(l) == Closing(l, "loop", "endloop")
EndifOf(l) == Closing(l, "if", "endif")

LoopOf(e) == CHOOSE l \in 1..e : IsType(l, "loop") /\ EndloopOf(l) = e
InnermostLoop(b) == Max({l \in 1..b : IsType(l, "loop") /\ EndloopOf(l) > b})
IfOf(e) == Max({l \in 1..e : IsType(l, "if") /\ EndifOf(l) > e})

ElseOf(l) == {e \in l..EndifOf(l) : IsType(e, "else") /\ IfOf(e) = l}

(* Where to go on after line l: an else there ends the branch before it.   *)
After(l) == IF IsType(l + 1, "else") THEN EndifOf(IfOf(l + 1)) ELSE l + 1

Init == script = <<>> /\ pos = 0 /\ left = <<>>

Write ==
  /\ pos = 0
  /\ \E l \in Line : script' = Append(script, l)
  /\ left' = Append(left, 0)
  /\ UNCHANGED pos

Begin == pos = 0 /\ pos' = After(0) /\ UNCHANGED <<script, left>>

Simple ==
  /\ IsType(pos, "do") \/ IsType(pos, "else") \/ IsType(pos, "endif")
  /\ pos' = After(pos) /\ UNCHANGED left

Loop ==
  /\ IsType(pos, "loop")
  /\ IF left[pos] = 0 /\ script[pos].times = 0 /\ ~script[pos].msec
     THEN pos' = After(EndloopOf(pos)) /\ UNCHANGED left
     ELSE /\ pos' = After(pos)
          /\ left' = IF left[pos] # 0 THEN left
                     ELSE [left EXCEPT ![pos] = IF script[pos].msec THEN 1 ELSE script[pos].times]

Endloop ==
  /\ IsType(pos, "endloop")
  /\ LET l == LoopOf(pos) IN
     \/ /\ script[l].msec \/ left[l] > 1
        /\ pos' = l
        /\ left' = IF script[l].msec THEN left ELSE [left EXCEPT ![l] = @ - 1]
     \/ /\ left[l] = 1
        /\ pos' = After(pos)
        /\ left' = [left EXCEPT ![l] = 0]

Breakloop ==
  /\ IsType(pos, "breakloop")
  /\ LET l == InnermostLoop(pos) IN
     pos' = After(EndloopOf(l)) /\ left' = [left EXCEPT ![l] = 0]

If ==
  /\ IsType(pos, "if")
  /\ pos' \in {After(pos), IF ElseOf(pos) = {} THEN After(EndifOf(pos)) ELSE Min(ElseOf(pos)) + 1}
  /\ UNCHANGED left

Next ==
  \/ Write
  \/ Begin
  \/ (Simple \/ Loop \/ Endloop \/ Breakloop \/ If) /\ UNCHANGED script

Spec == Init /\ [][Next]_vars
============================================================================
