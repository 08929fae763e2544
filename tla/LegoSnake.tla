----------------------------- MODULE LegoSnake -----------------------------
(***************************************************************************)
(* The scripter's interpreter (services/scripter_module): mli_create links *)
(* the lines of a validated script into a list of pieces, the Lego snake,  *)
(* interpreter_next executes one piece after the other and changes the     *)
(* links of the loops as it goes, and mli_destroy frees the pieces along   *)
(* the links it finds.                                                     *)
(*                                                                         *)
(* A piece is known by its place in the script: 1 is the start piece, line *)
(* l is piece l + 1.  0 is INITPTR.  Conditions and the clock may turn out *)
(* either way.                                                             *)
(***************************************************************************)
EXTENDS Naturals, Sequences, SequencesExt

CONSTANTS
  MaxLines,   \* bound: the length of a script
  Times,      \* how often a loop may say it is executed
  AnyScript   \* FALSE: only scripts that keep to Regular

ASSUME LegoAssumption ==
  MaxLines \in Nat /\ Times \subseteq Nat /\ AnyScript \in BOOLEAN

Types == {"do", "loop", "endloop", "breakloop", "if", "else", "endif"}

Line ==
  [type : Types \ {"loop"}, times : {0}, msec : {FALSE}]
    \cup [type : {"loop"}, times : Times, msec : {FALSE}]
    \cup [type : {"loop"}, times : {0}, msec : {TRUE}]

VARIABLES
  phase,     \* "build", "run", "ended"
  lines,     \* the script
  nesting,   \* the pieces of the loops and ifs that are open: nesting,
             \* loopstack and ifstack
  tmout,     \* loop_tmout of mli_create
  pieces,    \* the snake
  current,   \* the interpreter's position
  cut        \* the script was ended before its end

vars == <<phase, lines, nesting, tmout, pieces, current, cut>>

Piece(type) ==
  [type |-> type, next |-> 0,
   loopback |-> 0, beyond |-> 0, total |-> 0, counter |-> 0, timed |-> FALSE,  \* endloop
   else |-> 0, end |-> 0, prev |-> 0]                                          \* if, else, endif

Place == 0..MaxLines + 2
Pieces == [type : Types \cup {"start", "end"}, next : Place,
           loopback : Place, beyond : Place, total : Nat, counter : Nat, timed : BOOLEAN,
           else : Place, end : Place, prev : Place]

TypeOK ==
  /\ phase \in {"build", "run", "ended"} /\ tmout \in BOOLEAN /\ cut \in BOOLEAN
  /\ lines \in Seq(Line) /\ nesting \in Seq(1..MaxLines + 2)
  /\ pieces \in Seq(Pieces) /\ current \in 0..Len(pieces)

Init ==
  /\ phase = "build" /\ lines = <<>> /\ nesting = <<>> /\ tmout = FALSE
  /\ pieces = <<Piece("start")>> /\ current = 0 /\ cut = FALSE

----------------------------------------------------------------------------
(* mli_create: one line of a script that validate_line accepts.  The top   *)
(* of a stack is the piece that was added last.                            *)
LoopStack == {i \in ToSet(nesting) : pieces[i].type = "loop"}
IfStack == {i \in ToSet(nesting) : pieces[i].type = "if"}
Innermost(type) == nesting # <<>> /\ pieces[Last(nesting)].type = type

(* A script has one else per if, though validate_line lets more pass.      *)
Valid(line) ==
  CASE line.type = "endloop" -> Innermost("loop")
    [] line.type = "endif" -> Innermost("if")
    [] line.type = "else" -> Innermost("if") /\ pieces[Last(nesting)].else = 0
    [] line.type = "breakloop" -> LoopStack # {}
    [] OTHER -> TRUE

(* What a script has to avoid for its loops to do what the manual says: a  *)
(* loop of less than two passes, a loop with passes after one with a time  *)
(* (loop_tmout of mli_create is never reset), a breakloop inside a nested  *)
(* loop (it leaves counter_ as it is) or before one (the fast forward      *)
(* stops at the first endloop).                                            *)
Regular(line) ==
  /\ line.type = "loop" /\ ~line.msec => line.times > 1 /\ ~tmout
  /\ line.type = "breakloop" => Cardinality(LoopStack) = 1
  /\ line.type = "loop" /\ LoopStack # {} =>
       \A i \in Min(LoopStack)..Len(pieces) : pieces[i].type # "breakloop"

New == Len(pieces) + 1

(* mli_create_endifblock: the branch before the else ends at the endif.    *)
Relinked(ps, if) ==
  LET closed == [ps EXCEPT ![if].end = New]
      else == ps[if].else IN
  IF else = 0 THEN closed ELSE [closed EXCEPT ![ps[else].prev].next = New]

AddLine(line) ==
  LET linked == [pieces EXCEPT ![Len(pieces)].next = New]
      new == Piece(line.type) IN
  /\ phase = "build" /\ Len(lines) < MaxLines
  /\ Valid(line) /\ (AnyScript \/ Regular(line))
  /\ lines' = Append(lines, line)
  /\ CASE line.type = "loop" ->
            /\ tmout' = (tmout \/ line.msec)
            /\ pieces' = Append(linked, [new EXCEPT !.total = line.times, !.timed = tmout'])
            /\ nesting' = Append(nesting, New)
       [] line.type = "endloop" ->
            LET loop == Max(LoopStack) IN
            /\ pieces' = Append(linked, [new EXCEPT !.loopback = loop,
                                  !.total = pieces[loop].total, !.timed = pieces[loop].timed])
            /\ nesting' = Front(nesting) /\ UNCHANGED tmout
       [] line.type = "if" ->
            /\ pieces' = Append(linked, new)
            /\ nesting' = Append(nesting, New) /\ UNCHANGED tmout
       [] line.type = "else" ->
            /\ pieces' = Append([linked EXCEPT ![Max(IfStack)].else = New],
                                [new EXCEPT !.prev = Len(pieces)])
            /\ UNCHANGED <<nesting, tmout>>
       [] line.type = "endif" ->
            LET if == Max(IfStack) IN
            /\ pieces' = Append(Relinked(linked, if), [new EXCEPT !.else = pieces[if].else])
            /\ nesting' = Front(nesting) /\ UNCHANGED tmout
       [] OTHER ->
            pieces' = Append(linked, new) /\ UNCHANGED <<nesting, tmout>>
  /\ UNCHANGED <<phase, current, cut>>

(* Deviation: no end piece.                                                *)
FinishWithoutEnd ==
  /\ phase = "build" /\ nesting = <<>>
  /\ pieces' = [pieces EXCEPT ![Len(pieces)].next = New]
  /\ phase' = "run" /\ current' = 1
  /\ UNCHANGED <<lines, nesting, tmout, cut>>

(* The end piece; validate_test_case has found nothing left open.          *)
Finish ==
  /\ phase = "build" /\ nesting = <<>>
  /\ pieces' = Append([pieces EXCEPT ![Len(pieces)].next = New], Piece("end"))
  /\ phase' = "run" /\ current' = 1
  /\ UNCHANGED <<lines, nesting, tmout, cut>>

----------------------------------------------------------------------------
(* interpreter_next                                                        *)
At(types) == phase = "run" /\ pieces[current].type \in types
RunUnchanged == UNCHANGED <<phase, lines, nesting, tmout, cut>>

Plain ==
  /\ At({"start", "do", "loop", "else", "endif"})
  /\ current' = pieces[current].next
  /\ UNCHANGED pieces /\ RunUnchanged

(* Deviation: the counter is compared with the number of passes itself.    *)
CountedOnceMore(p, beyond) ==
  CASE p.counter = 0 -> [p EXCEPT !.next = p.loopback, !.counter = 1]
    [] p.counter > 0 /\ p.counter < p.total -> [p EXCEPT !.counter = @ + 1]
    [] OTHER -> [p EXCEPT !.next = beyond, !.counter = 0]

Counted(p, beyond) ==
  CASE p.counter = 0 -> [p EXCEPT !.next = p.loopback, !.counter = 1]
    [] p.counter > 0 /\ p.counter + 1 < p.total -> [p EXCEPT !.counter = @ + 1]
    [] OTHER -> [p EXCEPT !.next = beyond, !.counter = 0]

Endloop ==
  /\ At({"endloop"})
  /\ LET p == pieces[current]
         beyond == IF p.beyond = 0 THEN p.next ELSE p.beyond
         known == [p EXCEPT !.beyond = beyond,
                            !.next = IF p.beyond = 0 THEN p.loopback ELSE p.next] IN
     \E new \in IF p.timed THEN {[known EXCEPT !.next = n] : n \in {beyond, p.loopback}}
                ELSE {Counted(known, beyond)} :
       pieces' = [pieces EXCEPT ![current] = new]
  /\ current' = pieces'[current].next
  /\ RunUnchanged

(* Fast forward to endloop.                                                *)
NextEndloop ==
  LET reach[k \in Nat] ==
        IF k = 0 THEN current
        ELSE LET i == reach[k - 1] IN IF pieces[i].type = "endloop" THEN i ELSE pieces[i].next
  IN reach[Len(pieces)]

(* Deviation: the link of the loop is not reset.                           *)
BrokenNotReset(e) == pieces

Broken(e) == IF pieces[e].beyond = 0 THEN pieces
             ELSE [pieces EXCEPT ![e].next = pieces[e].beyond]

Breakloop ==
  /\ At({"breakloop"})
  /\ LET e == NextEndloop IN pieces' = Broken(e) /\ current' = pieces'[e].next
  /\ RunUnchanged

If ==
  /\ At({"if"})
  /\ LET p == pieces[current]
         skipTo == IF p.else # 0 THEN p.else ELSE p.end IN
     current' \in {p.next, pieces[skipTo].next}
  /\ UNCHANGED pieces /\ RunUnchanged

(* The end piece: script_finish.                                           *)
End ==
  /\ At({"end"})
  /\ phase' = "ended" /\ current' = 0
  /\ UNCHANGED <<lines, nesting, tmout, pieces, cut>>

(* A failed test case ends the script where it is (canceliferror).         *)
Cancel ==
  /\ phase = "run"
  /\ phase' = "ended" /\ cut' = TRUE
  /\ UNCHANGED <<lines, nesting, tmout, pieces, current>>

Interpret == Plain \/ Endloop \/ Breakloop \/ If \/ End

Next ==
  \/ \E line \in Line : AddLine(line)
  \/ Finish
  \/ Interpret
  \/ Cancel

Spec == Init /\ [][Next]_vars

(* The main loop of tm_run_test_case calls interpreter_next again and      *)
(* again.                                                                  *)
FairSpec == Spec /\ WF_vars(Interpret)

----------------------------------------------------------------------------
(* mli_destroy: a step of its loop, which is at the piece w.at, has freed  *)
(* w.freed and cleared else_ in the endifs w.elses.  The loop ends with    *)
(* the links, or with the first piece that is freed already.               *)
FreePiece(w) == [w EXCEPT !.at = pieces[w.at].next, !.freed = Append(@, w.at)]

(* Deviation: the branch of an else is left out.                           *)
NoElseIsLeft(w) == FALSE

ElseIsLeft(w) ==
  pieces[w.at].type = "endif" /\ pieces[w.at].else # 0 /\ w.at \notin w.elses

Destroy(w) ==
  IF w.at = 0 THEN w
  ELSE IF w.at \in ToSet(w.freed) THEN [w EXCEPT !.at = 0, !.freed = Append(@, w.at)]
  ELSE IF ElseIsLeft(w) THEN [w EXCEPT !.at = pieces[w.at].else, !.elses = @ \cup {w.at}]
  ELSE FreePiece(w)

(* The pieces in the order in which they are freed.                        *)
Freed ==
  LET walk[k \in Nat] == IF k = 0 THEN [at |-> 1, freed |-> <<>>, elses |-> {}]
                         ELSE Destroy(walk[k - 1])
  IN walk[2 * Len(pieces) + 1].freed

----------------------------------------------------------------------------
(* What a script does is what the manual says it does.  The interpreter    *)
(* keeps count of a loop in its endloop piece, at 0 before the first pass  *)
(* is over.                                                                *)
EndloopOf(i) == CHOOSE e \in DOMAIN pieces : pieces[e].loopback = i

Left(i) ==
  IF pieces[i].type # "loop" \/ phase = "build" THEN 0
  ELSE LET e == pieces[EndloopOf(i)]
           open == (i < current /\ current <= EndloopOf(i)) \/ (current = i /\ e.next = i)
       IN IF ~open THEN 0 ELSE IF lines[i - 1].msec THEN 1 ELSE e.total - e.counter

Meaning == INSTANCE ScriptMeaning WITH
  script <- lines,
  pos <- IF phase = "build" THEN 0 ELSE IF current = 0 THEN Len(lines) + 1 ELSE current - 1,
  left <- [l \in 1..Len(lines) |-> Left(l + 1)]

ImplementsMeaning == Meaning!Spec

(* At the end of a script every piece is freed, and freed once; a script   *)
(* that is cut short inside a loop that has looped back is not covered.    *)
FreedOnce ==
  phase = "ended" /\ (cut => \A i \in DOMAIN pieces : pieces[i].type = "loop" => Left(i) = 0) =>
    Len(Freed) = Len(pieces) /\ ToSet(Freed) = DOMAIN pieces

InTimedLoop ==
  \E i \in DOMAIN pieces : pieces[i].type = "loop" /\ lines[i - 1].msec /\ Left(i) = 1

(* A script that has begun comes to its end, or into a loop that goes on   *)
(* until its time is over: the interpreter cannot go round in a circle or  *)
(* leave the snake.                                                        *)
ScriptEnds == phase = "run" ~> phase = "ended" \/ InTimedLoop
============================================================================
