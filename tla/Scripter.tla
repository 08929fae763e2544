------------------------------ MODULE Scripter ------------------------------
(***************************************************************************)
(* The engine of a scripted test case: the main loop of tm_run_test_case   *)
(* (services/scripter_module/min_scripter_if.c), the SIGALRM handler that  *)
(* interrupts it, the combined and scripted test processes it forks, and   *)
(* what the engine answers.  The script itself is any sequence of commands *)
(* (LegoSnake has the flow of control).                                    *)
(*                                                                         *)
(* A record is a ScriptedTestProcessDetails: of a test case that was       *)
(* started by run, of a test class, or of a test case that runs on a       *)
(* slave.  Its process has the same index; a remote record has none, and   *)
(* the process id 0.  A process remembers what its test functions gave and *)
(* what the script expected of them, for the properties.                   *)
(***************************************************************************)
EXTENDS Naturals, Sequences, FiniteSets

CONSTANTS
  Ids,        \* testids
  Commands,   \* the commands scripts are made of
  Expected,   \* what a run or a method call may have as its expected result
  MaxLines,   \* bound: commands a script executes
  MaxRecords, \* bound: records
  None

CommandNames == {"run", "complete", "pause", "resume", "cancel", "canceliferror", "timeout",
                 "blocktimeout", "create", "call", "delete", "allocate", "wait", "remote"}
Results == {"passed", "failed", "crashed"}

ASSUME ScripterAssumption ==
  /\ MaxLines \in Nat /\ MaxRecords \in Nat /\ \A id \in Ids : id \notin Nat
  /\ None \notin Ids \cup Results \cup {"nc"} /\ None \notin Nat
  /\ Commands \subseteq CommandNames /\ Expected \subseteq Results

VARIABLES
  pc,        \* the main loop: "top", "read", "handle", "reap", "cancel", "script", "done"
  begun,     \* the interpreter is past the start piece
  lines,     \* commands executed
  msg,       \* input_buffer
  flags,     \* those flags of scripter_mod that are set; "notimeout": blocking_timeout is 0
  complete,  \* testcomplete
  remotes,   \* extif_remote
  recs,      \* tp_details
  walks,     \* the search for RUNNING records: of the main loop, of the handler
  alarm,     \* "off", "armed", "handler"
  procs,     \* the test processes
  queue,     \* messages for the scripter
  asked,     \* the engine's work: commands it has not answered
  abroad,    \* the engine's work: cases that run on slaves
  cases,     \* the engine's work: how many have been sent to slaves
  verdict

main == <<pc, begun, lines, msg, flags, complete, remotes>>
world == <<asked, abroad, cases>>
vars == <<main, recs, walks, alarm, procs, queue, world, verdict>>

Flags == {"finished", "error", "canceliferror", "tclass_exec", "extif", "event", "notimeout"}

TypeOK ==
  /\ pc \in {"top", "read", "handle", "reap", "cancel", "script", "done"}
  /\ begun \in BOOLEAN /\ lines \in 0..MaxLines /\ flags \subseteq Flags
  /\ complete \in Ids \cup {None} /\ remotes \in Nat
  /\ alarm \in {"off", "armed", "handler"}
  /\ verdict \in {None, "passed", "failed", "crashed", "nc"}
  /\ Len(recs) = Len(procs)
  /\ \A i \in DOMAIN recs :
       /\ recs[i].kind \in {"run", "class", "remote"} /\ recs[i].results \subseteq Results
       /\ recs[i].status \in {"NONE", "RUNNING", "PAUSED", "ENDED", "ABORTED", "CANCELED", "TIMEOUT"}
       /\ procs[i].state \in {"none", "forked", "stray", "idle", "running", "sent", "zombie", "reaped"}
       /\ procs[i].stopped \in {"no", "timed", "stopped"}
  /\ \A w \in DOMAIN walks : walks[w].wait = 0 \/ walks[w].wait \in DOMAIN recs

Init ==
  /\ pc = "top" /\ begun = FALSE /\ lines = 0 /\ msg = None /\ flags = {} /\ complete = None
  /\ remotes = 0 /\ recs = <<>> /\ procs = <<>> /\ queue = <<>> /\ asked = <<>> /\ abroad = {} /\ cases = 0
  /\ walks = [w \in {"main", "handler"} |-> [at |-> 1, wait |-> 0]]
  /\ alarm = "off" /\ verdict = None

Record(kind, id, expect, status) ==
  [kind |-> kind, id |-> id, expect |-> expect, status |-> status, results |-> {}, crashed |-> FALSE]
Process(state) == [state |-> state, usr2 |-> FALSE, stopped |-> "no", outcomes |-> {}]

WithId(id) == {i \in DOMAIN recs : recs[i].id = id}
FirstOf(is) == CHOOSE i \in is : \A j \in is : i <= j
Classes == {i \in DOMAIN recs : recs[i].kind = "class"}
Exists(i) == procs[i].state \notin {"none", "reaped"}

----------------------------------------------------------------------------
(* kill (pid, SIGUSR2) and waitpid (pid) of a record.  The process id of a *)
(* remote record is 0: the signal goes to the whole process group, and any *)
(* child is waited for.                                                    *)
Addressed(i) == IF recs[i].kind = "remote" THEN {j \in DOMAIN procs : Exists(j)}
                ELSE {j \in {i} : Exists(j)}
Told(i) == [j \in DOMAIN procs |-> IF j \in Addressed(i) THEN [procs[j] EXCEPT !.usr2 = TRUE]
                                   ELSE procs[j]]

Waited(i) ==
  IF Addressed(i) = {} THEN procs' = procs
  ELSE \E j \in Addressed(i) : /\ procs[j].state = "zombie"
                               /\ procs' = [procs EXCEPT ![j].state = "reaped"]

(* The loop over the RUNNING records, of canceliferror in the main loop    *)
(* and of the SIGALRM handler: each one gets the new status, SIGUSR2 is    *)
(* sent, and its process is waited for.                                    *)
RunningFrom(w) == {i \in DOMAIN recs : i >= walks[w].at /\ recs[i].status = "RUNNING"}

EndNext(w, status) ==
  /\ walks[w].wait = 0 /\ RunningFrom(w) # {}
  /\ LET i == FirstOf(RunningFrom(w)) IN
       /\ recs' = [recs EXCEPT ![i].status = status]
       /\ procs' = Told(i)
       /\ walks' = [walks EXCEPT ![w] = [at |-> i + 1, wait |-> i]]

(* Deviation: the process is not waited for.                               *)
EndedNoWait(w) ==
  /\ walks[w].wait # 0 /\ UNCHANGED procs
  /\ walks' = [walks EXCEPT ![w].wait = 0]

Ended(w) ==
  /\ walks[w].wait # 0 /\ Waited(walks[w].wait)
  /\ walks' = [walks EXCEPT ![w].wait = 0]

NoneLeft(w) ==
  /\ walks[w].wait = 0 /\ RunningFrom(w) = {}
  /\ walks' = [walks EXCEPT ![w].at = 1]

----------------------------------------------------------------------------
(* scripter_sigalrm_handler: the main loop stands still while it runs.     *)
AlarmRings ==
  /\ alarm = "armed" /\ pc # "done"
  /\ alarm' = "handler"
  /\ UNCHANGED <<main, recs, walks, procs, queue, world, verdict>>

HandlerStep ==
  /\ alarm = "handler"
  /\ \/ EndNext("handler", "TIMEOUT") /\ UNCHANGED alarm
     \/ Ended("handler") /\ UNCHANGED <<recs, alarm>>
     \/ NoneLeft("handler") /\ alarm' = "off" /\ UNCHANGED <<recs, procs>>
  /\ UNCHANGED <<main, queue, world, verdict>>

----------------------------------------------------------------------------
(* The top of the main loop, and uengine_read_message: when the script has *)
(* finished the read blocks until there is a message.                      *)
At(where) == pc = where /\ alarm # "handler"
Goes(where) == pc' = where
Is(flag) == flag \in flags

Pending ==
  \/ \E i \in DOMAIN recs : recs[i].status \in {"RUNNING", "PAUSED"}
  \/ Is("tclass_exec") \/ remotes > 0

Loop ==
  /\ At("top") /\ (~Is("finished") \/ Pending)
  /\ Goes(IF queue # <<>> \/ Is("finished") THEN "read" ELSE "script")
  /\ UNCHANGED <<begun, lines, msg, flags, complete, remotes, recs, walks, alarm, procs, queue,
                 world, verdict>>

Read ==
  /\ At("read") /\ queue # <<>>
  /\ msg' = Head(queue) /\ queue' = Tail(queue) /\ Goes("handle")
  /\ UNCHANGED <<begun, lines, flags, complete, remotes, recs, walks, alarm, procs, world, verdict>>

(* Deviation: the first test case that ends completes its testid.          *)
StillOpenNone(id, ended) == {i \in WithId(id) : recs[i].status # "ENDED" /\ ended = 0}

(* test_complete, for a testid that is known.                              *)
StillOpen(id, ended) == {i \in WithId(id) : recs[i].status # "ENDED" /\ i # ended}

(* uengine_handle_ret for a test case of this host: up to the waitpid.     *)
HandleRet ==
  /\ At("handle") /\ msg.kind = "ret" /\ recs[msg.from].kind = "run"
  /\ LET i == msg.from IN
       /\ complete' = IF complete = recs[i].id /\ StillOpen(complete, i) = {} THEN None ELSE complete
       /\ recs' = [recs EXCEPT ![i].status = "ENDED"]
       /\ procs' = Told(i)
  /\ Goes("reap")
  /\ UNCHANGED <<begun, lines, msg, flags, remotes, walks, alarm, queue, world, verdict>>

(* What a test function gave and what was expected of it; the result the   *)
(* scripter keeps of it.                                                   *)
Outcome(i, result) == [result |-> result, expect |-> recs[i].expect]
Judged(outcome) == IF outcome.result = outcome.expect THEN "passed" ELSE outcome.result

(* The result, and canceliferror.                                          *)
HandleRetEnds ==
  /\ At("reap") /\ Waited(msg.from)
  /\ LET i == msg.from
         cancels == msg.result = "failed" /\ Is("canceliferror") IN
       /\ recs' = [recs EXCEPT ![i].results = @ \cup {Judged(Outcome(i, msg.result))},
                               ![i].status = IF cancels THEN "CANCELED" ELSE @]
       /\ flags' = IF cancels THEN flags \cup {"finished"} ELSE flags
       /\ Goes(IF cancels THEN "cancel" ELSE "script")
  /\ msg' = None
  /\ UNCHANGED <<begun, lines, complete, remotes, walks, alarm, queue, world, verdict>>

CancelStep ==
  /\ At("cancel")
  /\ \/ EndNext("main", "CANCELED") /\ UNCHANGED pc
     \/ Ended("main") /\ UNCHANGED <<recs, pc>>
     \/ NoneLeft("main") /\ Goes("script") /\ UNCHANGED <<recs, procs>>
  /\ UNCHANGED <<begun, lines, msg, flags, complete, remotes, alarm, queue, world, verdict>>

(* uengine_handle_ret for a method call.                                   *)
HandleCallRet ==
  /\ At("handle") /\ msg.kind = "ret" /\ recs[msg.from].kind = "class"
  /\ recs' = [recs EXCEPT ![msg.from].results = @ \cup {Judged(Outcome(msg.from, msg.result))},
                          ![msg.from].crashed = @ \/ msg.result = "crashed"]
  /\ flags' = flags \ {"tclass_exec"}
  /\ Goes("script")
  /\ msg' = None
  /\ UNCHANGED <<begun, lines, complete, remotes, walks, alarm, procs, queue, world, verdict>>

(* Deviation: the slave's case is not counted.                             *)
OneMoreUncounted == remotes

OneMore == remotes + 1

(* uengine_handle_extif_response, uengine_handle_sndrcv and                *)
(* uengine_handle_event_ind.                                               *)
HandleAnswer ==
  /\ At("handle") /\ msg.kind \in {"extif", "event"}
  /\ flags' = (flags \ {msg.kind}) \cup IF msg.ok THEN {} ELSE {"error"}
  /\ IF msg.ok /\ msg.case # 0
     THEN /\ remotes' = OneMore
          /\ recs' = Append(recs, Record("remote", msg.case, "passed", "RUNNING"))
          /\ procs' = Append(procs, Process("none"))
     ELSE UNCHANGED <<remotes, recs, procs>>
  /\ Goes("script")
  /\ msg' = None
  /\ UNCHANGED <<begun, lines, complete, walks, alarm, queue, world, verdict>>

(* uengine_handle_extif_remote_response                                    *)
HandleReady ==
  /\ At("handle") /\ msg.kind = "ready"
  /\ remotes' = remotes - 1
  /\ IF WithId(msg.case) = {} THEN flags' = flags \cup {"error"} /\ UNCHANGED recs
     ELSE LET i == FirstOf(WithId(msg.case)) IN
          /\ recs' = [recs EXCEPT ![i].status = "ENDED", ![i].results = @ \cup {msg.result}]
          /\ UNCHANGED flags
  /\ Goes("script")
  /\ msg' = None
  /\ UNCHANGED <<begun, lines, complete, walks, alarm, procs, queue, world, verdict>>

----------------------------------------------------------------------------
(* _execute_script and interpreter_next: one command of the script.        *)
ExecuteScript == Is("error") \/ (flags \subseteq {"canceliferror", "notimeout"} /\ complete = None)

(* No command can be executed.                                             *)
Polls ==
  /\ At("script") /\ ~ExecuteScript
  /\ Goes("top")
  /\ UNCHANGED <<begun, lines, msg, flags, complete, remotes, recs, walks, alarm, procs, queue,
                 world, verdict>>

(* Deviation: the time-out is for the answers of slaves only.              *)
BlockingTimeoutOfSlaves ==
  /\ At("script") /\ ~Is("error") /\ Is("extif") /\ ~Is("notimeout")
  /\ flags' = flags \cup {"error"}
  /\ Goes("top")
  /\ UNCHANGED <<begun, lines, msg, complete, remotes, recs, walks, alarm, procs, queue, world, verdict>>

(* A blocking command has waited too long; after blocktimeout 0 it never   *)
(* has.                                                                    *)
BlockingTimeout ==
  /\ At("script") /\ ~Is("error") /\ flags \cap {"extif", "event"} # {} /\ ~Is("notimeout")
  /\ flags' = flags \cup {"error"}
  /\ Goes("top")
  /\ UNCHANGED <<begun, lines, msg, complete, remotes, recs, walks, alarm, procs, queue, world, verdict>>

Interprets(started) ==
  /\ At("script") /\ ExecuteScript /\ begun = started
  /\ Goes("top") /\ UNCHANGED <<msg, remotes, walks, queue, abroad, cases, verdict>>

StartPiece ==
  /\ Interprets(FALSE) /\ begun' = TRUE
  /\ UNCHANGED <<lines, flags, complete, recs, alarm, procs, asked>>

EndPiece ==
  /\ Interprets(TRUE) /\ begun' = FALSE /\ flags' = flags \cup {"finished"}
  /\ UNCHANGED <<lines, complete, recs, alarm, procs, asked>>

Does(command) ==
  /\ command \in Commands /\ lines < MaxLines /\ lines' = lines + 1
  /\ Interprets(TRUE) /\ UNCHANGED begun

(* test_run.  The room for a remote record is kept free.                   *)
Room == Len(recs) + Len(asked) + Cardinality({i \in DOMAIN queue : queue[i].kind = "extif"}) < MaxRecords

Run(id, expect) ==
  /\ Does("run") /\ Room
  /\ recs' = Append(recs, Record("run", id, expect, "RUNNING"))
  /\ procs' = Append(procs, Process("forked"))
  /\ complete' = None
  /\ UNCHANGED <<flags, alarm, asked>>

Complete(id) ==
  /\ Does("complete")
  /\ IF WithId(id) = {} THEN flags' = flags \cup {"error"} /\ UNCHANGED complete
     ELSE /\ complete' = IF StillOpen(id, 0) = {} THEN complete ELSE id
          /\ UNCHANGED flags
  /\ UNCHANGED <<recs, alarm, procs, asked>>

(* test_pause, test_resume, test_cancel: of the first test case of an id.  *)
OnTest(command, id, statuses, status, process) ==
  /\ Does(command)
  /\ IF WithId(id) = {} THEN flags' = flags \cup {"error"} /\ UNCHANGED <<recs, procs>>
     ELSE LET i == FirstOf(WithId(id)) IN
          IF recs[i].status \notin statuses THEN UNCHANGED <<flags, recs, procs>>
          ELSE IF ~Exists(i) THEN flags' = flags \cup {"error"} /\ UNCHANGED <<recs, procs>>
          ELSE /\ recs' = [recs EXCEPT ![i].status = status]
               /\ procs' = [procs EXCEPT ![i] = process]
               /\ UNCHANGED flags
  /\ UNCHANGED <<complete, alarm, asked>>

(* SIGTSTP stops the process until SIGCONT; for a time only where its      *)
(* handler has been installed.                                             *)
ProcessOf(id) == procs[FirstOf(WithId(id))]
Handles(process) == process.state \in {"running", "sent"}
Unready(process) == process.state \in {"forked", "stray"}

Pause(id, how) ==
  OnTest("pause", id, {"RUNNING"}, "PAUSED",
         IF Handles(ProcessOf(id)) \/ (Unready(ProcessOf(id)) /\ how = "stopped")
         THEN [ProcessOf(id) EXCEPT !.stopped = how] ELSE ProcessOf(id))

Resume(id) ==
  OnTest("resume", id, {"PAUSED"}, "RUNNING",
         IF ProcessOf(id).stopped = "stopped" THEN [ProcessOf(id) EXCEPT !.stopped = "no"]
         ELSE ProcessOf(id))

Cancel(id) ==
  OnTest("cancel", id, {recs[i].status : i \in DOMAIN recs}, "ABORTED",
         [ProcessOf(id) EXCEPT !.state = "zombie", !.stopped = "no"])

CancelIfError ==
  /\ Does("canceliferror")
  /\ flags' = flags \cup {"canceliferror"}
  /\ UNCHANGED <<complete, recs, alarm, procs, asked>>

(* set_block_timeout                                                       *)
BlockTimeout(off) ==
  /\ Does("blocktimeout")
  /\ flags' = (flags \ {"notimeout"}) \cup IF off THEN {"notimeout"} ELSE {}
  /\ UNCHANGED <<complete, recs, alarm, procs, asked>>

Timeout ==
  /\ Does("timeout") /\ alarm' = "armed"
  /\ UNCHANGED <<flags, complete, recs, procs, asked>>

(* testclass_create, testclass_call_function, testclass_destroy, in the    *)
(* order in which a valid script has them.                                 *)
Create ==
  /\ Does("create") /\ Classes = {} /\ Room
  /\ recs' = Append(recs, Record("class", None, "passed", "NONE"))
  /\ procs' = Append(procs, Process("forked"))
  /\ UNCHANGED <<flags, complete, alarm, asked>>

Call(expect) ==
  /\ Does("call")
  /\ \E i \in Classes :
       /\ recs[i].status = "NONE"
       /\ IF recs[i].crashed THEN UNCHANGED <<flags, recs, procs>>
          ELSE /\ recs' = [recs EXCEPT ![i].expect = expect]
               /\ flags' = flags \cup {"tclass_exec"}
               /\ procs' = IF procs[i].state = "idle" THEN [procs EXCEPT ![i].state = "running"] ELSE procs
  /\ UNCHANGED <<complete, alarm, asked>>

Delete ==
  /\ Does("delete")
  /\ \E i \in Classes :
       /\ recs[i].status = "NONE"
       /\ recs' = [recs EXCEPT ![i].status = "ENDED"]
       /\ procs' = IF recs[i].crashed THEN procs ELSE Told(i)
  /\ UNCHANGED <<flags, complete, alarm, asked>>

(* Commands that block until the engine has answered: of slaves (allocate, *)
(* free, expect), of events, and the run on a slave.                       *)
Ask(command, flag) ==
  /\ Does(command) /\ Room
  /\ flags' = flags \cup {flag} /\ asked' = Append(asked, command)
  /\ UNCHANGED <<complete, recs, alarm, procs>>

Command ==
  \/ \E id \in Ids, expect \in Expected : Run(id, expect)
  \/ \E id \in Ids : Complete(id) \/ Resume(id) \/ Cancel(id)
  \/ \E id \in Ids, how \in {"timed", "stopped"} : Pause(id, how)
  \/ CancelIfError
  \/ \E off \in BOOLEAN : BlockTimeout(off)
  \/ Timeout
  \/ Create
  \/ \E expect \in Expected : Call(expect)
  \/ Delete
  \/ Ask("allocate", "extif")
  \/ Ask("wait", "event")
  \/ Ask("remote", "extif")

----------------------------------------------------------------------------
(* Deviation: a test case that timed out does not count.                   *)
FailingInTime(i) ==
  \/ recs[i].status \in {"NONE", "RUNNING", "PAUSED"}
  \/ recs[i].status \in {"ENDED", "ABORTED"} /\ recs[i].results \cap {"failed", "crashed"} # {}

(* scripter_final_verdict                                                  *)
Failing(i) ==
  \/ recs[i].status \in {"NONE", "RUNNING", "PAUSED", "TIMEOUT"}
  \/ recs[i].status \in {"ENDED", "ABORTED"} /\ recs[i].results \cap {"failed", "crashed"} # {}

FinalVerdict ==
  IF Is("error") THEN "crashed"
  ELSE IF \E i \in DOMAIN recs : recs[i].status = "CANCELED" THEN "nc"
  ELSE IF \E i \in DOMAIN recs : Failing(i) THEN "failed"
  ELSE "passed"

Finish ==
  /\ At("top") /\ Is("finished") /\ ~Pending
  /\ verdict' = FinalVerdict /\ Goes("done")
  /\ UNCHANGED <<begun, lines, msg, flags, complete, remotes, recs, walks, alarm, procs, queue, world>>

MainStep ==
  \/ Loop \/ Read \/ Finish
  \/ HandleRet \/ HandleRetEnds \/ CancelStep \/ HandleCallRet \/ HandleAnswer \/ HandleReady
  \/ Polls \/ BlockingTimeout \/ StartPiece \/ EndPiece \/ Command

----------------------------------------------------------------------------
(* The test processes: run_case_fun_ or a test method, MSG_RET, and the    *)
(* end that SIGUSR2 allows.                                                *)
Stepping(i) == procs[i].stopped = "no" /\ UNCHANGED <<main, recs, walks, alarm, world, verdict>>
Reports(i, result) ==
  queue' = IF pc = "done" THEN queue
           ELSE Append(queue, [kind |-> "ret", from |-> i, result |-> result])

(* The child has come to its signal (SIGUSR2, ...): what was sent before   *)
(* has met the handler it was forked with, and is lost.  A method call     *)
(* waits in the queue.                                                     *)
TestBegins(i) ==
  /\ procs[i].state = "forked" /\ Stepping(i)
  /\ procs' = [procs EXCEPT ![i].state = IF recs[i].kind = "run" \/ Is("tclass_exec") THEN "running" ELSE "idle",
                            ![i].usr2 = FALSE]
  /\ UNCHANGED queue

(* Its library cannot be opened: the child of run goes on as a second      *)
(* scripter, and the process of a class knows no class to call.            *)
LibraryFails(i) ==
  /\ procs[i].state = "forked" /\ Stepping(i)
  /\ procs' = [procs EXCEPT ![i].state = "stray", ![i].usr2 = FALSE]
  /\ UNCHANGED queue

TestEnds(i) ==
  /\ procs[i].state = "running" /\ Stepping(i)
  /\ \E result \in {"passed", "failed"} :
       /\ procs' = [procs EXCEPT ![i].state = IF recs[i].kind = "class" THEN "idle" ELSE "sent",
                                 ![i].outcomes = @ \cup {Outcome(i, result)}]
       /\ Reports(i, result)

TestCrashes(i) ==
  /\ procs[i].state = "running" /\ Stepping(i)
  /\ procs' = [procs EXCEPT ![i].state = "zombie", ![i].outcomes = @ \cup {Outcome(i, "crashed")}]
  /\ Reports(i, "crashed")

(* It calls exit, or gets a signal that is not handled, and sends nothing. *)
TestDies(i) ==
  /\ procs[i].state \in {"forked", "stray", "running"} /\ Stepping(i)
  /\ procs' = [procs EXCEPT ![i].state = "zombie"]
  /\ UNCHANGED queue

ProcessExits(i) ==
  /\ \/ procs[i].state \in {"sent", "idle"}
     \/ procs[i].state = "stray" /\ recs[i].kind = "class"
  /\ procs[i].usr2 /\ Stepping(i)
  /\ procs' = [procs EXCEPT ![i].state = "zombie"]
  /\ UNCHANGED queue

PauseEnds(i) ==
  /\ procs[i].stopped = "timed"
  /\ procs' = [procs EXCEPT ![i].stopped = "no"]
  /\ UNCHANGED <<main, recs, walks, alarm, queue, world, verdict>>

(* The engine and a slave, which numbers the cases as it gets them.        *)
Answer ==
  /\ asked # <<>>
  /\ asked' = Tail(asked)
  /\ \E ok \in BOOLEAN :
       LET kind == IF Head(asked) = "wait" THEN "event" ELSE "extif"
           case == IF ok /\ Head(asked) = "remote" THEN cases + 1 ELSE 0 IN
       /\ queue' = Append(queue, [kind |-> kind, ok |-> ok, case |-> case])
       /\ IF case # 0 THEN abroad' = abroad \cup {case} /\ cases' = case
          ELSE UNCHANGED <<abroad, cases>>
  /\ UNCHANGED <<main, recs, walks, alarm, procs, verdict>>

SlaveReady ==
  /\ \E case \in abroad, result \in {"passed", "failed"} :
       /\ abroad' = abroad \ {case}
       /\ queue' = Append(queue, [kind |-> "ready", case |-> case, result |-> result])
  /\ UNCHANGED <<main, recs, walks, alarm, procs, asked, cases, verdict>>

TestStep(i) == TestBegins(i) \/ TestEnds(i) \/ TestCrashes(i) \/ ProcessExits(i) \/ PauseEnds(i)

Next ==
  \/ MainStep
  \/ AlarmRings
  \/ HandlerStep
  \/ \E i \in DOMAIN procs : TestStep(i) \/ LibraryFails(i) \/ TestDies(i)
  \/ Answer
  \/ SlaveReady

Spec == Init /\ [][Next]_vars

(* Test functions come to an end, paused ones wake up, slaves report; the  *)
(* engine may leave a command without an answer.  The main loop polls, so  *)
(* a blocking command is found to have waited too long in the end.         *)
FairSpec ==
  /\ Spec /\ WF_vars(MainStep) /\ WF_vars(HandlerStep) /\ WF_vars(SlaveReady)
  /\ SF_vars(BlockingTimeout)
  /\ \A i \in 1..MaxRecords : WF_vars(i \in DOMAIN procs /\ TestStep(i))

----------------------------------------------------------------------------
(* A script goes on after complete only when every test case with that     *)
(* testid has ended: the scripter must not take the first one for all.     *)
CompleteWaits ==
  [][complete # None /\ complete' = None =>
       Is("error") \/ \A i \in WithId(complete) : recs'[i].status = "ENDED"]_vars

(* When the scripter returns, no test case it has started is still         *)
(* executed on this host; nor on a slave, unless the script was cut short. *)
NoTestLeft ==
  pc = "done" =>
    /\ \A i \in DOMAIN recs : recs[i].kind = "run" => procs[i].state \in {"zombie", "reaped"}
    /\ verdict \in {"passed", "failed"} => abroad = {}

(* The verdict is the one the test functions deserve, in whatever order    *)
(* results, the alarm and cancellations come.  A scripted test case passes *)
(* only if no test case or method it started, but for those it cancelled   *)
(* itself, gave a result other than passed or the expected one; a result   *)
(* of passed will do whatever was expected.  It is not completed only      *)
(* because one of them failed, and it fails only for a result like that,   *)
(* of a test function or of a slave, for one that timed out, or for a      *)
(* class that was not deleted.                                             *)
Met(i) == \A o \in procs[i].outcomes : o.result \in {"passed", o.expect}
TrueVerdict ==
  /\ verdict = "passed" => \A i \in DOMAIN recs : recs[i].status # "ABORTED" => Met(i)
  /\ verdict = "nc" => \E i \in DOMAIN recs : \E o \in procs[i].outcomes : o.result = "failed"
  /\ verdict = "failed" =>
       \E i \in DOMAIN recs : \/ recs[i].status \in {"NONE", "TIMEOUT"} \/ ~Met(i)
                               \/ (recs[i].kind = "remote" /\ "failed" \in recs[i].results)

(* What keeps a script from its end for ever: a test case that is left     *)
(* paused; one that cannot report any more (it died without a word, or its *)
(* library could not be opened) while it counts as running, complete waits *)
(* for it, or the scripter was reading when its time was up; complete of a *)
(* test case that was cancelled; a method of a class whose process is gone *)
(* or has no library; the end of a process that has lost its SIGUSR2, or   *)
(* has no library; an engine that does not answer when the time-out is     *)
(* switched off.                                                           *)
Paused == \E i \in DOMAIN procs : procs[i].stopped = "stopped"
Silent(i) == recs[i].kind = "run" /\ procs[i].outcomes = {} /\ procs[i].state \in {"stray", "zombie", "reaped"}
Stays(i) == procs[i].state = "stray" \/ (procs[i].state \in {"sent", "idle"} /\ ~procs[i].usr2)
Hopeless ==
  \/ \E i \in DOMAIN recs :
       /\ Silent(i)
       /\ \/ recs[i].status \in {"RUNNING", "PAUSED"} \/ complete = recs[i].id
          \/ recs[i].status = "TIMEOUT" /\ pc = "read" /\ queue = <<>>
  \/ complete # None /\ \E i \in WithId(complete) : recs[i].status \in {"ABORTED", "CANCELED"}
  \/ Is("tclass_exec") /\ \E i \in Classes : procs[i].state \in {"stray", "zombie", "reaped"}
  \/ \E w \in DOMAIN walks : walks[w].wait # 0 /\ \A i \in Addressed(walks[w].wait) : Stays(i)
  \/ Is("notimeout") /\ flags \cap {"extif", "event"} # {}

(* Every script comes to its end, whatever the engine leaves unanswered,   *)
(* or is caught for good by one of these.                                  *)
ScriptEnds == <>(pc = "done") \/ <>[](Paused \/ Hopeless)

(* While a test case is paused the script goes on, as the manual's page on *)
(* pause says: the scripter comes back from every wait for the end of a    *)
(* test process, though a script may have stopped that process.            *)
ScripterGoesOn == pc = "reap" ~> pc # "reap"
=============================================================================
