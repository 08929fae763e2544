---------------------------- MODULE SlaveEngine ----------------------------
(***************************************************************************)
(* How the engine of a slave executes the "remote run" commands of its     *)
(* master: three threads share run_queue, selected_cases and the lists of  *)
(* the test framework interface (engine/tec/tec_tcp_handling.c,            *)
(* tec_rcp_handling.c, mintfwif/mintfwif.c).                               *)
(*                                                                         *)
(*   - the socket thread takes a command, queues it, starts the run thread *)
(*     if it believes there is none, and waits for selected_cases to grow; *)
(*   - the run thread takes the first run of the queue unless it has been  *)
(*     started already, loads its module, starts the case, and polls for   *)
(*     its runtime id;                                                     *)
(*   - the listener thread, through the pl_ callbacks, notes that a module *)
(*     is ready or a case has started, and reports its result.             *)
(*                                                                         *)
(* A run is named by the place of its case in selected_cases; run_id_ is   *)
(* 0 until the run thread has it, and Failed when there is none.  What the *)
(* test modules do in between is TestEngine's matter.  A message queue     *)
(* that fails is left out, and so are the commands that run nothing.       *)
(***************************************************************************)
EXTENDS Integers, Sequences, FiniteSets

CONSTANTS
  Here,        \* cases whose module loads and contains them
  Refused,     \* cases whose module is not found or does not contain them
  Silent,      \* cases whose module never gets ready
  MaxRuns,     \* bound: commands of the master
  ShortCases,  \* a case may end before the other threads have seen it start
  Hasty        \* a command may come while the last case is being started

Case == Here \cup Refused \cup Silent

ASSUME SlaveEngineAssumption ==
  /\ Here \cap (Refused \cup Silent) = {} /\ Refused \cap Silent = {}
  /\ MaxRuns \in Nat \ {0} /\ {ShortCases, Hasty} \subseteq BOOLEAN

Failed == -1

VARIABLES
  sock,            \* the socket thread
  num_selected,    \* its copy of the size of selected_cases
  taken,           \* number of commands it has taken
  thread,          \* the run thread
  thread_running,  \* what it says of itself
  entry,           \* the number of the command it is at
  run_queue,       \* [cmd, case, id]: remote_run_params
  modules,         \* the cases in tfwif_modules_
  selected_cases,  \* the cases the engine has been asked to execute
  test_runs,       \* tfwif_test_runs_: [run, running]
  said,            \* what was put in the write queue of the master: [type, case]
  crashed          \* the process has touched memory it does not own

sockVars == <<sock, num_selected, taken>>
threadVars == <<thread, thread_running, entry>>
ifVars == <<modules, test_runs>>
vars == <<sockVars, threadVars, run_queue, ifVars, selected_cases, said, crashed>>

Param == [cmd : 1..MaxRuns, case : Case, id : {Failed} \cup 0..MaxRuns]

TypeOK ==
  /\ sock \in {"idle", "queued", "waiting"} /\ num_selected \in 0..MaxRuns
  /\ taken \in 0..MaxRuns /\ entry \in 0..MaxRuns
  /\ thread \in {"none", "born", "check", "find", "add", "exec", "poll", "next", "sleep", "leave"}
  /\ thread_running \in BOOLEAN /\ crashed \in BOOLEAN
  /\ run_queue \in Seq(Param) /\ modules \subseteq Case
  /\ selected_cases \in Seq(Case)
  /\ test_runs \in Seq([run : 1..MaxRuns, running : BOOLEAN])
  /\ said \in Seq([type : {"started", "ready"}, case : 1..MaxRuns])

Init ==
  /\ sock = "idle" /\ num_selected = 0 /\ taken = 0
  /\ thread = "none" /\ thread_running = FALSE /\ entry = 0
  /\ run_queue = <<>> /\ modules = {} /\ selected_cases = <<>> /\ test_runs = <<>>
  /\ said = <<>> /\ crashed = FALSE

----------------------------------------------------------------------------
(* The socket thread: handle_remote_run, tcp_remote_run.                   *)

Starting == thread \in {"find", "add", "exec", "poll", "next"}

TakeRun(c) ==
  /\ sock = "idle" /\ taken < MaxRuns
  /\ Hasty \/ ~Starting
  /\ num_selected' = Len(selected_cases)
  /\ taken' = taken + 1
  /\ run_queue' = Append(run_queue, [cmd |-> taken', case |-> c, id |-> 0])
  /\ sock' = "queued"
  /\ UNCHANGED <<threadVars, ifVars, selected_cases, said, crashed>>

(* thread_running is read without the lock.                                *)
StartThread ==
  /\ sock = "queued" /\ sock' = "waiting"
  /\ thread' = IF thread_running THEN thread ELSE "born"
  /\ UNCHANGED <<num_selected, taken, thread_running, entry, run_queue, ifVars,
                 selected_cases, said, crashed>>

Say(type, n) == said' = Append(said, [type |-> type, case |-> n])

(* Deviation: the number is taken before the case is selected.             *)
SayStartedOld ==
  /\ sock = "waiting" /\ Len(selected_cases) > num_selected
  /\ sock' = "idle"
  /\ Say("started", num_selected)
  /\ UNCHANGED <<num_selected, taken, threadVars, run_queue, ifVars, selected_cases, crashed>>

SayStarted ==
  /\ sock = "waiting" /\ Len(selected_cases) > num_selected
  /\ sock' = "idle"
  /\ Say("started", Len(selected_cases))
  /\ UNCHANGED <<num_selected, taken, threadVars, run_queue, ifVars, selected_cases, crashed>>

----------------------------------------------------------------------------
(* The run thread: remote_run_slave.                                       *)

Born ==
  /\ thread = "born" /\ thread' = "check" /\ thread_running' = TRUE
  /\ UNCHANGED <<sockVars, entry, run_queue, ifVars, selected_cases, said, crashed>>

(* The walk goes on to the entry at place k, unless there is none or it is *)
(* started.                                                                *)
WalkTo(k) ==
  IF k \in DOMAIN run_queue /\ run_queue[k].id = 0
  THEN thread' = "find" /\ entry' = run_queue[k].cmd
  ELSE thread' = "sleep" /\ entry' = 0

CheckQueue ==
  /\ thread = "check"
  /\ IF run_queue = <<>> THEN thread' = "leave" /\ UNCHANGED entry ELSE WalkTo(1)
  /\ UNCHANGED <<sockVars, thread_running, run_queue, ifVars, selected_cases, said, crashed>>

Sleep ==
  /\ thread = "sleep" /\ thread' = "check"
  /\ UNCHANGED <<sockVars, thread_running, entry, run_queue, ifVars, selected_cases, said, crashed>>

(* The queue is unlocked before thread_running is cleared.                 *)
Leave ==
  /\ thread = "leave" /\ thread' = "none" /\ thread_running' = FALSE
  /\ UNCHANGED <<sockVars, entry, run_queue, ifVars, selected_cases, said, crashed>>

CaseOf(n) == run_queue[CHOOSE k \in DOMAIN run_queue : run_queue[k].cmd = n].case

Note(id) ==
  /\ run_queue' = [k \in DOMAIN run_queue |->
                     IF run_queue[k].cmd = entry THEN [run_queue[k] EXCEPT !.id = id]
                     ELSE run_queue[k]]
  /\ thread' = "next"

(* min_if_case_find                                                        *)
FindCase ==
  /\ thread = "find"
  /\ thread' = IF CaseOf(entry) \in modules THEN "exec" ELSE "add"
  /\ UNCHANGED <<sockVars, thread_running, entry, run_queue, ifVars, selected_cases, said, crashed>>

(* min_if_module_add and the second search fail: min_if_remote_run returns *)
(* -1, which nobody looks at.                                              *)
AddFails ==
  /\ thread = "add" /\ CaseOf(entry) \in Refused
  /\ Note(Failed)
  /\ UNCHANGED <<sockVars, thread_running, entry, ifVars, selected_cases, said, crashed>>

(* min_if_exec_case, eapi_start_test_case, ec_select_case                  *)
ExecCase ==
  /\ thread = "exec" /\ thread' = "poll"
  /\ selected_cases' = Append(selected_cases, CaseOf(entry))
  /\ UNCHANGED <<sockVars, thread_running, entry, run_queue, ifVars, said, crashed>>

(* min_if_exec_case: the first test run of this case that is running.      *)
RunsOf(c) == {k \in DOMAIN test_runs :
                test_runs[k].running /\ selected_cases[test_runs[k].run] = c}

SeesRunning ==
  /\ thread = "poll"
  /\ \E k \in RunsOf(CaseOf(entry)) :
       /\ \A j \in RunsOf(CaseOf(entry)) : k <= j
       /\ Note(test_runs[k].run)
  /\ UNCHANGED <<sockVars, thread_running, entry, ifVars, selected_cases, said, crashed>>

(* The iterator points to freed memory if the listener has removed the     *)
(* entry in the meantime.                                                  *)
NextEntry ==
  /\ thread = "next"
  /\ \E k \in 1..(Len(run_queue) + 1) :
       /\ \A j \in DOMAIN run_queue : run_queue[j].cmd <= entry <=> j < k
       /\ WalkTo(k)
  /\ \/ UNCHANGED crashed
     \/ (\A k \in DOMAIN run_queue : run_queue[k].cmd # entry) /\ crashed' = TRUE
  /\ UNCHANGED <<sockVars, thread_running, run_queue, ifVars, selected_cases, said>>

RunThread == Born \/ CheckQueue \/ Sleep \/ Leave \/ FindCase \/ AddFails \/ ExecCase
             \/ SeesRunning \/ NextEntry

----------------------------------------------------------------------------
(* The listener thread.                                                    *)

(* pl_new_module, pl_new_case, pl_module_ready                             *)
ModuleReady ==
  /\ thread = "add" /\ CaseOf(entry) \in Here
  /\ modules' = modules \cup {CaseOf(entry)}
  /\ thread' = "exec"
  /\ UNCHANGED <<sockVars, thread_running, entry, run_queue, test_runs, selected_cases,
                 said, crashed>>

(* pl_case_started                                                         *)
CaseStarted(r) ==
  /\ r \in DOMAIN selected_cases
  /\ \A k \in DOMAIN test_runs : test_runs[k].run # r
  /\ test_runs' = Append(test_runs, [run |-> r, running |-> TRUE])
  /\ UNCHANGED <<sockVars, threadVars, run_queue, modules, selected_cases, said, crashed>>

(* The case goes on until the others have done with its start.             *)
Seen(r) ==
  /\ \E k \in DOMAIN said : said[k].type = "started" /\ said[k].case = r
  /\ \E k \in DOMAIN run_queue : run_queue[k].id = r
  /\ ~Starting

Ended(k) == test_runs' = [test_runs EXCEPT ![k].running = FALSE]

(* Deviation: the entry stays in the queue.                                *)
CaseEndsKept(k) ==
  /\ test_runs[k].running
  /\ ShortCases \/ Seen(test_runs[k].run)
  /\ Ended(k)
  /\ Say("ready", Len(selected_cases))
  /\ UNCHANGED <<sockVars, threadVars, run_queue, modules, selected_cases, crashed>>

(* pl_case_result, tcp_master_report: send_to_master puts the number of    *)
(* the last case, whatever the caller says; the first entry of the run is  *)
(* removed, and without one, INITPTR is freed.                             *)
EntriesOf(r) == {p \in DOMAIN run_queue : run_queue[p].id = r}

CaseEnds(k) ==
  /\ test_runs[k].running
  /\ ShortCases \/ Seen(test_runs[k].run)
  /\ Ended(k)
  /\ Say("ready", Len(selected_cases))
  /\ \/ \E p \in EntriesOf(test_runs[k].run) :
          /\ \A q \in EntriesOf(test_runs[k].run) : p <= q
          /\ run_queue' = SubSeq(run_queue, 1, p - 1) \o SubSeq(run_queue, p + 1, Len(run_queue))
          /\ UNCHANGED crashed
     \/ EntriesOf(test_runs[k].run) = {} /\ crashed' = TRUE /\ UNCHANGED run_queue
  /\ UNCHANGED <<sockVars, threadVars, modules, selected_cases>>

----------------------------------------------------------------------------
SocketThread == StartThread \/ SayStarted

Listener ==
  \/ ModuleReady
  \/ \E r \in DOMAIN selected_cases : CaseStarted(r)
  \/ \E k \in DOMAIN test_runs : CaseEnds(k)

Next ==
  /\ ~crashed
  /\ (\E c \in Case : TakeRun(c)) \/ SocketThread \/ RunThread \/ Listener

Spec == Init /\ [][Next]_vars

(* The threads run, modules answer and cases end; no run has to be asked   *)
(* for.                                                                    *)
Fairness ==
  /\ WF_vars(~crashed /\ SocketThread)
  /\ WF_vars(~crashed /\ RunThread)
  /\ WF_vars(~crashed /\ Listener)

FairSpec == Spec /\ Fairness

----------------------------------------------------------------------------
(* The socket thread waits for a case nobody will start: the run thread    *)
(* has left, having found the queue empty just before the run came; or the *)
(* case is not there, and its run stays at the head of the queue; or its   *)
(* module never gets ready.                                                *)
Deaf ==
  /\ sock = "waiting" /\ Len(selected_cases) = num_selected
  /\ \/ thread = "none"
     \/ \E k \in DOMAIN run_queue : run_queue[k].id = Failed
     \/ thread = "add" /\ CaseOf(entry) \in Silent

Told(type) == Cardinality({k \in DOMAIN said : said[k].type = type})

(* The slave is what the pool of its master takes it for (SlaveSession):   *)
(* every run is told "started" and "ready" with its own number, in this    *)
(* order and before the next is started, whatever run thread is there, or  *)
(* the slave is deaf.                                                      *)
Session == INSTANCE SlaveSession WITH
  asked <- taken, cases <- Told("started"), busy <- Told("ready") < Told("started"),
  deaf <- Deaf, said <- said

ImplementsSession == Session!Spec

(* "INTERNAL ERROR" (tcp_master_report): a result always finds the entry   *)
(* of its run in run_queue.                                                *)
ResultHasRun == ~crashed
============================================================================
