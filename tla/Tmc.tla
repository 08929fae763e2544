-------------------------------- MODULE Tmc --------------------------------
(***************************************************************************)
(* One test module controller (src/min/src/tmc): its main loop, the        *)
(* SIGCHLD handler that interrupts it between any two instructions, the    *)
(* test processes (TP) it forks, and as much of the engine as sends it     *)
(* messages.                                                               *)
(*                                                                         *)
(* The main loop and the handler share ptmc->tpc_ (pid, status),           *)
(* ptmc->send_ret_ and globaltcr without any masking, so a step of Main is *)
(* one access to these or one system call.  The handler runs with every    *)
(* signal masked (sl_set_sighandler) and is one step.  Test timeouts are   *)
(* left out: gu_handle_exe sets every timeout to 0, which disables them.   *)
(*                                                                         *)
(* Test processes are numbered by the MSG_EXE that asked for them; process *)
(* ids are not reused.  0 is the pid field's "no process", and also what   *)
(* kill() and killpg() take for the caller's own process group, to which   *)
(* the engine belongs too.                                                 *)
(***************************************************************************)
EXTENDS Naturals, Sequences, FiniteSets

CONSTANTS
  MaxRuns,        \* bound: how many MSG_EXE the engine sends
  QueueBound,     \* bound: the engine sends only into a shorter queue
  Commands,       \* what the user may ask for besides executing
  ForkMayFail,    \* whether fork() may fail
  SleepsSuffice   \* whether the sleeps in the code outlast what they wait for

ASSUME BoundsAssumption ==
  /\ MaxRuns \in Nat \ {0}
  /\ QueueBound \in Nat \ {0}
  /\ Commands \subseteq {"pause", "resume", "stop", "end"}
  /\ ForkMayFail \in BOOLEAN
  /\ SleepsSuffice \in BOOLEAN

Run == 1..MaxRuns
Pid == 0..MaxRuns
Result == {"none", "finished", "crashed", "aborted"}
Report == [run : Pid, res : Result]
Status == {"NONE", "RUNNING", "PAUSED", "ABORTED"}
Signal == {"USR2", "STOP", "CONT", "KILL"}
Message == [type : {"exe", "ret", "pause", "resume", "stop", "end"}, run : Pid, res : Result]
Outgoing == [type : {"runid", "ret"}, run : Pid, res : Result]

VARIABLES
  (* the engine *)
  phase,      \* what it believes: no case running, running, paused
  runs,       \* how many MSG_EXE it has sent
  ended,      \* whether it has sent MSG_END
  (* the message queue *)
  queue,      \* messages to the TMC
  outbox,     \* messages to the engine
  reports,    \* history: the MSG_RETs that were ever put there
  (* the TMC *)
  pc,         \* next instruction of the main loop
  cur,        \* the message being handled
  arg,        \* first argument of the kill() about to be made
  pid,        \* tpc_.tp_pid_
  status,     \* tpc_.tp_status_
  sendRet,    \* send_ret_
  tcr,        \* globaltcr, and the run it was last set for
  sigchld,    \* SIGCHLD is pending
  hit,        \* the signals the TMC has sent to its own process group
  (* the test processes *)
  tp,         \* where each one is
  stopped,    \* those under SIGSTOP
  usr2,       \* those that got SIGUSR2
  verdict     \* what each one reported to the TMC

engineVars == <<phase, runs, ended>>
tpcVars == <<pid, status, sendRet, tcr>>
mainVars == <<pc, cur, arg, hit>>
tpVars == <<tp, stopped, usr2, verdict, sigchld>>
vars == <<engineVars, queue, outbox, reports, tpcVars, mainVars, tpVars>>

TpState == {"none", "born", "running", "done", "crashed", "zombie", "reaped"}
Alive(i) == tp[i] \in {"born", "running", "done", "crashed"}
Unreaped == {i \in Run : tp[i] \notin {"none", "reaped"}}
Zombies == {i \in Run : tp[i] = "zombie"}
Forked == {i \in Run : tp[i] # "none"}

PC == {"loop", "clear", "peek", "sleep", "fork", "setpid", "runid", "setstatus",
       "ret", "ret2", "ret3", "pause", "pause2", "pause3", "pause4",
       "resume", "resume2", "resume3", "resume4",
       "abort", "abort2", "abort3", "abort4", "abort5", "end", "end2", "exited", "hit"}

TypeOK ==
  /\ phase \in {"idle", "running", "paused"}
  /\ runs \in Pid /\ ended \in BOOLEAN
  /\ queue \in Seq(Message) /\ outbox \in Seq(Outgoing) /\ reports \in Seq(Report)
  /\ pc \in PC /\ cur \in Message /\ arg \in Pid
  /\ pid \in Pid /\ status \in Status /\ sendRet \in BOOLEAN /\ tcr \in Report
  /\ sigchld \in BOOLEAN /\ hit \subseteq Signal
  /\ tp \in [Run -> TpState] /\ stopped \subseteq Run /\ usr2 \subseteq Run
  /\ verdict \in [Run -> Result]

Msg(type, run, res) == [type |-> type, run |-> run, res |-> res]

(* After gu_init_tmc has sent MSG_OK.                                      *)
Init ==
  /\ phase = "idle" /\ runs = 0 /\ ended = FALSE
  /\ queue = <<>> /\ outbox = <<>> /\ reports = <<>>
  /\ pc = "loop" /\ cur = Msg("end", 0, "none") /\ arg = 0
  /\ pid = 0 /\ status = "NONE" /\ sendRet = FALSE
  /\ tcr = [run |-> 0, res |-> "none"]
  /\ sigchld = FALSE /\ hit = {}
  /\ tp = [i \in Run |-> "none"] /\ stopped = {} /\ usr2 = {}
  /\ verdict = [i \in Run |-> "none"]

----------------------------------------------------------------------------
(* The engine: it executes a case when none is running, and passes on what *)
(* the user asks for while one is.                                         *)

Send(type, run) ==
  /\ ~ended /\ Len(queue) < QueueBound
  /\ queue' = Append(queue, Msg(type, run, "none"))
  /\ UNCHANGED <<outbox, reports, tpcVars, mainVars, tpVars>>

SendExe ==
  /\ phase = "idle" /\ runs < MaxRuns
  /\ phase' = "running" /\ runs' = runs + 1
  /\ Send("exe", runs + 1)
  /\ UNCHANGED ended

SendPause ==
  /\ "pause" \in Commands /\ phase = "running"
  /\ phase' = "paused"
  /\ Send("pause", runs)
  /\ UNCHANGED <<runs, ended>>

SendResume ==
  /\ "resume" \in Commands /\ phase = "paused"
  /\ phase' = "running"
  /\ Send("resume", runs)
  /\ UNCHANGED <<runs, ended>>

SendStop ==
  /\ "stop" \in Commands /\ phase # "idle"
  /\ Send("stop", runs)
  /\ UNCHANGED <<phase, runs, ended>>

SendEnd ==
  /\ "end" \in Commands
  /\ ended' = TRUE
  /\ Send("end", runs)
  /\ UNCHANGED <<phase, runs>>

(* Handling of MSG_RUN_ID and MSG_RET: the latter ends the run.            *)
Receive ==
  /\ outbox # <<>>
  /\ outbox' = Tail(outbox)
  /\ phase' = IF Head(outbox).type = "ret" THEN "idle" ELSE phase
  /\ UNCHANGED <<runs, ended, queue, reports, tpcVars, mainVars, tpVars>>

Engine == SendExe \/ SendPause \/ SendResume \/ SendStop \/ SendEnd \/ Receive

----------------------------------------------------------------------------
(* gu_run_tmc                                                              *)
At(here, next) == pc = here /\ pc' = next

Loop ==
  /\ pc = "loop"
  /\ \/ /\ sendRet
        /\ outbox' = Append(outbox, [type |-> "ret", run |-> tcr.run, res |-> tcr.res])
        /\ reports' = Append(reports, tcr)
        /\ pc' = "clear"
     \/ /\ ~sendRet
        /\ pc' = "peek"
        /\ UNCHANGED <<outbox, reports>>
  /\ UNCHANGED <<engineVars, queue, tpcVars, cur, arg, hit, tpVars>>

(* Deviation: the flag is not cleared.                                     *)
ClearForgotten ==
  /\ At("clear", "peek")
  /\ UNCHANGED <<engineVars, queue, outbox, reports, tpcVars, cur, arg, hit, tpVars>>

Clear ==
  /\ At("clear", "peek")
  /\ sendRet' = FALSE
  /\ UNCHANGED <<engineVars, queue, outbox, reports, pid, status, tcr, cur, arg, hit, tpVars>>

(* Deviation: no case for MSG_STOP.                                        *)
HandlerOfAllButStop(type) == IF type = "exe" THEN "fork" ELSE type

(* mq_peek_message, gu_read_message and the dispatch of gu_handle_message. *)
HandlerOf(type) == CASE type = "exe" -> "fork"
                     [] type = "stop" -> "abort"
                     [] OTHER -> type

(* Deviation: the result in a MSG_RET is not stored.                       *)
RecordedForRunOnly(m) == IF m.type = "exe" THEN [run |-> m.run, res |-> "none"] ELSE tcr

Recorded(m) == CASE m.type = "exe" -> [run |-> m.run, res |-> "none"]
                 [] m.type = "ret" -> [run |-> tcr.run, res |-> m.res]
                 [] OTHER -> tcr

Peek ==
  /\ pc = "peek"
  /\ \/ /\ queue = <<>>
        /\ pc' = "sleep"
        /\ UNCHANGED <<queue, cur, tcr>>
     \/ /\ queue # <<>>
        /\ cur' = Head(queue) /\ queue' = Tail(queue)
        /\ pc' = HandlerOf(cur'.type)
        /\ tcr' = Recorded(cur')
  /\ UNCHANGED <<engineVars, outbox, reports, pid, status, sendRet, arg, hit, tpVars>>

(* usleep (100000): long enough for a new TP to enter its own group.       *)
Sleep ==
  /\ At("sleep", "loop")
  /\ SleepsSuffice => \A i \in Run : tp[i] # "born"
  /\ UNCHANGED <<engineVars, queue, outbox, reports, tpcVars, cur, arg, hit, tpVars>>

(* gu_handle_exe                                                           *)
Fork ==
  /\ At("fork", "setpid")
  /\ tp' = [tp EXCEPT ![cur.run] = "born"]
  /\ UNCHANGED <<engineVars, queue, outbox, reports, tpcVars, cur, arg, hit, stopped, usr2, verdict, sigchld>>

(* The engine is not told.                                                 *)
ForkFails ==
  /\ ForkMayFail /\ At("fork", "sleep")
  /\ UNCHANGED <<engineVars, queue, outbox, reports, tpcVars, cur, arg, hit, tpVars>>

SetPid ==
  /\ At("setpid", "runid")
  /\ pid' = cur.run
  /\ UNCHANGED <<engineVars, queue, outbox, reports, status, sendRet, tcr, cur, arg, hit, tpVars>>

SendRunId ==
  /\ At("runid", "setstatus")
  /\ outbox' = Append(outbox, [type |-> "runid", run |-> cur.run, res |-> "none"])
  /\ UNCHANGED <<engineVars, queue, reports, tpcVars, cur, arg, hit, tpVars>>

SetStatus ==
  /\ At("setstatus", "sleep")
  /\ status' = "RUNNING"
  /\ UNCHANGED <<engineVars, queue, outbox, reports, pid, sendRet, tcr, cur, arg, hit, tpVars>>

(* Instructions that only test or load a shared field.                     *)
Test(here, cond, then, else) ==
  /\ pc = here
  /\ pc' = IF cond THEN then ELSE else
  /\ UNCHANGED <<engineVars, queue, outbox, reports, tpcVars, cur, arg, hit, tpVars>>

LoadPid(here, next) ==
  /\ At(here, next)
  /\ arg' = pid
  /\ UNCHANGED <<engineVars, queue, outbox, reports, tpcVars, cur, hit, tpVars>>

PutStatus(here, s, next) ==
  /\ At(here, next)
  /\ status' = s
  /\ UNCHANGED <<engineVars, queue, outbox, reports, pid, sendRet, tcr, cur, arg, hit, tpVars>>

(* A TP killed by SIGKILL is gone at once, stopped or not.                 *)
Signalled(i, sig) ==
  /\ tp' = IF sig = "KILL" /\ Alive(i) THEN [tp EXCEPT ![i] = "zombie"] ELSE tp
  /\ sigchld' = (sigchld \/ (sig = "KILL" /\ Alive(i)))
  /\ stopped' = CASE sig = "STOP" /\ Alive(i) -> stopped \cup {i}
                  [] sig \in {"CONT", "KILL"} -> stopped \ {i}
                  [] OTHER -> stopped
  /\ usr2' = IF sig = "USR2" THEN usr2 \cup {i} ELSE usr2
  /\ UNCHANGED verdict

(* kill (arg, sig), or killpg for SIGKILL.  It fails when the process is   *)
(* reaped, killpg also when the TP has not made its own group yet; a       *)
(* zombie still takes signals.  With arg = 0 the caller's group, engine    *)
(* included, gets the signal.                                              *)
Exists(i, sig) == tp[i] # "reaped" /\ (sig = "KILL" => tp[i] # "born")

Kill(here, sig, ok, failed, statusAfterFailure) ==
  /\ pc = here
  /\ \/ /\ arg = 0
        /\ hit' = hit \cup {sig} /\ pc' = "hit"
        /\ UNCHANGED <<status, tpVars>>
     \/ /\ arg # 0 /\ Exists(arg, sig)
        /\ Signalled(arg, sig) /\ pc' = ok
        /\ UNCHANGED <<status, hit>>
     \/ /\ arg # 0 /\ ~Exists(arg, sig)
        /\ pc' = failed /\ status' = statusAfterFailure
        /\ UNCHANGED <<hit, tpVars>>
  /\ UNCHANGED <<engineVars, queue, outbox, reports, pid, sendRet, tcr, cur, arg>>

(* MSG_RET: the field tp_pid_ is tested and then read again.               *)
HandleRet ==
  \/ Test("ret", pid # 0, "ret2", "sleep")
  \/ LoadPid("ret2", "ret3")
  \/ Kill("ret3", "USR2", "sleep", "sleep", status)

(* tp_pause                                                                *)
HandlePause ==
  \/ Test("pause", status = "RUNNING", "pause2", "sleep")
  \/ PutStatus("pause2", "PAUSED", "pause3")
  \/ LoadPid("pause3", "pause4")
  \/ Kill("pause4", "STOP", "sleep", "sleep", "RUNNING")

(* tp_resume: SIGCONT, sched_yield and only then the status.               *)
HandleResume ==
  \/ Test("resume", status = "PAUSED", "resume2", "sleep")
  \/ LoadPid("resume2", "resume3")
  \/ Kill("resume3", "CONT", "resume4", "sleep", status)
  \/ PutStatus("resume4", "RUNNING", "sleep")

(* tp_abort, called by gu_handle_stop and by gu_handle_end.                *)
AfterAbort == IF cur.type = "end" THEN "end2" ELSE "sleep"

Abort ==
  \/ Test("abort", pid # 0, "abort2", AfterAbort)
  \/ PutStatus("abort2", "ABORTED", "abort3")
  \/ LoadPid("abort3", "abort4")
  \/ Kill("abort4", "KILL", "abort5", AfterAbort, status)
  \/ PutStatus("abort5", "ABORTED", AfterAbort)

(* Deviation: only a running test process is killed.                       *)
HandleEndIfRunning ==
  \/ Test("end", status # "RUNNING", "exited", "abort")
  \/ PutStatus("end2", "NONE", "exited")

(* gu_handle_end                                                           *)
HandleEnd ==
  \/ Test("end", status = "NONE", "exited", "abort")
  \/ PutStatus("end2", "NONE", "exited")

Main ==
  \/ Loop \/ Clear \/ Peek \/ Sleep
  \/ Fork \/ ForkFails \/ SetPid \/ SendRunId \/ SetStatus
  \/ HandleRet \/ HandlePause \/ HandleResume \/ Abort \/ HandleEnd

----------------------------------------------------------------------------
(* Deviation: the handler returns early for an aborted process, too.       *)
IgnoresAborted == status \in {"PAUSED", "ABORTED"}

IgnoresSigchld == status = "PAUSED"

PidAfterReaping == IF Zombies = {} THEN pid ELSE 0

(* gu_handle_sigchld.  waitpid (-1) in a loop reaps every zombie and waits *)
(* for every other child, so the handler returns when none is left; the    *)
(* status it goes by is the one it found when it reaped the last of them.  *)
HandleSigchld ==
  /\ sigchld /\ pc \notin {"exited", "hit"}
  /\ sigchld' = FALSE
  /\ \/ /\ IgnoresSigchld
        /\ UNCHANGED <<tp, tpcVars>>
     \/ /\ ~IgnoresSigchld /\ Unreaped = Zombies
        /\ tp' = [i \in Run |-> IF i \in Zombies THEN "reaped" ELSE tp[i]]
        /\ pid' = PidAfterReaping
        /\ status' = IF Zombies = {} THEN status ELSE "NONE"
        /\ tcr' = IF status = "ABORTED" /\ Cardinality(Zombies) = 1
                  THEN [tcr EXCEPT !.res = "aborted"] ELSE tcr
        /\ sendRet' = TRUE
  /\ UNCHANGED <<engineVars, queue, outbox, reports, mainVars, stopped, usr2, verdict>>

----------------------------------------------------------------------------
(* A test process (gu_handle_exe's child, gu_create_tp).                   *)
Runnable(i) == i \notin stopped /\ pc # "hit"

TpUnchanged == UNCHANGED <<engineVars, outbox, reports, tpcVars, mainVars>>

(* setpgid; the 50 ms sleep that follows outlasts the parent's bookkeeping.*)
TpStart(i) ==
  /\ Runnable(i) /\ tp[i] = "born"
  /\ SleepsSuffice => pc \notin {"setpid", "runid", "setstatus"}
  /\ tp' = [tp EXCEPT ![i] = "running"]
  /\ UNCHANGED <<queue, stopped, usr2, verdict, sigchld>> /\ TpUnchanged

(* The test function returns, or crashes: gu_handle_sigsegv/sigabrt.       *)
TpReport(i, res, next) ==
  /\ Runnable(i) /\ tp[i] = "running"
  /\ verdict' = [verdict EXCEPT ![i] = res]
  /\ queue' = Append(queue, Msg("ret", i, res))
  /\ tp' = [tp EXCEPT ![i] = next]
  /\ UNCHANGED <<stopped, usr2, sigchld>> /\ TpUnchanged

TpFinish(i) == TpReport(i, "finished", "done")
TpCrash(i) == TpReport(i, "crashed", "crashed")

TpGone(i) ==
  /\ tp' = [tp EXCEPT ![i] = "zombie"]
  /\ sigchld' = TRUE
  /\ UNCHANGED <<queue, stopped, usr2, verdict>> /\ TpUnchanged

(* The test function calls exit(), or somebody kills the process.          *)
TpVanish(i) == Runnable(i) /\ tp[i] = "running" /\ TpGone(i)

(* tp_exit_flag was set by SIGUSR2.                                        *)
TpExit(i) == Runnable(i) /\ tp[i] = "done" /\ i \in usr2 /\ TpGone(i)

(* sleep (1) gives the TMC time to read the MSG_RET before the signal is   *)
(* raised again and the process dies of it.                                *)
TpDie(i) ==
  /\ Runnable(i) /\ tp[i] = "crashed"
  /\ SleepsSuffice => Msg("ret", i, "crashed") \notin {queue[k] : k \in DOMAIN queue}
  /\ TpGone(i)

TestProcess(i) ==
  TpStart(i) \/ TpFinish(i) \/ TpCrash(i) \/ TpVanish(i) \/ TpExit(i) \/ TpDie(i)

----------------------------------------------------------------------------
Next ==
  \/ Engine
  \/ Main
  \/ HandleSigchld
  \/ \E i \in Run : TestProcess(i)

Spec == Init /\ [][Next]_vars

(* Scheduling: the main loop, the delivery of a pending signal, the TP's   *)
(* own steps and the engine's listener thread all go on for ever; a test   *)
(* function ends; a user who has paused a test resumes it.                 *)
Fairness ==
  /\ WF_vars(Main) /\ WF_vars(HandleSigchld) /\ WF_vars(Receive) /\ WF_vars(SendResume)
  /\ \A i \in Run : WF_vars(TestProcess(i))

FairSpec == Spec /\ Fairness

----------------------------------------------------------------------------
(* What the TMC promises.                                                  *)

(* The engine gets one report per run, for the run it is waiting for, and  *)
(* by then the process of that run is gone (gu_run_tmc, gu_handle_sigchld).*)
Service == INSTANCE RunService WITH
  asked <- runs,
  busy <- {i \in Run : Alive(i)}

ImplementsRunService == Service!Spec

(* The report tells what the test said: "finished" and "crashed" are never *)
(* made up, and a verdict sent to the TMC is not forgotten, though a user  *)
(* who stops the test may get "aborted" instead.                           *)
TrueReport ==
  \A k \in DOMAIN reports : reports[k].res \in {verdict[reports[k].run], "aborted"}

(* A TMC that has handled MSG_END leaves no test process behind            *)
(* (gu_handle_end).                                                        *)
NoOrphan == pc = "exited" => \A i \in Run : ~Alive(i)

(* Every run is reported in the end, unless the engine gives the module up *)
(* with MSG_END or a signal meant for the test process has hit the group   *)
(* of the TMC: gu_handle_sigchld has to notice the end of the process      *)
(* whatever the main loop was doing.  A user who pauses and resumes for    *)
(* ever is not covered.                                                    *)
IsReported(i) == Len(reports) >= i \/ ended \/ hit # {}

EveryRunReported == <>[](phase # "paused") => \A i \in Run : (runs = i) ~> IsReported(i)

(* The same for a user who never pauses a test, counted from the fork: a   *)
(* test process that was born is reported, however it ends and whichever   *)
(* stop and end commands meet it on the way (gu_handle_sigchld,            *)
(* tp_abort).                                                              *)
ForkedReported == [](phase # "paused") => \A i \in Run : (tp[i] # "none") ~> IsReported(i)
============================================================================
