------------------------------ MODULE TmcProofs -----------------------------
(***************************************************************************)
(* Proofs about Tmc for any number of runs, any bound on the queue and any *)
(* commands of the user.  That the TMC is a RunService (every request is   *)
(* reported once, for its own run, one process at a time) holds whatever   *)
(* its fixed sleeps are good for.  That a report is true, and that no test *)
(* is left behind, takes sleeps that outlast what they wait for.           *)
(***************************************************************************)
EXTENDS Tmc, SequenceTheorems, FiniteSetTheorems, TLAPS

(* The run the engine asked for last, where its process is and what that   *)
(* has said; Open: its report is due.                                      *)
Last == IF runs = 0 THEN "reaped" ELSE tp[runs]
Said == IF runs = 0 THEN "none" ELSE verdict[runs]
Open == Len(reports) < runs

(* One run at a time: the processes of earlier runs are reaped, and the    *)
(* flag send_ret_ says that the report of the last one can be sent.        *)
RunInv ==
  /\ Len(reports) <= runs /\ runs <= Len(reports) + 1
  /\ \A i \in Run : (i < runs => tp[i] = "reaped") /\ (i > runs => tp[i] = "none" /\ verdict[i] = "none")
  /\ ~Open => Last = "reaped"
  /\ \A k \in DOMAIN reports : reports[k].run = k
  /\ sendRet => pc = "clear" \/ (Open /\ Last = "reaped")
  /\ pc = "clear" => Last = "none" \/ ~Open
  /\ sigchld => Last = "zombie"

(* The engine waits for a report exactly as long as one is due or on its   *)
(* way.                                                                    *)
IsRet(s, k) == k \in DOMAIN s /\ s[k].type = "ret"
PhaseInv ==
  /\ phase = "idle" => ~Open
  /\ phase = "idle" \/ Open => \A k : ~IsRet(outbox, k)
  /\ \A j, k \in DOMAIN outbox : IsRet(outbox, j) /\ IsRet(outbox, k) => j = k

(* A MSG_EXE is for the last run, and the result is noted for this run.    *)
ExeInv ==
  /\ \A k \in DOMAIN queue : queue[k].type = "exe" =>
       /\ queue[k].run = runs /\ Last = "none" /\ pc # "fork"
       /\ \A j \in DOMAIN queue : queue[j].type = "exe" => j = k
  /\ pc = "fork" => cur.run = runs /\ tcr.run = runs /\ Last = "none"
  /\ Last # "none" /\ runs # 0 => tcr.run = runs

ServiceInv == RunInv /\ PhaseInv /\ ExeInv
Served == TypeOK /\ ServiceInv

----------------------------------------------------------------------------
(* Type correctness.                                                       *)

LEMMA TypeInit == Init => TypeOK
<1> SUFFICES ASSUME Init PROVE TypeOK
  OBVIOUS
<1>1. 0 \in Pid /\ runs \in Pid /\ pid \in Pid /\ arg \in Pid
  BY BoundsAssumption DEF Init, Pid
<1>2. cur \in Message /\ tcr \in Report
  BY <1>1 DEF Init, Message, Msg, Report, Result
<1>3. queue \in Seq(Message) /\ outbox \in Seq(Outgoing) /\ reports \in Seq(Report)
  BY DEF Init
<1>4. tp \in [Run -> TpState] /\ verdict \in [Run -> Result]
  BY DEF Init, TpState, Result
<1>5. QED
  BY <1>1, <1>2, <1>3, <1>4 DEF Init, TypeOK, Status, PC

LEMMA RunsRange == TypeOK => runs \in Nat /\ runs <= MaxRuns /\ (runs # 0 => runs \in Run)
BY BoundsAssumption DEF TypeOK, Pid, Run

LEMMA TypeFacts ==
  TypeOK => /\ pid \in Pid /\ arg \in Pid /\ 0 \in Pid /\ cur.run \in Pid /\ status \in Status
            /\ pc \in PC /\ outbox \in Seq(Outgoing) /\ hit \subseteq Signal
BY BoundsAssumption DEF TypeOK, Pid, Message

LEMMA ArgRange == TypeOK /\ arg # 0 => arg \in Run
BY BoundsAssumption DEF TypeOK, Pid, Run

(* What the engine puts into the queue.                                    *)
LEMMA QueueAppend ==
  ASSUME TypeOK, NEW m \in Message
  PROVE  /\ Append(queue, m) \in Seq(Message)
         /\ DOMAIN Append(queue, m) = DOMAIN queue \cup {Len(queue) + 1}
         /\ \A k \in DOMAIN queue : k < Len(queue) + 1 /\ Append(queue, m)[k] = queue[k]
         /\ Append(queue, m)[Len(queue) + 1] = m
BY AppendProperties DEF TypeOK

LEMMA SendTyped ==
  ASSUME TypeOK, NEW type \in {"exe", "pause", "resume", "stop", "end"}, NEW run \in Pid, Send(type, run),
         phase' \in {"idle", "running", "paused"}, runs' \in Pid, ended' \in BOOLEAN
  PROVE  TypeOK'
<1> DEFINE m == Msg(type, run, "none")
<1>1. /\ queue' = Append(queue, m)
      /\ UNCHANGED <<outbox, reports, pid, status, sendRet, tcr, pc, cur, arg, hit, tp, stopped, usr2, verdict, sigchld>>
  BY DEF Send, tpcVars, mainVars, tpVars
<1>2. m \in Message
  BY DEF Msg, Message, Result
<1> HIDE DEF m
<1>3. QED
  BY <1>1, <1>2, QueueAppend DEF TypeOK

LEMMA EngineTyped == ASSUME TypeOK, Engine PROVE TypeOK'
<1>1. phase \in {"idle", "running", "paused"} /\ runs \in Pid /\ ended \in BOOLEAN
  BY DEF TypeOK
<1>2. CASE SendExe
  <2>1. runs + 1 \in Pid /\ runs' = runs + 1 /\ phase' = "running" /\ ended' = ended /\ Send("exe", runs + 1)
    BY <1>1, <1>2, BoundsAssumption DEF SendExe, Pid
  <2>2. QED
    BY <1>1, <2>1, SendTyped
<1>3. CASE SendPause \/ SendResume
  BY <1>1, <1>3, SendTyped DEF SendPause, SendResume
<1>4. CASE SendStop \/ SendEnd
  BY <1>1, <1>4, SendTyped DEF SendStop, SendEnd
<1>5. CASE Receive
  <2>1. /\ outbox # <<>> /\ outbox' = Tail(outbox) /\ phase' \in {phase, "idle"}
        /\ UNCHANGED <<runs, ended, queue, reports, pid, status, sendRet, tcr, pc, cur, arg, hit, tp, stopped, usr2, verdict, sigchld>>
    BY <1>5 DEF Receive, tpcVars, mainVars, tpVars
  <2>2. outbox' \in Seq(Outgoing)
    BY <2>1 DEF TypeOK
  <2>3. QED
    BY <2>1, <2>2 DEF TypeOK
<1>6. QED
  BY <1>2, <1>3, <1>4, <1>5 DEF Engine

LEMMA LoopTyped == ASSUME TypeOK, Loop PROVE TypeOK'
<1>1. UNCHANGED <<phase, runs, ended, queue, pid, status, sendRet, tcr, cur, arg, hit, tp, stopped, usr2, verdict, sigchld>>
  BY DEF Loop, engineVars, tpcVars, tpVars
<1>2. pc' \in PC
  BY DEF Loop, PC
<1>3. outbox' \in Seq(Outgoing) /\ reports' \in Seq(Report)
  <2>1. [type |-> "ret", run |-> tcr.run, res |-> tcr.res] \in Outgoing /\ tcr \in Report
    BY DEF TypeOK, Outgoing, Report
  <2>2. \A m \in Outgoing : Append(outbox, m) \in Seq(Outgoing)
    BY AppendProperties DEF TypeOK
  <2>3. \A r \in Report : Append(reports, r) \in Seq(Report)
    BY AppendProperties DEF TypeOK
  <2>4. outbox \in Seq(Outgoing) /\ reports \in Seq(Report)
    BY DEF TypeOK
  <2>5. QED
    BY <2>1, <2>2, <2>3, <2>4 DEF Loop
<1>4. QED
  BY <1>1, <1>2, <1>3 DEF TypeOK

LEMMA PeekTyped == ASSUME TypeOK, Peek PROVE TypeOK'
<1>1. UNCHANGED <<phase, runs, ended, outbox, reports, pid, status, sendRet, arg, hit, tp, stopped, usr2, verdict, sigchld>>
  BY DEF Peek, engineVars, tpVars
<1>2. CASE queue = <<>> /\ pc' = "sleep" /\ UNCHANGED <<queue, cur, tcr>>
  BY <1>1, <1>2 DEF TypeOK, PC
<1>3. CASE /\ queue # <<>> /\ cur' = Head(queue) /\ queue' = Tail(queue)
           /\ pc' = HandlerOf(cur'.type) /\ tcr' = Recorded(cur')
  <2>1. queue' \in Seq(Message) /\ cur' \in Message
    <3>1. queue \in Seq(Message)
      BY DEF TypeOK
    <3>2. QED
      BY <1>3, <3>1
  <2>2. cur'.type \in {"exe", "ret", "pause", "resume", "stop", "end"} /\ cur'.run \in Pid /\ cur'.res \in Result
    BY <2>1 DEF Message
  <2>3. pc' \in PC
    BY <1>3, <2>2 DEF HandlerOf, PC
  <2>4. tcr' \in Report
    BY <1>3, <2>2 DEF Recorded, TypeOK, Report, Result
  <2>5. QED
    BY <1>1, <2>1, <2>3, <2>4 DEF TypeOK
<1>4. QED
  BY <1>2, <1>3 DEF Peek

LEMMA KillTyped ==
  ASSUME TypeOK, NEW here, NEW sig \in Signal, NEW ok \in PC, NEW failed \in PC, NEW s \in Status,
         Kill(here, sig, ok, failed, s)
  PROVE  TypeOK'
<1>1. UNCHANGED <<phase, runs, ended, queue, outbox, reports, pid, sendRet, tcr, cur, arg>>
  BY DEF Kill, engineVars
<1>2. pc' \in PC /\ hit' \subseteq Signal /\ status' \in Status
  BY DEF Kill, PC, TypeOK
<1>3. CASE UNCHANGED tpVars
  BY <1>1, <1>2, <1>3 DEF TypeOK, tpVars
<1>4. CASE arg # 0 /\ Signalled(arg, sig)
  <2>1. arg \in Run
    BY <1>4, ArgRange
  <2>2. tp' \in [Run -> TpState] /\ sigchld' \in BOOLEAN /\ verdict' = verdict
    BY <1>4, <2>1 DEF Signalled, TypeOK, TpState
  <2>3. stopped' \subseteq Run /\ usr2' \subseteq Run
    BY <1>4, <2>1 DEF Signalled, TypeOK
  <2>4. QED
    BY <1>1, <1>2, <2>2, <2>3 DEF TypeOK
<1>5. QED
  BY <1>3, <1>4 DEF Kill

(* The other instructions set one field at most.                           *)
LEMMA FieldTyped ==
  ASSUME TypeOK, pc' \in PC, pid' \in Pid, status' \in Status, sendRet' \in BOOLEAN, arg' \in Pid,
         outbox' \in Seq(Outgoing),
         UNCHANGED <<phase, runs, ended, queue, reports, tcr, cur, hit, tp, stopped, usr2, verdict, sigchld>>
  PROVE  TypeOK'
BY DEF TypeOK

LEMMA InstructionTyped ==
  ASSUME TypeOK, NEW here, NEW next \in PC, NEW else \in PC, NEW cond, NEW s \in Status,
         Test(here, cond, next, else) \/ LoadPid(here, next) \/ PutStatus(here, s, next)
  PROVE  TypeOK'
<1>1. /\ UNCHANGED <<phase, runs, ended, queue, outbox, reports, pid, sendRet, tcr, cur, hit, tp, stopped, usr2, verdict, sigchld>>
      /\ pc' \in {next, else} /\ arg' \in {arg, pid} /\ status' \in {status, s}
  BY DEF Test, LoadPid, PutStatus, At, engineVars, tpcVars, tpVars
<1>2. QED
  BY <1>1 DEF TypeOK

LEMMA ForkTyped == ASSUME TypeOK, Fork \/ ForkFails \/ SetPid \/ SendRunId \/ SetStatus PROVE TypeOK'
<1>1. UNCHANGED <<phase, runs, ended, queue, reports, sendRet, tcr, cur, arg, hit, stopped, usr2, verdict, sigchld>>
  BY DEF Fork, ForkFails, SetPid, SendRunId, SetStatus, engineVars, tpcVars, tpVars
<1>2. pc' \in PC
  BY DEF Fork, ForkFails, SetPid, SendRunId, SetStatus, At, PC
<1>3. tp' \in [Run -> TpState]
  BY DEF Fork, ForkFails, SetPid, SendRunId, SetStatus, tpVars, TypeOK, TpState
<1>4. pid' \in Pid /\ status' \in Status
  BY TypeFacts DEF Fork, ForkFails, SetPid, SendRunId, SetStatus, tpcVars, Status
<1>5. outbox' \in Seq(Outgoing)
  <2>1. [type |-> "runid", run |-> cur.run, res |-> "none"] \in Outgoing
    BY TypeFacts DEF Outgoing, Result
  <2>2. \A m \in Outgoing : Append(outbox, m) \in Seq(Outgoing)
    BY AppendProperties DEF TypeOK
  <2>3. QED
    BY <2>1, <2>2, TypeFacts DEF Fork, ForkFails, SetPid, SendRunId, SetStatus
<1>6. QED
  BY <1>1, <1>2, <1>3, <1>4, <1>5 DEF TypeOK

LEMMA MainTyped == ASSUME TypeOK, Main PROVE TypeOK'
<1>1. CASE Clear \/ Sleep
  <2>1. /\ UNCHANGED <<phase, runs, ended, queue, outbox, reports, pid, status, tcr, cur, arg, hit, tp, stopped, usr2, verdict, sigchld>>
        /\ sendRet' \in BOOLEAN /\ pc' \in PC
    BY <1>1 DEF Clear, Sleep, At, engineVars, tpcVars, tpVars, TypeOK, PC
  <2>2. QED
    BY <2>1, TypeFacts, FieldTyped
<1>2. {"ret2", "ret3", "sleep", "pause2", "pause3", "pause4", "resume2", "resume3", "resume4", "abort",
       "abort2", "abort3", "abort4", "abort5", "end2", "exited", AfterAbort} \subseteq PC
  BY DEF PC, AfterAbort
<1>3. status \in Status /\ {"PAUSED", "RUNNING", "ABORTED", "NONE"} \subseteq Status
  BY DEF TypeOK, Status
<1>4. CASE HandleRet
  BY <1>2, <1>3, <1>4, KillTyped, InstructionTyped DEF HandleRet, Signal
<1>5. CASE HandlePause
  BY <1>2, <1>3, <1>5, KillTyped, InstructionTyped DEF HandlePause, Signal
<1>6. CASE HandleResume
  BY <1>2, <1>3, <1>6, KillTyped, InstructionTyped DEF HandleResume, Signal
<1>7. CASE Abort
  BY <1>2, <1>3, <1>7, KillTyped, InstructionTyped DEF Abort, Signal
<1>8. CASE HandleEnd
  BY <1>2, <1>3, <1>8, InstructionTyped DEF HandleEnd
<1>9. QED
  BY <1>1, <1>4, <1>5, <1>6, <1>7, <1>8, LoopTyped, PeekTyped, ForkTyped DEF Main

LEMMA SigchldTyped == ASSUME TypeOK, HandleSigchld PROVE TypeOK'
<1>1. /\ UNCHANGED <<phase, runs, ended, queue, outbox, reports, pc, cur, arg, hit, stopped, usr2, verdict>>
      /\ sigchld' = FALSE
  BY DEF HandleSigchld, engineVars, mainVars
<1>2. CASE UNCHANGED <<tp, tpcVars>>
  BY <1>1, <1>2 DEF TypeOK, tpcVars
<1>3. CASE /\ tp' = [i \in Run |-> IF i \in Zombies THEN "reaped" ELSE tp[i]]
           /\ pid' = PidAfterReaping
           /\ status' = IF Zombies = {} THEN status ELSE "NONE"
           /\ tcr' = IF status = "ABORTED" /\ Cardinality(Zombies) = 1
                     THEN [tcr EXCEPT !.res = "aborted"] ELSE tcr
           /\ sendRet' = TRUE
  <2>1. tp' \in [Run -> TpState]
    BY <1>3 DEF TypeOK, TpState
  <2>2. pid' \in Pid /\ status' \in Status
    BY <1>3, TypeFacts DEF PidAfterReaping, Status
  <2>3. tcr' \in Report
    BY <1>3 DEF TypeOK, Report, Result
  <2>4. QED
    BY <1>1, <1>3, <2>1, <2>2, <2>3 DEF TypeOK
<1>4. QED
  BY <1>2, <1>3 DEF HandleSigchld

LEMMA TestProcessTyped == ASSUME TypeOK, NEW i \in Run, TestProcess(i) PROVE TypeOK'
<1>1. UNCHANGED <<phase, runs, ended, outbox, reports, pid, status, sendRet, tcr, pc, cur, arg, hit>>
  BY DEF TestProcess, TpStart, TpFinish, TpCrash, TpReport, TpVanish, TpExit, TpDie, TpGone, TpUnchanged,
         engineVars, tpcVars, mainVars
<1>2. CASE TpFinish(i) \/ TpCrash(i)
  <2>1. PICK res \in Result, next \in TpState : TpReport(i, res, next)
    BY <1>2 DEF TpFinish, TpCrash, Result, TpState
  <2>2. /\ verdict' = [verdict EXCEPT ![i] = res] /\ tp' = [tp EXCEPT ![i] = next]
        /\ queue' = Append(queue, Msg("ret", i, res)) /\ UNCHANGED <<stopped, usr2, sigchld>>
    BY <2>1 DEF TpReport
  <2>3. Msg("ret", i, res) \in Message
    BY BoundsAssumption DEF Msg, Message, Pid, Run
  <2>4. queue' \in Seq(Message)
    BY <2>2, <2>3, QueueAppend
  <2>5. QED
    BY <1>1, <2>2, <2>4 DEF TypeOK
<1>3. CASE TpStart(i) \/ TpVanish(i) \/ TpExit(i) \/ TpDie(i)
  <2>1. /\ UNCHANGED <<queue, stopped, usr2, verdict>> /\ sigchld' \in {sigchld, TRUE}
        /\ tp' = [tp EXCEPT ![i] = "running"] \/ tp' = [tp EXCEPT ![i] = "zombie"]
    BY <1>3 DEF TpStart, TpVanish, TpExit, TpDie, TpGone
  <2>2. QED
    BY <1>1, <2>1 DEF TypeOK, TpState
<1>4. QED
  BY <1>2, <1>3 DEF TestProcess

LEMMA TypeStep == ASSUME TypeOK, [Next]_vars PROVE TypeOK'
<1>1. CASE UNCHANGED vars
  BY <1>1 DEF TypeOK, vars, engineVars, tpcVars, mainVars, tpVars
<1>2. QED
  BY <1>1, EngineTyped, MainTyped, SigchldTyped, TestProcessTyped DEF Next

(* Every field of the TMC and of the engine stays in its range, whatever   *)
(* the sleeps are good for: gu_run_tmc never jumps to a handler that does  *)
(* not exist and tpc_ never names a process that was not forked.           *)
THEOREM TypeCorrect == Spec => []TypeOK
BY TypeInit, TypeStep, PTL DEF Spec

----------------------------------------------------------------------------
(* The run the engine has asked for.                                       *)

LEMMA ServiceInvInit == Init => ServiceInv
<1> SUFFICES ASSUME Init PROVE ServiceInv
  OBVIOUS
<1>1. RunInv /\ PhaseInv
  BY DEF Init, RunInv, PhaseInv, IsRet, Open, Last, Run
<1>2. ExeInv
  BY DEF Init, ExeInv
<1>3. QED
  BY <1>1, <1>2 DEF ServiceInv

(* Only the last test process can still do anything.                       *)
LEMMA AliveIsLast ==
  ASSUME TypeOK, ServiceInv, NEW i \in Run, tp[i] \notin {"none", "reaped"}
  PROVE  i = runs /\ runs # 0 /\ Last = tp[i] /\ Open /\ runs \in Nat /\ tp \in [Run -> TpState]
<1>1. runs \in Nat /\ i \in Nat /\ i # 0 /\ tp \in [Run -> TpState]
  BY RunsRange DEF TypeOK, Run
<1>2. i = runs
  BY <1>1 DEF ServiceInv, RunInv
<1>3. QED
  BY <1>1, <1>2 DEF Last, ServiceInv, RunInv

(* The handler finds the zombie that raised the signal and no other child. *)
LEMMA ReapsTheLast ==
  ASSUME TypeOK, ServiceInv, sigchld
  PROVE  Zombies = {runs} /\ Cardinality(Zombies) = 1 /\ runs \in Run /\ runs # 0 /\ Last = "zombie"
<1>1. Last = "zombie" /\ runs # 0 /\ runs \in Run /\ runs \in Nat
  BY RunsRange DEF ServiceInv, RunInv, Last
<1>2. \A i \in Run : tp[i] = "zombie" <=> i = runs
  BY <1>1 DEF ServiceInv, RunInv, Last, Run
<1>3. Zombies = {runs}
  BY <1>1, <1>2 DEF Zombies
<1>4. \A z : Cardinality({z}) = 1
  BY FS_Singleton
<1>5. QED
  BY <1>1, <1>3, <1>4

(* A step that asks for no run, forks nothing and reports nothing.         *)
LEMMA ServesStill ==
  ASSUME ServiceInv,
         UNCHANGED <<runs, reports, cur, tp, verdict>>, tcr'.run = tcr.run,
         phase' = "idle" <=> phase = "idle",
         sigchld' => sigchld, sendRet' => sendRet, pc = "clear" => pc' = "clear" \/ ~sendRet',
         pc' = "clear" => pc = "clear", pc' = "fork" => pc = "fork",
         \A k \in DOMAIN queue' : queue'[k].type = "exe" => k \in DOMAIN queue /\ queue'[k] = queue[k],
         \A k : IsRet(outbox', k) => IsRet(outbox, k)
  PROVE  ServiceInv'
<1>1. Last' = Last /\ Open' = Open
  BY DEF Last, Open
<1>2. RunInv'
  BY <1>1 DEF ServiceInv, RunInv
<1>3. PhaseInv'
  <2>1. \A k \in DOMAIN outbox' : IsRet(outbox', k) => k \in DOMAIN outbox
    BY DEF IsRet
  <2>2. QED
    BY <1>1, <2>1 DEF ServiceInv, PhaseInv
<1>4. ExeInv'
  BY <1>1 DEF ServiceInv, ExeInv
<1>5. QED
  BY <1>2, <1>3, <1>4 DEF ServiceInv

LEMMA ServesSendExe == ASSUME TypeOK, ServiceInv, SendExe PROVE ServiceInv'
<1> DEFINE m == Msg("exe", runs + 1, "none")
<1>1. /\ phase = "idle" /\ runs < MaxRuns /\ phase' = "running" /\ runs' = runs + 1
      /\ queue' = Append(queue, m)
      /\ UNCHANGED <<outbox, reports, sendRet, tcr, pc, cur, tp, verdict, sigchld>>
  BY DEF SendExe, Send, tpcVars, mainVars, tpVars
<1>2. runs \in Nat /\ runs' \in Run /\ runs + 1 \in Pid
  BY <1>1, RunsRange, BoundsAssumption DEF Run, Pid
<1>3. m \in Message /\ m.type = "exe" /\ m.run = runs'
  BY <1>1, <1>2 DEF Msg, Message, Result
<1> HIDE DEF m
<1>4. /\ DOMAIN queue' = DOMAIN queue \cup {Len(queue) + 1}
      /\ \A k \in DOMAIN queue : queue'[k] = queue[k]
      /\ queue'[Len(queue) + 1] = m
  BY <1>1, <1>3, QueueAppend
<1>5. Last = "reaped" /\ ~Open /\ Len(reports) = runs
  <2>1. Len(reports) <= runs /\ runs <= Len(reports) + 1 /\ ~Open /\ Last = "reaped"
    BY <1>1 DEF ServiceInv, RunInv, PhaseInv
  <2>2. QED
    BY <1>2, <2>1 DEF Open, TypeOK
<1>6. Last' = "none" /\ Open'
  BY <1>1, <1>2, <1>5 DEF ServiceInv, RunInv, Last, Open
<1>7. RunInv'
  <2>1. \A i \in Run : i < runs' => tp'[i] = "reaped"
    BY <1>1, <1>2, <1>5 DEF ServiceInv, RunInv, Last, Run
  <2>2. QED
    BY <1>1, <1>2, <1>5, <1>6, <2>1 DEF ServiceInv, RunInv
<1>8. PhaseInv'
  BY <1>1, <1>6 DEF ServiceInv, PhaseInv, IsRet
<1>9. ExeInv'
  <2>1. \A k \in DOMAIN queue' : queue'[k].type = "exe" => k = Len(queue) + 1
    BY <1>4, <1>5 DEF ServiceInv, ExeInv
  <2>2. pc # "fork"
    BY <1>5 DEF ServiceInv, ExeInv
  <2>3. QED
    BY <1>1, <1>3, <1>4, <1>6, <2>1, <2>2 DEF ExeInv
<1>10. QED
  BY <1>7, <1>8, <1>9 DEF ServiceInv

LEMMA ServesReceive == ASSUME TypeOK, ServiceInv, Receive PROVE ServiceInv'
<1>1. /\ outbox # <<>> /\ outbox' = Tail(outbox)
      /\ phase' = IF Head(outbox).type = "ret" THEN "idle" ELSE phase
      /\ UNCHANGED <<runs, queue, reports, sendRet, tcr, pc, cur, tp, verdict, sigchld>>
  BY DEF Receive, tpcVars, mainVars, tpVars
<1>2. /\ 1 \in DOMAIN outbox /\ Head(outbox) = outbox[1]
      /\ \A k \in DOMAIN outbox' : k + 1 \in DOMAIN outbox /\ k + 1 # 1 /\ outbox'[k] = outbox[k + 1]
      /\ \A j, k \in DOMAIN outbox' : j + 1 = k + 1 => j = k
  <2>1. outbox \in Seq(Outgoing)
    BY DEF TypeOK
  <2>2. /\ Tail(outbox) \in Seq(Outgoing) /\ Len(Tail(outbox)) = Len(outbox) - 1
        /\ \A k \in 1..Len(Tail(outbox)) : Tail(outbox)[k] = outbox[k + 1]
    BY <1>1, <2>1
  <2>3. QED
    BY <1>1, <2>1, <2>2
<1>3. Last' = Last /\ Open' = Open
  BY <1>1 DEF Last, Open
<1>4. RunInv' /\ ExeInv'
  BY <1>1, <1>3 DEF ServiceInv, RunInv, ExeInv
<1>5. PhaseInv'
  <2>1. \A k \in DOMAIN outbox' : IsRet(outbox', k) => IsRet(outbox, k + 1)
    BY <1>2 DEF IsRet
  <2>2. \A j, k \in DOMAIN outbox' : IsRet(outbox', j) /\ IsRet(outbox', k) => j = k
    BY <1>2, <2>1 DEF ServiceInv, PhaseInv
  <2>3. CASE Head(outbox).type = "ret"
    <3>1. IsRet(outbox, 1)
      BY <1>2, <2>3 DEF IsRet
    <3>2. ~Open /\ \A k \in DOMAIN outbox' : ~IsRet(outbox', k)
      BY <1>2, <2>1, <3>1 DEF ServiceInv, PhaseInv
    <3>3. QED
      BY <1>3, <2>2, <3>2 DEF PhaseInv, IsRet
  <2>4. CASE Head(outbox).type # "ret"
    <3>1. phase' = phase
      BY <1>1, <2>4
    <3>2. phase = "idle" \/ Open => \A k \in DOMAIN outbox' : ~IsRet(outbox', k)
      BY <1>2, <2>1 DEF ServiceInv, PhaseInv
    <3>3. QED
      BY <1>3, <2>2, <3>1, <3>2 DEF ServiceInv, PhaseInv, IsRet
  <2>5. QED
    BY <2>3, <2>4
<1>6. QED
  BY <1>4, <1>5 DEF ServiceInv

LEMMA ServesEngine == ASSUME TypeOK, ServiceInv, Engine PROVE ServiceInv'
<1> DEFINE m(type) == Msg(type, runs, "none")
<1>1. \A type \in {"pause", "resume", "stop", "end"} : m(type) \in Message /\ m(type).type = type
  BY DEF TypeOK, Msg, Message, Result
<1> HIDE DEF m
<1>2. CASE SendPause \/ SendResume \/ SendStop \/ SendEnd
  <2>1. PICK type \in {"pause", "resume", "stop", "end"} : queue' = Append(queue, m(type))
    BY <1>2 DEF SendPause, SendResume, SendStop, SendEnd, Send, m
  <2>2. \A k \in DOMAIN queue' : queue'[k].type = "exe" => k \in DOMAIN queue /\ queue'[k] = queue[k]
    BY <1>1, <2>1, QueueAppend
  <2>3. /\ UNCHANGED <<runs, outbox, reports, sendRet, tcr, pc, cur, tp, verdict, sigchld>>
        /\ phase' = "idle" <=> phase = "idle"
    BY <1>2 DEF SendPause, SendResume, SendStop, SendEnd, Send, tpcVars, mainVars, tpVars
  <2>4. QED
    BY <2>2, <2>3, ServesStill DEF IsRet
<1>3. QED
  BY <1>2, ServesSendExe, ServesReceive DEF Engine

LEMMA ServesLoop == ASSUME TypeOK, ServiceInv, Loop PROVE ServiceInv'
<1>1. /\ pc = "loop"
      /\ UNCHANGED <<phase, runs, queue, sendRet, tcr, cur, tp, verdict, sigchld>>
  BY DEF Loop, engineVars, tpcVars, tpVars
<1>2. CASE sendRet
  <2> DEFINE m == [type |-> "ret", run |-> tcr.run, res |-> tcr.res]
  <2>1. outbox' = Append(outbox, m) /\ reports' = Append(reports, tcr) /\ pc' = "clear"
    BY <1>2 DEF Loop
  <2>2. m \in Outgoing /\ m.type = "ret" /\ tcr \in Report
    BY DEF TypeOK, Outgoing, Report
  <2> HIDE DEF m
  <2>3. /\ DOMAIN outbox' = DOMAIN outbox \cup {Len(outbox) + 1}
        /\ \A k \in DOMAIN outbox : outbox'[k] = outbox[k]
    BY <2>1, <2>2, AppendProperties DEF TypeOK
  <2>4. /\ Len(reports') = Len(reports) + 1 /\ Len(reports) \in Nat
        /\ DOMAIN reports' = DOMAIN reports \cup {Len(reports) + 1}
        /\ \A k \in DOMAIN reports : reports'[k] = reports[k]
        /\ reports'[Len(reports) + 1] = tcr
    BY <2>1, <2>2, AppendProperties DEF TypeOK
  <2>5. Last' = Last
    BY <1>1 DEF Last
  <2>6. Open /\ Last = "reaped" /\ runs \in Nat /\ Len(reports) + 1 = runs /\ tcr.run = runs
    <3>1. Open /\ Last = "reaped" /\ runs <= Len(reports) + 1
      BY <1>1, <1>2 DEF ServiceInv, RunInv
    <3>2. runs \in Nat /\ Len(reports) + 1 = runs /\ runs # 0
      BY <2>4, <3>1, RunsRange DEF Open
    <3>3. QED
      BY <3>1, <3>2 DEF ServiceInv, ExeInv
  <2>7. ~Open'
    BY <1>1, <2>4, <2>6 DEF Open
  <2>8. RunInv'
    <3>1. \A k \in DOMAIN reports' : reports'[k].run = k
      BY <2>4, <2>6 DEF ServiceInv, RunInv
    <3>2. Len(reports') <= runs' /\ runs' <= Len(reports') + 1
      BY <1>1, <2>4, <2>6
    <3>3. QED
      BY <1>1, <2>1, <2>5, <2>6, <2>7, <3>1, <3>2 DEF ServiceInv, RunInv
  <2>9. PhaseInv'
    <3>1. phase # "idle" /\ \A k : ~IsRet(outbox, k)
      BY <2>6 DEF ServiceInv, PhaseInv
    <3>2. \A k : IsRet(outbox', k) => k = Len(outbox) + 1
      BY <2>3, <3>1 DEF IsRet
    <3>3. QED
      BY <1>1, <2>7, <3>1, <3>2 DEF PhaseInv
  <2>10. ExeInv'
    BY <1>1, <2>1, <2>5 DEF ServiceInv, ExeInv
  <2>11. QED
    BY <2>8, <2>9, <2>10 DEF ServiceInv
<1>3. CASE ~sendRet
  <2>1. pc' = "peek" /\ outbox' = outbox /\ reports' = reports
    BY <1>3 DEF Loop
  <2>2. QED
    BY <1>1, <2>1, ServesStill
<1>4. QED
  BY <1>2, <1>3

LEMMA ServesPeek == ASSUME TypeOK, ServiceInv, Peek PROVE ServiceInv'
<1>1. /\ pc = "peek"
      /\ UNCHANGED <<phase, runs, outbox, reports, sendRet, tp, verdict, sigchld>>
  BY DEF Peek, engineVars, tpVars
<1>2. CASE queue = <<>>
  <2>1. pc' = "sleep" /\ queue' = queue /\ cur' = cur /\ tcr' = tcr
    BY <1>2 DEF Peek
  <2>2. QED
    BY <1>1, <2>1, ServesStill
<1>3. CASE queue # <<>>
  <2>1. /\ cur' = Head(queue) /\ queue' = Tail(queue)
        /\ pc' = HandlerOf(cur'.type) /\ tcr' = Recorded(cur')
    BY <1>3 DEF Peek
  <2>2. /\ 1 \in DOMAIN queue /\ cur' = queue[1] /\ cur' \in Message
        /\ \A k \in DOMAIN queue' : k + 1 \in DOMAIN queue /\ k + 1 # 1 /\ queue'[k] = queue[k + 1]
        /\ \A j, k \in DOMAIN queue' : j + 1 = k + 1 => j = k
    <3>1. queue \in Seq(Message)
      BY DEF TypeOK
    <3>2. /\ Tail(queue) \in Seq(Message) /\ Len(Tail(queue)) = Len(queue) - 1
          /\ \A k \in 1..Len(Tail(queue)) : Tail(queue)[k] = queue[k + 1]
      BY <1>3, <3>1
    <3>3. QED
      BY <1>3, <2>1, <3>1, <3>2
  <2>3. Last' = Last /\ Open' = Open
    BY <1>1 DEF Last, Open
  <2>4. cur'.type = "exe" => cur'.run = runs /\ Last = "none"
    BY <2>2 DEF ServiceInv, ExeInv
  <2>5. /\ pc' # "clear" /\ (pc' = "fork" => cur'.type = "exe")
        /\ cur'.type = "exe" => tcr'.run = runs
        /\ cur'.type # "exe" => tcr'.run = tcr.run
    <3>1. cur'.type \in {"exe", "ret", "pause", "resume", "stop", "end"}
      BY <2>2 DEF Message
    <3>2. QED
      BY <2>1, <2>4, <3>1 DEF HandlerOf, Recorded
  <2>6. RunInv'
    BY <1>1, <2>3, <2>5 DEF ServiceInv, RunInv
  <2>7. PhaseInv'
    BY <1>1, <2>3 DEF ServiceInv, PhaseInv, IsRet
  <2>8. ExeInv'
    <3>1. \A k \in DOMAIN queue' : queue'[k].type = "exe" =>
            /\ queue'[k].run = runs /\ Last = "none" /\ cur'.type # "exe"
            /\ \A j \in DOMAIN queue' : queue'[j].type = "exe" => j = k
      BY <2>2 DEF ServiceInv, ExeInv
    <3>2. QED
      BY <1>1, <2>3, <2>4, <2>5, <3>1 DEF ServiceInv, ExeInv
  <2>9. QED
    BY <2>6, <2>7, <2>8 DEF ServiceInv
<1>4. QED
  BY <1>2, <1>3

LEMMA ServesFork == ASSUME TypeOK, ServiceInv, Fork PROVE ServiceInv'
<1>1. /\ pc = "fork" /\ pc' = "setpid" /\ tp' = [tp EXCEPT ![cur.run] = "born"]
      /\ UNCHANGED <<phase, runs, queue, outbox, reports, sendRet, tcr, cur, verdict, sigchld>>
  BY DEF Fork, At, engineVars, tpcVars
<1>2. cur.run = runs /\ tcr.run = runs /\ Last = "none" /\ runs # 0 /\ runs \in Nat /\ runs \in Run
  BY <1>1, RunsRange DEF ServiceInv, ExeInv, Last
<1>3. tp \in [Run -> TpState] /\ tp' = [tp EXCEPT ![runs] = "born"]
  BY <1>1, <1>2 DEF TypeOK
<1>4. Last' = "born" /\ Open' = Open /\ Open
  BY <1>1, <1>2, <1>3 DEF Last, Open, ServiceInv, RunInv
<1>5. RunInv'
  BY <1>1, <1>2, <1>3, <1>4 DEF ServiceInv, RunInv
<1>6. PhaseInv'
  BY <1>1, <1>4 DEF ServiceInv, PhaseInv, IsRet
<1>7. ExeInv'
  <2>1. \A k \in DOMAIN queue : queue[k].type # "exe"
    BY <1>1 DEF ServiceInv, ExeInv
  <2>2. QED
    BY <1>1, <1>2, <2>1 DEF ExeInv
<1>8. QED
  BY <1>5, <1>6, <1>7 DEF ServiceInv

(* A step of the last test process, or its end.                            *)
LEMMA ServesTp ==
  ASSUME TypeOK, ServiceInv, NEW i \in Run, NEW next \in {"running", "done", "crashed", "zombie"},
         Alive(i), tp' = [tp EXCEPT ![i] = next],
         UNCHANGED <<phase, runs, outbox, reports, sendRet, tcr, cur>>,
         pc' = pc \/ {pc, pc'} \cap {"clear", "fork"} = {},
         \A j \in Run : j # i => verdict'[j] = verdict[j],
         sigchld' => sigchld \/ next = "zombie",
         \A k \in DOMAIN queue' : queue'[k].type = "exe" => k \in DOMAIN queue /\ queue'[k] = queue[k]
  PROVE  ServiceInv'
<1>1. i = runs /\ runs # 0 /\ runs \in Nat /\ Last = tp[i] /\ Open /\ tp \in [Run -> TpState]
  BY AliveIsLast DEF Alive
<1>2. Last' = next /\ Open' = Open
  BY <1>1 DEF Last, Open
<1>3. tp'[runs] = next /\ \A j \in Run : j # runs => tp'[j] = tp[j]
  BY <1>1
<1>4. Last \notin {"none", "zombie", "reaped"} /\ ~sigchld /\ pc # "fork" /\ tcr.run = runs
  BY <1>1 DEF Alive, ServiceInv, RunInv, ExeInv
<1>5. RunInv'
  <2>1. ~sendRet /\ pc # "clear" /\ pc' # "clear"
    BY <1>1, <1>4 DEF ServiceInv, RunInv
  <2>2. \A j \in Run : (j < runs => tp'[j] = "reaped") /\ (j > runs => tp'[j] = "none" /\ verdict'[j] = "none")
    BY <1>1, <1>3 DEF ServiceInv, RunInv
  <2>3. QED
    BY <1>1, <1>2, <1>4, <2>1, <2>2 DEF ServiceInv, RunInv
<1>6. PhaseInv'
  BY <1>2 DEF ServiceInv, PhaseInv, IsRet
<1>7. ExeInv'
  <2>1. \A k \in DOMAIN queue : queue[k].type # "exe"
    BY <1>4 DEF ServiceInv, ExeInv
  <2>2. QED
    BY <1>4, <2>1 DEF ExeInv
<1>8. QED
  BY <1>5, <1>6, <1>7 DEF ServiceInv

LEMMA ServesKill ==
  ASSUME TypeOK, ServiceInv, NEW here, here \notin {"clear", "fork"}, NEW sig, NEW ok, ok \notin {"clear", "fork"},
         NEW failed, failed \notin {"clear", "fork"}, NEW s, Kill(here, sig, ok, failed, s)
  PROVE  ServiceInv'
<1>1. /\ pc = here /\ pc' \in {ok, failed, "hit"}
      /\ UNCHANGED <<phase, runs, queue, outbox, reports, sendRet, tcr, cur>>
  BY DEF Kill, engineVars
<1>2. CASE UNCHANGED <<tp, verdict, sigchld>>
  BY <1>1, <1>2, ServesStill
<1>3. CASE arg # 0 /\ sig = "KILL" /\ Alive(arg) /\ Signalled(arg, sig)
  <2>1. arg \in Run /\ tp' = [tp EXCEPT ![arg] = "zombie"] /\ verdict' = verdict
    BY <1>3, ArgRange DEF Signalled
  <2>2. QED
    BY <1>1, <1>3, <2>1, ServesTp
<1>4. CASE arg # 0 /\ ~(sig = "KILL" /\ Alive(arg)) /\ Signalled(arg, sig)
  <2>1. sigchld' => sigchld
    BY <1>4 DEF Signalled
  <2>2. tp' = tp /\ verdict' = verdict
    BY <1>4 DEF Signalled
  <2>3. QED
    BY <1>1, <2>1, <2>2, ServesStill
<1>5. QED
  BY <1>2, <1>3, <1>4 DEF Kill, tpVars

LEMMA ServesInstruction ==
  ASSUME ServiceInv, NEW here, here \notin {"clear", "fork"}, NEW next, next \notin {"clear", "fork"},
         NEW s, LoadPid(here, next) \/ PutStatus(here, s, next)
  PROVE  ServiceInv'
<1>1. /\ UNCHANGED <<phase, runs, queue, outbox, reports, sendRet, tcr, cur, tp, verdict, sigchld>>
      /\ pc = here /\ pc' = next
  BY DEF LoadPid, PutStatus, At, engineVars, tpcVars, tpVars
<1>2. QED
  BY <1>1, ServesStill

LEMMA ServesTest ==
  ASSUME ServiceInv, pc \notin {"clear", "fork"}, pc' \notin {"clear", "fork"},
         UNCHANGED <<engineVars, queue, outbox, reports, tpcVars, cur, arg, hit, tpVars>>
  PROVE  ServiceInv'
<1>1. UNCHANGED <<phase, runs, queue, outbox, reports, sendRet, tcr, cur, tp, verdict, sigchld>>
  BY DEF engineVars, tpcVars, tpVars
<1>2. QED
  BY <1>1, ServesStill

LEMMA ServesMain == ASSUME TypeOK, ServiceInv, Main PROVE ServiceInv'
<1>1. CASE Clear
  <2>1. /\ pc = "clear" /\ pc' = "peek" /\ sendRet' = FALSE
        /\ UNCHANGED <<phase, runs, queue, outbox, reports, tcr, cur, tp, verdict, sigchld>>
    BY <1>1 DEF Clear, At, engineVars, tpVars
  <2>2. QED
    BY <2>1, ServesStill
<1>2. CASE Sleep \/ ForkFails \/ SetPid \/ SetStatus
  <2>1. /\ pc \in {"sleep", "fork", "setpid", "setstatus"} /\ pc' \in {"loop", "sleep", "runid"}
        /\ UNCHANGED <<phase, runs, queue, outbox, reports, sendRet, tcr, cur, tp, verdict, sigchld>>
    BY <1>2 DEF Sleep, ForkFails, SetPid, SetStatus, At, engineVars, tpcVars, tpVars
  <2>2. QED
    BY <2>1, ServesStill
<1>3. CASE SendRunId
  <2> DEFINE m == [type |-> "runid", run |-> cur.run, res |-> "none"]
  <2>1. /\ pc = "runid" /\ pc' = "setstatus" /\ outbox' = Append(outbox, m)
        /\ UNCHANGED <<phase, runs, queue, reports, sendRet, tcr, cur, tp, verdict, sigchld>>
    BY <1>3 DEF SendRunId, At, engineVars, tpcVars, tpVars
  <2>2. m \in Outgoing /\ m.type # "ret"
    BY TypeFacts DEF Outgoing, Result
  <2> HIDE DEF m
  <2>3. /\ DOMAIN outbox' = DOMAIN outbox \cup {Len(outbox) + 1}
        /\ \A k \in DOMAIN outbox : outbox'[k] = outbox[k]
        /\ outbox'[Len(outbox) + 1] = m
    BY <2>1, <2>2, AppendProperties DEF TypeOK
  <2>4. \A k : IsRet(outbox', k) => IsRet(outbox, k)
    BY <2>2, <2>3 DEF IsRet
  <2>5. QED
    BY <2>1, <2>4, ServesStill
<1>4. AfterAbort \in {"sleep", "end2"}
  BY DEF AfterAbort
<1>5. CASE HandleRet
  <2>1. CASE Test("ret", pid # 0, "ret2", "sleep")
    BY <1>4, <2>1, ServesTest DEF Test
  <2>2. QED
    BY <1>4, <1>5, <2>1, ServesKill, ServesInstruction DEF HandleRet
<1>6. CASE HandlePause
  <2>1. CASE Test("pause", status = "RUNNING", "pause2", "sleep")
    BY <1>4, <2>1, ServesTest DEF Test
  <2>2. QED
    BY <1>4, <1>6, <2>1, ServesKill, ServesInstruction DEF HandlePause
<1>7. CASE HandleResume
  <2>1. CASE Test("resume", status = "PAUSED", "resume2", "sleep")
    BY <1>4, <2>1, ServesTest DEF Test
  <2>2. QED
    BY <1>4, <1>7, <2>1, ServesKill, ServesInstruction DEF HandleResume
<1>8. CASE Abort
  <2>1. CASE Test("abort", pid # 0, "abort2", AfterAbort)
    BY <1>4, <2>1, ServesTest DEF Test
  <2>2. QED
    BY <1>4, <1>8, <2>1, ServesKill, ServesInstruction DEF Abort
<1>9. CASE HandleEnd
  <2>1. CASE Test("end", status = "NONE", "exited", "abort")
    BY <1>4, <2>1, ServesTest DEF Test
  <2>2. QED
    BY <1>4, <1>9, <2>1, ServesInstruction DEF HandleEnd
<1>10. QED
  BY <1>1, <1>2, <1>3, <1>5, <1>6, <1>7, <1>8, <1>9, ServesLoop, ServesPeek, ServesFork DEF Main

LEMMA ServesSigchld == ASSUME TypeOK, ServiceInv, HandleSigchld PROVE ServiceInv'
<1>1. /\ sigchld /\ sigchld' = FALSE
      /\ UNCHANGED <<phase, runs, queue, outbox, reports, pc, cur, verdict>>
  BY DEF HandleSigchld, engineVars, mainVars
<1>2. Zombies = {runs} /\ runs \in Run /\ runs # 0 /\ Last = "zombie" /\ runs \in Nat
  BY <1>1, ReapsTheLast, RunsRange
<1>3. CASE UNCHANGED <<tp, tpcVars>>
  <2>1. UNCHANGED <<tp, sendRet, tcr>>
    BY <1>3 DEF tpcVars
  <2>2. QED
    BY <1>1, <2>1, ServesStill
<1>4. CASE /\ tp' = [i \in Run |-> IF i \in Zombies THEN "reaped" ELSE tp[i]]
           /\ tcr' = IF status = "ABORTED" /\ Cardinality(Zombies) = 1
                     THEN [tcr EXCEPT !.res = "aborted"] ELSE tcr
           /\ sendRet' = TRUE
  <2>1. tp'[runs] = "reaped" /\ \A i \in Run : i # runs => tp'[i] = tp[i]
    BY <1>2, <1>4
  <2>2. Last' = "reaped" /\ Open' = Open /\ Open
    BY <1>1, <1>2, <2>1 DEF Last, Open, ServiceInv, RunInv
  <2>3. tcr'.run = tcr.run
    BY <1>4 DEF TypeOK, Report
  <2>4. RunInv'
    BY <1>1, <1>2, <2>1, <2>2 DEF ServiceInv, RunInv
  <2>5. PhaseInv'
    BY <1>1, <2>2 DEF ServiceInv, PhaseInv, IsRet
  <2>6. ExeInv'
    BY <1>1, <1>2, <2>2, <2>3 DEF ServiceInv, ExeInv
  <2>7. QED
    BY <2>4, <2>5, <2>6 DEF ServiceInv
<1>5. QED
  BY <1>3, <1>4 DEF HandleSigchld

LEMMA ServesTestProcess == ASSUME TypeOK, ServiceInv, NEW i \in Run, TestProcess(i) PROVE ServiceInv'
<1>1. UNCHANGED <<phase, runs, outbox, reports, sendRet, tcr, pc, cur>>
  BY DEF TestProcess, TpStart, TpFinish, TpCrash, TpReport, TpVanish, TpExit, TpDie, TpGone, TpUnchanged,
         engineVars, tpcVars, mainVars
<1>2. CASE TpFinish(i) \/ TpCrash(i)
  <2>1. PICK res \in {"finished", "crashed"}, next \in {"done", "crashed"} : TpReport(i, res, next)
    BY <1>2 DEF TpFinish, TpCrash
  <2>2. /\ verdict' = [verdict EXCEPT ![i] = res] /\ tp' = [tp EXCEPT ![i] = next] /\ tp[i] = "running"
        /\ queue' = Append(queue, Msg("ret", i, res)) /\ UNCHANGED sigchld
    BY <2>1 DEF TpReport
  <2>3. Msg("ret", i, res) \in Message /\ Msg("ret", i, res).type # "exe"
    BY BoundsAssumption DEF Msg, Message, Pid, Run, Result
  <2>4. \A k \in DOMAIN queue' : queue'[k].type = "exe" => k \in DOMAIN queue /\ queue'[k] = queue[k]
    BY <2>2, <2>3, QueueAppend
  <2>5. \A j \in Run : j # i => verdict'[j] = verdict[j]
    BY <2>2 DEF TypeOK
  <2>6. QED
    BY <1>1, <2>2, <2>4, <2>5, ServesTp DEF Alive
<1>3. CASE TpStart(i)
  BY <1>1, <1>3, ServesTp DEF TpStart, Alive
<1>4. CASE TpVanish(i) \/ TpExit(i) \/ TpDie(i)
  <2>1. /\ UNCHANGED <<queue, verdict>> /\ Alive(i) /\ tp' = [tp EXCEPT ![i] = "zombie"]
    BY <1>4 DEF TpVanish, TpExit, TpDie, TpGone, Alive
  <2>2. QED
    BY <1>1, <2>1, ServesTp
<1>5. QED
  BY <1>2, <1>3, <1>4 DEF TestProcess

LEMMA ServesStep == ASSUME TypeOK, ServiceInv, [Next]_vars PROVE ServiceInv'
<1>1. CASE UNCHANGED vars
  <2>1. UNCHANGED <<phase, runs, queue, outbox, reports, sendRet, tcr, pc, cur, tp, verdict, sigchld>>
    BY <1>1 DEF vars, engineVars, tpcVars, mainVars, tpVars
  <2>2. QED
    BY <2>1, ServesStill
<1>2. QED
  BY <1>1, ServesEngine, ServesMain, ServesSigchld, ServesTestProcess DEF Next

LEMMA Serving == Spec => []Served
<1>1. Served /\ [Next]_vars => Served'
  BY TypeStep, ServesStep DEF Served
<1>2. QED
  BY TypeInit, ServiceInvInit, <1>1, PTL DEF Spec, Served

----------------------------------------------------------------------------
(* The refinement of RunService: which step of the promise each step of    *)
(* the TMC, of the engine and of the test processes takes.                 *)
Busy == {i \in Run : Alive(i)}

LEMMA ServiceInit == Init => Service!Init
BY DEF Init, Service!Init, Alive

(* With no process alive nothing is busy, otherwise the last run is.       *)
Idle == {"none", "zombie", "reaped"}
BusyIsLast == Last \in TpState /\ Busy = IF Last \in Idle THEN {} ELSE {runs}

LEMMA BusyIs == Served => BusyIsLast
<1> SUFFICES ASSUME Served PROVE BusyIsLast
  OBVIOUS
<1>1. \A i \in Run : Alive(i) => i = runs /\ Last = tp[i]
  BY AliveIsLast DEF Served, Alive
<1>2. Last \in TpState
  BY RunsRange DEF Served, ServiceInv, TypeOK, Last, TpState
<1>3. Last \notin Idle => runs \in Run /\ Alive(runs)
  BY <1>2, RunsRange DEF Served, ServiceInv, Last, Alive, Idle, TpState
<1>4. Last \in Idle => \A i \in Run : ~Alive(i)
  BY <1>1 DEF Alive, Idle
<1>5. QED
  BY <1>1, <1>2, <1>3, <1>4 DEF Busy, BusyIsLast

LEMMA BusyIsNext == Served' => BusyIsLast'
BY BusyIs, PTL

LEMMA ServiceSame ==
  ASSUME Served, Served', runs' = runs, reports' = reports, (Last \in Idle) <=> (Last' \in Idle)
  PROVE  UNCHANGED Service!vars
<1>1. Busy' = Busy
  BY BusyIs, BusyIsNext DEF BusyIsLast
<1>2. QED
  BY <1>1 DEF Service!vars, Busy

LEMMA ServiceFinish ==
  ASSUME Served, Served', runs' = runs, reports' = reports, Last \notin Idle, Last' \in Idle
  PROVE  Service!Finish
<1>1. Busy = {runs} /\ Busy' = {}
  BY BusyIs, BusyIsNext DEF BusyIsLast
<1>2. QED
  BY <1>1 DEF Service!Finish, Busy

LEMMA ServiceStill ==
  ASSUME UNCHANGED <<runs, reports, tp>>
  PROVE  UNCHANGED Service!vars
BY DEF Service!vars, Alive

LEMMA ServiceSendExe == ASSUME Served, SendExe PROVE Service!Ask
<1>1. phase = "idle" /\ runs' = runs + 1 /\ UNCHANGED <<reports, tp>>
  BY DEF SendExe, Send, tpVars
<1>2. ~Open /\ Last = "reaped" /\ runs = Len(reports)
  <2>1. ~Open /\ Last = "reaped"
    BY <1>1 DEF Served, ServiceInv, PhaseInv, RunInv
  <2>2. runs \in Nat /\ Len(reports) \in Nat /\ Len(reports) <= runs
    BY RunsRange DEF Served, ServiceInv, TypeOK, RunInv
  <2>3. QED
    BY <2>1, <2>2 DEF Open
<1>3. Busy = {} /\ Busy' = Busy
  BY <1>1, <1>2, BusyIs DEF BusyIsLast, Idle, Busy, Alive
<1>4. QED
  BY <1>1, <1>2, <1>3 DEF Service!Ask, Busy

(* With a report due, its run is the next one of the reports.              *)
LEMMA OpenIs == ASSUME Served, Open PROVE runs = Len(reports) + 1
<1>1. runs \in Nat /\ Len(reports) \in Nat /\ runs <= Len(reports) + 1
  BY RunsRange DEF Served, ServiceInv, TypeOK, RunInv
<1>2. QED
  BY <1>1 DEF Open

LEMMA ServiceFork == ASSUME Served, Served', Fork PROVE Service!Begin
<1>1. UNCHANGED <<runs, reports>> /\ pc' = "setpid"
  BY DEF Fork, At, engineVars
<1>2. Last = "none" /\ Open /\ Last' = "born"
  <2>1. Last = "none" /\ cur.run = runs
    BY DEF Served, ServiceInv, ExeInv, Fork, At
  <2>2. Open
    BY <2>1 DEF Served, ServiceInv, RunInv
  <2>3. runs # 0 /\ runs \in Run /\ tp \in [Run -> TpState] /\ tp' = [tp EXCEPT ![runs] = "born"]
    BY <2>1, RunsRange DEF Served, TypeOK, Fork, Last
  <2>4. QED
    BY <1>1, <2>1, <2>2, <2>3 DEF Last
<1>3. Busy = {} /\ Busy' = {runs}
  BY <1>1, <1>2, BusyIs, BusyIsNext DEF BusyIsLast, Idle
<1>4. QED
  BY <1>1, <1>2, <1>3, OpenIs DEF Service!Begin, Busy

LEMMA ServiceReport == ASSUME Served, Loop, sendRet PROVE Service!Report
<1>1. /\ pc = "loop" /\ reports' = Append(reports, tcr) /\ UNCHANGED <<runs, tp>>
  BY DEF Loop, engineVars, tpVars
<1>2. Open /\ Last = "reaped" /\ tcr.run = runs
  BY <1>1, OpenIs, RunsRange DEF Served, ServiceInv, RunInv, ExeInv, TypeOK
<1>3. Busy = {} /\ Busy' = Busy
  BY <1>1, <1>2, BusyIs DEF BusyIsLast, Idle, Busy, Alive
<1>4. tcr = [run |-> runs, res |-> tcr.res] /\ tcr.res \in Result
  BY <1>2 DEF Served, TypeOK, Report
<1>5. QED
  BY <1>1, <1>2, <1>3, <1>4, OpenIs DEF Service!Report, Busy

LEMMA ServiceKill ==
  ASSUME Served, Served', NEW here, NEW sig, NEW ok, NEW failed, NEW s, Kill(here, sig, ok, failed, s)
  PROVE  Service!Finish \/ UNCHANGED Service!vars
<1>1. UNCHANGED <<runs, reports>>
  BY DEF Kill, engineVars
<1>2. CASE tp' = tp
  BY <1>1, <1>2, ServiceStill
<1>3. CASE sig = "KILL" /\ Alive(arg) /\ tp' = [tp EXCEPT ![arg] = "zombie"] /\ arg # 0
  <2>1. arg \in Run
    BY <1>3, BoundsAssumption DEF Served, ServiceInv, TypeOK, Pid, Run
  <2>2. arg = runs /\ runs # 0 /\ Last = tp[arg] /\ tp \in [Run -> TpState]
    BY <1>3, <2>1, AliveIsLast DEF Served, Alive
  <2>3. Last' = "zombie"
    BY <1>1, <1>3, <2>1, <2>2 DEF Last
  <2>4. QED
    BY <1>1, <1>3, <2>2, <2>3, ServiceFinish DEF Alive, Idle
<1>4. QED
  BY <1>2, <1>3 DEF Kill, Signalled, tpVars

LEMMA ServiceMain == ASSUME Served, Served', Main PROVE Service!Next \/ UNCHANGED Service!vars
<1>1. CASE Loop
  <2>1. CASE ~sendRet
    BY <1>1, <2>1, ServiceStill DEF Loop, engineVars, tpVars
  <2>2. QED
    BY <1>1, <2>1, ServiceReport DEF Service!Next
<1>2. CASE Fork
  BY <1>2, ServiceFork DEF Service!Next
<1>3. CASE Clear \/ Peek \/ Sleep \/ ForkFails \/ SetPid \/ SendRunId \/ SetStatus
  BY <1>3, ServiceStill DEF Clear, Peek, Sleep, ForkFails, SetPid, SendRunId, SetStatus, engineVars, tpVars
<1>4. ASSUME NEW here, NEW next, NEW s, LoadPid(here, next) \/ PutStatus(here, s, next)
      PROVE  UNCHANGED Service!vars
  BY <1>4, ServiceStill DEF LoadPid, PutStatus, engineVars, tpVars
<1>5. CASE HandleRet
  <2>1. CASE Test("ret", pid # 0, "ret2", "sleep")
    BY <2>1, ServiceStill DEF Test, engineVars, tpVars
  <2>2. QED
    BY <1>4, <1>5, <2>1, ServiceKill DEF HandleRet, Service!Next
<1>6. CASE HandlePause
  <2>1. CASE Test("pause", status = "RUNNING", "pause2", "sleep")
    BY <2>1, ServiceStill DEF Test, engineVars, tpVars
  <2>2. QED
    BY <1>4, <1>6, <2>1, ServiceKill DEF HandlePause, Service!Next
<1>7. CASE HandleResume
  <2>1. CASE Test("resume", status = "PAUSED", "resume2", "sleep")
    BY <2>1, ServiceStill DEF Test, engineVars, tpVars
  <2>2. QED
    BY <1>4, <1>7, <2>1, ServiceKill DEF HandleResume, Service!Next
<1>8. CASE Abort
  <2>1. CASE Test("abort", pid # 0, "abort2", AfterAbort)
    BY <2>1, ServiceStill DEF Test, engineVars, tpVars
  <2>2. QED
    BY <1>4, <1>8, <2>1, ServiceKill DEF Abort, Service!Next
<1>9. CASE HandleEnd
  <2>1. CASE Test("end", status = "NONE", "exited", "abort")
    BY <2>1, ServiceStill DEF Test, engineVars, tpVars
  <2>2. QED
    BY <1>4, <1>9, <2>1 DEF HandleEnd
<1>10. QED
  BY <1>1, <1>2, <1>3, <1>5, <1>6, <1>7, <1>8, <1>9 DEF Main

LEMMA ServiceSigchld == ASSUME Served, Served', HandleSigchld PROVE UNCHANGED Service!vars
<1>1. sigchld /\ UNCHANGED <<runs, reports>>
  BY DEF HandleSigchld, engineVars
<1>2. CASE tp' = tp
  BY <1>1, <1>2, ServiceStill
<1>3. CASE tp' = [i \in Run |-> IF i \in Zombies THEN "reaped" ELSE tp[i]]
  <2>1. Last = "zombie" /\ runs \in Run /\ runs # 0 /\ runs \in Zombies
    BY <1>1, ReapsTheLast DEF Served, Run
  <2>2. Last' = "reaped"
    BY <1>1, <1>3, <2>1 DEF Last
  <2>3. QED
    BY <1>1, <2>1, <2>2, ServiceSame DEF Idle
<1>4. QED
  BY <1>2, <1>3 DEF HandleSigchld

LEMMA ServiceTestProcess ==
  ASSUME Served, Served', NEW i \in Run, TestProcess(i)
  PROVE  Service!Finish \/ UNCHANGED Service!vars
<1>1. UNCHANGED <<runs, reports>>
  BY DEF TestProcess, TpStart, TpFinish, TpCrash, TpReport, TpVanish, TpExit, TpDie, TpGone, TpUnchanged, engineVars
<1>2. /\ tp[i] \in {"born", "running", "done", "crashed"}
      /\ \E next \in {"running", "done", "crashed", "zombie"} : tp' = [tp EXCEPT ![i] = next]
  BY DEF TestProcess, TpStart, TpFinish, TpCrash, TpReport, TpVanish, TpExit, TpDie, TpGone
<1>3. i = runs /\ runs # 0 /\ Last = tp[i] /\ tp \in [Run -> TpState]
  BY <1>2, AliveIsLast DEF Served
<1>4. Last' \in {"running", "done", "crashed", "zombie"}
  BY <1>1, <1>2, <1>3 DEF Last
<1>5. QED
  BY <1>1, <1>2, <1>3, <1>4, ServiceSame, ServiceFinish DEF Idle

(* The TMC is the service the engine relies on: one report for each        *)
(* MSG_EXE, in the order they were sent, none for another run, and only    *)
(* when the process of the run is gone, under every interleaving of        *)
(* gu_run_tmc with gu_handle_sigchld and of both with the test process.    *)
THEOREM Implementation == Spec => ImplementsRunService
<1>1. Served /\ Served' /\ [Next]_vars => [Service!Next]_(Service!vars)
  <2> SUFFICES ASSUME Served, Served', [Next]_vars PROVE Service!Next \/ UNCHANGED Service!vars
    OBVIOUS
  <2>1. CASE Engine
    <3>1. CASE SendExe
      BY <3>1, ServiceSendExe DEF Service!Next
    <3>2. CASE SendPause \/ SendResume \/ SendStop \/ SendEnd \/ Receive
      BY <3>2, ServiceStill DEF SendPause, SendResume, SendStop, SendEnd, Receive, Send, tpVars
    <3>3. QED
      BY <2>1, <3>1, <3>2 DEF Engine
  <2>2. CASE UNCHANGED vars
    BY <2>2, ServiceStill DEF vars, engineVars, tpVars
  <2>3. ASSUME NEW i \in Run, TestProcess(i) PROVE Service!Next \/ UNCHANGED Service!vars
    BY <2>3, ServiceTestProcess DEF Service!Next
  <2>4. QED
    BY <2>1, <2>2, <2>3, ServiceMain, ServiceSigchld DEF Next
<1>2. QED
  BY Serving, ServiceInit, <1>1, PTL DEF Spec, ImplementsRunService, Service!Spec

----------------------------------------------------------------------------
(* What globaltcr says is what the test said, or that it was aborted.       *)
Told == tcr.run = runs /\ tcr.res \in {Said, "aborted"}

There == {"born", "running", "done", "crashed", "zombie"}
Forking == {"setpid", "runid", "setstatus"}

(* A MSG_RET left over from an earlier run is read before the MSG_EXE.     *)
QueueInv ==
  /\ \A k \in DOMAIN queue : queue[k].type = "exe" =>
       /\ queue[k].run = runs /\ Last = "none" /\ pc # "fork"
       /\ \A j \in DOMAIN queue : (queue[j].type = "exe" => j = k) /\ (queue[j].type = "ret" => j < k)
  /\ \A k \in DOMAIN queue : queue[k].type = "ret" /\ Last # "none" =>
       queue[k].run = runs /\ queue[k].res = Said
  /\ \A k \in DOMAIN queue : queue[k].type = "ret" => queue[k].res # "none"

(* Where the main loop is, and what the handler may have done meanwhile.   *)
MainInv ==
  /\ pc = "fork" => /\ cur.run = runs /\ Last = "none" /\ tcr = [run |-> runs, res |-> "none"]
                    /\ \A k \in DOMAIN queue : queue[k].type # "ret"
  /\ pc \in Forking => cur.run = runs /\ Last = "born"
  /\ Last = "born" => pc \in Forking \cup {"sleep"}
  /\ pid = IF Last \in There /\ pc # "setpid" THEN runs ELSE 0
  /\ pc \in {"ret3", "pause4", "resume3", "abort4"} => arg \in {0, runs} /\ (arg # 0 => Last \notin {"none", "born"})
  /\ pc = "pause4" /\ arg # 0 => Last # "reaped"
  /\ pc \in {"ret2", "ret3", "abort2", "abort3", "abort4", "abort5"} => Open /\ Last \notin {"none", "born"}
  /\ pc \in {"abort5", "end2", "exited"} => Last \in {"none", "zombie", "reaped"}

StatusInv ==
  /\ pc \in {"pause3", "pause4"} => status = "PAUSED"
  /\ pc = "pause2" => status \in {"RUNNING", "NONE"}
  /\ pc \in {"resume2", "resume3", "resume4"} => status = "PAUSED" /\ Last \in There
  /\ pc \in {"abort3", "abort4", "abort5"} => status = "ABORTED" \/ Last = "reaped"
  /\ status = "RUNNING" => Last \in There
  /\ status = "PAUSED" => Last \in There \/ pc \in {"pause3", "pause4", "hit"}
  /\ status = "NONE" => Last \in {"none", "reaped"} \/ pc \in Forking \cup {"exited"}

(* What the test has said is in globaltcr or in the queue, and in          *)
(* globaltcr when its process is gone.                                     *)
TellInv ==
  /\ Last \in {"none", "born", "running"} => Said = "none"
  /\ (Last = "done" => Said = "finished") /\ (Last = "crashed" => Said = "crashed")
  /\ Last # "none" => tcr.run = runs /\ tcr.res \in {"none", Said, "aborted"}
  /\ pc \in {"ret", "ret2", "ret3"} /\ Last # "none" => Told /\ Last \notin {"born", "running"}
  /\ Last \in {"done", "crashed"} => Told \/ \E k \in DOMAIN queue : queue[k] = Msg("ret", runs, Said)
  /\ \A i \in usr2 : i <= runs /\ (i = runs => Told /\ Last \notin {"none", "born", "running"})
  /\ Last = "zombie" => Told \/ status = "ABORTED" \/ pc = "exited"
  /\ Last = "reaped" => Told

IInv == TypeOK /\ RunInv /\ PhaseInv /\ QueueInv /\ MainInv /\ StatusInv /\ TellInv /\ TrueReport

----------------------------------------------------------------------------
LEMMA InitIInv == Init => IInv
<1> SUFFICES ASSUME Init PROVE IInv
  OBVIOUS
<1>1. TypeOK
  BY TypeInit
<1>2. RunInv /\ PhaseInv
  BY DEF Init, RunInv, PhaseInv, IsRet, Open, Last, Run
<1>3. QueueInv /\ MainInv
  BY DEF Init, QueueInv, MainInv, Open, Last, There, Forking
<1>4. StatusInv /\ TellInv /\ TrueReport
  BY DEF Init, StatusInv, TellInv, TrueReport, Last, Said, Told, There, Forking
<1>5. QED
  BY <1>1, <1>2, <1>3, <1>4 DEF IInv

(* What the sleeps make true includes what holds without them.             *)
LEMMA IInvServes == IInv => TypeOK /\ ServiceInv
BY DEF IInv, ServiceInv, ExeInv, QueueInv, MainInv, TellInv

LEMMA SendExeStep == ASSUME IInv, SendExe PROVE IInv'
<1> DEFINE m == Msg("exe", runs + 1, "none")
<1>1. /\ phase = "idle" /\ runs < MaxRuns /\ phase' = "running" /\ runs' = runs + 1
      /\ queue' = Append(queue, m)
      /\ UNCHANGED <<ended, outbox, reports, pid, status, sendRet, tcr, pc, cur, arg, hit, tp, stopped, usr2, verdict, sigchld>>
  BY DEF SendExe, Send, tpcVars, mainVars, tpVars
<1>2. runs \in Nat /\ runs' \in Run /\ runs' \in Pid
  BY <1>1, RunsRange, BoundsAssumption DEF IInv, Run, Pid
<1>3. m \in Message
  BY <1>1, <1>2 DEF Msg, Message, Result
<1>4. /\ queue' \in Seq(Message)
      /\ DOMAIN queue' = DOMAIN queue \cup {Len(queue) + 1}
      /\ \A k \in DOMAIN queue : k < Len(queue) + 1 /\ queue'[k] = queue[k]
      /\ queue'[Len(queue) + 1] = m
  BY <1>1, <1>3, QueueAppend DEF IInv
<1>5. m.type = "exe" /\ m.run = runs' /\ m.type # "ret"
  BY <1>1 DEF Msg
<1> HIDE DEF m
<1>6. Last = "reaped" /\ Last' = "none" /\ Said' = "none" /\ ~Open /\ Open'
  <2>1. Len(reports) <= runs /\ runs <= Len(reports) + 1 /\ ~Open
    BY <1>1 DEF IInv, RunInv, PhaseInv
  <2>2. Open'
    BY <1>1, <1>2, <2>1 DEF Open, IInv, TypeOK
  <2>3. QED
    BY <1>1, <1>2, <2>1, <2>2 DEF IInv, RunInv, Last, Said
<1>7. TypeOK'
  BY <1>1, <1>2, <1>4 DEF IInv, TypeOK
<1>8. RunInv'
  <2>1. Len(reports)' = runs /\ \A i \in Run : i < runs' => tp'[i] = "reaped"
    BY <1>1, <1>2, <1>6 DEF IInv, RunInv, Last, Open, TypeOK, Run
  <2>2. QED
    BY <1>1, <1>2, <1>6, <2>1 DEF IInv, RunInv
<1>9. PhaseInv'
  BY <1>1, <1>6 DEF IInv, PhaseInv, IsRet
<1>10. QueueInv'
  <2>1. \A k \in DOMAIN queue : queue[k].type # "exe"
    BY <1>6 DEF IInv, QueueInv
  <2>2. pc' # "fork"
    BY <1>1, <1>6 DEF IInv, MainInv
  <2>3. \A k \in DOMAIN queue' : queue'[k].type = "ret" => k # Len(queue) + 1 /\ queue'[k].res # "none"
    BY <1>4, <1>5 DEF IInv, QueueInv
  <2>4. \A k \in DOMAIN queue' : queue'[k].type = "exe" => k = Len(queue) + 1
    BY <1>4, <2>1
  <2>5. QED
    BY <1>1, <1>4, <1>5, <1>6, <2>2, <2>3, <2>4 DEF QueueInv
<1>11. /\ pc \notin {"fork", "ret2", "ret3", "abort2", "abort3", "abort4", "abort5", "resume2", "resume3", "resume4"}
       /\ pc \notin Forking /\ status # "RUNNING" /\ pid = 0
       /\ pc = "pause4" => arg = 0
       /\ status = "PAUSED" => pc \in {"pause3", "pause4", "hit"}
  BY <1>6 DEF IInv, MainInv, StatusInv, There
<1>12. MainInv' /\ StatusInv'
  <2>1. MainInv'
    BY <1>1, <1>2, <1>6, <1>11 DEF MainInv, There
  <2>2. StatusInv'
    BY <1>1, <1>6, <1>11 DEF IInv, StatusInv, There
  <2>3. QED
    BY <2>1, <2>2
<1>13. TellInv'
  BY <1>1, <1>2, <1>6, RunsRange DEF IInv, TellInv, TypeOK, Run
<1>14. TrueReport'
  BY <1>1 DEF IInv, TrueReport
<1>15. QED
  BY <1>7, <1>8, <1>9, <1>10, <1>11, <1>12, <1>13, <1>14 DEF IInv

LEMMA SendOtherStep ==
  ASSUME IInv, NEW m \in Message, m.type \notin {"exe", "ret"}, queue' = Append(queue, m),
         phase' \in {"idle", "running", "paused"}, phase' = "idle" <=> phase = "idle",
         ended' \in BOOLEAN,
         UNCHANGED <<runs, outbox, reports, pid, status, sendRet, tcr, pc, cur, arg, hit, tp, stopped, usr2, verdict, sigchld>>
  PROVE  IInv'
<1>1. /\ queue' \in Seq(Message)
      /\ DOMAIN queue' = DOMAIN queue \cup {Len(queue) + 1}
      /\ \A k \in DOMAIN queue : k < Len(queue) + 1 /\ queue'[k] = queue[k]
      /\ queue'[Len(queue) + 1] = m
  BY QueueAppend DEF IInv
<1>2. Last' = Last /\ Said' = Said /\ Open' = Open /\ Told' = Told
  BY DEF Last, Said, Open, Told
<1>3. TypeOK' /\ RunInv' /\ TrueReport'
  <2>1. TypeOK'
    BY <1>1 DEF IInv, TypeOK
  <2>2. RunInv' /\ TrueReport'
    BY <1>2 DEF IInv, RunInv, TrueReport
  <2>3. QED
    BY <2>1, <2>2
<1>4. PhaseInv'
  BY <1>2 DEF IInv, PhaseInv, IsRet
<1>5. QueueInv'
  BY <1>1, <1>2 DEF IInv, QueueInv
<1>6. MainInv'
  BY <1>1, <1>2 DEF IInv, MainInv
<1>7. StatusInv'
  BY <1>2 DEF IInv, StatusInv
<1>8. TellInv'
  BY <1>1, <1>2 DEF IInv, TellInv
<1>9. QED
  BY <1>3, <1>4, <1>5, <1>6, <1>7, <1>8 DEF IInv

LEMMA ReceiveStep == ASSUME IInv, Receive PROVE IInv'
<1>1. /\ outbox # <<>> /\ outbox' = Tail(outbox)
      /\ phase' = IF Head(outbox).type = "ret" THEN "idle" ELSE phase
      /\ UNCHANGED <<runs, ended, queue, reports, pid, status, sendRet, tcr, pc, cur, arg, hit, tp, stopped, usr2, verdict, sigchld>>
  BY DEF Receive, tpcVars, mainVars, tpVars
<1>2. /\ outbox' \in Seq(Outgoing) /\ 1 \in DOMAIN outbox /\ Head(outbox) = outbox[1]
      /\ \A k \in DOMAIN outbox' : k + 1 \in DOMAIN outbox /\ k + 1 # 1 /\ outbox'[k] = outbox[k + 1]
  <2>1. outbox \in Seq(Outgoing)
    BY DEF IInv, TypeOK
  <2>2. /\ Tail(outbox) \in Seq(Outgoing) /\ Len(Tail(outbox)) = Len(outbox) - 1
        /\ \A k \in 1..Len(Tail(outbox)) : Tail(outbox)[k] = outbox[k + 1]
    BY <1>1, <2>1
  <2>3. QED
    BY <1>1, <2>1, <2>2
<1>3. Last' = Last /\ Said' = Said /\ Open' = Open /\ Told' = Told
  BY <1>1 DEF Last, Said, Open, Told
<1>4. TypeOK'
  BY <1>1, <1>2 DEF IInv, TypeOK
<1>5. RunInv' /\ QueueInv' /\ TrueReport'
  BY <1>1, <1>3 DEF IInv, RunInv, QueueInv, TrueReport
<1>6. PhaseInv'
  <2>1. \A k \in DOMAIN outbox' : IsRet(outbox', k) => IsRet(outbox, k + 1)
    BY <1>2 DEF IsRet
  <2>2. \A j, k \in DOMAIN outbox' : IsRet(outbox', j) /\ IsRet(outbox', k) => j = k
    BY <1>2, <2>1 DEF IInv, PhaseInv, IsRet
  <2>3. CASE Head(outbox).type = "ret"
    <3>1. IsRet(outbox, 1)
      BY <1>2, <2>3 DEF IsRet
    <3>2. ~Open /\ \A k \in DOMAIN outbox' : ~IsRet(outbox', k)
      BY <1>2, <2>1, <3>1 DEF IInv, PhaseInv
    <3>3. QED
      BY <1>3, <2>2, <3>2 DEF PhaseInv, IsRet
  <2>4. CASE Head(outbox).type # "ret"
    <3>1. phase' = phase
      BY <1>1, <2>4
    <3>2. phase = "idle" \/ Open => \A k \in DOMAIN outbox' : ~IsRet(outbox', k)
      BY <1>2, <2>1 DEF IInv, PhaseInv
    <3>3. QED
      BY <1>3, <2>2, <3>1, <3>2 DEF IInv, PhaseInv, IsRet
  <2>5. QED
    BY <2>3, <2>4
<1>7. MainInv' /\ StatusInv'
  BY <1>1, <1>3 DEF IInv, MainInv, StatusInv
<1>8. TellInv'
  BY <1>1, <1>3 DEF IInv, TellInv
<1>9. QED
  BY <1>4, <1>5, <1>6, <1>7, <1>8 DEF IInv

LEMMA EngineStep == ASSUME IInv, Engine PROVE IInv'
<1> DEFINE m(type) == Msg(type, runs, "none")
<1>1. \A type \in {"pause", "resume", "stop", "end"} : m(type) \in Message /\ m(type).type = type
  BY DEF IInv, TypeOK, Msg, Message, Result
<1> HIDE DEF m
<1>2. CASE SendPause
  <2>1. /\ phase = "running" /\ phase' = "paused" /\ queue' = Append(queue, m("pause"))
        /\ UNCHANGED <<runs, ended, outbox, reports, pid, status, sendRet, tcr, pc, cur, arg, hit, tp, stopped, usr2, verdict, sigchld>>
    BY <1>2 DEF SendPause, Send, tpcVars, mainVars, tpVars, m
  <2>2. ended' \in BOOLEAN
    BY <2>1 DEF IInv, TypeOK
  <2>3. QED
    BY <1>1, <2>1, <2>2, SendOtherStep
<1>3. CASE SendResume
  <2>1. /\ phase = "paused" /\ phase' = "running" /\ queue' = Append(queue, m("resume"))
        /\ UNCHANGED <<runs, ended, outbox, reports, pid, status, sendRet, tcr, pc, cur, arg, hit, tp, stopped, usr2, verdict, sigchld>>
    BY <1>3 DEF SendResume, Send, tpcVars, mainVars, tpVars, m
  <2>2. ended' \in BOOLEAN
    BY <2>1 DEF IInv, TypeOK
  <2>3. QED
    BY <1>1, <2>1, <2>2, SendOtherStep
<1>4. CASE SendStop
  <2>1. /\ queue' = Append(queue, m("stop"))
        /\ UNCHANGED <<phase, runs, ended, outbox, reports, pid, status, sendRet, tcr, pc, cur, arg, hit, tp, stopped, usr2, verdict, sigchld>>
    BY <1>4 DEF SendStop, Send, tpcVars, mainVars, tpVars, m
  <2>2. ended' \in BOOLEAN /\ phase' \in {"idle", "running", "paused"}
    BY <2>1 DEF IInv, TypeOK
  <2>3. QED
    BY <1>1, <2>1, <2>2, SendOtherStep
<1>5. CASE SendEnd
  <2>1. /\ queue' = Append(queue, m("end")) /\ ended' = TRUE
        /\ UNCHANGED <<phase, runs, outbox, reports, pid, status, sendRet, tcr, pc, cur, arg, hit, tp, stopped, usr2, verdict, sigchld>>
    BY <1>5 DEF SendEnd, Send, tpcVars, mainVars, tpVars, m
  <2>2. ended' \in BOOLEAN /\ phase' \in {"idle", "running", "paused"}
    BY <2>1 DEF IInv, TypeOK
  <2>3. QED
    BY <1>1, <2>1, <2>2, SendOtherStep
<1>6. QED
  BY <1>2, <1>3, <1>4, <1>5, SendExeStep, ReceiveStep DEF Engine

----------------------------------------------------------------------------
(* The main loop.  Most of its instructions move it on and change no more  *)
(* than a field that it reads or writes.                                   *)
Handling == {"ret", "ret2", "ret3"}

LEMMA MoveStep ==
  ASSUME IInv,
         UNCHANGED <<phase, runs, ended, queue, reports, sendRet, tcr, cur, tp, stopped, usr2, verdict, sigchld>>,
         outbox' \in Seq(Outgoing), \A k \in DOMAIN outbox' : IsRet(outbox', k) => IsRet(outbox, k),
         pc # "clear", pc' \in PC \ {"clear", "fork"}, arg' \in Pid, pid' \in Pid,
         status' \in Status, hit' \subseteq Signal, pc' \in Handling => pc \in Handling,
         Last = "zombie" /\ (status = "ABORTED" \/ pc = "exited") => status' = "ABORTED" \/ pc' = "exited",
         MainInv', StatusInv'
  PROVE  IInv'
<1>1. Last' = Last /\ Said' = Said /\ Open' = Open /\ Told' = Told
  BY DEF Last, Said, Open, Told
<1>2. TypeOK'
  BY DEF IInv, TypeOK
<1>3. RunInv' /\ TrueReport'
  BY <1>1 DEF IInv, RunInv, TrueReport
<1>4. PhaseInv'
  BY <1>1 DEF IInv, PhaseInv, IsRet
<1>5. QueueInv'
  BY <1>1 DEF IInv, QueueInv
<1>6. TellInv'
  BY <1>1 DEF IInv, TellInv, Handling
<1>7. QED
  BY <1>2, <1>3, <1>4, <1>5, <1>6 DEF IInv

LEMMA IInvTyped == IInv => TypeOK
BY DEF IInv

LEMMA LoopStep == ASSUME IInv, Loop PROVE IInv'
<1>1. /\ pc = "loop"
      /\ UNCHANGED <<phase, runs, ended, queue, pid, status, sendRet, tcr, cur, arg, hit, tp, stopped, usr2, verdict, sigchld>>
  BY DEF Loop, engineVars, tpcVars, tpVars
<1>2. CASE sendRet
  <2> DEFINE m == [type |-> "ret", run |-> tcr.run, res |-> tcr.res]
  <2>1. outbox' = Append(outbox, m) /\ reports' = Append(reports, tcr) /\ pc' = "clear"
    BY <1>2 DEF Loop
  <2>2. m \in Outgoing /\ m.type = "ret" /\ tcr \in Report
    BY DEF IInv, TypeOK, Outgoing, Report
  <2> HIDE DEF m
  <2>3. /\ outbox' \in Seq(Outgoing)
        /\ DOMAIN outbox' = DOMAIN outbox \cup {Len(outbox) + 1}
        /\ \A k \in DOMAIN outbox : outbox'[k] = outbox[k]
    BY <2>1, <2>2, AppendProperties DEF IInv, TypeOK
  <2>4. /\ reports' \in Seq(Report) /\ Len(reports') = Len(reports) + 1 /\ Len(reports) \in Nat
        /\ DOMAIN reports' = DOMAIN reports \cup {Len(reports) + 1}
        /\ \A k \in DOMAIN reports : reports'[k] = reports[k]
        /\ reports'[Len(reports) + 1] = tcr
    BY <2>1, <2>2, AppendProperties DEF IInv, TypeOK
  <2>5. Last' = Last /\ Said' = Said /\ Told' = Told
    BY <1>1 DEF Last, Said, Told
  <2>6. Open /\ Last = "reaped" /\ Told /\ runs \in Nat /\ Len(reports) + 1 = runs
    BY <1>1, <1>2, <2>4, RunsRange DEF IInv, RunInv, TellInv, Open
  <2>7. ~Open'
    BY <1>1, <2>4, <2>6 DEF Open
  <2>8. TypeOK'
    BY <1>1, <2>1, <2>3, <2>4 DEF IInv, TypeOK, PC
  <2>9. RunInv'
    <3>1. \A k \in DOMAIN reports' : reports'[k].run = k
      BY <2>4, <2>6 DEF IInv, RunInv, Told
    <3>2. Len(reports') <= runs' /\ runs' <= Len(reports') + 1
      BY <1>1, <2>4, <2>6
    <3>3. QED
      BY <1>1, <2>1, <2>5, <2>6, <2>7, <3>1, <3>2 DEF IInv, RunInv
  <2>10. PhaseInv'
    <3>1. phase # "idle" /\ \A k : ~IsRet(outbox, k)
      BY <2>6 DEF IInv, PhaseInv
    <3>2. \A k : IsRet(outbox', k) => k = Len(outbox) + 1
      BY <2>3, <3>1 DEF IsRet
    <3>3. QED
      BY <1>1, <2>7, <3>1, <3>2 DEF PhaseInv
  <2>11. QueueInv'
    BY <1>1, <2>1, <2>5 DEF IInv, QueueInv
  <2>12. MainInv' /\ StatusInv'
    BY <1>1, <2>1, <2>5, <2>6 DEF IInv, MainInv, StatusInv, There, Forking
  <2>13. TellInv'
    BY <1>1, <2>1, <2>5 DEF IInv, TellInv
  <2>14. TrueReport'
    <3>1. tcr.res \in {verdict[tcr.run], "aborted"}
      BY <2>6, <2>4 DEF Told, Said
    <3>2. QED
      BY <1>1, <2>4, <3>1 DEF IInv, TrueReport
  <2>15. QED
    BY <2>8, <2>9, <2>10, <2>11, <2>12, <2>13, <2>14 DEF IInv
<1>3. CASE ~sendRet
  <2>1. pc' = "peek" /\ outbox' = outbox /\ reports' = reports
    BY <1>3 DEF Loop
  <2>2. Last' = Last /\ Said' = Said /\ Open' = Open /\ Told' = Told
    BY <1>1, <2>1 DEF Last, Said, Open, Told
  <2>3. MainInv' /\ StatusInv'
    BY <1>1, <2>1, <2>2 DEF IInv, MainInv, StatusInv, There, Forking
  <2>4. IInv => TypeOK
    BY DEF IInv
  <2>5. QED
    BY <1>1, <2>1, <2>3, <2>4, TypeFacts, MoveStep DEF PC, Handling
<1>4. QED
  BY <1>2, <1>3

LEMMA ClearStep == ASSUME IInv, Clear PROVE IInv'
<1>1. /\ pc = "clear" /\ pc' = "peek" /\ sendRet' = FALSE
      /\ UNCHANGED <<phase, runs, ended, queue, outbox, reports, pid, status, tcr, cur, arg, hit, tp, stopped, usr2, verdict, sigchld>>
  BY DEF Clear, At, engineVars, tpVars
<1>2. Last' = Last /\ Said' = Said /\ Open' = Open /\ Told' = Told
  BY <1>1 DEF Last, Said, Open, Told
<1>3. TypeOK' /\ RunInv' /\ TrueReport'
  BY <1>1, <1>2 DEF IInv, TypeOK, PC, RunInv, TrueReport
<1>4. PhaseInv' /\ QueueInv'
  BY <1>1, <1>2 DEF IInv, PhaseInv, QueueInv, IsRet
<1>5. MainInv' /\ StatusInv'
  BY <1>1, <1>2 DEF IInv, MainInv, StatusInv, There, Forking
<1>6. TellInv'
  BY <1>1, <1>2 DEF IInv, TellInv
<1>7. QED
  BY <1>3, <1>4, <1>5, <1>6 DEF IInv

LEMMA PeekStep == ASSUME IInv, Peek PROVE IInv'
<1>1. /\ pc = "peek"
      /\ UNCHANGED <<phase, runs, ended, outbox, reports, pid, status, sendRet, arg, hit, tp, stopped, usr2, verdict, sigchld>>
  BY DEF Peek, engineVars, tpVars
<1>2. TypeOK
  BY DEF IInv
<1>3. CASE queue = <<>>
  <2>1. pc' = "sleep" /\ queue' = queue /\ cur' = cur /\ tcr' = tcr
    BY <1>3 DEF Peek
  <2>2. Last' = Last /\ Said' = Said /\ Open' = Open /\ Told' = Told
    BY <1>1, <2>1 DEF Last, Said, Open, Told
  <2>3. MainInv' /\ StatusInv'
    BY <1>1, <2>1, <2>2 DEF IInv, MainInv, StatusInv, There, Forking
  <2>4. QED
    BY <1>1, <1>2, <2>1, <2>3, TypeFacts, MoveStep DEF PC, Handling
<1>4. CASE queue # <<>>
  <2>1. /\ cur' = Head(queue) /\ queue' = Tail(queue)
        /\ pc' = HandlerOf(cur'.type) /\ tcr' = Recorded(cur')
    BY <1>4 DEF Peek
  <2>2. /\ queue' \in Seq(Message) /\ 1 \in DOMAIN queue /\ cur' = queue[1] /\ cur' \in Message
        /\ \A k \in DOMAIN queue' : k \in Nat /\ k + 1 \in DOMAIN queue /\ k + 1 # 1 /\ queue'[k] = queue[k + 1]
        /\ \A k \in DOMAIN queue : k \in Nat /\ k >= 1 /\ (k # 1 => k - 1 \in DOMAIN queue' /\ queue'[k - 1] = queue[k])
    <3>1. queue \in Seq(Message)
      BY <1>2 DEF TypeOK
    <3>2. /\ Tail(queue) \in Seq(Message) /\ Len(Tail(queue)) = Len(queue) - 1
          /\ \A k \in 1..Len(Tail(queue)) : Tail(queue)[k] = queue[k + 1]
      BY <1>4, <3>1
    <3>3. QED
      BY <1>4, <2>1, <3>1, <3>2
  <2>3. Last' = Last /\ Said' = Said /\ Open' = Open
    BY <1>1 DEF Last, Said, Open
  <2>4. Last # "born" /\ runs \in Nat /\ runs \in Pid
    BY <1>1, <1>2, RunsRange DEF IInv, MainInv, Forking, TypeOK
  <2>5. /\ cur'.type = "exe" => cur'.run = runs /\ Last = "none" /\ \A k \in DOMAIN queue : queue[k].type # "ret"
        /\ cur'.type = "ret" /\ Last # "none" => cur'.res = Said /\ cur'.res # "none"
    BY <2>2 DEF IInv, QueueInv
  <2>6. /\ cur'.type = "exe" => tcr' = [run |-> runs, res |-> "none"]
        /\ cur'.type = "ret" => tcr' = [run |-> tcr.run, res |-> cur'.res]
        /\ cur'.type \notin {"exe", "ret"} => tcr' = tcr
    BY <2>1, <2>5 DEF Recorded
  <2>7. /\ pc' \in {"fork", "ret", "pause", "resume", "abort", "end"}
        /\ pc' = "fork" <=> cur'.type = "exe"
        /\ pc' = "ret" <=> cur'.type = "ret"
    <3>1. cur'.type \in {"exe", "ret", "pause", "resume", "stop", "end"}
      BY <2>2 DEF Message
    <3>2. QED
      BY <2>1, <3>1 DEF HandlerOf
  <2>8. tcr' \in Report
    BY <1>2, <2>2, <2>4, <2>5, <2>6 DEF TypeOK, Message, Report, Result
  <2>9. TypeOK'
    BY <1>1, <1>2, <2>2, <2>7, <2>8 DEF TypeOK, PC
  <2>10. RunInv' /\ TrueReport'
    BY <1>1, <2>3, <2>7 DEF IInv, RunInv, TrueReport
  <2>11. PhaseInv'
    BY <1>1, <2>3 DEF IInv, PhaseInv, IsRet
  <2>12. QueueInv'
    <3>1. ASSUME NEW k \in DOMAIN queue', queue'[k].type = "exe"
          PROVE  /\ queue'[k].run = runs /\ Last = "none" /\ pc' # "fork"
                 /\ \A j \in DOMAIN queue' : (queue'[j].type = "exe" => j = k) /\ (queue'[j].type = "ret" => j < k)
      <4>1. /\ queue[k + 1].type = "exe" /\ k + 1 \in DOMAIN queue
        BY <2>2, <3>1
      <4>2. \A j \in DOMAIN queue : (queue[j].type = "exe" => j = k + 1) /\ (queue[j].type = "ret" => j < k + 1)
        BY <4>1 DEF IInv, QueueInv
      <4>3. queue[k + 1].run = runs /\ Last = "none"
        BY <4>1 DEF IInv, QueueInv
      <4>4. pc' # "fork"
        BY <2>2, <2>7, <4>2
      <4>5. QED
        BY <2>2, <4>2, <4>3, <4>4
    <3>2. QED
      BY <1>1, <2>2, <2>3, <3>1 DEF IInv, QueueInv
  <2>13. MainInv'
    <3>1. pc' = "fork" => \A k \in DOMAIN queue' : queue'[k].type # "ret"
      BY <2>2, <2>5, <2>7
    <3>2. QED
      BY <1>1, <2>2, <2>3, <2>4, <2>5, <2>6, <2>7, <3>1 DEF IInv, MainInv, Forking
  <2>14. StatusInv'
    BY <1>1, <2>3, <2>4, <2>7 DEF IInv, StatusInv, Forking
  <2>15. TellInv'
    <3>1. Last # "none" => cur'.type # "exe"
      BY <2>5
    <3>2. cur'.type = "ret" /\ Last # "none" => Told' /\ Last # "running"
      BY <1>1, <2>3, <2>4, <2>5, <2>6 DEF IInv, TellInv, Told
    <3>3. Last # "none" /\ cur'.type # "ret" => tcr' = tcr /\ Told' = Told
      BY <1>1, <2>3, <2>6, <3>1 DEF Told
    <3>4. Last \in {"done", "crashed"} => Told' \/ \E k \in DOMAIN queue' : queue'[k] = Msg("ret", runs, Said)
      <4>1. SUFFICES ASSUME Last \in {"done", "crashed"}, ~Told'
                     PROVE  \E k \in DOMAIN queue' : queue'[k] = Msg("ret", runs, Said)
        OBVIOUS
      <4>2. PICK k \in DOMAIN queue : queue[k] = Msg("ret", runs, Said)
        BY <3>2, <3>3, <4>1 DEF IInv, TellInv
      <4>3. k # 1
        BY <2>2, <3>2, <4>1, <4>2 DEF Msg
      <4>4. QED
        BY <2>2, <4>2, <4>3
    <3>5. Last # "none" => tcr'.run = runs /\ tcr'.res \in {"none", Said, "aborted"}
      BY <2>5, <2>6, <3>1 DEF IInv, TellInv
    <3>6. Last # "none" /\ Told => Told'
      BY <3>2, <3>3
    <3>7. pc' \in {"ret", "ret2", "ret3"} /\ Last # "none" => Told' /\ Last \notin {"born", "running"}
      BY <2>4, <2>7, <3>2
    <3>8. \A i \in usr2 : i <= runs /\ (i = runs => Told' /\ Last \notin {"none", "born", "running"})
      BY <3>6 DEF IInv, TellInv
    <3>9. /\ Last = "zombie" => Told' \/ status = "ABORTED" \/ pc' = "exited"
          /\ Last = "reaped" => Told'
      BY <1>1, <3>6 DEF IInv, TellInv
    <3>10. QED
      BY <1>1, <2>3, <3>4, <3>5, <3>7, <3>8, <3>9 DEF IInv, TellInv
  <2>16. QED
    BY <2>9, <2>10, <2>11, <2>12, <2>13, <2>14, <2>15 DEF IInv
<1>5. QED
  BY <1>3, <1>4

(* gu_handle_exe.                                                          *)
LEMMA SleepStep == ASSUME SleepsSuffice, IInv, Sleep PROVE IInv'
<1>1. /\ pc = "sleep" /\ pc' = "loop" /\ \A i \in Run : tp[i] # "born"
      /\ UNCHANGED <<phase, runs, ended, queue, outbox, reports, sendRet, pid, status, tcr, cur, arg, hit, tp, stopped, usr2, verdict, sigchld>>
  BY DEF Sleep, At, engineVars, tpcVars, tpVars
<1>2. TypeOK
  BY DEF IInv
<1>3. Last' = Last /\ Open' = Open /\ Last # "born"
  BY <1>1, <1>2, RunsRange DEF Last, Open
<1>4. MainInv' /\ StatusInv'
  BY <1>1, <1>3 DEF IInv, MainInv, StatusInv, There, Forking
<1>5. QED
  BY <1>1, <1>2, <1>4, TypeFacts, MoveStep DEF PC, Handling

LEMMA ForkStep == ASSUME IInv, Fork PROVE IInv'
<1>1. /\ pc = "fork" /\ pc' = "setpid" /\ tp' = [tp EXCEPT ![cur.run] = "born"]
      /\ UNCHANGED <<phase, runs, ended, queue, outbox, reports, sendRet, pid, status, tcr, cur, arg, hit, stopped, usr2, verdict, sigchld>>
  BY DEF Fork, At, engineVars, tpcVars
<1>2. cur.run = runs /\ Last = "none" /\ runs # 0 /\ runs \in Nat /\ runs \in Run
  BY <1>1, RunsRange DEF IInv, MainInv, Last
<1>3. tp \in [Run -> TpState] /\ tp' = [tp EXCEPT ![runs] = "born"]
  BY <1>1, <1>2 DEF IInv, TypeOK
<1>4. Last' = "born" /\ Said' = Said /\ Open' = Open /\ Told' = Told /\ Open
  BY <1>1, <1>2, <1>3 DEF Last, Said, Open, Told, IInv, RunInv
<1>5. TypeOK' /\ TrueReport'
  BY <1>1, <1>3 DEF IInv, TypeOK, PC, TpState, TrueReport
<1>6. RunInv' /\ PhaseInv'
  <2>1. RunInv'
    BY <1>1, <1>2, <1>3, <1>4 DEF IInv, RunInv
  <2>2. PhaseInv'
    BY <1>1, <1>4 DEF IInv, PhaseInv, IsRet
  <2>3. QED
    BY <2>1, <2>2
<1>7. QueueInv'
  <2>1. \A k \in DOMAIN queue : queue[k].type # "exe" /\ queue[k].type # "ret"
    BY <1>1 DEF IInv, QueueInv, MainInv
  <2>2. QED
    BY <1>1, <2>1 DEF QueueInv
<1>8. MainInv' /\ StatusInv'
  BY <1>1, <1>2, <1>4 DEF IInv, MainInv, StatusInv, There, Forking
<1>9. TellInv'
  <2>1. \A i \in usr2 : i <= runs /\ i # runs
    BY <1>2 DEF IInv, TellInv
  <2>2. Said = "none" /\ tcr.run = runs /\ tcr.res = "none"
    BY <1>1, <1>2 DEF IInv, MainInv, TellInv
  <2>3. QED
    BY <1>1, <1>4, <2>1, <2>2 DEF TellInv
<1>10. QED
  BY <1>5, <1>6, <1>7, <1>8, <1>9 DEF IInv

LEMMA ForkFailsStep == ASSUME IInv, ForkFails PROVE IInv'
<1>1. /\ pc = "fork" /\ pc' = "sleep"
      /\ UNCHANGED <<phase, runs, ended, queue, outbox, reports, sendRet, pid, status, tcr, cur, arg, hit, tp, stopped, usr2, verdict, sigchld>>
  BY DEF ForkFails, At, engineVars, tpcVars, tpVars
<1>2. Last' = Last /\ Open' = Open /\ TypeOK
  BY <1>1 DEF Last, Open, IInv
<1>3. MainInv' /\ StatusInv'
  BY <1>1, <1>2 DEF IInv, MainInv, StatusInv, There, Forking
<1>4. QED
  BY <1>1, <1>2, <1>3, TypeFacts, MoveStep DEF PC, Handling

LEMMA BookStep == ASSUME IInv, SetPid \/ SendRunId \/ SetStatus PROVE IInv'
<1>1. /\ pc \in Forking
      /\ UNCHANGED <<phase, runs, ended, queue, reports, sendRet, tcr, cur, arg, hit, tp, stopped, usr2, verdict, sigchld>>
  BY DEF SetPid, SendRunId, SetStatus, At, engineVars, tpVars, tpcVars, Forking
<1>2. Last' = Last /\ Open' = Open /\ TypeOK /\ cur.run = runs /\ Last = "born" /\ runs \in Pid
  BY <1>1 DEF Last, Open, IInv, MainInv, TypeOK
<1>3. CASE SetPid
  <2>1. pc = "setpid" /\ pc' = "runid" /\ pid' = runs /\ UNCHANGED <<outbox, status>>
    BY <1>2, <1>3 DEF SetPid, At
  <2>2. MainInv' /\ StatusInv'
    BY <1>1, <1>2, <2>1 DEF IInv, MainInv, StatusInv, There, Forking
  <2>3. QED
    BY <1>1, <1>2, <2>1, <2>2, TypeFacts, MoveStep DEF PC, Handling
<1>4. CASE SendRunId
  <2> DEFINE m == [type |-> "runid", run |-> cur.run, res |-> "none"]
  <2>1. pc = "runid" /\ pc' = "setstatus" /\ outbox' = Append(outbox, m) /\ UNCHANGED <<pid, status>>
    BY <1>4 DEF SendRunId, At, tpcVars
  <2>2. m \in Outgoing /\ m.type # "ret"
    BY <1>2 DEF Outgoing, Result
  <2> HIDE DEF m
  <2>3. /\ outbox' \in Seq(Outgoing)
        /\ DOMAIN outbox' = DOMAIN outbox \cup {Len(outbox) + 1}
        /\ \A k \in DOMAIN outbox : outbox'[k] = outbox[k]
        /\ outbox'[Len(outbox) + 1] = m
    BY <1>2, <2>1, <2>2, AppendProperties DEF TypeOK
  <2>4. \A k \in DOMAIN outbox' : IsRet(outbox', k) => IsRet(outbox, k)
    BY <2>2, <2>3 DEF IsRet
  <2>5. MainInv' /\ StatusInv'
    BY <1>1, <1>2, <2>1 DEF IInv, MainInv, StatusInv, There, Forking
  <2>6. QED
    BY <1>1, <1>2, <2>1, <2>3, <2>4, <2>5, TypeFacts, MoveStep DEF PC, Handling
<1>5. CASE SetStatus
  <2>1. pc = "setstatus" /\ pc' = "sleep" /\ status' = "RUNNING" /\ UNCHANGED <<pid, outbox>>
    BY <1>5 DEF SetStatus, At
  <2>2. MainInv' /\ StatusInv'
    BY <1>1, <1>2, <2>1 DEF IInv, MainInv, StatusInv, There, Forking
  <2>3. QED
    BY <1>1, <1>2, <2>1, <2>2, TypeFacts, MoveStep DEF PC, Handling, Status
<1>6. QED
  BY <1>3, <1>4, <1>5

(* The handlers of the other messages.                                     *)
LEMMA LoadPidStep ==
  ASSUME IInv, NEW here, NEW next, LoadPid(here, next),
         here \notin {"clear", "setpid"}, next \in PC \ {"clear", "fork", "setpid"},
         here \in Handling \/ next \notin Handling, here # "exited",
         MainInv /\ StatusInv => MainInv' /\ StatusInv'
  PROVE  IInv'
<1>1. /\ pc = here /\ pc' = next /\ arg' = pid
      /\ UNCHANGED <<phase, runs, ended, queue, outbox, reports, sendRet, pid, status, tcr, cur, hit, tp, stopped, usr2, verdict, sigchld>>
  BY DEF LoadPid, At, engineVars, tpcVars, tpVars
<1>2. TypeOK /\ MainInv /\ StatusInv
  BY DEF IInv
<1>3. QED
  BY <1>1, <1>2, TypeFacts, MoveStep DEF Handling

LEMMA PutStatusStep ==
  ASSUME IInv, NEW here, NEW s \in Status, NEW next, PutStatus(here, s, next),
         here \notin {"clear", "setpid"} \cup Handling, next \in PC \ ({"clear", "fork", "setpid"} \cup Handling),
         status # "ABORTED" \/ s = "ABORTED" \/ next = "exited", here # "exited",
         MainInv /\ StatusInv => MainInv' /\ StatusInv'
  PROVE  IInv'
<1>1. /\ pc = here /\ pc' = next /\ status' = s
      /\ UNCHANGED <<phase, runs, ended, queue, outbox, reports, sendRet, pid, tcr, cur, arg, hit, tp, stopped, usr2, verdict, sigchld>>
  BY DEF PutStatus, At, engineVars, tpcVars, tpVars
<1>2. TypeOK /\ MainInv /\ StatusInv
  BY DEF IInv
<1>3. QED
  BY <1>1, <1>2, TypeFacts, MoveStep DEF Handling

LEMMA KillStep ==
  ASSUME IInv, NEW here, NEW sig \in Signal, NEW ok, NEW failed, Kill(here, sig, ok, failed, status),
         here \in {"ret3", "pause4", "resume3", "abort4"}, failed \in {"sleep", "end2"},
         ok \in {"sleep", "resume4", "abort5"},
         sig = "KILL" <=> ok = "abort5", sig = "USR2" <=> here = "ret3",
         ok = "resume4" <=> here = "resume3", ok = "abort5" <=> here = "abort4",
         failed = "end2" => here = "abort4"
  PROVE  IInv'
<1>1. /\ pc = here
      /\ UNCHANGED <<phase, runs, ended, queue, outbox, reports, sendRet, pid, tcr, cur, arg>>
  BY DEF Kill, engineVars
<1>2. TypeOK /\ runs \in Nat
  BY RunsRange DEF IInv
<1>3. CASE arg = 0 /\ hit' = hit \cup {sig} /\ pc' = "hit" /\ UNCHANGED <<status, tpVars>>
  <2>1. UNCHANGED <<status, tp, stopped, usr2, verdict, sigchld>>
    BY <1>3 DEF tpVars
  <2>2. Last' = Last /\ Open' = Open
    BY <1>1, <2>1 DEF Last, Open
  <2>3. MainInv' /\ StatusInv'
    BY <1>1, <1>3, <2>1, <2>2 DEF IInv, MainInv, StatusInv, There, Forking
  <2>4. QED
    BY <1>1, <1>2, <1>3, <2>1, <2>3, TypeFacts, MoveStep DEF PC, Handling
<1>4. CASE arg # 0 /\ ~Exists(arg, sig) /\ pc' = failed /\ status' = status /\ UNCHANGED <<hit, tpVars>>
  <2>1. UNCHANGED <<hit, status, tp, stopped, usr2, verdict, sigchld>>
    BY <1>4 DEF tpVars
  <2>2. Last' = Last /\ Open' = Open
    BY <1>1, <2>1 DEF Last, Open
  <2>3. arg = runs /\ Last \notin {"none", "born"} /\ Last = tp[arg]
    BY <1>1, <1>4 DEF IInv, MainInv, Last
  <2>4. Last = "reaped"
    BY <1>4, <2>3 DEF Exists
  <2>5. here # "resume3" /\ here # "pause4"
    BY <1>1, <1>4, <2>4 DEF IInv, StatusInv, MainInv, There
  <2>6. MainInv' /\ StatusInv'
    BY <1>1, <1>4, <2>1, <2>2, <2>4, <2>5 DEF IInv, MainInv, StatusInv, There, Forking
  <2>7. QED
    BY <1>1, <1>2, <1>4, <2>1, <2>6, TypeFacts, MoveStep DEF PC, Handling
<1>5. CASE arg # 0 /\ Exists(arg, sig) /\ Signalled(arg, sig) /\ pc' = ok /\ UNCHANGED <<status, hit>>
  <2>1. /\ arg = runs /\ Last \notin {"none", "born", "reaped"} /\ runs \in Run
        /\ tp[runs] = Last
    BY <1>1, <1>2, <1>5, RunsRange DEF IInv, MainInv, Last, Exists
  <2>2. Last \in There /\ Open
    <3>1. Last \in TpState
      BY <1>2, <2>1 DEF TypeOK
    <3>2. QED
      BY <2>1, <3>1 DEF TpState, There, IInv, RunInv
  <2>3. /\ verdict' = verdict
        /\ usr2' = (IF sig = "USR2" THEN usr2 \cup {runs} ELSE usr2)
        /\ stopped' \subseteq Run
    BY <1>2, <1>5, <2>1 DEF Signalled, TypeOK
  <2>4. Last' = IF sig = "KILL" THEN "zombie" ELSE Last
    BY <1>1, <1>2, <1>5, <2>1, <2>2 DEF Signalled, TypeOK, Alive, Last, There
  <2>5. Said' = Said /\ Open' = Open /\ Told' = Told
    BY <1>1, <2>3 DEF Said, Open, Told
  <2>6. /\ tp' \in [Run -> TpState] /\ tp'[runs] = Last'
        /\ \A i \in Run : i # runs => tp'[i] = tp[i]
    BY <1>1, <1>2, <1>5, <2>1 DEF Signalled, TypeOK, TpState, Last
  <2>7. sigchld' \in BOOLEAN /\ (sigchld' => sig = "KILL" \/ sigchld)
    BY <1>2, <1>5 DEF Signalled, TypeOK
  <2>8. TypeOK'
    BY <1>1, <1>2, <1>5, <2>1, <2>3, <2>6, <2>7 DEF TypeOK, PC
  <2>9. RunInv' /\ TrueReport'
    <3>1. RunInv'
      BY <1>1, <1>2, <1>5, <2>1, <2>2, <2>3, <2>4, <2>5, <2>6, <2>7 DEF IInv, RunInv, There
    <3>2. QED
      BY <1>1, <2>3, <3>1 DEF IInv, TrueReport
  <2>10. PhaseInv'
    BY <1>1, <2>5 DEF IInv, PhaseInv, IsRet
  <2>11. QueueInv'
    BY <1>1, <1>5, <2>1, <2>4, <2>5 DEF IInv, QueueInv
  <2>12. MainInv'
    BY <1>1, <1>5, <2>1, <2>2, <2>4, <2>5 DEF IInv, MainInv, There, Forking
  <2>13. StatusInv'
    BY <1>1, <1>5, <2>1, <2>2, <2>4, <2>5 DEF IInv, StatusInv, There, Forking
  <2>14. TellInv'
    <3>1. sig = "USR2" => Told /\ Last \notin {"none", "born", "running"}
      BY <1>1, <2>1 DEF IInv, TellInv
    <3>2. sig = "KILL" => status = "ABORTED"
      BY <1>1, <2>1 DEF IInv, StatusInv
    <3>3. \A i \in usr2' : i <= runs /\ (i = runs => Told' /\ Last' \notin {"none", "born", "running"})
      BY <1>2, <2>3, <2>4, <2>5, <3>1 DEF IInv, TellInv
    <3>4. QED
      BY <1>1, <1>5, <2>1, <2>4, <2>5, <3>2, <3>3 DEF IInv, TellInv
  <2>15. QED
    BY <2>8, <2>9, <2>10, <2>11, <2>12, <2>13, <2>14 DEF IInv
<1>6. QED
  BY <1>3, <1>4, <1>5 DEF Kill

LEMMA HandleRetStep == ASSUME IInv, HandleRet PROVE IInv'
<1>1. CASE Test("ret", pid # 0, "ret2", "sleep")
  <2>1. /\ pc = "ret" /\ pc' = (IF pid # 0 THEN "ret2" ELSE "sleep")
        /\ UNCHANGED <<phase, runs, ended, queue, outbox, reports, sendRet, pid, status, tcr, cur, arg, hit, tp, stopped, usr2, verdict, sigchld>>
    BY <1>1 DEF Test, engineVars, tpcVars, tpVars
  <2>2. Last' = Last /\ Open' = Open
    BY <2>1 DEF Last, Open
  <2>3. pid # 0 => Last \in There /\ Last # "born" /\ Open
    BY <2>1 DEF IInv, MainInv, RunInv, There, Forking
  <2>4. MainInv' /\ StatusInv'
    BY <2>1, <2>2, <2>3 DEF IInv, MainInv, StatusInv, There, Forking
  <2>5. QED
    BY <2>1, <2>4, IInvTyped, TypeFacts, MoveStep DEF PC, Handling
<1>2. CASE LoadPid("ret2", "ret3")
  <2>1. /\ pc = "ret2" /\ pc' = "ret3" /\ arg' = pid
        /\ UNCHANGED <<runs, reports, queue, pid, status, tcr, cur, tp, verdict>>
    BY <1>2 DEF LoadPid, At, engineVars, tpcVars, tpVars
  <2>2. Last' = Last /\ Open' = Open
    BY <2>1 DEF Last, Open
  <2>3. MainInv' /\ StatusInv'
    BY <2>1, <2>2 DEF IInv, MainInv, StatusInv, There, Forking
  <2>4. QED
    BY <1>2, <2>3, LoadPidStep DEF PC, Handling
<1>3. CASE Kill("ret3", "USR2", "sleep", "sleep", status)
  BY <1>3, KillStep DEF Signal
<1>4. QED
  BY <1>1, <1>2, <1>3 DEF HandleRet

LEMMA HandlePauseStep == ASSUME IInv, HandlePause PROVE IInv'
<1>1. CASE Test("pause", status = "RUNNING", "pause2", "sleep")
  <2>1. /\ pc = "pause" /\ pc' = (IF status = "RUNNING" THEN "pause2" ELSE "sleep")
        /\ UNCHANGED <<phase, runs, ended, queue, outbox, reports, sendRet, pid, status, tcr, cur, arg, hit, tp, stopped, usr2, verdict, sigchld>>
    BY <1>1 DEF Test, engineVars, tpcVars, tpVars
  <2>2. Last' = Last /\ Open' = Open
    BY <2>1 DEF Last, Open
  <2>3. MainInv' /\ StatusInv'
    BY <2>1, <2>2 DEF IInv, MainInv, StatusInv, There, Forking
  <2>4. QED
    BY <2>1, <2>3, IInvTyped, TypeFacts, MoveStep DEF PC, Handling
<1>2. CASE PutStatus("pause2", "PAUSED", "pause3")
  <2>1. /\ pc = "pause2" /\ pc' = "pause3" /\ status' = "PAUSED" /\ status \in {"RUNNING", "NONE"}
        /\ UNCHANGED <<runs, reports, queue, pid, tcr, cur, arg, tp, verdict>>
    BY <1>2 DEF PutStatus, At, engineVars, tpVars, IInv, StatusInv
  <2>2. Last' = Last /\ Open' = Open
    BY <2>1 DEF Last, Open
  <2>3. MainInv' /\ StatusInv'
    BY <2>1, <2>2 DEF IInv, MainInv, StatusInv, There, Forking
  <2>4. QED
    BY <1>2, <2>1, <2>3, PutStatusStep DEF PC, Status, Handling
<1>3. CASE LoadPid("pause3", "pause4")
  <2>1. /\ pc = "pause3" /\ pc' = "pause4" /\ arg' = pid
        /\ UNCHANGED <<runs, reports, queue, pid, status, tcr, cur, tp, verdict>>
    BY <1>3 DEF LoadPid, At, engineVars, tpcVars, tpVars
  <2>2. Last' = Last /\ Open' = Open
    BY <2>1 DEF Last, Open
  <2>3. MainInv' /\ StatusInv'
    BY <2>1, <2>2 DEF IInv, MainInv, StatusInv, There, Forking
  <2>4. QED
    BY <1>3, <2>3, LoadPidStep DEF PC, Handling
<1>4. CASE Kill("pause4", "STOP", "sleep", "sleep", "RUNNING")
  (* tp_pause takes the status back when kill() fails: it cannot fail,     *)
  (* because a paused process is not reaped.                               *)
  <2>1. pc = "pause4" /\ (arg # 0 => Exists(arg, "STOP"))
    BY <1>4 DEF Kill, IInv, MainInv, Exists, Last
  <2>2. Kill("pause4", "STOP", "sleep", "sleep", status)
    BY <1>4, <2>1 DEF Kill
  <2>3. QED
    BY <2>2, KillStep DEF Signal
<1>5. QED
  BY <1>1, <1>2, <1>3, <1>4 DEF HandlePause

LEMMA HandleResumeStep == ASSUME IInv, HandleResume PROVE IInv'
<1>1. CASE Test("resume", status = "PAUSED", "resume2", "sleep")
  <2>1. /\ pc = "resume" /\ pc' = (IF status = "PAUSED" THEN "resume2" ELSE "sleep")
        /\ UNCHANGED <<phase, runs, ended, queue, outbox, reports, sendRet, pid, status, tcr, cur, arg, hit, tp, stopped, usr2, verdict, sigchld>>
    BY <1>1 DEF Test, engineVars, tpcVars, tpVars
  <2>2. Last' = Last /\ Open' = Open
    BY <2>1 DEF Last, Open
  <2>3. MainInv' /\ StatusInv'
    BY <2>1, <2>2 DEF IInv, MainInv, StatusInv, There, Forking
  <2>4. QED
    BY <2>1, <2>3, IInvTyped, TypeFacts, MoveStep DEF PC, Handling
<1>2. CASE LoadPid("resume2", "resume3")
  <2>1. /\ pc = "resume2" /\ pc' = "resume3" /\ arg' = pid
        /\ UNCHANGED <<runs, reports, queue, pid, status, tcr, cur, tp, verdict>>
    BY <1>2 DEF LoadPid, At, engineVars, tpcVars, tpVars
  <2>2. Last' = Last /\ Open' = Open
    BY <2>1 DEF Last, Open
  <2>3. MainInv' /\ StatusInv'
    BY <2>1, <2>2 DEF IInv, MainInv, StatusInv, There, Forking
  <2>4. QED
    BY <1>2, <2>3, LoadPidStep DEF PC, Handling
<1>3. CASE Kill("resume3", "CONT", "resume4", "sleep", status)
  BY <1>3, KillStep DEF Signal
<1>4. CASE PutStatus("resume4", "RUNNING", "sleep")
  <2>1. /\ pc = "resume4" /\ pc' = "sleep" /\ status' = "RUNNING" /\ status = "PAUSED"
        /\ UNCHANGED <<runs, reports, queue, pid, tcr, cur, arg, tp, verdict>>
    BY <1>4 DEF PutStatus, At, engineVars, tpVars, IInv, StatusInv
  <2>2. Last' = Last /\ Open' = Open
    BY <2>1 DEF Last, Open
  <2>3. MainInv' /\ StatusInv'
    BY <2>1, <2>2 DEF IInv, MainInv, StatusInv, There, Forking
  <2>4. QED
    BY <1>4, <2>1, <2>3, PutStatusStep DEF PC, Status, Handling
<1>5. QED
  BY <1>1, <1>2, <1>3, <1>4 DEF HandleResume

LEMMA AbortStep == ASSUME IInv, Abort PROVE IInv'
<1>1. AfterAbort \in {"sleep", "end2"}
  BY DEF AfterAbort
<1>2. CASE Test("abort", pid # 0, "abort2", AfterAbort)
  <2>1. /\ pc = "abort" /\ pc' = (IF pid # 0 THEN "abort2" ELSE AfterAbort)
        /\ UNCHANGED <<phase, runs, ended, queue, outbox, reports, sendRet, pid, status, tcr, cur, arg, hit, tp, stopped, usr2, verdict, sigchld>>
    BY <1>2 DEF Test, engineVars, tpcVars, tpVars
  <2>2. Last' = Last /\ Open' = Open
    BY <2>1 DEF Last, Open
  <2>3. pid # 0 => Last \in There /\ Last # "born" /\ Open
    BY <2>1 DEF IInv, MainInv, RunInv, There, Forking
  <2>4. pid = 0 => Last \in {"none", "reaped"}
    <3>1. Last \in TpState
      BY RunsRange DEF IInv, TypeOK, Last, TpState
    <3>2. pid = 0 => Last \notin There
      BY <2>1, RunsRange DEF IInv, MainInv, Last, There
    <3>3. QED
      BY <3>1, <3>2 DEF TpState, There
  <2>5. MainInv' /\ StatusInv'
    BY <1>1, <2>1, <2>2, <2>3, <2>4 DEF IInv, MainInv, StatusInv, There, Forking
  <2>6. QED
    BY <1>1, <2>1, <2>5, IInvTyped, TypeFacts, MoveStep DEF PC, Handling
<1>3. CASE PutStatus("abort2", "ABORTED", "abort3")
  <2>1. /\ pc = "abort2" /\ pc' = "abort3" /\ status' = "ABORTED"
        /\ UNCHANGED <<runs, reports, queue, pid, tcr, cur, arg, tp, verdict>>
    BY <1>3 DEF PutStatus, At, engineVars, tpVars
  <2>2. Last' = Last /\ Open' = Open
    BY <2>1 DEF Last, Open
  <2>3. MainInv' /\ StatusInv'
    BY <2>1, <2>2 DEF IInv, MainInv, StatusInv, There, Forking
  <2>4. QED
    BY <1>3, <2>1, <2>3, PutStatusStep DEF PC, Status, Handling
<1>4. CASE LoadPid("abort3", "abort4")
  <2>1. /\ pc = "abort3" /\ pc' = "abort4" /\ arg' = pid
        /\ UNCHANGED <<runs, reports, queue, pid, status, tcr, cur, tp, verdict>>
    BY <1>4 DEF LoadPid, At, engineVars, tpcVars, tpVars
  <2>2. Last' = Last /\ Open' = Open
    BY <2>1 DEF Last, Open
  <2>3. MainInv' /\ StatusInv'
    BY <2>1, <2>2 DEF IInv, MainInv, StatusInv, There, Forking
  <2>4. QED
    BY <1>4, <2>3, LoadPidStep DEF PC, Handling
<1>5. CASE Kill("abort4", "KILL", "abort5", AfterAbort, status)
  BY <1>1, <1>5, KillStep DEF Signal
<1>6. CASE PutStatus("abort5", "ABORTED", AfterAbort)
  <2>1. /\ pc = "abort5" /\ pc' = AfterAbort /\ status' = "ABORTED"
        /\ UNCHANGED <<runs, reports, queue, pid, tcr, cur, arg, tp, verdict>>
    BY <1>6 DEF PutStatus, At, engineVars, tpVars
  <2>2. Last' = Last /\ Open' = Open
    BY <2>1 DEF Last, Open
  <2>3. MainInv' /\ StatusInv'
    BY <1>1, <2>1, <2>2 DEF IInv, MainInv, StatusInv, There, Forking
  <2>4. QED
    BY <1>1, <1>6, <2>1, <2>3, PutStatusStep DEF PC, Status, Handling
<1>7. QED
  BY <1>2, <1>3, <1>4, <1>5, <1>6 DEF Abort

LEMMA HandleEndStep == ASSUME IInv, HandleEnd PROVE IInv'
<1>1. CASE Test("end", status = "NONE", "exited", "abort")
  <2>1. /\ pc = "end" /\ pc' = (IF status = "NONE" THEN "exited" ELSE "abort")
        /\ UNCHANGED <<phase, runs, ended, queue, outbox, reports, sendRet, pid, status, tcr, cur, arg, hit, tp, stopped, usr2, verdict, sigchld>>
    BY <1>1 DEF Test, engineVars, tpcVars, tpVars
  <2>2. Last' = Last /\ Open' = Open
    BY <2>1 DEF Last, Open
  <2>3. MainInv' /\ StatusInv'
    BY <2>1, <2>2 DEF IInv, MainInv, StatusInv, There, Forking
  <2>4. QED
    BY <2>1, <2>3, IInvTyped, TypeFacts, MoveStep DEF PC, Handling
<1>2. CASE PutStatus("end2", "NONE", "exited")
  <2>1. /\ pc = "end2" /\ pc' = "exited" /\ status' = "NONE"
        /\ UNCHANGED <<runs, reports, queue, pid, tcr, cur, arg, tp, verdict>>
    BY <1>2 DEF PutStatus, At, engineVars, tpVars
  <2>2. Last' = Last /\ Open' = Open
    BY <2>1 DEF Last, Open
  <2>3. MainInv' /\ StatusInv'
    BY <2>1, <2>2 DEF IInv, MainInv, StatusInv, There, Forking
  <2>4. QED
    BY <1>2, <2>1, <2>3, PutStatusStep DEF PC, Status, Handling
<1>3. QED
  BY <1>1, <1>2 DEF HandleEnd

LEMMA MainStep == ASSUME SleepsSuffice, IInv, Main PROVE IInv'
BY LoopStep, ClearStep, PeekStep, SleepStep, ForkStep, ForkFailsStep, BookStep, HandleRetStep,
   HandlePauseStep, HandleResumeStep, AbortStep, HandleEndStep DEF Main

----------------------------------------------------------------------------
LEMMA HandleSigchldStep == ASSUME IInv, HandleSigchld PROVE IInv'
<1>1. /\ sigchld /\ sigchld' = FALSE /\ pc \notin {"exited", "hit"}
      /\ UNCHANGED <<phase, runs, ended, queue, outbox, reports, pc, cur, arg, hit, stopped, usr2, verdict>>
  BY DEF HandleSigchld, engineVars, mainVars
<1>2. Zombies = {runs} /\ Cardinality(Zombies) = 1 /\ runs \in Run /\ Last = "zombie" /\ tp[runs] = "zombie"
  BY <1>1, ReapsTheLast, IInvServes DEF Last, Run
<1>3. Said' = Said /\ Open' = Open /\ Open /\ runs # 0
  BY <1>1, <1>2 DEF Said, Open, IInv, RunInv, Run
<1>4. TypeOK
  BY DEF IInv
<1>5. CASE UNCHANGED <<tp, tpcVars>>
  <2>1. UNCHANGED <<tp, pid, status, sendRet, tcr>>
    BY <1>5 DEF tpcVars
  <2>2. Last' = Last /\ Told' = Told
    BY <1>1, <1>3, <2>1 DEF Last, Told
  <2>3. TypeOK' /\ RunInv' /\ TrueReport'
    BY <1>1, <1>3, <2>1, <2>2 DEF IInv, TypeOK, RunInv, TrueReport
  <2>4. PhaseInv' /\ QueueInv'
    BY <1>1, <1>3, <2>2 DEF IInv, PhaseInv, QueueInv, IsRet
  <2>5. MainInv' /\ StatusInv'
    BY <1>1, <1>3, <2>1, <2>2 DEF IInv, MainInv, StatusInv
  <2>6. TellInv'
    BY <1>1, <1>3, <2>1, <2>2 DEF IInv, TellInv
  <2>7. QED
    BY <2>3, <2>4, <2>5, <2>6 DEF IInv
<1>6. CASE /\ ~IgnoresSigchld
           /\ tp' = [i \in Run |-> IF i \in Zombies THEN "reaped" ELSE tp[i]]
           /\ pid' = PidAfterReaping
           /\ status' = IF Zombies = {} THEN status ELSE "NONE"
           /\ tcr' = IF status = "ABORTED" /\ Cardinality(Zombies) = 1
                     THEN [tcr EXCEPT !.res = "aborted"] ELSE tcr
           /\ sendRet' = TRUE
  <2>1. /\ status # "PAUSED" /\ pid' = 0 /\ status' = "NONE" /\ sendRet' = TRUE
        /\ tp' = [i \in Run |-> IF i = runs THEN "reaped" ELSE tp[i]]
        /\ tcr' = IF status = "ABORTED" THEN [tcr EXCEPT !.res = "aborted"] ELSE tcr
    BY <1>2, <1>6 DEF IgnoresSigchld, PidAfterReaping
  <2>2. tp' \in [Run -> TpState] /\ tp'[runs] = "reaped" /\ \A i \in Run : i # runs => tp'[i] = tp[i]
    BY <1>2, <1>4, <2>1 DEF TypeOK, TpState
  <2>3. Last' = "reaped"
    BY <1>1, <1>3, <2>2 DEF Last
  <2>4. tcr' \in Report /\ tcr'.run = tcr.run /\ tcr'.res \in {tcr.res, "aborted"} /\ (status = "ABORTED" => tcr'.res = "aborted")
    BY <1>4, <2>1 DEF TypeOK, Report, Result
  <2>5. Told'
    <3>1. tcr.run = runs /\ (Told \/ status = "ABORTED")
      BY <1>1, <1>2 DEF IInv, TellInv
    <3>2. QED
      BY <1>1, <1>3, <2>4, <3>1 DEF Told
  <2>6. TypeOK'
    <3>1. pid' \in Pid /\ status' \in Status /\ sendRet' \in BOOLEAN
      BY <1>4, <2>1, TypeFacts DEF Status
    <3>2. QED
      BY <1>1, <1>4, <2>2, <2>4, <3>1 DEF TypeOK
  <2>7. RunInv' /\ TrueReport'
    <3>1. RunInv'
      BY <1>1, <1>2, <1>3, <2>1, <2>2, <2>3, RunsRange DEF IInv, RunInv, Run
    <3>2. QED
      BY <1>1, <3>1 DEF IInv, TrueReport
  <2>8. PhaseInv' /\ QueueInv'
    BY <1>1, <1>2, <1>3, <2>3 DEF IInv, PhaseInv, QueueInv, IsRet
  <2>9. MainInv' /\ StatusInv'
    BY <1>1, <1>2, <1>3, <2>1, <2>3 DEF IInv, MainInv, StatusInv, There, Forking
  <2>10. TellInv'
    BY <1>1, <1>2, <1>3, <2>3, <2>4, <2>5 DEF IInv, TellInv, Told
  <2>11. QED
    BY <2>6, <2>7, <2>8, <2>9, <2>10 DEF IInv
<1>7. QED
  BY <1>5, <1>6 DEF HandleSigchld

----------------------------------------------------------------------------
LEMMA TpStartStep == ASSUME SleepsSuffice, IInv, NEW i \in Run, TpStart(i) PROVE IInv'
<1>1. /\ tp[i] = "born" /\ tp' = [tp EXCEPT ![i] = "running"] /\ pc \notin Forking
      /\ UNCHANGED <<phase, runs, ended, queue, outbox, reports, pid, status, sendRet, tcr, pc, cur, arg, hit, stopped, usr2, verdict, sigchld>>
  BY DEF TpStart, TpUnchanged, engineVars, tpcVars, mainVars, Forking
<1>2. i = runs /\ runs # 0 /\ Last = "born" /\ Open /\ tp \in [Run -> TpState]
  BY <1>1, AliveIsLast, IInvServes
<1>3. tp' \in [Run -> TpState] /\ tp'[runs] = "running" /\ \A j \in Run : j # runs => tp'[j] = tp[j]
  BY <1>1, <1>2 DEF TpState
<1>4. Last' = "running" /\ Said' = Said /\ Open' = Open /\ Told' = Told
  BY <1>1, <1>2, <1>3 DEF Last, Said, Open, Told
<1>5. TypeOK'
  BY <1>1, <1>3 DEF IInv, TypeOK
<1>6. RunInv' /\ TrueReport'
  <2>1. RunInv'
    BY <1>1, <1>2, <1>3, <1>4, RunsRange DEF IInv, RunInv, Run
  <2>2. QED
    BY <1>1, <2>1 DEF IInv, TrueReport
<1>7. PhaseInv' /\ QueueInv'
  BY <1>1, <1>2, <1>4 DEF IInv, PhaseInv, QueueInv, IsRet
<1>8. MainInv' /\ StatusInv'
  BY <1>1, <1>2, <1>4 DEF IInv, MainInv, StatusInv, There, Forking
<1>9. TellInv'
  BY <1>1, <1>2, <1>4 DEF IInv, MainInv, TellInv, Forking
<1>10. QED
  BY <1>5, <1>6, <1>7, <1>8, <1>9 DEF IInv

LEMMA TpReportStep ==
  ASSUME IInv, NEW i \in Run, NEW res, NEW next, TpReport(i, res, next),
         \/ res = "finished" /\ next = "done"
         \/ res = "crashed" /\ next = "crashed"
  PROVE  IInv'
<1> DEFINE m == Msg("ret", i, res)
<1>1. /\ tp[i] = "running" /\ tp' = [tp EXCEPT ![i] = next]
      /\ verdict' = [verdict EXCEPT ![i] = res] /\ queue' = Append(queue, m)
      /\ UNCHANGED <<phase, runs, ended, outbox, reports, pid, status, sendRet, tcr, pc, cur, arg, hit, stopped, usr2, sigchld>>
  BY DEF TpReport, TpUnchanged, engineVars, tpcVars, mainVars
<1>2. i = runs /\ runs # 0 /\ runs \in Nat /\ Last = "running" /\ Open /\ tp \in [Run -> TpState]
  BY <1>1, AliveIsLast, IInvServes
<1>3. tp' \in [Run -> TpState] /\ tp'[runs] = next /\ \A j \in Run : j # runs => tp'[j] = tp[j]
  BY <1>1, <1>2 DEF TpState
<1>4. verdict' \in [Run -> Result] /\ verdict'[runs] = res /\ \A j \in Run : j # runs => verdict'[j] = verdict[j]
  BY <1>1, <1>2 DEF IInv, TypeOK, Result
<1>5. m \in Message /\ m.type = "ret" /\ m.run = runs /\ m.res = res /\ m = Msg("ret", runs, res)
  BY <1>2 DEF Msg, Message, Result, IInv, TypeOK
<1> HIDE DEF m
<1>6. /\ queue' \in Seq(Message)
      /\ DOMAIN queue' = DOMAIN queue \cup {Len(queue) + 1}
      /\ \A k \in DOMAIN queue : k < Len(queue) + 1 /\ queue'[k] = queue[k]
      /\ queue'[Len(queue) + 1] = m
  BY <1>1, <1>5, QueueAppend DEF IInv
<1>7. Last' = next /\ Said' = res /\ Open' = Open
  BY <1>1, <1>2, <1>3, <1>4 DEF Last, Said, Open
<1>8. TypeOK'
  BY <1>1, <1>3, <1>4, <1>6 DEF IInv, TypeOK
<1>9. RunInv'
  BY <1>1, <1>2, <1>3, <1>4, <1>7 DEF IInv, RunInv, Run
<1>10. TrueReport'
  <2>1. \A k \in DOMAIN reports : reports[k].run \in Run /\ reports[k].run # runs
    <3>1. reports \in Seq(Report) /\ Len(reports) \in Nat /\ Len(reports) < runs /\ runs \in Run
      BY <1>2 DEF IInv, TypeOK, Open
    <3>2. \A k \in DOMAIN reports : k \in Run /\ k # runs
      <4>1. DOMAIN reports = 1..Len(reports)
        BY <3>1
      <4>2. \A n \in Nat : n < runs => \A k \in 1..n : k \in Run /\ k # runs
        BY <3>1, BoundsAssumption DEF Run
      <4>3. QED
        BY <3>1, <4>1, <4>2
    <3>3. QED
      BY <3>2 DEF IInv, RunInv
  <2>2. QED
    BY <1>1, <1>4, <2>1 DEF IInv, TrueReport
<1>11. PhaseInv'
  BY <1>1, <1>7 DEF IInv, PhaseInv, IsRet
<1>12. QueueInv'
  <2>1. \A k \in DOMAIN queue : queue[k].type # "exe" /\ queue[k].type # "ret"
    BY <1>2 DEF IInv, QueueInv, TellInv
  <2>2. QED
    BY <1>1, <1>5, <1>6, <1>7, <2>1 DEF QueueInv
<1>13. MainInv' /\ StatusInv'
  <2>1. MainInv'
    BY <1>1, <1>2, <1>7 DEF IInv, MainInv, There, Forking
  <2>2. StatusInv'
    BY <1>1, <1>2, <1>7 DEF IInv, StatusInv, There, Forking
  <2>3. QED
    BY <2>1, <2>2
<1>14. TellInv'
  <2>1. tcr.run = runs /\ tcr.res \in {"none", "aborted"} /\ pc \notin {"ret", "ret2", "ret3"}
    BY <1>2 DEF IInv, TellInv
  <2>2. \A j \in usr2 : j <= runs /\ j # runs
    BY <1>2 DEF IInv, TellInv
  <2>3. \E k \in DOMAIN queue' : queue'[k] = Msg("ret", runs, res)
    BY <1>5, <1>6
  <2>4. QED
    BY <1>1, <1>2, <1>7, <2>1, <2>2, <2>3 DEF TellInv
<1>15. QED
  BY <1>8, <1>9, <1>10, <1>11, <1>12, <1>13, <1>14 DEF IInv

LEMMA TpGoneStep ==
  ASSUME IInv, NEW i \in Run, tp[i] \in {"running", "done", "crashed"}, Told, TpGone(i)
  PROVE  IInv'
<1>1. /\ tp' = [tp EXCEPT ![i] = "zombie"] /\ sigchld' = TRUE
      /\ UNCHANGED <<phase, runs, ended, queue, outbox, reports, pid, status, sendRet, tcr, pc, cur, arg, hit, stopped, usr2, verdict>>
  BY DEF TpGone, TpUnchanged, engineVars, tpcVars, mainVars
<1>2. i = runs /\ runs # 0 /\ runs \in Nat /\ Last \in {"running", "done", "crashed"} /\ Open /\ tp \in [Run -> TpState]
  BY AliveIsLast, IInvServes
<1>3. tp' \in [Run -> TpState] /\ tp'[runs] = "zombie" /\ \A j \in Run : j # runs => tp'[j] = tp[j]
  BY <1>1, <1>2 DEF TpState
<1>4. Last' = "zombie" /\ Said' = Said /\ Open' = Open /\ Told' = Told
  BY <1>1, <1>2, <1>3 DEF Last, Said, Open, Told
<1>5. TypeOK'
  BY <1>1, <1>3 DEF IInv, TypeOK
<1>6. RunInv' /\ TrueReport'
  <2>1. RunInv'
    BY <1>1, <1>2, <1>3, <1>4 DEF IInv, RunInv, Run
  <2>2. QED
    BY <1>1, <2>1 DEF IInv, TrueReport
<1>7. PhaseInv' /\ QueueInv'
  BY <1>1, <1>2, <1>4 DEF IInv, PhaseInv, QueueInv, IsRet
<1>8. MainInv' /\ StatusInv'
  <2>1. MainInv'
    BY <1>1, <1>2, <1>4 DEF IInv, MainInv, There, Forking
  <2>2. StatusInv'
    BY <1>1, <1>2, <1>4 DEF IInv, StatusInv, There, Forking
  <2>3. QED
    BY <2>1, <2>2
<1>9. TellInv'
  BY <1>1, <1>2, <1>4 DEF IInv, TellInv
<1>10. QED
  BY <1>5, <1>6, <1>7, <1>8, <1>9 DEF IInv

LEMMA TestProcessStep == ASSUME SleepsSuffice, IInv, NEW i \in Run, TestProcess(i) PROVE IInv'
<1>1. CASE TpFinish(i) \/ TpCrash(i)
  <2>1. TpReport(i, "finished", "done") \/ TpReport(i, "crashed", "crashed")
    BY <1>1 DEF TpFinish, TpCrash
  <2>2. QED
    BY <2>1, TpReportStep
<1>2. CASE TpVanish(i)
  <2>1. tp[i] = "running" /\ TpGone(i)
    BY <1>2 DEF TpVanish
  <2>2. Told
    BY <2>1, AliveIsLast, IInvServes DEF IInv, TellInv, Told
  <2>3. QED
    BY <2>1, <2>2, TpGoneStep
<1>3. CASE TpExit(i)
  <2>1. tp[i] = "done" /\ i \in usr2 /\ TpGone(i)
    BY <1>3 DEF TpExit
  <2>2. Told
    BY <2>1, AliveIsLast, IInvServes DEF IInv, TellInv
  <2>3. QED
    BY <2>1, <2>2, TpGoneStep
<1>4. CASE TpDie(i)
  <2>1. tp[i] = "crashed" /\ TpGone(i) /\ \A k \in DOMAIN queue : queue[k] # Msg("ret", i, "crashed")
    BY <1>4 DEF TpDie
  <2>2. i = runs /\ Last = "crashed"
    BY <2>1, AliveIsLast, IInvServes
  <2>3. Told
    BY <2>1, <2>2 DEF IInv, TellInv
  <2>4. QED
    BY <2>1, <2>3, TpGoneStep
<1>5. QED
  BY <1>1, <1>2, <1>3, <1>4, TpStartStep DEF TestProcess

LEMMA NextIInv == ASSUME SleepsSuffice, IInv, [Next]_vars PROVE IInv'
<1>1. CASE UNCHANGED vars
  <2>1. UNCHANGED <<phase, runs, ended, queue, outbox, reports, pid, status, sendRet, tcr, pc, cur, arg, hit, tp, stopped, usr2, verdict, sigchld>>
    BY <1>1 DEF vars, engineVars, tpcVars, mainVars, tpVars
  <2>2. Last' = Last /\ Said' = Said /\ Open' = Open /\ Told' = Told
    BY <2>1 DEF Last, Said, Open, Told
  <2>3. TypeOK' /\ RunInv' /\ TrueReport'
    BY <2>1, <2>2 DEF IInv, TypeOK, RunInv, TrueReport
  <2>4. PhaseInv' /\ QueueInv'
    BY <2>1, <2>2 DEF IInv, PhaseInv, QueueInv, IsRet
  <2>5. MainInv' /\ StatusInv' /\ TellInv'
    BY <2>1, <2>2 DEF IInv, MainInv, StatusInv, TellInv
  <2>6. QED
    BY <2>3, <2>4, <2>5 DEF IInv
<1>2. QED
  BY <1>1, EngineStep, MainStep, HandleSigchldStep, TestProcessStep DEF Next

LEMMA Invariance == SleepsSuffice /\ Spec => []IInv
<1> SUFFICES ASSUME SleepsSuffice PROVE Spec => []IInv
  OBVIOUS
<1>1. IInv /\ [Next]_vars => IInv'
  BY NextIInv
<1>2. QED
  BY InitIInv, <1>1, PTL DEF Spec

(* The MSG_RET that gu_run_tmc sends says what the test process said, or   *)
(* that the test was aborted, however the SIGCHLD handler interrupts the   *)
(* loop and whatever else was asked for meanwhile.                         *)
THEOREM ReportsAreTrue == SleepsSuffice /\ Spec => []TrueReport
<1>1. IInv => TrueReport
  BY DEF IInv
<1>2. QED
  BY Invariance, <1>1, PTL

(* When gu_handle_end has let the TMC exit, no test process runs: tp_abort *)
(* has killed it, or it was gone by itself.                                *)
THEOREM NothingLeftBehind == SleepsSuffice /\ Spec => []NoOrphan
<1>1. IInv => NoOrphan
  <2> SUFFICES ASSUME IInv, pc = "exited", NEW i \in Run, tp[i] \in {"born", "running", "done", "crashed"}
               PROVE  FALSE
    BY DEF NoOrphan, Alive
  <2>1. Last = tp[i]
    BY AliveIsLast, IInvServes
  <2>2. QED
    BY <2>1 DEF IInv, MainInv
<1>2. QED
  BY Invariance, <1>1, PTL
==============================================================================
