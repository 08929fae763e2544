----------------------------- MODULE TestEngine ----------------------------
(***************************************************************************)
(* The test engine (engine/tec/tec.c and the calls of engine/tec/          *)
(* min_engine_api.c that start, pause and resume test cases): the listener *)
(* thread that handles the messages of the test module controllers (TMC),  *)
(* the thread of a user interface, and the lists instantiated_modules and  *)
(* selected_cases that both of them use.                                   *)
(*                                                                         *)
(* tec_mutex_ protects single searches of selected_cases and what          *)
(* eapi_start_test_case checks; what is read there is used after the       *)
(* unlock.  A step of a thread is therefore one such search, or one stretch*)
(* between two of them.  A module is an item of instantiated_modules,      *)
(* known by its address; a temporary module gets an address of its own.    *)
(*                                                                         *)
(* A TMC is seen from the engine: it answers MSG_GTC and reports every     *)
(* MSG_EXE (module Tmc has its inside).  Its MSG_TCD are left out but for  *)
(* the last one.                                                           *)
(***************************************************************************)
EXTENDS Naturals, Sequences, FiniteSets

CONSTANTS
  Module,      \* modules of the configuration
  Case,        \* their test cases
  ModuleOf,    \* [Case -> Module]
  Listing,     \* the cases of each module in the order of its MSG_TCDs
  Temp,        \* addresses for temporary modules
  Plugins,     \* "cli" starts all cases of a module from its module_ready
               \* callback, "console" has a thread of its own
  Orders,      \* the lists of cases a user may start in one go
  MaxRuns,     \* bound: how many cases are selected
  MaxTemps,    \* bound: how many temporary modules are started
  Overlap,     \* whether one thread may run while the other is inside a call
  Reuse        \* whether malloc may return the address of a removed module

ASSUME TestEngineAssumption ==
  /\ ModuleOf \in [Case -> Module]
  /\ IsFiniteSet(Module) /\ Module \cap Temp = {} /\ Module \cap 0..MaxTemps = {}
  /\ Plugins \subseteq {"cli", "console"}
  /\ Overlap \in BOOLEAN /\ Reuse \in BOOLEAN
  /\ Orders \subseteq Seq(Case)
  /\ Listing \in [Module -> Seq(Case)]
  /\ MaxRuns \in Nat /\ MaxTemps \in Nat

Item == Module \cup Temp
Run == 1..MaxRuns
Pid == Module \cup 1..MaxTemps    \* a configured module's TMC, or the k-th temporary one
Thread == {"listener", "user"}
ModuleStatus == {"absent", "NOT_STARTED", "INITIALIZED", "INITIALIZED_TEMP",
                 "TC_SENDING", "READY", "BUSY", "BUSY_TEMP", "removed"}
CaseStatus == {"IDLE", "ONGOING", "PAUSED", "TERMINATED"}

VARIABLES
  plugin,    \* the plug-in in use
  mod,       \* status of each item of instantiated_modules
  pid,       \* process id of each item (meaningless when absent)
  carried,   \* the selected case a temporary module was started for
  sel,       \* selected_cases
  forked,    \* how many temporary TMCs have been started
  inbox,     \* messages to the engine
  tmc,       \* the TMC processes
  exe,       \* MSG_EXE each TMC has yet to act on ...
  going,     \* ... and the runs it is executing
  at,        \* where each thread is: next step and what it remembers
  todo,      \* the start_case calls each thread has still to make
  cli        \* what the CLI has counted

vars == <<plugin, mod, pid, carried, sel, forked, inbox, tmc, exe, going, at, todo, cli>>
tmcVars == <<tmc, exe, going>>

(* result is history: the run whose MSG_RET gave this entry its result.    *)
Entry == [case : Case, group : Nat, status : CaseStatus, item : Item,
          known : BOOLEAN, result : 0..MaxRuns]
Step == {"idle", "select", "exec", "act", "settemp", "credit", "next",
         "tempfind", "tempend", "pause", "resume"}
Place == [pc : Step, r : 0..MaxRuns, go : BOOLEAN, seen : ModuleStatus,
          from : Pid \cup {0}, ret : 0..MaxRuns]
Message == [type : {"ok", "ko", "eot", "runid", "ret"}, pid : Pid, run : 0..MaxRuns]

(* heard is available_modules of the CLI, ready, cases and results are its *)
(* counters; starting: its module_ready callback has not returned.         *)
CliCounts == [heard : SUBSET Module, starting : BOOLEAN, ready : 0..Cardinality(Module),
              cases : Nat, results : 0..MaxRuns, done : BOOLEAN]

Listed(i) == mod[i] \notin {"absent", "removed"}

TypeOK ==
  /\ plugin \in Plugins
  /\ mod \in [Item -> ModuleStatus]
  /\ pid \in [Item -> Pid \cup {0}] /\ \A i \in Item : Listed(i) => pid[i] # 0
  /\ carried \in [Temp -> 0..MaxRuns]
  /\ sel \in Seq(Entry) /\ Len(sel) <= MaxRuns
  /\ forked \in 0..MaxTemps
  /\ inbox \in Seq(Message)
  /\ tmc \in [Pid -> {"none", "boot", "up", "asked"}]
  /\ exe \in [Pid -> Seq(Run)] /\ going \in [Pid -> SUBSET Run]
  /\ at \in [Thread -> Place]
  /\ todo \in [Thread -> Seq(Case \X Nat)]
  /\ cli \in CliCounts /\ cli.results <= cli.cases

Idle == [pc |-> "idle", r |-> 0, go |-> FALSE, seen |-> "absent", from |-> 0, ret |-> 0]

(* With the CLI the modules are being started (ec_add_module); the user of *)
(* an interactive interface finds them ready, or removed without cases.    *)
InitialStatus(m) ==
  CASE plugin = "cli" -> "INITIALIZED"
    [] plugin = "console" -> IF Listing[m] = <<>> THEN "removed" ELSE "READY"

Init ==
  /\ plugin \in Plugins
  /\ mod = [i \in Item |-> IF i \in Temp THEN "absent" ELSE InitialStatus(i)]
  /\ pid = [i \in Item |-> IF i \in Module THEN i ELSE 0]
  /\ carried = [i \in Temp |-> 0]
  /\ sel = <<>> /\ forked = 0 /\ inbox = <<>>
  /\ tmc = [p \in Pid |->
              IF p \notin Module \/ mod[p] = "removed" THEN "none"
              ELSE IF plugin = "cli" THEN "boot" ELSE "up"]
  /\ exe = [p \in Pid |-> <<>>] /\ going = [p \in Pid |-> {}]
  /\ at = [t \in Thread |-> Idle]
  /\ todo = [t \in Thread |-> <<>>]
  /\ cli = [heard |-> {}, starting |-> FALSE, ready |-> 0, cases |-> 0, results |-> 0,
            done |-> FALSE]

----------------------------------------------------------------------------
(* Searches of the two lists.                                              *)

ByPid(p) == {i \in Item : Listed(i) /\ pid[i] = p}

First(S) == IF S = {} THEN 0 ELSE CHOOSE r \in S : \A q \in S : r <= q

(* Deviation: whoever executes it.                                         *)
ExecutedByAny(p, statuses) == First({r \in DOMAIN sel : sel[r].status \in statuses})

ExecutedBy(p, statuses) ==
  First({r \in DOMAIN sel : sel[r].status \in statuses /\ pid[sel[r].item] = p})

NextInGroup(g) ==
  First({r \in DOMAIN sel : sel[r].group = g /\ sel[r].status = "IDLE"})

Runnable(t) == Overlap \/ \A u \in Thread \ {t} : at[u].pc = "idle"

Goto(t, place) == at' = [at EXCEPT ![t] = place]

Send(p, r) == exe' = [exe EXCEPT ![p] = Append(@, r)]

----------------------------------------------------------------------------
(* eapi_start_test_case, by the thread t.                                  *)

InUse(g) ==
  g # 0 /\ \E r \in DOMAIN sel : sel[r].group = g /\ sel[r].status \in {"ONGOING", "PAUSED"}

(* The group is looked at under the mutex ...                              *)
CheckGroup(t) ==
  /\ at[t].pc = "idle" /\ todo[t] # <<>>
  /\ Goto(t, [Idle EXCEPT !.pc = "select", !.go = ~InUse(Head(todo[t])[2])])
  /\ UNCHANGED <<mod, pid, carried, sel, forked, inbox, todo, tmcVars>>

(* ... and the case is appended to selected_cases after the unlock         *)
(* (ec_select_case).                                                       *)
Select(t) ==
  LET c == Head(todo[t])[1]
      entry == [case |-> c, group |-> Head(todo[t])[2], status |-> "IDLE",
                item |-> ModuleOf[c], known |-> FALSE, result |-> 0]
  IN
  /\ at[t].pc = "select"
  /\ sel' = Append(sel, entry)
  /\ todo' = [todo EXCEPT ![t] = Tail(@)]
  /\ Goto(t, IF at[t].go THEN [Idle EXCEPT !.pc = "exec", !.r = Len(sel')] ELSE Idle)
  /\ UNCHANGED <<mod, pid, carried, forked, inbox, tmcVars>>

(* ec_exec_case reads the status of the module ...                         *)
ReadStatus(t) ==
  /\ at[t].pc = "exec"
  /\ Goto(t, [at[t] EXCEPT !.pc = "act", !.seen = mod[sel[at[t].r].item]])
  /\ UNCHANGED <<mod, pid, carried, sel, forked, inbox, todo, tmcVars>>

(* Deviation: the module stays ready.                                      *)
NotTaken(i) == mod

Taken(i) == [mod EXCEPT ![i] = "BUSY"]

(* ... and has the case executed by the module's TMC if it was free.       *)
Execute(t) ==
  LET r == at[t].r
      i == sel[r].item
  IN
  /\ at[t].pc = "act" /\ at[t].seen = "READY"
  /\ mod' = Taken(i)
  /\ sel' = [sel EXCEPT ![r].status = "ONGOING"]
  /\ Send(pid[i], r)
  /\ Goto(t, Idle)
  /\ UNCHANGED <<pid, carried, forked, inbox, todo, tmc, going>>

(* Deviation: the pid is not stored.                                       *)
PidForgotten(a) == pid

NewPid(a) == [pid EXCEPT ![a] = forked + 1]

(* ec_start_module_temp: otherwise a temporary module is added to the list *)
(* and its TMC forked.                                                     *)
StartTemp(t) ==
  /\ at[t].pc = "act" /\ at[t].seen = "BUSY" /\ forked < MaxTemps
  /\ \E a \in Temp :
       /\ mod[a] = "absent" \/ (Reuse /\ mod[a] = "removed")
       /\ mod' = [mod EXCEPT ![a] = "NOT_STARTED"]
       /\ pid' = NewPid(a)
       /\ carried' = [carried EXCEPT ![a] = at[t].r]
  /\ forked' = forked + 1
  /\ tmc' = [tmc EXCEPT ![forked + 1] = "boot"]
  /\ Goto(t, [at[t] EXCEPT !.pc = "settemp", !.from = forked + 1])
  /\ UNCHANGED <<sel, inbox, todo, exe, going>>

SetTemp(t) ==
  /\ at[t].pc = "settemp"
  /\ \E a \in ByPid(at[t].from) :
       /\ mod' = [mod EXCEPT ![a] = "INITIALIZED_TEMP"]
       /\ sel' = [sel EXCEPT ![at[t].r].item = a]
  /\ Goto(t, Idle)
  /\ UNCHANGED <<pid, carried, forked, inbox, todo, tmcVars>>

(* "module status fault": the case stays IDLE.                             *)
StatusFault(t) ==
  /\ at[t].pc = "act" /\ at[t].seen \notin {"READY", "BUSY"}
  /\ Goto(t, Idle)
  /\ UNCHANGED <<mod, pid, carried, sel, forked, inbox, todo, tmcVars>>

StartCase(t) ==
  CheckGroup(t) \/ Select(t) \/ ReadStatus(t) \/ Execute(t) \/ StartTemp(t)
    \/ SetTemp(t) \/ StatusFault(t)

----------------------------------------------------------------------------
(* The user of an interactive interface.                                   *)

NewGroup == 1 + Cardinality({sel[r].group : r \in DOMAIN sel} \ {0})

(* Cases are started one by one, in parallel (group 0) or sequentially     *)
(* (start_cases_parallel, start_cases_sequentially of the console UI).     *)
UserStarts ==
  /\ plugin = "console"
  /\ at["user"].pc = "idle" /\ todo["user"] = <<>>
  /\ \E order \in Orders, g \in {0, NewGroup} :
       /\ Len(sel) + Len(order) <= MaxRuns
       /\ todo' = [todo EXCEPT !["user"] = [k \in DOMAIN order |-> <<order[k], g>>]]
  /\ UNCHANGED <<mod, pid, carried, sel, forked, inbox, at, tmcVars>>

(* ec_pause_test_case and ec_resume_test_case: the status is read ...      *)
UserControls ==
  /\ plugin = "console"
  /\ at["user"].pc = "idle" /\ todo["user"] = <<>>
  /\ \E r \in DOMAIN sel :
       /\ sel[r].known
       /\ \/ sel[r].status = "ONGOING" /\ Goto("user", [Idle EXCEPT !.pc = "pause", !.r = r])
          \/ sel[r].status = "PAUSED" /\ Goto("user", [Idle EXCEPT !.pc = "resume", !.r = r])
  /\ UNCHANGED <<mod, pid, carried, sel, forked, inbox, todo, tmcVars>>

(* ... and written after the message to the TMC was sent.                  *)
UserSetsStatus ==
  /\ at["user"].pc \in {"pause", "resume"}
  /\ sel' = [sel EXCEPT ![at["user"].r].status =
               IF at["user"].pc = "pause" THEN "PAUSED" ELSE "ONGOING"]
  /\ Goto("user", Idle)
  /\ UNCHANGED <<mod, pid, carried, forked, inbox, todo, tmcVars>>

(* all_done of the CLI, whose list is INITPTR, of size -1, until the first *)
(* module is heard of.                                                     *)
AllDone ==
  /\ cli.heard # {} /\ cli.ready = Cardinality(cli.heard)
  /\ cli.cases = cli.results

(* The CLI's thread has nothing to do but to wait for that                 *)
(* (pl_open_plugin); it then closes the engine, which ends the session.    *)
CliEnds ==
  /\ plugin = "cli"
  /\ AllDone
  /\ cli' = [cli EXCEPT !.done = TRUE]
  /\ UNCHANGED <<mod, pid, carried, sel, forked, inbox, at, todo, tmcVars>>

User ==
  /\ Runnable("user")
  /\ \/ /\ StartCase("user") \/ UserStarts \/ UserControls \/ UserSetsStatus
        /\ UNCHANGED cli
     \/ CliEnds

----------------------------------------------------------------------------
(* The listener thread: ec_message_dispatch.                               *)

Receives(type) ==
  /\ at["listener"].pc = "idle" /\ todo["listener"] = <<>> /\ ~cli.starting
  /\ inbox # <<>> /\ Head(inbox).type = type
  /\ inbox' = Tail(inbox)

(* What a message is about: the sender, if its status is one of these.     *)
From(p, statuses) == {i \in ByPid(p) : mod[i] \in statuses}

(* pl_new_module of the CLI.                                               *)
CliHears(S) == [cli EXCEPT !.heard = @ \cup S]

(* MSG_OK, once the sender is found: a TMC that was added is asked for its *)
(* cases, and the plug-in hears of the module (pl_new_module).             *)
HandleOk ==
  LET p == Head(inbox).pid IN
  /\ Receives("ok")
  /\ ByPid(p) # {}
  /\ mod' = [i \in Item |-> IF i \in From(p, {"INITIALIZED"}) THEN "TC_SENDING" ELSE mod[i]]
  /\ tmc' = IF From(p, {"INITIALIZED", "INITIALIZED_TEMP"}) = {} THEN tmc
            ELSE [tmc EXCEPT ![p] = "asked"]
  /\ cli' = CliHears(From(p, {"INITIALIZED"}))
  /\ UNCHANGED <<pid, carried, sel, forked, todo, at, exe, going>>

(* MSG_KO: the module cannot be used.                                      *)
HandleKo ==
  LET p == Head(inbox).pid
      useless == From(p, {"INITIALIZED"})
  IN
  /\ Receives("ko")
  /\ mod' = [i \in Item |-> IF i \in useless THEN "removed" ELSE mod[i]]
  /\ tmc' = IF useless = {} THEN tmc ELSE [tmc EXCEPT ![p] = "none"]
  /\ UNCHANGED <<pid, carried, sel, forked, todo, at, exe, going, cli>>

(* pl_new_case of the CLI, for each MSG_TCD, and pl_module_ready: the cases*)
(* of the module are started, in group 1 unless the CLI is in parallel     *)
(* mode ...                                                                *)
CliStarts(i) ==
  \E g \in {0, 1} :
    /\ Len(sel) + Len(Listing[i]) <= MaxRuns
    /\ \A r \in DOMAIN sel : sel[r].group = g
    /\ todo' = [todo EXCEPT !["listener"] = [k \in DOMAIN Listing[i] |-> <<Listing[i][k], g>>]]

(* ... and then the module counts as ready.                                *)
CliCountsReady ==
  /\ cli.starting /\ at["listener"].pc = "idle" /\ todo["listener"] = <<>>
  /\ cli' = [cli EXCEPT !.starting = FALSE, !.ready = @ + 1]
  /\ UNCHANGED <<mod, pid, carried, sel, forked, inbox, at, todo, tmcVars>>

(* Deviation: a module without cases is not reported to the plug-in.       *)
ReportedIfCases(i) == [cli EXCEPT !.cases = @ + Len(Listing[i]), !.starting = Listing[i] # <<>>]

ReportedReady(i) == [cli EXCEPT !.cases = @ + Len(Listing[i]), !.starting = TRUE]

(* The last MSG_TCD of a configured module, which then becomes ready and   *)
(* is reported to the plug-in; if it has no cases it is removed.           *)
ModuleReady(i) ==
  /\ mod[i] = "TC_SENDING"
  /\ cli' = ReportedReady(i)
  /\ \/ /\ Listing[i] = <<>>
        /\ mod' = [mod EXCEPT ![i] = "removed"]
        /\ tmc' = [tmc EXCEPT ![pid[i]] = "none"]
        /\ UNCHANGED todo
     \/ /\ Listing[i] # <<>>
        /\ mod' = [mod EXCEPT ![i] = "READY"]
        /\ CliStarts(i)
        /\ UNCHANGED tmc
  /\ UNCHANGED <<sel, exe>>

(* ... and that of a temporary one, which gets its case                    *)
(* (ec_exec_case_temp).                                                    *)
TempReady(i) ==
  /\ mod[i] = "INITIALIZED_TEMP"
  /\ mod' = [mod EXCEPT ![i] = "BUSY_TEMP"]
  /\ sel' = [sel EXCEPT ![carried[i]].status = "ONGOING"]
  /\ Send(pid[i], carried[i])
  /\ UNCHANGED <<todo, tmc, cli>>

HandleTcd ==
  /\ Receives("eot")
  /\ \E i \in ByPid(Head(inbox).pid) : ModuleReady(i) \/ TempReady(i)
  /\ UNCHANGED <<pid, carried, forked, at, going>>

(* MSG_RUN_ID: the run id goes to the first case the sender executes.      *)
HandleRunId ==
  LET r == ExecutedBy(Head(inbox).pid, {"ONGOING"}) IN
  /\ Receives("runid")
  /\ sel' = IF r = 0 THEN sel ELSE [sel EXCEPT ![r].known = TRUE]
  /\ UNCHANGED <<mod, pid, carried, forked, todo, at, tmcVars, cli>>

(* The CLI knows a run by the id of its MSG_RUN_ID (pl_case_started), and  *)
(* counts only the results of those it knows (pl_case_result).             *)
CliKnows(r) == plugin = "cli" /\ sel[r].known

ResultTold(r) == IF CliKnows(r) THEN [cli EXCEPT !.results = @ + 1] ELSE cli

(* MSG_RET.  A temporary module carries one case, whose result is kept;    *)
(* otherwise the case is searched for under the mutex ...                  *)
HandleRet ==
  LET p == Head(inbox).pid
      r == ExecutedBy(p, {"ONGOING", "PAUSED"})
      place == [Idle EXCEPT !.from = p, !.ret = Head(inbox).run]
      temps == {a \in ByPid(p) : mod[a] = "BUSY_TEMP"}
  IN
  /\ Receives("ret")
  /\ \/ \E a \in temps :
          /\ sel' = [sel EXCEPT ![carried[a]].result = Head(inbox).run]
          /\ cli' = ResultTold(carried[a])
          /\ Goto("listener", [place EXCEPT !.pc = "tempfind"])
     \/ /\ temps = {}
        /\ Goto("listener", IF r = 0 \/ ByPid(p) = {} THEN Idle
                            ELSE [place EXCEPT !.pc = "credit", !.r = r])
        /\ UNCHANGED <<sel, cli>>
  /\ UNCHANGED <<mod, pid, carried, forked, todo, tmcVars>>

WithResult(r, n) == [sel EXCEPT ![r].status = "TERMINATED", ![r].result = n]

(* Deviation: the next case is left to the user.                           *)
NothingNext(l) == Idle

NextIfGroup(l) == IF sel[l.r].group = 0 THEN Idle ELSE [l EXCEPT !.pc = "next"]

(* ... and used after the unlock.                                          *)
Credit ==
  LET l == at["listener"] IN
  /\ l.pc = "credit"
  /\ mod' = [i \in Item |-> IF i \in ByPid(l.from) THEN "READY" ELSE mod[i]]
  /\ sel' = WithResult(l.r, l.ret)
  /\ cli' = ResultTold(l.r)
  /\ Goto("listener", NextIfGroup(l))
  /\ UNCHANGED <<pid, carried, forked, inbox, todo, tmcVars>>

(* ec_handle_temp_results searches selected_cases for the address of the   *)
(* temporary module ...                                                    *)
FindTempCase ==
  LET l == at["listener"]
      r == First({q \in DOMAIN sel : sel[q].item \in ByPid(l.from)})
  IN
  /\ l.pc = "tempfind"
  /\ Goto("listener", IF r = 0 THEN Idle ELSE [l EXCEPT !.pc = "tempend", !.r = r])
  /\ UNCHANGED <<mod, pid, carried, sel, forked, inbox, todo, tmcVars, cli>>

(* ... and removes the module (ec_remove_module_temp).                     *)
RemoveTemp ==
  LET l == at["listener"] IN
  /\ l.pc = "tempend"
  /\ mod' = [i \in Item |-> IF i \in ByPid(l.from) THEN "removed" ELSE mod[i]]
  /\ sel' = [sel EXCEPT ![l.r].status = "TERMINATED"]
  /\ tmc' = [tmc EXCEPT ![l.from] = "none"]
  /\ \E a \in ByPid(l.from) : Goto("listener", [l EXCEPT !.pc = "next", !.r = carried[a]])
  /\ UNCHANGED <<pid, carried, forked, inbox, todo, exe, going, cli>>

(* ec_check_next_in_group, of which the search is under the mutex.         *)
CheckNext ==
  LET l == at["listener"]
      r == NextInGroup(sel[l.r].group)
  IN
  /\ l.pc = "next"
  /\ Goto("listener", IF r = 0 THEN Idle ELSE [Idle EXCEPT !.pc = "exec", !.r = r])
  /\ UNCHANGED <<mod, pid, carried, sel, forked, inbox, todo, tmcVars, cli>>

Listener ==
  /\ Runnable("listener")
  /\ \/ StartCase("listener") /\ UNCHANGED cli
     \/ CliCountsReady
     \/ HandleOk \/ HandleKo \/ HandleTcd \/ HandleRunId \/ HandleRet
     \/ Credit \/ FindTempCase \/ RemoveTemp \/ CheckNext

----------------------------------------------------------------------------
(* A TMC.                                                                  *)

Report(type, p, r) == inbox' = Append(inbox, [type |-> type, pid |-> p, run |-> r])

(* gu_init_tmc; a library that could be loaded once can be loaded again.   *)
Boot(p) ==
  /\ tmc[p] = "boot"
  /\ tmc' = [tmc EXCEPT ![p] = "up"]
  /\ Report("ok", p, 0) \/ (p \in Module /\ Report("ko", p, 0))
  /\ UNCHANGED <<exe, going>>

(* gu_handle_gtc.                                                          *)
ListCases(p) ==
  /\ tmc[p] = "asked"
  /\ tmc' = [tmc EXCEPT ![p] = "up"]
  /\ Report("eot", p, 0)
  /\ UNCHANGED <<exe, going>>

Begin(p) ==
  /\ tmc[p] = "up" /\ exe[p] # <<>>
  /\ exe' = [exe EXCEPT ![p] = Tail(@)]
  /\ going' = [going EXCEPT ![p] = @ \cup {Head(exe[p])}]
  /\ Report("runid", p, Head(exe[p]))
  /\ UNCHANGED tmc

Finish(p) ==
  \E r \in going[p] :
    /\ going' = [going EXCEPT ![p] = @ \ {r}]
    /\ Report("ret", p, r)
    /\ UNCHANGED <<tmc, exe>>

Tmc(p) ==
  /\ Boot(p) \/ ListCases(p) \/ Begin(p) \/ Finish(p)
  /\ UNCHANGED <<mod, pid, carried, sel, forked, at, todo, cli>>

----------------------------------------------------------------------------
(* Nothing is modelled after the end of the session.                       *)
Next ==
  /\ ~cli.done
  /\ User \/ Listener \/ \E p \in Pid : Tmc(p)
  /\ UNCHANGED plugin

Spec == Init /\ [][Next]_vars

(* Both threads are scheduled, and a TMC answers what it is asked (see     *)
(* RunService).  The user need not start anything.                         *)
Fairness ==
  /\ SF_vars(Next /\ Listener)
  /\ WF_vars(Next /\ Runnable("user") /\ (StartCase("user") \/ UserSetsStatus))
  /\ WF_vars(Next /\ CliEnds)
  /\ \A p \in Pid : WF_vars(Next /\ Tmc(p))

FairSpec == Spec /\ Fairness

----------------------------------------------------------------------------
(* What the engine promises.                                               *)

(* A result goes to the case that produced it, and a case that has one is  *)
(* not executed any more.                                                  *)
ResultIsOwn ==
  \A r \in DOMAIN sel :
    /\ sel[r].result \in {0, r}
    /\ sel[r].status = "TERMINATED" => sel[r].result = r

(* What is on its way between the engine and the TMC p.                    *)
Pending(p) ==
  Len(exe[p]) + Cardinality(going[p])
    + Cardinality({k \in DOMAIN inbox : inbox[k].type = "ret" /\ inbox[k].pid = p})

(* A TMC is asked to execute a case only when the last one it was given is *)
(* reported, as the TMC relies on (RunService, Ask).                       *)
OneAtATime == \A p \in Pid : Pending(p) <= 1

Sent(r) == \E p \in Pid :
  \/ \E k \in DOMAIN exe[p] : exe[p][k] = r
  \/ r \in going[p]
  \/ \E k \in DOMAIN inbox : inbox[k].type = "ret" /\ inbox[k].run = r

(* "If the groupid is non-zero test case is started when there are no      *)
(* cases running with the same groupid" (min_engine_api.h).                *)
Sequential ==
  \A q, r \in DOMAIN sel :
    q # r /\ sel[q].group # 0 /\ sel[q].group = sel[r].group => ~(Sent(q) /\ Sent(r))

(* With the CLI the promise is kept: all cases of all modules are executed *)
(* one after the other unless it is in parallel mode.                      *)
CliSequential == plugin = "cli" => Sequential

(* Every case that was selected gets its result: there is no end to a wait *)
(* for one (the number of cases is bounded).  And the CLI, which ends by   *)
(* counting, does end once it has heard of a module, not before every case *)
(* it started has its result, as a session that has ended stays as it is.  *)
AllReported == \A r \in DOMAIN sel : sel[r].status = "TERMINATED"

EveryCaseReported == []<>(AllReported /\ (cli.heard # {} /\ plugin = "cli" => cli.done))
=============================================================================
