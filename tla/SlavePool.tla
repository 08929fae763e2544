----------------------------- MODULE SlavePool -----------------------------
(***************************************************************************)
(* The pool of slaves of a master engine (engine/tec/tec_tcp_handling.c,   *)
(* tec_rcp_handling.c): scripted tests allocate a slave by type and name,  *)
(* run test cases in it and free it; the engine keeps one entry per slave  *)
(* host in ms_assoc and talks to the engine behind it over a connection.   *)
(*                                                                         *)
(* The listener thread handles a request of a test in one step, the socket *)
(* thread an answer of a slave; what two threads may do to one write queue *)
(* at a time is left out.  All slaves are of the type the tests ask for.   *)
(* Commands to a slave that change nothing in the pool (events, variables) *)
(* are left out, and so is the loss of a connection.  write_queue_ belongs *)
(* to the entry and outlives the connection.                               *)
(***************************************************************************)
EXTENDS Naturals, Sequences, FiniteSets

CONSTANTS
  NSlaves,        \* number of entries in the pool
  Tests,          \* the scripted test processes
  Nobody,         \* no test
  MaxAllocs,      \* bound: allocations, of all tests
  MaxRuns,        \* bound: remote runs, of all tests
  MaxAsks,        \* bound: allocations and remote runs together
  OneName,        \* all tests use the same name for their slaves
  Impatient       \* the tests whose blocking commands may time out (blocktimeout 0: they do not)

ASSUME PoolAssumption ==
  /\ NSlaves \in Nat \ {0} /\ MaxAllocs \in Nat \ {0} /\ MaxRuns \in Nat /\ MaxAsks \in Nat
  /\ Nobody \notin Tests /\ Tests # {}
  /\ OneName \in BOOLEAN /\ Impatient \subseteq Tests

Slaves == 1..NSlaves
Name(t) == IF OneName THEN CHOOSE u \in Tests : TRUE ELSE t

Id == Nat
Request == [type : {"allocate", "run", "free"}, from : Tests]
Command == [type : {"reserve", "run", "release"}, from : Tests, id : Id]
Answer == [type : {"reserve", "started", "ready", "error", "release"}, id : Id, case : Nat]
Notice == [type : {"response", "ready"}, ok : BOOLEAN, id : Id, case : Nat]
Entry == [reserved : BOOLEAN, name : Tests \cup {Nobody}, id : Id, runs : 0..MaxRuns,
          open : BOOLEAN, pid : Tests \cup {Nobody}, out : Seq(Command)]
Session == [id : Id, cases : Nat, busy : BOOLEAN]

VARIABLES
  at,       \* where each test is in its script
  allocs,   \* how many slaves they have asked for
  started,  \* how many remote runs they have asked for
  pending,  \* the remote runs of each, by slave_id_ and case number
  tidy,     \* whether all scripts complete their remote runs before they free a slave
  queue,    \* messages to the engine
  inbox,    \* messages of the engine to each test
  pool,     \* ms_assoc
  lastId,   \* slave_id of allocate_ip_slave
  session,  \* the slave's engine behind the connection of each entry
  answers   \* what it has sent over that connection

testVars == <<at, allocs, started, pending, tidy>>
vars == <<testVars, queue, inbox, pool, lastId, session, answers>>

Blocked == {"allocating", "starting", "freeing"}

DataOK ==
  /\ at \in [Tests -> {"idle", "holding", "gone"} \cup Blocked]
  /\ allocs \in 0..MaxAllocs /\ started \in 0..MaxRuns
  /\ pending \in [Tests -> SUBSET (Id \X Nat)]
  /\ queue \in Seq(Request) /\ inbox \in [Tests -> Seq(Notice)]
  /\ pool \in [Slaves -> Entry] /\ lastId \in Id
  /\ session \in [Slaves -> Session] /\ answers \in [Slaves -> Seq(Answer)]

TypeOK == DataOK /\ tidy \in BOOLEAN

Unconnected == [id |-> 0, cases |-> 0, busy |-> FALSE]

(* tec_add_ip_slave_to_pool                                                *)
Init ==
  /\ at = [t \in Tests |-> "idle"]
  /\ allocs = 0 /\ started = 0
  /\ pending = [t \in Tests |-> {}] /\ tidy \in BOOLEAN
  /\ queue = <<>> /\ inbox = [t \in Tests |-> <<>>]
  /\ pool = [s \in Slaves |-> [reserved |-> FALSE, name |-> Nobody, id |-> 0, runs |-> 0,
                               open |-> FALSE, pid |-> Nobody, out |-> <<>>]]
  /\ lastId = 0
  /\ session = [s \in Slaves |-> Unconnected] /\ answers = [s \in Slaves |-> <<>>]

----------------------------------------------------------------------------
(* The scripts: every request of a test blocks it until it is answered.    *)

Ask(t, type, where) ==
  /\ at' = [at EXCEPT ![t] = where]
  /\ queue' = Append(queue, [type |-> type, from |-> t])
  /\ UNCHANGED <<pending, tidy, inbox, pool, lastId, session, answers>>

(* test_allocate_slave                                                     *)
Allocate(t) ==
  /\ at[t] = "idle" /\ allocs < MaxAllocs /\ allocs + started < MaxAsks
  /\ allocs' = allocs + 1
  /\ Ask(t, "allocate", "allocating")
  /\ UNCHANGED started

(* test_remote_exe                                                         *)
Run(t) ==
  /\ at[t] = "holding" /\ started < MaxRuns /\ allocs + started < MaxAsks
  /\ started' = started + 1
  /\ Ask(t, "run", "starting")
  /\ UNCHANGED allocs

(* test_free_slave                                                         *)
Free(t) ==
  /\ at[t] = "holding"
  /\ tidy => pending[t] = {}
  /\ Ask(t, "free", "freeing")
  /\ UNCHANGED <<allocs, started>>

(* uengine_handle_extif_response: whatever the test waits for is taken to  *)
(* be answered; a case number makes a record of a remote run.              *)
Answered(t, m) ==
  IF ~m.ok THEN "gone"
  ELSE CASE at[t] \in {"allocating", "starting"} -> "holding"
         [] at[t] = "freeing" -> "idle"
         [] OTHER -> at[t]

HearResponse(t, m) ==
  /\ m.type = "response"
  /\ at' = [at EXCEPT ![t] = Answered(t, m)]
  /\ pending' = IF m.case > 0 /\ m.ok
                THEN [pending EXCEPT ![t] = @ \cup {<<m.id, m.case>>}] ELSE pending

(* uengine_handle_extif_remote_response: an unknown run is an error.       *)
HearReady(t, m) ==
  /\ m.type = "ready"
  /\ at' = IF <<m.id, m.case>> \in pending[t] THEN at ELSE [at EXCEPT ![t] = "gone"]
  /\ pending' = [pending EXCEPT ![t] = @ \ {<<m.id, m.case>>}]

Hear(t) ==
  /\ inbox[t] # <<>>
  /\ HearResponse(t, Head(inbox[t])) \/ HearReady(t, Head(inbox[t]))
  /\ inbox' = [inbox EXCEPT ![t] = IF at'[t] = "gone" THEN <<>> ELSE Tail(@)]
  /\ UNCHANGED <<allocs, started, tidy, queue, pool, lastId, session, answers>>

(* _execute_script: the blocking command has timed out; the error ends the *)
(* script, and nobody frees its slave.                                     *)
GiveUp(t) ==
  /\ t \in Impatient /\ at[t] \in Blocked
  /\ at' = [at EXCEPT ![t] = "gone"]
  /\ inbox' = [inbox EXCEPT ![t] = <<>>]
  /\ UNCHANGED <<allocs, started, pending, tidy, queue, pool, lastId, session, answers>>

----------------------------------------------------------------------------
(* The listener thread: ec_msg_ms_handler.                                 *)

First(S) == CHOOSE s \in S : \A r \in S : s <= r

(* Deviation: the first entry in use, whatever its name.                   *)
TargetInUse(p, name) == First({s \in Slaves : p[s].name # Nobody})

(* The search of send_to_slave ends at the last entry when it finds none.  *)
Target(p, name) ==
  LET named == {s \in Slaves : p[s].name = name}
  IN IF named = {} THEN NSlaves ELSE First(named)

(* find_slave_by_fd in socket_send_rcp: all unconnected entries have -1.   *)
QueueOf(p, s) == IF p[s].open THEN s ELSE First({r \in Slaves : ~p[r].open})

(* Deviation: the remote run is not counted.                               *)
SentUncounted(p, type, t) ==
  LET s == Target(p, Name(t))
  IN [p EXCEPT ![QueueOf(p, s)].out = Append(@, [type |-> type, from |-> t, id |-> p[s].id])]

(* send_to_slave, socket_send_rcp                                          *)
Sent(p, type, t) ==
  LET s == Target(p, Name(t))
      counted == IF type = "run" THEN [p EXCEPT ![s].runs = @ + 1] ELSE p
  IN [counted EXCEPT ![QueueOf(p, s)].out =
        Append(@, [type |-> type, from |-> t, id |-> p[s].id])]

FreeEntries == {s \in Slaves : ~pool[s].reserved}

(* Deviation: the flag is forgotten.                                       *)
ReservedNot(e, t) == [e EXCEPT !.name = Name(t), !.open = TRUE, !.id = lastId + 1, !.pid = t]

Reserved(e, t) ==
  [e EXCEPT !.name = Name(t), !.open = TRUE, !.id = lastId + 1, !.reserved = TRUE, !.pid = t]

(* allocate_ip_slave succeeds: a connection, and with it a new engine at   *)
(* the other end; what an older connection of the entry still has to say   *)
(* is never read.                                                          *)
HandleAllocate(t) ==
  /\ FreeEntries # {}
  /\ LET s == First(FreeEntries) IN
     /\ pool' = Sent([pool EXCEPT ![s] = Reserved(@, t)], "reserve", t)
     /\ session' = [session EXCEPT ![s] = Unconnected]
     /\ answers' = [answers EXCEPT ![s] = <<>>]
  /\ lastId' = lastId + 1

(* No slave is free: the test is not told.                                 *)
NoneFree ==
  /\ FreeEntries = {}
  /\ UNCHANGED <<pool, lastId, session, answers>>

(* The connection is refused: the test is not told either, and the entry   *)
(* keeps the name.                                                         *)
Refused(t) ==
  /\ FreeEntries # {}
  /\ pool' = [pool EXCEPT ![First(FreeEntries)].name = Name(t)]
  /\ UNCHANGED <<lastId, session, answers>>

HandleCommand(r) ==
  /\ pool' = Sent(pool, IF r.type = "free" THEN "release" ELSE r.type, r.from)
  /\ UNCHANGED <<lastId, session, answers>>

Listener ==
  /\ queue # <<>> /\ queue' = Tail(queue)
  /\ LET r == Head(queue) IN
     \/ r.type = "allocate" /\ (HandleAllocate(r.from) \/ NoneFree \/ Refused(r.from))
     \/ r.type # "allocate" /\ HandleCommand(r)
  /\ UNCHANGED <<testVars, inbox>>

----------------------------------------------------------------------------
(* The engine of a slave: it serves its commands in order, and a second    *)
(* run only when the first has ended, as a slave that is neither deaf nor  *)
(* crashed does (SlaveEngine, ImplementsSession).                          *)

Say(s, type, id, case) ==
  answers' = [answers EXCEPT ![s] = Append(@, [type |-> type, id |-> id, case |-> case])]

(* extif_msg_handle_reserve, extif_msg_handle_release                      *)
Serve(s, c) ==
  \/ /\ c.type = "reserve"
     /\ session' = [session EXCEPT ![s].id = c.id]
     /\ Say(s, "reserve", c.id, 0)
  \/ /\ c.type = "release"
     /\ Say(s, "release", session[s].id, 0)
     /\ UNCHANGED session

StartCase(s, c) ==
  /\ c.type = "run" /\ ~session[s].busy
  /\ session' = [session EXCEPT ![s].cases = @ + 1, ![s].busy = TRUE]
  /\ Say(s, "started", session[s].id, session[s].cases + 1)

(* The command does not name a test case properly.                         *)
RunFault(s, c) ==
  /\ c.type = "run"
  /\ Say(s, "error", session[s].id, 0)
  /\ UNCHANGED session

SlaveReads(s) ==
  /\ pool[s].open /\ pool[s].out # <<>>
  /\ pool' = [pool EXCEPT ![s].out = Tail(@)]
  /\ LET c == Head(pool[s].out) IN Serve(s, c) \/ StartCase(s, c) \/ RunFault(s, c)
  /\ UNCHANGED <<testVars, queue, inbox, lastId>>

(* tcp_master_report                                                       *)
SlaveReady(s) ==
  /\ session[s].busy
  /\ session' = [session EXCEPT ![s].busy = FALSE]
  /\ Say(s, "ready", session[s].id, session[s].cases)
  /\ UNCHANGED <<testVars, queue, inbox, pool, lastId>>

----------------------------------------------------------------------------
(* The socket thread: socket_read_rcp, tcp_msg_handle_response.            *)

(* A process that is gone reads nothing.                                   *)
Tell(s, type, ok, a) ==
  inbox' = IF pool[s].pid = Nobody \/ at[pool[s].pid] = "gone" THEN inbox
           ELSE [inbox EXCEPT ![pool[s].pid] =
                  Append(@, [type |-> type, ok |-> ok, id |-> a.id, case |-> a.case])]

(* tcp_slave_close: the engine at the other end ends, and what runs there. *)
Close(s) ==
  /\ pool' = [pool EXCEPT ![s].open = FALSE, ![s].reserved = FALSE, ![s].name = Nobody]
  /\ session' = [session EXCEPT ![s] = Unconnected]
  /\ answers' = [answers EXCEPT ![s] = <<>>]

Keep(s, e) ==
  /\ pool' = [pool EXCEPT ![s] = e]
  /\ answers' = [answers EXCEPT ![s] = Tail(@)]
  /\ UNCHANGED session

HearReserve(s, a) ==
  /\ a.type = "reserve"
  /\ Keep(s, [pool[s] EXCEPT !.id = a.id, !.reserved = TRUE])
  /\ Tell(s, "response", TRUE, a)

HearRelease(s, a) ==
  /\ a.type = "release"
  /\ IF pool[s].runs = 0 THEN Close(s) ELSE Keep(s, [pool[s] EXCEPT !.reserved = FALSE])
  /\ Tell(s, "response", TRUE, a)

(* Deviation: a run that was started is no longer counted.                 *)
HearStartedUncounts(s, a) ==
  /\ a.type = "started"
  /\ Keep(s, [pool[s] EXCEPT !.runs = @ - 1])
  /\ Tell(s, "response", TRUE, a)

HearStarted(s, a) ==
  /\ a.type = "started"
  /\ Keep(s, pool[s])
  /\ Tell(s, "response", TRUE, a)

(* Deviation: the test is told nothing.                                    *)
HearEndSilently(s, a) ==
  /\ a.type \in {"ready", "error"}
  /\ IF pool[s].reserved THEN Keep(s, [pool[s] EXCEPT !.runs = @ - 1]) ELSE Close(s)
  /\ UNCHANGED inbox

HearEnd(s, a) ==
  /\ a.type \in {"ready", "error"}
  /\ IF pool[s].reserved THEN Keep(s, [pool[s] EXCEPT !.runs = @ - 1]) ELSE Close(s)
  /\ IF a.type = "ready" THEN Tell(s, "ready", TRUE, a) ELSE Tell(s, "response", FALSE, a)

SocketReads(s) ==
  /\ pool[s].open /\ answers[s] # <<>>
  /\ LET a == Head(answers[s]) IN
     HearReserve(s, a) \/ HearRelease(s, a) \/ HearStarted(s, a) \/ HearEnd(s, a)
  /\ UNCHANGED <<testVars, queue, lastId>>

----------------------------------------------------------------------------
Next ==
  \/ \E t \in Tests : Allocate(t) \/ Run(t) \/ Free(t) \/ Hear(t) \/ GiveUp(t)
  \/ Listener
  \/ \E s \in Slaves : SlaveReads(s) \/ SlaveReady(s) \/ SocketReads(s)

Spec == Init /\ [][Next]_vars

(* Both threads of the engine poll for ever, and so do the engines of the  *)
(* slaves and a blocked test; a remote test case ends.  Nobody has to      *)
(* start anything or give up.                                              *)
Fairness ==
  /\ WF_vars(Listener)
  /\ \A t \in Tests : WF_vars(Hear(t))
  /\ \A s \in Slaves : WF_vars(SlaveReads(s)) /\ WF_vars(SlaveReady(s)) /\ WF_vars(SocketReads(s))

FairSpec == Spec /\ Fairness

----------------------------------------------------------------------------
(* A command in the write queue of a slave comes from the test that has    *)
(* reserved this slave: send_to_slave looks for the name, and the queue is *)
(* found by the socket.                                                    *)
OwnCommands ==
  \A s \in Slaves : \A k \in DOMAIN pool[s].out : pool[s].out[k].from = pool[s].pid

Count(q, types) == Cardinality({k \in DOMAIN q : q[k].type \in types})

(* The remote runs of a slave that are ongoing: those it has not yet begun,*)
(* the one it works on, and those whose end the socket thread has not yet  *)
(* heard of.                                                               *)
Ongoing(s) == Count(pool[s].out, {"run"}) + Count(answers[s], {"ready", "error"})
              + (IF session[s].busy THEN 1 ELSE 0)

(* No ongoing run is left out of run_cnt_, so that a release that finds 0  *)
(* and closes the connection cuts none off: also when tests free a slave   *)
(* while it works, and others take it over before its result has come.     *)
NoRunOverlooked == \A s \in Slaves : Ongoing(s) <= pool[s].runs

(* The pool leases each slave to one test at a time (SlaveLease), as long  *)
(* as the scripts complete their runs before they free a slave; of others  *)
(* the pool keeps no lease.                                                *)
Lease == INSTANCE SlaveLease WITH
  holder <- [s \in Slaves |-> IF tidy /\ pool[s].reserved THEN pool[s].pid ELSE Nobody],
  working <- [s \in Slaves |-> tidy /\ session[s].busy],
  users <- {t \in Tests : tidy /\ at[t] \in {"holding", "starting"}}

ImplementsLease == Lease!Spec

(* A test that waits for the engine is answered, however many tests share  *)
(* the pool, unless no slave was free when its allocation was handled.     *)
Unserved(t) ==
  /\ at[t] = "allocating"
  /\ \A k \in DOMAIN queue : queue[k].from # t
  /\ \A s \in Slaves : ~(pool[s].reserved /\ pool[s].pid = t)

EveryRequestAnswered ==
  \A t \in Tests : (at[t] \in Blocked) ~> (at[t] \notin Blocked \/ Unserved(t))

(* A run of the test whose connection is closed, or was replaced by that   *)
(* of the next test on the same entry: nobody reads its result.            *)
CutOff(t) == \E r \in pending[t] : \A s \in Slaves : ~(pool[s].open /\ pool[s].id = r[1])

(* A test that has started a remote run hears of its end, which its script *)
(* needs to end (extif_remote); a script that frees the slave before may   *)
(* have its run cut off.                                                   *)
EveryRunReported ==
  \A t \in Tests :
    (pending[t] # {}) ~> (pending[t] = {} \/ at[t] = "gone" \/ (~tidy /\ CutOff(t)))
============================================================================
