---------------------------- MODULE EventSystem ----------------------------
(***************************************************************************)
(* The event system of the test engine (engine/tec/tec_events.c) together  *)
(* with the test processes that use it (services/event_system/             *)
(* min_test_event_if.c).                                                   *)
(*                                                                         *)
(* A test process sends one request at a time: it puts MSG_EVENT into the  *)
(* queue of its test module controller (TMC), which forwards it to the     *)
(* engine, and it blocks until the engine's MSG_EVENT_IND arrives.  The    *)
(* engine's listener thread handles one request at a time.  Requests of    *)
(* the master of a master/slave pair arrive over a socket; the engine      *)
(* treats all of them as coming from one registrar, pid -1.                *)
(*                                                                         *)
(* A registration is held as a function from registrar to its state, with  *)
(* "none" for a registrar that is not in the event's list: the code keeps  *)
(* at most one entry per registrar and the order of the list only fixes    *)
(* the order of messages to different receivers.  A process that crashes   *)
(* is one that takes no further step: nobody tells the event system, and   *)
(* what it left in the queues is still handled.                            *)
(***************************************************************************)
EXTENDS Naturals, Sequences

CONSTANTS Client,    \* pids of the test processes
          Remote,    \* the registrar of every remote request (pid -1)
          Name,      \* event names
          Calls      \* the requests the test processes make

Registrar == Client \cup {Remote}

Command == {"request", "wait", "release", "set", "unset"}
EventType == {"ind", "state"}
Request == [cmd : Command, type : EventType, name : Name]
NoRequest == [cmd |-> "none"]
Ask(cmd, type, e) == [cmd |-> cmd, type |-> type, name |-> e]

ASSUME RemoteAssumption == Remote \notin Client
ASSUME CallsAssumption == Calls \subseteq Request

(* ereg_unset_registered, ereg_waiting_registered, ereg_set_registered.    *)
RegState == {"none", "unset", "waiting", "set"}

(* EState_UNSET, EState_SET, EState_UNSET_pending; "absent": no such event *)
(* in the list state_events.                                               *)
StateOfEvent == {"absent", "unset", "set", "pending"}

VARIABLES
  ind,         \* registrations of the indication events
  st,          \* registrations of the state events
  state,       \* state_ of the state events
  controller,  \* controller_: whose unset is pending
  told,        \* what the master was last told about its request for a
               \* state event; "nothing": it has no request standing
  req,         \* the request each client is blocked in
  loc,         \* where that request is
  inbox        \* MSG_EVENT_IND messages waiting in the client's queue

engineVars == <<ind, st, state, controller, told>>
clientVars == <<req, loc, inbox>>
vars == <<ind, st, state, controller, told, req, loc, inbox>>

NoRegs == [r \in Registrar |-> "none"]

(* Deviation: only those waiting count.                                    *)
RegisteredAndWaiting(regs) == {r \in Registrar : regs[r] = "waiting"}

Registered(regs) == {r \in Registrar : regs[r] # "none"}
Waiting(regs) == {r \in Registrar : regs[r] = "waiting"}

TypeOK ==
  /\ ind \in [Name -> [Registrar -> RegState]]
  /\ st \in [Name -> [Registrar -> RegState]]
  /\ state \in [Name -> StateOfEvent]
  /\ controller \in [Name -> Registrar]
  /\ told \in [Name -> {"nothing", "active", "set", "error"}]
  /\ req \in [Client -> Calls \cup {NoRequest}]
  /\ loc \in [Client -> {"idle", "tmc", "engine", "served"}]
  /\ \A c \in Client : loc[c] = "idle" <=> req[c] = NoRequest
  /\ inbox \in [Client -> Seq({"ok", "err"})]

Init ==
  /\ ind = [e \in Name |-> NoRegs]
  /\ st = [e \in Name |-> NoRegs]
  /\ state = [e \in Name |-> "absent"]
  /\ controller = [e \in Name |-> Remote]
  /\ told = [e \in Name |-> "nothing"]
  /\ req = [c \in Client |-> NoRequest]
  /\ loc = [c \in Client |-> "idle"]
  /\ inbox = [c \in Client |-> <<>>]

----------------------------------------------------------------------------
(* Engine: the handlers.  src is the registrar that asks, e the event.     *)

(* send_event_ind to each of S; it sends nothing to a remote registrar.    *)
Post(box, S, status) ==
  [c \in Client |-> IF c \in S THEN Append(box[c], status) ELSE box[c]]

(* send_event_ind(event_src, ..) when the handler sends nothing else.      *)
Answer(src, status) == inbox' = Post(inbox, {src}, status)

(* Deviation: those woken up get no message.                               *)
WakeNobody(woken, src) == Answer(src, "ok")

(* send_event_ind to those woken up, then the answer to the caller.        *)
WakeAndAnswer(woken, src) ==
  inbox' = Post(Post(inbox, woken, "ok"), {src}, "ok")

(* Deviation: the master is not told.                                      *)
TellNobody(woken, e) == UNCHANGED told

(* remote_event_req_response for a remote registrar among those woken up;  *)
(* the responses about indications change nothing in the engine.           *)
TellRemote(woken, e) ==
  told' = IF Remote \in woken THEN [told EXCEPT ![e] = "set"] ELSE told

(* Deviation: a client that was woken up stays registered as waiting.      *)
SetIndRegAgain(r, s) == IF s = "unset" THEN "set" ELSE s

(* do_set_on_ind_reg: a waiting remote registration is answered and stays. *)
SetIndReg(r, s) ==
  CASE s = "waiting" /\ r # Remote -> "unset"
    [] s = "unset" -> "set"
    [] OTHER -> s

(* do_set_on_state_reg                                                     *)
SetStateReg(r, s) ==
  CASE s = "waiting" /\ r # Remote -> "set"
    [] s = "unset" -> "set"
    [] OTHER -> s

IndSet(src, e) ==
  /\ ind' = [ind EXCEPT ![e] = [r \in Registrar |-> SetIndReg(r, ind[e][r])]]
  /\ WakeAndAnswer(Waiting(ind[e]), src)
  /\ UNCHANGED <<st, state, controller, told>>

IndWait(src, e) ==
  /\ \/ /\ ind[e][src] = "set"
        /\ ind' = [ind EXCEPT ![e][src] = "unset"]
        /\ Answer(src, "ok")
     \/ /\ ind[e][src] = "unset"
        /\ ind' = [ind EXCEPT ![e][src] = "waiting"]
        /\ UNCHANGED inbox
     \/ /\ ind[e][src] \in {"none", "waiting"}
        /\ Answer(src, "err")
        /\ UNCHANGED ind
  /\ UNCHANGED <<st, state, controller, told>>

IndRequest(src, e) ==
  /\ \/ /\ ind[e][src] # "none"
        /\ Answer(src, "err")
        /\ UNCHANGED ind
     \/ /\ ind[e][src] = "none"
        /\ ind' = [ind EXCEPT ![e][src] = "unset"]
        /\ Answer(src, "ok")
  /\ UNCHANGED <<st, state, controller, told>>

(* An indication event is in the list exactly while it has registrations.  *)
IndRelease(src, e) ==
  /\ \/ /\ ind[e][src] = "none"
        /\ Answer(src, "err")
        /\ UNCHANGED ind
     \/ /\ ind[e][src] # "none"
        /\ ind' = [ind EXCEPT ![e][src] = "none"]
        /\ Answer(src, "ok")
  /\ UNCHANGED <<st, state, controller, told>>

(* An event whose unset is pending still counts as set.                    *)
IsSet(e) == state[e] \in {"set", "pending"}

StateSet(src, e) ==
  /\ \/ /\ IsSet(e)
        /\ Answer(src, "ok")
        /\ UNCHANGED <<st, state, told>>
     \/ /\ ~IsSet(e)
        /\ state' = [state EXCEPT ![e] = "set"]
        /\ st' = [st EXCEPT ![e] = [r \in Registrar |-> SetStateReg(r, st[e][r])]]
        /\ WakeAndAnswer(Waiting(st[e]), src)
        /\ TellRemote(Waiting(st[e]), e)
  /\ UNCHANGED <<ind, controller>>

StateUnset(src, e) ==
  /\ \/ /\ state[e] # "set"
        /\ Answer(src, "err")
        /\ UNCHANGED <<state, controller>>
     \/ /\ state[e] = "set" /\ Registered(st[e]) # {}
        /\ state' = [state EXCEPT ![e] = "pending"]
        /\ controller' = [controller EXCEPT ![e] = src]
        /\ UNCHANGED inbox
     \/ /\ state[e] = "set" /\ Registered(st[e]) = {}
        /\ state' = [state EXCEPT ![e] = "absent"]
        /\ Answer(src, "ok")
        /\ UNCHANGED controller
  /\ UNCHANGED <<ind, st, told>>

(* Deviation: a wait uses the state up, as it does with an indication.     *)
GrantOnce(src, e) == st' = [st EXCEPT ![e][src] = "unset"] /\ Answer(src, "ok")

Grant(src, e) == st' = [st EXCEPT ![e][src] = "set"] /\ Answer(src, "ok")

StateWait(src, e) ==
  /\ \/ /\ st[e][src] \in {"none", "waiting"}
        /\ Answer(src, "err")
        /\ UNCHANGED st
     \/ st[e][src] \in {"unset", "set"} /\ IsSet(e) /\ Grant(src, e)
     \/ /\ st[e][src] \in {"unset", "set"} /\ ~IsSet(e)
        /\ st' = [st EXCEPT ![e][src] = "waiting"]
        /\ UNCHANGED inbox
  /\ UNCHANGED <<ind, state, controller, told>>

(* add_state_event: a request creates the event it names.                  *)
Created(s) == IF s = "absent" THEN "unset" ELSE s
(* Deviation: every request for an event in the list is granted.           *)
OnRequestGranted(e) == IF state[e] = "absent" THEN "unset" ELSE "set"

(* A request made while the unset is pending is not granted by itself.     *)
OnRequest(e) == IF state[e] = "set" THEN "set" ELSE "unset"

StateRequest(src, e) ==
  /\ \/ /\ st[e][src] # "none"
        /\ Answer(src, "err")
        /\ UNCHANGED <<st, state>>
     \/ /\ st[e][src] = "none"
        /\ state' = [state EXCEPT ![e] = Created(@)]
        /\ st' = [st EXCEPT ![e][src] = OnRequest(e)]
        /\ Answer(src, "ok")
  /\ UNCHANGED <<ind, controller, told>>

(* Deviation: only an event whose unset is pending is deleted.             *)
DeletesPending(src, e) == Registered(st[e]) = {src} /\ state[e] = "pending"

(* The last release deletes the event unless it is set, and answers the    *)
(* process whose unset is pending.                                         *)
Deletes(src, e) == Registered(st[e]) = {src} /\ state[e] # "set"

StateRelease(src, e) ==
  /\ \/ /\ st[e][src] = "none"
        /\ Answer(src, "err")
        /\ UNCHANGED <<st, state>>
     \/ /\ st[e][src] # "none"
        /\ st' = [st EXCEPT ![e][src] = "none"]
        /\ state' = IF Deletes(src, e) THEN [state EXCEPT ![e] = "absent"] ELSE state
        /\ WakeAndAnswer({r \in {controller[e]} : Deletes(src, e) /\ state[e] = "pending"}, src)
  /\ UNCHANGED <<ind, controller>>

----------------------------------------------------------------------------
(* ec_msg_event_handler: one MSG_EVENT of client c is dispatched.  Unset   *)
(* of an indication is dropped without an answer.                          *)
EventHandler(c) ==
  LET r == req[c]
      e == req[c].name
  IN
  /\ loc[c] = "engine"
  /\ loc' = [loc EXCEPT ![c] = "served"]
  /\ UNCHANGED req
  /\ \/ r.type = "ind"   /\ r.cmd = "request" /\ IndRequest(c, e)
     \/ r.type = "ind"   /\ r.cmd = "wait"    /\ IndWait(c, e)
     \/ r.type = "ind"   /\ r.cmd = "release" /\ IndRelease(c, e)
     \/ r.type = "ind"   /\ r.cmd = "set"     /\ IndSet(c, e)
     \/ r.type = "ind"   /\ r.cmd = "unset"   /\ UNCHANGED <<engineVars, inbox>>
     \/ r.type = "state" /\ r.cmd = "request" /\ StateRequest(c, e)
     \/ r.type = "state" /\ r.cmd = "wait"    /\ StateWait(c, e)
     \/ r.type = "state" /\ r.cmd = "release" /\ StateRelease(c, e) /\ UNCHANGED told
     \/ r.type = "state" /\ r.cmd = "set"     /\ StateSet(c, e)
     \/ r.type = "state" /\ r.cmd = "unset"   /\ StateUnset(c, e)

(* handle_remote_event, request: it is also an implicit wait, and the      *)
(* response tells how that wait ended.                                     *)
RemoteIndRequest(e) ==
  /\ ind[e][Remote] = "none"
  /\ ind' = [ind EXCEPT ![e][Remote] = "waiting"]
  /\ UNCHANGED <<st, state, controller, told, clientVars>>

RemoteStateRequest(e) ==
  /\ \/ /\ st[e][Remote] # "none"
        /\ told' = [told EXCEPT ![e] = "error"]
        /\ UNCHANGED <<st, state>>
     \/ /\ st[e][Remote] = "none" /\ IsSet(e)
        /\ st' = [st EXCEPT ![e][Remote] = "set"]
        /\ told' = [told EXCEPT ![e] = "set"]
        /\ UNCHANGED state
     \/ /\ st[e][Remote] = "none" /\ ~IsSet(e)
        /\ st' = [st EXCEPT ![e][Remote] = "waiting"]
        /\ state' = [state EXCEPT ![e] = "unset"]
        /\ told' = [told EXCEPT ![e] = "active"]
  /\ UNCHANGED <<ind, controller, clientVars>>

(* handle_remote_event, release: a state event of that name is preferred.  *)
RemoteRelease(e) ==
  /\ \/ /\ state[e] # "absent" /\ StateRelease(Remote, e)
        /\ told' = [told EXCEPT ![e] = "nothing"]
     \/ /\ state[e] = "absent" /\ IndRelease(Remote, e)
  /\ UNCHANGED <<req, loc>>

(* handle_remote_event, set, and a slave's "set" response, which           *)
(* handle_remote_event_request_resp turns into the same call.              *)
RemoteSet(e) ==
  /\ IndSet(Remote, e) \/ StateSet(Remote, e)
  /\ UNCHANGED <<req, loc>>

----------------------------------------------------------------------------
(* Test processes and the TMC between them and the engine.                 *)

(* Event: validate_event lets every command and both types through.        *)
Call(c, r) ==
  /\ loc[c] = "idle"
  /\ req' = [req EXCEPT ![c] = r]
  /\ loc' = [loc EXCEPT ![c] = "tmc"]
  /\ UNCHANGED <<engineVars, inbox>>

(* gu_handle_event                                                         *)
Forward(c) ==
  /\ loc[c] = "tmc"
  /\ loc' = [loc EXCEPT ![c] = "engine"]
  /\ UNCHANGED <<engineVars, req, inbox>>

(* Deviation: of the request only the command is cleared.                  *)
ReturnHalfCleared(c) ==
  /\ loc[c] \in {"tmc", "engine", "served"}
  /\ inbox[c] # <<>>
  /\ inbox' = [inbox EXCEPT ![c] = Tail(@)]
  /\ loc' = [loc EXCEPT ![c] = "idle"]
  /\ req' = [req EXCEPT ![c].cmd = "none"]
  /\ UNCHANGED engineVars

(* wait_event returns with the status of the MSG_EVENT_IND it read.        *)
Return(c) ==
  /\ loc[c] \in {"tmc", "engine", "served"}
  /\ inbox[c] # <<>>
  /\ inbox' = [inbox EXCEPT ![c] = Tail(@)]
  /\ loc' = [loc EXCEPT ![c] = "idle"]
  /\ req' = [req EXCEPT ![c] = NoRequest]
  /\ UNCHANGED engineVars

RemoteCommand ==
  \E e \in Name :
    RemoteIndRequest(e) \/ RemoteStateRequest(e) \/ RemoteRelease(e) \/ RemoteSet(e)

Next ==
  \/ \E c \in Client : (\E r \in Calls : Call(c, r))
                       \/ Forward(c) \/ EventHandler(c) \/ Return(c)
  \/ RemoteCommand

Spec == Init /\ [][Next]_vars
----------------------------------------------------------------------------
(* What the event system promises.                                         *)

Stalled(c) == loc[c] = "served" /\ inbox[c] = <<>>
Asked(c, cmd, type, e) == req[c] = Ask(cmd, type, e)

(* Why a client may be kept waiting once the engine has seen its request.  *)
WaitsForInd(c, e) ==
  Asked(c, "wait", "ind", e) /\ ind[e][c] = "waiting"

WaitsForState(c, e) ==
  Asked(c, "wait", "state", e) /\ st[e][c] = "waiting" /\ state[e] = "unset"

WaitsForRelease(c, e) ==
  /\ Asked(c, "unset", "state", e)
  /\ state[e] = "pending" /\ controller[e] = c /\ Registered(st[e]) # {}

(* No wake-up is lost: a process blocked in Event() whose request was      *)
(* handled and whose queue is empty waits for an event that is not set, or *)
(* unsets a state event somebody still holds.  The one exception is the    *)
(* unset of an indication, which the engine never answers.                 *)
NoLostWakeup ==
  \A c \in Client : Stalled(c) =>
    \/ \E e \in Name : WaitsForInd(c, e) \/ WaitsForState(c, e) \/ WaitsForRelease(c, e)
    \/ req[c].cmd = "unset" /\ req[c].type = "ind"

(* One request, one answer: a process never finds the answer to an earlier *)
(* request, or a second answer, in its queue.                              *)
OneAnswer ==
  \A c \in Client : /\ Len(inbox[c]) <= 1
                     /\ loc[c] # "served" => inbox[c] = <<>>

(* A registrar that was told the state event is set holds it: the event    *)
(* stays set, or its unset stays pending, until that registrar releases.   *)
HeldStateIsSet ==
  \A e \in Name : \A r \in Registrar :
    st[e][r] = "set" => IsSet(e)

(* The list state_events holds no event that is neither set nor wanted: an *)
(* unset or pending event has a registration, an absent one has none, and  *)
(* the unset that is pending belongs to a process still blocked in it.     *)
EventIsNeeded ==
  \A e \in Name :
    /\ state[e] = "absent" => Registered(st[e]) = {}
    /\ state[e] \in {"unset", "pending"} => Registered(st[e]) # {}
    /\ state[e] = "pending" =>
         \E c \in Client : controller[e] = c /\ Stalled(c) /\ Asked(c, "unset", "state", e)

(* The master is never left behind: while its request for a state event    *)
(* stands and the event is set, the last response it got says so (or       *)
(* refuses a second request).                                              *)
MasterKnows ==
  \A e \in Name :
    st[e][Remote] # "none" /\ IsSet(e) =>
      told[e] \in {"set", "error"}

(* A granted state is never withdrawn: a step that touches the             *)
(* registration of a registrar holding a state event is its own release.   *)
GrantIsKept ==
  [][\A e \in Name : \A r \in Registrar :
       st[e][r] = "set" /\ st'[e][r] # "set" =>
         /\ st'[e][r] = "none"
         /\ r # Remote => loc[r] = "engine" /\ Asked(r, "release", "state", e)]_vars

(* The state events implement the gates of StateGate: the registrars told  *)
(* that the event is set are inside, and an unset that is pending keeps    *)
(* the gate open.                                                          *)
Open == [e \in Name |-> IsSet(e)]
Holders == [e \in Name |-> {r \in Registrar : st[e][r] = "set"}]

Gates == INSTANCE StateGate WITH
  User <- Registrar, Gate <- Name, open <- Open, inside <- Holders

ImplementsGates == Gates!Spec
============================================================================
