------------------------------ MODULE EventUse -----------------------------
(***************************************************************************)
(* EventSystem with test processes that run to the end: each executes a    *)
(* fixed list of Event() calls, as in the samples of the manual            *)
(* (doc/texinfo/chapters/MIN_Event_System_usage.texi), and none of them    *)
(* crashes.  This is where "eventually" can be asked.                      *)
(***************************************************************************)
EXTENDS EventSystem

CONSTANT Scripts     \* the set of lists of calls a process may execute

ASSUME ScriptsAssumption == Scripts \subseteq Seq(Calls)

VARIABLE todo        \* calls each process has still to make

UInit == Init /\ todo \in [Client -> Scripts]

NextCall(c) ==
  /\ todo[c] # <<>>
  /\ Call(c, Head(todo[c]))
  /\ todo' = [todo EXCEPT ![c] = Tail(@)]

Serve(c) == EventHandler(c) /\ UNCHANGED todo
Carry(c) == Forward(c) /\ UNCHANGED todo
Resume(c) == Return(c) /\ UNCHANGED todo

UNext == \E c \in Client : NextCall(c) \/ Serve(c) \/ Carry(c) \/ Resume(c)

uvars == <<vars, todo>>

(* Processes are scheduled, the TMC and the engine's listener loop for     *)
(* ever, and the queues they read are first in, first out: every one of    *)
(* these steps, once possible, stays possible until it is taken.           *)
Fairness ==
  \A c \in Client :
    /\ WF_uvars(NextCall(c))
    /\ WF_uvars(Serve(c))
    /\ WF_uvars(Carry(c))
    /\ WF_uvars(Resume(c))

USpec == UInit /\ [][UNext]_uvars /\ Fairness

(* An unset does not block for ever when everyone who holds the event      *)
(* goes on to release it.                                                  *)
UnsetReturns ==
  \A c \in Client : \A e \in Name :
    (loc[c] # "idle" /\ Asked(c, "unset", "state", e)) ~> (loc[c] = "idle")

(* A process waiting for a state event that gets set, or for one that is   *)
(* set already, goes on even if the event is unset again at once.          *)
SetReleasesWaiters ==
  \A c \in Client : \A e \in Name :
    (/\ loc[c] # "idle"
     /\ Asked(c, "wait", "state", e) /\ st[e][c] # "none" /\ state[e] = "set")
      ~> (loc[c] = "idle")
============================================================================
