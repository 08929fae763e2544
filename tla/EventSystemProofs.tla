------------------------- MODULE EventSystemProofs --------------------------
(***************************************************************************)
(* Proofs about EventSystem for any number of processes, event names and   *)
(* requests.                                                               *)
(***************************************************************************)
EXTENDS EventSystem, TLAPS

Status == {"ok", "err"}

(* What a client's queue may hold: nothing, or one answer.                 *)
Box == {<<>>, <<"ok">>, <<"err">>}

(* NoRequest is no request, so a client that is not idle has one.          *)
LEMMA NoRequestIsNone == NoRequest \notin Calls
BY CallsAssumption DEF NoRequest, Request, Command

LEMMA BlockedHasRequest ==
  ASSUME TypeOK, NEW c \in Client, loc[c] # "idle"
  PROVE  /\ req[c] \in Calls
         /\ req[c].cmd \in Command
         /\ req[c].type \in EventType
         /\ req[c].name \in Name
BY CallsAssumption DEF TypeOK, Request

(* Requests are told apart by their parts, and made of nothing else.       *)
LEMMA AskIsInjective ==
  ASSUME NEW c1, NEW t1, NEW e1, NEW c2, NEW t2, NEW e2, Ask(c1, t1, e1) = Ask(c2, t2, e2)
  PROVE  c1 = c2 /\ t1 = t2 /\ e1 = e2
<1>1. Ask(c1, t1, e1).cmd = Ask(c2, t2, e2).cmd
  OBVIOUS
<1>2. Ask(c1, t1, e1).type = Ask(c2, t2, e2).type
  OBVIOUS
<1>3. Ask(c1, t1, e1).name = Ask(c2, t2, e2).name
  OBVIOUS
<1>4. QED
  BY <1>1, <1>2, <1>3 DEF Ask

LEMMA RequestIsAsk ==
  ASSUME NEW r \in Request
  PROVE  r = Ask(r.cmd, r.type, r.name)
BY DEF Request, Ask

----------------------------------------------------------------------------
(* The inductive invariant.  A queue holds one answer at most, and only    *)
(* once the engine has seen the request.                                   *)
AtMostOne ==
  /\ inbox \in [Client -> Box]
  /\ \A c \in Client : loc[c] # "served" => inbox[c] = <<>>

Blocked == {c \in Client : Stalled(c)}

(* A client registered as waiting is blocked in just that wait.            *)
WaitersStalled ==
  \A c \in Client : \A e \in Name :
    /\ ind[e][c] = "waiting" => c \in Blocked /\ req[c] = Ask("wait", "ind", e)
    /\ st[e][c] = "waiting" =>
         /\ c \in Blocked
         /\ req[c] = Ask("wait", "state", e)
         /\ state[e] = "unset"

(* A pending unset has its process blocked in it.                          *)
UnsetterStalled ==
  \A e \in Name :
    state[e] = "pending" =>
      controller[e] \in Blocked /\ req[controller[e]] = Ask("unset", "state", e)

(* An event that is absent has no registration, one that is wanted has.    *)
ListedIfWanted ==
  \A e \in Name :
    /\ state[e] = "absent" => \A r \in Registrar : st[e][r] = "none"
    /\ state[e] \in {"unset", "pending"} => \E r \in Registrar : st[e][r] # "none"

(* Whoever is blocked has a reason.                                        *)
BlockedForReason ==
  \A c \in Blocked :
    \/ \E e \in Name :
         \/ req[c] = Ask("wait", "ind", e) /\ ind[e][c] = "waiting"
         \/ req[c] = Ask("wait", "state", e) /\ st[e][c] = "waiting"
         \/ req[c] = Ask("unset", "state", e) /\ state[e] = "pending" /\ controller[e] = c
    \/ req[c].cmd = "unset" /\ req[c].type = "ind"

EngineType ==
  /\ ind \in [Name -> [Registrar -> RegState]]
  /\ st \in [Name -> [Registrar -> RegState]]
  /\ state \in [Name -> StateOfEvent]
  /\ controller \in [Name -> Registrar]
  /\ told \in [Name -> {"nothing", "active", "set", "error"}]

ClientType ==
  /\ req \in [Client -> Calls \cup {NoRequest}]
  /\ loc \in [Client -> {"idle", "tmc", "engine", "served"}]
  /\ \A c \in Client : loc[c] = "idle" <=> req[c] = NoRequest
  /\ AtMostOne

EngineInv ==
  /\ EngineType
  /\ WaitersStalled
  /\ UnsetterStalled
  /\ ListedIfWanted
  /\ HeldStateIsSet
  /\ BlockedForReason

IInv == ClientType /\ EngineInv

LEMMA BoxIsSeq == Box \subseteq Seq(Status)
BY DEF Box, Status

LEMMA InitIInv == Init => IInv
<1> SUFFICES ASSUME Init PROVE IInv
  OBVIOUS
<1>1. ClientType /\ EngineType
  BY DEF Init, ClientType, AtMostOne, Box, EngineType, NoRegs, RegState, StateOfEvent, Registrar
<1>2. Blocked = {}
  BY DEF Init, Blocked, Stalled
<1>3. WaitersStalled /\ UnsetterStalled /\ ListedIfWanted /\ HeldStateIsSet /\ BlockedForReason
  BY <1>2 DEF Init, NoRegs, WaitersStalled, UnsetterStalled, ListedIfWanted,
     HeldStateIsSet, BlockedForReason, Registrar
<1>4. QED
  BY <1>1, <1>3 DEF IInv, EngineInv

(* What the invariant gives.                                               *)
LEMMA InvariantImplies ==
  ASSUME IInv
  PROVE  TypeOK /\ OneAnswer /\ NoLostWakeup /\ EventIsNeeded /\ HeldStateIsSet
<1>1. inbox \in [Client -> Seq(Status)]
  BY BoxIsSeq DEF IInv, ClientType, AtMostOne
<1>2. TypeOK
  BY <1>1 DEF IInv, ClientType, EngineInv, EngineType, TypeOK, Status
<1>3. OneAnswer
  <2>1. \A b \in Box : Len(b) <= 1
    BY DEF Box
  <2>2. QED
    BY <2>1 DEF IInv, ClientType, AtMostOne, OneAnswer
<1>4. EventIsNeeded
  <2>1. \A e \in Name : state[e] = "pending" => controller[e] \in Client
    BY DEF IInv, EngineInv, UnsetterStalled, Blocked
  <2>2. QED
    BY <2>1 DEF IInv, EngineInv, UnsetterStalled, ListedIfWanted, Blocked, EventIsNeeded, Registered, Asked
<1>5. NoLostWakeup
  <2> SUFFICES ASSUME NEW c \in Client, Stalled(c)
               PROVE  \/ \E e \in Name : WaitsForInd(c, e) \/ WaitsForState(c, e) \/ WaitsForRelease(c, e)
                      \/ req[c].cmd = "unset" /\ req[c].type = "ind"
    BY DEF NoLostWakeup
  <2>1. c \in Blocked
    BY DEF Blocked
  <2>2. \A e \in Name : st[e][c] = "waiting" => state[e] = "unset"
    BY DEF IInv, EngineInv, WaitersStalled
  <2>3. \A e \in Name : state[e] = "pending" => Registered(st[e]) # {}
    BY DEF IInv, EngineInv, ListedIfWanted, Registered
  <2>4. QED
    BY <2>1, <2>2, <2>3
    DEF IInv, EngineInv, BlockedForReason, WaitsForInd, WaitsForState, WaitsForRelease, Asked
<1>6. QED
  BY <1>2, <1>3, <1>4, <1>5 DEF IInv, EngineInv

----------------------------------------------------------------------------
(* Who is served: the remote registrar, or a client whose request is at    *)
(* the engine.                                                             *)
Serving(src) ==
  /\ req' = req
  /\ \/ src = Remote /\ loc' = loc
     \/ /\ src \in Client
        /\ loc[src] = "engine"
        /\ loc' = [loc EXCEPT ![src] = "served"]

(* The clients in Q get an answer.                                         *)
Answers(Q) ==
  /\ inbox' \in [Client -> Box]
  /\ \A c \in Client :
       IF c \in Q THEN inbox'[c] # <<>> ELSE inbox'[c] = inbox[c]

(* Messages posted to empty queues.                                        *)
LEMMA PostEffect ==
  ASSUME NEW box \in [Client -> Box], NEW S, NEW status \in Status,
         \A c \in Client \cap S : box[c] = <<>>
  PROVE  Post(box, S, status) = [c \in Client |-> IF c \in S THEN <<status>> ELSE box[c]]
<1>1. Append(<<>>, status) = <<status>>
  OBVIOUS
<1>2. \A c \in Client \cap S : Append(box[c], status) = <<status>>
  BY <1>1
<1>3. QED
  BY <1>2 DEF Post

LEMMA AnswerEffect ==
  ASSUME ClientType, NEW src \in Registrar, Serving(src),
         NEW status \in Status, Answer(src, status)
  PROVE  Answers({src})
<1>1. src \in Client => inbox[src] = <<>>
  BY RemoteAssumption DEF ClientType, AtMostOne, Serving
<1>2. inbox' = [c \in Client |-> IF c \in {src} THEN <<status>> ELSE inbox[c]]
  BY <1>1, PostEffect DEF Answer, ClientType, AtMostOne
<1>3. <<status>> \in Box /\ <<status>> # <<>>
  BY DEF Box, Status
<1>4. QED
  BY <1>2, <1>3 DEF Answers, ClientType, AtMostOne

LEMMA WakeEffect ==
  ASSUME ClientType, NEW src \in Registrar, Serving(src),
         NEW W \in SUBSET Registrar, \A c \in Client \cap W : Stalled(c),
         WakeAndAnswer(W, src)
  PROVE  Answers({src} \cup W)
<1> DEFINE woken == [c \in Client |-> IF c \in W THEN <<"ok">> ELSE inbox[c]]
<1>1. \A c \in Client \cap ({src} \cup W) : inbox[c] = <<>>
  BY RemoteAssumption DEF ClientType, AtMostOne, Serving, Stalled
<1>2. <<"ok">> \in Box /\ <<"ok">> # <<>> /\ "ok" \in Status
  BY DEF Box, Status
<1>0. src \in Client => src \notin W
  BY RemoteAssumption DEF Serving, Stalled
<1>3. Post(inbox, W, "ok") = woken
  BY <1>1, <1>2, PostEffect DEF ClientType, AtMostOne
<1>4. woken \in [Client -> Box]
  BY <1>2 DEF ClientType, AtMostOne
<1>5. \A c \in Client \cap {src} : woken[c] = <<>>
  BY <1>0, <1>1
<1>6. inbox' = [c \in Client |-> IF c \in {src} THEN <<"ok">> ELSE woken[c]]
  <2> HIDE DEF woken
  <2>1. Post(woken, {src}, "ok") = [c \in Client |-> IF c \in {src} THEN <<"ok">> ELSE woken[c]]
    BY <1>2, <1>4, <1>5, PostEffect
  <2>2. QED
    BY <1>3, <2>1 DEF WakeAndAnswer
<1>7. QED
  BY <1>2, <1>6 DEF Answers, ClientType, AtMostOne

(* Who is about to be served is not blocked, in the sense of Stalled.      *)
LEMMA ServedNotBlocked ==
  ASSUME NEW src \in Registrar, Serving(src)
  PROVE  src \notin Blocked
BY RemoteAssumption DEF Serving, Blocked, Stalled

(* What serving src and answering Q does to the clients.                   *)
LEMMA ServeEffect ==
  ASSUME ClientType, NEW src \in Registrar, Serving(src), NEW Q, Answers(Q),
         \A c \in Client \cap Q : c = src \/ Stalled(c)
  PROVE  /\ ClientType'
         /\ Blocked' = (Blocked \cup ({src} \cap Client)) \ Q
<1>1. \A c \in Client : loc'[c] = IF c = src THEN "served" ELSE loc[c]
  BY RemoteAssumption DEF Serving, ClientType
<1>2. src \in Client => loc[src] = "engine" /\ inbox[src] = <<>>
  BY RemoteAssumption DEF Serving, ClientType, AtMostOne
<1>3. AtMostOne'
  BY <1>1, <1>2 DEF ClientType, AtMostOne, Answers, Stalled
<1>4. \A c \in Client : Stalled(c)' <=> (c = src \/ Stalled(c)) /\ c \notin Q
  BY <1>1, <1>2 DEF Stalled, Answers
<1>5. Blocked' = (Blocked \cup ({src} \cap Client)) \ Q
  BY <1>4 DEF Blocked
<1>6. QED
  BY <1>1, <1>2, <1>3, <1>5 DEF ClientType, Serving

----------------------------------------------------------------------------
(* Each handler, serving a registrar src, preserves the invariant.  Of its *)
(* definition only the effect on each registration is used.                *)
LEMMA IndRequestStep ==
  ASSUME IInv, NEW src \in Registrar, NEW e \in Name, Serving(src), IndRequest(src, e)
  PROVE  IInv'
<1>1. /\ ind' \in [Name -> [Registrar -> RegState]]
      /\ \A f \in Name : \A r \in Registrar :
           \/ ind'[f][r] = ind[f][r]
           \/ ind[f][r] = "none" /\ ind'[f][r] = "unset"
  <2>1. \/ ind' = ind
        \/ ind[e][src] = "none" /\ ind' = [ind EXCEPT ![e][src] = "unset"]
    BY DEF IndRequest
  <2>2. ind \in [Name -> [Registrar -> RegState]]
    BY DEF IInv, EngineInv, EngineType
  <2>3. ind' \in [Name -> [Registrar -> RegState]]
    BY <2>1, <2>2 DEF RegState
  <2>4. QED
    BY <2>1, <2>2, <2>3
<1>2. UNCHANGED <<st, state, controller, told, req>>
  BY DEF IndRequest, Serving
<1>3. Answers({src})
  BY AnswerEffect DEF IInv, IndRequest, Status
<1>4. ClientType' /\ Blocked' = Blocked
  BY <1>3, ServeEffect, ServedNotBlocked DEF IInv
<1>5. EngineType' /\ WaitersStalled'
  <2>1. EngineType'
    BY <1>1, <1>2 DEF IInv, EngineInv, EngineType
  <2>2. WaitersStalled'
    BY <1>1, <1>2, <1>4 DEF IInv, EngineInv, WaitersStalled, Registrar
  <2>3. QED
    BY <2>1, <2>2
<1>6. UnsetterStalled' /\ ListedIfWanted' /\ HeldStateIsSet'
  BY <1>2, <1>4 DEF IInv, EngineInv, UnsetterStalled, ListedIfWanted, HeldStateIsSet, IsSet
<1>7. BlockedForReason'
  BY <1>1, <1>2, <1>4 DEF IInv, EngineInv, BlockedForReason, Blocked, Registrar
<1>8. QED
  BY <1>4, <1>5, <1>6, <1>7 DEF IInv, EngineInv

LEMMA IndReleaseStep ==
  ASSUME IInv, NEW src \in Registrar, NEW e \in Name, Serving(src), IndRelease(src, e)
  PROVE  IInv'
<1>1. /\ ind' \in [Name -> [Registrar -> RegState]]
      /\ \A f \in Name : \A r \in Registrar :
           \/ ind'[f][r] = ind[f][r]
           \/ r = src /\ ind'[f][r] = "none"
  <2>1. ind' = ind \/ ind' = [ind EXCEPT ![e][src] = "none"]
    BY DEF IndRelease
  <2>2. ind \in [Name -> [Registrar -> RegState]]
    BY DEF IInv, EngineInv, EngineType
  <2>3. ind' \in [Name -> [Registrar -> RegState]]
    BY <2>1, <2>2 DEF RegState
  <2>4. QED
    BY <2>1, <2>2, <2>3
<1>2. UNCHANGED <<st, state, controller, told, req>>
  BY DEF IndRelease, Serving
<1>3. Answers({src})
  BY AnswerEffect DEF IInv, IndRelease, Status
<1>4. ClientType' /\ Blocked' = Blocked /\ src \notin Blocked
  BY <1>3, ServeEffect, ServedNotBlocked DEF IInv
<1>5. EngineType' /\ WaitersStalled'
  <2>1. EngineType'
    BY <1>1, <1>2 DEF IInv, EngineInv, EngineType
  <2>2. WaitersStalled'
    BY <1>1, <1>2, <1>4 DEF IInv, EngineInv, WaitersStalled, Registrar
  <2>3. QED
    BY <2>1, <2>2
<1>6. UnsetterStalled' /\ ListedIfWanted' /\ HeldStateIsSet'
  BY <1>2, <1>4 DEF IInv, EngineInv, UnsetterStalled, ListedIfWanted, HeldStateIsSet, IsSet
<1>7. BlockedForReason'
  BY <1>1, <1>2, <1>4 DEF IInv, EngineInv, BlockedForReason, Blocked, Registrar
<1>8. QED
  BY <1>4, <1>5, <1>6, <1>7 DEF IInv, EngineInv

LEMMA IndSetStep ==
  ASSUME IInv, NEW src \in Registrar, NEW e \in Name, Serving(src), IndSet(src, e)
  PROVE  IInv'
<1> DEFINE W == Waiting(ind[e])
<1>1. /\ ind' \in [Name -> [Registrar -> RegState]]
      /\ \A f \in Name : \A r \in Registrar :
           /\ f # e => ind'[f][r] = ind[f][r]
           /\ ind'[e][r] = "waiting" => ind[e][r] = "waiting" /\ r = Remote
  <2>1. ind' = [ind EXCEPT ![e] = [r \in Registrar |-> SetIndReg(r, ind[e][r])]]
    BY DEF IndSet
  <2>2. \A r \in Registrar : /\ SetIndReg(r, ind[e][r]) \in RegState
                             /\ SetIndReg(r, ind[e][r]) = "waiting" =>
                                  ind[e][r] = "waiting" /\ r = Remote
    BY DEF SetIndReg, RegState, IInv, EngineInv, EngineType
  <2>3. QED
    BY <2>1, <2>2 DEF IInv, EngineInv, EngineType
<1>2. UNCHANGED <<st, state, controller, told, req>>
  BY DEF IndSet, Serving
<1>3. /\ W \in SUBSET Registrar
      /\ \A c \in Client \cap W : c \in Blocked /\ req[c] = Ask("wait", "ind", e)
  BY DEF IInv, EngineInv, WaitersStalled, Waiting
<1>4. Answers({src} \cup W)
  BY <1>3, WakeEffect DEF IInv, IndSet, Blocked
<1>5. ClientType' /\ Blocked' = Blocked \ W /\ src \notin Blocked
  BY <1>3, <1>4, ServeEffect, ServedNotBlocked DEF IInv, Blocked
<1>6. \A c \in Client \cap W : \A f \in Name :
        /\ req[c] # Ask("wait", "state", f) /\ req[c] # Ask("unset", "state", f)
        /\ f # e => req[c] # Ask("wait", "ind", f)
  BY <1>3, AskIsInjective
<1>7. EngineType' /\ WaitersStalled'
  <2>1. EngineType'
    BY <1>1, <1>2 DEF IInv, EngineInv, EngineType
  <2>2. WaitersStalled'
    BY <1>1, <1>2, <1>5, <1>6, RemoteAssumption DEF IInv, EngineInv, WaitersStalled, Registrar
  <2>3. QED
    BY <2>1, <2>2
<1>8. UnsetterStalled' /\ ListedIfWanted' /\ HeldStateIsSet'
  BY <1>2, <1>5, <1>6
  DEF IInv, EngineInv, UnsetterStalled, ListedIfWanted, HeldStateIsSet, IsSet, Blocked
<1>9. BlockedForReason'
  <2> SUFFICES ASSUME NEW c \in Blocked, c \notin W
               PROVE  \/ \E f \in Name :
                           \/ req[c] = Ask("wait", "ind", f) /\ ind'[f][c] = "waiting"
                           \/ req[c] = Ask("wait", "state", f) /\ st[f][c] = "waiting"
                           \/ req[c] = Ask("unset", "state", f) /\ state[f] = "pending" /\ controller[f] = c
                      \/ req[c].cmd = "unset" /\ req[c].type = "ind"
    BY <1>2, <1>5 DEF BlockedForReason
  <2>1. c \in Registrar
    BY DEF Blocked, Registrar
  <2>2. ind[e][c] # "waiting"
    BY <2>1 DEF Waiting
  <2>3. QED
    BY <1>1, <2>1, <2>2 DEF IInv, EngineInv, BlockedForReason
<1>10. QED
  BY <1>5, <1>7, <1>8, <1>9 DEF IInv, EngineInv

(* A wait that is not answered leaves its client registered as waiting.    *)
LEMMA IndWaitStep ==
  ASSUME IInv, NEW src \in Client, NEW e \in Name, Serving(src), IndWait(src, e),
         req[src] = Ask("wait", "ind", e)
  PROVE  IInv'
<1> src \in Registrar
  BY DEF Registrar
<1>1. ind \in [Name -> [Registrar -> RegState]]
  BY DEF IInv, EngineInv, EngineType
<1>2. UNCHANGED <<st, state, controller, told, req>>
  BY DEF IndWait, Serving
<1>3. src \notin Blocked
  BY ServedNotBlocked
<1>4. UnsetterStalled' /\ ListedIfWanted' /\ HeldStateIsSet'
  <2>1. \A c \in Client : c # src => (c \in Blocked' <=> c \in Blocked)
    BY RemoteAssumption, <1>1 DEF Serving, Blocked, Stalled, IndWait, Answer, Post,
       IInv, ClientType, AtMostOne
  <2>2. QED
    BY <1>2, <1>3, <2>1
    DEF IInv, EngineInv, UnsetterStalled, ListedIfWanted, HeldStateIsSet, IsSet, Blocked
<1>5. CASE ind[e][src] = "unset"
  <2>1. /\ ind' = [ind EXCEPT ![e][src] = "waiting"]
        /\ inbox' = inbox
    BY <1>5 DEF IndWait
  <2>2. Answers({})
    BY <2>1 DEF Answers, IInv, ClientType, AtMostOne
  <2>3. ClientType' /\ Blocked' = Blocked \cup {src}
    BY <2>2, ServeEffect DEF IInv
  <2>4. /\ ind' \in [Name -> [Registrar -> RegState]]
        /\ \A f \in Name : \A r \in Registrar :
             ind'[f][r] = IF f = e /\ r = src THEN "waiting" ELSE ind[f][r]
    BY <1>1, <2>1 DEF RegState
  <2>5. EngineType'
    BY <1>2, <2>4 DEF IInv, EngineInv, EngineType
  <2>6. WaitersStalled'
    BY <1>2, <2>3, <2>4 DEF IInv, EngineInv, WaitersStalled, Registrar
  <2>7. BlockedForReason'
    BY <1>2, <2>3, <2>4 DEF IInv, EngineInv, BlockedForReason, Blocked, Registrar
  <2>8. QED
    BY <1>4, <2>3, <2>5, <2>6, <2>7 DEF IInv, EngineInv
<1>6. CASE ind[e][src] # "unset"
  <2>1. \/ ind' = ind
        \/ ind' = [ind EXCEPT ![e][src] = "unset"]
    BY <1>6 DEF IndWait
  <2>2. Answers({src})
    BY <1>6, AnswerEffect DEF IInv, IndWait, Status
  <2>3. ClientType' /\ Blocked' = Blocked
    BY <1>3, <2>2, ServeEffect DEF IInv
  <2>4. ind' \in [Name -> [Registrar -> RegState]]
    BY <1>1, <2>1 DEF RegState
  <2>5. \A f \in Name : \A r \in Registrar :
          \/ ind'[f][r] = ind[f][r]
          \/ r = src /\ ind'[f][r] = "unset"
    BY <1>1, <2>1
  <2>6. EngineType'
    BY <1>2, <2>4 DEF IInv, EngineInv, EngineType
  <2>7. WaitersStalled'
    BY <1>2, <2>3, <2>5 DEF IInv, EngineInv, WaitersStalled, Registrar
  <2>8. BlockedForReason'
    BY <1>2, <1>3, <2>3, <2>5 DEF IInv, EngineInv, BlockedForReason, Blocked, Registrar
  <2>9. QED
    BY <1>4, <2>3, <2>6, <2>7, <2>8 DEF IInv, EngineInv
<1>7. QED
  BY <1>5, <1>6

(* Everyone a set wakes up was blocked in his wait for this event.         *)
LEMMA StateSetStep ==
  ASSUME IInv, NEW src \in Registrar, NEW e \in Name, Serving(src), StateSet(src, e)
  PROVE  IInv'
<1> DEFINE W == Waiting(st[e])
<1>1. /\ st \in [Name -> [Registrar -> RegState]]
      /\ state \in [Name -> StateOfEvent]
      /\ told \in [Name -> {"nothing", "active", "set", "error"}]
  BY DEF IInv, EngineInv, EngineType
<1>2. UNCHANGED <<ind, controller, req>> /\ src \notin Blocked
  BY ServedNotBlocked DEF StateSet, Serving
<1>3. CASE IsSet(e)
  <2>1. UNCHANGED <<st, state, told>>
    BY <1>3 DEF StateSet
  <2>2. Answers({src})
    BY <1>3, AnswerEffect DEF IInv, StateSet, Status
  <2>3. ClientType' /\ Blocked' = Blocked
    BY <1>2, <2>2, ServeEffect DEF IInv
  <2>4. QED
    BY <1>2, <2>1, <2>3 DEF IInv, EngineInv, EngineType, WaitersStalled, UnsetterStalled,
       ListedIfWanted, HeldStateIsSet, IsSet, BlockedForReason
<1>4. CASE ~IsSet(e)
  <2>1. /\ state' = [state EXCEPT ![e] = "set"]
        /\ st' = [st EXCEPT ![e] = [r \in Registrar |-> SetStateReg(r, st[e][r])]]
        /\ WakeAndAnswer(W, src)
        /\ TellRemote(W, e)
    BY <1>4 DEF StateSet
  <2>2. \A r \in Registrar : /\ SetStateReg(r, st[e][r]) \in RegState
                             /\ SetStateReg(r, st[e][r]) = "waiting" =>
                                  st[e][r] = "waiting" /\ r = Remote
                             /\ SetStateReg(r, st[e][r]) = "none" <=> st[e][r] = "none"
    BY <1>1 DEF SetStateReg, RegState
  <2>3. /\ st' \in [Name -> [Registrar -> RegState]]
        /\ \A f \in Name : \A r \in Registrar :
             /\ f # e => st'[f][r] = st[f][r]
             /\ st'[e][r] = "waiting" => st[e][r] = "waiting" /\ r = Remote
             /\ st'[e][r] = "none" <=> st[e][r] = "none"
    BY <1>1, <2>1, <2>2
  <2>4. /\ state' \in [Name -> StateOfEvent]
        /\ state'[e] = "set"
        /\ \A f \in Name : f # e => state'[f] = state[f]
    BY <1>1, <2>1 DEF StateOfEvent
  <2>5. EngineType'
    <3>1. told' \in [Name -> {"nothing", "active", "set", "error"}]
      BY <1>1, <2>1 DEF TellRemote
    <3>2. QED
      BY <1>2, <2>3, <2>4, <3>1 DEF IInv, EngineInv, EngineType
  <2>6. /\ W \in SUBSET Registrar
        /\ \A c \in Client \cap W : c \in Blocked /\ req[c] = Ask("wait", "state", e)
    BY DEF IInv, EngineInv, WaitersStalled, Waiting
  <2>7. Answers({src} \cup W)
    BY <2>1, <2>6, WakeEffect DEF IInv, Blocked
  <2>8. ClientType' /\ Blocked' = Blocked \ W
    BY <1>2, <2>6, <2>7, ServeEffect DEF IInv, Blocked
  <2>9. \A c \in Client \cap W : \A f \in Name :
          /\ req[c] # Ask("wait", "ind", f) /\ req[c] # Ask("unset", "state", f)
          /\ f # e => req[c] # Ask("wait", "state", f)
    BY <2>6, AskIsInjective
  <2>10. WaitersStalled'
    BY <1>2, <2>3, <2>4, <2>8, <2>9, RemoteAssumption DEF IInv, EngineInv, WaitersStalled, Registrar
  <2>11. UnsetterStalled' /\ ListedIfWanted' /\ HeldStateIsSet'
    <3>1. UnsetterStalled'
      BY <1>2, <2>4, <2>8, <2>9 DEF IInv, EngineInv, UnsetterStalled, Blocked
    <3>2. ListedIfWanted'
      BY <2>3, <2>4 DEF IInv, EngineInv, ListedIfWanted
    <3>3. HeldStateIsSet'
      BY <2>3, <2>4 DEF IInv, EngineInv, HeldStateIsSet, IsSet
    <3>4. QED
      BY <3>1, <3>2, <3>3
  <2>12. BlockedForReason'
    <3> SUFFICES ASSUME NEW c \in Blocked, c \notin W
                 PROVE  \/ \E f \in Name :
                             \/ req[c] = Ask("wait", "ind", f) /\ ind[f][c] = "waiting"
                             \/ req[c] = Ask("wait", "state", f) /\ st'[f][c] = "waiting"
                             \/ /\ req[c] = Ask("unset", "state", f)
                                /\ state'[f] = "pending" /\ controller[f] = c
                        \/ req[c].cmd = "unset" /\ req[c].type = "ind"
      BY <1>2, <2>8 DEF BlockedForReason
    <3>1. c \in Registrar
      BY DEF Blocked, Registrar
    <3>2. st[e][c] # "waiting" /\ state[e] # "pending"
      BY <1>4, <3>1 DEF Waiting, IsSet
    <3>3. QED
      BY <2>3, <2>4, <3>1, <3>2 DEF IInv, EngineInv, BlockedForReason
  <2>13. QED
    BY <2>5, <2>8, <2>10, <2>11, <2>12 DEF IInv, EngineInv
<1>5. QED
  BY <1>3, <1>4

LEMMA StateUnsetStep ==
  ASSUME IInv, NEW src \in Client, NEW e \in Name, Serving(src), StateUnset(src, e),
         req[src] = Ask("unset", "state", e)
  PROVE  IInv'
<1> src \in Registrar
  BY DEF Registrar
<1>1. /\ st \in [Name -> [Registrar -> RegState]]
      /\ state \in [Name -> StateOfEvent]
      /\ controller \in [Name -> Registrar]
  BY DEF IInv, EngineInv, EngineType
<1>2. UNCHANGED <<ind, st, told, req>> /\ src \notin Blocked
  BY ServedNotBlocked DEF StateUnset, Serving
<1>3. CASE state[e] # "set"
  <2>1. UNCHANGED <<state, controller>>
    BY <1>3 DEF StateUnset
  <2>2. Answers({src})
    BY <1>3, AnswerEffect DEF IInv, StateUnset, Status
  <2>3. ClientType' /\ Blocked' = Blocked
    BY <1>2, <2>2, ServeEffect DEF IInv
  <2>4. QED
    BY <1>2, <2>1, <2>3 DEF IInv, EngineInv, EngineType, WaitersStalled, UnsetterStalled,
       ListedIfWanted, HeldStateIsSet, IsSet, BlockedForReason
<1>4. CASE state[e] = "set" /\ Registered(st[e]) # {}
  <2>1. /\ state' = [state EXCEPT ![e] = "pending"]
        /\ controller' = [controller EXCEPT ![e] = src]
        /\ inbox' = inbox
    BY <1>4 DEF StateUnset
  <2>2. Answers({})
    BY <2>1 DEF Answers, IInv, ClientType, AtMostOne
  <2>3. ClientType' /\ Blocked' = Blocked \cup {src}
    BY <2>2, ServeEffect DEF IInv
  <2>4. EngineType'
    BY <1>1, <1>2, <2>1 DEF IInv, EngineInv, EngineType, StateOfEvent
  <2>5. \A f \in Name : /\ state'[f] = IF f = e THEN "pending" ELSE state[f]
                        /\ controller'[f] = IF f = e THEN src ELSE controller[f]
    BY <1>1, <2>1
  <2>6. WaitersStalled' /\ UnsetterStalled'
    <3>1. WaitersStalled'
      BY <1>2, <1>4, <2>3, <2>5 DEF IInv, EngineInv, WaitersStalled
    <3>2. UnsetterStalled'
      BY <1>2, <2>3, <2>5 DEF IInv, EngineInv, UnsetterStalled
    <3>3. QED
      BY <3>1, <3>2
  <2>7. ListedIfWanted' /\ HeldStateIsSet'
    <3>1. \E r \in Registrar : st[e][r] # "none"
      BY <1>4 DEF Registered
    <3>2. QED
      BY <1>2, <2>5, <3>1 DEF IInv, EngineInv, ListedIfWanted, HeldStateIsSet, IsSet
  <2>8. BlockedForReason'
    BY <1>2, <1>4, <2>3, <2>5 DEF IInv, EngineInv, BlockedForReason
  <2>9. QED
    BY <2>3, <2>4, <2>6, <2>7, <2>8 DEF IInv, EngineInv
<1>5. CASE state[e] = "set" /\ Registered(st[e]) = {}
  <2>1. /\ state' = [state EXCEPT ![e] = "absent"]
        /\ controller' = controller
        /\ Answer(src, "ok")
    BY <1>5 DEF StateUnset
  <2>2. Answers({src})
    BY <2>1, AnswerEffect DEF IInv, Status
  <2>3. ClientType' /\ Blocked' = Blocked
    BY <1>2, <2>2, ServeEffect DEF IInv
  <2>4. EngineType'
    BY <1>1, <1>2, <2>1 DEF IInv, EngineInv, EngineType, StateOfEvent
  <2>5. \A f \in Name : state'[f] = IF f = e THEN "absent" ELSE state[f]
    BY <1>1, <2>1
  <2>6. \A r \in Registrar : st[e][r] = "none"
    BY <1>5 DEF Registered
  <2>7. WaitersStalled' /\ UnsetterStalled'
    <3>1. WaitersStalled'
      BY <1>2, <2>3, <2>5, <2>6 DEF IInv, EngineInv, WaitersStalled, Registrar
    <3>2. UnsetterStalled'
      BY <1>2, <2>1, <2>3, <2>5 DEF IInv, EngineInv, UnsetterStalled
    <3>3. QED
      BY <3>1, <3>2
  <2>8. ListedIfWanted' /\ HeldStateIsSet'
    BY <1>2, <2>5, <2>6 DEF IInv, EngineInv, ListedIfWanted, HeldStateIsSet, IsSet
  <2>9. BlockedForReason'
    BY <1>2, <1>5, <2>1, <2>3, <2>5 DEF IInv, EngineInv, BlockedForReason
  <2>10. QED
    BY <2>3, <2>4, <2>7, <2>8, <2>9 DEF IInv, EngineInv
<1>6. QED
  BY <1>3, <1>4, <1>5

LEMMA StateWaitStep ==
  ASSUME IInv, NEW src \in Client, NEW e \in Name, Serving(src), StateWait(src, e),
         req[src] = Ask("wait", "state", e)
  PROVE  IInv'
<1> src \in Registrar
  BY DEF Registrar
<1>1. /\ st \in [Name -> [Registrar -> RegState]]
      /\ state \in [Name -> StateOfEvent]
  BY DEF IInv, EngineInv, EngineType
<1>2. UNCHANGED <<ind, state, controller, told, req>> /\ src \notin Blocked
  BY ServedNotBlocked DEF StateWait, Serving
<1>3. CASE st[e][src] \in {"unset", "set"} /\ ~IsSet(e)
  <2>1. /\ st' = [st EXCEPT ![e][src] = "waiting"]
        /\ inbox' = inbox
    BY <1>3 DEF StateWait
  <2>2. Answers({})
    BY <2>1 DEF Answers, IInv, ClientType, AtMostOne
  <2>3. ClientType' /\ Blocked' = Blocked \cup {src}
    BY <2>2, ServeEffect DEF IInv
  <2>4. st' \in [Name -> [Registrar -> RegState]]
    BY <1>1, <2>1 DEF RegState
  <2>5. \A f \in Name : \A r \in Registrar :
          st'[f][r] = IF f = e /\ r = src THEN "waiting" ELSE st[f][r]
    BY <1>1, <2>1
  <2>6. EngineType'
    BY <1>2, <2>4 DEF IInv, EngineInv, EngineType
  <2>7. state[e] = "unset"
    BY <1>1, <1>3 DEF IsSet, StateOfEvent, IInv, EngineInv, ListedIfWanted
  <2>8. WaitersStalled' /\ UnsetterStalled'
    <3>1. WaitersStalled'
      BY <1>2, <2>3, <2>5, <2>7 DEF IInv, EngineInv, WaitersStalled, Registrar
    <3>2. UnsetterStalled'
      BY <1>2, <2>3 DEF IInv, EngineInv, UnsetterStalled
    <3>3. QED
      BY <3>1, <3>2
  <2>9. ListedIfWanted' /\ HeldStateIsSet'
    BY <1>2, <2>5, <2>7 DEF IInv, EngineInv, ListedIfWanted, HeldStateIsSet, IsSet
  <2>10. BlockedForReason'
    BY <1>2, <2>3, <2>5 DEF IInv, EngineInv, BlockedForReason, Blocked, Registrar
  <2>11. QED
    BY <2>3, <2>6, <2>8, <2>9, <2>10 DEF IInv, EngineInv
<1>4. CASE ~(st[e][src] \in {"unset", "set"} /\ ~IsSet(e))
  <2>1. \/ st' = st
        \/ /\ st' = [st EXCEPT ![e][src] = "set"]
           /\ IsSet(e) /\ st[e][src] # "none"
    BY <1>4 DEF StateWait, Grant
  <2>2. Answers({src})
    BY <1>4, AnswerEffect DEF IInv, StateWait, Grant, Status
  <2>3. ClientType' /\ Blocked' = Blocked
    BY <1>2, <2>2, ServeEffect DEF IInv
  <2>4. st' \in [Name -> [Registrar -> RegState]]
    BY <1>1, <2>1 DEF RegState
  <2>5. \A f \in Name : \A r \in Registrar :
          \/ st'[f][r] = st[f][r]
          \/ r = src /\ st'[f][r] = "set" /\ IsSet(f) /\ st[f][r] # "none"
    BY <1>1, <2>1
  <2>6. EngineType'
    BY <1>2, <2>4 DEF IInv, EngineInv, EngineType
  <2>7. WaitersStalled' /\ UnsetterStalled'
    <3>1. WaitersStalled'
      BY <1>2, <2>3, <2>5 DEF IInv, EngineInv, WaitersStalled, Registrar
    <3>2. UnsetterStalled'
      BY <1>2, <2>3 DEF IInv, EngineInv, UnsetterStalled
    <3>3. QED
      BY <3>1, <3>2
  <2>8. ListedIfWanted' /\ HeldStateIsSet'
    <3>1. ListedIfWanted'
      BY <1>2, <2>5 DEF IInv, EngineInv, ListedIfWanted
    <3>2. HeldStateIsSet'
      BY <1>2, <2>5 DEF IInv, EngineInv, HeldStateIsSet, IsSet
    <3>3. QED
      BY <3>1, <3>2
  <2>9. BlockedForReason'
    BY <1>2, <2>3, <2>5 DEF IInv, EngineInv, BlockedForReason, Blocked, Registrar
  <2>10. QED
    BY <2>3, <2>6, <2>7, <2>8, <2>9 DEF IInv, EngineInv
<1>5. QED
  BY <1>3, <1>4

LEMMA StateRequestStep ==
  ASSUME IInv, NEW src \in Client, NEW e \in Name, Serving(src), StateRequest(src, e)
  PROVE  IInv'
<1> src \in Registrar
  BY DEF Registrar
<1>1. /\ st \in [Name -> [Registrar -> RegState]]
      /\ state \in [Name -> StateOfEvent]
  BY DEF IInv, EngineInv, EngineType
<1>2. UNCHANGED <<ind, controller, told, req>> /\ src \notin Blocked
  BY ServedNotBlocked DEF StateRequest, Serving
<1>3. Answers({src})
  BY AnswerEffect DEF IInv, StateRequest, Status
<1>4. ClientType' /\ Blocked' = Blocked
  BY <1>2, <1>3, ServeEffect DEF IInv
<1>5. CASE st[e][src] # "none"
  <2>1. UNCHANGED <<st, state>>
    BY <1>5 DEF StateRequest
  <2>2. QED
    BY <1>2, <1>4, <2>1 DEF IInv, EngineInv, EngineType, WaitersStalled, UnsetterStalled,
       ListedIfWanted, HeldStateIsSet, IsSet, BlockedForReason
<1>6. CASE st[e][src] = "none"
  <2>1. /\ state' = [state EXCEPT ![e] = Created(state[e])]
        /\ st' = [st EXCEPT ![e][src] = OnRequest(e)]
    BY <1>6, <1>1 DEF StateRequest
  <2>2. /\ OnRequest(e) \in {"set", "unset"}
        /\ OnRequest(e) = "set" => state[e] = "set"
        /\ Created(state[e]) \in StateOfEvent \ {"absent"}
        /\ state[e] # "absent" => Created(state[e]) = state[e]
        /\ state[e] = "absent" => Created(state[e]) = "unset"
    BY <1>1 DEF OnRequest, Created, StateOfEvent
  <2>3. st' \in [Name -> [Registrar -> RegState]] /\ state' \in [Name -> StateOfEvent]
    BY <1>1, <2>1, <2>2 DEF RegState
  <2>4. \A f \in Name : \A r \in Registrar :
          st'[f][r] = IF f = e /\ r = src THEN OnRequest(e) ELSE st[f][r]
    BY <1>1, <2>1
  <2>5. \A f \in Name : state'[f] = IF f = e THEN Created(state[e]) ELSE state[f]
    BY <1>1, <2>1
  <2>6. EngineType'
    BY <1>2, <2>3 DEF IInv, EngineInv, EngineType
  <2>7. WaitersStalled' /\ UnsetterStalled'
    <3>1. WaitersStalled'
      BY <1>2, <1>4, <2>2, <2>4, <2>5 DEF IInv, EngineInv, WaitersStalled, Registrar
    <3>2. UnsetterStalled'
      BY <1>2, <1>4, <2>2, <2>5 DEF IInv, EngineInv, UnsetterStalled
    <3>3. QED
      BY <3>1, <3>2
  <2>8. ListedIfWanted'
    BY <2>2, <2>4, <2>5 DEF IInv, EngineInv, ListedIfWanted
  <2>9. HeldStateIsSet'
    BY <2>2, <2>4, <2>5 DEF IInv, EngineInv, HeldStateIsSet, IsSet
  <2>10. BlockedForReason'
    BY <1>2, <1>4, <2>2, <2>4, <2>5 DEF IInv, EngineInv, BlockedForReason, Blocked, Registrar
  <2>11. QED
    BY <1>4, <2>6, <2>7, <2>8, <2>9, <2>10 DEF IInv, EngineInv
<1>7. QED
  BY <1>5, <1>6

(* The release that ends a pending unset wakes the unsetting process up.   *)
LEMMA StateReleaseStep ==
  ASSUME IInv, NEW src \in Registrar, NEW e \in Name, Serving(src), StateRelease(src, e),
         told' \in [Name -> {"nothing", "active", "set", "error"}]
  PROVE  IInv'
<1>1. /\ st \in [Name -> [Registrar -> RegState]]
      /\ state \in [Name -> StateOfEvent]
      /\ controller \in [Name -> Registrar]
  BY DEF IInv, EngineInv, EngineType
<1>2. UNCHANGED <<ind, controller, req>> /\ src \notin Blocked
  BY ServedNotBlocked DEF StateRelease, Serving
<1>3. CASE st[e][src] = "none"
  <2>1. UNCHANGED <<st, state>>
    BY <1>3 DEF StateRelease
  <2>2. Answers({src})
    BY <1>3, AnswerEffect DEF IInv, StateRelease, Status
  <2>3. ClientType' /\ Blocked' = Blocked
    BY <1>2, <2>2, ServeEffect DEF IInv
  <2>4. QED
    BY <1>2, <2>1, <2>3 DEF IInv, EngineInv, EngineType, WaitersStalled, UnsetterStalled,
       ListedIfWanted, HeldStateIsSet, IsSet, BlockedForReason
<1>4. CASE st[e][src] # "none"
  <2> DEFINE W == {r \in {controller[e]} : Deletes(src, e) /\ state[e] = "pending"}
  <2>1. /\ st' = [st EXCEPT ![e][src] = "none"]
        /\ state' = IF Deletes(src, e) THEN [state EXCEPT ![e] = "absent"] ELSE state
        /\ WakeAndAnswer(W, src)
    BY <1>4 DEF StateRelease
  <2>2. st' \in [Name -> [Registrar -> RegState]] /\ state' \in [Name -> StateOfEvent]
    BY <1>1, <2>1 DEF RegState, StateOfEvent
  <2>3. \A f \in Name : \A r \in Registrar :
          st'[f][r] = IF f = e /\ r = src THEN "none" ELSE st[f][r]
    BY <1>1, <2>1
  <2>4. \A f \in Name :
          state'[f] = IF f = e /\ Deletes(src, e) THEN "absent" ELSE state[f]
    BY <1>1, <2>1
  <2>5. Deletes(src, e) =>
          /\ state[e] # "set"
          /\ \A r \in Registrar : r # src => st[e][r] = "none"
    BY DEF Deletes, Registered
  <2>6. ~Deletes(src, e) => state[e] = "set" \/ \E r \in Registrar : r # src /\ st[e][r] # "none"
    BY <1>4 DEF Deletes, Registered
  <2>7. /\ W \in SUBSET Registrar
        /\ \A c \in W : c \in Blocked /\ req[c] = Ask("unset", "state", e)
    BY <1>1 DEF IInv, EngineInv, UnsetterStalled
  <2>8. Answers({src} \cup W)
    BY <2>1, <2>7, WakeEffect DEF IInv, Blocked
  <2>9. ClientType' /\ Blocked' = Blocked \ W
    BY <1>2, <2>7, <2>8, ServeEffect DEF IInv, Blocked
  <2>10. \A c \in W : \A f \in Name :
           /\ req[c] # Ask("wait", "ind", f) /\ req[c] # Ask("wait", "state", f)
           /\ f # e => req[c] # Ask("unset", "state", f)
    BY <2>7, AskIsInjective
  <2>11. EngineType'
    BY <1>2, <2>2 DEF IInv, EngineInv, EngineType
  <2>12. WaitersStalled'
    BY <1>2, <2>3, <2>4, <2>5, <2>9, <2>10 DEF IInv, EngineInv, WaitersStalled, Registrar
  <2>13. UnsetterStalled'
    <3>1. \A f \in Name : state'[f] = "pending" => state[f] = "pending"
      BY <2>4
    <3>2. \A f \in Name : state'[f] = "pending" => controller[f] \notin W
      BY <2>4, <2>10, <3>1 DEF IInv, EngineInv, UnsetterStalled
    <3>3. QED
      BY <1>2, <2>9, <3>1, <3>2 DEF IInv, EngineInv, UnsetterStalled
  <2>14. ListedIfWanted' /\ HeldStateIsSet'
    <3>1. ListedIfWanted'
      BY <2>3, <2>4, <2>5, <2>6 DEF IInv, EngineInv, ListedIfWanted
    <3>2. HeldStateIsSet'
      BY <2>3, <2>4, <2>5 DEF IInv, EngineInv, HeldStateIsSet, IsSet
    <3>3. QED
      BY <3>1, <3>2
  <2>15. BlockedForReason'
    <3> SUFFICES ASSUME NEW c \in Blocked, c \notin W
                 PROVE  \/ \E f \in Name :
                             \/ req[c] = Ask("wait", "ind", f) /\ ind[f][c] = "waiting"
                             \/ req[c] = Ask("wait", "state", f) /\ st'[f][c] = "waiting"
                             \/ /\ req[c] = Ask("unset", "state", f)
                                /\ state'[f] = "pending" /\ controller[f] = c
                        \/ req[c].cmd = "unset" /\ req[c].type = "ind"
      BY <1>2, <2>9 DEF BlockedForReason
    <3>1. c \in Registrar /\ c # src
      BY <1>2 DEF Blocked, Registrar
    <3>2. \A f \in Name : state[f] = "pending" /\ controller[f] = c => state'[f] = "pending"
      BY <2>4
    <3>3. QED
      BY <2>3, <3>1, <3>2 DEF IInv, EngineInv, BlockedForReason
  <2>16. QED
    BY <2>9, <2>11, <2>12, <2>13, <2>14, <2>15 DEF IInv, EngineInv
<1>5. QED
  BY <1>3, <1>4

----------------------------------------------------------------------------
(* The dispatch of a request.                                              *)
LEMMA EventHandlerStep ==
  ASSUME IInv, NEW c \in Client, EventHandler(c)
  PROVE  IInv'
<1> DEFINE e == req[c].name
<1>1. Serving(c) /\ c \in Registrar
  BY DEF EventHandler, Serving, Registrar
<1>2. /\ req[c] \in Request /\ e \in Name
      /\ req[c] = Ask(req[c].cmd, req[c].type, e)
  <2>1. req[c] \in Request
    BY <1>1, CallsAssumption, RemoteAssumption DEF Serving, IInv, ClientType
  <2>2. QED
    BY <2>1, RequestIsAsk DEF Request
<1>3. told \in [Name -> {"nothing", "active", "set", "error"}]
  BY DEF IInv, EngineInv, EngineType
<1> HIDE DEF e
<1>4. CASE IndRequest(c, e)
  BY <1>1, <1>2, <1>4, IndRequestStep
<1>5. CASE req[c].type = "ind" /\ req[c].cmd = "wait" /\ IndWait(c, e)
  BY <1>1, <1>2, <1>5, IndWaitStep
<1>6. CASE IndRelease(c, e)
  BY <1>1, <1>2, <1>6, IndReleaseStep
<1>7. CASE IndSet(c, e)
  BY <1>1, <1>2, <1>7, IndSetStep
<1>8. CASE req[c].type = "ind" /\ req[c].cmd = "unset" /\ UNCHANGED <<engineVars, inbox>>
  <2>1. Answers({})
    BY <1>8 DEF Answers, IInv, ClientType, AtMostOne
  <2>2. ClientType' /\ Blocked' = Blocked \cup {c}
    BY <1>1, <2>1, ServeEffect DEF IInv
  <2>3. UNCHANGED <<ind, st, state, controller, told, req>> /\ c \notin Blocked
    BY <1>1, <1>8, ServedNotBlocked DEF Serving, engineVars
  <2>4. EngineType' /\ WaitersStalled' /\ UnsetterStalled' /\ ListedIfWanted' /\ HeldStateIsSet'
    BY <2>2, <2>3 DEF IInv, EngineInv, EngineType, WaitersStalled, UnsetterStalled,
       ListedIfWanted, HeldStateIsSet, IsSet
  <2>5. BlockedForReason'
    BY <1>8, <2>2, <2>3 DEF IInv, EngineInv, BlockedForReason
  <2>6. QED
    BY <2>2, <2>4, <2>5 DEF IInv, EngineInv
<1>9. CASE StateRequest(c, e)
  BY <1>1, <1>2, <1>9, StateRequestStep
<1>10. CASE req[c].type = "state" /\ req[c].cmd = "wait" /\ StateWait(c, e)
  BY <1>1, <1>2, <1>10, StateWaitStep
<1>11. CASE StateRelease(c, e) /\ UNCHANGED told
  BY <1>1, <1>2, <1>3, <1>11, StateReleaseStep
<1>12. CASE StateSet(c, e)
  BY <1>1, <1>2, <1>12, StateSetStep
<1>13. CASE req[c].type = "state" /\ req[c].cmd = "unset" /\ StateUnset(c, e)
  BY <1>1, <1>2, <1>13, StateUnsetStep
<1>14. QED
  BY <1>4, <1>5, <1>6, <1>7, <1>8, <1>9, <1>10, <1>11, <1>12, <1>13 DEF EventHandler, e

(* The commands of the master.                                             *)
LEMMA RemoteStep ==
  ASSUME IInv, NEW e \in Name,
         RemoteIndRequest(e) \/ RemoteStateRequest(e) \/ RemoteRelease(e) \/ RemoteSet(e)
  PROVE  IInv'
<1> Remote \in Registrar
  BY DEF Registrar
<1>1. /\ ind \in [Name -> [Registrar -> RegState]]
      /\ st \in [Name -> [Registrar -> RegState]]
      /\ state \in [Name -> StateOfEvent]
      /\ told \in [Name -> {"nothing", "active", "set", "error"}]
  BY DEF IInv, EngineInv, EngineType
<1>2. CASE RemoteIndRequest(e)
  <2>1. UNCHANGED <<st, state, controller, told, req, loc, inbox>>
    BY <1>2 DEF RemoteIndRequest, clientVars
  <2>2. ind' = [ind EXCEPT ![e][Remote] = "waiting"]
    BY <1>2 DEF RemoteIndRequest
  <2>3. ind' \in [Name -> [Registrar -> RegState]]
    BY <1>1, <2>2 DEF RegState
  <2>4. \A f \in Name : \A c \in Client : ind'[f][c] = ind[f][c]
    BY <1>1, <2>2, RemoteAssumption DEF Registrar
  <2>5. ClientType' /\ Blocked' = Blocked
    BY <2>1 DEF IInv, ClientType, AtMostOne, Blocked, Stalled
  <2>6. EngineType' /\ WaitersStalled'
    BY <2>1, <2>3, <2>4, <2>5 DEF IInv, EngineInv, EngineType, WaitersStalled
  <2>7. UnsetterStalled' /\ ListedIfWanted' /\ HeldStateIsSet'
    BY <2>1, <2>5 DEF IInv, EngineInv, UnsetterStalled, ListedIfWanted, HeldStateIsSet, IsSet
  <2>8. BlockedForReason'
    BY <2>1, <2>4, <2>5 DEF IInv, EngineInv, BlockedForReason, Blocked
  <2>9. QED
    BY <2>5, <2>6, <2>7, <2>8 DEF IInv, EngineInv
<1>3. CASE RemoteStateRequest(e)
  <2>1. UNCHANGED <<ind, controller, req, loc, inbox>>
    BY <1>3 DEF RemoteStateRequest, clientVars
  <2>2. told' \in [Name -> {"nothing", "active", "set", "error"}]
    BY <1>1, <1>3 DEF RemoteStateRequest
  <2>3. \/ st' = st /\ state' = state
        \/ st' = [st EXCEPT ![e][Remote] = "set"] /\ state' = state /\ IsSet(e)
        \/ /\ st' = [st EXCEPT ![e][Remote] = "waiting"]
           /\ state' = [state EXCEPT ![e] = "unset"]
           /\ ~IsSet(e)
    BY <1>3 DEF RemoteStateRequest
  <2>4. st' \in [Name -> [Registrar -> RegState]] /\ state' \in [Name -> StateOfEvent]
    <3>1. st' \in [Name -> [Registrar -> RegState]]
      <4>1. CASE st' = st
        BY <1>1, <4>1
      <4>2. CASE st' = [st EXCEPT ![e][Remote] = "set"]
        BY <1>1, <4>2 DEF RegState
      <4>3. CASE st' = [st EXCEPT ![e][Remote] = "waiting"]
        BY <1>1, <4>3 DEF RegState
      <4>4. QED
        BY <2>3, <4>1, <4>2, <4>3
    <3>2. state' \in [Name -> StateOfEvent]
      BY <1>1, <2>3 DEF StateOfEvent
    <3>3. QED
      BY <3>1, <3>2
  <2>5. /\ \A f \in Name : \A r \in Registrar :
             \/ st'[f][r] = st[f][r]
             \/ r = Remote /\ st'[f][r] = "set" /\ IsSet(f)
             \/ r = Remote /\ st'[f][r] = "waiting" /\ state'[f] = "unset"
        /\ \A f \in Name :
             \/ state'[f] = state[f]
             \/ state'[f] = "unset" /\ ~IsSet(f) /\ st'[f][Remote] = "waiting"
    BY <1>1, <2>3
  <2>6. ClientType' /\ Blocked' = Blocked
    BY <2>1 DEF IInv, ClientType, AtMostOne, Blocked, Stalled
  <2>7. EngineType'
    BY <2>1, <2>2, <2>4 DEF IInv, EngineInv, EngineType
  <2>8. WaitersStalled' /\ UnsetterStalled'
    <3>1. WaitersStalled'
      BY <2>1, <2>5, <2>6, RemoteAssumption DEF IInv, EngineInv, WaitersStalled, Registrar
    <3>2. UnsetterStalled'
      BY <2>1, <2>5, <2>6 DEF IInv, EngineInv, UnsetterStalled
    <3>3. QED
      BY <3>1, <3>2
  <2>9. ListedIfWanted'
    BY <2>5 DEF IInv, EngineInv, ListedIfWanted, IsSet
  <2>10. HeldStateIsSet'
    BY <2>5 DEF IInv, EngineInv, HeldStateIsSet, IsSet
  <2>11. BlockedForReason'
    <3>1. \A f \in Name : state[f] = "pending" => state'[f] = "pending"
      BY <2>5 DEF IsSet
    <3>2. \A f \in Name : \A c \in Client : st'[f][c] = st[f][c]
      BY <2>5, RemoteAssumption DEF Registrar
    <3>3. QED
      BY <2>1, <2>6, <3>1, <3>2 DEF IInv, EngineInv, BlockedForReason, Blocked
  <2>12. QED
    BY <2>6, <2>7, <2>8, <2>9, <2>10, <2>11 DEF IInv, EngineInv
<1>4. CASE RemoteRelease(e)
  <2>1. Serving(Remote)
    BY <1>4 DEF RemoteRelease, Serving
  <2>2. CASE StateRelease(Remote, e) /\ told' = [told EXCEPT ![e] = "nothing"]
    BY <1>1, <2>1, <2>2, StateReleaseStep
  <2>3. CASE IndRelease(Remote, e)
    BY <2>1, <2>3, IndReleaseStep
  <2>4. QED
    BY <1>4, <2>2, <2>3 DEF RemoteRelease
<1>5. CASE RemoteSet(e)
  <2>1. Serving(Remote)
    BY <1>5 DEF RemoteSet, Serving
  <2>2. QED
    BY <1>5, <2>1, IndSetStep, StateSetStep DEF RemoteSet
<1>6. QED
  BY <1>2, <1>3, <1>4, <1>5

(* A client that moves without being served was not blocked and is not     *)
(* blocked afterwards.                                                     *)
LEMMA ClientStep ==
  ASSUME IInv, NEW c \in Client,
         (\E r \in Calls : Call(c, r)) \/ Forward(c) \/ Return(c)
  PROVE  IInv'
<1>1. UNCHANGED <<ind, st, state, controller, told>>
  BY DEF Call, Forward, Return, engineVars
<1>2. /\ \A d \in Client : d # c => loc'[d] = loc[d] /\ inbox'[d] = inbox[d] /\ req'[d] = req[d]
      /\ loc'[c] # "served" /\ inbox'[c] = <<>>
  <2>1. \A b \in Box : b # <<>> => Tail(b) = <<>>
    <3>1. Tail(<<"ok">>) = <<>> /\ Tail(<<"err">>) = <<>>
      OBVIOUS
    <3>2. QED
      BY <3>1 DEF Box
  <2>2. QED
    BY <2>1 DEF Call, Forward, Return, IInv, ClientType, AtMostOne
<1>3. ~Stalled(c)
  BY DEF Call, Forward, Return, Stalled
<1>4. Blocked' = Blocked /\ c \notin Blocked
  BY <1>2, <1>3 DEF Blocked, Stalled
<1>5. ClientType'
  <2>1. inbox' \in [Client -> Box] /\ (\A d \in Client : loc'[d] # "served" => inbox'[d] = <<>>)
    <3>1. <<>> \in Box
      BY DEF Box
    <3>2. \E b : inbox' = [inbox EXCEPT ![c] = b]
      BY DEF Call, Forward, Return, IInv, ClientType, AtMostOne
    <3>3. QED
      BY <1>2, <3>1, <3>2 DEF IInv, ClientType, AtMostOne
  <2>2. req' \in [Client -> Calls \cup {NoRequest}]
    BY DEF Call, Forward, Return, IInv, ClientType
  <2>3. loc' \in [Client -> {"idle", "tmc", "engine", "served"}]
    BY DEF Call, Forward, Return, IInv, ClientType
  <2>4. loc'[c] = "idle" <=> req'[c] = NoRequest
    BY NoRequestIsNone DEF Call, Forward, Return, IInv, ClientType
  <2>5. QED
    BY <1>2, <2>1, <2>2, <2>3, <2>4 DEF IInv, ClientType, AtMostOne
<1>6. \A d \in Blocked : req'[d] = req[d]
  BY <1>2, <1>4 DEF Blocked
<1>7. EngineInv'
  <2>1. EngineType' /\ ListedIfWanted' /\ HeldStateIsSet'
    BY <1>1 DEF IInv, EngineInv, EngineType, ListedIfWanted, HeldStateIsSet, IsSet
  <2>2. WaitersStalled'
    BY <1>1, <1>4, <1>6 DEF IInv, EngineInv, WaitersStalled
  <2>3. UnsetterStalled'
    BY <1>1, <1>4, <1>6 DEF IInv, EngineInv, UnsetterStalled
  <2>4. BlockedForReason'
    BY <1>1, <1>4, <1>6 DEF IInv, EngineInv, BlockedForReason
  <2>5. QED
    BY <2>1, <2>2, <2>3, <2>4 DEF EngineInv
<1>8. QED
  BY <1>5, <1>7 DEF IInv

LEMMA StutterStep ==
  ASSUME IInv, UNCHANGED vars
  PROVE  IInv'
BY DEF IInv, vars, ClientType, AtMostOne, EngineInv, EngineType, WaitersStalled, UnsetterStalled,
   ListedIfWanted, HeldStateIsSet, IsSet, BlockedForReason, Blocked, Stalled

LEMMA InvariantStep == IInv /\ [Next]_vars => IInv'
<1> SUFFICES ASSUME IInv, [Next]_vars PROVE IInv'
  OBVIOUS
<1>1. ASSUME NEW c \in Client,
             (\E r \in Calls : Call(c, r)) \/ Forward(c) \/ EventHandler(c) \/ Return(c)
      PROVE  IInv'
  BY <1>1, ClientStep, EventHandlerStep
<1>2. CASE RemoteCommand
  BY <1>2, RemoteStep DEF RemoteCommand
<1>3. CASE UNCHANGED vars
  BY <1>3, StutterStep
<1>4. QED
  BY <1>1, <1>2, <1>3 DEF Next

THEOREM Invariance == Spec => []IInv
<1>1. Init => IInv
  BY InitIInv
<1>2. IInv /\ [Next]_vars => IInv'
  BY InvariantStep
<1>3. QED
  BY <1>1, <1>2, PTL DEF Spec

(* Every variable has its type in every reachable state.                   *)
THEOREM TypeCorrect == Spec => []TypeOK
BY Invariance, InvariantImplies, PTL

(* A process never finds the answer to an earlier request in its queue:    *)
(* every handler of tec_events.c answers each request at most once.        *)
THEOREM AnswersOnce == Spec => []OneAnswer
BY Invariance, InvariantImplies, PTL

(* No process stays blocked in Event() after the event it waits for was    *)
(* set, or after the last release of the event it unsets.                  *)
THEOREM WakeupsArrive == Spec => []NoLostWakeup
BY Invariance, InvariantImplies, PTL

(* No state event is unset or deleted under a registrar that was told it   *)
(* is set.                                                                 *)
THEOREM HeldStatesStay == Spec => []HeldStateIsSet
BY Invariance, InvariantImplies, PTL

(* The engine keeps exactly the state events that are set or wanted, and a *)
(* pending unset always has its process waiting for the answer.            *)
THEOREM EventsAreNeeded == Spec => []EventIsNeeded
BY Invariance, InvariantImplies, PTL

----------------------------------------------------------------------------
(* The gates.  A step changes one state event e, or none.                  *)
LEMMA GateEffect ==
  ASSUME NEW e \in Name,
         \A f \in Name : f # e => st'[f] = st[f] /\ state'[f] = state[f]
  PROVE  /\ Open' = [Open EXCEPT ![e] = state'[e] \in {"set", "pending"}]
         /\ Holders' = [Holders EXCEPT ![e] = {r \in Registrar : st'[e][r] = "set"}]
         /\ Open[e] <=> IsSet(e)
         /\ Holders[e] = {r \in Registrar : st[e][r] = "set"}
BY DEF Open, Holders, IsSet

GateStep == Gates!Next \/ UNCHANGED <<Open, Holders>>

(* Nobody loses what he was granted; nobody but src does, who releases it. *)
AllKept == \A f \in Name : \A r \in Registrar : st[f][r] = "set" => st'[f][r] = "set"
KeptButFor(src, e) ==
  \A f \in Name : \A r \in Registrar :
    st[f][r] = "set" /\ st'[f][r] # "set" => f = e /\ r = src /\ st'[f][r] = "none"

LEMMA SetIsGateStep ==
  ASSUME IInv, NEW src \in Registrar, NEW e \in Name, StateSet(src, e)
  PROVE  GateStep /\ AllKept
<1>1. /\ st \in [Name -> [Registrar -> RegState]]
      /\ state \in [Name -> StateOfEvent]
  BY DEF IInv, EngineInv, EngineType
<1>2. CASE IsSet(e)
  <2>1. UNCHANGED <<st, state>>
    BY <1>2 DEF StateSet
  <2>2. QED
    BY <2>1 DEF GateStep, AllKept, Open, Holders, IsSet
<1>3. CASE ~IsSet(e)
  <2>1. /\ state' = [state EXCEPT ![e] = "set"]
        /\ st' = [st EXCEPT ![e] = [r \in Registrar |-> SetStateReg(r, st[e][r])]]
    BY <1>3 DEF StateSet
  <2>2. /\ \A f \in Name : f # e => st'[f] = st[f] /\ state'[f] = state[f]
        /\ state'[e] = "set"
    BY <1>1, <2>1
  <2>3. \A r \in Registrar : st[e][r] # "set"
    BY <1>3 DEF IInv, EngineInv, HeldStateIsSet
  <2>4. Gates!Open(e, {r \in Registrar : st'[e][r] = "set"})
    BY <1>3, <2>2, GateEffect DEF Gates!Open
  <2>5. Gates!Next
    BY <2>4 DEF Gates!Next
  <2>6. QED
    BY <2>2, <2>3, <2>5 DEF GateStep, AllKept
<1>4. QED
  BY <1>2, <1>3

LEMMA UnsetIsGateStep ==
  ASSUME IInv, NEW src \in Registrar, NEW e \in Name, StateUnset(src, e)
  PROVE  GateStep /\ AllKept
<1>1. /\ st \in [Name -> [Registrar -> RegState]]
      /\ state \in [Name -> StateOfEvent]
  BY DEF IInv, EngineInv, EngineType
<1>2. st' = st /\ AllKept
  BY DEF StateUnset, AllKept
<1>3. CASE state[e] # "set" \/ Registered(st[e]) # {}
  <2>1. \A f \in Name : state'[f] = state[f] \/ (IsSet(f) /\ state'[f] = "pending")
    BY <1>1, <1>3 DEF StateUnset, IsSet
  <2>2. UNCHANGED <<Open, Holders>>
    BY <1>2, <2>1 DEF Open, Holders, IsSet
  <2>3. QED
    BY <1>2, <2>2 DEF GateStep
<1>4. CASE state[e] = "set" /\ Registered(st[e]) = {}
  <2>1. state' = [state EXCEPT ![e] = "absent"]
    BY <1>4 DEF StateUnset
  <2>2. /\ \A f \in Name : f # e => st'[f] = st[f] /\ state'[f] = state[f]
        /\ state'[e] = "absent" /\ IsSet(e)
    BY <1>1, <1>2, <1>4, <2>1 DEF IsSet
  <2>3. \A r \in Registrar : st[e][r] # "set"
    BY <1>4 DEF Registered
  <2>4. Holders' = Holders
    BY <1>2 DEF Holders
  <2>5. Gates!Close(e)
    <3>1. Open[e] /\ Holders[e] = {}
      BY <2>2, <2>3, GateEffect
    <3>2. (state'[e] \in {"set", "pending"}) = FALSE
      BY <2>2
    <3>3. Open' = [Open EXCEPT ![e] = FALSE]
      BY <2>2, <3>2, GateEffect
    <3>4. QED
      BY <2>4, <3>1, <3>3 DEF Gates!Close
  <2>6. QED
    BY <1>2, <2>5 DEF GateStep, Gates!Next
<1>5. QED
  BY <1>3, <1>4

(* A registrar that enters: its registration alone changes, to "set".      *)
LEMMA EnterIsGateStep ==
  ASSUME IInv, NEW src \in Registrar, NEW e \in Name, IsSet(e),
         st' = [st EXCEPT ![e][src] = "set"], state' = state
  PROVE  GateStep /\ AllKept
<1>1. st \in [Name -> [Registrar -> RegState]]
  BY DEF IInv, EngineInv, EngineType
<1>2. \A f \in Name : \A r \in Registrar :
        st'[f][r] = IF f = e /\ r = src THEN "set" ELSE st[f][r]
  BY <1>1
<1>3. \A f \in Name : f # e => st'[f] = st[f] /\ state'[f] = state[f]
  BY <1>1
<1>4. {r \in Registrar : st'[e][r] = "set"} = {r \in Registrar : st[e][r] = "set"} \cup {src}
  BY <1>2
<1>5. Open' = Open
  BY DEF Open, IsSet
<1>6. Gates!Enter(e, src)
  BY <1>3, <1>4, <1>5, GateEffect DEF Gates!Enter
<1>7. QED
  BY <1>2, <1>6 DEF GateStep, Gates!Next, AllKept

(* One that only registers or starts to wait: the gate is left alone.      *)
LEMMA OutsideIsGateStep ==
  ASSUME IInv, NEW src \in Registrar, NEW e \in Name, NEW new \in RegState \ {"set"},
         st[e][src] # "set", st' = [st EXCEPT ![e][src] = new],
         \A f \in Name : state'[f] = state[f] \/ (~IsSet(f) /\ state'[f] = "unset")
  PROVE  GateStep /\ AllKept
<1>1. st \in [Name -> [Registrar -> RegState]]
  BY DEF IInv, EngineInv, EngineType
<1>2. \A f \in Name : \A r \in Registrar : st'[f][r] = "set" <=> st[f][r] = "set"
  BY <1>1
<1>3. UNCHANGED <<Open, Holders>>
  BY <1>2 DEF Open, Holders, IsSet
<1>4. QED
  BY <1>2, <1>3 DEF GateStep, AllKept

LEMMA WaitIsGateStep ==
  ASSUME IInv, NEW src \in Registrar, NEW e \in Name, StateWait(src, e)
  PROVE  GateStep /\ AllKept
<1>1. state' = state
  BY DEF StateWait
<1>2. CASE st' = st
  BY <1>1, <1>2 DEF GateStep, AllKept, Open, Holders, IsSet
<1>3. CASE IsSet(e) /\ st' = [st EXCEPT ![e][src] = "set"]
  BY <1>1, <1>3, EnterIsGateStep
<1>4. CASE ~IsSet(e) /\ st' = [st EXCEPT ![e][src] = "waiting"]
  <2>1. st[e][src] # "set" /\ "waiting" \in RegState \ {"set"}
    BY <1>4 DEF IInv, EngineInv, HeldStateIsSet, RegState
  <2>2. QED
    BY <1>1, <1>4, <2>1, OutsideIsGateStep
<1>5. QED
  BY <1>2, <1>3, <1>4 DEF StateWait, Grant

LEMMA RequestIsGateStep ==
  ASSUME IInv, NEW src \in Registrar, NEW e \in Name, StateRequest(src, e)
  PROVE  GateStep /\ AllKept
<1>1. state \in [Name -> StateOfEvent]
  BY DEF IInv, EngineInv, EngineType
<1>2. CASE UNCHANGED <<st, state>>
  BY <1>2 DEF GateStep, AllKept, Open, Holders, IsSet
<1>3. CASE /\ st[e][src] = "none"
           /\ state' = [state EXCEPT ![e] = Created(state[e])]
           /\ st' = [st EXCEPT ![e][src] = OnRequest(e)]
  <2>1. CASE state[e] = "set"
    <3>1. OnRequest(e) = "set" /\ Created(state[e]) = state[e] /\ IsSet(e)
      BY <2>1 DEF OnRequest, Created, IsSet
    <3>2. state' = state
      BY <1>1, <1>3, <3>1
    <3>3. QED
      BY <1>3, <3>1, <3>2, EnterIsGateStep
  <2>2. CASE state[e] # "set"
    <3>1. /\ OnRequest(e) = "unset" /\ "unset" \in RegState \ {"set"}
          /\ Created(state[e]) = state[e] \/ (~IsSet(e) /\ Created(state[e]) = "unset")
      BY <2>2 DEF OnRequest, Created, RegState, IsSet
    <3>2. \A f \in Name : state'[f] = state[f] \/ (~IsSet(f) /\ state'[f] = "unset")
      BY <1>1, <1>3, <3>1
    <3>3. QED
      BY <1>3, <3>1, <3>2, OutsideIsGateStep
  <2>3. QED
    BY <2>1, <2>2
<1>4. QED
  BY <1>1, <1>2, <1>3 DEF StateRequest

LEMMA ReleaseIsGateStep ==
  ASSUME IInv, NEW src \in Registrar, NEW e \in Name, StateRelease(src, e)
  PROVE  GateStep /\ KeptButFor(src, e)
<1>1. /\ st \in [Name -> [Registrar -> RegState]]
      /\ state \in [Name -> StateOfEvent]
  BY DEF IInv, EngineInv, EngineType
<1>2. CASE UNCHANGED <<st, state>>
  BY <1>2 DEF GateStep, KeptButFor, Open, Holders, IsSet
<1>3. CASE /\ st[e][src] # "none"
           /\ st' = [st EXCEPT ![e][src] = "none"]
           /\ state' = IF Deletes(src, e) THEN [state EXCEPT ![e] = "absent"] ELSE state
  <2> DEFINE H == {r \in Registrar : st[e][r] = "set"}
  <2>1. \A f \in Name : \A r \in Registrar :
          st'[f][r] = IF f = e /\ r = src THEN "none" ELSE st[f][r]
    BY <1>1, <1>3
  <2>2. \A f \in Name : f # e => st'[f] = st[f] /\ state'[f] = state[f]
    BY <1>1, <1>3
  <2>3. {r \in Registrar : st'[e][r] = "set"} = H \ {src}
    BY <2>1
  <2>4. KeptButFor(src, e)
    BY <2>1 DEF KeptButFor
  <2>5. /\ Open' = [Open EXCEPT ![e] = state'[e] \in {"set", "pending"}]
        /\ Holders' = [Holders EXCEPT ![e] = H \ {src}]
        /\ Open[e] <=> IsSet(e)
        /\ Holders[e] = H
    BY <2>2, <2>3, GateEffect
  <2>6. CASE ~Deletes(src, e)
    <3>1. Open' = Open
      BY <1>3, <2>6 DEF Open, IsSet
    <3>2. CASE src \in H
      BY <2>4, <2>5, <3>1, <3>2 DEF GateStep, Gates!Next, Gates!Leave
    <3>3. CASE src \notin H
      <4>1. Holders' = Holders
        BY <2>1, <3>3 DEF Holders
      <4>2. QED
        BY <2>4, <3>1, <4>1 DEF GateStep
    <3>4. QED
      BY <3>2, <3>3
  <2>7. CASE Deletes(src, e)
    <3>1. state'[e] = "absent" /\ state[e] # "set"
      BY <1>1, <1>3, <2>7 DEF Deletes
    <3>2. H \ {src} = {}
      BY <2>7 DEF Deletes, Registered
    <3>3. Open' = [Open EXCEPT ![e] = FALSE]
      <4>1. (state'[e] \in {"set", "pending"}) = FALSE
        BY <3>1
      <4>2. QED
        BY <2>5, <4>1
    <3>4. Holders'[e] = {}
      BY <2>5, <3>2 DEF Holders
    <3>5. CASE src \in H
      <4>1. (Holders'[e] # {}) = FALSE
        BY <3>4
      <4>2. Open' = [Open EXCEPT ![e] = Holders'[e] # {}]
        BY <3>3, <4>1
      <4>3. Gates!Leave(e, src)
        BY <2>5, <3>5, <4>2 DEF Gates!Leave
      <4>4. QED
        BY <2>4, <4>3 DEF GateStep, Gates!Next
    <3>6. CASE src \notin H
      <4>1. Holders' = Holders /\ Holders[e] = {}
        <5>1. Holders' = Holders
          BY <2>1, <3>6 DEF Holders
        <5>2. QED
          BY <3>4, <5>1
      <4>2. CASE IsSet(e)
        <5>1. Gates!Close(e)
          BY <2>5, <3>3, <4>1, <4>2 DEF Gates!Close
        <5>2. QED
          BY <2>4, <5>1 DEF GateStep, Gates!Next
      <4>3. CASE ~IsSet(e)
        <5>1. Open' = Open
          BY <2>2, <3>1, <4>3 DEF Open, IsSet
        <5>2. QED
          BY <2>4, <4>1, <5>1 DEF GateStep
      <4>4. QED
        BY <4>2, <4>3
    <3>7. QED
      BY <3>5, <3>6
  <2>8. QED
    BY <2>6, <2>7
<1>4. QED
  BY <1>2, <1>3 DEF StateRelease

LEMMA RemoteRequestIsGateStep ==
  ASSUME IInv, NEW e \in Name, RemoteStateRequest(e)
  PROVE  GateStep /\ AllKept
<1>1. state \in [Name -> StateOfEvent] /\ Remote \in Registrar
  BY DEF IInv, EngineInv, EngineType, Registrar
<1>2. CASE UNCHANGED <<st, state>>
  BY <1>2 DEF GateStep, AllKept, Open, Holders, IsSet
<1>3. CASE IsSet(e) /\ st' = [st EXCEPT ![e][Remote] = "set"] /\ state' = state
  BY <1>1, <1>3, EnterIsGateStep
<1>4. CASE /\ st[e][Remote] = "none" /\ ~IsSet(e)
           /\ st' = [st EXCEPT ![e][Remote] = "waiting"]
           /\ state' = [state EXCEPT ![e] = "unset"]
  <2>1. \A f \in Name : state'[f] = state[f] \/ (~IsSet(f) /\ state'[f] = "unset")
    BY <1>1, <1>4
  <2>2. "waiting" \in RegState \ {"set"}
    BY DEF RegState
  <2>3. QED
    BY <1>1, <1>4, <2>1, <2>2, OutsideIsGateStep
<1>5. QED
  BY <1>2, <1>3, <1>4 DEF RemoteStateRequest

(* A step that changes no state event.                                     *)
LEMMA OtherIsGateStep ==
  ASSUME UNCHANGED <<st, state>>
  PROVE  GateStep /\ AllKept
BY DEF GateStep, AllKept, Open, Holders, IsSet

LEMMA NextIsGateStep ==
  ASSUME IInv, Next
  PROVE  /\ GateStep
         /\ \/ AllKept
            \/ \E e \in Name : KeptButFor(Remote, e)
            \/ \E e \in Name : \E c \in Client :
                 KeptButFor(c, e) /\ loc[c] = "engine" /\ Asked(c, "release", "state", e)
<1>1. ASSUME NEW c \in Client, EventHandler(c)
      PROVE  /\ GateStep
             /\ \/ AllKept
                \/ \E e \in Name : KeptButFor(c, e) /\ loc[c] = "engine" /\ Asked(c, "release", "state", e)
  <2> DEFINE e == req[c].name
  <2>1. /\ loc[c] = "engine"
        /\ c \in Registrar /\ e \in Name
        /\ req[c] = Ask(req[c].cmd, req[c].type, e)
    <3>1. loc[c] = "engine" /\ c \in Registrar
      BY <1>1 DEF EventHandler, Registrar
    <3>2. req[c] \in Request
      BY <3>1, CallsAssumption DEF IInv, ClientType
    <3>3. QED
      BY <3>1, <3>2, RequestIsAsk DEF Request
  <2> HIDE DEF e
  <2>2. CASE UNCHANGED <<st, state>>
    BY <2>2, OtherIsGateStep
  <2>3. CASE StateRequest(c, e)
    BY <2>1, <2>3, RequestIsGateStep
  <2>4. CASE StateWait(c, e)
    BY <2>1, <2>4, WaitIsGateStep
  <2>5. CASE req[c].type = "state" /\ req[c].cmd = "release" /\ StateRelease(c, e)
    BY <2>1, <2>5, ReleaseIsGateStep DEF Asked
  <2>6. CASE StateSet(c, e)
    BY <2>1, <2>6, SetIsGateStep
  <2>7. CASE StateUnset(c, e)
    BY <2>1, <2>7, UnsetIsGateStep
  <2>8. CASE IndRequest(c, e) \/ IndWait(c, e) \/ IndRelease(c, e) \/ IndSet(c, e)
    BY <2>8, OtherIsGateStep DEF IndRequest, IndWait, IndRelease, IndSet
  <2>9. CASE UNCHANGED engineVars
    BY <2>9, OtherIsGateStep DEF engineVars
  <2>10. QED
    BY <1>1, <2>3, <2>4, <2>5, <2>6, <2>7, <2>8, <2>9 DEF EventHandler, e
<1>2. ASSUME NEW c \in Client, (\E r \in Calls : Call(c, r)) \/ Forward(c) \/ Return(c)
      PROVE  GateStep /\ AllKept
  BY <1>2, OtherIsGateStep DEF Call, Forward, Return, engineVars
<1>3. ASSUME NEW e \in Name,
             RemoteIndRequest(e) \/ RemoteStateRequest(e) \/ RemoteRelease(e) \/ RemoteSet(e)
      PROVE  GateStep /\ (AllKept \/ KeptButFor(Remote, e))
  <2> Remote \in Registrar
    BY DEF Registrar
  <2>1. CASE RemoteIndRequest(e) \/ IndRelease(Remote, e) \/ IndSet(Remote, e)
    BY <2>1, OtherIsGateStep DEF RemoteIndRequest, IndRelease, IndSet
  <2>2. CASE RemoteStateRequest(e)
    BY <2>2, RemoteRequestIsGateStep
  <2>3. CASE StateRelease(Remote, e)
    BY <2>3, ReleaseIsGateStep
  <2>4. CASE StateSet(Remote, e)
    BY <2>4, SetIsGateStep
  <2>5. QED
    BY <1>3, <2>1, <2>2, <2>3, <2>4 DEF RemoteRelease, RemoteSet
<1>4. QED
  BY <1>1, <1>2, <1>3 DEF Next, RemoteCommand

(* A state event once granted is kept until its holder's own release.      *)
THEOREM GrantsAreKept == Spec => GrantIsKept
<1> DEFINE P == \A e \in Name : \A r \in Registrar :
                  st[e][r] = "set" /\ st'[e][r] # "set" =>
                    /\ st'[e][r] = "none"
                    /\ r # Remote => loc[r] = "engine" /\ Asked(r, "release", "state", e)
<1>1. IInv /\ [Next]_vars => [P]_vars
  <2> SUFFICES ASSUME IInv, Next PROVE P
    BY DEF vars
  <2>1. QED
    BY NextIsGateStep DEF AllKept, KeptButFor
<1>2. QED
  BY <1>1, Invariance, PTL DEF Spec, GrantIsKept

(* The state events implement the abstract gates of StateGate.             *)
THEOREM EventSystemImplementsGates == Spec => ImplementsGates
<1>1. Init => Gates!Init
  <2> SUFFICES ASSUME Init PROVE Gates!Init
    OBVIOUS
  <2>1. \A e \in Name : IsSet(e) = FALSE
    BY DEF Init, IsSet
  <2>2. Open = [e \in Name |-> FALSE]
    BY <2>1 DEF Open
  <2>3. \A e \in Name : {r \in Registrar : st[e][r] = "set"} = {}
    BY DEF Init, NoRegs
  <2>4. Holders = [e \in Name |-> {}]
    BY <2>3 DEF Holders
  <2>5. QED
    BY <2>2, <2>4 DEF Gates!Init
<1>2. IInv /\ [Next]_vars => [Gates!Next]_Gates!vars
  <2>1. ASSUME UNCHANGED vars PROVE UNCHANGED Gates!vars
    BY <2>1 DEF vars, Gates!vars, Open, Holders, IsSet
  <2>2. ASSUME IInv, Next PROVE Gates!Next \/ UNCHANGED Gates!vars
    BY <2>2, NextIsGateStep DEF GateStep, Gates!vars
  <2>3. QED
    BY <2>1, <2>2
<1>3. QED
  BY <1>1, <1>2, Invariance, PTL DEF Spec, ImplementsGates, Gates!Spec

----------------------------------------------------------------------------
(* The master.  Its request waits or is granted, never idle, and when the  *)
(* event is set it was told.                                               *)
MasterInv ==
  \A e \in Name :
    /\ st[e][Remote] # "unset"
    /\ st[e][Remote] # "none" /\ IsSet(e) => told[e] \in {"set", "error"}

LEMMA MasterInvInit == Init => MasterInv
BY DEF Init, MasterInv, NoRegs, Registrar, IsSet

(* The set of a state event by anybody: a granted event was set before, so *)
(* the master's request waits and is among those woken up.                 *)
LEMMA MasterSet ==
  ASSUME IInv, MasterInv, NEW src \in Registrar, NEW e \in Name, StateSet(src, e)
  PROVE  MasterInv'
<1>1. EngineType /\ HeldStateIsSet
  BY DEF IInv, EngineInv
<1>2. Remote \in Registrar
  BY DEF Registrar
<1>3. CASE IsSet(e)
  BY <1>3 DEF StateSet, MasterInv, IsSet
<1>4. CASE ~IsSet(e)
  <2>1. /\ state' = [state EXCEPT ![e] = "set"]
        /\ st' = [st EXCEPT ![e] = [r \in Registrar |-> SetStateReg(r, st[e][r])]]
        /\ TellRemote(Waiting(st[e]), e)
    BY <1>4 DEF StateSet
  <2>2. st[e][Remote] \in {"none", "waiting"}
    BY <1>1, <1>2, <1>4 DEF EngineType, RegState, HeldStateIsSet, MasterInv
  <2>3. st'[e][Remote] = st[e][Remote]
    BY <1>1, <1>2, <2>1, <2>2 DEF EngineType, SetStateReg
  <2>4. st[e][Remote] = "waiting" => told'[e] = "set"
    BY <1>1, <1>2, <2>1 DEF TellRemote, Waiting, EngineType
  <2>5. \A f \in Name \ {e} : st'[f] = st[f] /\ state'[f] = state[f] /\ told'[f] = told[f]
    BY <1>1, <2>1 DEF TellRemote, EngineType
  <2>6. QED
    BY <2>2, <2>3, <2>4, <2>5 DEF MasterInv, IsSet
<1>5. QED
  BY <1>3, <1>4

(* The other requests of a test process leave the master's registration    *)
(* alone and set no event.                                                 *)
LEMMA MasterKept ==
  ASSUME IInv, MasterInv, UNCHANGED told,
         \A f \in Name : st'[f][Remote] \in {"none", st[f][Remote]} /\ (IsSet(f)' => IsSet(f))
  PROVE  MasterInv'
BY DEF MasterInv

LEMMA MasterEventHandler ==
  ASSUME IInv, MasterInv, NEW c \in Client, EventHandler(c)
  PROVE  MasterInv'
<1> DEFINE e == req[c].name
<1>1. EngineType
  BY DEF IInv, EngineInv
<1>2. e \in Name /\ c \in Registrar /\ Remote \in Registrar /\ c # Remote
  <2>1. TypeOK
    BY InvariantImplies
  <2>2. loc[c] # "idle"
    BY DEF EventHandler
  <2>3. QED
    BY <2>1, <2>2, BlockedHasRequest, RemoteAssumption DEF Registrar
<1>3. CASE StateSet(c, e)
  BY <1>2, <1>3, MasterSet
<1>4. CASE IndRequest(c, e) \/ IndWait(c, e) \/ IndRelease(c, e) \/ IndSet(c, e) \/ UNCHANGED engineVars
  BY <1>4 DEF IndRequest, IndWait, IndRelease, IndSet, engineVars, MasterInv, IsSet
<1>5. CASE StateRequest(c, e)
  <2>1. UNCHANGED told /\ \A f \in Name : st'[f][Remote] = st[f][Remote]
    BY <1>1, <1>2, <1>5 DEF StateRequest, EngineType
  <2>2. \A f \in Name : IsSet(f)' => IsSet(f)
    BY <1>1, <1>2, <1>5 DEF StateRequest, EngineType, Created, IsSet
  <2>3. QED
    BY <2>1, <2>2, MasterKept
<1>6. CASE StateWait(c, e)
  <2>1. UNCHANGED told /\ UNCHANGED state /\ \A f \in Name : st'[f][Remote] = st[f][Remote]
    BY <1>1, <1>2, <1>6 DEF StateWait, Grant, EngineType
  <2>2. QED
    BY <2>1, MasterKept DEF IsSet
<1>7. CASE StateRelease(c, e) /\ UNCHANGED told
  <2>1. \A f \in Name : st'[f][Remote] = st[f][Remote]
    BY <1>1, <1>2, <1>7 DEF StateRelease, EngineType
  <2>2. \A f \in Name : IsSet(f)' => IsSet(f)
    BY <1>1, <1>2, <1>7 DEF StateRelease, EngineType, IsSet
  <2>3. QED
    BY <1>7, <2>1, <2>2, MasterKept
<1>8. CASE StateUnset(c, e)
  <2>1. UNCHANGED told /\ UNCHANGED st
    BY <1>8 DEF StateUnset
  <2>2. \A f \in Name : IsSet(f)' => IsSet(f)
    BY <1>1, <1>2, <1>8 DEF StateUnset, EngineType, IsSet
  <2>3. QED
    BY <2>1, <2>2, MasterKept
<1>9. QED
  BY <1>3, <1>4, <1>5, <1>6, <1>7, <1>8 DEF EventHandler

LEMMA MasterRemote ==
  ASSUME IInv, MasterInv, NEW e \in Name,
         RemoteIndRequest(e) \/ RemoteStateRequest(e) \/ RemoteRelease(e) \/ RemoteSet(e)
  PROVE  MasterInv'
<1>1. EngineType /\ Remote \in Registrar
  BY DEF IInv, EngineInv, Registrar
<1>2. CASE RemoteIndRequest(e)
  BY <1>2 DEF RemoteIndRequest, MasterInv, IsSet
<1>3. CASE RemoteStateRequest(e)
  <2>1. \A f \in Name \ {e} : st'[f] = st[f] /\ state'[f] = state[f] /\ told'[f] = told[f]
    BY <1>1, <1>3 DEF RemoteStateRequest, EngineType
  <2>2. /\ st'[e][Remote] # "unset"
        /\ st'[e][Remote] # "none" /\ IsSet(e)' => told'[e] \in {"set", "error"}
    BY <1>1, <1>3 DEF RemoteStateRequest, EngineType, MasterInv, IsSet
  <2>3. QED
    BY <2>1, <2>2 DEF MasterInv, IsSet
<1>4. CASE RemoteRelease(e)
  <2>1. \A f \in Name \ {e} : st'[f] = st[f] /\ state'[f] = state[f] /\ told'[f] = told[f]
    BY <1>1, <1>4 DEF RemoteRelease, StateRelease, IndRelease, EngineType
  <2>2. CASE state[e] # "absent" /\ StateRelease(Remote, e)
    <3>1. st'[e][Remote] = "none"
      BY <1>1, <2>2 DEF StateRelease, EngineType
    <3>2. QED
      BY <2>1, <3>1 DEF MasterInv, IsSet
  <2>3. CASE IndRelease(Remote, e)
    BY <2>3 DEF IndRelease, MasterInv, IsSet
  <2>4. QED
    BY <1>4, <2>2, <2>3 DEF RemoteRelease
<1>5. CASE RemoteSet(e)
  <2>1. CASE IndSet(Remote, e)
    BY <2>1 DEF IndSet, MasterInv, IsSet
  <2>2. CASE StateSet(Remote, e)
    BY <1>1, <2>2, MasterSet
  <2>3. QED
    BY <1>5, <2>1, <2>2 DEF RemoteSet
<1>6. QED
  BY <1>2, <1>3, <1>4, <1>5

LEMMA MasterStep == IInv /\ MasterInv /\ [Next]_vars => MasterInv'
<1> SUFFICES ASSUME IInv, MasterInv, [Next]_vars PROVE MasterInv'
  OBVIOUS
<1>1. CASE UNCHANGED vars
  BY <1>1 DEF vars, MasterInv, IsSet
<1>2. ASSUME NEW c \in Client, (\E r \in Calls : Call(c, r)) \/ Forward(c) \/ Return(c)
      PROVE  MasterInv'
  BY <1>2 DEF Call, Forward, Return, engineVars, MasterInv, IsSet
<1>3. ASSUME NEW c \in Client, EventHandler(c) PROVE MasterInv'
  BY <1>3, MasterEventHandler
<1>4. CASE RemoteCommand
  BY <1>4, MasterRemote DEF RemoteCommand
<1>5. QED
  BY <1>1, <1>2, <1>3, <1>4 DEF Next

(* While the master's request for a state event stands and the event is    *)
(* set, the master was told so, or that it asked twice.                    *)
THEOREM MasterIsTold == Spec => []MasterKnows
<1>1. MasterInv => MasterKnows
  BY DEF MasterInv, MasterKnows
<1>2. QED
  BY <1>1, MasterInvInit, MasterStep, Invariance, PTL DEF Spec

============================================================================
