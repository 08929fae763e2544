-------------------------- MODULE TestEngineProofs -------------------------
(***************************************************************************)
(* Proofs about TestEngine for any modules and cases, any number of        *)
(* temporary modules and any bounds, whether or not malloc gives a new     *)
(* temporary module the address of a removed one.  With the CLI nothing is *)
(* assumed; with the console, whose thread starts cases too, that a thread *)
(* of the engine finishes its call before the other one begins (Apart).    *)
(***************************************************************************)
EXTENDS TestEngine, FunctionTheorems, FiniteSetTheorems, SequenceTheorems, WellFoundedInduction, TLAPS

----------------------------------------------------------------------------
(* Which message is where after one is appended, or the oldest is taken.   *)
LEMMA AppendIndexed ==
  ASSUME NEW T, NEW s \in Seq(T), NEW e \in T
  PROVE  /\ Append(s, e) \in Seq(T) /\ Append(s, e) # <<>>
         /\ DOMAIN Append(s, e) = DOMAIN s \cup {Len(s) + 1}
         /\ Len(s) + 1 \notin DOMAIN s
         /\ \A k \in DOMAIN s : k \in Nat /\ k < Len(s) + 1 /\ Append(s, e)[k] = s[k]
         /\ Append(s, e)[Len(s) + 1] = e
BY AppendProperties

LEMMA TailIndexed ==
  ASSUME NEW T, NEW s \in Seq(T), s # <<>>
  PROVE  /\ Tail(s) \in Seq(T) /\ 1 \in DOMAIN s /\ Head(s) = s[1] /\ s[1] \in T
         /\ \A k \in DOMAIN Tail(s) :
              k \in Nat /\ k + 1 \in DOMAIN s /\ k + 1 # 1 /\ Tail(s)[k] = s[k + 1]
         /\ \A k \in DOMAIN s :
              k \in Nat /\ k >= 1 /\ (k # 1 => k - 1 \in DOMAIN Tail(s) /\ Tail(s)[k - 1] = s[k])
         /\ Len(s) = 1 => Tail(s) = <<>>
<1>1. /\ Tail(s) \in Seq(T) /\ Len(Tail(s)) = Len(s) - 1
      /\ \A k \in 1..Len(Tail(s)) : Tail(s)[k] = s[k + 1]
  OBVIOUS
<1>2. QED
  BY <1>1

(* A set of naturals that is not empty has a least element.                *)
LEMMA LeastElement ==
  ASSUME NEW S \in SUBSET Nat, S # {}
  PROVE  \E s \in S : \A r \in S : s <= r
<1> DEFINE R == {p \in Nat \X Nat : p[1] < p[2]}
<1>1. IsWellFoundedOn(R, Nat)
  BY NatLessThanWellFounded DEF OpToRel
<1>2. PICK s \in S : \A r \in S : <<r, s>> \notin R
  <2> HIDE DEF R
  <2>1. QED
    BY <1>1, WFMin
<1>3. ASSUME NEW r \in S PROVE s <= r
  <2>1. <<r, s>> \in Nat \X Nat /\ <<r, s>>[1] = r /\ <<r, s>>[2] = s
    OBVIOUS
  <2>2. ~(r < s)
    BY <1>2, <2>1
  <2>3. QED
    BY <2>2
<1>4. QED
  BY <1>3

----------------------------------------------------------------------------
(* The threads do not run while the other one is inside a call, or there   *)
(* is nothing for the thread of the user to call.                          *)
Apart == ~Overlap \/ plugin = "cli"

(* No other thread is inside a call.                                       *)
Alone(t) == \A u \in Thread : u # t => at[u].pc = "idle"

(* Where the run r of the TMC p is: asked for, executed, or reported.      *)
IsRet(k, p) == inbox[k].type = "ret" /\ inbox[k].pid = p
NoRet(p) == \A k \in DOMAIN inbox : ~IsRet(k, p)
OneRet(p, r) ==
  \E k \in DOMAIN inbox : /\ IsRet(k, p) /\ inbox[k].run = r
                          /\ \A j \in DOMAIN inbox : IsRet(j, p) => j = k

Quiet(p) == exe[p] = <<>> /\ going[p] = {} /\ NoRet(p)
With(p, r) ==
  \/ exe[p] = <<r>> /\ going[p] = {} /\ NoRet(p)
  \/ exe[p] = <<>> /\ going[p] = {r} /\ NoRet(p)
  \/ exe[p] = <<>> /\ going[p] = {} /\ OneRet(p, r)

(* The address of the temporary module of the case was given back, and may *)
(* have been given to another one.                                         *)
Past(r) ==
  LET a == sel[r].item IN a \in Temp /\ (carried[a] # r \/ mod[a] = "removed")

Active(r) == sel[r].status \in {"ONGOING", "PAUSED"} /\ ~Past(r)
Hand == at["listener"]
Handing(p) == Hand.pc \in {"credit", "tempfind", "tempend"} /\ Hand.from = p

(* A configured module is its own process; a temporary one has a process   *)
(* that no other has had.                                                  *)
PidInv ==
  /\ \A m \in Module : pid[m] = m /\ mod[m] \in {"INITIALIZED", "TC_SENDING", "READY", "BUSY", "removed"}
  /\ \A a \in Temp :
       /\ pid[a] \in 0..forked /\ (pid[a] = 0 <=> mod[a] = "absent")
       /\ mod[a] \in {"absent", "NOT_STARTED", "INITIALIZED_TEMP", "BUSY_TEMP", "removed"}
       /\ \A b \in Temp : pid[a] = pid[b] /\ pid[a] # 0 => a = b

(* A temporary module is there for a selected case, which is its own until *)
(* it is executed.                                                         *)
TempInv == \A a \in Temp :
  /\ mod[a] # "absent" => carried[a] \in DOMAIN sel
  /\ mod[a] = "INITIALIZED_TEMP" =>
       sel[carried[a]].item = a /\ sel[carried[a]].status = "IDLE"

(* A case that is executed is with its TMC, or its result in the hands of  *)
(* the listener thread.                                                    *)
RunOk(r) ==
  /\ Past(r) => sel[r].result = r /\ sel[r].status # "IDLE"
  /\ sel[r].item \in Temp /\ ~Past(r) => mod[sel[r].item] \notin {"absent", "NOT_STARTED"}
  /\ sel[r].status = "IDLE" =>
       sel[r].result = 0 /\ (sel[r].item \in Temp => mod[sel[r].item] = "INITIALIZED_TEMP")
  /\ sel[r].status = "TERMINATED" => sel[r].result = r
  /\ Active(r) =>
       /\ mod[sel[r].item] \in {"BUSY", "BUSY_TEMP"}
       /\ \/ With(pid[sel[r].item], r) /\ sel[r].result = 0 /\ ~Handing(pid[sel[r].item])
          \/ /\ Quiet(pid[sel[r].item]) /\ Handing(pid[sel[r].item]) /\ Hand.ret = r
             /\ IF Hand.pc = "credit" THEN sel[r].item \in Module /\ sel[r].result = 0
                ELSE sel[r].item \in Temp /\ sel[r].result = r

RunInv ==
  /\ \A r \in DOMAIN sel : RunOk(r)
  /\ \A q, r \in DOMAIN sel : Active(q) /\ Active(r) /\ sel[q].item = sel[r].item => q = r
  /\ \A m \in Module : mod[m] = "BUSY" => \E r \in DOMAIN sel : Active(r) /\ sel[r].item = m

(* What a TMC has to do is known to the engine.                            *)
WorkInv ==
  \A p \in Pid : Quiet(p) \/ \E r \in DOMAIN sel : Active(r) /\ pid[sel[r].item] = p /\ With(p, r)

(* What a thread remembers is still so.                                    *)
PlaceOk(t) ==
  /\ at[t].pc = "select" => todo[t] # <<>>
  /\ at[t].pc \in {"exec", "act", "settemp"} =>
       at[t].r \in DOMAIN sel /\ sel[at[t].r].status = "IDLE"
  /\ at[t].pc = "act" => at[t].seen = mod[sel[at[t].r].item]
  /\ at[t].pc = "settemp" =>
       /\ sel[at[t].r].item \in Module
       /\ \E a \in Temp : mod[a] = "NOT_STARTED" /\ pid[a] = at[t].from /\ carried[a] = at[t].r
  /\ at[t].pc \in {"credit", "tempfind", "tempend", "next"} => t = "listener"
  /\ at[t].pc \in {"credit", "tempend", "next"} => at[t].r \in DOMAIN sel
  /\ at[t].pc \in {"credit", "tempfind", "tempend"} =>
       at[t].ret \in DOMAIN sel /\ Active(at[t].ret) /\ pid[sel[at[t].ret].item] = at[t].from
  /\ at[t].pc = "credit" => at[t].r = at[t].ret
  /\ at[t].pc = "tempend" => at[t].r = at[t].ret \/ Past(at[t].r)
  /\ at[t].pc \in {"pause", "resume"} =>
       /\ t = "user" /\ plugin = "console" /\ at[t].r \in DOMAIN sel
       /\ sel[at[t].r].status = IF at[t].pc = "pause" THEN "ONGOING" ELSE "PAUSED"

ThreadInv ==
  /\ \A t \in Thread : PlaceOk(t)
  /\ at["listener"].pc = "idle" \/ at["user"].pc = "idle"
  /\ plugin = "cli" => at["user"].pc = "idle" /\ todo["user"] = <<>>
  /\ plugin = "console" => todo["listener"] = <<>>
  /\ Len(sel) + Len(todo["listener"]) + Len(todo["user"]) <= MaxRuns

(* The CLI has all cases in one group, and in a group that is not 0 none   *)
(* is started while another one is executed.                               *)
GroupIs(g) ==
  /\ \A r \in DOMAIN sel : sel[r].group = g
  /\ \A k \in DOMAIN todo["listener"] : todo["listener"][k][2] = g
NothingGoing == \A r \in DOMAIN sel : ~Active(r)
Starts(place) == place.pc \in {"exec", "act", "next"} \/ (place.pc = "select" /\ place.go)
OneByOne ==
  /\ \A a \in Temp : mod[a] = "absent"
  /\ \A q, r \in DOMAIN sel : Active(q) /\ Active(r) => q = r
  /\ Starts(Hand) => NothingGoing
GroupInv == plugin = "cli" => \E g \in {0, 1} : GroupIs(g) /\ (g # 0 => OneByOne)

(* What the CLI counts.                                                    *)
Awaited == {m \in Module : mod[m] \in {"INITIALIZED", "TC_SENDING"}}
WithResults == {r \in DOMAIN sel : sel[r].result # 0}
CountInv ==
  /\ plugin = "console" => \A m \in Module : mod[m] \in {"READY", "BUSY", "removed"}
  /\ plugin = "cli" => cli.cases = Len(sel) + Len(todo["listener"])
  /\ plugin = "console" => cli.results = 0
  /\ cli.results <= Cardinality(WithResults)
  /\ cli.ready + (IF cli.starting THEN 1 ELSE 0) + Cardinality(Awaited) <= Cardinality(Module)

IInv == TypeOK /\ PidInv /\ TempInv /\ RunInv /\ WorkInv /\ ThreadInv /\ GroupInv /\ CountInv

----------------------------------------------------------------------------
(* The addresses.                                                          *)

LEMMA Numbers == 0 \notin Module /\ \A k \in Run : k \in Nat /\ k # 0 /\ k \in 0..MaxRuns
BY TestEngineAssumption DEF Run

LEMMA IdlePlace == Idle \in Place /\ Idle.pc = "idle"
BY TestEngineAssumption DEF Idle, Place, Step, ModuleStatus

(* No two listed items have the same process.                              *)
LEMMA OneItem ==
  ASSUME TypeOK, PidInv, NEW i \in Item, NEW j \in Item, pid[i] = pid[j], pid[i] # 0
  PROVE  i = j
<1>1. \A m \in Module : pid[m] = m
  BY DEF PidInv
<1>2. \A a \in Temp : pid[a] \in 0..MaxTemps
  BY TestEngineAssumption DEF PidInv, TypeOK
<1>3. \A a, b \in Temp : pid[a] = pid[b] /\ pid[a] # 0 => a = b
  BY DEF PidInv
<1>4. Module \cap 0..MaxTemps = {}
  BY TestEngineAssumption
<1>5. QED
  BY <1>1, <1>2, <1>3, <1>4, Zenon DEF Item

LEMMA ByPidOne ==
  ASSUME TypeOK, PidInv, NEW i \in Item, Listed(i), NEW p, p = pid[i]
  PROVE  ByPid(p) = {i} /\ p # 0 /\ p \in Pid
<1>1. p \in Pid /\ p # 0
  BY Numbers, TestEngineAssumption DEF TypeOK, Pid
<1>2. \A j \in Item : pid[j] = p => j = i
  BY OneItem, <1>1
<1>3. QED
  BY <1>1, <1>2 DEF ByPid

(* The first of a set of runs.                                             *)
LEMMA FirstIs ==
  ASSUME NEW S \in SUBSET Nat, 0 \notin S
  PROVE  /\ First(S) \in S \cup {0}
         /\ First(S) = 0 => S = {}
<1>1. CASE S = {}
  BY <1>1 DEF First
<1>2. CASE S # {}
  <2>1. \E s \in S : \A r \in S : s <= r
    BY <1>2, LeastElement
  <2>2. First(S) \in S
    BY <1>2, <2>1 DEF First
  <2>3. QED
    BY <2>2
<1>3. QED
  BY <1>1, <1>2

----------------------------------------------------------------------------
(* The entries of selected_cases.                                          *)

LEMMA SelDomain ==
  ASSUME TypeOK
  PROVE  /\ DOMAIN sel = 1..Len(sel) /\ Len(sel) \in Nat /\ DOMAIN sel \subseteq Run
         /\ DOMAIN sel \subseteq Nat /\ 0 \notin DOMAIN sel
         /\ \A r \in DOMAIN sel :
              /\ sel[r] \in Entry /\ sel[r].item \in Item /\ sel[r].status \in CaseStatus
              /\ sel[r].group \in Nat /\ sel[r].result \in 0..MaxRuns
<1>1. Len(sel) \in Nat /\ Len(sel) <= MaxRuns /\ DOMAIN sel = 1..Len(sel) /\ MaxRuns \in Nat
  BY TestEngineAssumption DEF TypeOK
<1>2. \A r \in DOMAIN sel : sel[r] \in Entry
  BY DEF TypeOK
<1>3. QED
  BY <1>1, <1>2 DEF Entry, Run

LEMMA Updated ==
  ASSUME NEW T, NEW s \in Seq(T), NEW r \in DOMAIN s, NEW e \in T, NEW t, t = [s EXCEPT ![r] = e]
  PROVE  /\ t \in Seq(T) /\ DOMAIN t = DOMAIN s /\ Len(t) = Len(s)
         /\ \A q \in DOMAIN s : q # r => t[q] = s[q]
         /\ t[r] = e
OBVIOUS

LEMMA SetStatus ==
  ASSUME TypeOK, NEW r \in DOMAIN sel, NEW v \in CaseStatus,
         sel' = [sel EXCEPT ![r].status = v]
  PROVE  /\ sel' \in Seq(Entry) /\ DOMAIN sel' = DOMAIN sel /\ Len(sel') = Len(sel)
         /\ \A q \in DOMAIN sel : q # r => sel'[q] = sel[q]
         /\ sel'[r].status = v /\ sel'[r].item = sel[r].item /\ sel'[r].group = sel[r].group
         /\ sel'[r].result = sel[r].result
<1> DEFINE e == [sel[r] EXCEPT !.status = v]
<1>1. sel[r] \in Entry
  BY SelDomain
<1>2. e \in Entry /\ e.status = v /\ e.item = sel[r].item /\ e.group = sel[r].group
      /\ e.result = sel[r].result
  BY <1>1 DEF Entry
<1>3. sel' = [sel EXCEPT ![r] = e]
  OBVIOUS
<1>4. sel \in Seq(Entry)
  BY DEF TypeOK
<1> HIDE DEF e
<1>5. QED
  BY <1>2, <1>3, <1>4, Updated

LEMMA SetItem ==
  ASSUME TypeOK, NEW r \in DOMAIN sel, NEW a \in Item, sel' = [sel EXCEPT ![r].item = a]
  PROVE  /\ sel' \in Seq(Entry) /\ DOMAIN sel' = DOMAIN sel /\ Len(sel') = Len(sel)
         /\ \A q \in DOMAIN sel : q # r => sel'[q] = sel[q]
         /\ sel'[r].status = sel[r].status /\ sel'[r].item = a /\ sel'[r].group = sel[r].group
         /\ sel'[r].result = sel[r].result
<1> DEFINE e == [sel[r] EXCEPT !.item = a]
<1>1. sel[r] \in Entry
  BY SelDomain
<1>2. e \in Entry /\ e.status = sel[r].status /\ e.item = a /\ e.group = sel[r].group
      /\ e.result = sel[r].result
  BY <1>1 DEF Entry
<1>3. sel' = [sel EXCEPT ![r] = e]
  OBVIOUS
<1>4. sel \in Seq(Entry)
  BY DEF TypeOK
<1> HIDE DEF e
<1>5. QED
  BY <1>2, <1>3, <1>4, Updated

LEMMA SetKnown ==
  ASSUME TypeOK, NEW r \in DOMAIN sel, NEW b \in BOOLEAN, sel' = [sel EXCEPT ![r].known = b]
  PROVE  /\ sel' \in Seq(Entry) /\ DOMAIN sel' = DOMAIN sel /\ Len(sel') = Len(sel)
         /\ \A q \in DOMAIN sel : q # r => sel'[q] = sel[q]
         /\ sel'[r].status = sel[r].status /\ sel'[r].item = sel[r].item
         /\ sel'[r].group = sel[r].group /\ sel'[r].result = sel[r].result
<1> DEFINE e == [sel[r] EXCEPT !.known = b]
<1>1. sel[r] \in Entry
  BY SelDomain
<1>2. e \in Entry /\ e.status = sel[r].status /\ e.item = sel[r].item /\ e.group = sel[r].group
      /\ e.result = sel[r].result
  BY <1>1 DEF Entry
<1>3. sel' = [sel EXCEPT ![r] = e]
  OBVIOUS
<1>4. sel \in Seq(Entry)
  BY DEF TypeOK
<1> HIDE DEF e
<1>5. QED
  BY <1>2, <1>3, <1>4, Updated

LEMMA SetResult ==
  ASSUME TypeOK, NEW r \in DOMAIN sel, NEW n \in 0..MaxRuns, sel' = [sel EXCEPT ![r].result = n]
  PROVE  /\ sel' \in Seq(Entry) /\ DOMAIN sel' = DOMAIN sel /\ Len(sel') = Len(sel)
         /\ \A q \in DOMAIN sel : q # r => sel'[q] = sel[q]
         /\ sel'[r].status = sel[r].status /\ sel'[r].item = sel[r].item
         /\ sel'[r].group = sel[r].group /\ sel'[r].result = n
<1> DEFINE e == [sel[r] EXCEPT !.result = n]
<1>1. sel[r] \in Entry
  BY SelDomain
<1>2. e \in Entry /\ e.status = sel[r].status /\ e.item = sel[r].item /\ e.group = sel[r].group
      /\ e.result = n
  BY <1>1 DEF Entry
<1>3. sel' = [sel EXCEPT ![r] = e]
  OBVIOUS
<1>4. sel \in Seq(Entry)
  BY DEF TypeOK
<1> HIDE DEF e
<1>5. QED
  BY <1>2, <1>3, <1>4, Updated

LEMMA SetWithResult ==
  ASSUME TypeOK, NEW r \in DOMAIN sel, NEW n \in 0..MaxRuns, sel' = WithResult(r, n)
  PROVE  /\ sel' \in Seq(Entry) /\ DOMAIN sel' = DOMAIN sel /\ Len(sel') = Len(sel)
         /\ \A q \in DOMAIN sel : q # r => sel'[q] = sel[q]
         /\ sel'[r].status = "TERMINATED" /\ sel'[r].item = sel[r].item
         /\ sel'[r].group = sel[r].group /\ sel'[r].result = n
<1> DEFINE e == [sel[r] EXCEPT !.status = "TERMINATED", !.result = n]
<1>1. sel[r] \in Entry
  BY SelDomain
<1>2. e \in Entry /\ e.status = "TERMINATED" /\ e.item = sel[r].item /\ e.group = sel[r].group
      /\ e.result = n
  BY <1>1 DEF Entry, CaseStatus
<1>3. sel' = [sel EXCEPT ![r] = e]
  BY DEF WithResult
<1>4. sel \in Seq(Entry)
  BY DEF TypeOK
<1> HIDE DEF e
<1>5. QED
  BY <1>2, <1>3, <1>4, Updated

----------------------------------------------------------------------------
(* What is on its way between the engine and the TMCs.                     *)

SameTraffic(q) ==
  /\ exe'[q] = exe[q] /\ going'[q] = going[q]
  /\ NoRet(q)' <=> NoRet(q)
  /\ \A r : OneRet(q, r)' <=> OneRet(q, r)

LEMMA TrafficKept ==
  ASSUME NEW q, SameTraffic(q)
  PROVE  /\ Quiet(q)' <=> Quiet(q)
         /\ \A r : With(q, r)' <=> With(q, r)
BY DEF SameTraffic, Quiet, With

LEMMA TrafficUnchanged ==
  ASSUME exe' = exe, going' = going, inbox' = inbox
  PROVE  \A q : SameTraffic(q)
BY DEF SameTraffic, NoRet, OneRet, IsRet

(* A TMC has at most one case, and not when it is quiet.                   *)
LEMMA WithOne ==
  ASSUME NEW p, NEW r, With(p, r)
  PROVE  /\ ~Quiet(p)
         /\ exe[p] # <<>> => exe[p] = <<r>> /\ going[p] = {} /\ NoRet(p)
         /\ going[p] # {} => exe[p] = <<>> /\ going[p] = {r} /\ NoRet(p)
         /\ ~NoRet(p) => exe[p] = <<>> /\ going[p] = {} /\ OneRet(p, r)
<1>1. OneRet(p, r) => ~NoRet(p)
  BY DEF OneRet, NoRet
<1>2. <<r>> # <<>> /\ {r} # {}
  OBVIOUS
<1>3. QED
  BY <1>1, <1>2 DEF With, Quiet

LEMMA WithOnly ==
  ASSUME NEW p, NEW r, NEW q, With(p, r), With(p, q)
  PROVE  q = r
<1>1. OneRet(p, r) /\ OneRet(p, q) => q = r
  BY DEF OneRet
<1>2. OneRet(p, r) => ~NoRet(p)
  BY DEF OneRet, NoRet
<1>3. OneRet(p, q) => ~NoRet(p)
  BY DEF OneRet, NoRet
<1>4. (<<r>> = <<q>> => q = r) /\ ({r} = {q} => q = r) /\ <<r>> # <<>> /\ <<q>> # <<>>
      /\ {r} # {} /\ {q} # {}
  OBVIOUS
<1>5. CASE exe[p] = <<r>>
  BY <1>4, <1>5 DEF With
<1>6. CASE going[p] = {r}
  BY <1>4, <1>6 DEF With
<1>7. CASE OneRet(p, r)
  BY <1>1, <1>2, <1>7 DEF With
<1>8. QED
  BY <1>5, <1>6, <1>7 DEF With

(* A message is added to the inbox.                                        *)
LEMMA InboxAppended ==
  ASSUME TypeOK, NEW m \in Message, inbox' = Append(inbox, m), NEW q
  PROVE  /\ ~(m.type = "ret" /\ m.pid = q) =>
              (NoRet(q)' <=> NoRet(q)) /\ \A r : OneRet(q, r)' <=> OneRet(q, r)
         /\ m.type = "ret" /\ m.pid = q /\ NoRet(q) => OneRet(q, m.run)'
<1>0. PICK n : n = Len(inbox) + 1
  OBVIOUS
<1>1. /\ DOMAIN inbox' = DOMAIN inbox \cup {n} /\ n \notin DOMAIN inbox
      /\ \A k \in DOMAIN inbox : inbox'[k] = inbox[k]
      /\ inbox'[n] = m
  BY <1>0, AppendIndexed DEF TypeOK
<1>2. \A k \in DOMAIN inbox : IsRet(k, q)' <=> IsRet(k, q)
  BY <1>1 DEF IsRet
<1>3. IsRet(n, q)' <=> m.type = "ret" /\ m.pid = q
  BY <1>1 DEF IsRet
<1>4. ASSUME ~(m.type = "ret" /\ m.pid = q)
      PROVE  (NoRet(q)' <=> NoRet(q)) /\ \A r : OneRet(q, r)' <=> OneRet(q, r)
  <2>1. \A k \in DOMAIN inbox' : IsRet(k, q)' => k \in DOMAIN inbox /\ IsRet(k, q)
    BY <1>1, <1>2, <1>3, <1>4
  <2>2. \A k \in DOMAIN inbox : k \in DOMAIN inbox'
    BY <1>1
  <2>3. NoRet(q)' <=> NoRet(q)
    BY <2>1, <2>2, <1>2 DEF NoRet
  <2>4. ASSUME NEW r PROVE OneRet(q, r)' <=> OneRet(q, r)
    BY <2>1, <2>2, <1>1, <1>2 DEF OneRet
  <2>5. QED
    BY <2>3, <2>4
<1>5. ASSUME m.type = "ret", m.pid = q, NoRet(q) PROVE OneRet(q, m.run)'
  <2>1. \A k \in DOMAIN inbox' : IsRet(k, q)' => k = n
    BY <1>1, <1>2, <1>5 DEF NoRet
  <2>2. n \in DOMAIN inbox' /\ IsRet(n, q)' /\ inbox'[n].run = m.run
    BY <1>1, <1>3, <1>5
  <2>3. QED
    BY <2>1, <2>2 DEF OneRet
<1>6. QED
  BY <1>4, <1>5

(* The oldest message is taken from the inbox.                             *)
LEMMA InboxTaken ==
  ASSUME TypeOK, inbox # <<>>, inbox' = Tail(inbox), NEW q
  PROVE  /\ ~(Head(inbox).type = "ret" /\ Head(inbox).pid = q) =>
              (NoRet(q)' <=> NoRet(q)) /\ \A r : OneRet(q, r)' <=> OneRet(q, r)
         /\ Head(inbox).type = "ret" /\ Head(inbox).pid = q =>
              ~NoRet(q) /\ \A r : OneRet(q, r) => r = Head(inbox).run /\ NoRet(q)'
<1>1. /\ 1 \in DOMAIN inbox /\ Head(inbox) = inbox[1]
      /\ \A k \in DOMAIN inbox' : k \in Nat /\ k + 1 \in DOMAIN inbox /\ k + 1 # 1 /\ inbox'[k] = inbox[k + 1]
      /\ \A k \in DOMAIN inbox :
           k \in Nat /\ k >= 1 /\ (k # 1 => k - 1 \in DOMAIN inbox' /\ inbox'[k - 1] = inbox[k])
  BY TailIndexed DEF TypeOK
<1>2. \A k \in DOMAIN inbox' : IsRet(k, q)' <=> IsRet(k + 1, q)
  BY <1>1 DEF IsRet
<1>3. \A k \in DOMAIN inbox : k # 1 => (IsRet(k - 1, q)' <=> IsRet(k, q))
  BY <1>1 DEF IsRet
<1>4. IsRet(1, q) <=> Head(inbox).type = "ret" /\ Head(inbox).pid = q
  BY <1>1 DEF IsRet
<1>5. ASSUME ~(Head(inbox).type = "ret" /\ Head(inbox).pid = q)
      PROVE  (NoRet(q)' <=> NoRet(q)) /\ \A r : OneRet(q, r)' <=> OneRet(q, r)
  <2>1. NoRet(q)' <=> NoRet(q)
    BY <1>1, <1>2, <1>3, <1>4, <1>5 DEF NoRet
  <2>2. ASSUME NEW r, OneRet(q, r) PROVE OneRet(q, r)'
    <3>1. PICK k \in DOMAIN inbox : /\ IsRet(k, q) /\ inbox[k].run = r
                                    /\ \A j \in DOMAIN inbox : IsRet(j, q) => j = k
      BY <2>2 DEF OneRet
    <3>2. k # 1 /\ k - 1 \in DOMAIN inbox' /\ inbox'[k - 1].run = r /\ IsRet(k - 1, q)'
      BY <1>1, <1>3, <1>4, <1>5, <3>1
    <3>3. ASSUME NEW j \in DOMAIN inbox', IsRet(j, q)' PROVE j = k - 1
      <4>1. j + 1 = k /\ j \in Nat
        BY <1>1, <1>2, <3>1, <3>3
      <4>2. QED
        BY <4>1
    <3>4. QED
      BY <3>2, <3>3 DEF OneRet
  <2>3. ASSUME NEW r, OneRet(q, r)' PROVE OneRet(q, r)
    <3>1. PICK k \in DOMAIN inbox' : /\ IsRet(k, q)' /\ inbox'[k].run = r
                                     /\ \A j \in DOMAIN inbox' : IsRet(j, q)' => j = k
      BY <2>3 DEF OneRet
    <3>2. k + 1 \in DOMAIN inbox /\ inbox[k + 1].run = r /\ IsRet(k + 1, q)
      BY <1>1, <1>2, <3>1
    <3>3. ASSUME NEW j \in DOMAIN inbox, IsRet(j, q) PROVE j = k + 1
      <4>1. j # 1 /\ j - 1 = k /\ j \in Nat
        BY <1>1, <1>3, <1>4, <1>5, <3>1, <3>3
      <4>2. QED
        BY <4>1
    <3>4. QED
      BY <3>2, <3>3 DEF OneRet
  <2>4. QED
    BY <2>1, <2>2, <2>3
<1>6. ASSUME Head(inbox).type = "ret", Head(inbox).pid = q
      PROVE  ~NoRet(q) /\ \A r : OneRet(q, r) => r = Head(inbox).run /\ NoRet(q)'
  <2>1. ~NoRet(q)
    BY <1>1, <1>4, <1>6 DEF NoRet
  <2>2. ASSUME NEW r, OneRet(q, r) PROVE r = Head(inbox).run /\ NoRet(q)'
    <3>1. inbox[1].run = r /\ \A j \in DOMAIN inbox : IsRet(j, q) => j = 1
      BY <1>1, <1>4, <1>6, <2>2 DEF OneRet
    <3>2. QED
      BY <1>1, <1>2, <3>1 DEF NoRet
  <2>3. QED
    BY <2>1, <2>2
<1>7. QED
  BY <1>5, <1>6

(* The item of a case that is executed.                                    *)
LEMMA ActiveItem ==
  ASSUME TypeOK, PidInv, RunInv, NEW q \in DOMAIN sel, Active(q), NEW j, j = sel[q].item
  PROVE  /\ j \in Item /\ mod[j] \in {"BUSY", "BUSY_TEMP"} /\ Listed(j)
         /\ pid[j] \in Pid /\ pid[j] # 0
<1>1. j \in Item
  BY SelDomain
<1>2. RunOk(q)
  BY DEF RunInv
<1>3. mod[j] \in {"BUSY", "BUSY_TEMP"}
  BY <1>2 DEF RunOk
<1>4. Listed(j)
  BY <1>3 DEF Listed
<1>5. pid[j] \in Pid /\ pid[j] # 0
  BY <1>1, <1>4, ByPidOne
<1>6. QED
  BY <1>1, <1>3, <1>4, <1>5

----------------------------------------------------------------------------
(* Steps that neither start a case nor bring its result.                   *)

SameEntries ==
  /\ DOMAIN sel' = DOMAIN sel
  /\ \A r \in DOMAIN sel :
       /\ sel'[r].item = sel[r].item /\ sel'[r].result = sel[r].result
       /\ sel'[r].status = "IDLE" <=> sel[r].status = "IDLE"
       /\ sel'[r].status = "TERMINATED" <=> sel[r].status = "TERMINATED"
       /\ sel'[r].status \in {"ONGOING", "PAUSED"} <=> sel[r].status \in {"ONGOING", "PAUSED"}

SameModules ==
  /\ \A i \in Item : \A v \in {"absent", "NOT_STARTED", "INITIALIZED_TEMP", "BUSY", "BUSY_TEMP"} :
       mod'[i] = v <=> mod[i] = v
  /\ \A a \in Temp : mod'[a] = "removed" <=> mod[a] = "removed"

SameTask ==
  \A p \in Pid : /\ Quiet(p) => Quiet(p)'
                 /\ \A r : With(p, r) => With(p, r)'

SameHand ==
  /\ Hand'.pc \in {"credit", "tempfind", "tempend"} <=> Hand.pc \in {"credit", "tempfind", "tempend"}
  /\ Hand.pc \in {"credit", "tempfind", "tempend"} =>
       /\ Hand'.from = Hand.from /\ Hand'.ret = Hand.ret
       /\ Hand'.pc = "credit" <=> Hand.pc = "credit"

LEMMA ActiveSame ==
  ASSUME SameEntries, SameModules, carried' = carried, NEW r \in DOMAIN sel
  PROVE  (Active(r)' <=> Active(r)) /\ (Past(r)' <=> Past(r))
<1>1. Past(r)' <=> Past(r)
  BY DEF SameEntries, SameModules, Past
<1>2. QED
  BY <1>1 DEF SameEntries, Active

LEMMA TempInvKept ==
  ASSUME TypeOK, TempInv, SameEntries, SameModules, carried' = carried
  PROVE  TempInv'
<1> SUFFICES ASSUME NEW a \in Temp
             PROVE  /\ mod'[a] # "absent" => carried'[a] \in DOMAIN sel'
                    /\ mod'[a] = "INITIALIZED_TEMP" =>
                         sel'[carried'[a]].item = a /\ sel'[carried'[a]].status = "IDLE"
  BY DEF TempInv
<1>1. a \in Item
  BY DEF Item
<1>2. (mod'[a] = "absent" <=> mod[a] = "absent")
      /\ (mod'[a] = "INITIALIZED_TEMP" <=> mod[a] = "INITIALIZED_TEMP")
  BY <1>1 DEF SameModules
<1>3. mod[a] # "absent" => carried[a] \in DOMAIN sel
  BY DEF TempInv
<1>4. mod[a] = "INITIALIZED_TEMP" => sel[carried[a]].item = a /\ sel[carried[a]].status = "IDLE"
  BY DEF TempInv
<1>5. QED
  BY <1>2, <1>3, <1>4 DEF SameEntries

LEMMA RunInvKept ==
  ASSUME TypeOK, PidInv, RunInv, SameEntries, SameModules, SameTask, SameHand,
         pid' = pid, carried' = carried
  PROVE  RunInv'
<1>1. ASSUME NEW r \in DOMAIN sel PROVE RunOk(r)'
  <2>1. PICK i : i = sel[r].item
    OBVIOUS
  <2>2. i \in Item /\ sel'[r].item = i
    BY <2>1, SelDomain DEF SameEntries
  <2>3. \A v \in {"absent", "NOT_STARTED", "INITIALIZED_TEMP", "BUSY", "BUSY_TEMP"} :
          mod'[i] = v <=> mod[i] = v
    BY <2>2 DEF SameModules
  <2>4. PICK p : p = pid[i]
    OBVIOUS
  <2>5. Active(r) => (Quiet(p) => Quiet(p)') /\ (With(p, r) => With(p, r)')
    <3>1. Active(r) => p \in Pid
      BY <2>1, <2>4, ActiveItem
    <3>2. QED
      BY <3>1 DEF SameTask
  <2>6. (Handing(p)' <=> Handing(p)) /\ (Handing(p) => Hand'.ret = Hand.ret /\ (Hand'.pc = "credit" <=> Hand.pc = "credit"))
    BY DEF SameHand, Handing
  <2>7. /\ sel'[r].result = sel[r].result
        /\ sel'[r].status = "IDLE" <=> sel[r].status = "IDLE"
        /\ sel'[r].status = "TERMINATED" <=> sel[r].status = "TERMINATED"
    BY DEF SameEntries
  <2>8. RunOk(r)
    BY DEF RunInv
  <2>9. /\ Past(r)' => sel'[r].result = r /\ sel'[r].status # "IDLE"
        /\ i \in Temp /\ ~Past(r)' => mod'[i] \notin {"absent", "NOT_STARTED"}
    BY <2>1, <2>3, <2>7, <2>8, ActiveSame DEF RunOk
  <2>10. sel'[r].status = "IDLE" => sel'[r].result = 0 /\ (i \in Temp => mod'[i] = "INITIALIZED_TEMP")
    BY <2>1, <2>3, <2>7, <2>8 DEF RunOk
  <2>11. ASSUME Active(r)'
         PROVE  /\ mod'[i] \in {"BUSY", "BUSY_TEMP"}
                /\ \/ With(p, r)' /\ sel'[r].result = 0 /\ ~Handing(p)'
                   \/ /\ Quiet(p)' /\ Handing(p)' /\ Hand'.ret = r
                      /\ IF Hand'.pc = "credit" THEN i \in Module /\ sel'[r].result = 0
                         ELSE i \in Temp /\ sel'[r].result = r
    <3>1. Active(r)
      BY <2>11, ActiveSame
    <3>2. /\ mod[i] \in {"BUSY", "BUSY_TEMP"}
          /\ \/ With(p, r) /\ sel[r].result = 0 /\ ~Handing(p)
             \/ /\ Quiet(p) /\ Handing(p) /\ Hand.ret = r
                /\ IF Hand.pc = "credit" THEN i \in Module /\ sel[r].result = 0
                   ELSE i \in Temp /\ sel[r].result = r
      BY <2>1, <2>4, <2>8, <3>1 DEF RunOk
    <3>3. QED
      BY <3>1, <3>2, <2>3, <2>5, <2>6, <2>7
  <2>12. sel'[r].status = "TERMINATED" => sel'[r].result = r
    BY <2>7, <2>8 DEF RunOk
  <2>13. pid'[sel'[r].item] = p
    BY <2>2, <2>4
  <2>14. QED
    BY <2>2, <2>9, <2>10, <2>11, <2>12, <2>13 DEF RunOk
<1>2. ASSUME NEW q \in DOMAIN sel, NEW r \in DOMAIN sel, Active(q)', Active(r)',
             sel'[q].item = sel'[r].item
      PROVE  q = r
  <2>1. Active(q) /\ Active(r) /\ sel[q].item = sel[r].item
    BY <1>2, ActiveSame DEF SameEntries
  <2>2. QED
    BY <2>1 DEF RunInv
<1>3. ASSUME NEW m \in Module, mod'[m] = "BUSY" PROVE \E r \in DOMAIN sel : Active(r)' /\ sel'[r].item = m
  <2>1. mod[m] = "BUSY"
    BY <1>3 DEF SameModules, Item
  <2>2. PICK r \in DOMAIN sel : Active(r) /\ sel[r].item = m
    BY <2>1 DEF RunInv
  <2>3. Active(r)' /\ sel'[r].item = m
    BY <2>2, ActiveSame DEF SameEntries
  <2>4. QED
    BY <2>3
<1>4. DOMAIN sel' = DOMAIN sel
  BY DEF SameEntries
<1>5. QED
  BY <1>1, <1>2, <1>3, <1>4 DEF RunInv

LEMMA WorkInvKept ==
  ASSUME TypeOK, WorkInv, SameEntries, SameModules, SameTask, UNCHANGED <<pid, carried>>
  PROVE  WorkInv'
<1> SUFFICES ASSUME NEW p \in Pid
             PROVE  Quiet(p)' \/ \E r \in DOMAIN sel' : Active(r)' /\ pid'[sel'[r].item] = p /\ With(p, r)'
  BY DEF WorkInv
<1>1. CASE Quiet(p)
  BY <1>1 DEF SameTask
<1>2. CASE ~Quiet(p)
  <2>1. PICK r \in DOMAIN sel : Active(r) /\ pid[sel[r].item] = p /\ With(p, r)
    BY <1>2 DEF WorkInv
  <2>2. r \in DOMAIN sel' /\ Active(r)' /\ pid'[sel'[r].item] = p /\ With(p, r)'
    BY <2>1, ActiveSame DEF SameEntries, SameTask
  <2>3. QED
    BY <2>2
<1>3. QED
  BY <1>1, <1>2

----------------------------------------------------------------------------
(* The threads.                                                            *)

LEMMA OthersIdle ==
  ASSUME NEW t \in Thread, Alone(t)
  PROVE  \A u \in Thread : u # t => at[u].pc = "idle"
BY DEF Alone

LEMMA AtStep ==
  ASSUME TypeOK, NEW t \in Thread, NEW place \in Place, Goto(t, place)
  PROVE  /\ at' \in [Thread -> Place] /\ at'[t] = place
         /\ \A u \in Thread : u # t => at'[u] = at[u]
BY DEF TypeOK, Goto

LEMMA PlacesOk ==
  ASSUME NEW t \in Thread, \A u \in Thread : u # t => at'[u].pc = "idle", PlaceOk(t)'
  PROVE  /\ \A u \in Thread : PlaceOk(u)'
         /\ at'["listener"].pc = "idle" \/ at'["user"].pc = "idle"
<1>1. ASSUME NEW u \in Thread, u # t PROVE PlaceOk(u)'
  <2>1. at'[u].pc = "idle"
    BY <1>1
  <2>2. QED
    BY <2>1 DEF PlaceOk
<1>2. at'["listener"].pc = "idle" \/ at'["user"].pc = "idle"
  BY DEF Thread
<1>3. QED
  BY <1>1, <1>2

LEMMA PidInvKept ==
  ASSUME PidInv, mod' = mod, pid' = pid, forked' = forked
  PROVE  PidInv'
BY DEF PidInv

LEMMA CountInvKept ==
  ASSUME CountInv, UNCHANGED <<plugin, mod, sel, todo, cli>>
  PROVE  CountInv'
BY DEF CountInv, Awaited, WithResults

LEMMA ThreadsKept ==
  ASSUME ThreadInv, UNCHANGED <<plugin, mod, pid, carried, sel, at, todo>>
  PROVE  ThreadInv'
<1>1. ASSUME NEW t \in Thread PROVE PlaceOk(t)'
  <2>1. PlaceOk(t)
    BY DEF ThreadInv
  <2>2. \A r : (Active(r)' <=> Active(r)) /\ (Past(r)' <=> Past(r))
    BY DEF Active, Past
  <2>3. QED
    BY <2>1, <2>2 DEF PlaceOk
<1>2. QED
  BY <1>1 DEF ThreadInv

LEMMA GroupsKept ==
  ASSUME GroupInv, UNCHANGED <<plugin, mod, carried, sel, at, todo>>
  PROVE  GroupInv'
BY DEF GroupInv, GroupIs, OneByOne, NothingGoing, Starts, Hand, Active, Past

(* A step of a thread that changes nothing but where it is.                *)
LEMMA PlaceStep ==
  ASSUME IInv, NEW t \in Thread, Alone(t), NEW place \in Place, Goto(t, place),
         UNCHANGED <<plugin, mod, pid, carried, sel, forked, inbox, todo, tmc, exe, going, cli>>,
         SameHand, PlaceOk(t)',
         t = "user" => plugin = "console",
         plugin = "cli" /\ Starts(place) /\ GroupIs(1) /\ OneByOne => NothingGoing
  PROVE  IInv'
<1>1. TypeOK /\ PidInv /\ TempInv /\ RunInv /\ WorkInv /\ ThreadInv /\ GroupInv /\ CountInv
  BY DEF IInv
<1>2. /\ at' \in [Thread -> Place] /\ at'[t] = place
      /\ \A u \in Thread : u # t => at'[u] = at[u]
  BY <1>1, AtStep
<1>3. SameEntries /\ SameModules
  BY DEF SameEntries, SameModules
<1>4. SameTask
  BY TrafficUnchanged, TrafficKept DEF SameTask
<1>5. TypeOK'
  BY <1>1, <1>2 DEF TypeOK, Listed
<1>6. PidInv' /\ TempInv' /\ RunInv' /\ WorkInv' /\ CountInv'
  BY <1>1, <1>3, <1>4, PidInvKept, TempInvKept, RunInvKept, WorkInvKept, CountInvKept
<1>7. ThreadInv'
  <2>1. \A u \in Thread : u # t => at'[u].pc = "idle"
    BY <1>2, OthersIdle
  <2>2. (\A u \in Thread : PlaceOk(u)') /\ (at'["listener"].pc = "idle" \/ at'["user"].pc = "idle")
    BY <2>1, PlacesOk
  <2>3. plugin = "cli" => at'["user"].pc = "idle" /\ todo["user"] = <<>>
    BY <1>1, <2>1 DEF ThreadInv, Thread
  <2>4. QED
    BY <1>1, <2>2, <2>3 DEF ThreadInv
<1>8. GroupInv'
  <2> SUFFICES ASSUME plugin = "cli" PROVE \E g \in {0, 1} : GroupIs(g)' /\ (g # 0 => OneByOne')
    BY DEF GroupInv
  <2>1. PICK g \in {0, 1} : GroupIs(g) /\ (g # 0 => OneByOne)
    BY <1>1 DEF GroupInv
  <2>2. GroupIs(g)'
    BY <2>1 DEF GroupIs
  <2>3. ASSUME g # 0 PROVE OneByOne'
    <3>1. g = 1 /\ GroupIs(1) /\ OneByOne
      BY <2>1, <2>3
    <3>2. t = "listener" /\ Hand' = place
      BY <1>2 DEF Hand, Thread
    <3>3. NothingGoing' <=> NothingGoing
      BY DEF NothingGoing, Active, Past
    <3>4. Starts(Hand)' => NothingGoing'
      BY <3>1, <3>2, <3>3 DEF Starts
    <3>5. QED
      BY <3>1, <3>4 DEF OneByOne, Active, Past
  <2>4. QED
    BY <2>2, <2>3
<1>9. QED
  BY <1>5, <1>6, <1>7, <1>8 DEF IInv

----------------------------------------------------------------------------
(* The steps of eapi_start_test_case.                                      *)

(* With the CLI there is nothing the user's thread starts.                 *)
LEMMA UserHasConsole ==
  ASSUME IInv, at["user"].pc # "idle" \/ todo["user"] # <<>>
  PROVE  plugin = "console"
BY TestEngineAssumption DEF IInv, ThreadInv, TypeOK

LEMMA PlaceRange ==
  ASSUME TypeOK, NEW t \in Thread
  PROVE  /\ at[t] \in Place /\ at[t].pc \in Step /\ at[t].r \in 0..MaxRuns /\ at[t].ret \in 0..MaxRuns
         /\ at[t].from \in Pid \cup {0}
BY DEF TypeOK, Place

LEMMA Fields ==
  /\ Idle \in Place
  /\ \A b \in BOOLEAN : [Idle EXCEPT !.pc = "select", !.go = b] \in Place
  /\ \A r \in 0..MaxRuns : /\ [Idle EXCEPT !.pc = "exec", !.r = r] \in Place
                           /\ [Idle EXCEPT !.pc = "pause", !.r = r] \in Place
                           /\ [Idle EXCEPT !.pc = "resume", !.r = r] \in Place
  /\ \A l \in Place, v \in ModuleStatus : [l EXCEPT !.pc = "act", !.seen = v] \in Place
  /\ \A l \in Place, p \in Pid : [l EXCEPT !.pc = "settemp", !.from = p] \in Place
  /\ \A l \in Place : [l EXCEPT !.pc = "next"] \in Place
  /\ \A l \in Place, r \in 0..MaxRuns : /\ [l EXCEPT !.pc = "tempend", !.r = r] \in Place
                                        /\ [l EXCEPT !.pc = "next", !.r = r] \in Place
  /\ \A p \in Pid, n \in 0..MaxRuns : [Idle EXCEPT !.pc = "tempfind", !.from = p, !.ret = n] \in Place
  /\ \A p \in Pid, n, r \in 0..MaxRuns :
       [Idle EXCEPT !.pc = "credit", !.from = p, !.ret = n, !.r = r] \in Place
<1>1. Idle \in Place
  BY IdlePlace
<1>2. QED
  BY <1>1 DEF Place, Step

LEMMA CheckGroupStep ==
  ASSUME IInv, NEW t \in Thread, Alone(t), CheckGroup(t), UNCHANGED <<plugin, cli>>
  PROVE  IInv'
<1>1. TypeOK /\ ThreadInv
  BY DEF IInv
<1>2. PICK g : g = Head(todo[t])[2]
  OBVIOUS
<1>3. PICK go \in BOOLEAN : go = ~InUse(g)
  OBVIOUS
<1>4. PICK place \in Place : place = [Idle EXCEPT !.pc = "select", !.go = go]
  BY Fields
<1>5. Goto(t, place) /\ at[t].pc = "idle" /\ todo[t] # <<>>
      /\ UNCHANGED <<mod, pid, carried, sel, forked, inbox, todo, tmc, exe, going>>
  BY <1>2, <1>3, <1>4 DEF CheckGroup, tmcVars
<1>6. /\ at' \in [Thread -> Place] /\ at'[t] = place /\ \A u \in Thread : u # t => at'[u] = at[u]
  BY <1>1, <1>5, AtStep
<1>7. place.pc = "select" /\ place.go = go
  BY <1>4 DEF Idle
<1>8. SameHand
  BY <1>5, <1>6, <1>7 DEF SameHand, Hand, Thread
<1>9. PlaceOk(t)'
  BY <1>5, <1>6, <1>7 DEF PlaceOk
<1>10. t = "user" => plugin = "console"
  BY <1>5, UserHasConsole
<1>11. ASSUME plugin = "cli", Starts(place), GroupIs(1), OneByOne PROVE NothingGoing
  <2>1. t = "listener" /\ go
    BY <1>7, <1>10, <1>11 DEF Starts, Thread
  <2>2. g = 1
    <3>1. todo["listener"] \in Seq(Case \X Nat) /\ todo["listener"] # <<>>
      BY <1>1, <1>5, <2>1 DEF TypeOK, Thread
    <3>2. 1 \in DOMAIN todo["listener"] /\ Head(todo["listener"]) = todo["listener"][1]
      BY <3>1
    <3>3. QED
      BY <1>2, <2>1, <3>2, <1>11 DEF GroupIs
  <2>3. \A r \in DOMAIN sel : sel[r].group = 1
    BY <1>11 DEF GroupIs
  <2>4. ~InUse(g)
    BY <1>3, <2>1
  <2>5. \A r \in DOMAIN sel : ~(sel[r].status \in {"ONGOING", "PAUSED"})
    BY <2>2, <2>3, <2>4 DEF InUse
  <2>6. QED
    BY <2>5 DEF NothingGoing, Active
<1>12. QED
  BY <1>5, <1>8, <1>9, <1>10, <1>11, PlaceStep

LEMMA ReadStatusStep ==
  ASSUME IInv, NEW t \in Thread, Alone(t), ReadStatus(t), UNCHANGED <<plugin, cli>>
  PROVE  IInv'
<1>1. TypeOK /\ ThreadInv
  BY DEF IInv
<1>2. at[t].pc = "exec" /\ PlaceOk(t)
  BY <1>1 DEF ReadStatus, ThreadInv
<1>3. PICK i : i = sel[at[t].r].item
  OBVIOUS
<1>4. mod[i] \in ModuleStatus
  BY <1>1, <1>2, <1>3, SelDomain DEF PlaceOk, TypeOK
<1>5. PICK place \in Place : place = [at[t] EXCEPT !.pc = "act", !.seen = mod[i]]
  BY <1>1, <1>4, Fields, PlaceRange
<1>6. Goto(t, place) /\ UNCHANGED <<mod, pid, carried, sel, forked, inbox, todo, tmc, exe, going>>
  BY <1>3, <1>5 DEF ReadStatus, tmcVars
<1>7. /\ at' \in [Thread -> Place] /\ at'[t] = place /\ \A u \in Thread : u # t => at'[u] = at[u]
  BY <1>1, <1>6, AtStep
<1>8. at[t] \in Place
  BY <1>1, PlaceRange
<1>9. place.pc = "act" /\ place.seen = mod[i] /\ place.r = at[t].r
  BY <1>5, <1>8 DEF Place
<1>10. SameHand
  BY <1>2, <1>7, <1>9 DEF SameHand, Hand, Thread
<1>11. PlaceOk(t)'
  BY <1>2, <1>3, <1>6, <1>7, <1>9 DEF PlaceOk
<1>12. t = "user" => plugin = "console"
  BY <1>2, UserHasConsole
<1>13. plugin = "cli" /\ OneByOne => NothingGoing
  BY <1>2, <1>12 DEF OneByOne, Starts, Hand, Thread
<1>14. QED
  BY <1>6, <1>10, <1>11, <1>12, <1>13, PlaceStep

LEMMA IdleStep ==
  ASSUME IInv, NEW t \in Thread, Alone(t), Goto(t, Idle),
         at[t].pc \notin {"credit", "tempfind", "tempend"},
         t = "user" => plugin = "console",
         UNCHANGED <<plugin, mod, pid, carried, sel, forked, inbox, todo, tmc, exe, going, cli>>
  PROVE  IInv'
<1>1. TypeOK
  BY DEF IInv
<1>2. Idle \in Place /\ Idle.pc = "idle"
  BY IdlePlace
<1>3. at'[t] = Idle /\ \A u \in Thread : u # t => at'[u] = at[u]
  BY <1>1, <1>2, AtStep
<1>4. SameHand
  BY <1>2, <1>3 DEF SameHand, Hand, Thread
<1>5. PlaceOk(t)'
  BY <1>2, <1>3 DEF PlaceOk
<1>6. ~Starts(Idle)
  BY <1>2 DEF Starts
<1>7. QED
  BY <1>2, <1>4, <1>5, <1>6, PlaceStep

LEMMA StatusFaultStep ==
  ASSUME IInv, NEW t \in Thread, Alone(t), StatusFault(t), UNCHANGED <<plugin, cli>>
  PROVE  IInv'
<1>1. at[t].pc = "act" /\ Goto(t, Idle)
      /\ UNCHANGED <<mod, pid, carried, sel, forked, inbox, todo, tmc, exe, going>>
  BY DEF StatusFault, tmcVars
<1>2. t = "user" => plugin = "console"
  BY <1>1, UserHasConsole
<1>3. QED
  BY <1>1, <1>2, IdleStep

(* A case that a step is not about.                                        *)
LEMMA RunOkKept ==
  ASSUME NEW r, RunOk(r), NEW i, i = sel[r].item, NEW p, p = pid[i], sel'[r] = sel[r],
         Past(r)' <=> Past(r),
         i \in Temp /\ ~Past(r) =>
           (mod'[i] \in {"absent", "NOT_STARTED"} => mod[i] \in {"absent", "NOT_STARTED"}),
         sel[r].status = "IDLE" /\ i \in Temp /\ mod[i] = "INITIALIZED_TEMP" =>
           mod'[i] = "INITIALIZED_TEMP",
         Active(r) => /\ pid'[i] = p /\ mod'[i] = mod[i]
                      /\ Quiet(p) => Quiet(p)'
                      /\ With(p, r) => With(p, r)'
                      /\ Handing(p)' <=> Handing(p)
                      /\ Handing(p) => /\ Hand'.ret = Hand.ret
                                       /\ Hand'.pc = "credit" <=> Hand.pc = "credit"
  PROVE  RunOk(r)' /\ (Active(r)' <=> Active(r))
<1>1. Active(r)' <=> Active(r)
  BY DEF Active
<1>2. sel'[r].item = i /\ sel'[r].result = sel[r].result /\ sel'[r].status = sel[r].status
  OBVIOUS
<1>3. /\ Past(r)' => sel'[r].result = r /\ sel'[r].status # "IDLE"
      /\ i \in Temp /\ ~Past(r)' => mod'[i] \notin {"absent", "NOT_STARTED"}
  BY <1>2 DEF RunOk
<1>4. sel'[r].status = "IDLE" => sel'[r].result = 0 /\ (i \in Temp => mod'[i] = "INITIALIZED_TEMP")
  BY <1>2 DEF RunOk
<1>5. sel'[r].status = "TERMINATED" => sel'[r].result = r
  BY <1>2 DEF RunOk
<1>6. ASSUME Active(r)
      PROVE  /\ pid'[i] = p
             /\ mod'[i] \in {"BUSY", "BUSY_TEMP"}
             /\ \/ With(p, r)' /\ sel'[r].result = 0 /\ ~Handing(p)'
                \/ /\ Quiet(p)' /\ Handing(p)' /\ Hand'.ret = r
                   /\ IF Hand'.pc = "credit" THEN i \in Module /\ sel'[r].result = 0
                      ELSE i \in Temp /\ sel'[r].result = r
  <2>1. /\ mod[i] \in {"BUSY", "BUSY_TEMP"}
        /\ \/ With(p, r) /\ sel[r].result = 0 /\ ~Handing(p)
           \/ /\ Quiet(p) /\ Handing(p) /\ Hand.ret = r
              /\ IF Hand.pc = "credit" THEN i \in Module /\ sel[r].result = 0
                 ELSE i \in Temp /\ sel[r].result = r
    BY <1>6 DEF RunOk
  <2>2. QED
    BY <1>2, <1>6, <2>1
<1>7. pid'[sel'[r].item] = pid'[i]
  BY <1>2
<1>8. RunOk(r)'
  BY <1>1, <1>2, <1>3, <1>4, <1>5, <1>6, <1>7 DEF RunOk
<1>9. QED
  BY <1>1, <1>8

LEMMA Least ==
  ASSUME NEW a \in Nat, NEW b \in Nat, NEW c \in Nat, NEW m \in Nat, a + b + c <= m
  PROVE  a <= m /\ a \in 0..m
OBVIOUS

LEMMA SelectStep ==
  ASSUME IInv, NEW t \in Thread, Alone(t), Select(t), UNCHANGED <<plugin, cli>>
  PROVE  IInv'
<1>1. TypeOK /\ PidInv /\ TempInv /\ RunInv /\ WorkInv /\ ThreadInv /\ GroupInv /\ CountInv
  BY DEF IInv
<1>2. PICK head : head = Head(todo[t])
  OBVIOUS
<1>3. PICK entry : entry = [case |-> head[1], group |-> head[2], status |-> "IDLE",
                            item |-> ModuleOf[head[1]], known |-> FALSE, result |-> 0]
  OBVIOUS
<1>4. PICK n : n = Len(sel) + 1
  OBVIOUS
<1>5. at[t].pc = "select" /\ todo[t] # <<>> /\ todo[t] \in Seq(Case \X Nat)
  BY <1>1 DEF Select, ThreadInv, PlaceOk, TypeOK
<1>6. /\ head \in Case \X Nat /\ 1 \in DOMAIN todo[t] /\ head = todo[t][1]
      /\ Tail(todo[t]) \in Seq(Case \X Nat) /\ Len(Tail(todo[t])) = Len(todo[t]) - 1
      /\ Len(todo[t]) \in Nat /\ Len(todo[t]) > 0
      /\ \A k \in DOMAIN Tail(todo[t]) : k + 1 \in DOMAIN todo[t] /\ Tail(todo[t])[k] = todo[t][k + 1]
  BY <1>2, <1>5
<1>7. entry \in Entry /\ entry.status = "IDLE" /\ entry.item \in Module /\ entry.result = 0
      /\ entry.group = head[2]
  BY <1>3, <1>6, TestEngineAssumption DEF Entry, Item, CaseStatus
<1>8. sel' = Append(sel, entry) /\ todo' = [todo EXCEPT ![t] = Tail(@)]
      /\ UNCHANGED <<mod, pid, carried, forked, inbox, tmc, exe, going>>
  BY <1>2, <1>3 DEF Select, tmcVars
<1>9. /\ sel' \in Seq(Entry) /\ Len(sel') = n /\ DOMAIN sel' = DOMAIN sel \cup {n}
      /\ n \notin DOMAIN sel /\ sel'[n] = entry /\ \A q \in DOMAIN sel : sel'[q] = sel[q]
      /\ Len(sel) \in Nat
  BY <1>1, <1>4, <1>7, <1>8, AppendIndexed, AppendProperties DEF TypeOK
<1>10. /\ todo' \in [Thread -> Seq(Case \X Nat)] /\ todo'[t] = Tail(todo[t])
       /\ \A u \in Thread : u # t => todo'[u] = todo[u]
  BY <1>1, <1>6, <1>8 DEF TypeOK
<1>11. n + Len(todo'["listener"]) + Len(todo'["user"])
         = Len(sel) + Len(todo["listener"]) + Len(todo["user"])
  <2>1. Len(sel) \in Nat /\ Len(todo["listener"]) \in Nat /\ Len(todo["user"]) \in Nat
    BY <1>1, <1>9 DEF TypeOK, Thread
  <2>2. PICK a, b, c \in Nat : a = Len(sel) /\ b = Len(todo["listener"]) /\ c = Len(todo["user"])
    BY <2>1
  <2>3. (a + 1) + (b - 1) + c = a + b + c /\ (a + 1) + b + (c - 1) = a + b + c
    OBVIOUS
  <2>4. CASE t = "listener"
    <3>1. todo'["user"] = todo["user"]
      BY <1>10, <2>4 DEF Thread
    <3>2. Len(todo'["listener"]) = Len(todo["listener"]) - 1
      BY <1>6, <1>10, <2>4
    <3>3. QED
      BY <1>4, <2>2, <2>3, <3>1, <3>2, Zenon
  <2>5. CASE t = "user"
    <3>1. todo'["listener"] = todo["listener"]
      BY <1>10, <2>5 DEF Thread
    <3>2. Len(todo'["user"]) = Len(todo["user"]) - 1
      BY <1>6, <1>10, <2>5
    <3>3. QED
      BY <1>4, <2>2, <2>3, <3>1, <3>2, Zenon
  <2>6. QED
    BY <2>4, <2>5 DEF Thread
<1>12. n <= MaxRuns /\ n \in 1..MaxRuns /\ n \in 0..MaxRuns
  <2>1. Len(todo'["listener"]) \in Nat /\ Len(todo'["user"]) \in Nat
    BY <1>10 DEF Thread
  <2>2. n + Len(todo'["listener"]) + Len(todo'["user"]) <= MaxRuns
    BY <1>1, <1>11 DEF ThreadInv
  <2>3. MaxRuns \in Nat /\ Len(sel) \in Nat
    BY <1>9, TestEngineAssumption
  <2>4. n \in Nat /\ n >= 1
    BY <1>4, <2>3
  <2>5. n <= MaxRuns /\ n \in 0..MaxRuns
    BY <2>1, <2>2, <2>3, <2>4, Least
  <2>6. QED
    BY <2>3, <2>4, <2>5
<1>13. PICK place \in Place :
         place = IF at[t].go THEN [Idle EXCEPT !.pc = "exec", !.r = n] ELSE Idle
  BY <1>12, Fields
<1>14. Goto(t, place)
  BY <1>9, <1>13 DEF Select
<1>15. /\ at' \in [Thread -> Place] /\ at'[t] = place
       /\ \A u \in Thread : u # t => at'[u] = at[u]
  BY <1>1, <1>14, AtStep
<1>16. /\ at[t].go => place.pc = "exec" /\ place.r = n
       /\ ~at[t].go => place.pc = "idle"
  BY <1>13, IdlePlace DEF Idle
<1>17. place.pc \in {"exec", "idle"}
  BY <1>16
<1>18. t = "user" => plugin = "console"
  BY <1>5, UserHasConsole
<1>19. TypeOK'
  BY <1>1, <1>8, <1>9, <1>10, <1>12, <1>15 DEF TypeOK, Listed
<1>20. PidInv'
  BY <1>1, <1>8, PidInvKept
<1>21. TempInv'
  <2> SUFFICES ASSUME NEW a \in Temp
               PROVE  /\ mod'[a] # "absent" => carried'[a] \in DOMAIN sel'
                      /\ mod'[a] = "INITIALIZED_TEMP" =>
                           sel'[carried'[a]].item = a /\ sel'[carried'[a]].status = "IDLE"
    BY DEF TempInv
  <2>1. mod[a] # "absent" => carried[a] \in DOMAIN sel
    BY <1>1 DEF TempInv
  <2>2. mod[a] = "INITIALIZED_TEMP" => sel[carried[a]].item = a /\ sel[carried[a]].status = "IDLE"
    BY <1>1 DEF TempInv
  <2>3. mod' = mod /\ carried' = carried
    BY <1>8
  <2>4. QED
    BY <1>9, <2>1, <2>2, <2>3
<1>22. ~Handing(0) /\ \A p : (Handing(p)' <=> Handing(p)) /\ ~Handing(p)
  <2>1. Hand.pc \notin {"credit", "tempfind", "tempend"}
    BY <1>5, OthersIdle DEF Hand, Thread
  <2>2. Hand'.pc \notin {"credit", "tempfind", "tempend"}
    BY <1>15, <1>17, <2>1 DEF Hand, Thread
  <2>3. QED
    BY <2>1, <2>2 DEF Handing
<1>23. \A p : Quiet(p)' <=> Quiet(p)
  BY <1>8, TrafficUnchanged, TrafficKept
<1>24. \A p : \A r : With(p, r)' <=> With(p, r)
  BY <1>8, TrafficUnchanged, TrafficKept
<1>25. ASSUME NEW r \in DOMAIN sel PROVE RunOk(r)' /\ (Active(r)' <=> Active(r))
  <2>1. PICK i, p : i = sel[r].item /\ p = pid[i]
    OBVIOUS
  <2>2. RunOk(r) /\ sel'[r] = sel[r]
    BY <1>1, <1>9 DEF RunInv
  <2>3. mod'[i] = mod[i] /\ pid'[i] = p /\ (Past(r)' <=> Past(r))
    BY <1>8, <2>1, <2>2 DEF Past
  <2>4. QED
    BY <1>22, <1>23, <1>24, <2>1, <2>2, <2>3, RunOkKept
<1>26. ~Active(n)' /\ RunOk(n)'
  <2>1. sel'[n].item \notin Temp
    BY <1>7, <1>9, TestEngineAssumption
  <2>2. QED
    BY <1>7, <1>9, <2>1 DEF RunOk, Active, Past
<1>27. RunInv'
  <2>1. \A r \in DOMAIN sel' : RunOk(r)'
    BY <1>9, <1>25, <1>26
  <2>2. ASSUME NEW q \in DOMAIN sel', NEW r \in DOMAIN sel', Active(q)', Active(r)',
               sel'[q].item = sel'[r].item
        PROVE  q = r
    <3>1. q \in DOMAIN sel /\ r \in DOMAIN sel /\ Active(q) /\ Active(r)
      BY <1>9, <1>25, <1>26, <2>2
    <3>2. QED
      BY <1>1, <1>9, <2>2, <3>1 DEF RunInv
  <2>3. ASSUME NEW m \in Module, mod'[m] = "BUSY" PROVE \E r \in DOMAIN sel' : Active(r)' /\ sel'[r].item = m
    <3>1. PICK r \in DOMAIN sel : Active(r) /\ sel[r].item = m
      BY <1>1, <1>8, <2>3 DEF RunInv
    <3>2. r \in DOMAIN sel' /\ Active(r)' /\ sel'[r].item = m
      BY <1>9, <1>25, <3>1
    <3>3. QED
      BY <3>2
  <2>4. QED
    BY <2>1, <2>2, <2>3 DEF RunInv
<1>28. WorkInv'
  <2> SUFFICES ASSUME NEW p \in Pid
               PROVE  Quiet(p)' \/ \E r \in DOMAIN sel' : Active(r)' /\ pid'[sel'[r].item] = p /\ With(p, r)'
    BY DEF WorkInv
  <2>1. CASE Quiet(p)
    BY <1>23, <2>1
  <2>2. CASE ~Quiet(p)
    <3>1. PICK r \in DOMAIN sel : Active(r) /\ pid[sel[r].item] = p /\ With(p, r)
      BY <1>1, <2>2 DEF WorkInv
    <3>2. r \in DOMAIN sel' /\ Active(r)' /\ pid'[sel'[r].item] = p /\ With(p, r)'
      BY <1>8, <1>9, <1>24, <1>25, <3>1
    <3>3. QED
      BY <3>2
  <2>3. QED
    BY <2>1, <2>2
<1>29. ThreadInv'
  <2>1. PlaceOk(t)'
    <3>1. place.pc = "exec" => place.r = n
      BY <1>16, <1>17
    <3>2. QED
      BY <1>7, <1>9, <1>15, <1>17, <3>1 DEF PlaceOk
  <2>2. \A u \in Thread : u # t => at'[u].pc = "idle"
    BY <1>15, OthersIdle
  <2>3. (\A u \in Thread : PlaceOk(u)') /\ (at'["listener"].pc = "idle" \/ at'["user"].pc = "idle")
    BY <2>1, <2>2, PlacesOk
  <2>4. plugin = "cli" => at'["user"].pc = "idle" /\ todo'["user"] = <<>>
    BY <1>1, <1>10, <1>18, <2>2 DEF ThreadInv, Thread
  <2>5. plugin = "console" => todo'["listener"] = <<>>
    BY <1>1, <1>5, <1>10 DEF ThreadInv, Thread
  <2>6. Len(sel') + Len(todo'["listener"]) + Len(todo'["user"]) <= MaxRuns
    BY <1>1, <1>9, <1>11 DEF ThreadInv
  <2>7. plugin' = plugin
    OBVIOUS
  <2>8. QED
    BY <2>3, <2>4, <2>5, <2>6, <2>7 DEF ThreadInv
<1>30. GroupInv'
  <2> SUFFICES ASSUME plugin = "cli" PROVE \E g \in {0, 1} : GroupIs(g)' /\ (g # 0 => OneByOne')
    BY DEF GroupInv
  <2>0. t = "listener"
    BY <1>18, TestEngineAssumption DEF Thread
  <2>1. PICK g \in {0, 1} : GroupIs(g) /\ (g # 0 => OneByOne)
    BY <1>1 DEF GroupInv
  <2>2. GroupIs(g)'
    <3>1. head[2] = g
      BY <1>6, <2>0, <2>1 DEF GroupIs
    <3>2. \A r \in DOMAIN sel' : sel'[r].group = g
      BY <1>7, <1>9, <2>1, <3>1 DEF GroupIs
    <3>3. \A k \in DOMAIN todo'["listener"] : todo'["listener"][k][2] = g
      <4>1. todo'["listener"] = Tail(todo["listener"])
        BY <1>10, <2>0
      <4>2. \A k \in DOMAIN todo["listener"] : todo["listener"][k][2] = g
        BY <2>1 DEF GroupIs
      <4>3. \A k \in DOMAIN Tail(todo["listener"]) :
              k + 1 \in DOMAIN todo["listener"] /\ Tail(todo["listener"])[k] = todo["listener"][k + 1]
        BY <1>6, <2>0
      <4>4. QED
        BY <4>1, <4>2, <4>3
    <3>4. QED
      BY <3>2, <3>3 DEF GroupIs
  <2>3. ASSUME g # 0 PROVE OneByOne'
    <3>1. OneByOne
      BY <2>1, <2>3
    <3>2. \A q, r \in DOMAIN sel' : Active(q)' /\ Active(r)' => q = r
      BY <1>9, <1>25, <1>26, <3>1 DEF OneByOne
    <3>3. ASSUME Starts(Hand)' PROVE NothingGoing'
      <4>1. Starts(Hand)
        BY <1>5, <1>15, <1>16, <2>0, <3>3 DEF Starts, Hand
      <4>2. NothingGoing
        BY <3>1, <4>1 DEF OneByOne
      <4>3. QED
        BY <4>2, <1>9, <1>25, <1>26 DEF NothingGoing
    <3>4. \A a \in Temp : mod'[a] = "absent"
      BY <1>8, <3>1 DEF OneByOne
    <3>5. QED
      BY <3>2, <3>3, <3>4 DEF OneByOne
  <2>4. QED
    BY <2>2, <2>3
<1>31. CountInv'
  <2>1. WithResults' = WithResults
    BY <1>7, <1>9 DEF WithResults
  <2>2. Awaited' = Awaited
    BY <1>8 DEF Awaited
  <2>3. plugin = "cli" => Len(sel') + Len(todo'["listener"]) = Len(sel) + Len(todo["listener"])
    <3>1. plugin = "cli" => t = "listener"
      BY <1>18, TestEngineAssumption DEF Thread
    <3>2. Len(todo["listener"]) \in Nat /\ Len(sel) \in Nat /\ Len(sel') = n
      BY <1>1, <1>9 DEF TypeOK, Thread
    <3>3. t = "listener" => Len(todo'["listener"]) = Len(todo["listener"]) - 1
      BY <1>6, <1>10
    <3>4. PICK a, b \in Nat : a = Len(sel) /\ b = Len(todo["listener"])
      BY <3>2
    <3>5. (a + 1) + (b - 1) = a + b
      OBVIOUS
    <3>6. QED
      BY <1>4, <3>1, <3>2, <3>3, <3>4, <3>5, Zenon
  <2>4. QED
    BY <1>1, <1>8, <2>1, <2>2, <2>3 DEF CountInv
<1>32. QED
  BY <1>19, <1>20, <1>21, <1>27, <1>28, <1>29, <1>30, <1>31 DEF IInv

----------------------------------------------------------------------------
(* Which case a process executes.                                          *)

LEMMA FreeItem ==
  ASSUME TypeOK, PidInv, RunInv, WorkInv, NEW i \in Item, Listed(i),
         mod[i] \notin {"BUSY", "BUSY_TEMP"}, NEW p, p = pid[i]
  PROVE  /\ p \in Pid /\ p # 0 /\ Quiet(p)
         /\ \A q \in DOMAIN sel : Active(q) => sel[q].item # i /\ pid[sel[q].item] # p
<1>1. p \in Pid /\ p # 0
  BY ByPidOne
<1>2. ASSUME NEW q \in DOMAIN sel, Active(q) PROVE sel[q].item # i /\ pid[sel[q].item] # p
  <2>1. PICK j : j = sel[q].item
    OBVIOUS
  <2>2. j \in Item /\ mod[j] \in {"BUSY", "BUSY_TEMP"} /\ pid[j] # 0
    BY <1>2, <2>1, ActiveItem
  <2>3. j # i
    BY <2>2
  <2>4. pid[j] # pid[i]
    BY <2>2, <2>3, OneItem
  <2>5. QED
    BY <2>1, <2>3, <2>4
<1>3. Quiet(p)
  BY <1>1, <1>2 DEF WorkInv
<1>4. QED
  BY <1>1, <1>2, <1>3

LEMMA BusyProcess ==
  ASSUME TypeOK, PidInv, RunInv, WorkInv, NEW p \in Pid, ~Quiet(p)
  PROVE  \E r \in DOMAIN sel :
           /\ Active(r) /\ pid[sel[r].item] = p /\ With(p, r) /\ ByPid(p) = {sel[r].item}
           /\ \A q \in DOMAIN sel : Active(q) /\ pid[sel[q].item] = p => q = r
<1>1. PICK r \in DOMAIN sel : Active(r) /\ pid[sel[r].item] = p /\ With(p, r)
  BY DEF WorkInv
<1>2. PICK i : i = sel[r].item
  OBVIOUS
<1>3. i \in Item /\ Listed(i) /\ pid[i] # 0 /\ pid[i] = p
  BY <1>1, <1>2, ActiveItem
<1>4. ByPid(p) = {i}
  BY <1>3, ByPidOne
<1>5. ASSUME NEW q \in DOMAIN sel, Active(q), pid[sel[q].item] = p PROVE q = r
  <2>1. PICK j : j = sel[q].item
    OBVIOUS
  <2>2. j \in Item /\ pid[j] = pid[i]
    BY <1>3, <1>5, <2>1, ActiveItem
  <2>3. j = i
    BY <1>3, <2>2, OneItem
  <2>4. QED
    BY <1>1, <1>2, <1>5, <2>1, <2>3 DEF RunInv
<1>6. QED
  BY <1>1, <1>2, <1>4, <1>5

(* A case is sent to a TMC that has nothing to do.                         *)
LEMMA TaskSent ==
  ASSUME TypeOK, NEW p \in Pid, NEW r \in Run, Quiet(p),
         exe' = [exe EXCEPT ![p] = Append(@, r)], going' = going,
         \A q : (NoRet(q)' <=> NoRet(q)) /\ \A n : OneRet(q, n)' <=> OneRet(q, n)
  PROVE  /\ With(p, r)' /\ exe' \in [Pid -> Seq(Run)]
         /\ \A q \in Pid : q # p =>
              (Quiet(q)' <=> Quiet(q)) /\ \A n : With(q, n)' <=> With(q, n)
<1>1. exe \in [Pid -> Seq(Run)]
  BY DEF TypeOK
<1>2. exe'[p] = <<r>> /\ exe' \in [Pid -> Seq(Run)]
  <2>1. exe[p] = <<>>
    BY DEF Quiet
  <2>2. Append(<<>>, r) = <<r>> /\ <<r>> \in Seq(Run)
    OBVIOUS
  <2>3. QED
    BY <1>1, <2>1, <2>2
<1>3. With(p, r)'
  BY <1>2 DEF With, Quiet
<1>4. ASSUME NEW q \in Pid, q # p PROVE (Quiet(q)' <=> Quiet(q)) /\ \A n : With(q, n)' <=> With(q, n)
  <2>1. exe'[q] = exe[q]
    BY <1>1, <1>4
  <2>2. SameTraffic(q)
    BY <2>1 DEF SameTraffic
  <2>3. QED
    BY <2>2, TrafficKept
<1>5. QED
  BY <1>2, <1>3, <1>4

(* A selected case is sent to the TMC of its item.                         *)
LEMMA RunStarted ==
  ASSUME TypeOK, PidInv, TempInv, RunInv, WorkInv,
         NEW r \in DOMAIN sel, sel[r].status = "IDLE", NEW i, i = sel[r].item,
         Listed(i), mod[i] \notin {"BUSY", "BUSY_TEMP"},
         mod' = [mod EXCEPT ![i] = IF i \in Module THEN "BUSY" ELSE "BUSY_TEMP"],
         sel' = [sel EXCEPT ![r].status = "ONGOING"],
         exe' = [exe EXCEPT ![pid[i]] = Append(@, r)],
         UNCHANGED <<pid, carried, forked, going>>,
         \A q : (NoRet(q)' <=> NoRet(q)) /\ \A n : OneRet(q, n)' <=> OneRet(q, n),
         Hand.pc \notin {"credit", "tempfind", "tempend"},
         Hand'.pc \notin {"credit", "tempfind", "tempend"}
  PROVE  /\ PidInv' /\ TempInv' /\ RunInv' /\ WorkInv'
         /\ exe' \in [Pid -> Seq(Run)] /\ mod' \in [Item -> ModuleStatus] /\ sel' \in Seq(Entry)
         /\ Len(sel') = Len(sel) /\ DOMAIN sel' = DOMAIN sel /\ WithResults' = WithResults
         /\ \A q \in DOMAIN sel : sel'[q].group = sel[q].group
         /\ \A q \in DOMAIN sel : Active(q)' <=> Active(q) \/ q = r
<1>1. PICK p : p = pid[i]
  OBVIOUS
<1>2. i \in Item /\ r \in Run
  BY SelDomain
<1>3. /\ p \in Pid /\ p # 0 /\ Quiet(p)
      /\ \A q \in DOMAIN sel : Active(q) => sel[q].item # i /\ pid[sel[q].item] # p
  BY <1>1, <1>2, FreeItem
<1>4. /\ With(p, r)' /\ exe' \in [Pid -> Seq(Run)]
      /\ \A q \in Pid : q # p =>
           (Quiet(q)' <=> Quiet(q)) /\ \A n : With(q, n)' <=> With(q, n)
  BY <1>1, <1>2, <1>3, TaskSent
<1>5. /\ sel' \in Seq(Entry) /\ DOMAIN sel' = DOMAIN sel /\ Len(sel') = Len(sel)
      /\ \A q \in DOMAIN sel : q # r => sel'[q] = sel[q]
      /\ sel'[r].status = "ONGOING" /\ sel'[r].item = i /\ sel'[r].group = sel[r].group
      /\ sel'[r].result = sel[r].result
  BY SetStatus DEF CaseStatus
<1>6. /\ mod' \in [Item -> ModuleStatus]
      /\ mod'[i] = IF i \in Module THEN "BUSY" ELSE "BUSY_TEMP"
      /\ \A j \in Item : j # i => mod'[j] = mod[j]
  BY <1>2 DEF TypeOK, ModuleStatus
<1>7. RunOk(r)
  BY DEF RunInv
<1>8. i \in Temp => i \notin Module /\ carried[i] = r /\ mod[i] \notin {"absent", "NOT_STARTED"}
  BY <1>7, TestEngineAssumption DEF RunOk, Past
<1>9. \A q : ~Handing(q) /\ ~Handing(q)'
  BY DEF Handing
<1>10. ASSUME NEW q \in DOMAIN sel, q # r PROVE RunOk(q)' /\ (Active(q)' <=> Active(q))
  <2>1. PICK j, s : j = sel[q].item /\ s = pid[j]
    OBVIOUS
  <2>2. RunOk(q) /\ sel'[q] = sel[q]
    BY <1>5, <1>10 DEF RunInv
  <2>3. j \in Item
    BY <2>1, SelDomain
  <2>4. Past(q)' <=> Past(q)
    <3>1. sel'[q].item = j /\ carried'[j] = carried[j]
      BY <2>1, <2>2
    <3>2. CASE j = i
      BY <1>8, <1>10, <2>1, <3>1, <3>2 DEF Past
    <3>3. CASE j # i
      BY <1>6, <2>1, <2>3, <3>1, <3>3 DEF Past
    <3>4. QED
      BY <3>2, <3>3
  <2>5. j \in Temp /\ ~Past(q) => j # i
    BY <1>8, <1>10, <2>1 DEF Past
  <2>6. j \in Temp /\ ~Past(q) => mod'[j] = mod[j]
    BY <1>6, <2>3, <2>5
  <2>7. ASSUME Active(q)
        PROVE  pid'[j] = s /\ mod'[j] = mod[j] /\ (Quiet(s) => Quiet(s)') /\ (With(s, q) => With(s, q)')
    <3>1. j # i /\ s # p /\ s \in Pid
      BY <1>3, <2>1, <2>7, ActiveItem
    <3>2. QED
      BY <1>4, <1>6, <2>1, <2>3, <3>1
  <2>8. QED
    BY <1>9, <2>1, <2>2, <2>4, <2>6, <2>7, RunOkKept DEF RunOk
<1>11. Active(r)' /\ ~Active(r)
  BY <1>5, <1>6, <1>8 DEF Active, Past
<1>12. RunOk(r)'
  <2>1. With(p, r)' /\ pid'[sel'[r].item] = p /\ sel'[r].result = 0
    BY <1>1, <1>4, <1>5, <1>7 DEF RunOk
  <2>2. mod'[sel'[r].item] \in {"BUSY", "BUSY_TEMP"}
    BY <1>5, <1>6
  <2>3. ~Past(r)'
    BY <1>11 DEF Active
  <2>4. QED
    BY <1>5, <1>9, <2>1, <2>2, <2>3 DEF RunOk
<1>13. RunInv'
  <2>1. \A q \in DOMAIN sel' : RunOk(q)'
    BY <1>5, <1>10, <1>12
  <2>2. ASSUME NEW q \in DOMAIN sel, NEW s \in DOMAIN sel, Active(q)', Active(s)',
               sel'[q].item = sel'[s].item
        PROVE  q = s
    <3>1. CASE q # r /\ s # r
      <4>1. Active(q) /\ Active(s) /\ sel[q].item = sel[s].item
        BY <1>5, <1>10, <2>2, <3>1
      <4>2. QED
        BY <4>1 DEF RunInv
    <3>2. CASE q = r /\ s # r
      <4>1. Active(s) /\ sel[s].item = i
        BY <1>5, <1>10, <2>2, <3>2
      <4>2. QED
        BY <1>3, <4>1
    <3>3. CASE q # r /\ s = r
      <4>1. Active(q) /\ sel[q].item = i
        BY <1>5, <1>10, <2>2, <3>3
      <4>2. QED
        BY <1>3, <4>1
    <3>4. QED
      BY <3>1, <3>2, <3>3
  <2>3. ASSUME NEW m \in Module, mod'[m] = "BUSY" PROVE \E q \in DOMAIN sel : Active(q)' /\ sel'[q].item = m
    <3>1. CASE m = i
      BY <1>5, <1>11, <3>1
    <3>2. CASE m # i
      <4>1. mod[m] = "BUSY"
        BY <1>6, <2>3, <3>2 DEF Item
      <4>2. PICK q \in DOMAIN sel : Active(q) /\ sel[q].item = m
        BY <4>1 DEF RunInv
      <4>3. Active(q)' /\ sel'[q].item = m
        BY <1>5, <1>10, <1>11, <4>2
      <4>4. QED
        BY <4>3
    <3>3. QED
      BY <3>1, <3>2
  <2>4. QED
    BY <1>5, <2>1, <2>2, <2>3 DEF RunInv
<1>14. WorkInv'
  <2> SUFFICES ASSUME NEW q \in Pid
               PROVE  Quiet(q)' \/ \E n \in DOMAIN sel' : Active(n)' /\ pid'[sel'[n].item] = q /\ With(q, n)'
    BY DEF WorkInv
  <2>1. CASE q = p
    <3>1. r \in DOMAIN sel' /\ Active(r)' /\ pid'[sel'[r].item] = q /\ With(q, r)'
      BY <1>1, <1>4, <1>5, <1>11, <2>1
    <3>2. QED
      BY <3>1
  <2>2. CASE q # p
    <3>1. CASE Quiet(q)
      BY <1>4, <2>2, <3>1
    <3>2. CASE ~Quiet(q)
      <4>1. PICK n \in DOMAIN sel : Active(n) /\ pid[sel[n].item] = q /\ With(q, n)
        BY <3>2 DEF WorkInv
      <4>2. n # r
        BY <1>11, <4>1
      <4>3. n \in DOMAIN sel' /\ Active(n)' /\ pid'[sel'[n].item] = q /\ With(q, n)'
        BY <1>4, <1>5, <1>10, <2>2, <4>1, <4>2
      <4>4. QED
        BY <4>3
    <3>3. QED
      BY <3>1, <3>2
  <2>3. QED
    BY <2>1, <2>2
<1>15. TempInv'
  <2> SUFFICES ASSUME NEW a \in Temp
               PROVE  /\ mod'[a] # "absent" => carried'[a] \in DOMAIN sel'
                      /\ mod'[a] = "INITIALIZED_TEMP" =>
                           sel'[carried'[a]].item = a /\ sel'[carried'[a]].status = "IDLE"
    BY DEF TempInv
  <2>1. CASE a = i
    BY <1>5, <1>6, <1>8, <2>1
  <2>2. CASE a # i
    <3>1. mod'[a] = mod[a]
      BY <1>6, <2>2 DEF Item
    <3>2. (mod[a] # "absent" => carried[a] \in DOMAIN sel)
          /\ (mod[a] = "INITIALIZED_TEMP" => sel[carried[a]].item = a /\ sel[carried[a]].status = "IDLE")
      BY DEF TempInv
    <3>3. mod[a] = "INITIALIZED_TEMP" => carried[a] \in DOMAIN sel /\ carried[a] # r
      BY <2>2, <3>2
    <3>4. QED
      BY <1>5, <3>1, <3>2, <3>3
  <2>3. QED
    BY <2>1, <2>2
<1>16. PidInv'
  <2>1. ASSUME NEW m \in Module
        PROVE  pid[m] = m /\ mod'[m] \in {"INITIALIZED", "TC_SENDING", "READY", "BUSY", "removed"}
    <3>1. m \in Item /\ pid[m] = m
          /\ mod[m] \in {"INITIALIZED", "TC_SENDING", "READY", "BUSY", "removed"}
      BY DEF PidInv, Item
    <3>2. QED
      BY <1>6, <3>1
  <2>2. ASSUME NEW a \in Temp
        PROVE  (mod'[a] = "absent" <=> mod[a] = "absent")
               /\ mod'[a] \in {"absent", "NOT_STARTED", "INITIALIZED_TEMP", "BUSY_TEMP", "removed"}
    <3>1. a \in Item /\ mod[a] \in {"absent", "NOT_STARTED", "INITIALIZED_TEMP", "BUSY_TEMP", "removed"}
      BY DEF PidInv, Item
    <3>2. QED
      BY <1>6, <1>8, <3>1
  <2>3. \A a \in Temp :
          pid[a] \in 0..forked /\ (pid[a] = 0 <=> mod[a] = "absent")
          /\ \A b \in Temp : pid[a] = pid[b] /\ pid[a] # 0 => a = b
    BY DEF PidInv
  <2>4. pid' = pid /\ forked' = forked
    OBVIOUS
  <2>5. QED
    BY <2>1, <2>2, <2>3, <2>4 DEF PidInv
<1>17. WithResults' = WithResults
  BY <1>5 DEF WithResults
<1>18. \A q \in DOMAIN sel : sel'[q].group = sel[q].group
  BY <1>5
<1>19. \A q \in DOMAIN sel : Active(q)' <=> Active(q) \/ q = r
  BY <1>10, <1>11
<1>20. QED
  BY <1>4, <1>5, <1>6, <1>13, <1>14, <1>15, <1>16, <1>17, <1>18, <1>19

LEMMA ListedPids ==
  ASSUME PidInv'
  PROVE  \A i \in Item : Listed(i)' => pid'[i] # 0
<1>1. \A m \in Module : pid'[m] = m /\ m # 0
  BY Numbers DEF PidInv
<1>2. \A a \in Temp : pid'[a] = 0 => mod'[a] = "absent"
  BY DEF PidInv
<1>3. QED
  BY <1>1, <1>2 DEF Item, Listed

LEMMA ExecuteStep ==
  ASSUME IInv, NEW t \in Thread, Alone(t), Execute(t), UNCHANGED <<plugin, cli>>
  PROVE  IInv'
<1>1. TypeOK /\ PidInv /\ TempInv /\ RunInv /\ WorkInv /\ ThreadInv /\ GroupInv /\ CountInv
  BY DEF IInv
<1>2. PICK r : r = at[t].r
  OBVIOUS
<1>3. PICK i : i = sel[r].item
  OBVIOUS
<1>4. /\ at[t].pc = "act" /\ at[t].seen = "READY"
      /\ r \in DOMAIN sel /\ sel[r].status = "IDLE" /\ mod[i] = "READY"
  BY <1>1, <1>2, <1>3 DEF Execute, ThreadInv, PlaceOk
<1>5. i \in Item
  BY <1>1, <1>3, <1>4, SelDomain
<1>6. i \in Module /\ i \notin Temp
  BY <1>1, <1>4, <1>5, TestEngineAssumption DEF PidInv, Item
<1>7. /\ mod' = [mod EXCEPT ![i] = "BUSY"]
      /\ sel' = [sel EXCEPT ![r].status = "ONGOING"]
      /\ exe' = [exe EXCEPT ![pid[i]] = Append(@, r)]
      /\ Goto(t, Idle)
      /\ UNCHANGED <<pid, carried, forked, inbox, todo, tmc, going>>
  BY <1>2, <1>3 DEF Execute, Taken, Send
<1>8. Idle \in Place /\ Idle.pc = "idle"
  BY IdlePlace
<1>9. at' \in [Thread -> Place] /\ at'[t] = Idle /\ \A u \in Thread : u # t => at'[u] = at[u]
  BY <1>1, <1>7, <1>8, AtStep
<1>10. \A u \in Thread : at'[u].pc = "idle"
  BY <1>8, <1>9, OthersIdle
<1>11. Hand.pc \notin {"credit", "tempfind", "tempend"} /\ Hand'.pc \notin {"credit", "tempfind", "tempend"}
  BY <1>4, <1>10, OthersIdle DEF Hand, Thread
<1>12. \A q : (NoRet(q)' <=> NoRet(q)) /\ \A n : OneRet(q, n)' <=> OneRet(q, n)
  BY <1>7 DEF NoRet, OneRet, IsRet
<1>13. mod' = [mod EXCEPT ![i] = IF i \in Module THEN "BUSY" ELSE "BUSY_TEMP"]
  BY <1>6, <1>7
<1>14. Listed(i) /\ mod[i] \notin {"BUSY", "BUSY_TEMP"}
  BY <1>4 DEF Listed
<1>15. /\ PidInv' /\ TempInv' /\ RunInv' /\ WorkInv'
       /\ exe' \in [Pid -> Seq(Run)] /\ mod' \in [Item -> ModuleStatus] /\ sel' \in Seq(Entry)
       /\ Len(sel') = Len(sel) /\ DOMAIN sel' = DOMAIN sel /\ WithResults' = WithResults
       /\ \A q \in DOMAIN sel : sel'[q].group = sel[q].group
       /\ \A q \in DOMAIN sel : Active(q)' <=> Active(q) \/ q = r
  <2>1. UNCHANGED <<pid, carried, forked, going>>
    BY <1>7
  <2>2. exe' = [exe EXCEPT ![pid[i]] = Append(@, r)] /\ sel' = [sel EXCEPT ![r].status = "ONGOING"]
    BY <1>7
  <2>3. QED
    BY <1>1, <1>3, <1>4, <1>11, <1>12, <1>13, <1>14, <2>1, <2>2, RunStarted
<1>16. \A j \in Item : j # i => mod'[j] = mod[j]
  BY <1>1, <1>7 DEF TypeOK
<1>17. mod'[i] = "BUSY"
  BY <1>1, <1>5, <1>7 DEF TypeOK
<1>18. TypeOK'
  <2>1. \A j \in Item : Listed(j)' => pid'[j] # 0
    BY <1>15, ListedPids
  <2>2. QED
    BY <1>1, <1>7, <1>9, <1>15, <2>1 DEF TypeOK
<1>19. t = "user" => plugin = "console"
  BY <1>4, UserHasConsole
<1>20. ThreadInv'
  <2>1. \A u \in Thread : PlaceOk(u)'
    BY <1>10 DEF PlaceOk
  <2>2. at'["listener"].pc = "idle" /\ at'["user"].pc = "idle"
    BY <1>10 DEF Thread
  <2>3. todo' = todo /\ plugin' = plugin /\ Len(sel') = Len(sel)
    BY <1>7, <1>15
  <2>4. QED
    BY <1>1, <2>1, <2>2, <2>3 DEF ThreadInv
<1>21. GroupInv'
  <2> SUFFICES ASSUME plugin = "cli" PROVE \E g \in {0, 1} : GroupIs(g)' /\ (g # 0 => OneByOne')
    BY DEF GroupInv
  <2>0. t = "listener"
    BY <1>19 DEF Thread
  <2>1. PICK g \in {0, 1} : GroupIs(g) /\ (g # 0 => OneByOne)
    BY <1>1 DEF GroupInv
  <2>2. GroupIs(g)'
    BY <1>7, <1>15, <2>1 DEF GroupIs
  <2>3. ASSUME g # 0 PROVE OneByOne'
    <3>1. OneByOne
      BY <2>1, <2>3
    <3>2. NothingGoing
      BY <1>4, <2>0, <3>1 DEF OneByOne, Starts, Hand
    <3>3. \A q, n \in DOMAIN sel' : Active(q)' /\ Active(n)' => q = n
      BY <1>15, <3>2 DEF NothingGoing
    <3>4. ~Starts(Hand)'
      BY <1>10 DEF Starts, Hand, Thread
    <3>5. \A a \in Temp : mod'[a] = "absent"
      BY <1>6, <1>16, <3>1 DEF OneByOne, Item
    <3>6. QED
      BY <3>3, <3>4, <3>5 DEF OneByOne
  <2>4. QED
    BY <2>2, <2>3
<1>22. CountInv'
  <2>1. Awaited' = Awaited
    BY <1>4, <1>16, <1>17 DEF Awaited, Item
  <2>2. plugin = "console" => \A m \in Module : mod'[m] \in {"READY", "BUSY", "removed"}
    BY <1>1, <1>16, <1>17 DEF CountInv, Item
  <2>3. QED
    BY <1>1, <1>7, <1>15, <2>1, <2>2 DEF CountInv
<1>23. QED
  BY <1>15, <1>18, <1>20, <1>21, <1>22 DEF IInv

----------------------------------------------------------------------------
(* A temporary module.                                                     *)

LEMMA StartTempStep ==
  ASSUME IInv, NEW t \in Thread, Alone(t), StartTemp(t), UNCHANGED <<plugin, cli>>
  PROVE  IInv'
<1>1. TypeOK /\ PidInv /\ TempInv /\ RunInv /\ WorkInv /\ ThreadInv /\ GroupInv /\ CountInv
  BY DEF IInv
<1>2. PICK r : r = at[t].r
  OBVIOUS
<1>3. PICK n : n = forked + 1
  OBVIOUS
<1>4. PICK a \in Temp :
        /\ mod[a] \in {"absent", "removed"}
        /\ mod' = [mod EXCEPT ![a] = "NOT_STARTED"]
        /\ pid' = [pid EXCEPT ![a] = n]
        /\ carried' = [carried EXCEPT ![a] = r]
  BY <1>2, <1>3 DEF StartTemp, NewPid
<1>5. /\ forked < MaxTemps /\ forked' = n /\ tmc' = [tmc EXCEPT ![n] = "boot"]
      /\ UNCHANGED <<sel, inbox, todo, exe, going>>
  BY <1>3 DEF StartTemp
<1>6. forked \in Nat /\ n \in Nat /\ forked < n /\ n \in 1..MaxTemps /\ n \in 0..MaxTemps /\ n \in Pid /\ n # 0
  BY <1>1, <1>3, <1>5, TestEngineAssumption DEF TypeOK, Pid
<1>7. /\ at[t].pc = "act" /\ at[t].seen = "BUSY"
      /\ r \in DOMAIN sel /\ sel[r].status = "IDLE" /\ mod[sel[r].item] = "BUSY"
  BY <1>1, <1>2 DEF StartTemp, ThreadInv, PlaceOk
<1>8. sel[r].item \in Module /\ r \in 0..MaxRuns
  BY <1>1, <1>7, SelDomain, Numbers DEF PidInv, Item
<1>9. a \in Item /\ a \notin Module
  BY TestEngineAssumption DEF Item
<1>10. /\ mod' \in [Item -> ModuleStatus] /\ mod'[a] = "NOT_STARTED" /\ \A j \in Item : j # a => mod'[j] = mod[j]
       /\ pid' \in [Item -> Pid \cup {0}] /\ pid'[a] = n /\ \A j \in Item : j # a => pid'[j] = pid[j]
       /\ carried' \in [Temp -> 0..MaxRuns] /\ carried'[a] = r /\ \A j \in Temp : j # a => carried'[j] = carried[j]
  BY <1>1, <1>4, <1>6, <1>8, <1>9 DEF TypeOK, ModuleStatus
<1>11. at[t] \in Place
  BY <1>1, PlaceRange
<1>12. PICK place \in Place : place = [at[t] EXCEPT !.pc = "settemp", !.from = n]
  BY <1>6, <1>11, Fields
<1>13. place.pc = "settemp" /\ place.from = n /\ place.r = r
  BY <1>2, <1>11, <1>12 DEF Place
<1>14. Goto(t, place)
  BY <1>3, <1>12 DEF StartTemp
<1>15. at' \in [Thread -> Place] /\ at'[t] = place /\ \A u \in Thread : u # t => at'[u] = at[u]
  BY <1>1, <1>14, AtStep
<1>16. t = "user" => plugin = "console"
  BY <1>7, UserHasConsole
<1>17. Hand.pc \notin {"credit", "tempfind", "tempend"} /\ Hand'.pc \notin {"credit", "tempfind", "tempend"}
  BY <1>7, <1>13, <1>15, OthersIdle DEF Hand, Thread
<1>18. \A q : ~Handing(q) /\ ~Handing(q)'
  BY <1>17 DEF Handing
<1>19. PidInv'
  <2>1. ASSUME NEW m \in Module
        PROVE  pid'[m] = m /\ mod'[m] \in {"INITIALIZED", "TC_SENDING", "READY", "BUSY", "removed"}
    BY <1>1, <1>9, <1>10 DEF PidInv, Item
  <2>2. ASSUME NEW b \in Temp
        PROVE  /\ pid'[b] \in 0..forked' /\ (pid'[b] = 0 <=> mod'[b] = "absent")
               /\ mod'[b] \in {"absent", "NOT_STARTED", "INITIALIZED_TEMP", "BUSY_TEMP", "removed"}
    <3>1. CASE b = a
      BY <1>5, <1>6, <1>10, <3>1
    <3>2. CASE b # a
      <4>1. mod'[b] = mod[b] /\ pid'[b] = pid[b]
        BY <1>10, <3>2 DEF Item
      <4>2. /\ pid[b] \in 0..forked /\ (pid[b] = 0 <=> mod[b] = "absent")
            /\ mod[b] \in {"absent", "NOT_STARTED", "INITIALIZED_TEMP", "BUSY_TEMP", "removed"}
        BY <1>1 DEF PidInv
      <4>3. \A k \in 0..forked : k \in 0..n
        BY <1>6
      <4>4. QED
        BY <1>5, <4>1, <4>2, <4>3
    <3>3. QED
      BY <3>1, <3>2
  <2>3. ASSUME NEW b \in Temp, NEW c \in Temp, pid'[b] = pid'[c], pid'[b] # 0 PROVE b = c
    <3>1. pid[b] \in 0..forked /\ pid[c] \in 0..forked /\ (pid[b] = pid[c] /\ pid[b] # 0 => b = c)
      BY <1>1 DEF PidInv
    <3>2. pid[b] # n /\ pid[c] # n
      BY <1>6, <3>1
    <3>3. (b # a => pid'[b] = pid[b]) /\ (c # a => pid'[c] = pid[c])
      BY <1>10 DEF Item
    <3>4. QED
      BY <1>10, <2>3, <3>1, <3>2, <3>3
  <2>4. QED
    BY <2>1, <2>2, <2>3 DEF PidInv
<1>20. TypeOK'
  <2>1. \A j \in Item : Listed(j)' => pid'[j] # 0
    BY <1>19, ListedPids
  <2>2. tmc' \in [Pid -> {"none", "boot", "up", "asked"}]
    BY <1>1, <1>5, <1>6 DEF TypeOK
  <2>3. forked' \in 0..MaxTemps
    BY <1>5, <1>6
  <2>4. QED
    BY <1>1, <1>5, <1>10, <1>15, <2>1, <2>2, <2>3 DEF TypeOK
<1>21. TempInv'
  <2> SUFFICES ASSUME NEW b \in Temp
               PROVE  /\ mod'[b] # "absent" => carried'[b] \in DOMAIN sel
                      /\ mod'[b] = "INITIALIZED_TEMP" =>
                           sel[carried'[b]].item = b /\ sel[carried'[b]].status = "IDLE"
    BY <1>5 DEF TempInv
  <2>1. CASE b = a
    BY <1>7, <1>10, <2>1
  <2>2. CASE b # a
    <3>1. mod'[b] = mod[b] /\ carried'[b] = carried[b]
      BY <1>10, <2>2 DEF Item
    <3>2. QED
      BY <1>1, <3>1 DEF TempInv
  <2>3. QED
    BY <2>1, <2>2
<1>22. \A p : (Quiet(p)' <=> Quiet(p)) /\ \A q : With(p, q)' <=> With(p, q)
  BY <1>5, TrafficUnchanged, TrafficKept
<1>23. ASSUME NEW q \in DOMAIN sel PROVE RunOk(q)' /\ (Active(q)' <=> Active(q)) /\ (Active(q) => sel[q].item # a)
  <2>1. PICK j, p : j = sel[q].item /\ p = pid[j]
    OBVIOUS
  <2>2. RunOk(q) /\ sel'[q] = sel[q]
    BY <1>1, <1>5 DEF RunInv
  <2>3. j \in Item
    BY <1>1, <2>1, SelDomain
  <2>4. j = a => Past(q) /\ q # r
    BY <1>4, <1>8, <1>9, <2>1, <2>2 DEF RunOk, Past
  <2>5. j # a => mod'[j] = mod[j] /\ pid'[j] = p /\ (j \in Temp => carried'[j] = carried[j])
    BY <1>10, <2>1, <2>3
  <2>6. Past(q)' <=> Past(q)
    BY <1>10, <2>1, <2>2, <2>4, <2>5 DEF Past
  <2>7. ~Past(q) => j # a
    BY <2>4
  <2>8. RunOk(q)' /\ (Active(q)' <=> Active(q))
    <3>1. Active(q) => ~Past(q)
      BY DEF Active
    <3>2. sel[q].status = "IDLE" => ~Past(q)
      BY <2>2 DEF RunOk
    <3>3. QED
      BY <1>18, <1>22, <2>1, <2>2, <2>5, <2>6, <2>7, <3>1, <3>2, RunOkKept
  <2>9. QED
    BY <2>1, <2>7, <2>8 DEF Active
<1>24. RunInv'
  <2>1. ASSUME NEW m \in Module, mod'[m] = "BUSY" PROVE \E q \in DOMAIN sel : Active(q) /\ sel[q].item = m
    <3>1. mod[m] = "BUSY"
      BY <1>9, <1>10, <2>1 DEF Item
    <3>2. QED
      BY <1>1, <3>1 DEF RunInv
  <2>2. \A q, s \in DOMAIN sel : Active(q) /\ Active(s) /\ sel[q].item = sel[s].item => q = s
    BY <1>1 DEF RunInv
  <2>3. QED
    BY <1>5, <1>23, <2>1, <2>2 DEF RunInv
<1>25. WorkInv'
  <2> SUFFICES ASSUME NEW p \in Pid
               PROVE  Quiet(p)' \/ \E q \in DOMAIN sel' : Active(q)' /\ pid'[sel'[q].item] = p /\ With(p, q)'
    BY DEF WorkInv
  <2>1. CASE Quiet(p)
    BY <1>22, <2>1
  <2>2. CASE ~Quiet(p)
    <3>1. PICK q \in DOMAIN sel : Active(q) /\ pid[sel[q].item] = p /\ With(p, q)
      BY <1>1, <2>2 DEF WorkInv
    <3>2. sel[q].item \in Item /\ sel[q].item # a
      BY <1>1, <1>23, <3>1, SelDomain
    <3>3. q \in DOMAIN sel' /\ Active(q)' /\ pid'[sel'[q].item] = p /\ With(p, q)'
      BY <1>5, <1>10, <1>22, <1>23, <3>1, <3>2
    <3>4. QED
      BY <3>3
  <2>3. QED
    BY <2>1, <2>2
<1>26. ThreadInv'
  <2>1. PlaceOk(t)'
    <3>1. a \in Temp /\ mod'[a] = "NOT_STARTED" /\ pid'[a] = at'[t].from /\ carried'[a] = at'[t].r
      BY <1>10, <1>13, <1>15
    <3>2. at'[t].pc = "settemp" /\ at'[t].r = r /\ sel' = sel
      BY <1>5, <1>13, <1>15
    <3>3. QED
      BY <1>7, <1>8, <3>1, <3>2 DEF PlaceOk
  <2>2. \A u \in Thread : u # t => at'[u].pc = "idle"
    BY <1>15, OthersIdle
  <2>3. (\A u \in Thread : PlaceOk(u)') /\ (at'["listener"].pc = "idle" \/ at'["user"].pc = "idle")
    BY <2>1, <2>2, PlacesOk
  <2>4. plugin = "cli" => at'["user"].pc = "idle" /\ todo["user"] = <<>>
    BY <1>1, <1>16, <2>2 DEF ThreadInv, Thread
  <2>5. todo' = todo /\ plugin' = plugin /\ sel' = sel
    BY <1>5
  <2>6. QED
    BY <1>1, <2>3, <2>4, <2>5 DEF ThreadInv
<1>27. GroupInv'
  <2> SUFFICES ASSUME plugin = "cli" PROVE \E g \in {0, 1} : GroupIs(g)' /\ (g # 0 => OneByOne')
    BY DEF GroupInv
  <2>0. t = "listener"
    BY <1>16 DEF Thread
  <2>1. PICK g \in {0, 1} : GroupIs(g) /\ (g # 0 => OneByOne)
    BY <1>1 DEF GroupInv
  <2>2. GroupIs(g)'
    BY <1>5, <2>1 DEF GroupIs
  <2>3. g = 0
    <3>1. SUFFICES ASSUME OneByOne PROVE FALSE
      BY <2>1
    <3>2. NothingGoing
      BY <1>7, <2>0, <3>1 DEF OneByOne, Starts, Hand
    <3>3. \E q \in DOMAIN sel : Active(q)
      BY <1>1, <1>7, <1>8 DEF RunInv
    <3>4. QED
      BY <3>2, <3>3 DEF NothingGoing
  <2>4. QED
    BY <2>2, <2>3
<1>28. CountInv'
  <2>1. \A m \in Module : mod'[m] = mod[m]
    BY <1>9, <1>10 DEF Item
  <2>2. Awaited' = Awaited
    BY <2>1 DEF Awaited
  <2>3. WithResults' = WithResults
    BY <1>5 DEF WithResults
  <2>4. QED
    BY <1>1, <1>5, <2>1, <2>2, <2>3 DEF CountInv
<1>29. QED
  BY <1>19, <1>20, <1>21, <1>24, <1>25, <1>26, <1>27, <1>28 DEF IInv

LEMMA SetTempStep ==
  ASSUME IInv, NEW t \in Thread, Alone(t), SetTemp(t), UNCHANGED <<plugin, cli>>
  PROVE  IInv'
<1>1. TypeOK /\ PidInv /\ TempInv /\ RunInv /\ WorkInv /\ ThreadInv /\ GroupInv /\ CountInv
  BY DEF IInv
<1>2. PICK r, n : r = at[t].r /\ n = at[t].from
  OBVIOUS
<1>3. PICK a \in ByPid(n) :
        mod' = [mod EXCEPT ![a] = "INITIALIZED_TEMP"] /\ sel' = [sel EXCEPT ![r].item = a]
  BY <1>2 DEF SetTemp
<1>4. /\ at[t].pc = "settemp" /\ Goto(t, Idle)
      /\ UNCHANGED <<pid, carried, forked, inbox, todo, tmc, exe, going>>
  BY DEF SetTemp, tmcVars
<1>5. /\ r \in DOMAIN sel /\ sel[r].status = "IDLE" /\ sel[r].item \in Module
      /\ \E b \in Temp : mod[b] = "NOT_STARTED" /\ pid[b] = n /\ carried[b] = r
  BY <1>1, <1>2, <1>4 DEF ThreadInv, PlaceOk
<1>6. a \in Temp /\ a \in Item /\ a \notin Module /\ mod[a] = "NOT_STARTED" /\ carried[a] = r
  <2>1. PICK b \in Temp : mod[b] = "NOT_STARTED" /\ pid[b] = n /\ carried[b] = r
    BY <1>5
  <2>2. b \in Item /\ Listed(b)
    BY <2>1 DEF Item, Listed
  <2>3. ByPid(n) = {b}
    BY <1>1, <2>1, <2>2, ByPidOne
  <2>4. QED
    BY <1>3, <2>1, <2>2, <2>3, TestEngineAssumption
<1>7. /\ sel' \in Seq(Entry) /\ DOMAIN sel' = DOMAIN sel /\ Len(sel') = Len(sel)
      /\ \A q \in DOMAIN sel : q # r => sel'[q] = sel[q]
      /\ sel'[r].status = sel[r].status /\ sel'[r].item = a /\ sel'[r].group = sel[r].group
      /\ sel'[r].result = sel[r].result
  BY <1>1, <1>3, <1>5, <1>6, SetItem
<1>8. /\ mod' \in [Item -> ModuleStatus] /\ mod'[a] = "INITIALIZED_TEMP"
      /\ \A j \in Item : j # a => mod'[j] = mod[j]
  BY <1>1, <1>3, <1>6 DEF TypeOK, ModuleStatus
<1>9. Idle \in Place /\ Idle.pc = "idle"
  BY IdlePlace
<1>10. at' \in [Thread -> Place] /\ at'[t] = Idle /\ \A u \in Thread : u # t => at'[u] = at[u]
  BY <1>1, <1>4, <1>9, AtStep
<1>11. \A u \in Thread : at'[u].pc = "idle"
  BY <1>9, <1>10, OthersIdle
<1>12. Hand.pc \notin {"credit", "tempfind", "tempend"} /\ Hand'.pc \notin {"credit", "tempfind", "tempend"}
  BY <1>4, <1>11, OthersIdle DEF Hand, Thread
<1>13. \A q : ~Handing(q) /\ ~Handing(q)'
  BY <1>12 DEF Handing
<1>14. \A p : (Quiet(p)' <=> Quiet(p)) /\ \A q : With(p, q)' <=> With(p, q)
  BY <1>4, TrafficUnchanged, TrafficKept
<1>15. PidInv'
  <2>1. \A m \in Module : mod'[m] = mod[m]
    BY <1>6, <1>8 DEF Item
  <2>2. ASSUME NEW b \in Temp
        PROVE  /\ mod'[b] = "absent" <=> mod[b] = "absent"
               /\ mod'[b] \in {"absent", "NOT_STARTED", "INITIALIZED_TEMP", "BUSY_TEMP", "removed"}
    <3>1. b # a => mod'[b] = mod[b]
      BY <1>8 DEF Item
    <3>2. mod[b] \in {"absent", "NOT_STARTED", "INITIALIZED_TEMP", "BUSY_TEMP", "removed"}
      BY <1>1 DEF PidInv
    <3>3. QED
      BY <1>6, <1>8, <3>1, <3>2
  <2>3. pid' = pid /\ forked' = forked
    BY <1>4
  <2>4. QED
    BY <1>1, <2>1, <2>2, <2>3 DEF PidInv
<1>16. TypeOK'
  <2>1. \A j \in Item : Listed(j)' => pid'[j] # 0
    BY <1>15, ListedPids
  <2>2. QED
    BY <1>1, <1>4, <1>7, <1>8, <1>10, <2>1 DEF TypeOK
<1>17. TempInv'
  <2> SUFFICES ASSUME NEW b \in Temp
               PROVE  /\ mod'[b] # "absent" => carried[b] \in DOMAIN sel
                      /\ mod'[b] = "INITIALIZED_TEMP" =>
                           sel'[carried[b]].item = b /\ sel'[carried[b]].status = "IDLE"
    BY <1>4, <1>7 DEF TempInv
  <2>1. CASE b = a
    BY <1>5, <1>6, <1>7, <2>1
  <2>2. CASE b # a
    <3>1. mod'[b] = mod[b]
      BY <1>8, <2>2 DEF Item
    <3>2. mod[b] # "absent" => carried[b] \in DOMAIN sel
      BY <1>1 DEF TempInv
    <3>3. mod[b] = "INITIALIZED_TEMP" => sel[carried[b]].item = b /\ sel[carried[b]].status = "IDLE"
      BY <1>1 DEF TempInv
    <3>4. mod[b] = "INITIALIZED_TEMP" => carried[b] # r
      BY <1>5, <3>3, TestEngineAssumption
    <3>5. QED
      BY <1>7, <3>1, <3>2, <3>3, <3>4
  <2>3. QED
    BY <2>1, <2>2
<1>18. ASSUME NEW q \in DOMAIN sel, q # r PROVE RunOk(q)' /\ (Active(q)' <=> Active(q))
  <2>1. PICK j, p : j = sel[q].item /\ p = pid[j]
    OBVIOUS
  <2>2. RunOk(q) /\ sel'[q] = sel[q]
    BY <1>1, <1>7, <1>18 DEF RunInv
  <2>3. j \in Item
    BY <1>1, <2>1, SelDomain
  <2>4. j = a => Past(q)
    BY <1>6, <2>1, <2>2 DEF RunOk
  <2>5. pid'[j] = p /\ carried'[j] = carried[j] /\ (j # a => mod'[j] = mod[j])
    BY <1>4, <1>8, <2>1, <2>3
  <2>6. Past(q)' <=> Past(q)
    <3>1. j = a => carried[j] # q
      BY <1>6, <1>18
    <3>2. QED
      BY <2>1, <2>2, <2>5, <3>1 DEF Past
  <2>7. Active(q) => ~Past(q)
    BY DEF Active
  <2>8. sel[q].status = "IDLE" => ~Past(q)
    BY <2>2 DEF RunOk
  <2>9. QED
    BY <1>13, <1>14, <2>1, <2>2, <2>4, <2>5, <2>6, <2>7, <2>8, RunOkKept
<1>19. ~Active(r) /\ ~Active(r)'
  BY <1>5, <1>7 DEF Active
<1>20. RunOk(r)'
  <2>1. sel'[r].status = "IDLE" /\ sel'[r].result = 0
    BY <1>1, <1>5, <1>7 DEF RunInv, RunOk
  <2>2. carried'[sel'[r].item] = r /\ mod'[sel'[r].item] = "INITIALIZED_TEMP"
    BY <1>4, <1>6, <1>7, <1>8
  <2>3. QED
    BY <1>19, <2>1, <2>2 DEF RunOk, Past
<1>21. RunInv'
  <2>1. ASSUME NEW m \in Module, mod'[m] = "BUSY" PROVE \E q \in DOMAIN sel : Active(q)' /\ sel'[q].item = m
    <3>1. mod[m] = "BUSY"
      BY <1>6, <1>8, <2>1 DEF Item
    <3>2. PICK q \in DOMAIN sel : Active(q) /\ sel[q].item = m
      BY <1>1, <3>1 DEF RunInv
    <3>3. q # r
      BY <1>19, <3>2
    <3>4. Active(q)' /\ sel'[q].item = m
      BY <1>7, <1>18, <3>2, <3>3
    <3>5. QED
      BY <3>4
  <2>2. ASSUME NEW q \in DOMAIN sel, NEW s \in DOMAIN sel, Active(q)', Active(s)',
               sel'[q].item = sel'[s].item
        PROVE  q = s
    <3>1. q # r /\ s # r
      BY <1>19, <2>2
    <3>2. Active(q) /\ Active(s) /\ sel[q].item = sel[s].item
      BY <1>7, <1>18, <2>2, <3>1
    <3>3. QED
      BY <1>1, <3>2 DEF RunInv
  <2>3. \A q \in DOMAIN sel' : RunOk(q)'
    BY <1>7, <1>18, <1>20
  <2>4. QED
    BY <1>7, <2>1, <2>2, <2>3 DEF RunInv
<1>22. WorkInv'
  <2> SUFFICES ASSUME NEW p \in Pid
               PROVE  Quiet(p)' \/ \E q \in DOMAIN sel' : Active(q)' /\ pid'[sel'[q].item] = p /\ With(p, q)'
    BY DEF WorkInv
  <2>1. CASE Quiet(p)
    BY <1>14, <2>1
  <2>2. CASE ~Quiet(p)
    <3>1. PICK q \in DOMAIN sel : Active(q) /\ pid[sel[q].item] = p /\ With(p, q)
      BY <1>1, <2>2 DEF WorkInv
    <3>2. q # r
      BY <1>19, <3>1
    <3>3. q \in DOMAIN sel' /\ Active(q)' /\ pid'[sel'[q].item] = p /\ With(p, q)'
      BY <1>4, <1>7, <1>14, <1>18, <3>1, <3>2
    <3>4. QED
      BY <3>3
  <2>3. QED
    BY <2>1, <2>2
<1>23. ThreadInv'
  <2>1. \A u \in Thread : PlaceOk(u)'
    BY <1>11 DEF PlaceOk
  <2>2. at'["listener"].pc = "idle" /\ at'["user"].pc = "idle"
    BY <1>11 DEF Thread
  <2>3. todo' = todo /\ plugin' = plugin /\ Len(sel') = Len(sel)
    BY <1>4, <1>7
  <2>4. QED
    BY <1>1, <2>1, <2>2, <2>3 DEF ThreadInv
<1>24. GroupInv'
  <2> SUFFICES ASSUME plugin = "cli" PROVE \E g \in {0, 1} : GroupIs(g)' /\ (g # 0 => OneByOne')
    BY DEF GroupInv
  <2>1. PICK g \in {0, 1} : GroupIs(g) /\ (g # 0 => OneByOne)
    BY <1>1 DEF GroupInv
  <2>2. GroupIs(g)'
    BY <1>4, <1>7, <2>1 DEF GroupIs
  <2>3. g = 0
    BY <1>6, <2>1 DEF OneByOne
  <2>4. QED
    BY <2>2, <2>3
<1>25. CountInv'
  <2>1. \A m \in Module : mod'[m] = mod[m]
    BY <1>6, <1>8 DEF Item
  <2>2. Awaited' = Awaited
    BY <2>1 DEF Awaited
  <2>3. WithResults' = WithResults
    BY <1>7 DEF WithResults
  <2>4. QED
    BY <1>1, <1>4, <1>7, <2>1, <2>2, <2>3 DEF CountInv
<1>26. QED
  BY <1>15, <1>16, <1>17, <1>21, <1>22, <1>23, <1>24, <1>25 DEF IInv

(* All the steps of a call that starts a case.                             *)
LEMMA StartCaseStep ==
  ASSUME IInv, NEW t \in Thread, Alone(t), StartCase(t), UNCHANGED <<plugin, cli>>
  PROVE  IInv'
BY CheckGroupStep, SelectStep, ReadStatusStep, ExecuteStep, StartTempStep, SetTempStep,
   StatusFaultStep DEF StartCase

----------------------------------------------------------------------------
(* The steps of the user.                                                  *)

LEMMA NewGroupIsNat ==
  ASSUME TypeOK
  PROVE  NewGroup \in Nat /\ NewGroup # 0
<1> DEFINE G == {sel[r].group : r \in DOMAIN sel}
           f == [r \in DOMAIN sel |-> sel[r].group]
<1>1. IsFiniteSet(DOMAIN sel)
  BY SelDomain, FS_Interval
<1>2. f \in Surjection(DOMAIN sel, G)
  BY DEF Surjection
<1>3. IsFiniteSet(G)
  BY <1>1, <1>2, FS_Surjection
<1>4. IsFiniteSet(G \ {0})
  BY <1>3, FS_Subset
<1>5. Cardinality(G \ {0}) \in Nat
  BY <1>4, FS_CardinalityType
<1>6. QED
  BY <1>5 DEF NewGroup

(* What a thread is to start, all in one group.                            *)
LEMMA TodoList ==
  ASSUME NEW s \in Seq(Case), NEW g \in Nat, NEW d, d = [k \in DOMAIN s |-> <<s[k], g>>]
  PROVE  /\ d \in Seq(Case \X Nat) /\ Len(d) = Len(s)
         /\ \A k \in DOMAIN d : d[k][2] = g
<1>1. /\ Len(s) \in Nat /\ DOMAIN s = 1..Len(s) /\ \A k \in DOMAIN s : s[k] \in Case
  OBVIOUS
<1>2. d = [k \in 1..Len(s) |-> <<s[k], g>>]
  BY <1>1
<1>3. \A k \in 1..Len(s) : <<s[k], g>> \in Case \X Nat
  BY <1>1
<1>4. QED
  BY <1>1, <1>2, <1>3

(* A step that changes nothing but the calls to be made.                   *)
LEMMA UserStartsStep ==
  ASSUME IInv, Alone("user"), UserStarts, UNCHANGED <<plugin, cli>>
  PROVE  IInv'
<1>1. TypeOK /\ PidInv /\ TempInv /\ RunInv /\ WorkInv /\ ThreadInv /\ GroupInv /\ CountInv
  BY DEF IInv
<1>2. /\ plugin = "console" /\ todo["user"] = <<>> /\ at["user"].pc = "idle"
      /\ UNCHANGED <<mod, pid, carried, sel, forked, inbox, at, tmc, exe, going>>
  BY DEF UserStarts, tmcVars
<1>3. PICK order \in Orders, g \in {0, NewGroup} :
        /\ Len(sel) + Len(order) <= MaxRuns
        /\ todo' = [todo EXCEPT !["user"] = [k \in DOMAIN order |-> <<order[k], g>>]]
  BY DEF UserStarts
<1>4. order \in Seq(Case) /\ g \in Nat
  BY <1>1, NewGroupIsNat, TestEngineAssumption
<1>5. PICK d : d = [k \in DOMAIN order |-> <<order[k], g>>]
  OBVIOUS
<1>6. d \in Seq(Case \X Nat) /\ Len(d) = Len(order)
  BY <1>4, <1>5, TodoList
<1>7. /\ todo' \in [Thread -> Seq(Case \X Nat)] /\ todo'["user"] = d
      /\ todo'["listener"] = todo["listener"]
  BY <1>1, <1>3, <1>5, <1>6 DEF TypeOK, Thread
<1>8. SameEntries /\ SameModules /\ SameTask /\ SameHand
  BY <1>2, TrafficUnchanged, TrafficKept DEF SameEntries, SameModules, SameTask, SameHand, Hand
<1>9. TypeOK'
  BY <1>1, <1>2, <1>7 DEF TypeOK, Listed
<1>10. PidInv' /\ TempInv' /\ RunInv' /\ WorkInv'
  BY <1>1, <1>2, <1>8, PidInvKept, TempInvKept, RunInvKept, WorkInvKept
<1>11. ThreadInv'
  <2>1. at["listener"].pc = "idle" /\ todo["listener"] = <<>>
    BY <1>1, <1>2, OthersIdle DEF ThreadInv, Thread
  <2>2. \A u \in Thread : PlaceOk(u)'
    <3>1. \A u \in Thread : at'[u].pc = "idle"
      BY <1>2, <2>1 DEF Thread
    <3>2. QED
      BY <3>1 DEF PlaceOk
  <2>3. Len(sel') + Len(todo'["listener"]) + Len(todo'["user"]) <= MaxRuns
    <3>1. Len(sel) \in Nat /\ Len(order) \in Nat /\ Len(<<>>) = 0
      BY <1>1, <1>4 DEF TypeOK
    <3>2. PICK a, b \in Nat : a = Len(sel) /\ b = Len(order)
      BY <3>1
    <3>3. a + 0 + b = a + b
      OBVIOUS
    <3>4. Len(sel') = a /\ Len(todo'["listener"]) = 0 /\ Len(todo'["user"]) = b
      BY <1>2, <1>6, <1>7, <2>1, <3>1, <3>2
    <3>5. QED
      BY <1>3, <3>2, <3>3, <3>4, Zenon
  <2>4. plugin' = plugin /\ at' = at /\ todo'["listener"] = <<>>
    BY <1>2, <1>7, <2>1
  <2>5. QED
    BY <1>2, <2>1, <2>2, <2>3, <2>4 DEF ThreadInv
<1>12. GroupInv'
  BY <1>2 DEF GroupInv
<1>13. CountInv'
  BY <1>1, <1>2 DEF CountInv, Awaited, WithResults
<1>14. QED
  BY <1>9, <1>10, <1>11, <1>12, <1>13 DEF IInv

LEMMA UserControlsStep ==
  ASSUME IInv, Alone("user"), UserControls, UNCHANGED <<plugin, cli>>
  PROVE  IInv'
<1>1. TypeOK /\ ThreadInv
  BY DEF IInv
<1>2. /\ plugin = "console" /\ at["user"].pc = "idle"
      /\ UNCHANGED <<mod, pid, carried, sel, forked, inbox, todo, tmc, exe, going>>
  BY DEF UserControls, tmcVars
<1>3. PICK r \in DOMAIN sel :
        \/ sel[r].status = "ONGOING" /\ Goto("user", [Idle EXCEPT !.pc = "pause", !.r = r])
        \/ sel[r].status = "PAUSED" /\ Goto("user", [Idle EXCEPT !.pc = "resume", !.r = r])
  BY DEF UserControls
<1>4. r \in 0..MaxRuns
  BY <1>1, SelDomain, Numbers
<1>5. PICK place \in Place :
        /\ Goto("user", place) /\ place.r = r /\ place.pc \in {"pause", "resume"}
        /\ sel[r].status = IF place.pc = "pause" THEN "ONGOING" ELSE "PAUSED"
  <2>1. CASE sel[r].status = "ONGOING" /\ Goto("user", [Idle EXCEPT !.pc = "pause", !.r = r])
    <3>1. [Idle EXCEPT !.pc = "pause", !.r = r] \in Place
      BY <1>4, Fields
    <3>2. [Idle EXCEPT !.pc = "pause", !.r = r].pc = "pause" /\ [Idle EXCEPT !.pc = "pause", !.r = r].r = r
      BY DEF Idle
    <3>3. QED
      BY <2>1, <3>1, <3>2
  <2>2. CASE sel[r].status = "PAUSED" /\ Goto("user", [Idle EXCEPT !.pc = "resume", !.r = r])
    <3>1. [Idle EXCEPT !.pc = "resume", !.r = r] \in Place
      BY <1>4, Fields
    <3>2. [Idle EXCEPT !.pc = "resume", !.r = r].pc = "resume" /\ [Idle EXCEPT !.pc = "resume", !.r = r].r = r
      BY DEF Idle
    <3>3. QED
      BY <2>2, <3>1, <3>2
  <2>3. QED
    BY <1>3, <2>1, <2>2
<1>6. "user" \in Thread
  BY DEF Thread
<1>7. at'["user"] = place /\ at'["listener"] = at["listener"]
  BY <1>1, <1>5, <1>6, AtStep DEF Thread
<1>8. SameHand
  BY <1>7 DEF SameHand, Hand
<1>9. PlaceOk("user")'
  BY <1>2, <1>5, <1>7 DEF PlaceOk
<1>10. QED
  BY <1>2, <1>5, <1>6, <1>8, <1>9, PlaceStep

LEMMA UserSetsStatusStep ==
  ASSUME IInv, Alone("user"), UserSetsStatus, UNCHANGED <<plugin, cli>>
  PROVE  IInv'
<1>1. TypeOK /\ PidInv /\ TempInv /\ RunInv /\ WorkInv /\ ThreadInv /\ GroupInv /\ CountInv
  BY DEF IInv
<1>2. PICK r, pc : r = at["user"].r /\ pc = at["user"].pc
  OBVIOUS
<1>3. "user" \in Thread /\ pc \in {"pause", "resume"}
  BY <1>2 DEF UserSetsStatus, Thread
<1>4. /\ plugin = "console" /\ r \in DOMAIN sel
      /\ sel[r].status = IF pc = "pause" THEN "ONGOING" ELSE "PAUSED"
  BY <1>1, <1>2, <1>3 DEF ThreadInv, PlaceOk
<1>5. PICK v \in {"PAUSED", "ONGOING"} : sel' = [sel EXCEPT ![r].status = v]
  BY <1>2 DEF UserSetsStatus
<1>6. /\ Goto("user", Idle)
      /\ UNCHANGED <<mod, pid, carried, forked, inbox, todo, tmc, exe, going>>
  BY DEF UserSetsStatus, tmcVars
<1>7. /\ sel' \in Seq(Entry) /\ DOMAIN sel' = DOMAIN sel /\ Len(sel') = Len(sel)
      /\ \A q \in DOMAIN sel : q # r => sel'[q] = sel[q]
      /\ sel'[r].status = v /\ sel'[r].item = sel[r].item /\ sel'[r].group = sel[r].group
      /\ sel'[r].result = sel[r].result
  BY <1>1, <1>4, <1>5, SetStatus DEF CaseStatus
<1>8. Idle \in Place /\ Idle.pc = "idle"
  BY IdlePlace
<1>9. at' \in [Thread -> Place] /\ at'["user"] = Idle /\ at'["listener"] = at["listener"]
  BY <1>1, <1>3, <1>6, <1>8, AtStep DEF Thread
<1>10. \A u \in Thread : at'[u].pc = "idle"
  BY <1>3, <1>8, <1>9, OthersIdle DEF Thread
<1>11. SameEntries /\ SameModules /\ SameTask /\ SameHand
  <2>1. SameEntries
    <3>1. \A q \in DOMAIN sel : sel'[q].item = sel[q].item /\ sel'[q].result = sel[q].result
      BY <1>7
    <3>2. \A q \in DOMAIN sel : q # r => sel'[q].status = sel[q].status
      BY <1>7
    <3>3. sel[r].status \in {"ONGOING", "PAUSED"} /\ sel'[r].status \in {"ONGOING", "PAUSED"}
      BY <1>4, <1>7
    <3>4. QED
      BY <1>7, <3>1, <3>2, <3>3 DEF SameEntries
  <2>2. QED
    BY <1>6, <1>9, <2>1, TrafficUnchanged, TrafficKept DEF SameModules, SameTask, SameHand, Hand
<1>12. TypeOK'
  BY <1>1, <1>6, <1>7, <1>9 DEF TypeOK, Listed
<1>13. PidInv' /\ TempInv' /\ RunInv' /\ WorkInv'
  BY <1>1, <1>6, <1>11, PidInvKept, TempInvKept, RunInvKept, WorkInvKept
<1>14. ThreadInv'
  <2>1. \A u \in Thread : PlaceOk(u)'
    BY <1>10 DEF PlaceOk
  <2>2. at'["listener"].pc = "idle" /\ at'["user"].pc = "idle"
    BY <1>10 DEF Thread
  <2>3. todo' = todo /\ plugin' = plugin /\ Len(sel') = Len(sel)
    BY <1>6, <1>7
  <2>4. QED
    BY <1>1, <2>1, <2>2, <2>3 DEF ThreadInv
<1>15. GroupInv'
  BY <1>4 DEF GroupInv
<1>16. CountInv'
  <2>1. WithResults' = WithResults
    BY <1>7 DEF WithResults
  <2>2. QED
    BY <1>1, <1>4, <1>6, <1>7, <2>1 DEF CountInv, Awaited
<1>17. QED
  BY <1>12, <1>13, <1>14, <1>15, <1>16 DEF IInv

----------------------------------------------------------------------------
(* What the CLI counts.                                                    *)

LEMMA UpTo ==
  ASSUME NEW n \in Nat, NEW S \in SUBSET (1..n)
  PROVE  IsFiniteSet(S) /\ Cardinality(S) \in Nat /\ Cardinality(S) <= n
<1>1. IsFiniteSet(1..n) /\ Cardinality(1..n) = n
  BY FS_Interval
<1>2. QED
  BY <1>1, FS_Subset, FS_CardinalityType

LEMMA CliFields ==
  ASSUME TypeOK
  PROVE  /\ cli.heard \in SUBSET Module /\ cli.starting \in BOOLEAN
         /\ cli.ready \in Nat /\ cli.ready <= Cardinality(Module) /\ cli.cases \in Nat
         /\ cli.results \in 0..MaxRuns /\ cli.results <= cli.cases
         /\ Cardinality(Module) \in Nat /\ cli \in CliCounts
         /\ IsFiniteSet(Awaited) /\ Cardinality(Awaited) \in Nat
         /\ IsFiniteSet(WithResults) /\ Cardinality(WithResults) \in Nat
         /\ Cardinality(WithResults) <= Len(sel)
<1>1. cli \in CliCounts /\ cli.results <= cli.cases
  BY DEF TypeOK
<1>2. Cardinality(Module) \in Nat
  BY TestEngineAssumption, FS_CardinalityType
<1>3. IsFiniteSet(Awaited) /\ Cardinality(Awaited) \in Nat
  <2>1. Awaited \in SUBSET Module
    BY DEF Awaited
  <2>2. QED
    BY <2>1, TestEngineAssumption, FS_Subset, FS_CardinalityType
<1>4. /\ IsFiniteSet(WithResults) /\ Cardinality(WithResults) \in Nat
      /\ Cardinality(WithResults) <= Len(sel)
  <2>1. Len(sel) \in Nat /\ WithResults \in SUBSET (1..Len(sel))
    BY SelDomain DEF WithResults
  <2>2. QED
    BY <2>1, UpTo
<1>5. QED
  BY <1>1, <1>2, <1>3, <1>4 DEF CliCounts

LEMMA CliEndsStep ==
  ASSUME IInv, CliEnds, UNCHANGED plugin
  PROVE  IInv'
<1>1. TypeOK /\ PidInv /\ TempInv /\ RunInv /\ WorkInv /\ ThreadInv /\ GroupInv /\ CountInv
  BY DEF IInv
<1>2. cli' = [cli EXCEPT !.done = TRUE]
      /\ UNCHANGED <<mod, pid, carried, sel, forked, inbox, at, todo, tmc, exe, going>>
  BY DEF CliEnds, tmcVars
<1>3. /\ cli' \in CliCounts /\ cli'.results = cli.results /\ cli'.cases = cli.cases
      /\ cli'.ready = cli.ready /\ cli'.starting = cli.starting
  BY <1>1, <1>2, CliFields DEF CliCounts
<1>4. SameEntries /\ SameModules /\ SameTask /\ SameHand
  BY <1>2, TrafficUnchanged, TrafficKept DEF SameEntries, SameModules, SameTask, SameHand, Hand
<1>5. TypeOK'
  BY <1>1, <1>2, <1>3 DEF TypeOK, Listed
<1>6. PidInv' /\ TempInv' /\ RunInv' /\ WorkInv'
  BY <1>1, <1>2, <1>4, PidInvKept, TempInvKept, RunInvKept, WorkInvKept
<1>7. ThreadInv'
  BY <1>1, <1>2, ThreadsKept
<1>8. GroupInv'
  BY <1>1, <1>2, GroupsKept
<1>9. CountInv'
  BY <1>1, <1>2, <1>3 DEF CountInv, Awaited, WithResults
<1>10. QED
  BY <1>5, <1>6, <1>7, <1>8, <1>9 DEF IInv

LEMMA CliCountsReadyStep ==
  ASSUME IInv, CliCountsReady, UNCHANGED plugin
  PROVE  IInv'
<1>1. TypeOK /\ PidInv /\ TempInv /\ RunInv /\ WorkInv /\ ThreadInv /\ GroupInv /\ CountInv
  BY DEF IInv
<1>2. /\ cli.starting /\ cli' = [cli EXCEPT !.starting = FALSE, !.ready = @ + 1]
      /\ UNCHANGED <<mod, pid, carried, sel, forked, inbox, at, todo, tmc, exe, going>>
  BY DEF CliCountsReady, tmcVars
<1>3. cli.ready + 1 + Cardinality(Awaited) <= Cardinality(Module)
  BY <1>1, <1>2 DEF CountInv
<1>4. cli.ready + 1 \in 0..Cardinality(Module)
  BY <1>1, <1>3, CliFields
<1>5. /\ cli' \in CliCounts /\ cli'.results = cli.results /\ cli'.cases = cli.cases
      /\ cli'.ready = cli.ready + 1 /\ ~cli'.starting
  BY <1>1, <1>2, <1>4, CliFields DEF CliCounts
<1>6. SameEntries /\ SameModules /\ SameTask /\ SameHand
  BY <1>2, TrafficUnchanged, TrafficKept DEF SameEntries, SameModules, SameTask, SameHand, Hand
<1>7. TypeOK'
  BY <1>1, <1>2, <1>5 DEF TypeOK, Listed
<1>8. PidInv' /\ TempInv' /\ RunInv' /\ WorkInv'
  BY <1>1, <1>2, <1>6, PidInvKept, TempInvKept, RunInvKept, WorkInvKept
<1>9. ThreadInv'
  BY <1>1, <1>2, ThreadsKept
<1>10. GroupInv'
  BY <1>1, <1>2, GroupsKept
<1>11. CountInv'
  <2>1. Awaited' = Awaited /\ WithResults' = WithResults
    BY <1>2 DEF Awaited, WithResults
  <2>2. cli'.ready + (IF cli'.starting THEN 1 ELSE 0) + Cardinality(Awaited) <= Cardinality(Module)
    <3>1. cli.ready + 1 + 0 = cli.ready + 1
      BY <1>1, CliFields
    <3>2. cli'.ready + (IF cli'.starting THEN 1 ELSE 0) = cli.ready + 1
      BY <1>5, <3>1
    <3>3. QED
      BY <1>3, <3>2
  <2>3. QED
    BY <1>1, <1>2, <1>5, <2>1, <2>2 DEF CountInv
<1>12. QED
  BY <1>7, <1>8, <1>9, <1>10, <1>11 DEF IInv

----------------------------------------------------------------------------
(* The messages to the engine.                                             *)

LEMMA Received ==
  ASSUME IInv, Alone("listener"), NEW type, Receives(type),
         NEW m, m = Head(inbox)
  PROVE  /\ m \in Message /\ m.pid \in Pid /\ m.run \in 0..MaxRuns /\ m.type = type
         /\ inbox' \in Seq(Message)
         /\ \A u \in Thread : at[u].pc = "idle"
         /\ todo["listener"] = <<>> /\ ~cli.starting
<1>1. TypeOK
  BY DEF IInv
<1>2. inbox \in Seq(Message) /\ inbox # <<>> /\ inbox' = Tail(inbox)
  BY <1>1 DEF Receives, TypeOK
<1>3. m \in Message /\ inbox' \in Seq(Message)
  BY <1>2
<1>4. m.pid \in Pid /\ m.run \in 0..MaxRuns
  BY <1>3 DEF Message
<1>5. \A u \in Thread : at[u].pc = "idle"
  BY OthersIdle DEF Receives, Thread
<1>6. QED
  BY <1>3, <1>4, <1>5 DEF Receives

(* A message that brings no result and starts no case.                     *)
LEMMA NoticeKept ==
  ASSUME IInv, Alone("listener"), NEW type, type # "ret", Receives(type),
         UNCHANGED <<plugin, pid, carried, forked, at, exe, going>>, SameEntries, SameModules
  PROVE  /\ TempInv' /\ RunInv' /\ WorkInv' /\ inbox' \in Seq(Message)
         /\ \A u \in Thread : PlaceOk(u)'
<1>1. TypeOK /\ PidInv /\ TempInv /\ RunInv /\ WorkInv
  BY DEF IInv
<1>2. PICK m : m = Head(inbox)
  OBVIOUS
<1>3. m.type = type /\ inbox' \in Seq(Message) /\ \A u \in Thread : at[u].pc = "idle"
  BY <1>2, Received
<1>4. inbox # <<>> /\ inbox' = Tail(inbox)
  BY DEF Receives
<1>5. SameTask
  <2>1. ASSUME NEW q PROVE SameTraffic(q)
    <3>1. (NoRet(q)' <=> NoRet(q)) /\ \A r : OneRet(q, r)' <=> OneRet(q, r)
      BY <1>1, <1>2, <1>3, <1>4, InboxTaken
    <3>2. QED
      BY <3>1 DEF SameTraffic
  <2>2. QED
    BY <2>1, TrafficKept DEF SameTask
<1>6. SameHand
  BY DEF SameHand, Hand
<1>7. \A u \in Thread : PlaceOk(u)'
  <2>1. \A u \in Thread : at'[u].pc = "idle"
    BY <1>3
  <2>2. QED
    BY <2>1 DEF PlaceOk
<1>8. QED
  BY <1>1, <1>3, <1>5, <1>6, <1>7, TempInvKept, RunInvKept, WorkInvKept

LEMMA NoticeGroups ==
  ASSUME IInv, SameEntries, SameModules, UNCHANGED <<plugin, at, todo, carried>>,
         \A r \in DOMAIN sel : sel'[r].group = sel[r].group
  PROVE  GroupInv'
<1> SUFFICES ASSUME plugin = "cli" PROVE \E g \in {0, 1} : GroupIs(g)' /\ (g # 0 => OneByOne')
  BY DEF GroupInv
<1>1. PICK g \in {0, 1} : GroupIs(g) /\ (g # 0 => OneByOne)
  BY DEF IInv, GroupInv
<1>2. GroupIs(g)'
  BY <1>1 DEF GroupIs, SameEntries
<1>3. ASSUME g # 0 PROVE OneByOne'
  <2>1. OneByOne
    BY <1>1, <1>3
  <2>2. \A r \in DOMAIN sel : Active(r)' <=> Active(r)
    BY ActiveSame
  <2>3. DOMAIN sel' = DOMAIN sel
    BY DEF SameEntries
  <2>4. Starts(Hand)' => NothingGoing'
    <3>1. Starts(Hand)' <=> Starts(Hand)
      BY DEF Starts, Hand
    <3>2. QED
      BY <2>1, <2>2, <2>3, <3>1 DEF OneByOne, NothingGoing
  <2>5. \A a \in Temp : mod'[a] = "absent"
    BY <2>1 DEF OneByOne, SameModules, Item
  <2>6. \A q, r \in DOMAIN sel' : Active(q)' /\ Active(r)' => q = r
    BY <2>1, <2>2, <2>3 DEF OneByOne
  <2>7. QED
    BY <2>4, <2>5, <2>6 DEF OneByOne
<1>4. QED
  BY <1>2, <1>3

LEMMA NoticeThreads ==
  ASSUME IInv, UNCHANGED <<plugin, at, todo>>, Len(sel') = Len(sel),
         \A u \in Thread : PlaceOk(u)'
  PROVE  ThreadInv'
BY DEF IInv, ThreadInv

(* Whose status is one of these, among the items of a process.             *)
LEMMA FromItems ==
  ASSUME TypeOK, NEW p, NEW v
  PROVE  From(p, {v}) \in SUBSET Item /\ \A i \in From(p, {v}) : mod[i] = v
BY DEF From, ByPid

LEMMA HandleOkStep ==
  ASSUME IInv, Alone("listener"), HandleOk, UNCHANGED plugin
  PROVE  IInv'
<1>1. TypeOK /\ PidInv /\ TempInv /\ RunInv /\ WorkInv /\ ThreadInv /\ GroupInv /\ CountInv
  BY DEF IInv
<1>2. PICK m, p : m = Head(inbox) /\ p = m.pid
  OBVIOUS
<1>3. PICK S : S = From(p, {"INITIALIZED"})
  OBVIOUS
<1>4. /\ Receives("ok")
      /\ mod' = [i \in Item |-> IF i \in S THEN "TC_SENDING" ELSE mod[i]]
      /\ cli' = CliHears(S)
      /\ UNCHANGED <<pid, carried, sel, forked, todo, at, exe, going>>
      /\ tmc' = tmc \/ tmc' = [tmc EXCEPT ![p] = "asked"]
  BY <1>2, <1>3 DEF HandleOk
<1>5. p \in Pid
  BY <1>2, <1>4, Received
<1>6. S \in SUBSET Module /\ \A i \in S : mod[i] = "INITIALIZED"
  <2>1. S \in SUBSET Item /\ \A i \in S : mod[i] = "INITIALIZED"
    BY <1>1, <1>3, FromItems
  <2>2. QED
    BY <1>1, <2>1 DEF PidInv, Item
<1>7. /\ mod' \in [Item -> ModuleStatus] /\ \A i \in S : mod'[i] = "TC_SENDING"
      /\ \A i \in Item : i \notin S => mod'[i] = mod[i]
  BY <1>1, <1>4, <1>6 DEF TypeOK, ModuleStatus, Item
<1>8. SameEntries
  BY <1>4 DEF SameEntries
<1>9. SameModules
  BY <1>6, <1>7, TestEngineAssumption DEF SameModules, Item
<1>10. /\ TempInv' /\ RunInv' /\ WorkInv' /\ inbox' \in Seq(Message)
       /\ \A u \in Thread : PlaceOk(u)'
  <2>1. PICK type : type = "ok"
    OBVIOUS
  <2>2. type # "ret" /\ Receives(type)
    BY <1>4, <2>1
  <2>3. QED
    BY <1>4, <1>8, <1>9, <2>2, NoticeKept
<1>11. PidInv'
  <2>1. \A i \in Module : mod'[i] \in {"INITIALIZED", "TC_SENDING", "READY", "BUSY", "removed"}
    BY <1>1, <1>7 DEF PidInv, Item
  <2>2. \A a \in Temp : mod'[a] = mod[a]
    BY <1>6, <1>7, TestEngineAssumption DEF Item
  <2>3. pid' = pid /\ forked' = forked
    BY <1>4
  <2>4. QED
    BY <1>1, <2>1, <2>2, <2>3 DEF PidInv
<1>12. /\ cli' \in CliCounts /\ cli'.results = cli.results /\ cli'.cases = cli.cases
       /\ cli'.ready = cli.ready /\ cli'.starting = cli.starting
  BY <1>1, <1>4, <1>6, CliFields DEF CliCounts, CliHears
<1>13. TypeOK'
  <2>1. \A j \in Item : Listed(j)' => pid'[j] # 0
    BY <1>11, ListedPids
  <2>2. tmc' \in [Pid -> {"none", "boot", "up", "asked"}]
    BY <1>1, <1>4, <1>5 DEF TypeOK
  <2>3. QED
    BY <1>1, <1>4, <1>7, <1>10, <1>12, <2>1, <2>2 DEF TypeOK
<1>14. ThreadInv' /\ GroupInv'
  BY <1>4, <1>8, <1>9, <1>10, NoticeThreads, NoticeGroups
<1>15. CountInv'
  <2>1. Awaited' = Awaited
    BY <1>6, <1>7 DEF Awaited, Item
  <2>2. WithResults' = WithResults
    BY <1>4 DEF WithResults
  <2>3. plugin = "console" => \A i \in Module : mod'[i] \in {"READY", "BUSY", "removed"}
    BY <1>1, <1>6, <1>7 DEF CountInv, Item
  <2>4. QED
    BY <1>1, <1>4, <1>12, <2>1, <2>2, <2>3 DEF CountInv
<1>16. QED
  BY <1>10, <1>11, <1>13, <1>14, <1>15 DEF IInv

LEMMA HandleKoStep ==
  ASSUME IInv, Alone("listener"), HandleKo, UNCHANGED plugin
  PROVE  IInv'
<1>1. TypeOK /\ PidInv /\ TempInv /\ RunInv /\ WorkInv /\ ThreadInv /\ GroupInv /\ CountInv
  BY DEF IInv
<1>2. PICK m, p : m = Head(inbox) /\ p = m.pid
  OBVIOUS
<1>3. PICK S : S = From(p, {"INITIALIZED"})
  OBVIOUS
<1>4. /\ Receives("ko")
      /\ mod' = [i \in Item |-> IF i \in S THEN "removed" ELSE mod[i]]
      /\ UNCHANGED <<pid, carried, sel, forked, todo, at, exe, going, cli>>
      /\ tmc' = tmc \/ tmc' = [tmc EXCEPT ![p] = "none"]
  BY <1>2, <1>3 DEF HandleKo
<1>5. p \in Pid
  BY <1>2, <1>4, Received
<1>6. S \in SUBSET Module /\ \A i \in S : mod[i] = "INITIALIZED"
  <2>1. S \in SUBSET Item /\ \A i \in S : mod[i] = "INITIALIZED"
    BY <1>1, <1>3, FromItems
  <2>2. QED
    BY <1>1, <2>1 DEF PidInv, Item
<1>7. /\ mod' \in [Item -> ModuleStatus] /\ \A i \in S : mod'[i] = "removed"
      /\ \A i \in Item : i \notin S => mod'[i] = mod[i]
  BY <1>1, <1>4, <1>6 DEF TypeOK, ModuleStatus, Item
<1>8. SameEntries
  BY <1>4 DEF SameEntries
<1>9. SameModules
  BY <1>6, <1>7, TestEngineAssumption DEF SameModules, Item
<1>10. /\ TempInv' /\ RunInv' /\ WorkInv' /\ inbox' \in Seq(Message)
       /\ \A u \in Thread : PlaceOk(u)'
  <2>1. PICK type : type = "ko"
    OBVIOUS
  <2>2. type # "ret" /\ Receives(type)
    BY <1>4, <2>1
  <2>3. QED
    BY <1>4, <1>8, <1>9, <2>2, NoticeKept
<1>11. PidInv'
  <2>1. \A i \in Module : mod'[i] \in {"INITIALIZED", "TC_SENDING", "READY", "BUSY", "removed"}
    BY <1>1, <1>7 DEF PidInv, Item
  <2>2. \A a \in Temp : mod'[a] = mod[a]
    BY <1>6, <1>7, TestEngineAssumption DEF Item
  <2>3. pid' = pid /\ forked' = forked
    BY <1>4
  <2>4. QED
    BY <1>1, <2>1, <2>2, <2>3 DEF PidInv
<1>12. TypeOK'
  <2>1. \A j \in Item : Listed(j)' => pid'[j] # 0
    BY <1>11, ListedPids
  <2>2. tmc' \in [Pid -> {"none", "boot", "up", "asked"}]
    BY <1>1, <1>4, <1>5 DEF TypeOK
  <2>3. QED
    BY <1>1, <1>4, <1>7, <1>10, <2>1, <2>2 DEF TypeOK
<1>13. ThreadInv' /\ GroupInv'
  BY <1>4, <1>8, <1>9, <1>10, NoticeThreads, NoticeGroups
<1>14. CountInv'
  <2>1. Awaited' \in SUBSET Awaited
    BY <1>7 DEF Awaited, Item
  <2>2. Cardinality(Awaited)' <= Cardinality(Awaited) /\ Cardinality(Awaited)' \in Nat
    <3>1. Cardinality(Awaited') <= Cardinality(Awaited) /\ Cardinality(Awaited') \in Nat
      BY <1>1, <2>1, CliFields, FS_Subset, FS_CardinalityType
    <3>2. QED
      BY <3>1
  <2>3. WithResults' = WithResults
    BY <1>4 DEF WithResults
  <2>4. plugin = "console" => \A i \in Module : mod'[i] \in {"READY", "BUSY", "removed"}
    BY <1>1, <1>6, <1>7 DEF CountInv, Item
  <2>5. cli.ready + (IF cli.starting THEN 1 ELSE 0) + Cardinality(Awaited)' <= Cardinality(Module)
    <3>1. cli.ready + (IF cli.starting THEN 1 ELSE 0) \in Nat /\ Cardinality(Awaited) \in Nat
          /\ Cardinality(Module) \in Nat
      BY <1>1, CliFields
    <3>2. PICK a, b, c, d \in Nat :
            /\ a = cli.ready + (IF cli.starting THEN 1 ELSE 0) /\ b = Cardinality(Awaited)
            /\ c = Cardinality(Awaited)' /\ d = Cardinality(Module)
      BY <2>2, <3>1
    <3>3. a + b <= d /\ c <= b
      BY <1>1, <2>2, <3>2 DEF CountInv
    <3>4. a + c <= d
      BY <3>3
    <3>5. QED
      BY <3>2, <3>4, Zenon
  <2>6. QED
    BY <1>1, <1>4, <2>3, <2>4, <2>5 DEF CountInv
<1>15. QED
  BY <1>10, <1>11, <1>12, <1>13, <1>14 DEF IInv

LEMMA HandleRunIdStep ==
  ASSUME IInv, Alone("listener"), HandleRunId, UNCHANGED plugin
  PROVE  IInv'
<1>1. TypeOK /\ PidInv /\ TempInv /\ RunInv /\ WorkInv /\ ThreadInv /\ GroupInv /\ CountInv
  BY DEF IInv
<1>2. PICK S, r : S = {q \in DOMAIN sel : sel[q].status \in {"ONGOING"} /\ pid[sel[q].item] = Head(inbox).pid}
                  /\ r = First(S)
  OBVIOUS
<1>3. /\ Receives("runid")
      /\ sel' = IF r = 0 THEN sel ELSE [sel EXCEPT ![r].known = TRUE]
      /\ UNCHANGED <<mod, pid, carried, forked, todo, at, tmc, exe, going, cli>>
  BY <1>2 DEF HandleRunId, ExecutedBy, tmcVars
<1>4. r = 0 \/ r \in DOMAIN sel
  <2>1. S \in SUBSET Nat /\ 0 \notin S /\ S \subseteq DOMAIN sel
    BY <1>1, <1>2, SelDomain
  <2>2. QED
    BY <1>2, <2>1, FirstIs
<1>5. /\ sel' \in Seq(Entry) /\ DOMAIN sel' = DOMAIN sel /\ Len(sel') = Len(sel)
      /\ \A q \in DOMAIN sel :
           /\ sel'[q].status = sel[q].status /\ sel'[q].item = sel[q].item
           /\ sel'[q].group = sel[q].group /\ sel'[q].result = sel[q].result
  <2>1. CASE r = 0
    BY <1>1, <1>3, <2>1 DEF TypeOK
  <2>2. CASE r # 0
    <3>1. PICK b \in BOOLEAN : b = TRUE
      OBVIOUS
    <3>2. r \in DOMAIN sel /\ sel' = [sel EXCEPT ![r].known = b]
      BY <1>3, <1>4, <2>2, <3>1
    <3>3. QED
      BY <1>1, <3>2, SetKnown
  <2>3. QED
    BY <2>1, <2>2
<1>6. SameEntries /\ SameModules
  BY <1>3, <1>5 DEF SameEntries, SameModules
<1>7. /\ TempInv' /\ RunInv' /\ WorkInv' /\ inbox' \in Seq(Message)
      /\ \A u \in Thread : PlaceOk(u)'
  <2>1. PICK type : type = "runid"
    OBVIOUS
  <2>2. type # "ret" /\ Receives(type)
    BY <1>3, <2>1
  <2>3. QED
    BY <1>3, <1>6, <2>2, NoticeKept
<1>8. PidInv'
  BY <1>1, <1>3, PidInvKept
<1>9. TypeOK'
  BY <1>1, <1>3, <1>5, <1>7 DEF TypeOK, Listed
<1>10. ThreadInv' /\ GroupInv'
  BY <1>3, <1>5, <1>6, <1>7, NoticeThreads, NoticeGroups
<1>11. CountInv'
  <2>1. WithResults' = WithResults
    BY <1>5 DEF WithResults
  <2>2. QED
    BY <1>1, <1>3, <1>5, <2>1 DEF CountInv, Awaited
<1>12. QED
  BY <1>7, <1>8, <1>9, <1>10, <1>11 DEF IInv

(* A configured module is ready.                                           *)
LEMMA ModuleReadyStep ==
  ASSUME IInv, Alone("listener"), Receives("eot"), NEW i \in Item, ModuleReady(i),
         UNCHANGED <<plugin, pid, carried, forked, at, going>>
  PROVE  IInv'
<1>1. TypeOK /\ PidInv /\ TempInv /\ RunInv /\ WorkInv /\ ThreadInv /\ GroupInv /\ CountInv
  BY DEF IInv
<1>2. mod[i] = "TC_SENDING" /\ cli' = ReportedReady(i) /\ sel' = sel /\ exe' = exe
  BY DEF ModuleReady
<1>3. i \in Module /\ i \notin Temp /\ pid[i] = i /\ i \in Pid
  BY <1>1, <1>2, TestEngineAssumption DEF PidInv, Item, Pid
<1>4. plugin = "cli" /\ plugin # "console"
  BY <1>1, <1>2, <1>3, TestEngineAssumption DEF CountInv, TypeOK
<1>5. Listing[i] \in Seq(Case) /\ Len(Listing[i]) \in Nat /\ (Listing[i] = <<>> => Len(Listing[i]) = 0)
  BY <1>3, TestEngineAssumption
<1>6. /\ \A u \in Thread : at[u].pc = "idle"
      /\ todo["listener"] = <<>> /\ todo["user"] = <<>> /\ ~cli.starting
  <2>1. PICK type : type = "eot"
    OBVIOUS
  <2>2. Receives(type)
    BY <2>1
  <2>3. PICK m : m = Head(inbox)
    OBVIOUS
  <2>4. (\A u \in Thread : at[u].pc = "idle") /\ todo["listener"] = <<>> /\ ~cli.starting
    BY <2>2, <2>3, Received
  <2>5. QED
    BY <1>1, <1>4, <2>4 DEF ThreadInv
<1>7. PICK v \in {"removed", "READY"} : mod' = [mod EXCEPT ![i] = v]
  BY DEF ModuleReady
<1>8. /\ mod' \in [Item -> ModuleStatus] /\ mod'[i] = v /\ \A j \in Item : j # i => mod'[j] = mod[j]
  BY <1>1, <1>7 DEF TypeOK, ModuleStatus
<1>9. tmc' \in [Pid -> {"none", "boot", "up", "asked"}]
  BY <1>1, <1>3 DEF ModuleReady, TypeOK
<1>10. \/ Listing[i] = <<>> /\ todo' = todo
       \/ \E g \in {0, 1} :
            /\ Len(sel) + Len(Listing[i]) <= MaxRuns
            /\ \A r \in DOMAIN sel : sel[r].group = g
            /\ todo' = [todo EXCEPT !["listener"] = [k \in DOMAIN Listing[i] |-> <<Listing[i][k], g>>]]
  BY DEF ModuleReady, CliStarts
<1>11. SameEntries
  BY <1>2 DEF SameEntries
<1>12. SameModules
  BY <1>2, <1>3, <1>8 DEF SameModules, Item
<1>13. /\ TempInv' /\ RunInv' /\ WorkInv' /\ inbox' \in Seq(Message)
       /\ \A u \in Thread : PlaceOk(u)'
  <2>1. PICK type : type = "eot"
    OBVIOUS
  <2>2. type # "ret" /\ Receives(type)
    BY <2>1
  <2>3. QED
    BY <1>2, <1>11, <1>12, <2>2, NoticeKept
<1>14. PidInv'
  <2>1. \A m \in Module : mod'[m] \in {"INITIALIZED", "TC_SENDING", "READY", "BUSY", "removed"}
    BY <1>1, <1>8 DEF PidInv, Item
  <2>2. \A a \in Temp : mod'[a] = mod[a]
    BY <1>3, <1>8 DEF Item
  <2>3. pid' = pid /\ forked' = forked
    OBVIOUS
  <2>4. QED
    BY <1>1, <2>1, <2>2, <2>3 DEF PidInv
<1>15. /\ cli' \in CliCounts /\ cli'.results = cli.results
       /\ cli'.cases = cli.cases + Len(Listing[i])
       /\ cli'.ready = cli.ready /\ cli'.starting /\ cli'.results <= cli'.cases
  <2>1. cli.cases \in Nat /\ cli.results \in Nat /\ cli.results <= cli.cases /\ cli \in CliCounts
    BY <1>1, CliFields
  <2>2. cli.cases + Len(Listing[i]) \in Nat /\ cli.results <= cli.cases + Len(Listing[i])
    BY <1>5, <2>1
  <2>3. PICK n \in Nat : n = cli.cases + Len(Listing[i])
    BY <2>2
  <2>4. cli' = [cli EXCEPT !.cases = n, !.starting = TRUE]
    BY <1>2, <2>3 DEF ReportedReady
  <2>5. /\ cli' \in CliCounts /\ cli'.results = cli.results /\ cli'.cases = n
        /\ cli'.ready = cli.ready /\ cli'.starting
    BY <2>1, <2>4 DEF CliCounts
  <2>6. QED
    BY <2>2, <2>3, <2>5
(* What is left to start: the cases of the module, in one group.           *)
<1>16. /\ todo' \in [Thread -> Seq(Case \X Nat)] /\ todo'["user"] = <<>>
       /\ Len(todo'["listener"]) = Len(Listing[i])
       /\ Len(sel) + Len(todo'["listener"]) <= MaxRuns
       /\ \E g \in {0, 1} : GroupIs(g)' /\ (g = 0 \/ OneByOne \/ sel = <<>>)
  <2>1. CASE Listing[i] = <<>> /\ todo' = todo
    <3>1. Len(sel) \in Nat /\ Len(sel) + 0 <= MaxRuns
      BY <1>1 DEF TypeOK
    <3>2. Len(todo'["listener"]) = 0
      BY <1>6, <2>1
    <3>3. \E g \in {0, 1} : GroupIs(g) /\ (g # 0 => OneByOne)
      BY <1>1, <1>4 DEF GroupInv
    <3>4. \E g \in {0, 1} : GroupIs(g)' /\ (g = 0 \/ OneByOne \/ sel = <<>>)
      BY <1>2, <2>1, <3>3 DEF GroupIs
    <3>5. todo' \in [Thread -> Seq(Case \X Nat)] /\ todo'["user"] = <<>>
      BY <1>1, <1>6, <2>1 DEF TypeOK
    <3>6. Len(todo'["listener"]) = Len(Listing[i])
      BY <1>5, <2>1, <3>2
    <3>7. Len(sel) + Len(todo'["listener"]) <= MaxRuns
      BY <3>1, <3>2
    <3>8. QED
      BY <3>4, <3>5, <3>6, <3>7, Zenon
  <2>2. CASE \E g \in {0, 1} :
            /\ Len(sel) + Len(Listing[i]) <= MaxRuns
            /\ \A r \in DOMAIN sel : sel[r].group = g
            /\ todo' = [todo EXCEPT !["listener"] = [k \in DOMAIN Listing[i] |-> <<Listing[i][k], g>>]]
    <3>1. PICK g \in {0, 1} :
            /\ Len(sel) + Len(Listing[i]) <= MaxRuns
            /\ \A r \in DOMAIN sel : sel[r].group = g
            /\ todo' = [todo EXCEPT !["listener"] = [k \in DOMAIN Listing[i] |-> <<Listing[i][k], g>>]]
      BY <2>2
    <3>2. PICK d : d = [k \in DOMAIN Listing[i] |-> <<Listing[i][k], g>>]
      OBVIOUS
    <3>3. d \in Seq(Case \X Nat) /\ Len(d) = Len(Listing[i]) /\ \A k \in DOMAIN d : d[k][2] = g
      BY <1>5, <3>2, TodoList
    <3>4. /\ todo' \in [Thread -> Seq(Case \X Nat)] /\ todo'["user"] = todo["user"]
          /\ todo'["listener"] = d
      BY <1>1, <3>1, <3>2, <3>3 DEF TypeOK, Thread
    <3>5. GroupIs(g)'
      BY <1>2, <3>1, <3>3, <3>4 DEF GroupIs
    <3>6. g = 0 \/ OneByOne \/ sel = <<>>
      <4>1. PICK h \in {0, 1} : GroupIs(h) /\ (h # 0 => OneByOne)
        BY <1>1, <1>4 DEF GroupInv
      <4>2. CASE DOMAIN sel = {}
        BY <1>1, <4>2 DEF TypeOK
      <4>3. CASE DOMAIN sel # {}
        BY <3>1, <4>1, <4>3 DEF GroupIs
      <4>4. QED
        BY <4>2, <4>3
    <3>7. QED
      BY <1>6, <3>1, <3>3, <3>4, <3>5, <3>6
  <2>3. QED
    BY <1>10, <2>1, <2>2
<1>17. TypeOK'
  <2>1. \A j \in Item : Listed(j)' => pid'[j] # 0
    BY <1>14, ListedPids
  <2>2. going' = going /\ forked' = forked /\ at' = at /\ pid' = pid /\ carried' = carried /\ plugin' = plugin
    OBVIOUS
  <2>3. QED
    BY <1>1, <1>2, <1>8, <1>9, <1>13, <1>15, <1>16, <2>1, <2>2 DEF TypeOK
<1>18. ThreadInv'
  <2>1. Len(sel') + Len(todo'["listener"]) + Len(todo'["user"]) <= MaxRuns
    <3>1. Len(todo'["user"]) = 0 /\ Len(sel) \in Nat /\ Len(todo'["listener"]) \in Nat
      BY <1>1, <1>5, <1>16 DEF TypeOK
    <3>2. PICK a, b \in Nat : a = Len(sel) /\ b = Len(todo'["listener"])
      BY <3>1
    <3>3. a + b + 0 = a + b
      OBVIOUS
    <3>4. QED
      BY <1>2, <1>16, <3>1, <3>2, <3>3, Zenon
  <2>2. at' = at /\ plugin' = plugin
    OBVIOUS
  <2>3. at["listener"].pc = "idle" /\ at["user"].pc = "idle"
    BY <1>6 DEF Thread
  <2>4. QED
    BY <1>4, <1>13, <1>16, <2>1, <2>2, <2>3 DEF ThreadInv
<1>19. GroupInv'
  <2>1. PICK g \in {0, 1} : GroupIs(g)' /\ (g = 0 \/ OneByOne \/ sel = <<>>)
    BY <1>16
  <2>2. ~Starts(Hand)'
    <3>1. Hand'.pc = "idle"
      BY <1>6 DEF Hand, Thread
    <3>2. QED
      BY <3>1 DEF Starts
  <2>3. ASSUME g # 0 PROVE OneByOne'
    <3>1. \A a \in Temp : mod'[a] = "absent"
      <4>1. CASE OneByOne
        BY <1>3, <1>8, <4>1 DEF OneByOne, Item
      <4>2. CASE sel = <<>>
        <5>1. DOMAIN sel = {}
          BY <4>2
        <5>2. \A a \in Temp : mod[a] = "absent"
          BY <1>1, <5>1 DEF TempInv
        <5>3. QED
          BY <1>3, <1>8, <5>2 DEF Item
      <4>3. QED
        BY <2>1, <2>3, <4>1, <4>2
    <3>2. \A q, r \in DOMAIN sel' : Active(q)' /\ Active(r)' => q = r
      <4>1. CASE OneByOne
        BY <1>2, <1>11, <1>12, <4>1, ActiveSame DEF OneByOne
      <4>2. CASE sel = <<>>
        BY <1>2, <4>2
      <4>3. QED
        BY <2>1, <2>3, <4>1, <4>2
    <3>3. QED
      BY <2>2, <3>1, <3>2 DEF OneByOne
  <2>4. QED
    BY <2>1, <2>3 DEF GroupInv
<1>20. CountInv'
  <2>1. Awaited' = Awaited \ {i} /\ i \in Awaited
    BY <1>2, <1>3, <1>8 DEF Awaited, Item
  <2>2. Cardinality(Awaited)' = Cardinality(Awaited) - 1
    <3>1. Cardinality(Awaited') = Cardinality(Awaited) - 1
      BY <1>1, <2>1, CliFields, FS_RemoveElement
    <3>2. QED
      BY <3>1
  <2>3. cli'.ready + (IF cli'.starting THEN 1 ELSE 0) + Cardinality(Awaited)' <= Cardinality(Module)
    <3>1. cli.ready \in Nat /\ Cardinality(Awaited) \in Nat /\ Cardinality(Module) \in Nat
      BY <1>1, CliFields
    <3>2. PICK a, b, d \in Nat : a = cli.ready /\ b = Cardinality(Awaited) /\ d = Cardinality(Module)
      BY <3>1
    <3>3. cli.ready + 0 + Cardinality(Awaited) <= Cardinality(Module)
      BY <1>1, <1>6 DEF CountInv
    <3>4. a + 1 + (b - 1) <= d
      BY <3>2, <3>3
    <3>5. cli'.ready + (IF cli'.starting THEN 1 ELSE 0) = a + 1
      BY <1>15, <3>2
    <3>6. QED
      BY <2>2, <3>2, <3>4, <3>5, Zenon
  <2>4. WithResults' = WithResults
    BY <1>2 DEF WithResults
  <2>5. cli'.cases = Len(sel') + Len(todo'["listener"])
    <3>1. cli.cases = Len(sel) + 0 /\ Len(sel) \in Nat
      BY <1>1, <1>4, <1>6 DEF CountInv, TypeOK
    <3>2. PICK a \in Nat : a = Len(sel)
      BY <3>1
    <3>3. cli.cases = a
      BY <3>1, <3>2
    <3>4. QED
      BY <1>2, <1>15, <1>16, <3>2, <3>3, Zenon
  <2>6. plugin' = plugin
    OBVIOUS
  <2>7. QED
    BY <1>1, <1>4, <1>15, <2>3, <2>4, <2>5, <2>6 DEF CountInv
<1>21. QED
  BY <1>13, <1>14, <1>17, <1>18, <1>19, <1>20 DEF IInv

(* A temporary module gets its case.                                       *)
LEMMA TempReadyStep ==
  ASSUME IInv, Alone("listener"), Receives("eot"), NEW i \in Item, TempReady(i),
         UNCHANGED <<plugin, pid, carried, forked, at, going>>
  PROVE  IInv'
<1>1. TypeOK /\ PidInv /\ TempInv /\ RunInv /\ WorkInv /\ ThreadInv /\ GroupInv /\ CountInv
  BY DEF IInv
<1>2. PICK r : r = carried[i]
  OBVIOUS
<1>3. /\ mod[i] = "INITIALIZED_TEMP" /\ mod' = [mod EXCEPT ![i] = "BUSY_TEMP"]
      /\ sel' = [sel EXCEPT ![r].status = "ONGOING"]
      /\ exe' = [exe EXCEPT ![pid[i]] = Append(@, r)]
      /\ todo' = todo /\ tmc' = tmc /\ cli' = cli
  BY <1>2 DEF TempReady, Send
<1>4. i \in Temp /\ i \notin Module
  BY <1>1, <1>3, TestEngineAssumption DEF PidInv, Item
<1>5. r \in DOMAIN sel /\ sel[r].item = i /\ sel[r].status = "IDLE"
  BY <1>1, <1>2, <1>3, <1>4 DEF TempInv
<1>6. /\ inbox' \in Seq(Message) /\ \A u \in Thread : at[u].pc = "idle"
      /\ \A q : (NoRet(q)' <=> NoRet(q)) /\ \A n : OneRet(q, n)' <=> OneRet(q, n)
  <2>1. PICK type : type = "eot"
    OBVIOUS
  <2>2. Receives(type) /\ type # "ret"
    BY <2>1
  <2>3. PICK m : m = Head(inbox)
    OBVIOUS
  <2>4. inbox' \in Seq(Message) /\ (\A u \in Thread : at[u].pc = "idle") /\ m.type = type
    BY <2>2, <2>3, Received
  <2>5. inbox # <<>> /\ inbox' = Tail(inbox)
    BY DEF Receives
  <2>6. \A q : (NoRet(q)' <=> NoRet(q)) /\ \A n : OneRet(q, n)' <=> OneRet(q, n)
    BY <1>1, <2>2, <2>3, <2>4, <2>5, InboxTaken
  <2>7. QED
    BY <2>4, <2>6
<1>7. Hand.pc \notin {"credit", "tempfind", "tempend"} /\ Hand'.pc \notin {"credit", "tempfind", "tempend"}
  BY <1>6 DEF Hand, Thread
<1>8. /\ PidInv' /\ TempInv' /\ RunInv' /\ WorkInv'
      /\ exe' \in [Pid -> Seq(Run)] /\ mod' \in [Item -> ModuleStatus] /\ sel' \in Seq(Entry)
      /\ Len(sel') = Len(sel) /\ DOMAIN sel' = DOMAIN sel /\ WithResults' = WithResults
      /\ \A q \in DOMAIN sel : sel'[q].group = sel[q].group
      /\ \A q \in DOMAIN sel : Active(q)' <=> Active(q) \/ q = r
  <2>1. mod' = [mod EXCEPT ![i] = IF i \in Module THEN "BUSY" ELSE "BUSY_TEMP"]
    BY <1>3, <1>4
  <2>2. Listed(i) /\ mod[i] \notin {"BUSY", "BUSY_TEMP"}
    BY <1>3 DEF Listed
  <2>3. UNCHANGED <<pid, carried, forked, going>>
    OBVIOUS
  <2>4. sel' = [sel EXCEPT ![r].status = "ONGOING"] /\ exe' = [exe EXCEPT ![pid[i]] = Append(@, r)]
    BY <1>3
  <2>5. QED
    BY <1>1, <1>5, <1>6, <1>7, <2>1, <2>2, <2>3, <2>4, RunStarted
<1>9. \A j \in Item : j # i => mod'[j] = mod[j]
  BY <1>1, <1>3 DEF TypeOK
<1>10. TypeOK'
  <2>1. \A j \in Item : Listed(j)' => pid'[j] # 0
    BY <1>8, ListedPids
  <2>2. at' = at /\ pid' = pid /\ carried' = carried /\ forked' = forked /\ going' = going /\ plugin' = plugin
    OBVIOUS
  <2>3. QED
    BY <1>1, <1>3, <1>6, <1>8, <2>1, <2>2 DEF TypeOK
<1>11. ThreadInv'
  <2>1. \A u \in Thread : PlaceOk(u)'
    BY <1>6 DEF PlaceOk
  <2>2. QED
    BY <1>3, <1>8, <2>1, NoticeThreads
<1>12. GroupInv'
  <2> SUFFICES ASSUME plugin = "cli" PROVE \E g \in {0, 1} : GroupIs(g)' /\ (g # 0 => OneByOne')
    BY DEF GroupInv
  <2>1. PICK g \in {0, 1} : GroupIs(g) /\ (g # 0 => OneByOne)
    BY <1>1 DEF GroupInv
  <2>2. GroupIs(g)'
    BY <1>3, <1>8, <2>1 DEF GroupIs
  <2>3. g = 0
    BY <1>3, <1>4, <2>1 DEF OneByOne
  <2>4. QED
    BY <2>2, <2>3
<1>13. CountInv'
  <2>1. \A m \in Module : mod'[m] = mod[m]
    BY <1>4, <1>9 DEF Item
  <2>2. Awaited' = Awaited
    BY <2>1 DEF Awaited
  <2>3. plugin' = plugin
    OBVIOUS
  <2>4. QED
    BY <1>1, <1>3, <1>8, <2>1, <2>2, <2>3 DEF CountInv
<1>14. QED
  BY <1>8, <1>10, <1>11, <1>12, <1>13 DEF IInv

LEMMA HandleTcdStep ==
  ASSUME IInv, Alone("listener"), HandleTcd, UNCHANGED plugin
  PROVE  IInv'
<1>1. PICK i \in ByPid(Head(inbox).pid) : ModuleReady(i) \/ TempReady(i)
  BY DEF HandleTcd
<1>2. i \in Item
  BY DEF ByPid
<1>3. Receives("eot") /\ UNCHANGED <<plugin, pid, carried, forked, at, going>>
  BY DEF HandleTcd
<1>4. QED
  BY <1>1, <1>2, <1>3, ModuleReadyStep, TempReadyStep

----------------------------------------------------------------------------
(* From a MSG_RET to the next case.                                        *)

(* The first of a set with one member.                                     *)
LEMMA FirstOne ==
  ASSUME NEW r \in Nat, NEW S, S = {r}
  PROVE  First(S) = r
<1>1. S # {} /\ \E s \in S : \A q \in S : s <= q
  OBVIOUS
<1>2. (CHOOSE s \in S : \A q \in S : s <= q) \in S
  BY <1>1
<1>3. QED
  BY <1>1, <1>2 DEF First

LEMMA ResultCounted ==
  ASSUME TypeOK, CountInv, ThreadInv, NEW r \in DOMAIN sel, sel[r].result = 0,
         DOMAIN sel' = DOMAIN sel, Len(sel') = Len(sel),
         \A q \in DOMAIN sel : q # r => sel'[q].result = sel[q].result,
         sel'[r].result # 0, cli' = ResultTold(r),
         UNCHANGED <<plugin, todo>>, sel' \in Seq(Entry),
         \A m \in Module : (mod[m] = "BUSY" /\ mod'[m] = "READY") \/ mod'[m] = mod[m]
  PROVE  CountInv' /\ cli' \in CliCounts /\ cli'.results <= cli'.cases
<1>1. WithResults' = WithResults \cup {r} /\ r \notin WithResults
  BY DEF WithResults
<1>2. /\ Cardinality(WithResults') = Cardinality(WithResults) + 1
      /\ Cardinality(WithResults') <= Len(sel) /\ Cardinality(WithResults') \in Nat
  <2>1. Cardinality(WithResults') = Cardinality(WithResults) + 1
    BY <1>1, CliFields, FS_AddElement
  <2>2. Len(sel) \in Nat /\ WithResults' \in SUBSET (1..Len(sel))
    BY SelDomain DEF WithResults
  <2>3. Cardinality(WithResults') <= Len(sel) /\ Cardinality(WithResults') \in Nat
    BY <2>2, UpTo
  <2>4. QED
    BY <2>1, <2>3
<1>3. /\ cli \in CliCounts /\ cli.results \in 0..MaxRuns /\ cli.cases \in Nat
      /\ Len(sel) \in Nat /\ Len(sel) <= MaxRuns /\ MaxRuns \in Nat
      /\ Cardinality(WithResults) \in Nat /\ cli.results <= Cardinality(WithResults)
  BY CliFields, TestEngineAssumption DEF TypeOK, CountInv
<1>4. \/ cli' = cli
      \/ plugin = "cli" /\ cli' = [cli EXCEPT !.results = cli.results + 1]
  BY DEF ResultTold, CliKnows
<1>5. plugin = "cli" => cli.results + 1 <= cli.cases /\ cli.results + 1 \in 0..MaxRuns
  <2> SUFFICES ASSUME plugin = "cli" PROVE cli.results + 1 <= cli.cases /\ cli.results + 1 \in 0..MaxRuns
    OBVIOUS
  <2>1. cli.cases = Len(sel) + Len(todo["listener"]) /\ Len(todo["listener"]) \in Nat
    BY DEF CountInv, TypeOK, Thread
  <2>0. cli.results \in Nat /\ Cardinality(WithResults) \in Nat /\ Len(sel) \in Nat
    BY <1>3
  <2>2. PICK a, b, c, d \in Nat : /\ a = cli.results /\ b = Cardinality(WithResults)
                                  /\ c = Len(sel) /\ d = Len(todo["listener"])
    BY <2>0, <2>1
  <2>3. a <= b /\ b + 1 <= c /\ c <= MaxRuns
    BY <1>2, <1>3, <2>2
  <2>4. a + 1 <= c + d /\ a + 1 \in 0..MaxRuns
    BY <1>3, <2>3
  <2>5. cli.cases = c + d
    BY <2>1, <2>2, Zenon
  <2>6. QED
    BY <2>2, <2>4, <2>5, Zenon
<1>6. /\ cli' \in CliCounts /\ cli'.cases = cli.cases /\ cli'.ready = cli.ready
      /\ cli'.starting = cli.starting
      /\ cli'.results = cli.results \/ (plugin = "cli" /\ cli'.results = cli.results + 1)
  BY <1>3, <1>4, <1>5 DEF CliCounts
<1>7. cli'.results <= cli'.cases
  BY <1>5, <1>6 DEF TypeOK
<1>8. cli'.results <= Cardinality(WithResults')
  BY <1>2, <1>3, <1>6
<1>9. Awaited' = Awaited
  BY DEF Awaited
<1>10. plugin = "console" => cli'.results = 0 /\ \A m \in Module : mod'[m] \in {"READY", "BUSY", "removed"}
  <2>1. plugin = "console" => plugin # "cli"
    OBVIOUS
  <2>2. QED
    BY <1>6, <2>1 DEF CountInv
<1>11. CountInv'
  BY <1>6, <1>8, <1>9, <1>10 DEF CountInv
<1>12. QED
  BY <1>6, <1>7, <1>11

(* The case a MSG_RET is about, and what else is known of it.              *)
LEMMA RetOwner ==
  ASSUME IInv, Alone("listener"), Receives("ret"), NEW p, p = Head(inbox).pid,
         UNCHANGED <<exe, going>>
  PROVE  \E r \in DOMAIN sel :
           /\ p \in Pid /\ Active(r) /\ pid[sel[r].item] = p /\ ByPid(p) = {sel[r].item}
           /\ \A q \in DOMAIN sel : Active(q) /\ pid[sel[q].item] = p => q = r
           /\ r = Head(inbox).run /\ Quiet(p)' /\ sel[r].result = 0
           /\ \A q : q # p => (Quiet(q)' <=> Quiet(q)) /\ \A n : With(q, n)' <=> With(q, n)
<1>1. TypeOK /\ PidInv /\ RunInv /\ WorkInv
  BY DEF IInv
<1>2. PICK m : m = Head(inbox)
  OBVIOUS
<1>3. p \in Pid /\ m.type = "ret" /\ m.pid = p
  <2>1. PICK type : type = "ret"
    OBVIOUS
  <2>2. Receives(type)
    BY <2>1
  <2>3. QED
    BY <1>2, <2>1, <2>2, Received
<1>4. inbox # <<>> /\ inbox' = Tail(inbox)
  BY DEF Receives
<1>5. ~NoRet(p) /\ \A n : OneRet(p, n) => n = m.run /\ NoRet(p)'
  BY <1>1, <1>2, <1>3, <1>4, InboxTaken
<1>6. ~Quiet(p)
  BY <1>5 DEF Quiet
<1>7. PICK r \in DOMAIN sel :
        /\ Active(r) /\ pid[sel[r].item] = p /\ With(p, r) /\ ByPid(p) = {sel[r].item}
        /\ \A q \in DOMAIN sel : Active(q) /\ pid[sel[q].item] = p => q = r
  BY <1>1, <1>3, <1>6, BusyProcess
<1>8. exe[p] = <<>> /\ going[p] = {} /\ OneRet(p, r)
  BY <1>5, <1>7, WithOne
<1>9. r = m.run /\ Quiet(p)'
  BY <1>5, <1>8 DEF Quiet
<1>10. sel[r].result = 0
  <2>1. RunOk(r)
    BY <1>1 DEF RunInv
  <2>2. QED
    BY <1>6, <1>7, <2>1 DEF RunOk
<1>11. ASSUME NEW q, q # p PROVE (Quiet(q)' <=> Quiet(q)) /\ \A n : With(q, n)' <=> With(q, n)
  <2>1. (NoRet(q)' <=> NoRet(q)) /\ \A n : OneRet(q, n)' <=> OneRet(q, n)
    BY <1>1, <1>2, <1>3, <1>4, <1>11, InboxTaken
  <2>2. SameTraffic(q)
    BY <2>1 DEF SameTraffic
  <2>3. QED
    BY <2>2, TrafficKept
<1>12. QED
  BY <1>2, <1>3, <1>7, <1>9, <1>10, <1>11

LEMMA HandleRetStep ==
  ASSUME IInv, Alone("listener"), HandleRet, UNCHANGED plugin
  PROVE  IInv'
<1>1. TypeOK /\ PidInv /\ TempInv /\ RunInv /\ WorkInv /\ ThreadInv /\ GroupInv /\ CountInv
  BY DEF IInv
<1>2. PICK p, n : p = Head(inbox).pid /\ n = Head(inbox).run
  OBVIOUS
<1>3. /\ Receives("ret")
      /\ UNCHANGED <<mod, pid, carried, forked, todo, tmc, exe, going>>
  BY DEF HandleRet, tmcVars
<1>4. PICK r \in DOMAIN sel :
        /\ p \in Pid /\ Active(r) /\ pid[sel[r].item] = p /\ ByPid(p) = {sel[r].item}
        /\ \A q \in DOMAIN sel : Active(q) /\ pid[sel[q].item] = p => q = r
        /\ r = n /\ Quiet(p)' /\ sel[r].result = 0
        /\ \A q : q # p => (Quiet(q)' <=> Quiet(q)) /\ \A k : With(q, k)' <=> With(q, k)
  BY <1>2, <1>3, RetOwner
<1>5. PICK i : i = sel[r].item
  OBVIOUS
<1>6. i \in Item /\ mod[i] \in {"BUSY", "BUSY_TEMP"} /\ pid[i] = p
  BY <1>1, <1>4, <1>5, ActiveItem
<1>7. r \in Nat /\ r # 0 /\ r \in 0..MaxRuns
  BY <1>1, <1>4, SelDomain, Numbers
<1>8. RunOk(r)
  BY <1>1, <1>4 DEF RunInv
<1>9. inbox' \in Seq(Message) /\ \A u \in Thread : at[u].pc = "idle"
  <2>1. PICK type, m : type = "ret" /\ m = Head(inbox)
    OBVIOUS
  <2>2. Receives(type)
    BY <1>3, <2>1
  <2>3. QED
    BY <2>1, <2>2, Received
(* The two branches: the case of a temporary module, or of a configured one. *)
<1>10. PICK place \in Place :
         /\ Goto("listener", place) /\ place.from = p /\ place.ret = r
         /\ \/ /\ place.pc = "tempfind" /\ i \in Temp /\ carried[i] = r
               /\ sel' = [sel EXCEPT ![r].result = r] /\ cli' = ResultTold(r)
            \/ /\ place.pc = "credit" /\ place.r = r /\ i \in Module /\ sel' = sel /\ cli' = cli
  <2>1. CASE mod[i] = "BUSY_TEMP"
    <3>1. i \in Temp
      BY <1>1, <1>6, <2>1 DEF PidInv, Item
    <3>2. carried[i] = r
      BY <1>4, <1>5, <3>1 DEF Active, Past
    <3>3. {a \in ByPid(p) : mod[a] = "BUSY_TEMP"} = {i}
      BY <1>4, <1>5, <2>1
    <3>4. PICK a \in {i} :
            /\ sel' = [sel EXCEPT ![carried[a]].result = Head(inbox).run]
            /\ cli' = ResultTold(carried[a])
            /\ Goto("listener", [Idle EXCEPT !.from = p, !.ret = Head(inbox).run, !.pc = "tempfind"])
      BY <1>2, <3>3 DEF HandleRet
    <3>5. a = i
      OBVIOUS
    <3>6. /\ sel' = [sel EXCEPT ![r].result = r] /\ cli' = ResultTold(r)
          /\ Goto("listener", [Idle EXCEPT !.pc = "tempfind", !.from = p, !.ret = r])
      <4>1. [Idle EXCEPT !.from = p, !.ret = r, !.pc = "tempfind"]
              = [Idle EXCEPT !.pc = "tempfind", !.from = p, !.ret = r]
        BY DEF Idle
      <4>2. QED
        BY <1>2, <1>4, <3>2, <3>4, <3>5, <4>1
    <3>7. PICK place \in Place : place = [Idle EXCEPT !.pc = "tempfind", !.from = p, !.ret = r]
      BY <1>4, <1>7, Fields
    <3>8. place.pc = "tempfind" /\ place.from = p /\ place.ret = r
      BY <3>7 DEF Idle
    <3>9. QED
      BY <3>1, <3>2, <3>6, <3>7, <3>8
  <2>2. CASE mod[i] = "BUSY"
    <3>1. i \in Module
      BY <1>1, <1>6, <2>2 DEF PidInv, Item
    <3>2. {a \in ByPid(p) : mod[a] = "BUSY_TEMP"} = {}
      BY <1>4, <1>5, <2>2
    <3>3. ExecutedBy(p, {"ONGOING", "PAUSED"}) = r
      <4>1. {q \in DOMAIN sel : sel[q].status \in {"ONGOING", "PAUSED"} /\ pid[sel[q].item] = p} = {r}
        <5>1. ASSUME NEW q \in DOMAIN sel, sel[q].status \in {"ONGOING", "PAUSED"}, pid[sel[q].item] = p
              PROVE  q = r
          <6>1. sel[q].item \in Item /\ pid[i] # 0
            BY <1>1, <1>4, <1>5, ActiveItem, SelDomain
          <6>2. sel[q].item = i
            BY <1>1, <1>6, <5>1, <6>1, OneItem
          <6>3. ~Past(q)
            BY <3>1, <6>2, TestEngineAssumption DEF Past
          <6>4. QED
            BY <1>4, <5>1, <6>3 DEF Active
        <5>2. sel[r].status \in {"ONGOING", "PAUSED"} /\ pid[sel[r].item] = p
          BY <1>4 DEF Active
        <5>3. QED
          BY <5>1, <5>2
      <4>2. QED
        BY <1>7, <4>1, FirstOne DEF ExecutedBy
    <3>4. /\ Goto("listener", [Idle EXCEPT !.from = p, !.ret = Head(inbox).run, !.pc = "credit", !.r = r])
          /\ sel' = sel /\ cli' = cli
      BY <1>2, <1>4, <1>7, <3>2, <3>3 DEF HandleRet
    <3>5. [Idle EXCEPT !.from = p, !.ret = r, !.pc = "credit", !.r = r]
            = [Idle EXCEPT !.pc = "credit", !.from = p, !.ret = r, !.r = r]
      BY DEF Idle
    <3>6. PICK place \in Place : place = [Idle EXCEPT !.pc = "credit", !.from = p, !.ret = r, !.r = r]
      BY <1>4, <1>7, Fields
    <3>7. place.pc = "credit" /\ place.from = p /\ place.ret = r /\ place.r = r
      BY <3>6 DEF Idle
    <3>8. QED
      BY <1>2, <1>4, <3>1, <3>4, <3>5, <3>6, <3>7
  <2>3. QED
    BY <1>6, <2>1, <2>2
<1>11. /\ at' \in [Thread -> Place] /\ at'["listener"] = place /\ at'["user"] = at["user"]
       /\ place.pc \in {"credit", "tempfind"}
  <2>1. "listener" \in Thread /\ "user" \in Thread
    BY DEF Thread
  <2>2. QED
    BY <1>1, <1>10, <2>1, AtStep
<1>12. /\ sel' \in Seq(Entry) /\ DOMAIN sel' = DOMAIN sel /\ Len(sel') = Len(sel)
       /\ \A q \in DOMAIN sel : q # r => sel'[q] = sel[q]
       /\ sel'[r].status = sel[r].status /\ sel'[r].item = i /\ sel'[r].group = sel[r].group
       /\ sel'[r].result = IF place.pc = "credit" THEN 0 ELSE r
  <2>1. CASE sel' = sel /\ place.pc = "credit"
    BY <1>1, <1>4, <1>5, <2>1 DEF TypeOK
  <2>2. CASE sel' = [sel EXCEPT ![r].result = r] /\ place.pc = "tempfind"
    <3>1. /\ sel' \in Seq(Entry) /\ DOMAIN sel' = DOMAIN sel /\ Len(sel') = Len(sel)
          /\ \A q \in DOMAIN sel : q # r => sel'[q] = sel[q]
          /\ sel'[r].status = sel[r].status /\ sel'[r].item = sel[r].item
          /\ sel'[r].group = sel[r].group /\ sel'[r].result = r
      BY <1>1, <1>7, <2>2, SetResult
    <3>2. QED
      BY <1>5, <2>2, <3>1
  <2>3. QED
    BY <1>10, <2>1, <2>2
<1>13. \A q \in DOMAIN sel : (Active(q)' <=> Active(q)) /\ (Past(q)' <=> Past(q))
  <2>1. UNCHANGED <<mod, carried>> /\ \A q \in DOMAIN sel : sel'[q].item = sel[q].item /\ sel'[q].status = sel[q].status
    BY <1>3, <1>5, <1>12
  <2>2. QED
    BY <2>1 DEF Active, Past
<1>14. PidInv'
  BY <1>1, <1>3, PidInvKept
<1>15. TempInv'
  <2>1. ASSUME NEW a \in Temp
        PROVE  /\ mod'[a] # "absent" => carried'[a] \in DOMAIN sel'
               /\ mod'[a] = "INITIALIZED_TEMP" =>
                    sel'[carried'[a]].item = a /\ sel'[carried'[a]].status = "IDLE"
    <3>1. (mod[a] # "absent" => carried[a] \in DOMAIN sel)
          /\ (mod[a] = "INITIALIZED_TEMP" => sel[carried[a]].item = a /\ sel[carried[a]].status = "IDLE")
      BY <1>1 DEF TempInv
    <3>2. \A q \in DOMAIN sel : sel'[q].item = sel[q].item /\ sel'[q].status = sel[q].status
      BY <1>5, <1>12
    <3>3. carried' = carried /\ mod' = mod
      BY <1>3
    <3>4. QED
      BY <1>12, <3>1, <3>2, <3>3
  <2>2. QED
    BY <2>1 DEF TempInv
<1>16. (\A q : ~Handing(q)) /\ Handing(p)' /\ \A q : q # p => ~Handing(q)'
  <2>1. Hand.pc = "idle" /\ Hand' = place
    BY <1>9, <1>11 DEF Hand, Thread
  <2>2. QED
    BY <1>10, <1>11, <2>1 DEF Handing
<1>17. ASSUME NEW q \in DOMAIN sel, q # r PROVE RunOk(q)'
  <2>1. PICK j, s : j = sel[q].item /\ s = pid[j]
    OBVIOUS
  <2>2. RunOk(q) /\ sel'[q] = sel[q]
    BY <1>1, <1>12, <1>17 DEF RunInv
  <2>3. mod'[j] = mod[j] /\ pid'[j] = s /\ carried'[j] = carried[j]
    BY <1>3, <2>1
  <2>4. Active(q) => s # p
    BY <1>4, <1>17, <2>1
  <2>5. Active(q) => (Quiet(s) => Quiet(s)') /\ (With(s, q) => With(s, q)') /\ (Handing(s)' <=> Handing(s)) /\ ~Handing(s)
    BY <1>4, <1>16, <2>4
  <2>6. Past(q)' <=> Past(q)
    BY <1>13
  <2>7. QED
    BY <2>1, <2>2, <2>3, <2>5, <2>6, RunOkKept
<1>18. RunOk(r)'
  <2>1. Active(r)' /\ ~Past(r)' /\ sel'[r].status \notin {"IDLE", "TERMINATED"}
    BY <1>4, <1>12, <1>13 DEF Active
  <2>2. i \in Temp => mod'[i] \notin {"absent", "NOT_STARTED"}
    BY <1>3, <1>4, <1>5, <1>8 DEF RunOk, Active
  <2>3. mod'[i] \in {"BUSY", "BUSY_TEMP"} /\ pid'[i] = p
    BY <1>3, <1>6
  <2>4. Hand'.ret = r /\ Hand'.pc = place.pc
    BY <1>10, <1>11 DEF Hand
  <2>5. IF Hand'.pc = "credit" THEN i \in Module /\ sel'[r].result = 0 ELSE i \in Temp /\ sel'[r].result = r
    BY <1>10, <1>12, <2>4
  <2>6. pid'[sel'[r].item] = p /\ sel'[r].item = i
    BY <1>12, <2>3
  <2>7. QED
    BY <1>4, <1>16, <2>1, <2>2, <2>3, <2>4, <2>5, <2>6 DEF RunOk
<1>19. RunInv'
  <2>1. \A q \in DOMAIN sel' : RunOk(q)'
    BY <1>12, <1>17, <1>18
  <2>2. \A q \in DOMAIN sel : sel'[q].item = sel[q].item
    BY <1>5, <1>12
  <2>3. QED
    BY <1>1, <1>3, <1>12, <1>13, <2>1, <2>2 DEF RunInv
<1>20. WorkInv'
  <2> SUFFICES ASSUME NEW s \in Pid
               PROVE  Quiet(s)' \/ \E q \in DOMAIN sel' : Active(q)' /\ pid'[sel'[q].item] = s /\ With(s, q)'
    BY DEF WorkInv
  <2>1. CASE s = p
    BY <1>4, <2>1
  <2>2. CASE s # p /\ Quiet(s)
    BY <1>4, <2>2
  <2>3. CASE s # p /\ ~Quiet(s)
    <3>1. PICK q \in DOMAIN sel : Active(q) /\ pid[sel[q].item] = s /\ With(s, q)
      BY <1>1, <2>3 DEF WorkInv
    <3>2. q # r
      BY <1>4, <2>3, <3>1
    <3>3. q \in DOMAIN sel' /\ Active(q)' /\ pid'[sel'[q].item] = s /\ With(s, q)'
      BY <1>3, <1>4, <1>12, <1>13, <2>3, <3>1, <3>2
    <3>4. QED
      BY <3>3
  <2>4. QED
    BY <2>1, <2>2, <2>3
<1>21. CountInv' /\ cli' \in CliCounts /\ cli'.results <= cli'.cases
  <2>1. CASE place.pc = "credit"
    <3>1. sel' = sel /\ cli' = cli
      BY <1>10, <2>1
    <3>2. QED
      BY <1>1, <1>3, <3>1, CountInvKept DEF TypeOK
  <2>2. CASE place.pc # "credit"
    <3>1. cli' = ResultTold(r) /\ sel'[r].result # 0
      BY <1>7, <1>10, <1>12, <2>2
    <3>2. \A q \in DOMAIN sel : q # r => sel'[q].result = sel[q].result
      BY <1>12
    <3>3. \A m \in Module : mod'[m] = mod[m]
      BY <1>3
    <3>4. todo' = todo
      BY <1>3
    <3>5. QED
      BY <1>1, <1>4, <1>12, <3>1, <3>2, <3>3, <3>4, ResultCounted
  <2>3. QED
    BY <2>1, <2>2
<1>22. TypeOK'
  <2>1. \A j \in Item : Listed(j)' => pid'[j] # 0
    BY <1>14, ListedPids
  <2>2. QED
    BY <1>1, <1>3, <1>9, <1>11, <1>12, <1>21, <2>1 DEF TypeOK
<1>23. ThreadInv'
  <2>1. PlaceOk("listener")'
    <3>1. at'["listener"].ret = r /\ at'["listener"].from = p /\ at'["listener"].pc \in {"credit", "tempfind"}
          /\ (at'["listener"].pc = "credit" => at'["listener"].r = r)
      BY <1>10, <1>11
    <3>2. r \in DOMAIN sel' /\ Active(r)' /\ pid'[sel'[r].item] = p
      BY <1>3, <1>4, <1>6, <1>12, <1>13
    <3>3. QED
      BY <3>1, <3>2 DEF PlaceOk
  <2>2. at'["user"].pc = "idle"
    BY <1>9, <1>11 DEF Thread
  <2>3. \A u \in Thread : PlaceOk(u)'
    <3>1. "listener" \in Thread /\ \A u \in Thread : u # "listener" => at'[u].pc = "idle"
      BY <2>2 DEF Thread
    <3>2. PICK t : t = "listener"
      OBVIOUS
    <3>3. t \in Thread /\ PlaceOk(t)' /\ \A u \in Thread : u # t => at'[u].pc = "idle"
      BY <2>1, <3>1, <3>2
    <3>4. QED
      BY <3>3, PlacesOk
  <2>4. todo' = todo /\ plugin' = plugin /\ Len(sel') = Len(sel)
    BY <1>3, <1>12
  <2>5. QED
    BY <1>1, <2>2, <2>3, <2>4 DEF ThreadInv
<1>24. GroupInv'
  <2> SUFFICES ASSUME plugin = "cli" PROVE \E g \in {0, 1} : GroupIs(g)' /\ (g # 0 => OneByOne')
    BY DEF GroupInv
  <2>1. PICK g \in {0, 1} : GroupIs(g) /\ (g # 0 => OneByOne)
    BY <1>1 DEF GroupInv
  <2>2. GroupIs(g)'
    <3>1. \A q \in DOMAIN sel : sel'[q].group = sel[q].group
      BY <1>12
    <3>2. QED
      BY <1>3, <1>12, <2>1, <3>1 DEF GroupIs
  <2>3. ~Starts(Hand)'
    BY <1>11 DEF Starts, Hand
  <2>4. OneByOne => OneByOne'
    BY <1>3, <1>12, <1>13, <2>3 DEF OneByOne
  <2>5. QED
    BY <2>1, <2>2, <2>4
<1>25. QED
  BY <1>14, <1>15, <1>19, <1>20, <1>21, <1>22, <1>23, <1>24 DEF IInv

(* A case has its result, and its item is free or gone.                    *)
LEMMA RunEnded ==
  ASSUME TypeOK, PidInv, TempInv, RunInv, WorkInv,
         NEW r \in DOMAIN sel, Active(r), NEW i, i = sel[r].item, NEW p, p = pid[i],
         Quiet(p), Handing(p),
         DOMAIN sel' = DOMAIN sel,
         \A q \in DOMAIN sel :
           /\ q # r /\ ~Past(q) => sel'[q] = sel[q]
           /\ sel'[q].item = sel[q].item /\ (q # r => sel'[q].result = sel[q].result)
           /\ sel'[q].status = sel[q].status \/ sel'[q].status = "TERMINATED",
         i \in Module => sel'[r].status = "TERMINATED", sel'[r].result = r,
         \A j \in Item : j # i => mod'[j] = mod[j],
         mod'[i] = IF i \in Module THEN "READY" ELSE "removed",
         UNCHANGED <<pid, carried, forked, inbox, exe, going>>,
         Hand'.pc \notin {"credit", "tempfind", "tempend"}
  PROVE  /\ PidInv' /\ TempInv' /\ RunInv' /\ WorkInv'
         /\ \A q \in DOMAIN sel : Active(q)' <=> Active(q) /\ q # r
<1>1. i \in Item /\ mod[i] \in {"BUSY", "BUSY_TEMP"} /\ Listed(i) /\ p \in Pid /\ p # 0
  BY ActiveItem
<1>2. \A s : Handing(s) => s = p
  BY DEF Handing
<1>3. \A s : ~Handing(s)'
  BY DEF Handing
<1>4. \A s : (Quiet(s)' <=> Quiet(s)) /\ \A q : With(s, q)' <=> With(s, q)
  BY TrafficUnchanged, TrafficKept
<1>5. \A q \in DOMAIN sel : Active(q) /\ q # r => sel[q].item # i /\ pid[sel[q].item] # p
  <2> SUFFICES ASSUME NEW q \in DOMAIN sel, Active(q), q # r
               PROVE  sel[q].item # i /\ pid[sel[q].item] # p
    OBVIOUS
  <2>1. PICK j : j = sel[q].item
    OBVIOUS
  <2>2. j \in Item /\ pid[j] # 0
    BY <2>1, ActiveItem
  <2>3. j # i
    BY <2>1 DEF RunInv
  <2>4. pid[j] # pid[i]
    BY <1>1, <2>2, <2>3, OneItem
  <2>5. QED
    BY <2>1, <2>3, <2>4
<1>6. RunOk(r) /\ r # 0 /\ (i \in Temp => carried[i] = r)
  BY SelDomain DEF RunInv, Active, Past
<1>7. ASSUME NEW q \in DOMAIN sel, q # r
      PROVE  RunOk(q)' /\ (Active(q)' <=> Active(q)) /\ (Past(q)' <=> Past(q))
  <2>1. PICK j, s : j = sel[q].item /\ s = pid[j]
    OBVIOUS
  <2>2. RunOk(q) /\ sel'[q].item = j
    BY <2>1 DEF RunInv
  <2>3. j \in Item
    BY <2>1, SelDomain
  <2>4. j = i => j \in Module \/ Past(q)
    BY <1>6, <1>7, <2>1, <2>3 DEF Past, Item
  <2>5. j \in Temp /\ mod[j] = "removed" => j # i
    BY <1>1
  <2>6. Past(q)' <=> Past(q)
    <3>1. CASE j = i
      <4>1. i \in Temp => carried'[i] # q
        BY <1>6, <1>7
      <4>2. i \notin Temp => ~Past(q) /\ ~Past(q)'
        BY <2>1, <2>2, <3>1 DEF Past
      <4>3. QED
        BY <1>6, <1>7, <2>1, <2>2, <3>1, <4>1, <4>2 DEF Past
    <3>2. CASE j # i
      BY <2>1, <2>2, <2>3, <3>2 DEF Past
    <3>3. QED
      BY <3>1, <3>2
  <2>7. CASE Past(q)
    <3>1. sel[q].result = q /\ sel[q].status # "IDLE"
      BY <2>2, <2>7 DEF RunOk
    <3>2. sel'[q].result = q /\ sel'[q].status # "IDLE" /\ ~Active(q)' /\ ~Active(q)
      BY <1>7, <2>6, <2>7, <3>1 DEF Active
    <3>3. QED
      BY <2>6, <2>7, <3>2 DEF RunOk
  <2>8. CASE ~Past(q)
    <3>1. sel'[q] = sel[q]
      BY <1>7, <2>8
    <3>2. j \in Temp => mod'[j] = mod[j]
      BY <2>3, <2>4, <2>8, TestEngineAssumption DEF Item
    <3>3. Active(q) => /\ pid'[j] = s /\ mod'[j] = mod[j]
                       /\ Quiet(s) => Quiet(s)'
                       /\ With(s, q) => With(s, q)'
                       /\ Handing(s)' <=> Handing(s)
                       /\ ~Handing(s)
      <4>1. Active(q) => j # i /\ s # p
        BY <1>5, <1>7, <2>1
      <4>2. QED
        BY <1>2, <1>3, <1>4, <2>1, <2>3, <4>1
    <3>4. QED
      BY <2>1, <2>2, <2>6, <3>1, <3>2, <3>3, RunOkKept
  <2>9. QED
    BY <2>7, <2>8
<1>8. ~Active(r)' /\ (i \in Temp => Past(r)') /\ (i \in Module => ~Past(r)')
  <2>1. CASE i \in Module
    BY <2>1, TestEngineAssumption DEF Active, Past
  <2>2. CASE i \in Temp
    BY <2>2, TestEngineAssumption DEF Active, Past
  <2>3. QED
    BY <1>1, <2>1, <2>2, TestEngineAssumption DEF Item
<1>9. RunOk(r)'
  <2>1. sel'[r].status # "IDLE" /\ sel'[r].result = r /\ sel'[r].item = i
    BY DEF Active
  <2>2. i \in Temp /\ ~Past(r)' => FALSE
    BY <1>8
  <2>3. QED
    BY <1>8, <2>1, <2>2 DEF RunOk
<1>10. RunInv'
  <2>1. ASSUME NEW m \in Module, mod'[m] = "BUSY" PROVE \E q \in DOMAIN sel : Active(q)' /\ sel'[q].item = m
    <3>1. m # i
      BY <2>1
    <3>2. mod[m] = "BUSY"
      BY <2>1, <3>1 DEF Item
    <3>3. PICK q \in DOMAIN sel : Active(q) /\ sel[q].item = m
      BY <3>2 DEF RunInv
    <3>4. q # r
      BY <3>1, <3>3
    <3>5. Active(q)' /\ sel'[q].item = m
      BY <1>7, <3>3, <3>4
    <3>6. QED
      BY <3>5
  <2>2. ASSUME NEW q \in DOMAIN sel, NEW s \in DOMAIN sel, Active(q)', Active(s)',
               sel'[q].item = sel'[s].item
        PROVE  q = s
    <3>1. q # r /\ s # r
      BY <1>8, <2>2
    <3>2. Active(q) /\ Active(s) /\ sel[q].item = sel[s].item
      BY <1>7, <2>2, <3>1
    <3>3. QED
      BY <3>2 DEF RunInv
  <2>3. \A q \in DOMAIN sel' : RunOk(q)'
    BY <1>7, <1>9
  <2>4. QED
    BY <2>1, <2>2, <2>3 DEF RunInv
<1>11. WorkInv'
  <2> SUFFICES ASSUME NEW s \in Pid
               PROVE  Quiet(s)' \/ \E q \in DOMAIN sel' : Active(q)' /\ pid'[sel'[q].item] = s /\ With(s, q)'
    BY DEF WorkInv
  <2>1. CASE Quiet(s)
    BY <1>4, <2>1
  <2>2. CASE ~Quiet(s)
    <3>1. PICK q \in DOMAIN sel : Active(q) /\ pid[sel[q].item] = s /\ With(s, q)
      BY <2>2 DEF WorkInv
    <3>2. q # r
      BY <2>2, <3>1
    <3>3. q \in DOMAIN sel' /\ Active(q)' /\ pid'[sel'[q].item] = s /\ With(s, q)'
      BY <1>4, <1>7, <3>1, <3>2
    <3>4. QED
      BY <3>3
  <2>3. QED
    BY <2>1, <2>2
<1>12. TempInv'
  <2> SUFFICES ASSUME NEW a \in Temp
               PROVE  /\ mod'[a] # "absent" => carried'[a] \in DOMAIN sel'
                      /\ mod'[a] = "INITIALIZED_TEMP" =>
                           sel'[carried'[a]].item = a /\ sel'[carried'[a]].status = "IDLE"
    BY DEF TempInv
  <2>1. (mod[a] # "absent" => carried[a] \in DOMAIN sel)
        /\ (mod[a] = "INITIALIZED_TEMP" => sel[carried[a]].item = a /\ sel[carried[a]].status = "IDLE")
    BY DEF TempInv
  <2>2. CASE a = i
    BY <1>1, <2>1, <2>2
  <2>3. CASE a # i
    <3>1. mod'[a] = mod[a]
      BY <2>3 DEF Item
    <3>2. mod[a] = "INITIALIZED_TEMP" => carried[a] # r /\ ~Past(carried[a])
      BY <2>1 DEF Active, Past
    <3>3. QED
      BY <2>1, <3>1, <3>2
  <2>4. QED
    BY <2>2, <2>3
<1>13. PidInv'
  <2>1. ASSUME NEW m \in Module
        PROVE  mod'[m] \in {"INITIALIZED", "TC_SENDING", "READY", "BUSY", "removed"}
    <3>1. mod[m] \in {"INITIALIZED", "TC_SENDING", "READY", "BUSY", "removed"} /\ m \in Item
      BY DEF PidInv, Item
    <3>2. QED
      BY <3>1
  <2>2. ASSUME NEW a \in Temp
        PROVE  /\ mod'[a] = "absent" <=> mod[a] = "absent"
               /\ mod'[a] \in {"absent", "NOT_STARTED", "INITIALIZED_TEMP", "BUSY_TEMP", "removed"}
    <3>1. mod[a] \in {"absent", "NOT_STARTED", "INITIALIZED_TEMP", "BUSY_TEMP", "removed"} /\ a \in Item
          /\ a \notin Module
      BY TestEngineAssumption DEF PidInv, Item
    <3>2. CASE a = i
      BY <1>1, <3>1, <3>2
    <3>3. CASE a # i
      BY <3>1, <3>3
    <3>4. QED
      BY <3>2, <3>3
  <2>3. pid' = pid /\ forked' = forked
    OBVIOUS
  <2>4. QED
    BY <2>1, <2>2, <2>3 DEF PidInv
<1>14. QED
  BY <1>7, <1>8, <1>10, <1>11, <1>12, <1>13

(* What the listener thread knows between a MSG_RET and the end of its case. *)
LEMMA HandedRun ==
  ASSUME IInv, NEW l, l = at["listener"], l.pc \in {"credit", "tempfind", "tempend"},
         NEW r, r = l.ret, NEW p, p = l.from
  PROVE  /\ r \in DOMAIN sel /\ Active(r) /\ pid[sel[r].item] = p /\ ByPid(p) = {sel[r].item}
         /\ Quiet(p) /\ Handing(p) /\ p \in Pid /\ r \in Nat /\ r # 0 /\ r \in 0..MaxRuns
         /\ IF l.pc = "credit" THEN sel[r].item \in Module /\ sel[r].result = 0
            ELSE sel[r].item \in Temp /\ carried[sel[r].item] = r /\ sel[r].result = r
<1>1. TypeOK /\ PidInv /\ RunInv /\ ThreadInv
  BY DEF IInv
<1>2. PlaceOk("listener")
  BY <1>1 DEF ThreadInv, Thread
<1>3. r \in DOMAIN sel /\ Active(r) /\ pid[sel[r].item] = p
  BY <1>2 DEF PlaceOk
<1>4. PICK i : i = sel[r].item
  OBVIOUS
<1>5. i \in Item /\ Listed(i) /\ pid[i] = p /\ p \in Pid
  BY <1>1, <1>3, <1>4, ActiveItem
<1>6. ByPid(p) = {i}
  BY <1>1, <1>5, ByPidOne
<1>7. Handing(p) /\ Hand.pc = l.pc
  BY DEF Handing, Hand
<1>8. RunOk(r)
  BY <1>1, <1>3 DEF RunInv
<1>9. /\ Quiet(p)
      /\ IF l.pc = "credit" THEN i \in Module /\ sel[r].result = 0 ELSE i \in Temp /\ sel[r].result = r
      /\ i \in Temp => carried[i] = r
  BY <1>3, <1>4, <1>7, <1>8 DEF RunOk, Active, Past
<1>10. r \in Nat /\ r # 0 /\ r \in 0..MaxRuns
  BY <1>1, <1>3, SelDomain, Numbers
<1>11. QED
  BY <1>3, <1>4, <1>5, <1>6, <1>7, <1>9, <1>10

(* The threads and the groups after a case has ended.                      *)
LEMMA AfterRun ==
  ASSUME IInv, Alone("listener"), NEW place \in Place, Goto("listener", place),
         place.pc = "idle" \/ (place.pc = "next" /\ place.r \in DOMAIN sel),
         UNCHANGED <<plugin, todo>>,
         DOMAIN sel' = DOMAIN sel, Len(sel') = Len(sel),
         \A q \in DOMAIN sel : sel'[q].group = sel[q].group,
         NEW r \in DOMAIN sel, Active(r),
         \A q \in DOMAIN sel : Active(q)' <=> Active(q) /\ q # r,
         \A a \in Temp : mod[a] = "absent" => mod'[a] = "absent"
  PROVE  ThreadInv' /\ GroupInv' /\ at' \in [Thread -> Place]
<1>1. TypeOK /\ ThreadInv /\ GroupInv
  BY DEF IInv
<1>2. PICK t \in Thread : t = "listener"
  BY DEF Thread
<1>3. at' \in [Thread -> Place] /\ at'[t] = place /\ \A u \in Thread : u # t => at'[u] = at[u]
  BY <1>1, <1>2, AtStep
<1>4. \A u \in Thread : u # t => at'[u].pc = "idle"
  BY <1>2, <1>3, OthersIdle
<1>5. PlaceOk(t)'
  BY <1>2, <1>3 DEF PlaceOk
<1>6. ThreadInv'
  <2>1. (\A u \in Thread : PlaceOk(u)') /\ (at'["listener"].pc = "idle" \/ at'["user"].pc = "idle")
    BY <1>4, <1>5, PlacesOk
  <2>2. at'["user"].pc = "idle"
    BY <1>2, <1>4 DEF Thread
  <2>3. QED
    BY <1>1, <2>1, <2>2 DEF ThreadInv
<1>7. GroupInv'
  <2> SUFFICES ASSUME plugin = "cli" PROVE \E g \in {0, 1} : GroupIs(g)' /\ (g # 0 => OneByOne')
    BY DEF GroupInv
  <2>1. PICK g \in {0, 1} : GroupIs(g) /\ (g # 0 => OneByOne)
    BY <1>1 DEF GroupInv
  <2>2. GroupIs(g)'
    BY <2>1 DEF GroupIs
  <2>3. ASSUME OneByOne PROVE OneByOne'
    <3>1. \A q \in DOMAIN sel : Active(q) => q = r
      BY <2>3 DEF OneByOne
    <3>2. \A q \in DOMAIN sel' : ~Active(q)'
      BY <3>1
    <3>3. \A a \in Temp : mod'[a] = "absent"
      BY <2>3 DEF OneByOne
    <3>4. NothingGoing'
      BY <3>2 DEF NothingGoing
    <3>5. QED
      BY <3>2, <3>3, <3>4 DEF OneByOne
  <2>4. QED
    BY <2>1, <2>2, <2>3
<1>8. QED
  BY <1>3, <1>6, <1>7

LEMMA CreditStep ==
  ASSUME IInv, Alone("listener"), Credit, UNCHANGED plugin
  PROVE  IInv'
<1>1. TypeOK /\ PidInv /\ TempInv /\ RunInv /\ WorkInv /\ ThreadInv /\ GroupInv /\ CountInv
  BY DEF IInv
<1>2. PICK l, r, p : l = at["listener"] /\ r = l.ret /\ p = l.from
  OBVIOUS
<1>3. /\ l.pc = "credit"
      /\ mod' = [i \in Item |-> IF i \in ByPid(p) THEN "READY" ELSE mod[i]]
      /\ sel' = WithResult(l.r, r) /\ cli' = ResultTold(l.r)
      /\ Goto("listener", NextIfGroup(l))
      /\ UNCHANGED <<pid, carried, forked, inbox, todo, tmc, exe, going>>
  BY <1>2 DEF Credit, tmcVars
<1>4. /\ r \in DOMAIN sel /\ Active(r) /\ pid[sel[r].item] = p /\ ByPid(p) = {sel[r].item}
      /\ Quiet(p) /\ Handing(p) /\ p \in Pid /\ r # 0 /\ r \in 0..MaxRuns
      /\ sel[r].item \in Module /\ sel[r].result = 0
  BY <1>2, <1>3, HandedRun
<1>5. PICK i : i = sel[r].item
  OBVIOUS
<1>6. l \in Place /\ l.r = r
  <2>1. PICK t \in Thread : t = "listener"
    BY DEF Thread
  <2>2. at[t] \in Place /\ PlaceOk(t)
    BY <1>1, PlaceRange DEF ThreadInv
  <2>3. QED
    BY <1>2, <1>3, <2>1, <2>2 DEF PlaceOk
<1>7. /\ sel' \in Seq(Entry) /\ DOMAIN sel' = DOMAIN sel /\ Len(sel') = Len(sel)
      /\ \A q \in DOMAIN sel : q # r => sel'[q] = sel[q]
      /\ sel'[r].status = "TERMINATED" /\ sel'[r].item = i
      /\ sel'[r].group = sel[r].group /\ sel'[r].result = r
  BY <1>1, <1>3, <1>4, <1>5, <1>6, SetWithResult
<1>8. PICK place \in Place :
        /\ Goto("listener", place)
        /\ place.pc = "idle" \/ (place.pc = "next" /\ place.r \in DOMAIN sel)
  <2>1. CASE sel[l.r].group = 0
    BY <1>3, <2>1, IdlePlace DEF NextIfGroup
  <2>2. CASE sel[l.r].group # 0
    <3>1. [l EXCEPT !.pc = "next"] \in Place
      BY <1>6, Fields
    <3>2. [l EXCEPT !.pc = "next"].pc = "next" /\ [l EXCEPT !.pc = "next"].r = r
      BY <1>6 DEF Place
    <3>3. QED
      BY <1>3, <1>4, <2>2, <3>1, <3>2 DEF NextIfGroup
  <2>3. QED
    BY <2>1, <2>2
<1>9. i \in Item /\ i \in Module /\ mod[i] = "BUSY"
  <2>1. mod[i] \in {"BUSY", "BUSY_TEMP"} /\ i \in Module
    BY <1>1, <1>4, <1>5, ActiveItem
  <2>2. QED
    BY <1>1, <2>1 DEF PidInv, Item
<1>10. mod'[i] = "READY" /\ (\A j \in Item : j # i => mod'[j] = mod[j]) /\ mod' \in [Item -> ModuleStatus]
  BY <1>1, <1>3, <1>4, <1>5, <1>9 DEF TypeOK, ModuleStatus
<1>11. Hand'.pc \notin {"credit", "tempfind", "tempend"}
  <2>1. PICK t \in Thread : t = "listener"
    BY DEF Thread
  <2>2. at'[t] = place
    BY <1>1, <1>8, <2>1, AtStep
  <2>3. QED
    BY <1>8, <2>1, <2>2 DEF Hand
<1>12. /\ PidInv' /\ TempInv' /\ RunInv' /\ WorkInv'
       /\ \A q \in DOMAIN sel : Active(q)' <=> Active(q) /\ q # r
  <2>1. pid[i] = p /\ mod'[i] = IF i \in Module THEN "READY" ELSE "removed"
    BY <1>4, <1>5, <1>9, <1>10
  <2>2. UNCHANGED <<pid, carried, forked, inbox, exe, going>>
    BY <1>3
  <2>3. \A q \in DOMAIN sel :
          /\ q # r => sel'[q] = sel[q]
          /\ q # r /\ ~Past(q) => sel'[q] = sel[q]
          /\ sel'[q].item = sel[q].item /\ (q # r => sel'[q].result = sel[q].result)
          /\ sel'[q].status = sel[q].status \/ sel'[q].status = "TERMINATED"
    BY <1>5, <1>7
  <2>4. QED
    BY <1>1, <1>4, <1>5, <1>7, <1>10, <1>11, <2>1, <2>2, <2>3, RunEnded
<1>13. ThreadInv' /\ GroupInv' /\ at' \in [Thread -> Place]
  <2>1. \A q \in DOMAIN sel : sel'[q].group = sel[q].group
    BY <1>7
  <2>2. \A a \in Temp : mod[a] = "absent" => mod'[a] = "absent"
    BY <1>9, <1>10 DEF Item
  <2>3. UNCHANGED <<plugin, todo>>
    BY <1>3
  <2>4. QED
    BY <1>4, <1>7, <1>8, <1>12, <2>1, <2>2, <2>3, AfterRun
<1>14. CountInv' /\ cli' \in CliCounts /\ cli'.results <= cli'.cases
  <2>1. \A m \in Module : (mod[m] = "BUSY" /\ mod'[m] = "READY") \/ mod'[m] = mod[m]
    BY <1>9, <1>10 DEF Item
  <2>2. UNCHANGED <<plugin, todo>> /\ cli' = ResultTold(r)
    BY <1>3, <1>6
  <2>3. sel'[r].result # 0 /\ \A q \in DOMAIN sel : q # r => sel'[q].result = sel[q].result
    BY <1>4, <1>7
  <2>4. QED
    BY <1>1, <1>4, <1>7, <2>1, <2>2, <2>3, ResultCounted
<1>15. TypeOK'
  <2>1. \A j \in Item : Listed(j)' => pid'[j] # 0
    BY <1>12, ListedPids
  <2>2. QED
    BY <1>1, <1>3, <1>7, <1>10, <1>13, <1>14, <2>1 DEF TypeOK
<1>16. QED
  BY <1>12, <1>13, <1>14, <1>15 DEF IInv

LEMMA FindTempCaseStep ==
  ASSUME IInv, Alone("listener"), FindTempCase, UNCHANGED plugin
  PROVE  IInv'
<1>1. TypeOK /\ RunInv /\ ThreadInv
  BY DEF IInv
<1>2. PICK l, r, p : l = at["listener"] /\ r = l.ret /\ p = l.from
  OBVIOUS
<1>3. PICK t \in Thread : t = "listener"
  BY DEF Thread
<1>4. l.pc = "tempfind" /\ Alone(t) /\ l \in Place
  BY <1>1, <1>2, <1>3, PlaceRange DEF FindTempCase
<1>5. /\ r \in DOMAIN sel /\ Active(r) /\ pid[sel[r].item] = p /\ ByPid(p) = {sel[r].item}
      /\ r \in Nat /\ r # 0 /\ r \in 0..MaxRuns
      /\ sel[r].item \in Temp /\ carried[sel[r].item] = r
  BY <1>2, <1>4, HandedRun
<1>6. PICK h \in DOMAIN sel : /\ h = First({q \in DOMAIN sel : sel[q].item \in ByPid(l.from)})
                             /\ h # 0 /\ h \in 0..MaxRuns
                             /\ (h = r \/ Past(h))
  <2>1. PICK S : S = {q \in DOMAIN sel : sel[q].item \in ByPid(l.from)}
    OBVIOUS
  <2>2. r \in S /\ S \in SUBSET Nat /\ 0 \notin S
    BY <1>1, <1>2, <1>5, <2>1, SelDomain
  <2>3. PICK f : f = First(S)
    OBVIOUS
  <2>4. f \in S /\ f # 0
    BY <2>2, <2>3, FirstIs
  <2>5. f \in DOMAIN sel /\ sel[f].item = sel[r].item
    BY <1>2, <1>5, <2>1, <2>4
  <2>6. f = r \/ Past(f)
    BY <1>5, <2>5 DEF Past
  <2>7. f \in 0..MaxRuns
    BY <1>1, <2>5, SelDomain, Numbers
  <2>8. QED
    BY <2>1, <2>3, <2>4, <2>5, <2>6, <2>7
<1>7. PICK place \in Place : place = [l EXCEPT !.pc = "tempend", !.r = h]
  BY <1>4, <1>6, Fields
<1>8. /\ Goto(t, place)
      /\ UNCHANGED <<mod, pid, carried, sel, forked, inbox, todo, tmc, exe, going, cli>>
  BY <1>2, <1>3, <1>6, <1>7 DEF FindTempCase, tmcVars
<1>9. place.pc = "tempend" /\ place.r = h /\ place.ret = r /\ place.from = p
  BY <1>2, <1>4, <1>7 DEF Place
<1>10. at'[t] = place
  BY <1>1, <1>8, AtStep
<1>11. SameHand
  BY <1>2, <1>3, <1>4, <1>9, <1>10 DEF SameHand, Hand
<1>12. PlaceOk(t)'
  <2>1. r \in DOMAIN sel' /\ Active(r)' /\ pid'[sel'[r].item] = p
    BY <1>5, <1>8 DEF Active, Past
  <2>2. h \in DOMAIN sel' /\ (h = r \/ Past(h)')
    BY <1>6, <1>8 DEF Past
  <2>3. QED
    BY <1>3, <1>9, <1>10, <2>1, <2>2 DEF PlaceOk
<1>13. ~Starts(place) /\ t # "user"
  BY <1>3, <1>9 DEF Starts
<1>14. QED
  BY <1>4, <1>8, <1>11, <1>12, <1>13, PlaceStep

LEMMA RemoveTempStep ==
  ASSUME IInv, Alone("listener"), RemoveTemp, UNCHANGED plugin
  PROVE  IInv'
<1>1. TypeOK /\ PidInv /\ TempInv /\ RunInv /\ WorkInv /\ ThreadInv /\ GroupInv /\ CountInv
  BY DEF IInv
<1>2. PICK l, r, p : l = at["listener"] /\ r = l.ret /\ p = l.from
  OBVIOUS
<1>3. /\ l.pc = "tempend"
      /\ mod' = [i \in Item |-> IF i \in ByPid(p) THEN "removed" ELSE mod[i]]
      /\ sel' = [sel EXCEPT ![l.r].status = "TERMINATED"]
      /\ tmc' = [tmc EXCEPT ![p] = "none"]
      /\ UNCHANGED <<pid, carried, forked, inbox, todo, exe, going, cli>>
  BY <1>2 DEF RemoveTemp
<1>4. /\ r \in DOMAIN sel /\ Active(r) /\ pid[sel[r].item] = p /\ ByPid(p) = {sel[r].item}
      /\ Quiet(p) /\ Handing(p) /\ p \in Pid /\ r # 0 /\ r \in 0..MaxRuns
      /\ sel[r].item \in Temp /\ carried[sel[r].item] = r /\ sel[r].result = r
  BY <1>2, <1>3, HandedRun
<1>5. PICK i : i = sel[r].item
  OBVIOUS
<1>6. l \in Place /\ l.r \in DOMAIN sel /\ (l.r = r \/ Past(l.r))
  <2>1. PICK t \in Thread : t = "listener"
    BY DEF Thread
  <2>2. at[t] \in Place /\ PlaceOk(t)
    BY <1>1, PlaceRange DEF ThreadInv
  <2>3. QED
    BY <1>2, <1>3, <2>1, <2>2 DEF PlaceOk
<1>7. /\ sel' \in Seq(Entry) /\ DOMAIN sel' = DOMAIN sel /\ Len(sel') = Len(sel)
      /\ \A q \in DOMAIN sel :
           /\ q # r /\ ~Past(q) => sel'[q] = sel[q]
           /\ sel'[q].item = sel[q].item /\ sel'[q].group = sel[q].group
           /\ sel'[q].result = sel[q].result
           /\ sel'[q].status = sel[q].status \/ sel'[q].status = "TERMINATED"
  <2>1. PICK v \in CaseStatus : v = "TERMINATED"
    BY DEF CaseStatus
  <2>2. PICK h \in DOMAIN sel : h = l.r /\ (h = r \/ Past(h))
    BY <1>6
  <2>3. sel' = [sel EXCEPT ![h].status = v]
    BY <1>3, <2>1, <2>2
  <2>4. /\ sel' \in Seq(Entry) /\ DOMAIN sel' = DOMAIN sel /\ Len(sel') = Len(sel)
        /\ \A q \in DOMAIN sel : q # h => sel'[q] = sel[q]
        /\ sel'[h].status = v /\ sel'[h].item = sel[h].item /\ sel'[h].group = sel[h].group
        /\ sel'[h].result = sel[h].result
    BY <1>1, <2>3, SetStatus
  <2>5. QED
    BY <2>1, <2>2, <2>4
<1>8. PICK place \in Place : Goto("listener", place) /\ place.pc = "next" /\ place.r \in DOMAIN sel
  <2>1. PICK a \in ByPid(p) : Goto("listener", [l EXCEPT !.pc = "next", !.r = carried[a]])
    BY <1>2 DEF RemoveTemp
  <2>2. carried[a] = r
    BY <1>4, <2>1
  <2>3. [l EXCEPT !.pc = "next", !.r = r] \in Place
    BY <1>4, <1>6, Fields
  <2>4. [l EXCEPT !.pc = "next", !.r = r].pc = "next" /\ [l EXCEPT !.pc = "next", !.r = r].r = r
    BY <1>6 DEF Place
  <2>5. QED
    BY <1>4, <2>1, <2>2, <2>3, <2>4
<1>9. i \in Item /\ i \in Temp /\ i \notin Module
  BY <1>4, <1>5, TestEngineAssumption DEF Item
<1>10. mod'[i] = "removed" /\ (\A j \in Item : j # i => mod'[j] = mod[j]) /\ mod' \in [Item -> ModuleStatus]
  BY <1>1, <1>3, <1>4, <1>5, <1>9 DEF TypeOK, ModuleStatus
<1>11. Hand'.pc \notin {"credit", "tempfind", "tempend"}
  <2>1. PICK t \in Thread : t = "listener"
    BY DEF Thread
  <2>2. at'[t] = place
    BY <1>1, <1>8, <2>1, AtStep
  <2>3. QED
    BY <1>8, <2>1, <2>2 DEF Hand
<1>12. /\ PidInv' /\ TempInv' /\ RunInv' /\ WorkInv'
       /\ \A q \in DOMAIN sel : Active(q)' <=> Active(q) /\ q # r
  <2>1. pid[i] = p /\ mod'[i] = IF i \in Module THEN "READY" ELSE "removed"
    BY <1>4, <1>5, <1>9, <1>10
  <2>2. UNCHANGED <<pid, carried, forked, inbox, exe, going>>
    BY <1>3
  <2>3. sel'[r].result = r /\ i \notin Module
    BY <1>4, <1>7, <1>9
  <2>4. QED
    BY <1>1, <1>4, <1>5, <1>7, <1>10, <1>11, <2>1, <2>2, <2>3, RunEnded
<1>13. ThreadInv' /\ GroupInv' /\ at' \in [Thread -> Place]
  <2>1. \A q \in DOMAIN sel : sel'[q].group = sel[q].group
    BY <1>7
  <2>2. \A a \in Temp : mod[a] = "absent" => mod'[a] = "absent"
    <3>1. mod[i] # "absent"
      BY <1>1, <1>4, <1>5, ActiveItem
    <3>2. QED
      BY <1>9, <1>10, <3>1 DEF Item
  <2>3. UNCHANGED <<plugin, todo>>
    BY <1>3
  <2>4. QED
    BY <1>4, <1>7, <1>8, <1>12, <2>1, <2>2, <2>3, AfterRun
<1>14. CountInv'
  <2>1. \A m \in Module : mod'[m] = mod[m]
    BY <1>9, <1>10 DEF Item
  <2>2. Awaited' = Awaited
    BY <2>1 DEF Awaited
  <2>3. \A q \in DOMAIN sel : sel'[q].result = sel[q].result
    BY <1>4, <1>7
  <2>4. WithResults' = WithResults
    BY <1>7, <2>3 DEF WithResults
  <2>5. UNCHANGED <<plugin, todo, cli>>
    BY <1>3
  <2>6. QED
    BY <1>1, <1>7, <2>1, <2>2, <2>4, <2>5 DEF CountInv
<1>15. TypeOK'
  <2>1. \A j \in Item : Listed(j)' => pid'[j] # 0
    BY <1>12, ListedPids
  <2>2. QED
    BY <1>1, <1>3, <1>4, <1>7, <1>10, <1>13, <2>1 DEF TypeOK
<1>16. QED
  BY <1>12, <1>13, <1>14, <1>15 DEF IInv

LEMMA CheckNextStep ==
  ASSUME IInv, Alone("listener"), CheckNext, UNCHANGED plugin
  PROVE  IInv'
<1>1. TypeOK /\ ThreadInv
  BY DEF IInv
<1>2. PICK t \in Thread : t = "listener"
  BY DEF Thread
<1>3. PICK g : g = sel[at["listener"].r].group
  OBVIOUS
<1>4. PICK r : r = NextInGroup(g)
  OBVIOUS
<1>5. /\ at[t].pc = "next" /\ Alone(t) /\ t # "user"
      /\ Goto(t, IF r = 0 THEN Idle ELSE [Idle EXCEPT !.pc = "exec", !.r = r])
      /\ UNCHANGED <<mod, pid, carried, sel, forked, inbox, todo, tmc, exe, going, cli>>
  BY <1>2, <1>3, <1>4 DEF CheckNext, tmcVars
<1>6. r = 0 \/ (r \in DOMAIN sel /\ sel[r].status = "IDLE")
  <2>1. PICK S : S = {q \in DOMAIN sel : sel[q].group = g /\ sel[q].status = "IDLE"}
    OBVIOUS
  <2>2. S \in SUBSET Nat /\ 0 \notin S
    BY <1>1, <2>1, SelDomain
  <2>3. First(S) \in S \cup {0}
    BY <2>2, FirstIs
  <2>4. QED
    BY <1>4, <2>1, <2>3 DEF NextInGroup
<1>7. CASE r = 0
  <2>1. Goto(t, Idle) /\ at[t].pc \notin {"credit", "tempfind", "tempend"}
    BY <1>5, <1>7
  <2>2. QED
    BY <1>5, <2>1, IdleStep
<1>8. CASE r # 0
  <2>1. r \in DOMAIN sel /\ sel[r].status = "IDLE" /\ r \in 0..MaxRuns
    BY <1>1, <1>6, <1>8, SelDomain, Numbers
  <2>2. PICK place \in Place : place = [Idle EXCEPT !.pc = "exec", !.r = r]
    BY <2>1, Fields
  <2>3. Goto(t, place)
    BY <1>5, <1>8, <2>2
  <2>4. place.pc = "exec" /\ place.r = r
    BY <2>2 DEF Idle
  <2>5. at'[t] = place
    BY <1>1, <2>3, AtStep
  <2>6. SameHand
    BY <1>2, <1>5, <2>4, <2>5 DEF SameHand, Hand
  <2>7. PlaceOk(t)'
    BY <1>5, <2>1, <2>4, <2>5 DEF PlaceOk
  <2>8. OneByOne => NothingGoing
    BY <1>2, <1>5 DEF OneByOne, Starts, Hand
  <2>9. QED
    BY <1>5, <2>3, <2>6, <2>7, <2>8, PlaceStep
<1>9. QED
  BY <1>7, <1>8

----------------------------------------------------------------------------
(* The steps of the TMCs, and the steps of no one.                         *)

(* What a TMC does that changes neither the lists nor the threads.         *)
LEMMA TmcKept ==
  ASSUME IInv, UNCHANGED <<plugin, mod, pid, carried, sel, forked, at, todo, cli>>, SameTask,
         inbox' \in Seq(Message), tmc' \in [Pid -> {"none", "boot", "up", "asked"}],
         exe' \in [Pid -> Seq(Run)], going' \in [Pid -> SUBSET Run]
  PROVE  IInv'
<1>1. TypeOK /\ PidInv /\ TempInv /\ RunInv /\ WorkInv /\ ThreadInv /\ GroupInv /\ CountInv
  BY DEF IInv
<1>2. SameEntries /\ SameModules /\ SameHand
  BY DEF SameEntries, SameModules, SameHand, Hand
<1>3. TypeOK'
  BY <1>1 DEF TypeOK, Listed
<1>4. PidInv' /\ TempInv' /\ RunInv' /\ WorkInv' /\ CountInv'
  BY <1>1, <1>2, PidInvKept, TempInvKept, RunInvKept, WorkInvKept, CountInvKept
<1>5. ThreadInv'
  BY <1>1, ThreadsKept
<1>6. GroupInv'
  BY <1>1, GroupsKept
<1>7. QED
  BY <1>3, <1>4, <1>5, <1>6 DEF IInv

(* A message of the TMC that is not a result, by a TMC that has nothing    *)
(* else to do.                                                             *)
LEMMA NoticeSent ==
  ASSUME TypeOK, NEW m \in Message, m.type # "ret", inbox' = Append(inbox, m),
         exe' = exe, going' = going
  PROVE  SameTask /\ inbox' \in Seq(Message)
<1>1. ASSUME NEW q PROVE SameTraffic(q)
  <2>1. (NoRet(q)' <=> NoRet(q)) /\ \A r : OneRet(q, r)' <=> OneRet(q, r)
    BY InboxAppended
  <2>2. QED
    BY <2>1 DEF SameTraffic
<1>2. inbox' \in Seq(Message)
  BY DEF TypeOK
<1>3. QED
  BY <1>1, <1>2, TrafficKept DEF SameTask

LEMMA BootStep ==
  ASSUME IInv, NEW p \in Pid, Boot(p),
         UNCHANGED <<plugin, mod, pid, carried, sel, forked, at, todo, cli>>
  PROVE  IInv'
<1>1. TypeOK
  BY DEF IInv
<1>2. PICK type \in {"ok", "ko"} : inbox' = Append(inbox, [type |-> type, pid |-> p, run |-> 0])
  BY DEF Boot, Report
<1>3. PICK m : m = [type |-> type, pid |-> p, run |-> 0]
  OBVIOUS
<1>4. m \in Message /\ m.type # "ret" /\ inbox' = Append(inbox, m)
  <2>1. 0 \in 0..MaxRuns
    BY TestEngineAssumption
  <2>2. QED
    BY <1>2, <1>3, <2>1 DEF Message
<1>5. exe' = exe /\ going' = going /\ tmc' = [tmc EXCEPT ![p] = "up"]
  BY DEF Boot
<1>6. SameTask /\ inbox' \in Seq(Message)
  BY <1>1, <1>4, <1>5, NoticeSent
<1>7. /\ tmc' \in [Pid -> {"none", "boot", "up", "asked"}]
      /\ exe' \in [Pid -> Seq(Run)] /\ going' \in [Pid -> SUBSET Run]
  BY <1>1, <1>5 DEF TypeOK
<1>8. QED
  BY <1>6, <1>7, TmcKept

LEMMA ListCasesStep ==
  ASSUME IInv, NEW p \in Pid, ListCases(p),
         UNCHANGED <<plugin, mod, pid, carried, sel, forked, at, todo, cli>>
  PROVE  IInv'
<1>1. TypeOK
  BY DEF IInv
<1>2. PICK m : m = [type |-> "eot", pid |-> p, run |-> 0]
  OBVIOUS
<1>3. m \in Message /\ m.type # "ret" /\ inbox' = Append(inbox, m)
  <2>1. 0 \in 0..MaxRuns
    BY TestEngineAssumption
  <2>2. QED
    BY <1>2, <2>1 DEF ListCases, Report, Message
<1>4. exe' = exe /\ going' = going /\ tmc' = [tmc EXCEPT ![p] = "up"]
  BY DEF ListCases
<1>5. SameTask /\ inbox' \in Seq(Message)
  BY <1>1, <1>3, <1>4, NoticeSent
<1>6. /\ tmc' \in [Pid -> {"none", "boot", "up", "asked"}]
      /\ exe' \in [Pid -> Seq(Run)] /\ going' \in [Pid -> SUBSET Run]
  BY <1>1, <1>4 DEF TypeOK
<1>7. QED
  BY <1>5, <1>6, TmcKept

(* The only case a TMC was sent is begun.                                  *)
LEMMA BeginStep ==
  ASSUME IInv, NEW p \in Pid, Begin(p),
         UNCHANGED <<plugin, mod, pid, carried, sel, forked, at, todo, cli>>
  PROVE  IInv'
<1>1. TypeOK /\ PidInv /\ RunInv /\ WorkInv
  BY DEF IInv
<1>2. ~Quiet(p) /\ exe[p] # <<>>
  BY DEF Begin, Quiet
<1>3. PICK r \in DOMAIN sel : With(p, r)
  BY <1>1, <1>2, BusyProcess
<1>4. exe[p] = <<r>> /\ going[p] = {} /\ NoRet(p)
  BY <1>2, <1>3, WithOne
<1>5. r \in Run /\ r \in 0..MaxRuns
  BY <1>1, <1>3, SelDomain, Numbers
<1>6. PICK m : m = [type |-> "runid", pid |-> p, run |-> r]
  OBVIOUS
<1>7. Head(<<r>>) = r /\ Tail(<<r>>) = <<>>
  OBVIOUS
<1>8. Head(exe[p]) = r /\ Tail(exe[p]) = <<>>
  BY <1>4, <1>7, Zenon
<1>9. /\ exe' = [exe EXCEPT ![p] = <<>>] /\ going' = [going EXCEPT ![p] = @ \cup {r}]
      /\ inbox' = Append(inbox, m) /\ tmc' = tmc
  BY <1>6, <1>8 DEF Begin, Report
<1>10. m \in Message /\ m.type = "runid"
  BY <1>5, <1>6 DEF Message
<1>11. \A q : (NoRet(q)' <=> NoRet(q)) /\ \A n : OneRet(q, n)' <=> OneRet(q, n)
  BY <1>1, <1>9, <1>10, InboxAppended
<1>12. exe'[p] = <<>> /\ going'[p] = {r}
  BY <1>1, <1>4, <1>9 DEF TypeOK
<1>13. With(p, r)'
  BY <1>4, <1>11, <1>12 DEF With
<1>14. SameTask
  <2>1. ASSUME NEW q \in Pid, q # p PROVE SameTraffic(q)
    <3>1. exe'[q] = exe[q] /\ going'[q] = going[q]
      BY <1>1, <1>9, <2>1 DEF TypeOK
    <3>2. QED
      BY <1>11, <3>1 DEF SameTraffic
  <2>2. ASSUME NEW n, With(p, n) PROVE With(p, n)'
    <3>1. n = r
      BY <1>3, <2>2, WithOnly
    <3>2. QED
      BY <1>13, <3>1
  <2>3. QED
    BY <1>2, <2>1, <2>2, TrafficKept DEF SameTask
<1>15. /\ inbox' \in Seq(Message) /\ tmc' \in [Pid -> {"none", "boot", "up", "asked"}]
       /\ exe' \in [Pid -> Seq(Run)] /\ going' \in [Pid -> SUBSET Run]
  <2>1. <<>> \in Seq(Run)
    OBVIOUS
  <2>2. inbox' \in Seq(Message)
    BY <1>1, <1>9, <1>10 DEF TypeOK
  <2>3. QED
    BY <1>1, <1>5, <1>9, <2>1, <2>2 DEF TypeOK
<1>16. QED
  BY <1>14, <1>15, TmcKept

(* The only case a TMC executes is reported.                               *)
LEMMA FinishStep ==
  ASSUME IInv, NEW p \in Pid, Finish(p),
         UNCHANGED <<plugin, mod, pid, carried, sel, forked, at, todo, cli>>
  PROVE  IInv'
<1>1. TypeOK /\ PidInv /\ RunInv /\ WorkInv
  BY DEF IInv
<1>2. PICK r \in going[p] : /\ going' = [going EXCEPT ![p] = @ \ {r}]
                            /\ Report("ret", p, r)
                            /\ UNCHANGED <<tmc, exe>>
  BY DEF Finish
<1>3. ~Quiet(p) /\ going[p] # {}
  BY <1>2 DEF Quiet
<1>4. PICK q \in DOMAIN sel : With(p, q)
  BY <1>1, <1>3, BusyProcess
<1>5. exe[p] = <<>> /\ going[p] = {q} /\ NoRet(p)
  BY <1>3, <1>4, WithOne
<1>6. q = r /\ r \in Run /\ r \in 0..MaxRuns
  BY <1>1, <1>2, <1>4, <1>5, SelDomain, Numbers
<1>7. PICK m : m = [type |-> "ret", pid |-> p, run |-> r]
  OBVIOUS
<1>8. inbox' = Append(inbox, m) /\ exe' = exe /\ tmc' = tmc
  BY <1>2, <1>7 DEF Report
<1>9. m \in Message /\ m.type = "ret" /\ m.pid = p /\ m.run = r
  BY <1>6, <1>7 DEF Message
<1>10. OneRet(p, r)'
  <2>1. OneRet(p, m.run)'
    BY <1>1, <1>5, <1>8, <1>9, InboxAppended
  <2>2. QED
    BY <1>9, <2>1
<1>11. exe'[p] = <<>> /\ going'[p] = {}
  BY <1>1, <1>2, <1>5, <1>6, <1>8 DEF TypeOK
<1>12. With(p, r)'
  BY <1>10, <1>11 DEF With
<1>13. SameTask
  <2>1. ASSUME NEW s \in Pid, s # p PROVE SameTraffic(s)
    <3>1. exe'[s] = exe[s] /\ going'[s] = going[s]
      BY <1>1, <1>2, <1>8, <2>1 DEF TypeOK
    <3>2. (NoRet(s)' <=> NoRet(s)) /\ \A n : OneRet(s, n)' <=> OneRet(s, n)
      BY <1>1, <1>8, <1>9, <2>1, InboxAppended
    <3>3. QED
      BY <3>1, <3>2 DEF SameTraffic
  <2>2. ASSUME NEW n, With(p, n) PROVE With(p, n)'
    <3>1. n = r
      BY <1>4, <1>6, <2>2, WithOnly
    <3>2. QED
      BY <1>12, <3>1
  <2>3. QED
    BY <1>3, <2>1, <2>2, TrafficKept DEF SameTask
<1>14. /\ inbox' \in Seq(Message) /\ tmc' \in [Pid -> {"none", "boot", "up", "asked"}]
       /\ exe' \in [Pid -> Seq(Run)] /\ going' \in [Pid -> SUBSET Run]
  <2>1. inbox' \in Seq(Message)
    BY <1>1, <1>8, <1>9 DEF TypeOK
  <2>2. QED
    BY <1>1, <1>2, <1>8, <2>1 DEF TypeOK
<1>15. QED
  BY <1>13, <1>14, TmcKept

LEMMA Stuttering ==
  ASSUME IInv, UNCHANGED vars
  PROVE  IInv'
<1>1. UNCHANGED <<plugin, mod, pid, carried, sel, forked, inbox, at, todo, cli, tmc, exe, going>>
  BY DEF vars
<1>2. SameTask
  BY <1>1, TrafficUnchanged, TrafficKept DEF SameTask
<1>3. TypeOK
  BY DEF IInv
<1>4. QED
  BY <1>1, <1>2, <1>3, TmcKept DEF TypeOK

LEMMA InitIInv ==
  ASSUME Init
  PROVE  IInv
<1>1. /\ plugin \in Plugins /\ plugin \in {"cli", "console"}
      /\ sel = <<>> /\ forked = 0 /\ inbox = <<>>
      /\ pid = [i \in Item |-> IF i \in Module THEN i ELSE 0]
      /\ exe = [p \in Pid |-> <<>>] /\ going = [p \in Pid |-> {}]
      /\ at = [t \in Thread |-> Idle] /\ todo = [t \in Thread |-> <<>>]
      /\ carried = [i \in Temp |-> 0]
      /\ cli = [heard |-> {}, starting |-> FALSE, ready |-> 0, cases |-> 0, results |-> 0,
                done |-> FALSE]
  BY TestEngineAssumption DEF Init
<1>2. Module \cap Temp = {} /\ MaxRuns \in Nat /\ MaxTemps \in Nat /\ 0 \notin Module
      /\ Cardinality(Module) \in Nat /\ IsFiniteSet(Module)
  BY TestEngineAssumption, Numbers, FS_CardinalityType
<1>3. /\ \A a \in Temp : mod[a] = "absent" /\ pid[a] = 0
      /\ \A m \in Module : /\ pid[m] = m
                           /\ plugin = "cli" => mod[m] = "INITIALIZED"
                           /\ plugin = "console" => mod[m] \in {"READY", "removed"}
      /\ mod \in [Item -> ModuleStatus]
  <2>1. /\ mod = [i \in Item |-> IF i \in Temp THEN "absent" ELSE InitialStatus(i)]
        /\ Item = Module \cup Temp
    BY DEF Init, Item
  <2>2. \A m \in Module : /\ plugin = "cli" => InitialStatus(m) = "INITIALIZED"
                          /\ plugin = "console" => InitialStatus(m) \in {"READY", "removed"}
    BY DEF InitialStatus
  <2>3. \A m \in Module : InitialStatus(m) \in ModuleStatus
    BY <1>1, <2>2 DEF ModuleStatus
  <2>4. "absent" \in ModuleStatus
    BY DEF ModuleStatus
  <2>5. QED
    BY <1>1, <1>2, <2>1, <2>2, <2>3, <2>4
<1>4. \A t \in Thread : at[t].pc = "idle" /\ todo[t] = <<>> /\ Len(todo[t]) = 0
  BY <1>1, IdlePlace
<1>5. "listener" \in Thread /\ "user" \in Thread /\ Len(sel) = 0 /\ DOMAIN sel = {}
      /\ DOMAIN inbox = {}
  BY <1>1 DEF Thread
<1>6. TypeOK
  <2>1. /\ sel \in Seq(Entry) /\ inbox \in Seq(Message) /\ Len(sel) <= MaxRuns
        /\ forked \in 0..MaxTemps
    BY <1>1, <1>2
  <2>2. /\ exe \in [Pid -> Seq(Run)] /\ going \in [Pid -> SUBSET Run]
        /\ at \in [Thread -> Place] /\ todo \in [Thread -> Seq(Case \X Nat)]
    <3>1. <<>> \in Seq(Run) /\ <<>> \in Seq(Case \X Nat)
      OBVIOUS
    <3>2. QED
      BY <1>1, <3>1, IdlePlace
  <2>3. cli \in CliCounts /\ cli.results <= cli.cases
    <3>1. 0 \in 0..Cardinality(Module) /\ 0 \in 0..MaxRuns
      BY <1>2
    <3>2. QED
      BY <1>1, <3>1 DEF CliCounts
  <2>4. tmc \in [Pid -> {"none", "boot", "up", "asked"}]
    BY DEF Init
  <2>5. pid \in [Item -> Pid \cup {0}] /\ carried \in [Temp -> 0..MaxRuns]
    BY <1>1, <1>2 DEF Item, Pid
  <2>6. \A i \in Item : Listed(i) => pid[i] # 0
    BY <1>2, <1>3 DEF Item, Listed
  <2>7. QED
    BY <1>1, <1>3, <2>1, <2>2, <2>3, <2>4, <2>5, <2>6 DEF TypeOK
<1>7. PidInv
  <2>1. \A m \in Module : pid[m] = m /\ mod[m] \in {"INITIALIZED", "TC_SENDING", "READY", "BUSY", "removed"}
    BY <1>1, <1>3
  <2>2. \A a \in Temp : pid[a] \in 0..forked
    BY <1>1, <1>3
  <2>3. QED
    BY <1>3, <2>1, <2>2 DEF PidInv
<1>8. TempInv
  BY <1>3 DEF TempInv
<1>9. RunInv
  BY <1>1, <1>3, <1>5 DEF RunInv
<1>10. WorkInv
  BY <1>1, <1>5 DEF WorkInv, Quiet, NoRet
<1>11. ThreadInv
  <2>1. \A t \in Thread : PlaceOk(t)
    BY <1>4 DEF PlaceOk
  <2>2. Len(sel) + Len(todo["listener"]) + Len(todo["user"]) <= MaxRuns
    <3>1. Len(sel) = 0 /\ Len(todo["listener"]) = 0 /\ Len(todo["user"]) = 0
      BY <1>4, <1>5
    <3>2. QED
      BY <1>2, <3>1
  <2>3. QED
    BY <1>4, <1>5, <2>1, <2>2 DEF ThreadInv
<1>12. GroupInv
  <2>1. DOMAIN todo["listener"] = {}
    BY <1>4, <1>5
  <2>2. GroupIs(0)
    BY <1>5, <2>1 DEF GroupIs
  <2>3. QED
    BY <2>2 DEF GroupInv
<1>13. CountInv
  <2>1. plugin = "console" => \A m \in Module : mod[m] \in {"READY", "BUSY", "removed"}
    BY <1>3
  <2>2. cli.cases = Len(sel) + Len(todo["listener"]) /\ cli.results = 0 /\ cli.ready = 0 /\ ~cli.starting
    BY <1>1, <1>4, <1>5
  <2>3. Cardinality(WithResults) \in Nat /\ Cardinality(Awaited) \in Nat
    BY <1>6, CliFields
  <2>4. Cardinality(Awaited) <= Cardinality(Module)
    <3>1. Awaited \in SUBSET Module
      BY DEF Awaited
    <3>2. QED
      BY <1>2, <3>1, FS_Subset
  <2>5. cli.ready + (IF cli.starting THEN 1 ELSE 0) + Cardinality(Awaited) <= Cardinality(Module)
    BY <1>2, <2>2, <2>3, <2>4
  <2>6. cli.results <= Cardinality(WithResults)
    BY <2>2, <2>3
  <2>7. QED
    BY <2>1, <2>2, <2>5, <2>6 DEF CountInv
<1>14. QED
  BY <1>6, <1>7, <1>8, <1>9, <1>10, <1>11, <1>12, <1>13 DEF IInv

LEMMA NextStep ==
  ASSUME IInv, Apart, [Next]_vars
  PROVE  IInv'
<1>1. CASE UNCHANGED vars
  BY <1>1, Stuttering
<1>2. CASE Next
  <2>1. UNCHANGED plugin
    BY <1>2 DEF Next
  <2>2. CASE User /\ ~Overlap
    <3>1. PICK t \in Thread : t = "user"
      BY DEF Thread
    <3>2. Alone(t) /\ Alone("user")
      BY <2>2, <3>1 DEF User, Runnable, Alone
    <3>3. CASE StartCase("user") /\ UNCHANGED cli
      BY <2>1, <3>1, <3>2, <3>3, StartCaseStep
    <3>4. CASE UserStarts /\ UNCHANGED cli
      BY <2>1, <3>2, <3>4, UserStartsStep
    <3>5. CASE UserControls /\ UNCHANGED cli
      BY <2>1, <3>2, <3>5, UserControlsStep
    <3>6. CASE UserSetsStatus /\ UNCHANGED cli
      BY <2>1, <3>2, <3>6, UserSetsStatusStep
    <3>7. CASE CliEnds
      BY <2>1, <3>7, CliEndsStep
    <3>8. QED
      BY <2>2, <3>3, <3>4, <3>5, <3>6, <3>7 DEF User
  <2>3. CASE Listener
    <3>1. PICK t \in Thread : t = "listener"
      BY DEF Thread
    <3>2. Alone(t) /\ Alone("listener")
      BY <2>3, <3>1 DEF Listener, Runnable, Alone, Apart, IInv, ThreadInv, Thread
    <3>3. CASE StartCase("listener") /\ UNCHANGED cli
      BY <2>1, <3>1, <3>2, <3>3, StartCaseStep
    <3>4. CASE CliCountsReady
      BY <2>1, <3>4, CliCountsReadyStep
    <3>5. CASE HandleOk
      BY <2>1, <3>2, <3>5, HandleOkStep
    <3>6. CASE HandleKo
      BY <2>1, <3>2, <3>6, HandleKoStep
    <3>7. CASE HandleTcd
      BY <2>1, <3>2, <3>7, HandleTcdStep
    <3>8. CASE HandleRunId
      BY <2>1, <3>2, <3>8, HandleRunIdStep
    <3>9. CASE HandleRet
      BY <2>1, <3>2, <3>9, HandleRetStep
    <3>10. CASE Credit
      BY <2>1, <3>2, <3>10, CreditStep
    <3>11. CASE FindTempCase
      BY <2>1, <3>2, <3>11, FindTempCaseStep
    <3>12. CASE RemoveTemp
      BY <2>1, <3>2, <3>12, RemoveTempStep
    <3>13. CASE CheckNext
      BY <2>1, <3>2, <3>13, CheckNextStep
    <3>14. QED
      BY <2>3, <3>3, <3>4, <3>5, <3>6, <3>7, <3>8, <3>9, <3>10, <3>11, <3>12, <3>13 DEF Listener
  <2>4. CASE \E p \in Pid : Tmc(p)
    <3>1. PICK p \in Pid : Tmc(p)
      BY <2>4
    <3>2. UNCHANGED <<plugin, mod, pid, carried, sel, forked, at, todo, cli>>
      BY <2>1, <3>1 DEF Tmc
    <3>3. QED
      BY <3>1, <3>2, BootStep, ListCasesStep, BeginStep, FinishStep DEF Tmc
  <2>5. CASE User /\ plugin = "cli"
    <3>1. at["user"].pc = "idle" /\ todo["user"] = <<>>
      BY <2>5 DEF IInv, ThreadInv
    <3>2. CliEnds
      BY <2>5, <3>1 DEF User, UserStarts, UserControls, UserSetsStatus, StartCase, CheckGroup, Select,
                        ReadStatus, Execute, StartTemp, SetTemp, StatusFault
    <3>3. QED
      BY <2>1, <3>2, CliEndsStep
  <2>6. QED
    BY <1>2, <2>2, <2>3, <2>4, <2>5 DEF Next, Apart
<1>3. QED
  BY <1>1, <1>2

LEMMA Invariance == Spec => [](Apart => IInv)
<1>1. Init => IInv
  BY InitIInv
<1>2. (Apart => IInv) /\ [Next]_vars => (Apart => IInv)'
  <2>1. [Next]_vars => plugin' = plugin
    BY DEF Next, vars
  <2>2. QED
    BY <2>1, NextStep DEF Apart
<1>3. QED
  BY <1>1, <1>2, PTL DEF Spec

----------------------------------------------------------------------------
(* What the engine promises.                                               *)

LEMMA OwnResult ==
  ASSUME IInv
  PROVE  ResultIsOwn
<1> SUFFICES ASSUME NEW r \in DOMAIN sel
             PROVE  /\ sel[r].result \in {0, r}
                    /\ sel[r].status = "TERMINATED" => sel[r].result = r
  BY DEF ResultIsOwn
<1>1. RunOk(r) /\ sel[r].status \in CaseStatus
  BY SelDomain DEF IInv, RunInv
<1>2. sel[r].status = "IDLE" \/ sel[r].status = "TERMINATED" \/ Active(r) \/ Past(r)
  BY <1>1 DEF CaseStatus, Active
<1>3. CASE Active(r)
  BY <1>1, <1>3 DEF RunOk, Active
<1>4. CASE Past(r)
  BY <1>1, <1>4 DEF RunOk
<1>5. QED
  BY <1>1, <1>2, <1>3, <1>4 DEF RunOk

(* The number of results that wait in the inbox.                           *)
LEMMA WaitingResults ==
  ASSUME NEW p
  PROVE  /\ NoRet(p) => Cardinality({k \in DOMAIN inbox : IsRet(k, p)}) = 0
         /\ \A r : OneRet(p, r) => Cardinality({k \in DOMAIN inbox : IsRet(k, p)}) = 1
<1>1. ASSUME NoRet(p) PROVE Cardinality({k \in DOMAIN inbox : IsRet(k, p)}) = 0
  <2>1. {k \in DOMAIN inbox : IsRet(k, p)} = {}
    BY <1>1 DEF NoRet
  <2>2. QED
    BY <2>1, FS_EmptySet
<1>2. ASSUME NEW r, OneRet(p, r) PROVE Cardinality({k \in DOMAIN inbox : IsRet(k, p)}) = 1
  <2>1. PICK k \in DOMAIN inbox : IsRet(k, p) /\ \A j \in DOMAIN inbox : IsRet(j, p) => j = k
    BY <1>2 DEF OneRet
  <2>2. {j \in DOMAIN inbox : IsRet(j, p)} = {k}
    BY <2>1
  <2>3. QED
    BY <2>2, FS_Singleton
<1>3. QED
  BY <1>1, <1>2

LEMMA FewPending ==
  ASSUME IInv
  PROVE  OneAtATime
<1> SUFFICES ASSUME NEW p \in Pid PROVE Pending(p) <= 1
  BY DEF OneAtATime
<1>1. PICK a, b, c : /\ a = Len(exe[p]) /\ b = Cardinality(going[p])
                     /\ c = Cardinality({k \in DOMAIN inbox : IsRet(k, p)})
  OBVIOUS
<1>2. Pending(p) = a + b + c
  BY <1>1 DEF Pending, IsRet
<1>3. /\ exe[p] = <<>> => a = 0
      /\ \A r : exe[p] = <<r>> => a = 1
      /\ going[p] = {} => b = 0
      /\ \A r : going[p] = {r} => b = 1
      /\ NoRet(p) => c = 0
      /\ \A r : OneRet(p, r) => c = 1
  <2>1. Len(<<>>) = 0 /\ \A r : Len(<<r>>) = 1
    OBVIOUS
  <2>2. Cardinality({}) = 0 /\ \A r : Cardinality({r}) = 1
    BY FS_EmptySet, FS_Singleton
  <2>3. QED
    BY <1>1, <2>1, <2>2, WaitingResults
<1>4. a + b + c <= 1
  <2>1. CASE Quiet(p)
    BY <1>3, <2>1 DEF Quiet
  <2>2. CASE \E r : With(p, r)
    <3>1. PICK r : With(p, r)
      BY <2>2
    <3>2. \/ a = 1 /\ b = 0 /\ c = 0
          \/ a = 0 /\ b = 1 /\ c = 0
          \/ a = 0 /\ b = 0 /\ c = 1
      BY <1>3, <3>1, Zenon DEF With
    <3>3. QED
      BY <3>2
  <2>3. QED
    BY <2>1, <2>2 DEF IInv, WorkInv
<1>5. QED
  BY <1>2, <1>4

(* A case that is on its way is one that is executed.                      *)
LEMMA SentIsActive ==
  ASSUME IInv, NEW r \in DOMAIN sel, Sent(r)
  PROVE  Active(r)
<1>1. PICK p \in Pid : \/ \E k \in DOMAIN exe[p] : exe[p][k] = r
                       \/ r \in going[p]
                       \/ \E k \in DOMAIN inbox : inbox[k].type = "ret" /\ inbox[k].run = r
  BY DEF Sent
<1>2. TypeOK /\ WorkInv
  BY DEF IInv
<1>3. CASE \E k \in DOMAIN exe[p] : exe[p][k] = r
  <2>1. exe[p] # <<>>
    BY <1>3
  <2>2. PICK q \in DOMAIN sel : Active(q) /\ With(p, q)
    BY <1>2, <2>1 DEF WorkInv, Quiet
  <2>3. exe[p] = <<q>>
    BY <2>1, <2>2, WithOne
  <2>4. QED
    BY <1>3, <2>2, <2>3
<1>4. CASE r \in going[p]
  <2>1. PICK q \in DOMAIN sel : Active(q) /\ With(p, q)
    BY <1>2, <1>4 DEF WorkInv, Quiet
  <2>2. going[p] = {q}
    BY <1>4, <2>1, WithOne
  <2>3. QED
    BY <1>4, <2>1, <2>2
<1>5. CASE \E k \in DOMAIN inbox : inbox[k].type = "ret" /\ inbox[k].run = r
  <2>1. PICK k \in DOMAIN inbox : inbox[k].type = "ret" /\ inbox[k].run = r
    BY <1>5
  <2>2. PICK s : s = inbox[k].pid
    OBVIOUS
  <2>3. inbox[k] \in Message
    BY <1>2, <2>1 DEF TypeOK
  <2>4. s \in Pid /\ IsRet(k, s)
    BY <2>1, <2>2, <2>3 DEF Message, IsRet
  <2>5. PICK q \in DOMAIN sel : Active(q) /\ With(s, q)
    BY <1>2, <2>1, <2>4 DEF WorkInv, Quiet, NoRet
  <2>6. OneRet(s, q)
    BY <2>1, <2>4, <2>5, WithOne DEF NoRet
  <2>7. q = r
    BY <2>1, <2>4, <2>6 DEF OneRet
  <2>8. QED
    BY <2>5, <2>7
<1>6. QED
  BY <1>1, <1>3, <1>4, <1>5

LEMMA GroupsOneByOne ==
  ASSUME IInv
  PROVE  CliSequential
<1> SUFFICES ASSUME plugin = "cli", NEW q \in DOMAIN sel, NEW r \in DOMAIN sel,
                    q # r, sel[q].group # 0, Sent(q), Sent(r)
             PROVE  FALSE
  BY DEF CliSequential, Sequential
<1>1. Active(q) /\ Active(r)
  BY SentIsActive
<1>2. PICK g \in {0, 1} : GroupIs(g) /\ (g # 0 => OneByOne)
  BY DEF IInv, GroupInv
<1>3. OneByOne
  BY <1>2 DEF GroupIs
<1>4. QED
  BY <1>1, <1>3 DEF OneByOne

(* The statuses and the pids of the modules, the entries of selected_cases *)
(* and what the threads remember stay within their ranges: no entry beyond *)
(* the list, no listed module without a pid, no result the CLI did not     *)
(* start a case for.                                                       *)
THEOREM TypeCorrect == Spec => [](Apart => TypeOK)
<1>1. (Apart => IInv) => (Apart => TypeOK)
  BY DEF IInv
<1>2. QED
  BY <1>1, Invariance, PTL

(* ec_handle_ret credits a MSG_RET to the case that was executed, though   *)
(* it looks for it by the pid of the sender (and ec_handle_temp_results by *)
(* the address of the module), and a case that has ended has its result.   *)
THEOREM ResultsAreOwn == Spec => [](Apart => ResultIsOwn)
<1>1. (Apart => IInv) => (Apart => ResultIsOwn)
  BY OwnResult
<1>2. QED
  BY <1>1, Invariance, PTL

(* ec_exec_case sends MSG_EXE only to a TMC that has no other case to      *)
(* execute or to report, through all statuses a module can have.           *)
THEOREM OneCaseAtATime == Spec => [](Apart => OneAtATime)
<1>1. (Apart => IInv) => (Apart => OneAtATime)
  BY FewPending
<1>2. QED
  BY <1>1, Invariance, PTL

(* With the CLI, cases of one group are executed one after the other:      *)
(* eapi_start_test_case and ec_check_next_in_group start none before the   *)
(* result of the last one is there.                                        *)
THEOREM CliInSequence == Spec => []CliSequential
<1>1. (Apart => IInv) => CliSequential
  BY GroupsOneByOne DEF Apart, CliSequential
<1>2. QED
  BY <1>1, Invariance, PTL
============================================================================
