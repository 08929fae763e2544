--------------------------- MODULE ScripterProofs ---------------------------
(***************************************************************************)
(* Proofs about Scripter for any testids, any commands, scripts of any     *)
(* length and any number of records.                                       *)
(***************************************************************************)
EXTENDS Scripter, FiniteSetTheorems, SequenceTheorems, WellFoundedInduction, TLAPS

----------------------------------------------------------------------------
(* Which message is where after one is appended.                           *)
LEMMA AppendIndexed ==
  ASSUME NEW T, NEW s \in Seq(T), NEW e \in T
  PROVE  /\ Append(s, e) \in Seq(T) /\ Append(s, e) # <<>>
         /\ DOMAIN Append(s, e) = DOMAIN s \cup {Len(s) + 1}
         /\ Len(s) + 1 \notin DOMAIN s
         /\ \A k \in DOMAIN s : k \in Nat /\ k < Len(s) + 1 /\ Append(s, e)[k] = s[k]
         /\ Append(s, e)[Len(s) + 1] = e
BY AppendProperties

(* A set of naturals that is not empty has a least element.                *)
LEMMA LeastElement ==
  ASSUME NEW S \in SUBSET Nat, S # {}
  PROVE  \E s \in S : \A r \in S : s <= r
<1> DEFINE R == {p \in Nat \X Nat : p[1] < p[2]}
<1>1. IsWellFoundedOn(R, Nat)
  BY NatLessThanWellFounded DEF OpToRel
<1>2. PICK s \in S : \A r \in S : <<r, s>> \notin R
  <2> HIDE DEF R
  <2>1. QED
    BY <1>1, WFMin
<1>3. ASSUME NEW r \in S PROVE s <= r
  <2>1. <<r, s>> \in Nat \X Nat /\ <<r, s>>[1] = r /\ <<r, s>>[2] = s
    OBVIOUS
  <2>2. ~(r < s)
    BY <1>2, <2>1
  <2>3. QED
    BY <2>2
<1>4. QED
  BY <1>3

----------------------------------------------------------------------------
(* The messages the main loop has still to deal with: the one in           *)
(* input_buffer while it is handled, at 0, then those of the queue.        *)
Slots == {n \in 0..Len(queue) : n = 0 => pc \in {"handle", "reap"}}
Letter(n) == IF n = 0 THEN msg ELSE queue[n]

IsRet(n, i) == Letter(n).kind = "ret" /\ Letter(n).from = i
IsAnswer(n) == Letter(n).kind \in {"extif", "event"}
IsReady(n, c) == Letter(n).kind = "ready" /\ Letter(n).case = c
Grants(n, c) == Letter(n).kind = "extif" /\ Letter(n).case = c /\ c # 0
NoRet(i) == \A n \in Slots : ~IsRet(n, i)

Status == {"NONE", "RUNNING", "PAUSED", "ENDED", "ABORTED", "CANCELED", "TIMEOUT"}
Rec == [kind : {"run", "class", "remote"}, id : Ids \cup {None} \cup Nat, expect : Results,
        status : Status, results : SUBSET Results, crashed : BOOLEAN]
Proc == [state : {"none", "forked", "stray", "idle", "running", "sent", "zombie", "reaped"},
         usr2 : BOOLEAN, stopped : {"no", "timed", "stopped"},
         outcomes : SUBSET [result : Results, expect : Results]]
RetMsg == [kind : {"ret"}, from : Nat \ {0}, result : Results]
AnswerMsg == [kind : {"extif", "event"}, ok : BOOLEAN, case : Nat]
ReadyMsg == [kind : {"ready"}, case : Nat, result : {"passed", "failed"}]
Msg == RetMsg \cup AnswerMsg \cup ReadyMsg
Walk == [at : Nat, wait : Nat]

TypeInv ==
  /\ pc \in {"top", "read", "handle", "reap", "cancel", "script", "done"}
  /\ begun \in BOOLEAN /\ lines \in 0..MaxLines /\ flags \subseteq Flags
  /\ complete \in Ids \cup {None} /\ remotes \in Nat
  /\ alarm \in {"off", "armed", "handler"}
  /\ verdict \in {None, "passed", "failed", "crashed", "nc"}
  /\ recs \in Seq(Rec) /\ procs \in Seq(Proc) /\ Len(recs) = Len(procs)
  /\ walks \in [{"main", "handler"} -> Walk]
  /\ \A w \in {"main", "handler"} : walks[w].wait = 0 \/ walks[w].wait \in DOMAIN recs
  /\ queue \in Seq(Msg) /\ (pc \in {"handle", "reap"} => msg \in Msg)
  /\ asked \in Seq({"allocate", "wait", "remote"}) /\ abroad \subseteq 1..cases /\ cases \in Nat

(* What the kinds of records are.                                          *)
KindOk(i) ==
  /\ recs[i].kind = "run" =>
       recs[i].id \in Ids /\ recs[i].status # "NONE" /\ procs[i].state \notin {"none", "idle"}
  /\ recs[i].kind = "class" =>
       recs[i].id = None /\ recs[i].status \in {"NONE", "ENDED"} /\ procs[i].state \notin {"none", "sent"}
  /\ recs[i].kind = "remote" =>
       recs[i].id \in 1..cases /\ procs[i].state = "none" /\ procs[i].outcomes = {}
       /\ recs[i].results \subseteq {"passed", "failed"}
KindInv ==
  /\ \A i \in DOMAIN recs : KindOk(i)
  /\ \A i, j \in DOMAIN recs : recs[i].kind = "class" /\ recs[j].kind = "class" => i = j
  /\ \A i, j \in DOMAIN recs : recs[i].kind = "remote" /\ recs[i].id = recs[j].id => i = j

(* Who waits for whom.                                                     *)
LoopInv ==
  /\ walks["main"].wait # 0 => pc = "cancel"
  /\ walks["handler"].wait # 0 => alarm = "handler"
  /\ pc = "done" => alarm # "handler" /\ Is("finished") /\ ~Is("tclass_exec") /\ remotes = 0
  /\ pc = "reap" => msg.kind = "ret" /\ recs[msg.from].kind = "run"

Awaited(i) ==
  \/ \E w \in {"main", "handler"} : walks[w].wait = i
  \/ pc = "reap" /\ msg.from = i

(* A test case that is not RUNNING or PAUSED any more has ended, or its    *)
(* end is waited for.                                                      *)
TestOk(i) == recs[i].kind = "run" /\ recs[i].status \notin {"RUNNING", "PAUSED"} =>
               procs[i].state \in {"zombie", "reaped"} \/ Awaited(i)
TestInv ==
  /\ \A i \in DOMAIN recs : TestOk(i)
  /\ pc = "done" => \A i \in DOMAIN recs : recs[i].status \notin {"RUNNING", "PAUSED"}

(* MSG_RET: of one of the test processes, the only one of a test case, and *)
(* what the test function said.  All it ever said is in its record, or on  *)
(* its way; and what is in the record, it said.                            *)
Quiet(i) == procs[i].state \notin {"forked", "running"}
Settled(i, o) == Judged(o) \in recs[i].results
Coming(i, o) == \E n \in Slots : IsRet(n, i) /\ o = Outcome(i, Letter(n).result)
Backed(i) == \A r \in recs[i].results :
               r = "passed" \/ \E o \in procs[i].outcomes : o.result = r /\ o.expect # r
RetOk(i) ==
  /\ \A n, m \in Slots : IsRet(n, i) /\ IsRet(m, i) => n = m
  /\ \A n \in Slots : IsRet(n, i) => Quiet(i) /\ Outcome(i, Letter(n).result) \in procs[i].outcomes
  /\ \A o \in procs[i].outcomes : Settled(i, o) \/ Coming(i, o)
  /\ Backed(i)
RunRetOk(i) ==
  /\ RetOk(i)
  /\ recs[i].status = "ENDED" =>
       Quiet(i) /\ \A n \in Slots : IsRet(n, i) => n = 0 /\ pc = "reap"
RetInv ==
  /\ \A n \in Slots : Letter(n).kind = "ret" =>
       Letter(n).from \in DOMAIN recs /\ recs[Letter(n).from].kind \in {"run", "class"}
  /\ \A i \in DOMAIN recs : recs[i].kind = "run" => RunRetOk(i)

(* The cases that run on slaves: each was granted by an answer, and then   *)
(* has a record; extif_remote counts those with a record whose result has  *)
(* not been handled.                                                       *)
Known(c) == \E i \in DOMAIN recs : recs[i].kind = "remote" /\ recs[i].id = c
Readied(c) == \E n \in Slots : IsReady(n, c)
Out == {c \in 1..cases : Known(c) /\ (c \in abroad \/ Readied(c))}
CaseInv ==
  /\ \A n \in Slots : IsAnswer(n) => Letter(n).case \in 0..cases /\ (Letter(n).case # 0 => Letter(n).ok /\ Letter(n).kind = "extif")
  /\ \A n \in Slots : Letter(n).kind = "ready" => Letter(n).case \in 1..cases /\ Letter(n).case \notin abroad
  /\ \A c \in abroad : Known(c) \/ \E n \in Slots : Grants(n, c)
  /\ \A n \in Slots : \A c \in 1..cases : IsReady(n, c) => Known(c) \/ \E m \in Slots : m < n /\ Grants(m, c)
  /\ \A n, m \in Slots : \A c \in 1..cases : IsReady(n, c) /\ IsReady(m, c) => n = m
  /\ \A n \in Slots : \A c \in 1..cases : Grants(n, c) => ~Known(c) /\ (c \in abroad \/ Readied(c))
  /\ \A n, m \in Slots : \A c \in 1..cases : Grants(n, c) /\ Grants(m, c) => n = m
  /\ remotes = Cardinality(Out)

(* Unless the script is in error, one blocking command is asked at a time, *)
(* and the script stands still until it is answered.                       *)
Waits == Is("extif") \/ Is("event")
Unasked == asked = <<>> /\ \A n \in Slots : ~IsAnswer(n)
AskInv ==
  /\ ~Unasked => Waits
  /\ Len(asked) <= 1
  /\ asked # <<>> => \A n \in Slots : ~IsAnswer(n)
  /\ \A n, m \in Slots : IsAnswer(n) /\ IsAnswer(m) => n = m

(* Likewise for the method of a test class.                                *)
ClassOk(i) ==
  /\ RetOk(i)
  /\ ~Is("tclass_exec") => procs[i].state # "running" /\ NoRet(i)
ClassInv == \A i \in DOMAIN recs : recs[i].kind = "class" => ClassOk(i)

(* A script that finishes while something is asked has been canceled: by   *)
(* a test case that stays so.                                              *)
Culprit(i) ==
  recs[i].kind = "run" /\ recs[i].status = "CANCELED" /\ Quiet(i) /\ NoRet(i)
EndInv == Is("finished") => Unasked \/ \E i \in DOMAIN recs : Culprit(i)

Failed(i) == recs[i].kind = "run" /\ \E o \in procs[i].outcomes : o.result = "failed"
CancelInv ==
  pc = "cancel" \/ (\E i \in DOMAIN recs : recs[i].status = "CANCELED") =>
    \E i \in DOMAIN recs : Failed(i)

Blamed(i) ==
  \/ recs[i].status \in {"NONE", "TIMEOUT"} \/ ~Met(i)
  \/ recs[i].kind = "remote" /\ "failed" \in recs[i].results

VerdictInv ==
  /\ verdict # None => pc = "done"
  /\ verdict \in {"passed", "failed"} => ~Is("error") /\ abroad = {} /\ asked = <<>>
  /\ verdict = "passed" => \A i \in DOMAIN recs : recs[i].status # "ABORTED" =>
                             /\ Met(i) /\ procs[i].state # "running"
                             /\ recs[i].kind = "run" => procs[i].state # "forked"
  /\ verdict = "nc" => \E i \in DOMAIN recs : Failed(i)
  /\ verdict = "failed" => \E i \in DOMAIN recs : Blamed(i)

NoError == ~Is("error") => AskInv /\ ClassInv /\ EndInv

IInv ==
  /\ TypeInv /\ KindInv /\ LoopInv /\ TestInv /\ RetInv /\ CaseInv /\ CancelInv /\ VerdictInv
  /\ NoError

----------------------------------------------------------------------------
(* The vocabulary of the proofs: what a step does to the records, to the   *)
(* processes and to the messages.                                          *)

NamesKept ==
  /\ recs' \in Seq(Rec) /\ procs' \in Seq(Proc) /\ Len(recs') = Len(procs')
  /\ DOMAIN recs' = DOMAIN recs
  /\ \A j \in DOMAIN recs : recs'[j].kind = recs[j].kind /\ recs'[j].id = recs[j].id

(* A process says nothing, and does not come to life but after its fork.   *)
Awakes(j) ==
  /\ procs[j].state = "forked" /\ procs'[j].state \in {"stray", "idle", "running"}
  /\ recs[j].kind = "run" => procs'[j].state # "idle"
  /\ procs'[j].state = "running" => recs[j].kind = "run" \/ Is("tclass_exec")
Calm(j) ==
  /\ procs'[j].outcomes = procs[j].outcomes
  /\ \/ procs'[j].state = procs[j].state
     \/ procs[j].state \notin {"none", "reaped"} /\ procs'[j].state \in {"zombie", "reaped"}
     \/ Awakes(j)

MailKept == Slots' = Slots /\ \A n \in Slots : Letter(n)' = Letter(n)
NoNewMail == Slots' \subseteq Slots /\ \A n \in Slots' : Letter(n)' = Letter(n)
(* No MSG_RET goes away.                                                   *)
MailLess ==
  /\ NoNewMail
  /\ \A n \in Slots \ Slots' : Letter(n).kind # "ret"
(* None of i goes away.                                                    *)
MailFor(i) ==
  /\ NoNewMail
  /\ \A n \in Slots \ Slots' : ~IsRet(n, i)
(* No message of a slave's case goes away.                                 *)
MailCase ==
  /\ NoNewMail
  /\ \A n \in Slots \ Slots' : \A c : ~IsReady(n, c) /\ ~Grants(n, c)
MailDone == 0 \in Slots /\ Slots' = Slots \ {0} /\ \A n \in Slots' : Letter(n)' = Letter(n)
MailRead ==
  /\ 1 \in Slots /\ 0 \notin Slots
  /\ \A n \in Slots' : n \in Nat /\ n + 1 \in Slots /\ Letter(n)' = Letter(n + 1)
  /\ \A n \in Slots : n \in Nat /\ n - 1 \in Slots' /\ Letter(n - 1)' = Letter(n)
MailSent(k, m) ==
  /\ k \in Nat \ {0} /\ k \notin Slots /\ Slots' = Slots \cup {k} /\ Letter(k)' = m
  /\ \A n \in Slots : n < k /\ Letter(n)' = Letter(n)

LEMMA FirstMember ==
  ASSUME NEW S \in SUBSET Nat, S # {}
  PROVE  FirstOf(S) \in S /\ \A j \in S : FirstOf(S) <= j
BY LeastElement DEF FirstOf

LEMMA SetOne ==
  ASSUME NEW T, NEW s \in Seq(T), NEW i \in DOMAIN s, NEW e \in T
  PROVE  /\ [s EXCEPT ![i] = e] \in Seq(T) /\ Len([s EXCEPT ![i] = e]) = Len(s)
         /\ DOMAIN [s EXCEPT ![i] = e] = DOMAIN s /\ [s EXCEPT ![i] = e][i] = e
         /\ \A j \in DOMAIN s : j # i => [s EXCEPT ![i] = e][j] = s[j]
BY ExceptSeq

LEMMA Domains == ASSUME TypeInv PROVE
  /\ DOMAIN recs = DOMAIN procs /\ DOMAIN recs = 1..Len(recs) /\ Len(recs) \in Nat
  /\ DOMAIN recs \subseteq Nat /\ 0 \notin DOMAIN recs
  /\ \A i \in DOMAIN recs : recs[i] \in Rec /\ procs[i] \in Proc
BY DEF TypeInv

LEMMA Types == ASSUME IInv PROVE
  /\ TypeInv /\ DOMAIN recs = DOMAIN procs /\ DOMAIN recs \subseteq Nat /\ 0 \notin DOMAIN recs
  /\ \A i \in DOMAIN recs : recs[i] \in Rec /\ procs[i] \in Proc
BY Domains DEF IInv

LEMMA Letters == ASSUME TypeInv PROVE
  /\ Slots \subseteq Nat /\ \A n \in Slots : Letter(n) \in Msg
  /\ \A n \in Slots : Letter(n).kind = "ret" => Letter(n) \in RetMsg
  /\ \A n \in Slots : Letter(n).kind = "ready" => Letter(n) \in ReadyMsg
  /\ \A n \in Slots : IsAnswer(n) => Letter(n) \in AnswerMsg
<1>1. \A n \in Slots : n \in Nat /\ Letter(n) \in Msg
  BY DEF TypeInv, Slots, Letter
<1>2. \A m \in Msg : /\ m.kind = "ret" => m \in RetMsg
                     /\ m.kind = "ready" => m \in ReadyMsg
                     /\ m.kind \in {"extif", "event"} => m \in AnswerMsg
  BY DEF Msg, RetMsg, ReadyMsg, AnswerMsg
<1>3. QED
  BY <1>1, <1>2 DEF IsAnswer

(* The four things that happen to the messages.                            *)
LEMMA MailIsKept ==
  ASSUME TypeInv, queue' = queue,
         \/ pc' = pc /\ msg' = msg
         \/ pc \notin {"handle", "reap"} /\ pc' \notin {"handle", "reap"}
         \/ pc \in {"handle", "reap"} /\ pc' \in {"handle", "reap"} /\ msg' = msg
  PROVE  MailKept
BY DEF MailKept, Slots, Letter, TypeInv

LEMMA KeptIsLess == ASSUME MailKept PROVE NoNewMail /\ MailLess /\ MailCase
BY DEF MailKept, NoNewMail, MailLess, MailCase

LEMMA DoneIsLess ==
  ASSUME MailDone
  PROVE  /\ NoNewMail
         /\ Letter(0).kind # "ret" => MailLess
         /\ Letter(0).kind = "ret" => MailCase /\ \A i : i # Letter(0).from => MailFor(i)
BY DEF MailDone, NoNewMail, MailLess, MailCase, MailFor, IsRet, IsReady, Grants

LEMMA LessIsFor == ASSUME MailLess PROVE NoNewMail /\ \A i : MailFor(i)
BY DEF MailLess, MailFor, IsRet

LEMMA MailIsDone ==
  ASSUME TypeInv, queue' = queue, pc \in {"handle", "reap"}, pc' \notin {"handle", "reap"}
  PROVE  MailDone
BY DEF MailDone, Slots, Letter, TypeInv

LEMMA MailIsRead ==
  ASSUME TypeInv, pc = "read", pc' = "handle", queue # <<>>, msg' = Head(queue), queue' = Tail(queue)
  PROVE  MailRead /\ msg' \in Msg /\ queue' \in Seq(Msg)
<1>1. /\ queue \in Seq(Msg) /\ queue' \in Seq(Msg) /\ Len(queue') = Len(queue) - 1
      /\ Len(queue) \in Nat /\ Len(queue) > 0 /\ Len(queue') \in Nat
      /\ \A k \in 1..Len(queue') : queue'[k] = queue[k + 1]
      /\ msg' = queue[1] /\ msg' \in Msg
  BY DEF TypeInv
<1>2. Slots = 1..Len(queue) /\ Slots' = 0..Len(queue')
  BY <1>1 DEF Slots
<1>3. 1 \in Slots /\ 0 \notin Slots
  BY <1>1, <1>2
<1>4. ASSUME NEW n \in Slots' PROVE n \in Nat /\ n + 1 \in Slots /\ Letter(n)' = Letter(n + 1)
  BY <1>1, <1>2, <1>4 DEF Letter
<1>5. ASSUME NEW n \in Slots PROVE n \in Nat /\ n - 1 \in Slots' /\ Letter(n - 1)' = Letter(n)
  BY <1>1, <1>2, <1>5 DEF Letter
<1>6. QED
  BY <1>1, <1>3, <1>4, <1>5 DEF MailRead

LEMMA MailIsSent ==
  ASSUME TypeInv, NEW m \in Msg, pc' = pc, msg' = msg, queue' = Append(queue, m)
  PROVE  queue' \in Seq(Msg) /\ \E k \in Nat : MailSent(k, m)
<1>1. PICK k \in Nat : k = Len(queue) + 1
  BY DEF TypeInv
<1>2. /\ queue' \in Seq(Msg) /\ Len(queue') = k /\ queue'[k] = m
      /\ \A n \in 1..Len(queue) : queue'[n] = queue[n]
  BY <1>1 DEF TypeInv
<1>3. /\ Slots' = Slots \cup {k} /\ k \notin Slots /\ k # 0 /\ \A n \in Slots : n < k
  BY <1>1, <1>2 DEF Slots, TypeInv
<1>4. Letter(k)' = m /\ \A n \in Slots : Letter(n)' = Letter(n)
  BY <1>1, <1>2, <1>3 DEF Letter, Slots
<1>5. QED
  BY <1>2, <1>3, <1>4 DEF MailSent

----------------------------------------------------------------------------
(* kill and waitpid.                                                       *)

LEMMA ToldFacts ==
  ASSUME TypeInv, NEW i \in DOMAIN recs
  PROVE  /\ Told(i) \in Seq(Proc) /\ Len(Told(i)) = Len(recs)
         /\ \A j \in DOMAIN recs : Told(i)[j].state = procs[j].state /\ Told(i)[j].outcomes = procs[j].outcomes
<1>1. DOMAIN recs = DOMAIN procs /\ DOMAIN procs = 1..Len(recs) /\ Len(recs) \in Nat
  BY Domains
<1>2. ASSUME NEW j \in DOMAIN procs
      PROVE  /\ Told(i)[j] \in Proc
             /\ Told(i)[j].state = procs[j].state /\ Told(i)[j].outcomes = procs[j].outcomes
  <2>1. procs[j] \in Proc
    BY <1>1, Domains
  <2>2. PICK told : told = [procs[j] EXCEPT !.usr2 = TRUE]
    OBVIOUS
  <2>3. told \in Proc /\ told.state = procs[j].state /\ told.outcomes = procs[j].outcomes
    BY <2>1, <2>2 DEF Proc
  <2>4. Told(i)[j] = told \/ Told(i)[j] = procs[j]
    BY <2>2 DEF Told
  <2>5. QED
    BY <2>1, <2>3, <2>4
<1>3. DOMAIN Told(i) = 1..Len(recs) /\ Told(i) \in [1..Len(recs) -> Proc]
  BY <1>1, <1>2 DEF Told
<1>4. Told(i) \in Seq(Proc) /\ Len(Told(i)) = Len(recs)
  BY <1>1, <1>3
<1>5. QED
  BY <1>1, <1>2, <1>4

LEMMA WaitedFacts ==
  ASSUME TypeInv, NEW i \in DOMAIN recs, Waited(i)
  PROVE  /\ procs' \in Seq(Proc) /\ Len(procs') = Len(recs) /\ \A j \in DOMAIN recs : Calm(j)
         /\ recs[i].kind = "run" /\ procs[i].state # "none" => procs'[i].state = "reaped"
<1>1. procs \in Seq(Proc) /\ Len(procs) = Len(recs) /\ DOMAIN recs = DOMAIN procs
      /\ \A j \in DOMAIN recs : procs[j] \in Proc
  BY Domains DEF TypeInv
<1>2. CASE Addressed(i) = {}
  <2>1. procs' = procs
    BY <1>2 DEF Waited
  <2>2. recs[i].kind = "run" => procs[i].state \in {"none", "reaped"}
    BY <1>2 DEF Addressed, Exists
  <2>3. QED
    BY <1>1, <2>1, <2>2 DEF Calm
<1>3. CASE Addressed(i) # {}
  <2>1. PICK j \in Addressed(i) : procs[j].state = "zombie" /\ procs' = [procs EXCEPT ![j].state = "reaped"]
    BY <1>3 DEF Waited
  <2>2. j \in DOMAIN procs /\ (recs[i].kind = "run" => j = i)
    BY <1>1, <2>1 DEF Addressed
  <2>3. PICK p : p = [procs[j] EXCEPT !.state = "reaped"]
    OBVIOUS
  <2>4. p \in Proc /\ p.state = "reaped" /\ p.outcomes = procs[j].outcomes
    BY <1>1, <2>2, <2>3 DEF Proc
  <2>5. procs' = [procs EXCEPT ![j] = p]
    BY <2>1, <2>3
  <2>6. QED
    BY <1>1, <2>1, <2>2, <2>4, <2>5, SetOne, SMTT(30) DEF Calm
<1>4. QED
  BY <1>2, <1>3

----------------------------------------------------------------------------
(* What keeps the parts of the invariant.                                  *)

LEMMA KindKept ==
  ASSUME TypeInv, KindInv, NamesKept, cases' = cases, \A j \in DOMAIN recs : Calm(j),
         \A j \in DOMAIN recs : \/ recs'[j].status = recs[j].status
                                \/ recs[j].kind = "run" /\ recs'[j].status # "NONE"
                                \/ recs[j].kind = "class" /\ recs'[j].status = "ENDED"
                                \/ recs[j].kind = "remote",
         \A j \in DOMAIN recs : recs[j].kind = "remote" =>
           recs'[j].results = recs[j].results \/ recs'[j].results \subseteq {"passed", "failed"}
  PROVE  KindInv'
<1>1. ASSUME NEW j \in DOMAIN recs PROVE KindOk(j)'
  BY SMTT(30) DEF KindInv, KindOk, Calm, Awakes, NamesKept
<1>2. QED
  BY <1>1 DEF KindInv, NamesKept

LEMMA TestKept ==
  ASSUME TestInv, NamesKept, \A j \in DOMAIN recs : recs[j].kind = "run" => Calm(j),
         \A j \in DOMAIN recs : recs[j].kind = "run" /\ recs'[j].status \notin {"RUNNING", "PAUSED"} =>
           \/ Awaited(j)' \/ procs'[j].state \in {"zombie", "reaped"}
           \/ recs[j].status \notin {"RUNNING", "PAUSED"} /\ ~Awaited(j),
         pc' = "done" => \A j \in DOMAIN recs : recs'[j].status \notin {"RUNNING", "PAUSED"}
  PROVE  TestInv'
<1>1. ASSUME NEW j \in DOMAIN recs PROVE TestOk(j)'
  BY DEF TestInv, TestOk, Calm, Awakes, NamesKept
<1>2. QED
  BY <1>1 DEF TestInv, NamesKept

(* What a record and its process have of what the test functions said, as  *)
(* long as the records keep their expected result and lose no result.      *)
LEMMA RetOkKept ==
  ASSUME NEW j, RetOk(j), MailFor(j), Calm(j),
         recs'[j].expect = recs[j].expect, recs'[j].results = recs[j].results
  PROVE  RetOk(j)' /\ (Quiet(j) => Quiet(j)')
<1>1. ASSUME NEW n \in Slots' PROVE n \in Slots /\ (IsRet(n, j)' <=> IsRet(n, j)) /\ Letter(n)' = Letter(n)
  BY DEF MailFor, NoNewMail, IsRet
<1>2. Quiet(j) => Quiet(j)'
  BY DEF Quiet, Calm, Awakes
<1>3. \A result : Outcome(j, result)' = Outcome(j, result)
  BY DEF Outcome
<1>4. \A n, m \in Slots' : IsRet(n, j)' /\ IsRet(m, j)' => n = m
  BY <1>1 DEF RetOk
<1>5. \A n \in Slots' : IsRet(n, j)' =>
        Quiet(j)' /\ Outcome(j, Letter(n).result)' \in procs'[j].outcomes
  BY <1>1, <1>2, <1>3 DEF RetOk, Calm
<1>6. ASSUME NEW o \in procs'[j].outcomes PROVE Settled(j, o)' \/ Coming(j, o)'
  <2>1. o \in procs[j].outcomes
    BY DEF Calm
  <2>2. CASE Settled(j, o)
    BY <2>2 DEF Settled, Judged
  <2>3. CASE Coming(j, o)
    <3>1. PICK n \in Slots : IsRet(n, j) /\ o = Outcome(j, Letter(n).result)
      BY <2>3 DEF Coming
    <3>2. n \in Slots'
      BY <3>1 DEF MailFor
    <3>3. QED
      BY <1>1, <1>3, <3>1, <3>2 DEF Coming
  <2>4. QED
    BY <2>1, <2>2, <2>3 DEF RetOk
<1>7. Backed(j)'
  BY DEF RetOk, Backed, Calm
<1>8. QED
  BY <1>2, <1>4, <1>5, <1>6, <1>7 DEF RetOk

LEMMA RunRetKept ==
  ASSUME NEW j, RunRetOk(j), MailFor(j), Calm(j), pc = "reap" => pc' = "reap" \/ 0 \notin Slots',
         recs'[j].expect = recs[j].expect, recs'[j].results = recs[j].results,
         recs'[j].status = "ENDED" => recs[j].status = "ENDED"
  PROVE  RunRetOk(j)'
<1>1. ASSUME NEW n \in Slots' PROVE n \in Slots /\ (IsRet(n, j)' <=> IsRet(n, j)) /\ Letter(n)' = Letter(n)
  BY DEF MailFor, NoNewMail, IsRet
<1>2. RetOk(j)' /\ (Quiet(j) => Quiet(j)')
  BY RetOkKept DEF RunRetOk
<1>3. recs'[j].status = "ENDED" => Quiet(j)' /\ \A n \in Slots' : IsRet(n, j)' => n = 0 /\ pc' = "reap"
  BY <1>1, <1>2 DEF RunRetOk
<1>4. QED
  BY <1>2, <1>3 DEF RunRetOk

LEMMA FromKept ==
  ASSUME RetInv, NamesKept, NoNewMail, \A j \in DOMAIN recs : recs[j].kind = "run" => RunRetOk(j)'
  PROVE  RetInv'
BY DEF RetInv, NamesKept, NoNewMail

LEMMA RetKept ==
  ASSUME TypeInv, RetInv, NamesKept, MailLess, pc = "reap" => pc' = "reap",
         \A j \in DOMAIN recs : recs[j].kind = "run" =>
           /\ Calm(j) /\ recs'[j].expect = recs[j].expect /\ recs'[j].results = recs[j].results
           /\ recs'[j].status = "ENDED" => recs[j].status = "ENDED"
  PROVE  RetInv'
<1>1. \A j \in DOMAIN recs : recs[j].kind = "run" => RunRetOk(j)'
  BY LessIsFor, RunRetKept DEF RetInv
<1>2. QED
  BY <1>1, FromKept DEF MailLess

LEMMA CaseKept ==
  ASSUME CaseInv, NamesKept, MailCase, UNCHANGED <<abroad, cases, remotes>>
  PROVE  CaseInv'
<1>1. Slots' \subseteq Slots /\ \A n \in Slots' : Letter(n)' = Letter(n)
  BY DEF MailCase, NoNewMail
<1>2. \A c : Known(c)' <=> Known(c)
  BY DEF Known, NamesKept
<1>3. \A n \in Slots' : /\ \A c : (IsReady(n, c)' <=> IsReady(n, c)) /\ (Grants(n, c)' <=> Grants(n, c))
                        /\ IsAnswer(n)' <=> IsAnswer(n)
  BY <1>1 DEF IsReady, Grants, IsAnswer
<1>4. \A c : Readied(c)' <=> Readied(c)
  BY <1>1, <1>3 DEF Readied, MailCase
<1>5. Out' = Out
  BY <1>2, <1>4 DEF Out
<1>6. \A c : \A n \in Slots : Grants(n, c) => n \in Slots' /\ Grants(n, c)'
  BY <1>3 DEF MailCase
<1>7. QED
  BY <1>1, <1>2, <1>3, <1>4, <1>5, <1>6 DEF CaseInv

LEMMA CancelKept ==
  ASSUME CancelInv, NamesKept, \A j \in DOMAIN recs : recs[j].kind = "run" => Calm(j),
         pc' = "cancel" => pc = "cancel",
         \A j \in DOMAIN recs : recs'[j].status = "CANCELED" => recs[j].status = "CANCELED" \/ pc = "cancel"
  PROVE  CancelInv'
<1>1. \A j \in DOMAIN recs : Failed(j) => Failed(j)'
  BY DEF Failed, Calm, NamesKept
<1>2. QED
  BY <1>1 DEF CancelInv, NamesKept

LEMMA NoVerdict == ASSUME verdict' = None PROVE VerdictInv'
BY ScripterAssumption DEF VerdictInv, Results

LEMMA AskKept ==
  ASSUME AskInv, NoNewMail, asked' = asked, Waits => Waits'
  PROVE  AskInv' /\ (Unasked => Unasked')
<1>1. \A n \in Slots' : n \in Slots /\ (IsAnswer(n)' <=> IsAnswer(n))
  BY DEF NoNewMail, IsAnswer
<1>2. Unasked => Unasked'
  BY <1>1 DEF Unasked
<1>3. QED
  BY <1>1, <1>2 DEF AskInv

LEMMA ClassOkKept ==
  ASSUME NEW j, ClassOk(j), recs[j].kind = "class", MailFor(j), Is("tclass_exec") => Is("tclass_exec")', Calm(j),
         recs'[j].expect = recs[j].expect, recs'[j].results = recs[j].results
  PROVE  ClassOk(j)'
<1>1. ASSUME NEW n \in Slots' PROVE n \in Slots /\ (IsRet(n, j)' <=> IsRet(n, j))
  BY DEF MailFor, NoNewMail, IsRet
<1>2. RetOk(j)'
  BY RetOkKept DEF ClassOk
<1>3. NoRet(j) => NoRet(j)'
  BY <1>1 DEF NoRet
<1>4. ~Is("tclass_exec")' => procs'[j].state # "running"
  BY DEF ClassOk, Calm, Awakes
<1>5. QED
  BY <1>2, <1>3, <1>4 DEF ClassOk

LEMMA ClassKept ==
  ASSUME ClassInv, NamesKept, MailLess, Is("tclass_exec") => Is("tclass_exec")',
         \A j \in DOMAIN recs : recs[j].kind = "class" =>
           Calm(j) /\ recs'[j].expect = recs[j].expect /\ recs'[j].results = recs[j].results
  PROVE  ClassInv'
BY LessIsFor, ClassOkKept DEF ClassInv, NamesKept

LEMMA EndKept ==
  ASSUME EndInv, NamesKept, NoNewMail, asked' = asked, Is("finished")' => Is("finished"),
         \A j \in DOMAIN recs : recs[j].kind = "run" => Calm(j),
         \A j \in DOMAIN recs : Culprit(j) => recs'[j].status = "CANCELED"
  PROVE  EndInv'
<1>1. \A n \in Slots' : n \in Slots /\ (IsAnswer(n)' <=> IsAnswer(n)) /\ \A j : IsRet(n, j)' <=> IsRet(n, j)
  BY DEF NoNewMail, IsAnswer, IsRet
<1>2. Unasked => Unasked'
  BY <1>1 DEF Unasked
<1>3. \A j \in DOMAIN recs : Culprit(j) => Culprit(j)'
  BY <1>1 DEF Culprit, Quiet, NoRet, Calm, Awakes, NamesKept
<1>4. QED
  BY <1>2, <1>3 DEF EndInv, NamesKept

LEMMA VerdictKept ==
  ASSUME VerdictInv, LoopInv, NamesKept, recs' = recs, \A j \in DOMAIN recs : Calm(j), verdict' = verdict,
         pc = "done" => pc' = "done" /\ flags' = flags /\ abroad' \subseteq abroad /\ asked' = asked
  PROVE  VerdictInv'
<1>1. CASE verdict = None
  BY <1>1, NoVerdict
<1>2. CASE verdict # None
  <2>1. /\ pc = "done" /\ pc' = "done" /\ flags' = flags /\ abroad' \subseteq abroad /\ asked' = asked
        /\ ~Is("tclass_exec")
    BY <1>2 DEF VerdictInv, LoopInv
  <2>2. ASSUME NEW j \in DOMAIN recs, Met(j), procs[j].state # "running",
               recs[j].kind = "run" => procs[j].state # "forked"
        PROVE  /\ Met(j)' /\ procs'[j].state # "running"
               /\ recs'[j].kind = "run" => procs'[j].state # "forked"
    BY <2>1, <2>2 DEF Met, Calm, Awakes
  <2>3. ASSUME NEW j \in DOMAIN recs PROVE (Failed(j) => Failed(j)') /\ (Blamed(j) => Blamed(j)')
    BY DEF Failed, Blamed, Met, Calm
  <2>4. verdict' \in {"passed", "failed"} => ~Is("error")' /\ abroad' = {} /\ asked' = <<>>
    BY <2>1 DEF VerdictInv, Is
  <2>5. verdict' = "passed" => \A j \in DOMAIN recs' : recs'[j].status # "ABORTED" =>
                                 /\ Met(j)' /\ procs'[j].state # "running"
                                 /\ recs'[j].kind = "run" => procs'[j].state # "forked"
    BY <2>2 DEF VerdictInv
  <2>6. /\ verdict' = "nc" => \E j \in DOMAIN recs' : Failed(j)'
        /\ verdict' = "failed" => \E j \in DOMAIN recs' : Blamed(j)'
    BY <2>3 DEF VerdictInv
  <2>7. QED
    BY <2>1, <2>4, <2>5, <2>6 DEF VerdictInv
<1>3. QED
  BY <1>1, <1>2

(* A step that only moves the main loop or the handler on, or ends a       *)
(* process.                                                                *)
LEMMA QuietStep ==
  ASSUME IInv, recs' = recs, procs' \in Seq(Proc), Len(procs') = Len(recs),
         \A j \in DOMAIN recs : Calm(j), MailKept, UNCHANGED <<world, remotes>>,
         flags' = flags \/ Is("error")',
         \A j \in DOMAIN recs : recs[j].kind = "run" /\ Awaited(j) =>
           Awaited(j)' \/ procs'[j].state \in {"zombie", "reaped"},
         pc = "reap" => pc' = "reap", pc' = "cancel" => pc = "cancel",
         pc' = "done" => \A j \in DOMAIN recs : recs[j].status \notin {"RUNNING", "PAUSED"},
         TypeInv', LoopInv', VerdictInv'
  PROVE  IInv'
<1>1. TypeInv /\ KindInv /\ TestInv /\ RetInv /\ CaseInv /\ CancelInv /\ NoError
  BY DEF IInv
<1>2. UNCHANGED <<asked, abroad, cases>>
  BY DEF world
<1>3. NamesKept
  BY <1>1 DEF NamesKept, TypeInv
<1>4. KindInv'
  BY <1>1, <1>2, <1>3, KindKept
<1>5. TestInv'
  BY <1>1, <1>3, TestKept
<1>6. RetInv'
  BY <1>1, <1>3, RetKept, KeptIsLess
<1>7. CaseInv'
  BY <1>1, <1>2, <1>3, CaseKept, KeptIsLess
<1>8. CancelInv'
  BY <1>1, <1>3, CancelKept
<1>9. NoError'
  <2> SUFFICES ASSUME ~Is("error")' PROVE AskInv' /\ ClassInv' /\ EndInv'
    BY DEF NoError
  <2>1. flags' = flags /\ ~Is("error")
    BY DEF Is
  <2>2. AskInv /\ ClassInv /\ EndInv
    BY <1>1, <2>1 DEF NoError
  <2>3. (Waits => Waits') /\ (Is("tclass_exec") => Is("tclass_exec")') /\ (Is("finished")' => Is("finished"))
    BY <2>1 DEF Waits, Is
  <2>4. \A j \in DOMAIN recs : Culprit(j) => recs'[j].status = "CANCELED"
    BY DEF Culprit
  <2>5. QED
    BY <1>2, <1>3, <2>2, <2>3, <2>4, AskKept, ClassKept, EndKept, KeptIsLess
<1>10. QED
  BY <1>4, <1>5, <1>6, <1>7, <1>8, <1>9 DEF IInv

LEMMA SameProcs == ASSUME procs' = procs PROVE \A j : Calm(j)
BY DEF Calm

LEMMA ReapFrom ==
  ASSUME IInv, pc = "reap"
  PROVE  msg.from \in DOMAIN recs /\ recs[msg.from].kind = "run" /\ 0 \in Slots /\ Letter(0) = msg
BY DEF IInv, LoopInv, RetInv, Slots, Letter, TypeInv

LEMMA OutFinite == ASSUME TypeInv PROVE IsFiniteSet(Out)
<1>1. 0 \in Int /\ 1 \in Int /\ cases \in Int
  BY DEF TypeInv
<1>2. IsFiniteSet(1..cases)
  BY <1>1, FS_Interval
<1>3. Out \subseteq 1..cases
  BY DEF Out
<1>4. QED
  BY <1>2, <1>3, FS_Subset

(* Outside the ends of canceliferror and of the handler nothing is waited  *)
(* for.                                                                    *)
LEMMA NoWalk ==
  ASSUME IInv, alarm # "handler"
  PROVE  /\ walks["handler"].wait = 0 /\ (pc # "cancel" => walks["main"].wait = 0)
         /\ \A j \in DOMAIN recs : pc \notin {"cancel", "reap"} => ~Awaited(j)
BY Types DEF IInv, LoopInv, Awaited

LEMMA LoopStep == ASSUME IInv, Loop PROVE IInv'
<1>1. /\ pc = "top" /\ alarm # "handler" /\ pc' \in {"read", "script"}
      /\ UNCHANGED <<begun, lines, msg, flags, complete, remotes, recs, walks, alarm, procs, queue, world, verdict>>
  BY DEF Loop, At, Goes
<1>2. TypeInv /\ LoopInv /\ VerdictInv
  BY DEF IInv
<1>3. TypeInv'
  BY <1>1, <1>2 DEF TypeInv, world
<1>4. LoopInv' /\ \A j \in DOMAIN recs : ~Awaited(j)
  BY <1>1, <1>2, NoWalk DEF LoopInv
<1>5. verdict' = None
  BY <1>1, <1>2 DEF VerdictInv
<1>6. MailKept
  BY <1>1, <1>2, MailIsKept
<1>7. QED
  BY <1>1, <1>2, <1>3, <1>4, <1>5, <1>6, NoVerdict, SameProcs, QuietStep DEF TypeInv

LEMMA PollsStep == ASSUME IInv, Polls \/ BlockingTimeout PROVE IInv'
<1>1. /\ pc = "script" /\ alarm # "handler" /\ pc' = "top"
      /\ UNCHANGED <<begun, lines, msg, complete, remotes, recs, walks, alarm, procs, queue, world, verdict>>
      /\ flags' = flags \/ flags' = flags \cup {"error"}
  BY DEF Polls, BlockingTimeout, At, Goes
<1>2. TypeInv /\ LoopInv /\ VerdictInv
  BY DEF IInv
<1>3. TypeInv'
  BY <1>1, <1>2 DEF TypeInv, world, Flags
<1>4. LoopInv' /\ \A j \in DOMAIN recs : ~Awaited(j)
  BY <1>1, <1>2, NoWalk DEF LoopInv
<1>5. verdict' = None
  BY <1>1, <1>2 DEF VerdictInv
<1>6. MailKept
  BY <1>1, <1>2, MailIsKept
<1>7. flags' = flags \/ Is("error")'
  BY <1>1 DEF Is
<1>8. QED
  BY <1>1, <1>2, <1>3, <1>4, <1>5, <1>6, <1>7, NoVerdict, SameProcs, QuietStep DEF TypeInv

LEMMA AlarmRingsStep == ASSUME IInv, AlarmRings PROVE IInv'
<1>1. /\ alarm = "armed" /\ pc # "done" /\ alarm' = "handler"
      /\ UNCHANGED <<pc, begun, lines, msg, flags, complete, remotes, recs, walks, procs, queue, world, verdict>>
  BY DEF AlarmRings, main
<1>2. TypeInv /\ LoopInv /\ VerdictInv
  BY DEF IInv
<1>3. TypeInv'
  BY <1>1, <1>2 DEF TypeInv, world
<1>4. LoopInv' /\ \A j : Awaited(j) => Awaited(j)'
  BY <1>1, <1>2 DEF LoopInv, Awaited, Is
<1>5. VerdictInv'
  BY <1>1, <1>2, NoVerdict DEF VerdictInv
<1>6. MailKept
  BY <1>1, <1>2, MailIsKept
<1>7. QED
  BY <1>1, <1>2, <1>3, <1>4, <1>5, <1>6, SameProcs, QuietStep DEF TypeInv

(* The end of a walk, of the main loop or of the handler.                  *)
LEMMA NoneLeftStep ==
  ASSUME IInv, NEW w \in {"main", "handler"}, NoneLeft(w),
         UNCHANGED <<begun, lines, msg, flags, complete, remotes, recs, procs, queue, world, verdict>>,
         \/ w = "main" /\ At("cancel") /\ pc' = "script" /\ alarm' = alarm
         \/ w = "handler" /\ pc' = pc /\ alarm = "handler" /\ alarm' = "off"
  PROVE  IInv'
<1>1. TypeInv /\ LoopInv /\ VerdictInv
  BY DEF IInv
<1>2. PICK e : e = [walks[w] EXCEPT !.at = 1]
  OBVIOUS
<1>3. e \in Walk /\ e.wait = 0 /\ walks[w].wait = 0
  BY <1>1, <1>2 DEF NoneLeft, TypeInv, Walk
<1>4. walks' = [walks EXCEPT ![w] = e]
  BY <1>2 DEF NoneLeft
<1>5. /\ walks' \in [{"main", "handler"} -> Walk]
      /\ \A v \in {"main", "handler"} : walks'[v].wait = walks[v].wait
  BY <1>1, <1>3, <1>4 DEF TypeInv
<1>6. TypeInv'
  BY <1>1, <1>5 DEF TypeInv, world, At
<1>7. pc # "done"
  BY <1>1 DEF LoopInv, At
<1>8. LoopInv'
  BY <1>1, <1>3, <1>5, <1>7 DEF LoopInv, At
<1>9. pc = "reap" <=> pc' = "reap"
  BY DEF At
<1>10. \A j : Awaited(j) => Awaited(j)'
  BY <1>5, <1>9 DEF Awaited
<1>11. VerdictInv'
  BY <1>1, <1>7, NoVerdict DEF VerdictInv
<1>12. pc' = pc \/ (pc = "cancel" /\ pc' = "script")
  BY DEF At
<1>13. MailKept
  BY <1>1, <1>12, MailIsKept
<1>14. QED
  BY <1>1, <1>6, <1>7, <1>8, <1>9, <1>10, <1>11, <1>12, <1>13, SameProcs, QuietStep DEF TypeInv

(* A process that is waited for has ended.                                 *)
LEMMA EndedStep ==
  ASSUME IInv, NEW w \in {"main", "handler"}, Ended(w),
         UNCHANGED <<pc, begun, lines, msg, flags, complete, remotes, recs, alarm, queue, world, verdict>>,
         pc = "cancel" \/ alarm = "handler"
  PROVE  IInv'
<1>1. TypeInv /\ LoopInv /\ VerdictInv /\ KindInv
  BY DEF IInv
<1>2. PICK i : i = walks[w].wait
  OBVIOUS
<1>3. i \in DOMAIN recs /\ Waited(i) /\ i # 0
  BY <1>1, <1>2 DEF Ended, TypeInv
<1>4. /\ procs' \in Seq(Proc) /\ Len(procs') = Len(recs) /\ \A j \in DOMAIN recs : Calm(j)
      /\ recs[i].kind = "run" => procs'[i].state = "reaped"
  BY <1>1, <1>3, WaitedFacts DEF KindInv, KindOk
<1>5. PICK e : e = [walks[w] EXCEPT !.wait = 0]
  OBVIOUS
<1>6. e \in Walk /\ e.wait = 0
  BY <1>1, <1>5 DEF TypeInv, Walk
<1>7. walks' = [walks EXCEPT ![w] = e]
  BY <1>5 DEF Ended
<1>8. /\ walks' \in [{"main", "handler"} -> Walk] /\ walks'[w].wait = 0
      /\ \A v \in {"main", "handler"} : v # w => walks'[v].wait = walks[v].wait
  BY <1>1, <1>6, <1>7 DEF TypeInv
<1>9. TypeInv'
  BY <1>1, <1>4, <1>8 DEF TypeInv, world
<1>10. pc # "done"
  BY <1>1 DEF LoopInv
<1>11. LoopInv'
  BY <1>1, <1>8, <1>10 DEF LoopInv
<1>12. \A j : Awaited(j) => Awaited(j)' \/ j = i
  BY <1>2, <1>8 DEF Awaited
<1>13. VerdictInv'
  BY <1>1, <1>10, NoVerdict DEF VerdictInv
<1>14. MailKept
  BY <1>1, MailIsKept
<1>15. QED
  BY <1>4, <1>9, <1>10, <1>11, <1>12, <1>13, <1>14, QuietStep

(* A record gets a new status.                                             *)
LEMMA StatusSet ==
  ASSUME TypeInv, NEW i \in DOMAIN recs, NEW status \in Status,
         recs' = [recs EXCEPT ![i].status = status]
  PROVE  /\ recs' \in Seq(Rec) /\ Len(recs') = Len(recs) /\ DOMAIN recs' = DOMAIN recs
         /\ recs'[i].status = status /\ \A j \in DOMAIN recs : j # i => recs'[j] = recs[j]
         /\ \A j \in DOMAIN recs :
              /\ recs'[j].kind = recs[j].kind /\ recs'[j].id = recs[j].id
              /\ recs'[j].expect = recs[j].expect /\ recs'[j].results = recs[j].results
<1>1. recs \in Seq(Rec) /\ recs[i] \in Rec
  BY Domains DEF TypeInv
<1>2. PICK r : r = [recs[i] EXCEPT !.status = status]
  OBVIOUS
<1>3. /\ r \in Rec /\ r.status = status /\ r.kind = recs[i].kind /\ r.id = recs[i].id
      /\ r.expect = recs[i].expect /\ r.results = recs[i].results
  BY <1>1, <1>2 DEF Rec
<1>4. recs' = [recs EXCEPT ![i] = r]
  BY <1>2
<1>5. QED
  BY <1>1, <1>3, <1>4, SetOne

LEMMA EndNextStep ==
  ASSUME IInv, NEW w \in {"main", "handler"}, NEW status \in {"CANCELED", "TIMEOUT"}, EndNext(w, status),
         UNCHANGED <<pc, begun, lines, msg, flags, complete, remotes, alarm, queue, world, verdict>>,
         \/ w = "main" /\ status = "CANCELED" /\ pc = "cancel"
         \/ w = "handler" /\ status = "TIMEOUT" /\ alarm = "handler"
  PROVE  IInv'
<1>1. TypeInv /\ LoopInv /\ VerdictInv /\ KindInv /\ TestInv /\ RetInv /\ CaseInv /\ CancelInv /\ NoError
  BY DEF IInv
<1>2. PICK i : i = FirstOf(RunningFrom(w))
  OBVIOUS
<1>3. i \in DOMAIN recs /\ recs[i].status = "RUNNING" /\ i \in Nat /\ i # 0
  <2>1. RunningFrom(w) \in SUBSET Nat /\ RunningFrom(w) # {}
    BY <1>1, Domains DEF EndNext, RunningFrom
  <2>2. i \in RunningFrom(w)
    BY <1>2, <2>1, FirstMember
  <2>3. QED
    BY <1>1, <2>2, Domains DEF RunningFrom
<1>4. PICK e : e = [at |-> i + 1, wait |-> i]
  OBVIOUS
<1>5. /\ recs' = [recs EXCEPT ![i].status = status] /\ procs' = Told(i)
      /\ walks' = [walks EXCEPT ![w] = e] /\ walks[w].wait = 0
  BY <1>2, <1>4 DEF EndNext
<1>6. /\ recs' \in Seq(Rec) /\ Len(recs') = Len(recs) /\ DOMAIN recs' = DOMAIN recs
      /\ recs'[i].status = status /\ \A j \in DOMAIN recs : j # i => recs'[j] = recs[j]
      /\ \A j \in DOMAIN recs :
           /\ recs'[j].kind = recs[j].kind /\ recs'[j].id = recs[j].id
           /\ recs'[j].expect = recs[j].expect /\ recs'[j].results = recs[j].results
  BY <1>1, <1>3, <1>5, StatusSet DEF Status
<1>7. procs' \in Seq(Proc) /\ Len(procs') = Len(recs) /\ \A j \in DOMAIN recs : Calm(j)
  BY <1>1, <1>3, <1>5, ToldFacts DEF Calm
<1>8. /\ walks' \in [{"main", "handler"} -> Walk] /\ walks'[w].wait = i
      /\ \A v \in {"main", "handler"} : v # w => walks'[v].wait = walks[v].wait
  BY <1>1, <1>3, <1>4, <1>5 DEF TypeInv, Walk
<1>9. NamesKept
  BY <1>6, <1>7 DEF NamesKept
<1>10. MailKept
  BY <1>1, MailIsKept
<1>11. pc # "done" /\ UNCHANGED <<asked, abroad, cases>>
  BY <1>1 DEF LoopInv, world
<1>12. ASSUME NEW j \in DOMAIN recs, Awaited(j) PROVE Awaited(j)'
  <2>1. j # 0
    BY <1>1, Domains
  <2>2. CASE pc = "reap" /\ msg.from = j
    BY <2>2 DEF Awaited
  <2>3. CASE \E v \in {"main", "handler"} : walks[v].wait = j
    <3>1. PICK v \in {"main", "handler"} : walks[v].wait = j
      BY <2>3
    <3>2. walks'[v].wait = j
      BY <1>5, <1>8, <2>1, <3>1
    <3>3. QED
      BY <3>2 DEF Awaited
  <2>4. QED
    BY <1>12, <2>2, <2>3 DEF Awaited
<1>13. Awaited(i)'
  BY <1>8 DEF Awaited
<1>14. TypeInv'
  BY <1>1, <1>3, <1>6, <1>7, <1>8 DEF TypeInv, world
<1>15. recs[i].kind \in {"run", "remote"} /\ status # "NONE"
  BY <1>1, <1>3, Domains DEF KindInv, KindOk, Rec
<1>16. KindInv'
  <2>1. \A j \in DOMAIN recs : \/ recs'[j].status = recs[j].status
                               \/ recs[j].kind = "run" /\ recs'[j].status # "NONE"
                               \/ recs[j].kind = "remote"
    BY <1>6, <1>15
  <2>2. QED
    BY <1>1, <1>6, <1>7, <1>9, <1>11, <2>1, KindKept
<1>17. LoopInv'
  <2>1. pc' = "reap" => msg'.kind = "ret" /\ recs'[msg'.from].kind = "run"
    BY <1>1, <1>6, ReapFrom DEF LoopInv
  <2>2. walks'["main"].wait # 0 => pc' = "cancel"
    BY <1>1, <1>8 DEF LoopInv
  <2>3. walks'["handler"].wait # 0 => alarm' = "handler"
    BY <1>1, <1>8 DEF LoopInv
  <2>4. QED
    BY <1>11, <2>1, <2>2, <2>3 DEF LoopInv
<1>18. TestInv'
  BY <1>1, <1>6, <1>7, <1>9, <1>11, <1>12, <1>13, TestKept
<1>19. RetInv'
  BY <1>1, <1>6, <1>7, <1>9, <1>10, RetKept, KeptIsLess
<1>20. CaseInv'
  BY <1>1, <1>9, <1>10, <1>11, CaseKept, KeptIsLess
<1>21. CancelInv'
  BY <1>1, <1>6, <1>7, <1>9, CancelKept
<1>22. VerdictInv'
  BY <1>1, <1>11, NoVerdict DEF VerdictInv
<1>23. NoError'
  <2> SUFFICES ASSUME ~Is("error") PROVE AskInv' /\ ClassInv' /\ EndInv'
    BY DEF NoError, Is
  <2>1. AskInv /\ ClassInv /\ EndInv
    BY <1>1 DEF NoError
  <2>2. (Waits => Waits') /\ (Is("tclass_exec") => Is("tclass_exec")') /\ (Is("finished")' => Is("finished"))
    BY DEF Waits, Is
  <2>3. \A j \in DOMAIN recs : Culprit(j) => recs'[j].status = "CANCELED"
    BY <1>3, <1>6 DEF Culprit
  <2>4. QED
    BY <1>6, <1>7, <1>9, <1>10, <1>11, <2>1, <2>2, <2>3, AskKept, ClassKept, EndKept, KeptIsLess
<1>24. QED
  BY <1>14, <1>16, <1>17, <1>18, <1>19, <1>20, <1>21, <1>22, <1>23 DEF IInv

LEMMA HandlerStepStep == ASSUME IInv, HandlerStep PROVE IInv'
<1>1. /\ alarm = "handler"
      /\ UNCHANGED <<pc, begun, lines, msg, flags, complete, remotes, queue, world, verdict>>
  BY DEF HandlerStep, main
<1>2. PICK w, s : w = "handler" /\ s = "TIMEOUT"
  OBVIOUS
<1>3. CASE EndNext("handler", "TIMEOUT") /\ UNCHANGED alarm
  BY <1>1, <1>2, <1>3, EndNextStep
<1>4. CASE Ended("handler") /\ UNCHANGED <<recs, alarm>>
  BY <1>1, <1>2, <1>4, EndedStep
<1>5. CASE NoneLeft("handler") /\ alarm' = "off" /\ UNCHANGED <<recs, procs>>
  BY <1>1, <1>2, <1>5, NoneLeftStep
<1>6. QED
  BY <1>3, <1>4, <1>5 DEF HandlerStep

LEMMA CancelStepStep == ASSUME IInv, CancelStep PROVE IInv'
<1>1. /\ At("cancel") /\ pc = "cancel"
      /\ UNCHANGED <<begun, lines, msg, flags, complete, remotes, alarm, queue, world, verdict>>
  BY DEF CancelStep, At
<1>2. PICK w, s : w = "main" /\ s = "CANCELED"
  OBVIOUS
<1>3. CASE EndNext("main", "CANCELED") /\ UNCHANGED pc
  BY <1>1, <1>2, <1>3, EndNextStep
<1>4. CASE Ended("main") /\ UNCHANGED <<recs, pc>>
  BY <1>1, <1>2, <1>4, EndedStep
<1>5. CASE NoneLeft("main") /\ Goes("script") /\ UNCHANGED <<recs, procs>>
  BY <1>1, <1>2, <1>5, NoneLeftStep DEF Goes
<1>6. QED
  BY <1>3, <1>4, <1>5 DEF CancelStep

(* What ends in the end: the whole script.                                 *)
LEMMA FinishStep == ASSUME IInv, Finish PROVE IInv'
<1>1. /\ pc = "top" /\ alarm # "handler" /\ pc' = "done" /\ Is("finished") /\ ~Pending
      /\ verdict' = FinalVerdict
      /\ UNCHANGED <<begun, lines, msg, flags, complete, remotes, recs, walks, alarm, procs, queue, world>>
  BY DEF Finish, At, Goes
<1>2. TypeInv /\ LoopInv /\ KindInv /\ RetInv /\ CaseInv /\ CancelInv /\ NoError
  BY DEF IInv
<1>3. /\ \A j \in DOMAIN recs : recs[j].status \notin {"RUNNING", "PAUSED"}
      /\ ~Is("tclass_exec") /\ remotes = 0
  BY <1>1, <1>2 DEF Pending, TypeInv
<1>4. TypeInv'
  BY <1>1, <1>2 DEF TypeInv, world, FinalVerdict
<1>5. LoopInv' /\ \A j \in DOMAIN recs : ~Awaited(j)
  BY <1>1, <1>2, <1>3, NoWalk DEF LoopInv, Is
<1>6. MailKept
  BY <1>1, <1>2, MailIsKept
<1>7. /\ recs' = recs /\ procs' = procs /\ abroad' = abroad /\ asked' = asked /\ flags' = flags
  BY <1>1 DEF world
<1>8. ASSUME verdict' \in {"passed", "failed"}
      PROVE  /\ ~Is("error") /\ abroad = {} /\ asked = <<>> /\ ClassInv
             /\ \A j \in DOMAIN recs : recs[j].status # "CANCELED"
  <2>1. ~Is("error") /\ \A j \in DOMAIN recs : recs[j].status # "CANCELED"
    BY <1>1, <1>8 DEF FinalVerdict
  <2>2. ClassInv /\ EndInv
    BY <1>2, <2>1 DEF NoError
  <2>3. Unasked
    BY <1>1, <2>1, <2>2 DEF EndInv, Culprit, Quiet
  <2>4. Out = {}
    <3>1. IsFiniteSet(Out)
      BY <1>2, OutFinite
    <3>2. IsFiniteSet(Out) /\ Cardinality(Out) = 0
      BY <1>2, <1>3, <3>1 DEF CaseInv
    <3>3. QED
      BY <3>2, FS_EmptySet
  <2>5. \A c \in abroad : c \in Out
    BY <1>2, <2>3 DEF Out, CaseInv, Unasked, Grants, IsAnswer, TypeInv
  <2>6. QED
    BY <2>1, <2>2, <2>3, <2>4, <2>5 DEF Unasked
<1>9. ASSUME NEW j \in DOMAIN recs, verdict' \in {"passed", "failed"}, recs[j].kind \in {"run", "class"}
      PROVE  Backed(j)
  <2>1. CASE recs[j].kind = "run"
    BY <1>2, <2>1 DEF RetInv, RunRetOk, RetOk
  <2>2. CASE recs[j].kind = "class"
    BY <1>8, <1>9, <2>2 DEF ClassInv, ClassOk, RetOk
  <2>3. QED
    BY <1>9, <2>1, <2>2
<1>10. ASSUME verdict' = "passed", NEW j \in DOMAIN recs, recs[j].status # "ABORTED"
       PROVE  Met(j) /\ procs[j].state # "running" /\ (recs[j].kind = "run" => procs[j].state # "forked")
  <2>1. recs[j] \in Rec /\ procs[j] \in Proc /\ KindOk(j)
    BY <1>2, Domains DEF KindInv
  <2>2. ~Failing(j) /\ ClassInv /\ recs[j].status # "CANCELED"
    <3>1. ~Failing(j)
      BY <1>1, <1>10 DEF FinalVerdict
    <3>2. QED
      BY <1>8, <1>10, <3>1
  <2>3. recs[j].status = "ENDED" /\ recs[j].results \cap {"failed", "crashed"} = {}
    BY <1>10, <2>1, <2>2 DEF Failing, Rec, Status
  <2>4. CASE recs[j].kind = "remote"
    BY <2>1, <2>4 DEF KindOk, Met
  <2>5. ASSUME RetOk(j), NoRet(j) PROVE Met(j)
    <3>1. SUFFICES ASSUME NEW o \in procs[j].outcomes PROVE o.result \in {"passed", o.expect}
      BY DEF Met
    <3>2. Judged(o) \in recs[j].results
      BY <2>5 DEF RetOk, Settled, Coming, NoRet
    <3>3. o.result \in Results /\ recs[j].results \subseteq Results
      BY <2>1 DEF Rec, Proc
    <3>4. QED
      BY <2>3, <3>2, <3>3 DEF Judged, Results
  <2>6. CASE recs[j].kind = "run"
    <3>1. RunRetOk(j)
      BY <1>2, <2>6 DEF RetInv
    <3>2. NoRet(j) /\ Quiet(j) /\ RetOk(j)
      BY <1>1, <2>3, <3>1 DEF RunRetOk, NoRet
    <3>3. QED
      BY <2>5, <3>2 DEF Quiet
  <2>7. CASE recs[j].kind = "class"
    <3>1. ClassOk(j)
      BY <2>2, <2>7 DEF ClassInv
    <3>2. RetOk(j) /\ NoRet(j) /\ procs[j].state # "running"
      BY <1>3, <3>1 DEF ClassOk
    <3>3. QED
      BY <2>5, <2>7, <3>2
  <2>8. QED
    BY <2>1, <2>4, <2>6, <2>7 DEF Rec, KindOk
<1>11. ASSUME verdict' = "nc" PROVE \E j \in DOMAIN recs : Failed(j)
  <2>1. \E j \in DOMAIN recs : recs[j].status = "CANCELED"
    BY <1>1, <1>11 DEF FinalVerdict
  <2>2. QED
    BY <1>2, <2>1 DEF CancelInv
<1>12. ASSUME verdict' = "failed" PROVE \E j \in DOMAIN recs : Blamed(j)
  <2>1. PICK j \in DOMAIN recs : Failing(j)
    BY <1>1, <1>12 DEF FinalVerdict
  <2>2. recs[j] \in Rec /\ KindOk(j)
    BY <1>2, Domains DEF KindInv
  <2>3. CASE recs[j].status \in {"NONE", "TIMEOUT"}
    BY <2>3 DEF Blamed
  <2>4. CASE recs[j].results \cap {"failed", "crashed"} # {}
    <3>1. CASE recs[j].kind = "remote"
      BY <2>2, <2>4, <3>1 DEF Blamed, KindOk
    <3>2. CASE recs[j].kind \in {"run", "class"}
      <4>1. Backed(j)
        BY <1>9, <1>12, <3>2
      <4>2. PICK result \in recs[j].results : result \in {"failed", "crashed"}
        BY <2>4
      <4>3. PICK o \in procs[j].outcomes : o.result = result /\ o.expect # result
        BY <4>1, <4>2 DEF Backed
      <4>4. ~Met(j)
        BY <4>2, <4>3 DEF Met
      <4>5. QED
        BY <4>4 DEF Blamed
    <3>3. QED
      BY <2>2, <3>1, <3>2 DEF Rec
  <2>5. QED
    BY <1>3, <2>1, <2>3, <2>4 DEF Failing
<1>13. VerdictInv'
  <2>1. verdict' \in {"passed", "failed"} => ~Is("error")' /\ abroad' = {} /\ asked' = <<>>
    BY <1>7, <1>8 DEF Is
  <2>2. verdict' = "passed" => \A j \in DOMAIN recs' : recs'[j].status # "ABORTED" =>
                                 /\ Met(j)' /\ procs'[j].state # "running"
                                 /\ recs'[j].kind = "run" => procs'[j].state # "forked"
    BY <1>7, <1>10 DEF Met
  <2>3. verdict' = "nc" => \E j \in DOMAIN recs' : Failed(j)'
    BY <1>7, <1>11 DEF Failed
  <2>4. verdict' = "failed" => \E j \in DOMAIN recs' : Blamed(j)'
    BY <1>7, <1>12 DEF Blamed, Met
  <2>5. QED
    BY <1>1, <2>1, <2>2, <2>3, <2>4 DEF VerdictInv
<1>14. QED
  BY <1>1, <1>2, <1>3, <1>4, <1>5, <1>6, <1>13, SameProcs, QuietStep DEF TypeInv

LEMMA ReadStep == ASSUME IInv, Read PROVE IInv'
<1>1. /\ pc = "read" /\ alarm # "handler" /\ pc' = "handle" /\ queue # <<>>
      /\ msg' = Head(queue) /\ queue' = Tail(queue)
      /\ UNCHANGED <<begun, lines, flags, complete, remotes, recs, walks, alarm, procs, abroad, asked, cases, verdict>>
  BY DEF Read, At, Goes, world
<1>2. TypeInv /\ LoopInv /\ KindInv /\ TestInv /\ RetInv /\ CaseInv /\ CancelInv /\ NoError /\ VerdictInv
  BY DEF IInv
<1>3. MailRead /\ msg' \in Msg /\ queue' \in Seq(Msg)
  BY <1>1, <1>2, MailIsRead
<1>4. TypeInv'
  BY <1>1, <1>2, <1>3 DEF TypeInv
<1>5. KindInv' /\ LoopInv' /\ CancelInv' /\ VerdictInv'
  <2>1. KindInv'
    BY <1>1, <1>2 DEF KindInv, KindOk
  <2>2. LoopInv'
    BY <1>1, <1>2, NoWalk DEF LoopInv
  <2>3. CancelInv'
    BY <1>1, <1>2 DEF CancelInv, Failed
  <2>4. VerdictInv'
    BY <1>1, <1>2, NoVerdict DEF VerdictInv
  <2>5. QED
    BY <2>1, <2>2, <2>3, <2>4
<1>6. TestInv'
  <2>1. \A j \in DOMAIN recs : ~Awaited(j)
    BY <1>1, NoWalk
  <2>2. QED
    BY <1>1, <1>2, <2>1 DEF TestInv, TestOk
<1>7. ASSUME NEW n \in Slots'
      PROVE  /\ n + 1 \in Slots /\ Letter(n)' = Letter(n + 1) /\ (IsAnswer(n)' <=> IsAnswer(n + 1))
             /\ \A j : IsRet(n, j)' <=> IsRet(n + 1, j)
             /\ \A c : (IsReady(n, c)' <=> IsReady(n + 1, c)) /\ (Grants(n, c)' <=> Grants(n + 1, c))
  BY <1>3, <1>7 DEF MailRead, IsAnswer, IsRet, IsReady, Grants
<1>8. ASSUME NEW n \in Slots
      PROVE  /\ n - 1 \in Slots' /\ (IsAnswer(n - 1)' <=> IsAnswer(n))
             /\ \A j : IsRet(n - 1, j)' <=> IsRet(n, j)
             /\ \A c : (IsReady(n - 1, c)' <=> IsReady(n, c)) /\ (Grants(n - 1, c)' <=> Grants(n, c))
  BY <1>3, <1>8 DEF MailRead, IsAnswer, IsRet, IsReady, Grants
<1>9. Slots \subseteq Nat /\ Slots' \subseteq Nat
  BY <1>3 DEF MailRead
<1>10. \A j : NoRet(j)' <=> NoRet(j)
  BY <1>7, <1>8 DEF NoRet
<1>11. ASSUME NEW j, RetOk(j) PROVE RetOk(j)'
  <2>1. \A n, m \in Slots' : IsRet(n, j)' /\ IsRet(m, j)' => n = m
    <3>1. SUFFICES ASSUME NEW n \in Slots', NEW m \in Slots', IsRet(n, j)', IsRet(m, j)' PROVE n = m
      OBVIOUS
    <3>2. n + 1 = m + 1
      BY <1>7, <1>11, <3>1 DEF RetOk
    <3>3. QED
      BY <1>9, <3>2
  <2>2. \A result : Outcome(j, result)' = Outcome(j, result)
    BY <1>1 DEF Outcome
  <2>3. \A n \in Slots' : IsRet(n, j)' => Quiet(j)' /\ Outcome(j, Letter(n).result)' \in procs'[j].outcomes
    BY <1>1, <1>7, <1>11, <2>2 DEF RetOk, Quiet
  <2>4. ASSUME NEW o \in procs'[j].outcomes PROVE Settled(j, o)' \/ Coming(j, o)'
    <3>1. CASE Settled(j, o)
      BY <1>1, <3>1 DEF Settled, Judged
    <3>2. CASE Coming(j, o)
      <4>1. PICK n \in Slots : IsRet(n, j) /\ o = Outcome(j, Letter(n).result)
        BY <3>2 DEF Coming
      <4>2. n - 1 \in Slots' /\ IsRet(n - 1, j)' /\ Letter(n - 1)' = Letter(n)
        BY <1>3, <1>8, <4>1 DEF MailRead
      <4>3. QED
        BY <2>2, <4>1, <4>2 DEF Coming
    <3>3. QED
      BY <1>1, <1>11, <3>1, <3>2 DEF RetOk
  <2>5. Backed(j)'
    BY <1>1, <1>11 DEF RetOk, Backed
  <2>6. QED
    BY <2>1, <2>3, <2>4, <2>5 DEF RetOk
<1>12. RetInv'
  <2>1. ASSUME NEW n \in Slots', Letter(n)'.kind = "ret"
        PROVE  Letter(n)'.from \in DOMAIN recs' /\ recs'[Letter(n)'.from].kind \in {"run", "class"}
    BY <1>1, <1>2, <1>7, <2>1 DEF RetInv
  <2>2. ASSUME NEW j \in DOMAIN recs, recs[j].kind = "run" PROVE RunRetOk(j)'
    <3>1. RunRetOk(j)
      BY <1>2, <2>2 DEF RetInv
    <3>2. RetOk(j)'
      BY <1>11, <3>1 DEF RunRetOk
    <3>3. recs[j].status = "ENDED" => Quiet(j)' /\ \A n \in Slots' : ~IsRet(n, j)'
      BY <1>1, <1>7, <3>1 DEF RunRetOk, Quiet
    <3>4. QED
      BY <1>1, <3>2, <3>3 DEF RunRetOk
  <2>3. QED
    BY <1>1, <2>1, <2>2 DEF RetInv
<1>13. CaseInv'
  <2>1. \A c : (Known(c)' <=> Known(c)) /\ (Readied(c)' <=> Readied(c))
    BY <1>1, <1>7, <1>8 DEF Known, Readied
  <2>2. Out' = Out
    BY <1>1, <2>1 DEF Out
  <2>3. \A n \in Slots' : /\ IsAnswer(n)' => /\ Letter(n)'.case \in 0..cases
                                             /\ Letter(n)'.case # 0 => Letter(n)'.ok /\ Letter(n)'.kind = "extif"
                          /\ Letter(n)'.kind = "ready" => Letter(n)'.case \in 1..cases /\ Letter(n)'.case \notin abroad
    BY <1>2, <1>7 DEF CaseInv
  <2>4. \A c \in abroad : Known(c)' \/ \E n \in Slots' : Grants(n, c)'
    BY <1>2, <1>8, <2>1 DEF CaseInv
  <2>5. ASSUME NEW n \in Slots', NEW c \in 1..cases, IsReady(n, c)'
        PROVE  Known(c)' \/ \E m \in Slots' : m < n /\ Grants(m, c)'
    <3>1. Known(c) \/ \E m \in Slots : m < n + 1 /\ Grants(m, c)
      BY <1>2, <1>7, <2>5 DEF CaseInv
    <3>2. CASE Known(c)
      BY <2>1, <3>2
    <3>3. ASSUME NEW m \in Slots, m < n + 1, Grants(m, c) PROVE \E l \in Slots' : l < n /\ Grants(l, c)'
      <4>1. m - 1 \in Slots' /\ Grants(m - 1, c)'
        BY <1>8, <3>3
      <4>2. m - 1 < n
        BY <1>9, <3>3
      <4>3. QED
        BY <4>1, <4>2
    <3>4. QED
      BY <3>1, <3>2, <3>3
  <2>6. ASSUME NEW n \in Slots', NEW m \in Slots', NEW c \in 1..cases,
               (IsReady(n, c)' /\ IsReady(m, c)') \/ (Grants(n, c)' /\ Grants(m, c)')
        PROVE  n = m
    <3>1. n + 1 = m + 1
      BY <1>2, <1>7, <2>6 DEF CaseInv
    <3>2. QED
      BY <1>9, <3>1
  <2>7. \A n \in Slots' : \A c \in 1..cases : Grants(n, c)' => ~Known(c)' /\ (c \in abroad \/ Readied(c)')
    BY <1>2, <1>7, <2>1 DEF CaseInv
  <2>8. remotes' = Cardinality(Out')
    BY <1>1, <1>2, <2>2 DEF CaseInv
  <2>9. abroad' = abroad /\ cases' = cases
    BY <1>1
  <2>10. \A n \in Slots' : \A c \in 1..cases : IsReady(n, c)' => Known(c)' \/ \E m \in Slots' : m < n /\ Grants(m, c)'
    BY <2>5
  <2>11. /\ \A n, m \in Slots' : \A c \in 1..cases : IsReady(n, c)' /\ IsReady(m, c)' => n = m
         /\ \A n, m \in Slots' : \A c \in 1..cases : Grants(n, c)' /\ Grants(m, c)' => n = m
    BY <2>6
  <2>12. QED
    BY <2>3, <2>4, <2>7, <2>8, <2>9, <2>10, <2>11 DEF CaseInv
<1>14. NoError'
  <2> SUFFICES ASSUME ~Is("error") PROVE AskInv' /\ ClassInv' /\ EndInv'
    BY <1>1 DEF NoError, Is
  <2>1. AskInv /\ ClassInv /\ EndInv
    BY <1>2 DEF NoError
  <2>2. Unasked' <=> Unasked
    BY <1>1, <1>7, <1>8 DEF Unasked
  <2>3. (Waits' <=> Waits) /\ (Is("tclass_exec")' <=> Is("tclass_exec")) /\ (Is("finished")' <=> Is("finished"))
    BY <1>1 DEF Waits, Is
  <2>4. ASSUME NEW n \in Slots', NEW m \in Slots', IsAnswer(n)', IsAnswer(m)' PROVE n = m
    <3>1. n + 1 = m + 1
      BY <1>7, <2>1, <2>4 DEF AskInv
    <3>2. QED
      BY <1>9, <3>1
  <2>5. asked' # <<>> => \A n \in Slots' : ~IsAnswer(n)'
    BY <1>1, <1>7, <2>1 DEF AskInv
  <2>6. AskInv'
    BY <1>1, <2>1, <2>2, <2>3, <2>4, <2>5 DEF AskInv
  <2>7. ASSUME NEW j \in DOMAIN recs, recs[j].kind = "class" PROVE ClassOk(j)'
    <3>1. ClassOk(j)
      BY <2>1, <2>7 DEF ClassInv
    <3>2. RetOk(j)'
      BY <1>11, <3>1 DEF ClassOk
    <3>3. QED
      BY <1>1, <1>10, <2>3, <3>1, <3>2 DEF ClassOk
  <2>8. ClassInv'
    BY <1>1, <2>7 DEF ClassInv
  <2>9. \A j : Culprit(j)' <=> Culprit(j)
    BY <1>1, <1>10 DEF Culprit, Quiet
  <2>10. EndInv'
    BY <1>1, <2>1, <2>2, <2>3, <2>9 DEF EndInv
  <2>11. QED
    BY <2>6, <2>8, <2>10
<1>15. QED
  BY <1>4, <1>5, <1>6, <1>12, <1>13, <1>14 DEF IInv

----------------------------------------------------------------------------
(* The commands of the script.                                             *)

LEMMA NothingAsked ==
  ASSUME IInv, ExecuteScript, ~Is("error")
  PROVE  /\ AskInv /\ ClassInv /\ EndInv /\ Unasked /\ ~Is("tclass_exec") /\ ~Is("finished")
         /\ complete = None
<1>1. ~Waits /\ ~Is("tclass_exec") /\ ~Is("finished") /\ complete = None
  BY DEF ExecuteScript, Is, Waits
<1>2. AskInv /\ ClassInv /\ EndInv
  BY DEF IInv, NoError
<1>3. QED
  BY <1>1, <1>2 DEF AskInv

(* The step of a command that starts nothing.                              *)
LEMMA ScriptStep ==
  ASSUME IInv, ExecuteScript, pc = "script", alarm # "handler", pc' = "top",
         UNCHANGED <<msg, remotes, walks, queue, abroad, cases, verdict, asked>>,
         alarm' \in {"off", "armed"}, begun' \in BOOLEAN, lines' \in 0..MaxLines,
         complete' \in Ids \cup {None}, flags \ {"notimeout"} \subseteq flags', flags' \subseteq Flags,
         NamesKept, \A j \in DOMAIN recs : Calm(j),
         \A j \in DOMAIN recs : /\ recs'[j].expect = recs[j].expect
                                /\ recs'[j].results = recs[j].results,
         \A j \in DOMAIN recs :
           \/ recs'[j].status = recs[j].status
           \/ recs[j].kind = "run" /\ recs'[j].status \in {"RUNNING", "PAUSED"}
           \/ recs[j].kind = "run" /\ recs'[j].status = "ABORTED" /\ procs'[j].state \in {"zombie", "reaped"}
           \/ recs[j].kind = "class" /\ recs'[j].status = "ENDED"
  PROVE  IInv'
<1>1. TypeInv /\ LoopInv /\ KindInv /\ TestInv /\ RetInv /\ CaseInv /\ CancelInv /\ NoError /\ VerdictInv
  BY DEF IInv
<1>2. \A j \in DOMAIN recs : ~Awaited(j)
  BY NoWalk
<1>3. MailKept
  BY <1>1, MailIsKept
<1>4. TypeInv'
  BY <1>1 DEF TypeInv, NamesKept
<1>5. KindInv'
  BY <1>1, KindKept
<1>6. LoopInv'
  BY <1>1, NoWalk DEF LoopInv
<1>7. TestInv'
  BY <1>1, <1>2, TestKept
<1>8. RetInv'
  BY <1>1, <1>3, RetKept, KeptIsLess
<1>9. CaseInv'
  BY <1>1, <1>3, CaseKept, KeptIsLess
<1>10. CancelInv'
  <2>1. \A j \in DOMAIN recs : recs'[j].status = "CANCELED" => recs[j].status = "CANCELED"
    OBVIOUS
  <2>2. QED
    BY <1>1, <2>1, CancelKept
<1>11. VerdictInv'
  BY <1>1, NoVerdict DEF VerdictInv
<1>12. NoError'
  <2> SUFFICES ASSUME ~Is("error")' PROVE AskInv' /\ ClassInv' /\ EndInv'
    BY DEF NoError
  <2>1. ~Is("error")
    BY DEF Is
  <2>2. AskInv /\ ClassInv /\ Unasked /\ ~Is("tclass_exec")
    BY <2>1, NothingAsked
  <2>3. Waits => Waits'
    BY DEF Waits, Is
  <2>4. AskInv' /\ Unasked'
    BY <1>3, <2>2, <2>3, AskKept, KeptIsLess
  <2>5. ClassInv'
    BY <1>3, <2>2, ClassKept, KeptIsLess
  <2>6. QED
    BY <2>4, <2>5 DEF EndInv
<1>13. QED
  BY <1>4, <1>5, <1>6, <1>7, <1>8, <1>9, <1>10, <1>11, <1>12 DEF IInv

(* A command that leaves the records alone.                                *)
LEMMA PlainStep ==
  ASSUME IInv, ExecuteScript, pc = "script", alarm # "handler", pc' = "top",
         UNCHANGED <<msg, remotes, walks, queue, abroad, cases, verdict, asked, recs, procs>>,
         alarm' \in {"off", "armed"}, begun' \in BOOLEAN, lines' \in 0..MaxLines,
         complete' \in Ids \cup {None}, flags \ {"notimeout"} \subseteq flags', flags' \subseteq Flags
  PROVE  IInv'
<1>1. NamesKept /\ \A j : Calm(j)
  BY Types, SameProcs DEF NamesKept, TypeInv
<1>2. QED
  BY <1>1, ScriptStep

LEMMA InterpretsFacts ==
  ASSUME IInv, NEW started, Interprets(started)
  PROVE  /\ ExecuteScript /\ pc = "script" /\ alarm # "handler" /\ alarm \in {"off", "armed"} /\ pc' = "top"
         /\ UNCHANGED <<msg, remotes, walks, queue, abroad, cases, verdict>>
         /\ flags \subseteq Flags /\ complete \in Ids \cup {None} /\ begun \in BOOLEAN /\ lines \in 0..MaxLines
BY DEF Interprets, At, Goes, IInv, TypeInv

LEMMA DoesFacts ==
  ASSUME IInv, NEW command, Does(command)
  PROVE  /\ ExecuteScript /\ pc = "script" /\ alarm # "handler" /\ alarm \in {"off", "armed"} /\ pc' = "top"
         /\ UNCHANGED <<msg, remotes, walks, queue, abroad, cases, verdict, begun>>
         /\ flags \subseteq Flags /\ complete \in Ids \cup {None} /\ begun \in BOOLEAN /\ lines' \in 0..MaxLines
<1>1. PICK started : started = TRUE
  OBVIOUS
<1>2. Interprets(started) /\ lines < MaxLines /\ lines' = lines + 1 /\ UNCHANGED begun
  BY <1>1 DEF Does
<1>3. lines \in 0..MaxLines
  BY <1>2, InterpretsFacts
<1>4. lines' \in 0..MaxLines
  BY <1>2, <1>3, ScripterAssumption
<1>5. QED
  BY <1>2, <1>4, InterpretsFacts

LEMMA PiecesStep == ASSUME IInv, StartPiece \/ EndPiece PROVE IInv'
<1>1. \E started \in BOOLEAN : Interprets(started)
  BY DEF StartPiece, EndPiece
<1>2. /\ begun' \in BOOLEAN /\ UNCHANGED <<lines, complete, recs, alarm, procs, asked>>
      /\ flags' = flags \/ flags' = flags \cup {"finished"}
  BY DEF StartPiece, EndPiece
<1>3. QED
  BY <1>1, <1>2, InterpretsFacts, PlainStep DEF Flags

LEMMA CompleteStep == ASSUME IInv, NEW id \in Ids, Complete(id) PROVE IInv'
<1>1. PICK command : command = "complete"
  OBVIOUS
<1>2. Does(command) /\ UNCHANGED <<recs, alarm, procs, asked>>
  BY <1>1 DEF Complete
<1>3. /\ flags' = flags \/ flags' = flags \cup {"error"}
      /\ complete' = complete \/ complete' = id
  BY DEF Complete
<1>4. QED
  BY <1>2, <1>3, DoesFacts, PlainStep DEF Flags

LEMMA CancelIfErrorStep == ASSUME IInv, CancelIfError \/ Timeout PROVE IInv'
<1>1. \E command \in CommandNames : Does(command)
  BY DEF CancelIfError, Timeout, CommandNames
<1>2. /\ UNCHANGED <<complete, recs, procs, asked>>
      /\ flags' = flags \/ flags' = flags \cup {"canceliferror"}
      /\ alarm' = alarm \/ alarm' = "armed"
  BY DEF CancelIfError, Timeout
<1>3. QED
  BY <1>1, <1>2, DoesFacts, PlainStep DEF Flags

LEMMA BlockTimeoutStep == ASSUME IInv, NEW off \in BOOLEAN, BlockTimeout(off) PROVE IInv'
<1>1. \E command \in CommandNames : Does(command)
  BY DEF BlockTimeout, CommandNames
<1>2. /\ UNCHANGED <<complete, recs, procs, asked, alarm>>
      /\ flags \ {"notimeout"} \subseteq flags' /\ flags' \subseteq flags \cup {"notimeout"}
  BY DEF BlockTimeout
<1>3. QED
  BY <1>1, <1>2, DoesFacts, PlainStep DEF Flags

LEMMA WithIdFacts ==
  ASSUME IInv, NEW id \in Ids, WithId(id) # {}, NEW i, i = FirstOf(WithId(id))
  PROVE  /\ i \in DOMAIN recs /\ recs[i].id = id /\ recs[i].kind = "run"
         /\ recs[i] \in Rec /\ procs[i] \in Proc
<1>1. WithId(id) \in SUBSET Nat /\ WithId(id) \subseteq DOMAIN recs
  BY Types DEF WithId
<1>2. i \in WithId(id)
  BY <1>1, FirstMember
<1>3. i \in DOMAIN recs /\ recs[i].id = id
  BY <1>2 DEF WithId
<1>4. KindOk(i) /\ recs[i] \in Rec /\ procs[i] \in Proc /\ cases \in Nat
  BY <1>3, Types DEF IInv, KindInv, TypeInv
<1>5. id \notin Nat /\ id # None
  BY ScripterAssumption
<1>6. QED
  BY <1>3, <1>4, <1>5 DEF KindOk, Rec

LEMMA OnTestStep ==
  ASSUME IInv, NEW command, NEW id \in Ids, NEW statuses, NEW status \in {"PAUSED", "RUNNING", "ABORTED"},
         NEW process, OnTest(command, id, statuses, status, process),
         WithId(id) # {} =>
           /\ process \in Proc /\ process.outcomes = ProcessOf(id).outcomes
           /\ IF status = "ABORTED" THEN process.state = "zombie" ELSE process.state = ProcessOf(id).state
  PROVE  IInv'
<1>1. Does(command) /\ UNCHANGED <<complete, alarm, asked>>
  BY DEF OnTest
<1>2. CASE UNCHANGED <<recs, procs>> /\ (flags' = flags \/ flags' = flags \cup {"error"})
  BY <1>1, <1>2, DoesFacts, PlainStep DEF Flags
<1>3. ASSUME NEW i, i = FirstOf(WithId(id)), WithId(id) # {}, Exists(i),
             recs' = [recs EXCEPT ![i].status = status], procs' = [procs EXCEPT ![i] = process], flags' = flags
      PROVE  IInv'
  <2>1. i \in DOMAIN recs /\ recs[i].kind = "run" /\ procs[i] \in Proc
    BY <1>3, WithIdFacts
  <2>2. /\ process \in Proc /\ process.outcomes = procs[i].outcomes
        /\ IF status = "ABORTED" THEN process.state = "zombie" ELSE process.state = procs[i].state
    BY <1>3 DEF ProcessOf
  <2>3. TypeInv /\ procs \in Seq(Proc) /\ Len(procs) = Len(recs) /\ DOMAIN procs = DOMAIN recs
    BY Types DEF TypeInv
  <2>4. /\ recs' \in Seq(Rec) /\ Len(recs') = Len(recs) /\ DOMAIN recs' = DOMAIN recs
        /\ recs'[i].status = status /\ \A j \in DOMAIN recs : j # i => recs'[j] = recs[j]
        /\ \A j \in DOMAIN recs :
             /\ recs'[j].kind = recs[j].kind /\ recs'[j].id = recs[j].id
             /\ recs'[j].expect = recs[j].expect /\ recs'[j].results = recs[j].results
    BY <1>3, <2>1, <2>3, StatusSet DEF Status
  <2>5. /\ procs' \in Seq(Proc) /\ Len(procs') = Len(recs) /\ procs'[i] = process
        /\ \A j \in DOMAIN recs : j # i => procs'[j] = procs[j]
    BY <1>3, <2>1, <2>2, <2>3, SetOne
  <2>6. NamesKept
    BY <2>4, <2>5 DEF NamesKept
  <2>7. \A j \in DOMAIN recs : Calm(j)
    BY <1>3, <2>2, <2>5 DEF Calm, Exists
  <2>8. \A j \in DOMAIN recs :
          \/ recs'[j].status = recs[j].status
          \/ recs[j].kind = "run" /\ recs'[j].status \in {"RUNNING", "PAUSED"}
          \/ recs[j].kind = "run" /\ recs'[j].status = "ABORTED" /\ procs'[j].state \in {"zombie", "reaped"}
    BY <2>1, <2>2, <2>4, <2>5
  <2>9. QED
    BY <1>1, <1>3, <2>4, <2>6, <2>7, <2>8, DoesFacts, ScriptStep
<1>4. QED
  BY <1>2, <1>3 DEF OnTest

LEMMA TestCommandsStep ==
  ASSUME IInv, NEW id \in Ids, (\E how \in {"timed", "stopped"} : Pause(id, how)) \/ Resume(id) \/ Cancel(id)
  PROVE  IInv'
<1>1. PICK p : p = ProcessOf(id)
  OBVIOUS
<1>2. WithId(id) # {} => p \in Proc
  BY <1>1, WithIdFacts DEF ProcessOf
<1>3. ASSUME NEW how \in {"timed", "stopped"}, Pause(id, how) PROVE IInv'
  <2>1. PICK c, ss, st, q : /\ c = "pause" /\ ss = {"RUNNING"} /\ st = "PAUSED"
                            /\ q = IF Handles(p) \/ (Unready(p) /\ how = "stopped")
                                    THEN [p EXCEPT !.stopped = how] ELSE p
    OBVIOUS
  <2>2. OnTest(c, id, ss, st, q)
    BY <1>1, <1>3, <2>1 DEF Pause
  <2>3. WithId(id) # {} => q \in Proc /\ q.outcomes = p.outcomes /\ q.state = p.state
    BY <1>2, <2>1 DEF Proc
  <2>4. QED
    BY <1>1, <2>1, <2>2, <2>3, OnTestStep
<1>4. CASE Resume(id)
  <2>1. PICK c, ss, st, q : /\ c = "resume" /\ ss = {"PAUSED"} /\ st = "RUNNING"
                            /\ q = IF p.stopped = "stopped" THEN [p EXCEPT !.stopped = "no"] ELSE p
    OBVIOUS
  <2>2. OnTest(c, id, ss, st, q)
    BY <1>1, <1>4, <2>1 DEF Resume
  <2>3. WithId(id) # {} => q \in Proc /\ q.outcomes = p.outcomes /\ q.state = p.state
    BY <1>2, <2>1 DEF Proc
  <2>4. QED
    BY <1>1, <2>1, <2>2, <2>3, OnTestStep
<1>5. CASE Cancel(id)
  <2>1. PICK c, ss, st, q : /\ c = "cancel" /\ ss = {recs[i].status : i \in DOMAIN recs} /\ st = "ABORTED"
                            /\ q = [p EXCEPT !.state = "zombie", !.stopped = "no"]
    OBVIOUS
  <2>2. OnTest(c, id, ss, st, q)
    BY <1>1, <1>5, <2>1 DEF Cancel
  <2>3. WithId(id) # {} => q \in Proc /\ q.outcomes = p.outcomes /\ q.state = "zombie"
    BY <1>2, <2>1 DEF Proc
  <2>4. QED
    BY <1>1, <2>1, <2>2, <2>3, OnTestStep
<1>6. QED
  BY <1>3, <1>4, <1>5

LEMMA DeleteStep == ASSUME IInv, Delete PROVE IInv'
<1>1. PICK command, ended : command = "delete" /\ ended = "ENDED"
  OBVIOUS
<1>2. Does(command) /\ UNCHANGED <<flags, complete, alarm, asked>>
  BY <1>1 DEF Delete
<1>3. PICK i \in Classes : /\ recs[i].status = "NONE" /\ recs' = [recs EXCEPT ![i].status = ended]
                           /\ procs' = procs \/ procs' = Told(i)
  BY <1>1 DEF Delete
<1>4. TypeInv /\ i \in DOMAIN recs /\ recs[i].kind = "class"
  BY <1>3, Types DEF Classes
<1>5. /\ recs' \in Seq(Rec) /\ Len(recs') = Len(recs) /\ DOMAIN recs' = DOMAIN recs
      /\ recs'[i].status = ended /\ \A j \in DOMAIN recs : j # i => recs'[j] = recs[j]
      /\ \A j \in DOMAIN recs :
           /\ recs'[j].kind = recs[j].kind /\ recs'[j].id = recs[j].id
           /\ recs'[j].expect = recs[j].expect /\ recs'[j].results = recs[j].results
  BY <1>1, <1>3, <1>4, StatusSet DEF Status
<1>6. procs' \in Seq(Proc) /\ Len(procs') = Len(recs) /\ \A j \in DOMAIN recs : Calm(j)
  BY <1>3, <1>4, ToldFacts DEF Calm, TypeInv
<1>7. NamesKept
  BY <1>5, <1>6 DEF NamesKept
<1>8. \A j \in DOMAIN recs : \/ recs'[j].status = recs[j].status
                             \/ recs[j].kind = "class" /\ recs'[j].status = "ENDED"
  BY <1>1, <1>4, <1>5
<1>9. QED
  BY <1>2, <1>5, <1>6, <1>7, <1>8, DoesFacts, ScriptStep

LEMMA AskStep ==
  ASSUME IInv, NEW command \in {"allocate", "wait", "remote"}, NEW flag \in {"extif", "event"},
         Ask(command, flag)
  PROVE  IInv'
<1>1. /\ Does(command) /\ flags' = flags \cup {flag} /\ asked' = Append(asked, command)
      /\ UNCHANGED <<complete, recs, alarm, procs>>
  BY DEF Ask
<1>2. /\ ExecuteScript /\ pc = "script" /\ alarm # "handler" /\ pc' = "top" /\ lines' \in 0..MaxLines
      /\ UNCHANGED <<msg, remotes, walks, queue, abroad, cases, verdict, begun>>
  BY <1>1, DoesFacts
<1>3. TypeInv /\ LoopInv /\ KindInv /\ TestInv /\ RetInv /\ CaseInv /\ CancelInv /\ NoError /\ VerdictInv
  BY DEF IInv
<1>4. NamesKept /\ \A j : Calm(j)
  BY <1>1, Types, SameProcs DEF NamesKept, TypeInv
<1>5. MailKept /\ MailLess
  BY <1>2, <1>3, MailIsKept, KeptIsLess
<1>6. /\ asked' \in Seq({"allocate", "wait", "remote"}) /\ asked' # <<>>
      /\ asked = <<>> => Len(asked') = 1
  BY <1>1, <1>3 DEF TypeInv
<1>7. TypeInv'
  BY <1>1, <1>2, <1>3, <1>6 DEF TypeInv, Flags
<1>8. KindInv' /\ RetInv' /\ CaseInv' /\ CancelInv'
  BY <1>1, <1>2, <1>3, <1>4, <1>5, KindKept, RetKept, CaseKept, KeptIsLess, CancelKept
<1>9. LoopInv'
  BY <1>1, <1>2, <1>3, NoWalk DEF LoopInv
<1>10. TestInv'
  <2>1. \A j \in DOMAIN recs : ~Awaited(j)
    BY <1>2, NoWalk
  <2>2. QED
    BY <1>1, <1>2, <1>3, <1>4, <2>1, TestKept
<1>11. VerdictInv'
  BY <1>2, <1>3, NoVerdict DEF VerdictInv
<1>12. NoError'
  <2> SUFFICES ASSUME ~Is("error")' PROVE AskInv' /\ ClassInv' /\ EndInv'
    BY DEF NoError
  <2>1. ~Is("error")
    BY <1>1 DEF Is
  <2>2. AskInv /\ ClassInv /\ Unasked /\ ~Is("tclass_exec") /\ ~Is("finished")
    BY <1>2, <2>1, NothingAsked
  <2>3. \A n \in Slots' : ~IsAnswer(n)'
    BY <1>5, <2>2 DEF MailKept, IsAnswer, Unasked
  <2>4. Waits' /\ ~Is("finished")'
    BY <1>1, <2>2 DEF Waits, Is
  <2>5. AskInv' /\ EndInv'
    <3>1. Len(asked') = 1
      BY <1>6, <2>2 DEF Unasked
    <3>2. AskInv'
      BY <2>3, <2>4, <3>1 DEF AskInv
    <3>3. QED
      BY <2>4, <3>2 DEF EndInv
  <2>6. ClassInv'
    BY <1>1, <1>4, <1>5, <2>2, ClassKept
  <2>7. QED
    BY <2>5, <2>6
<1>13. QED
  BY <1>7, <1>8, <1>9, <1>10, <1>11, <1>12 DEF IInv

LEMMA CallStep == ASSUME IInv, NEW expect \in Expected, Call(expect) PROVE IInv'
<1>1. PICK command : command = "call"
  OBVIOUS
<1>2. Does(command) /\ UNCHANGED <<complete, alarm, asked>>
  BY <1>1 DEF Call
<1>3. PICK i \in Classes :
        \/ UNCHANGED <<flags, recs, procs>>
        \/ /\ recs' = [recs EXCEPT ![i].expect = expect] /\ flags' = flags \cup {"tclass_exec"}
           /\ \/ procs' = procs
              \/ procs[i].state = "idle" /\ procs' = [procs EXCEPT ![i].state = "running"]
  BY DEF Call
<1>4. CASE UNCHANGED <<flags, recs, procs>>
  BY <1>2, <1>4, DoesFacts, PlainStep
<1>5. CASE /\ recs' = [recs EXCEPT ![i].expect = expect] /\ flags' = flags \cup {"tclass_exec"}
           /\ \/ procs' = procs
              \/ procs[i].state = "idle" /\ procs' = [procs EXCEPT ![i].state = "running"]
  <2>1. /\ ExecuteScript /\ pc = "script" /\ alarm # "handler" /\ pc' = "top" /\ lines' \in 0..MaxLines
        /\ UNCHANGED <<msg, remotes, walks, queue, abroad, cases, verdict, begun>>
    BY <1>2, DoesFacts
  <2>2. TypeInv /\ LoopInv /\ KindInv /\ TestInv /\ RetInv /\ CaseInv /\ CancelInv /\ NoError /\ VerdictInv
    BY DEF IInv
  <2>3. /\ i \in DOMAIN recs /\ recs[i].kind = "class" /\ recs[i] \in Rec /\ procs[i] \in Proc
        /\ recs \in Seq(Rec) /\ procs \in Seq(Proc) /\ Len(recs) = Len(procs) /\ DOMAIN procs = DOMAIN recs
    BY <1>3, Types DEF Classes, TypeInv
  <2>4. PICK r, p : r = [recs[i] EXCEPT !.expect = expect] /\ p = [procs[i] EXCEPT !.state = "running"]
    OBVIOUS
  <2>5. /\ r \in Rec /\ r.kind = "class" /\ r.id = recs[i].id /\ r.status = recs[i].status
        /\ p \in Proc /\ p.state = "running" /\ p.outcomes = procs[i].outcomes /\ r.results = recs[i].results
    BY <2>3, <2>4, ScripterAssumption DEF Rec, Proc
  <2>6. recs' = [recs EXCEPT ![i] = r] /\ (procs' = procs \/ procs' = [procs EXCEPT ![i] = p])
    BY <1>5, <2>4
  <2>7. /\ recs' \in Seq(Rec) /\ Len(recs') = Len(recs) /\ DOMAIN recs' = DOMAIN recs /\ recs'[i] = r
        /\ \A j \in DOMAIN recs : j # i => recs'[j] = recs[j]
    BY <2>3, <2>5, <2>6, SetOne
  <2>8. /\ procs' \in Seq(Proc) /\ Len(procs') = Len(recs)
        /\ \A j \in DOMAIN recs : j # i => procs'[j] = procs[j]
        /\ procs'[i].outcomes = procs[i].outcomes /\ procs'[i].state \in {procs[i].state, "running"}
    <3>1. CASE procs' = procs
      BY <2>3, <3>1
    <3>2. CASE procs' = [procs EXCEPT ![i] = p]
      BY <2>3, <2>5, <3>2, SetOne
    <3>3. QED
      BY <2>6, <3>1, <3>2
  <2>9. \A j \in DOMAIN recs : j # i => Calm(j) /\ recs'[j] = recs[j] /\ procs'[j] = procs[j]
    BY <2>7, <2>8 DEF Calm
  <2>10. /\ \A j \in DOMAIN recs : recs[j].kind = "run" => Calm(j) /\ recs'[j] = recs[j]
         /\ \A j \in DOMAIN recs : recs[j].kind = "class" => j = i
         /\ \A j \in DOMAIN recs : recs'[j].status = recs[j].status
    BY <2>2, <2>3, <2>5, <2>7, <2>9 DEF KindInv
  <2>11. NamesKept
    BY <2>3, <2>5, <2>7, <2>8 DEF NamesKept
  <2>12. MailKept /\ MailLess
    BY <2>1, <2>2, MailIsKept, KeptIsLess
  <2>13. TypeInv'
    BY <1>2, <1>5, <2>1, <2>2, <2>7, <2>8 DEF TypeInv, Flags
  <2>14. KindInv'
    <3>1. ASSUME NEW j \in DOMAIN recs PROVE KindOk(j)'
      BY <2>1, <2>2, <2>3, <2>5, <2>7, <2>8, <2>9 DEF KindInv, KindOk
    <3>2. QED
      BY <2>2, <2>11, <3>1 DEF KindInv, NamesKept
  <2>15. LoopInv'
    BY <2>1, <2>2, NoWalk DEF LoopInv
  <2>16. TestInv'
    <3>1. \A j \in DOMAIN recs : ~Awaited(j)
      BY <2>1, NoWalk
    <3>2. QED
      BY <2>1, <2>2, <2>10, <2>11, <3>1, TestKept
  <2>17. RetInv' /\ CaseInv' /\ CancelInv'
    BY <1>2, <2>1, <2>2, <2>10, <2>11, <2>12, RetKept, CaseKept, KeptIsLess, CancelKept
  <2>18. VerdictInv'
    BY <2>1, <2>2, NoVerdict DEF VerdictInv
  <2>19. NoError'
    <3> SUFFICES ASSUME ~Is("error")' PROVE AskInv' /\ ClassInv' /\ EndInv'
      BY DEF NoError
    <3>1. ~Is("error")
      BY <1>5 DEF Is
    <3>2. AskInv /\ ClassInv /\ Unasked /\ ~Is("tclass_exec")
      BY <2>1, <3>1, NothingAsked
    <3>3. (Waits => Waits') /\ Is("tclass_exec")'
      BY <1>5 DEF Waits, Is
    <3>4. AskInv' /\ Unasked'
      BY <1>2, <2>12, <3>2, <3>3, AskKept, KeptIsLess
    <3>5. \A n \in Slots' : ~IsRet(n, i)'
      BY <2>3, <2>12, <3>2 DEF ClassInv, ClassOk, NoRet, MailKept, IsRet
    <3>6. ClassOk(i)'
      <4>1. RetOk(i) /\ NoRet(i)
        BY <2>3, <3>2 DEF ClassInv, ClassOk
      <4>2. \A o \in procs'[i].outcomes : Settled(i, o)'
        BY <2>5, <2>7, <2>8, <4>1 DEF RetOk, Settled, Coming, NoRet, Judged
      <4>3. Backed(i)'
        BY <2>5, <2>7, <2>8, <4>1 DEF RetOk, Backed
      <4>4. QED
        BY <3>3, <3>5, <4>2, <4>3 DEF ClassOk, RetOk
    <3>7. QED
      BY <2>10, <2>11, <3>4, <3>6 DEF ClassInv, EndInv, NamesKept
  <2>20. QED
    BY <2>13, <2>14, <2>15, <2>16, <2>17, <2>18, <2>19 DEF IInv
<1>6. QED
  BY <1>3, <1>4, <1>5

(* A new record, and its process.                                          *)
Grown(n, r, p) ==
  /\ recs' \in Seq(Rec) /\ procs' \in Seq(Proc) /\ Len(recs') = Len(procs')
  /\ n \notin DOMAIN recs /\ DOMAIN recs' = DOMAIN recs \cup {n} /\ recs'[n] = r /\ procs'[n] = p
  /\ \A j \in DOMAIN recs : recs'[j] = recs[j] /\ procs'[j] = procs[j]

LEMMA GrownFacts ==
  ASSUME TypeInv, NEW r \in Rec, NEW p \in Proc, recs' = Append(recs, r), procs' = Append(procs, p)
  PROVE  \E n : Grown(n, r, p)
<1>1. recs \in Seq(Rec) /\ procs \in Seq(Proc) /\ Len(recs) = Len(procs) /\ DOMAIN procs = DOMAIN recs
  BY Domains DEF TypeInv
<1>2. PICK n : n = Len(recs) + 1
  OBVIOUS
<1>3. /\ recs' \in Seq(Rec) /\ n \notin DOMAIN recs /\ DOMAIN recs' = DOMAIN recs \cup {n} /\ recs'[n] = r
      /\ \A j \in DOMAIN recs : recs'[j] = recs[j]
  BY <1>1, <1>2, AppendIndexed
<1>4. /\ procs' \in Seq(Proc) /\ procs'[n] = p /\ \A j \in DOMAIN recs : procs'[j] = procs[j]
  BY <1>1, <1>2, AppendIndexed
<1>5. Len(recs') = Len(procs')
  BY <1>1
<1>6. QED
  BY <1>3, <1>4, <1>5 DEF Grown

LEMMA GrownParts ==
  ASSUME IInv, NEW n, NEW r \in Rec, NEW p \in Proc, Grown(n, r, p), MailLess, cases' = cases,
         pc \in {"script", "handle"}, alarm # "handler", pc' \in {"top", "script"},
         r.status \in {"NONE", "RUNNING"}, r.kind = "run" => r.status = "RUNNING",
         p.outcomes = {}, r.results = {}, KindOk(n)',
         r.kind = "class" => Classes = {} /\ p.state # "running",
         r.kind = "remote" => ~Known(r.id)
  PROVE  /\ KindInv' /\ TestInv' /\ RetInv' /\ CancelInv'
         /\ ClassInv /\ (Is("tclass_exec") => Is("tclass_exec")') => ClassInv'
<1>1. TypeInv /\ KindInv /\ TestInv /\ RetInv /\ CancelInv
  BY DEF IInv
<1>2. /\ DOMAIN recs' = DOMAIN recs \cup {n} /\ n \notin DOMAIN recs /\ recs'[n] = r /\ procs'[n] = p
      /\ \A j \in DOMAIN recs : recs'[j] = recs[j] /\ procs'[j] = procs[j]
  BY DEF Grown
<1>3. KindInv'
  <2>1. \A j \in DOMAIN recs : KindOk(j)'
    BY <1>1, <1>2 DEF KindInv, KindOk
  <2>2. \A j \in DOMAIN recs : ~(recs[j].kind = "class" /\ r.kind = "class")
    BY DEF Classes
  <2>3. \A j \in DOMAIN recs : ~(recs[j].kind = "remote" /\ r.kind = "remote" /\ recs[j].id = r.id)
    BY DEF Known
  <2>4. \A i, j \in DOMAIN recs' : recs'[i].kind = "class" /\ recs'[j].kind = "class" => i = j
    BY <1>1, <1>2, <2>2 DEF KindInv
  <2>5. ASSUME NEW i \in DOMAIN recs', NEW j \in DOMAIN recs', recs'[i].kind = "remote", recs'[i].id = recs'[j].id
        PROVE  i = j
    <3>1. CASE i \in DOMAIN recs /\ j \in DOMAIN recs
      BY <1>1, <1>2, <2>5, <3>1 DEF KindInv
    <3>2. CASE i = n /\ j \in DOMAIN recs
      <4>1. r.kind = "remote" /\ recs[j].id = r.id /\ r.id \in Nat
        BY <1>1, <1>2, <2>5, <3>2 DEF KindOk, TypeInv
      <4>2. recs[j].kind = "remote"
        BY <1>1, <3>2, <4>1, Domains, ScripterAssumption DEF KindInv, KindOk, Rec
      <4>3. QED
        BY <2>3, <3>2, <4>1, <4>2
    <3>3. CASE j = n /\ i \in DOMAIN recs
      <4>1. recs[i].kind = "remote" /\ recs[i].id = r.id /\ recs[i].id \in Nat
        BY <1>1, <1>2, <2>5, <3>3 DEF KindInv, KindOk, TypeInv
      <4>2. r.kind = "remote"
        BY <1>2, <4>1, ScripterAssumption DEF KindOk, Rec
      <4>3. QED
        BY <2>3, <3>3, <4>1, <4>2
    <3>4. QED
      BY <1>2, <2>5, <3>1, <3>2, <3>3
  <2>6. QED
    BY <1>2, <2>1, <2>4, <2>5 DEF KindInv
<1>4. TestInv'
  <2>1. \A j \in DOMAIN recs : ~Awaited(j)
    BY NoWalk
  <2>2. \A j \in DOMAIN recs : TestOk(j)'
    BY <1>1, <1>2, <2>1 DEF TestInv, TestOk
  <2>3. TestOk(n)'
    BY <1>2 DEF TestOk
  <2>4. QED
    BY <1>2, <2>2, <2>3 DEF TestInv
<1>5. CancelInv'
  <2>1. \A j \in DOMAIN recs : Failed(j) => Failed(j)'
    BY <1>2 DEF Failed
  <2>2. QED
    BY <1>1, <1>2, <2>1 DEF CancelInv
<1>6. ASSUME NEW m \in Slots', NEW j
      PROVE  m \in Slots /\ (IsRet(m, j)' <=> IsRet(m, j)) /\ Letter(m)' = Letter(m)
  BY DEF MailLess, NoNewMail, IsRet
<1>7. \A m \in Slots' : ~IsRet(m, n)'
  BY <1>1, <1>2, <1>6 DEF RetInv, IsRet
<1>8. ASSUME NEW j \in DOMAIN recs
      PROVE  /\ NoRet(j)' <=> NoRet(j)
             /\ RetOk(j) => RetOk(j)'
  <2>1. NoRet(j)' <=> NoRet(j)
    BY <1>6 DEF NoRet, MailLess, IsRet
  <2>2. Calm(j) /\ MailFor(j)
    BY <1>2, LessIsFor DEF Calm
  <2>3. RetOk(j) => RetOk(j)'
    BY <1>2, <2>2, RetOkKept
  <2>4. QED
    BY <2>1, <2>3
<1>9. RetInv'
  <2>1. ASSUME NEW j \in DOMAIN recs, recs[j].kind = "run" PROVE RunRetOk(j)'
    <3>1. RunRetOk(j) /\ pc # "reap"
      BY <1>1, <2>1 DEF RetInv
    <3>2. recs[j].status = "ENDED" => Quiet(j)' /\ \A m \in Slots' : ~IsRet(m, j)'
      BY <1>2, <1>6, <3>1 DEF RunRetOk, Quiet
    <3>3. QED
      BY <1>2, <1>8, <3>1, <3>2 DEF RunRetOk
  <2>2. r.kind = "run" => RunRetOk(n)'
    BY <1>2, <1>7 DEF RunRetOk, RetOk, Backed
  <2>3. ASSUME NEW m \in Slots', Letter(m)'.kind = "ret"
        PROVE  Letter(m)'.from \in DOMAIN recs' /\ recs'[Letter(m)'.from].kind \in {"run", "class"}
    BY <1>1, <1>2, <1>6, <2>3 DEF RetInv
  <2>4. QED
    BY <1>2, <2>1, <2>2, <2>3 DEF RetInv
<1>10. ASSUME ClassInv, Is("tclass_exec") => Is("tclass_exec")' PROVE ClassInv'
  <2>1. ASSUME NEW j \in DOMAIN recs, recs[j].kind = "class" PROVE ClassOk(j)'
    BY <1>2, <1>8, <1>10, <2>1 DEF ClassInv, ClassOk
  <2>2. r.kind = "class" => ClassOk(n)'
    BY <1>2, <1>7 DEF ClassOk, RetOk, NoRet, Backed
  <2>3. QED
    BY <1>2, <2>1, <2>2 DEF ClassInv
<1>11. QED
  BY <1>3, <1>4, <1>5, <1>9, <1>10

(* run and testclass_create.                                               *)
LEMMA StartsStep ==
  ASSUME IInv, NEW command, Does(command), UNCHANGED <<flags, alarm, asked>>,
         complete' \in {complete, None}, NEW r \in Rec, NEW p \in Proc,
         recs' = Append(recs, r), procs' = Append(procs, p),
         \/ r.kind = "run" /\ r.id \in Ids /\ r.status = "RUNNING"
         \/ r.kind = "class" /\ r.id = None /\ r.status = "NONE" /\ Classes = {},
         r.results = {}, p.state = "forked", p.outcomes = {}
  PROVE  IInv'
<1>1. /\ ExecuteScript /\ pc = "script" /\ alarm # "handler" /\ pc' = "top" /\ lines' \in 0..MaxLines
      /\ UNCHANGED <<msg, remotes, walks, queue, abroad, cases, verdict, begun>>
  BY DoesFacts
<1>2. TypeInv /\ LoopInv /\ KindInv /\ TestInv /\ RetInv /\ CaseInv /\ CancelInv /\ NoError /\ VerdictInv
  BY DEF IInv
<1>3. PICK n : Grown(n, r, p)
  BY <1>2, GrownFacts
<1>4. /\ DOMAIN recs' = DOMAIN recs \cup {n} /\ n \notin DOMAIN recs /\ recs'[n] = r /\ procs'[n] = p
      /\ recs' \in Seq(Rec) /\ procs' \in Seq(Proc) /\ Len(recs') = Len(procs')
      /\ \A j \in DOMAIN recs : recs'[j] = recs[j] /\ procs'[j] = procs[j]
  BY <1>3 DEF Grown
<1>5. MailKept /\ MailLess
  BY <1>1, <1>2, MailIsKept, KeptIsLess
<1>6. TypeInv'
  BY <1>1, <1>2, <1>4 DEF TypeInv
<1>7. KindOk(n)'
  BY <1>4 DEF KindOk
<1>8. /\ KindInv' /\ TestInv' /\ RetInv' /\ CancelInv'
      /\ ClassInv => ClassInv'
  BY <1>1, <1>3, <1>5, <1>7, GrownParts DEF Is
<1>9. LoopInv'
  BY <1>1, <1>2, NoWalk DEF LoopInv
<1>10. CaseInv'
  <2>1. Slots' = Slots /\ \A m \in Slots : Letter(m)' = Letter(m)
    BY <1>5 DEF MailKept
  <2>2. \A c : Known(c)' <=> Known(c)
    BY <1>4 DEF Known
  <2>3. \A m \in Slots : /\ \A c : (IsReady(m, c)' <=> IsReady(m, c)) /\ (Grants(m, c)' <=> Grants(m, c))
                         /\ IsAnswer(m)' <=> IsAnswer(m)
    BY <2>1 DEF IsReady, Grants, IsAnswer
  <2>4. \A c : Readied(c)' <=> Readied(c)
    BY <2>1, <2>3 DEF Readied
  <2>5. Out' = Out
    BY <1>1, <2>2, <2>4 DEF Out
  <2>6. QED
    BY <1>1, <1>2, <2>1, <2>2, <2>3, <2>4, <2>5 DEF CaseInv
<1>11. VerdictInv'
  BY <1>1, <1>2, NoVerdict DEF VerdictInv
<1>12. NoError'
  <2> SUFFICES ASSUME ~Is("error") PROVE AskInv' /\ ClassInv' /\ EndInv'
    BY DEF NoError, Is
  <2>1. AskInv /\ ClassInv /\ Unasked
    BY <1>1, NothingAsked
  <2>2. AskInv' /\ Unasked'
    BY <1>5, <2>1, AskKept, KeptIsLess DEF Waits, Is
  <2>3. QED
    BY <1>8, <2>1, <2>2 DEF EndInv
<1>13. QED
  BY <1>6, <1>8, <1>9, <1>10, <1>11, <1>12 DEF IInv

LEMMA RunStep == ASSUME IInv, NEW id \in Ids, NEW expect \in Expected, Run(id, expect) PROVE IInv'
<1>1. PICK command, r, p : command = "run" /\ r = Record("run", id, expect, "RUNNING") /\ p = Process("forked")
  OBVIOUS
<1>2. /\ Does(command) /\ recs' = Append(recs, r) /\ procs' = Append(procs, p)
      /\ complete' = None /\ UNCHANGED <<flags, alarm, asked>>
  BY <1>1 DEF Run
<1>3. /\ r \in Rec /\ r.kind = "run" /\ r.id = id /\ r.status = "RUNNING"
      /\ r.results = {} /\ p \in Proc /\ p.state = "forked" /\ p.outcomes = {}
  BY <1>1, ScripterAssumption DEF Record, Process, Rec, Proc, Status
<1>4. QED
  BY <1>2, <1>3, StartsStep

LEMMA CreateStep == ASSUME IInv, Create PROVE IInv'
<1>1. PICK command, r, p : command = "create" /\ r = Record("class", None, "passed", "NONE") /\ p = Process("forked")
  OBVIOUS
<1>2. /\ Does(command) /\ recs' = Append(recs, r) /\ procs' = Append(procs, p) /\ Classes = {}
      /\ complete' = complete /\ UNCHANGED <<flags, alarm, asked>>
  BY <1>1 DEF Create
<1>3. /\ r \in Rec /\ r.kind = "class" /\ r.id = None /\ r.status = "NONE"
      /\ r.results = {} /\ p \in Proc /\ p.state = "forked" /\ p.outcomes = {}
  BY <1>1 DEF Record, Process, Rec, Proc, Status, Results
<1>4. QED
  BY <1>2, <1>3, StartsStep

LEMMA CommandStep == ASSUME IInv, Command PROVE IInv'
<1>1. CASE \E id \in Ids, expect \in Expected : Run(id, expect)
  BY <1>1, RunStep
<1>2. CASE \E id \in Ids : Complete(id) \/ Resume(id) \/ Cancel(id)
  BY <1>2, CompleteStep, TestCommandsStep
<1>3. CASE \E id \in Ids, how \in {"timed", "stopped"} : Pause(id, how)
  BY <1>3, TestCommandsStep
<1>4. CASE CancelIfError \/ Timeout \/ (\E off \in BOOLEAN : BlockTimeout(off))
  BY <1>4, CancelIfErrorStep, BlockTimeoutStep
<1>5. CASE Create
  BY <1>5, CreateStep
<1>6. CASE \E expect \in Expected : Call(expect)
  BY <1>6, CallStep
<1>7. CASE Delete
  BY <1>7, DeleteStep
<1>8. CASE Ask("allocate", "extif") \/ Ask("wait", "event") \/ Ask("remote", "extif")
  <2>1. PICK command \in {"allocate", "wait", "remote"}, flag \in {"extif", "event"} : Ask(command, flag)
    BY <1>8
  <2>2. QED
    BY <2>1, AskStep
<1>9. QED
  BY <1>1, <1>2, <1>3, <1>4, <1>5, <1>6, <1>7, <1>8 DEF Command

----------------------------------------------------------------------------
(* The messages.                                                           *)

LEMMA HandleRetStep == ASSUME IInv, HandleRet PROVE IInv'
<1>1. PICK i, ended : i = msg.from /\ ended = "ENDED"
  OBVIOUS
<1>2. /\ pc = "handle" /\ alarm # "handler" /\ pc' = "reap" /\ msg.kind = "ret" /\ recs[i].kind = "run"
      /\ recs' = [recs EXCEPT ![i].status = ended] /\ procs' = Told(i)
      /\ complete' = complete \/ complete' = None
      /\ UNCHANGED <<begun, lines, msg, flags, remotes, walks, alarm, queue, asked, abroad, cases, verdict>>
  BY <1>1 DEF HandleRet, At, Goes, world
<1>3. TypeInv /\ LoopInv /\ KindInv /\ TestInv /\ RetInv /\ CaseInv /\ CancelInv /\ NoError /\ VerdictInv
  BY DEF IInv
<1>4. 0 \in Slots /\ Letter(0) = msg /\ IsRet(0, i)
  BY <1>1, <1>2, <1>3 DEF Slots, Letter, TypeInv, IsRet
<1>5. i \in DOMAIN recs
  BY <1>1, <1>2, <1>3, <1>4 DEF RetInv
<1>6. /\ recs' \in Seq(Rec) /\ Len(recs') = Len(recs) /\ DOMAIN recs' = DOMAIN recs
      /\ recs'[i].status = ended /\ \A j \in DOMAIN recs : j # i => recs'[j] = recs[j]
      /\ \A j \in DOMAIN recs :
           /\ recs'[j].kind = recs[j].kind /\ recs'[j].id = recs[j].id
           /\ recs'[j].expect = recs[j].expect /\ recs'[j].results = recs[j].results
  BY <1>1, <1>2, <1>3, <1>5, StatusSet DEF Status
<1>7. procs' \in Seq(Proc) /\ Len(procs') = Len(recs) /\ \A j \in DOMAIN recs : Calm(j)
  BY <1>2, <1>3, <1>5, ToldFacts DEF Calm
<1>8. NamesKept
  BY <1>6, <1>7 DEF NamesKept
<1>9. MailKept
  BY <1>2, <1>3, MailIsKept
<1>10. NoNewMail /\ MailLess /\ MailCase /\ \A j : MailFor(j)
  BY <1>9, KeptIsLess, LessIsFor
<1>11. TypeInv'
  BY <1>2, <1>3, <1>6, <1>7 DEF TypeInv
<1>12. KindInv'
  <2>1. \A j \in DOMAIN recs : \/ recs'[j].status = recs[j].status
                               \/ recs[j].kind = "run" /\ recs'[j].status # "NONE"
    BY <1>1, <1>2, <1>6
  <2>2. QED
    BY <1>2, <1>3, <1>7, <1>8, <2>1, KindKept
<1>13. LoopInv'
  BY <1>1, <1>2, <1>3, <1>5, <1>6, NoWalk DEF LoopInv
<1>14. TestInv'
  <2>1. Awaited(i)' /\ \A j \in DOMAIN recs : ~Awaited(j)
    BY <1>1, <1>2, NoWalk DEF Awaited
  <2>2. QED
    BY <1>2, <1>3, <1>6, <1>7, <1>8, <2>1, TestKept
<1>15. RunRetOk(i)
  BY <1>2, <1>3, <1>5 DEF RetInv
<1>16. RetInv'
  <2>1. ASSUME NEW j \in DOMAIN recs, recs[j].kind = "run", j # i PROVE RunRetOk(j)'
    BY <1>2, <1>3, <1>6, <1>7, <1>10, <2>1, RunRetKept DEF RetInv
  <2>2. \A n \in Slots : IsRet(n, i) => n = 0
    BY <1>4, <1>15 DEF RunRetOk, RetOk
  <2>3. Quiet(i) /\ RetOk(i)
    BY <1>4, <1>15 DEF RunRetOk, RetOk
  <2>4. Calm(i) /\ Slots' = Slots /\ \A n \in Slots : Letter(n)' = Letter(n)
    BY <1>5, <1>7, <1>9 DEF MailKept
  <2>5. \A n \in Slots : IsRet(n, i)' <=> IsRet(n, i)
    BY <2>4 DEF IsRet
  <2>6. RetOk(i)' /\ Quiet(i)'
    BY <1>5, <1>6, <1>10, <2>3, <2>4, RetOkKept
  <2>7. \A n \in Slots' : IsRet(n, i)' => n = 0 /\ pc' = "reap"
    BY <1>2, <2>2, <2>4, <2>5
  <2>9. RunRetOk(i)'
    BY <2>6, <2>7 DEF RunRetOk
  <2>10. QED
    BY <1>3, <1>8, <1>10, <2>1, <2>9, FromKept
<1>17. CaseInv'
  BY <1>2, <1>3, <1>8, <1>10, CaseKept
<1>18. CancelInv'
  <2>1. \A j \in DOMAIN recs : recs'[j].status = "CANCELED" => recs[j].status = "CANCELED"
    BY <1>1, <1>6
  <2>2. QED
    BY <1>2, <1>3, <1>7, <1>8, <2>1, CancelKept
<1>19. VerdictInv'
  BY <1>2, <1>3, NoVerdict DEF VerdictInv
<1>20. NoError'
  <2> SUFFICES ASSUME ~Is("error") PROVE AskInv' /\ ClassInv' /\ EndInv'
    BY <1>2 DEF NoError, Is
  <2>1. AskInv /\ ClassInv /\ EndInv
    BY <1>3 DEF NoError
  <2>2. (Waits => Waits') /\ (Is("tclass_exec") => Is("tclass_exec")') /\ (Is("finished")' => Is("finished"))
    BY <1>2 DEF Waits, Is
  <2>3. \A j \in DOMAIN recs : Culprit(j) => recs'[j].status = "CANCELED"
    BY <1>4, <1>6 DEF Culprit, NoRet
  <2>4. QED
    BY <1>2, <1>6, <1>7, <1>8, <1>10, <2>1, <2>2, <2>3, AskKept, ClassKept, EndKept
<1>21. QED
  BY <1>11, <1>12, <1>13, <1>14, <1>16, <1>17, <1>18, <1>19, <1>20 DEF IInv

(* A result that is handled is kept in the record, and was there to be     *)
(* kept.                                                                   *)
LEMMA ResultKept ==
  ASSUME NEW i, RetOk(i), MailDone, Letter(0) = msg, IsRet(0, i), Calm(i),
         recs'[i].expect = recs[i].expect,
         recs'[i].results = recs[i].results \cup {Judged(Outcome(i, msg.result))}
  PROVE  NoRet(i)' /\ Outcome(i, msg.result) \in procs'[i].outcomes /\ RetOk(i)'
<1>1. /\ 0 \in Slots /\ Slots' = Slots \ {0}
      /\ \A n \in Slots' : Letter(n)' = Letter(n) /\ (IsRet(n, i)' <=> IsRet(n, i))
  BY DEF MailDone, IsRet
<1>2. \A n \in Slots : IsRet(n, i) => n = 0
  BY <1>1 DEF RetOk
<1>3. NoRet(i)'
  BY <1>1, <1>2 DEF NoRet
<1>4. Outcome(i, msg.result) \in procs[i].outcomes /\ procs'[i].outcomes = procs[i].outcomes
  BY <1>1 DEF RetOk, Calm
<1>5. ASSUME NEW o \in procs'[i].outcomes PROVE Settled(i, o)'
  <2>1. CASE Settled(i, o)
    BY <2>1 DEF Settled, Judged
  <2>2. CASE Coming(i, o)
    <3>1. o = Outcome(i, msg.result)
      BY <1>2, <2>2 DEF Coming
    <3>2. QED
      BY <3>1 DEF Settled, Judged
  <2>3. QED
    BY <1>4, <2>1, <2>2 DEF RetOk
<1>6. Backed(i)'
  <2>1. SUFFICES ASSUME NEW q \in recs'[i].results, q # "passed"
                 PROVE  \E o \in procs'[i].outcomes : o.result = q /\ o.expect # q
    BY DEF Backed
  <2>2. CASE q \in recs[i].results
    BY <1>4, <2>1, <2>2 DEF RetOk, Backed
  <2>3. CASE q = Judged(Outcome(i, msg.result))
    BY <1>4, <2>1, <2>3 DEF Judged
  <2>4. QED
    BY <2>2, <2>3
<1>7. QED
  BY <1>3, <1>4, <1>5, <1>6 DEF RetOk, NoRet

LEMMA HandleRetEndsStep == ASSUME IInv, HandleRetEnds PROVE IInv'
<1> DEFINE cancels == msg.result = "failed" /\ Is("canceliferror")
<1>1. PICK i, status, result :
        /\ i = msg.from /\ result = Judged(Outcome(i, msg.result))
        /\ status = IF cancels THEN "CANCELED" ELSE recs[i].status
  OBVIOUS
<1>2. /\ pc = "reap" /\ alarm # "handler" /\ Waited(i)
      /\ recs' = [recs EXCEPT ![i].results = @ \cup {result}, ![i].status = status]
      /\ flags' = IF cancels THEN flags \cup {"finished"} ELSE flags
      /\ pc' = IF cancels THEN "cancel" ELSE "script"
      /\ UNCHANGED <<begun, lines, complete, remotes, walks, alarm, queue, asked, abroad, cases, verdict>>
  BY <1>1 DEF HandleRetEnds, At, Goes, world
<1>3. TypeInv /\ LoopInv /\ KindInv /\ TestInv /\ RetInv /\ CaseInv /\ CancelInv /\ NoError /\ VerdictInv
  BY DEF IInv
<1>4. i \in DOMAIN recs /\ recs[i].kind = "run" /\ 0 \in Slots /\ Letter(0) = msg /\ msg.kind = "ret"
  BY <1>1, <1>2, <1>3, ReapFrom DEF LoopInv
<1>5. IsRet(0, i) /\ Letter(0) \in RetMsg /\ recs[i] \in Rec /\ KindOk(i) /\ recs \in Seq(Rec)
  BY <1>1, <1>3, <1>4, Letters, Domains DEF IsRet, KindInv, TypeInv
<1>6. /\ recs' \in Seq(Rec) /\ Len(recs') = Len(recs) /\ DOMAIN recs' = DOMAIN recs
      /\ recs'[i].results = recs[i].results \cup {result} /\ recs'[i].status = status
      /\ \A j \in DOMAIN recs : j # i => recs'[j] = recs[j]
      /\ \A j \in DOMAIN recs :
           recs'[j].kind = recs[j].kind /\ recs'[j].id = recs[j].id /\ recs'[j].expect = recs[j].expect
  <2>1. PICK r : r = [recs[i] EXCEPT !.results = @ \cup {result}, !.status = status]
    OBVIOUS
  <2>2. result \in Results /\ status \in Status
    BY <1>1, <1>4, <1>5 DEF Judged, Outcome, RetMsg, Rec, Results, Status
  <2>3. /\ r \in Rec /\ r.results = recs[i].results \cup {result} /\ r.status = status
        /\ r.kind = recs[i].kind /\ r.id = recs[i].id /\ r.expect = recs[i].expect
    BY <1>5, <2>1, <2>2 DEF Rec
  <2>4. recs' = [recs EXCEPT ![i] = r]
    BY <1>2, <1>4, <2>1
  <2>5. QED
    BY <1>4, <1>5, <2>3, <2>4, SetOne
<1>7. /\ procs' \in Seq(Proc) /\ Len(procs') = Len(recs) /\ \A j \in DOMAIN recs : Calm(j)
      /\ procs'[i].state = "reaped"
  BY <1>2, <1>3, <1>4, <1>5, WaitedFacts DEF KindOk
<1>8. NamesKept
  BY <1>6, <1>7 DEF NamesKept
<1>9. MailDone
  BY <1>2, <1>3, MailIsDone
<1>10. NoNewMail /\ MailCase /\ 0 \notin Slots' /\ \A j : j # i => MailFor(j)
  BY <1>1, <1>4, <1>9, DoneIsLess DEF MailDone
<1>11. TypeInv'
  BY <1>2, <1>3, <1>6, <1>7 DEF TypeInv, Flags
<1>12. KindInv'
  <2>1. \A j \in DOMAIN recs : \/ recs'[j].status = recs[j].status
                               \/ recs[j].kind = "run" /\ recs'[j].status # "NONE"
    BY <1>1, <1>4, <1>6
  <2>2. \A j \in DOMAIN recs : recs[j].kind = "remote" => recs'[j].results = recs[j].results
    BY <1>4, <1>6
  <2>3. QED
    BY <1>2, <1>3, <1>7, <1>8, <2>1, <2>2, KindKept
<1>13. LoopInv'
  BY <1>2, <1>3, NoWalk DEF LoopInv
<1>14. \A j \in DOMAIN recs : Awaited(j) => j = i
  BY <1>1, <1>2, <1>3, NoWalk, Domains DEF Awaited
<1>15. TestInv'
  BY <1>2, <1>3, <1>6, <1>7, <1>8, <1>14, TestKept
<1>16. RunRetOk(i) /\ RetOk(i) /\ Calm(i)
  BY <1>3, <1>4, <1>7 DEF RetInv, RunRetOk
<1>17. /\ NoRet(i)' /\ Outcome(i, msg.result) \in procs'[i].outcomes /\ RetOk(i)'
  BY <1>1, <1>4, <1>5, <1>6, <1>9, <1>16, ResultKept
<1>18. RetInv'
  <2>1. ASSUME NEW j \in DOMAIN recs, recs[j].kind = "run", j # i PROVE RunRetOk(j)'
    BY <1>2, <1>3, <1>6, <1>7, <1>10, <2>1, RunRetKept DEF RetInv
  <2>3. RunRetOk(i)'
    BY <1>7, <1>17 DEF RunRetOk, Quiet, NoRet
  <2>4. QED
    BY <1>3, <1>8, <1>10, <2>1, <2>3, FromKept
<1>19. CaseInv'
  BY <1>2, <1>3, <1>8, <1>10, CaseKept
<1>20. CancelInv'
  <2>1. CASE cancels
    <3>1. Failed(i)' /\ i \in DOMAIN recs'
      BY <1>1, <1>4, <1>6, <1>7, <1>17, <2>1 DEF Failed, Outcome
    <3>2. QED
      BY <3>1 DEF CancelInv
  <2>2. CASE ~cancels
    <3>1. \A j \in DOMAIN recs : recs'[j].status = recs[j].status
      BY <1>1, <1>6, <2>2
    <3>2. QED
      BY <1>2, <1>3, <1>7, <1>8, <2>2, <3>1, CancelKept
  <2>3. QED
    BY <2>1, <2>2
<1>21. VerdictInv'
  BY <1>2, <1>3, NoVerdict DEF VerdictInv
<1>22. NoError'
  <2> SUFFICES ASSUME ~Is("error") PROVE AskInv' /\ ClassInv' /\ EndInv'
    BY <1>2 DEF NoError, Is
  <2>1. AskInv /\ ClassInv /\ EndInv
    BY <1>3 DEF NoError
  <2>2. (Waits => Waits') /\ (Is("tclass_exec") => Is("tclass_exec")')
    BY <1>2 DEF Waits, Is
  <2>3. AskInv'
    BY <1>2, <1>10, <2>1, <2>2, AskKept
  <2>4. ClassInv'
    <3>1. ASSUME NEW j \in DOMAIN recs, recs[j].kind = "class" PROVE ClassOk(j)'
      BY <1>4, <1>6, <1>7, <1>10, <2>1, <2>2, <3>1, ClassOkKept DEF ClassInv
    <3>2. QED
      BY <1>6, <3>1 DEF ClassInv
  <2>5. CASE cancels
    <3>1. Culprit(i)' /\ i \in DOMAIN recs'
      BY <1>1, <1>4, <1>6, <1>7, <1>17, <2>5 DEF Culprit, Quiet
    <3>2. EndInv'
      BY <3>1 DEF EndInv
    <3>3. QED
      BY <2>3, <2>4, <3>2
  <2>6. CASE ~cancels
    <3>1. Is("finished")' => Is("finished")
      BY <1>2, <2>6 DEF Is
    <3>2. \A j \in DOMAIN recs : Culprit(j) => recs'[j].status = "CANCELED"
      BY <1>1, <1>6, <2>6 DEF Culprit
    <3>3. EndInv'
      BY <1>2, <1>7, <1>8, <1>10, <2>1, <3>1, <3>2, EndKept
    <3>4. QED
      BY <2>3, <2>4, <3>3
  <2>7. QED
    BY <2>5, <2>6
<1>23. QED
  BY <1>11, <1>12, <1>13, <1>15, <1>18, <1>19, <1>20, <1>21, <1>22 DEF IInv

LEMMA HandleCallRetStep == ASSUME IInv, HandleCallRet PROVE IInv'
<1>1. PICK i, result : i = msg.from /\ result = Judged(Outcome(i, msg.result))
  OBVIOUS
<1>2. /\ pc = "handle" /\ alarm # "handler" /\ pc' = "script" /\ msg.kind = "ret" /\ recs[i].kind = "class"
      /\ recs' = [recs EXCEPT ![i].results = @ \cup {result}, ![i].crashed = @ \/ msg.result = "crashed"]
      /\ flags' = flags \ {"tclass_exec"}
      /\ UNCHANGED <<begun, lines, complete, remotes, walks, alarm, procs, queue, asked, abroad, cases, verdict>>
  BY <1>1 DEF HandleCallRet, At, Goes, world
<1>3. TypeInv /\ LoopInv /\ KindInv /\ TestInv /\ RetInv /\ CaseInv /\ CancelInv /\ NoError /\ VerdictInv
  BY DEF IInv
<1>4. 0 \in Slots /\ Letter(0) = msg /\ IsRet(0, i)
  BY <1>1, <1>2, <1>3 DEF Slots, Letter, TypeInv, IsRet
<1>5. i \in DOMAIN recs /\ Letter(0) \in RetMsg
  BY <1>1, <1>2, <1>3, <1>4, Letters DEF RetInv
<1>6. /\ recs' \in Seq(Rec) /\ Len(recs') = Len(recs) /\ DOMAIN recs' = DOMAIN recs
      /\ recs'[i].results = recs[i].results \cup {result}
      /\ \A j \in DOMAIN recs : j # i => recs'[j] = recs[j]
      /\ \A j \in DOMAIN recs :
           /\ recs'[j].kind = recs[j].kind /\ recs'[j].id = recs[j].id /\ recs'[j].status = recs[j].status
           /\ recs'[j].expect = recs[j].expect
  <2>1. PICK crashed \in BOOLEAN : crashed = (recs[i].crashed \/ msg.result = "crashed")
    OBVIOUS
  <2>2. PICK r : r = [recs[i] EXCEPT !.results = @ \cup {result}, !.crashed = crashed]
    OBVIOUS
  <2>3. result \in Results /\ recs[i] \in Rec /\ recs \in Seq(Rec)
    BY <1>1, <1>3, <1>4, <1>5, Domains DEF Judged, Outcome, RetMsg, Results, TypeInv
  <2>4. /\ r \in Rec /\ r.results = recs[i].results \cup {result} /\ r.status = recs[i].status
        /\ r.kind = recs[i].kind /\ r.id = recs[i].id /\ r.expect = recs[i].expect
    BY <2>2, <2>3 DEF Rec
  <2>5. recs' = [recs EXCEPT ![i] = r]
    BY <1>2, <1>5, <2>1, <2>2, Zenon
  <2>6. QED
    BY <1>5, <2>3, <2>4, <2>5, SetOne
<1>7. NamesKept /\ \A j : Calm(j)
  BY <1>2, <1>3, <1>6, SameProcs DEF NamesKept, TypeInv
<1>8. MailDone
  BY <1>2, <1>3, MailIsDone
<1>9. NoNewMail /\ MailCase /\ 0 \notin Slots' /\ \A j : j # i => MailFor(j)
  BY <1>1, <1>2, <1>4, <1>8, DoneIsLess DEF MailDone
<1>10. TypeInv'
  BY <1>2, <1>3, <1>6 DEF TypeInv
<1>11. KindInv' /\ CancelInv' /\ CaseInv'
  BY <1>2, <1>3, <1>6, <1>7, <1>9, KindKept, CancelKept, CaseKept
<1>12. LoopInv'
  BY <1>2, <1>3, NoWalk DEF LoopInv
<1>13. TestInv'
  <2>1. \A j \in DOMAIN recs : ~Awaited(j)
    BY <1>2, NoWalk
  <2>2. QED
    BY <1>2, <1>3, <1>6, <1>7, <2>1, TestKept
<1>14. RetInv'
  <2>1. ASSUME NEW j \in DOMAIN recs, recs[j].kind = "run" PROVE RunRetOk(j)'
    BY <1>2, <1>3, <1>6, <1>7, <1>9, <2>1, RunRetKept DEF RetInv
  <2>2. QED
    BY <1>3, <1>7, <1>9, <2>1, FromKept
<1>15. VerdictInv'
  BY <1>2, <1>3, NoVerdict DEF VerdictInv
<1>16. NoError'
  <2> SUFFICES ASSUME ~Is("error") PROVE AskInv' /\ ClassInv' /\ EndInv'
    BY <1>2 DEF NoError, Is
  <2>1. AskInv /\ ClassInv /\ EndInv
    BY <1>3 DEF NoError
  <2>2. (Waits => Waits') /\ (Is("finished")' => Is("finished"))
    BY <1>2 DEF Waits, Is
  <2>3. AskInv'
    BY <1>2, <1>9, <2>1, <2>2, AskKept
  <2>4. RetOk(i)
    BY <1>2, <1>5, <2>1 DEF ClassInv, ClassOk
  <2>5. procs'[i].state # "running"
    BY <1>2, <1>4, <2>4 DEF RetOk, Quiet
  <2>6. NoRet(i)' /\ RetOk(i)'
    BY <1>1, <1>4, <1>5, <1>6, <1>7, <1>8, <2>4, ResultKept
  <2>7. ClassOk(i)'
    BY <2>5, <2>6 DEF ClassOk
  <2>8. ClassInv'
    BY <1>2, <1>3, <1>5, <1>6, <2>7 DEF ClassInv, KindInv
  <2>9. \A j \in DOMAIN recs : Culprit(j) => recs'[j].status = "CANCELED"
    BY <1>6 DEF Culprit
  <2>10. EndInv'
    BY <1>2, <1>7, <1>9, <2>1, <2>2, <2>9, EndKept
  <2>11. QED
    BY <2>3, <2>8, <2>10
<1>17. QED
  BY <1>10, <1>11, <1>12, <1>13, <1>14, <1>15, <1>16 DEF IInv

(* The answer to a blocking command: the script may go on.                 *)
LEMMA AnswerTaken ==
  ASSUME TypeInv, AskInv, MailDone, IsAnswer(0), asked' = asked
  PROVE  AskInv' /\ Unasked'
<1>1. 0 \in Slots /\ \A n \in Slots' : n \in Slots /\ n # 0 /\ (IsAnswer(n)' <=> IsAnswer(n))
  BY DEF MailDone, IsAnswer
<1>2. asked = <<>> /\ \A n \in Slots' : ~IsAnswer(n)'
  BY <1>1 DEF AskInv
<1>3. Len(asked') = 0
  BY <1>2
<1>4. QED
  BY <1>2, <1>3 DEF AskInv, Unasked

(* The answer grants the run on a slave: its case is known from now on.    *)
LEMMA GrantTaken ==
  ASSUME TypeInv, CaseInv, MailDone, NEW c \in Nat, Grants(0, c), UNCHANGED <<abroad, cases>>,
         \A d : Known(d)' <=> Known(d) \/ d = c, remotes' = remotes + 1
  PROVE  c \in 1..cases /\ ~Known(c) /\ CaseInv'
<1>1. 0 \in Slots /\ Slots' = Slots \ {0} /\ \A n \in Slots' : Letter(n)' = Letter(n)
  BY DEF MailDone
<1>2. c \in 1..cases
  BY <1>1 DEF CaseInv, Grants, IsAnswer, TypeInv
<1>3. ~Known(c) /\ (c \in abroad \/ Readied(c))
  BY <1>1, <1>2 DEF CaseInv
<1>4. \A n \in Slots' : /\ \A d : (IsReady(n, d)' <=> IsReady(n, d)) /\ (Grants(n, d)' <=> Grants(n, d))
                        /\ IsAnswer(n)' <=> IsAnswer(n)
                        /\ n \in Slots /\ n # 0
  BY <1>1 DEF IsReady, Grants, IsAnswer
<1>5. \A d : ~IsReady(0, d) /\ (Grants(0, d) => d = c)
  BY DEF IsReady, Grants
<1>6. \A d : Readied(d)' <=> Readied(d)
  BY <1>1, <1>4, <1>5 DEF Readied
<1>7. Out' = Out \cup {c} /\ c \notin Out
  BY <1>2, <1>3, <1>6 DEF Out
<1>8. remotes' = Cardinality(Out')
  <2>1. IsFiniteSet(Out) /\ remotes = Cardinality(Out) /\ remotes \in Nat
    BY OutFinite DEF CaseInv, TypeInv
  <2>2. Cardinality(Out \cup {c}) = Cardinality(Out) + 1
    BY <1>7, <2>1, FS_AddElement
  <2>3. QED
    BY <1>7, <2>1, <2>2, Zenon
<1>9. \A n \in Slots' : \A d \in 1..cases : Grants(n, d)' => d # c
  BY <1>1, <1>2, <1>4 DEF CaseInv
<1>10. \A n \in Slots' : \A d \in 1..cases : Grants(n, d)' => ~Known(d)' /\ (d \in abroad \/ Readied(d)')
  BY <1>4, <1>6, <1>9 DEF CaseInv
<1>11. \A d \in abroad : Known(d)' \/ \E n \in Slots' : Grants(n, d)'
  BY <1>1, <1>4, <1>5 DEF CaseInv
<1>12. \A n \in Slots' : \A d \in 1..cases : IsReady(n, d)' => Known(d)' \/ \E m \in Slots' : m < n /\ Grants(m, d)'
  BY <1>1, <1>4, <1>5 DEF CaseInv
<1>13. /\ \A n, m \in Slots' : \A d \in 1..cases : IsReady(n, d)' /\ IsReady(m, d)' => n = m
       /\ \A n, m \in Slots' : \A d \in 1..cases : Grants(n, d)' /\ Grants(m, d)' => n = m
  BY <1>4 DEF CaseInv
<1>14. \A n \in Slots' : /\ IsAnswer(n)' => /\ Letter(n)'.case \in 0..cases
                                            /\ Letter(n)'.case # 0 => Letter(n)'.ok /\ Letter(n)'.kind = "extif"
                         /\ Letter(n)'.kind = "ready" => Letter(n)'.case \in 1..cases /\ Letter(n)'.case \notin abroad
  BY <1>1, <1>4 DEF CaseInv
<1>15. QED
  BY <1>2, <1>3, <1>8, <1>10, <1>11, <1>12, <1>13, <1>14 DEF CaseInv

LEMMA HandleAnswerStep == ASSUME IInv, HandleAnswer PROVE IInv'
<1>1. PICK c, kind : c = msg.case /\ kind = msg.kind
  OBVIOUS
<1>2. /\ pc = "handle" /\ alarm # "handler" /\ pc' = "script" /\ kind \in {"extif", "event"}
      /\ flags' = (flags \ {kind}) \cup IF msg.ok THEN {} ELSE {"error"}
      /\ UNCHANGED <<begun, lines, complete, walks, alarm, queue, asked, abroad, cases, verdict>>
  BY <1>1 DEF HandleAnswer, At, Goes, world
<1>3. TypeInv /\ LoopInv /\ KindInv /\ TestInv /\ RetInv /\ CaseInv /\ CancelInv /\ NoError /\ VerdictInv
  BY DEF IInv
<1>4. MailDone /\ 0 \in Slots /\ Letter(0) = msg /\ IsAnswer(0)
  BY <1>1, <1>2, <1>3, MailIsDone DEF MailDone, Letter, IsAnswer
<1>5. MailLess /\ NoNewMail
  BY <1>1, <1>2, <1>4, DoneIsLess
<1>6. Letter(0) \in AnswerMsg /\ c \in Nat
  BY <1>1, <1>3, <1>4, Letters DEF AnswerMsg
<1>7. flags' \subseteq Flags
  BY <1>2, <1>3 DEF TypeInv, Flags
<1>8. \A j \in DOMAIN recs : ~Awaited(j)
  BY <1>2, NoWalk
<1>9. LoopInv' /\ VerdictInv'
  BY <1>2, <1>3, NoWalk, NoVerdict DEF LoopInv, VerdictInv
<1>10. ASSUME ~Is("error")'
       PROVE  /\ AskInv' /\ EndInv' /\ ClassInv /\ (Is("tclass_exec") => Is("tclass_exec")')
  <2>1. ~Is("error")
    BY <1>2, <1>10 DEF Is
  <2>2. AskInv /\ ClassInv
    BY <1>3, <2>1 DEF NoError
  <2>3. AskInv' /\ Unasked'
    BY <1>2, <1>3, <1>4, <2>2, AnswerTaken
  <2>4. QED
    BY <1>2, <2>2, <2>3 DEF EndInv, Is
<1>11. CASE UNCHANGED <<remotes, recs, procs>> /\ ~(msg.ok /\ c # 0)
  <2>1. NamesKept /\ \A j : Calm(j)
    BY <1>3, <1>11, SameProcs DEF NamesKept, TypeInv
  <2>2. c = 0
    BY <1>1, <1>3, <1>4, <1>11 DEF CaseInv
  <2>3. MailCase
    BY <1>1, <1>2, <1>4, <1>5, <2>2 DEF MailCase, MailDone, IsReady, Grants
  <2>4. KindInv' /\ RetInv' /\ CaseInv' /\ CancelInv'
    BY <1>2, <1>3, <1>5, <1>11, <2>1, <2>3, KindKept, RetKept, CaseKept, CancelKept
  <2>5. TestInv'
    BY <1>2, <1>3, <1>8, <1>11, <2>1, TestKept
  <2>6. TypeInv'
    BY <1>2, <1>3, <1>7, <1>11 DEF TypeInv
  <2>7. ClassInv /\ (Is("tclass_exec") => Is("tclass_exec")') => ClassInv'
    BY <1>5, <1>11, <2>1, ClassKept
  <2>8. QED
    BY <1>9, <1>10, <2>4, <2>5, <2>6, <2>7 DEF IInv, NoError
<1>12. CASE /\ msg.ok /\ c # 0 /\ remotes' = remotes + 1
            /\ recs' = Append(recs, Record("remote", c, "passed", "RUNNING"))
            /\ procs' = Append(procs, Process("none"))
  <2>1. PICK r, p : r = Record("remote", c, "passed", "RUNNING") /\ p = Process("none")
    OBVIOUS
  <2>2. /\ r \in Rec /\ r.kind = "remote" /\ r.id = c /\ r.status = "RUNNING"
        /\ r.results = {} /\ p \in Proc /\ p.state = "none" /\ p.outcomes = {}
    BY <1>6, <2>1 DEF Record, Process, Rec, Proc, Status, Results
  <2>3. PICK n : Grown(n, r, p)
    BY <1>3, <1>12, <2>1, <2>2, GrownFacts
  <2>4. /\ DOMAIN recs' = DOMAIN recs \cup {n} /\ n \notin DOMAIN recs /\ recs'[n] = r /\ procs'[n] = p
        /\ recs' \in Seq(Rec) /\ procs' \in Seq(Proc) /\ Len(recs') = Len(procs')
        /\ \A j \in DOMAIN recs : recs'[j] = recs[j] /\ procs'[j] = procs[j]
    BY <2>3 DEF Grown
  <2>5. Grants(0, c)
    BY <1>1, <1>3, <1>4, <1>12 DEF CaseInv, Grants
  <2>6. \A d : Known(d)' <=> Known(d) \/ d = c
    BY <2>2, <2>4 DEF Known
  <2>7. c \in 1..cases /\ ~Known(c) /\ CaseInv'
    BY <1>2, <1>3, <1>4, <1>6, <1>12, <2>5, <2>6, GrantTaken
  <2>8. KindOk(n)'
    BY <1>2, <2>2, <2>4, <2>7 DEF KindOk
  <2>9. /\ KindInv' /\ TestInv' /\ RetInv' /\ CancelInv'
        /\ ClassInv /\ (Is("tclass_exec") => Is("tclass_exec")') => ClassInv'
    BY <1>2, <1>5, <2>2, <2>3, <2>7, <2>8, GrownParts
  <2>10. remotes' \in Nat
    BY <1>3, <1>12 DEF TypeInv
  <2>11. TypeInv'
    BY <1>2, <1>3, <1>7, <2>4, <2>10 DEF TypeInv
  <2>12. QED
    BY <1>9, <1>10, <2>7, <2>9, <2>11 DEF IInv, NoError
<1>13. QED
  <2>1. \/ UNCHANGED <<remotes, recs, procs>> /\ ~(msg.ok /\ c # 0)
        \/ /\ msg.ok /\ c # 0 /\ remotes' = OneMore
           /\ recs' = Append(recs, Record("remote", c, "passed", "RUNNING"))
           /\ procs' = Append(procs, Process("none"))
    BY <1>1 DEF HandleAnswer
  <2>2. QED
    BY <1>11, <1>12, <2>1 DEF OneMore

(* The result of a slave's case: there is a record, and one case less is   *)
(* out.                                                                    *)
LEMMA ReadyTaken ==
  ASSUME TypeInv, CaseInv, MailDone, NEW c \in Nat, IsReady(0, c), UNCHANGED <<abroad, cases>>,
         \A d : Known(d)' <=> Known(d), remotes' = remotes - 1
  PROVE  c \in 1..cases /\ Known(c) /\ remotes' \in Nat /\ CaseInv'
<1>1. 0 \in Slots /\ Slots' = Slots \ {0} /\ \A n \in Slots' : Letter(n)' = Letter(n)
  BY DEF MailDone
<1>2. c \in 1..cases /\ c \notin abroad
  BY <1>1 DEF CaseInv, IsReady
<1>3. Slots \subseteq Nat
  BY DEF Slots
<1>4. Known(c)
  BY <1>1, <1>2, <1>3 DEF CaseInv
<1>5. \A n \in Slots' : /\ \A d : (IsReady(n, d)' <=> IsReady(n, d)) /\ (Grants(n, d)' <=> Grants(n, d))
                        /\ IsAnswer(n)' <=> IsAnswer(n)
                        /\ n \in Slots /\ n # 0
  BY <1>1 DEF IsReady, Grants, IsAnswer
<1>6. \A d : (IsReady(0, d) => d = c) /\ ~Grants(0, d)
  BY DEF IsReady, Grants
<1>7. \A d : d # c => (Readied(d)' <=> Readied(d))
  BY <1>1, <1>5, <1>6 DEF Readied
<1>8. Readied(c) /\ ~Readied(c)'
  BY <1>1, <1>2, <1>5 DEF Readied, CaseInv
<1>9. Out' = Out \ {c} /\ c \in Out
  BY <1>2, <1>4, <1>7, <1>8 DEF Out
<1>10. remotes' = Cardinality(Out') /\ remotes' \in Nat
  <2>1. IsFiniteSet(Out) /\ remotes = Cardinality(Out) /\ remotes \in Nat
    BY OutFinite DEF CaseInv, TypeInv
  <2>2. IsFiniteSet(Out \ {c}) /\ Cardinality(Out \ {c}) = Cardinality(Out) - 1
    BY <1>9, <2>1, FS_RemoveElement
  <2>3. remotes' = Cardinality(Out')
    BY <1>9, <2>1, <2>2, Zenon
  <2>4. Cardinality(Out') \in Nat
    BY <1>9, <2>2, FS_CardinalityType, Zenon
  <2>5. QED
    BY <2>3, <2>4, Zenon
<1>11. \A n \in Slots' : \A d \in 1..cases : Grants(n, d)' => d # c
  BY <1>4, <1>5 DEF CaseInv
<1>12. \A n \in Slots' : \A d \in 1..cases : Grants(n, d)' => ~Known(d)' /\ (d \in abroad \/ Readied(d)')
  BY <1>5, <1>7, <1>11 DEF CaseInv
<1>13. \A d \in abroad : Known(d)' \/ \E n \in Slots' : Grants(n, d)'
  BY <1>1, <1>5, <1>6 DEF CaseInv
<1>14. \A n \in Slots' : \A d \in 1..cases : IsReady(n, d)' => Known(d)' \/ \E m \in Slots' : m < n /\ Grants(m, d)'
  BY <1>1, <1>5, <1>6 DEF CaseInv
<1>15. /\ \A n, m \in Slots' : \A d \in 1..cases : IsReady(n, d)' /\ IsReady(m, d)' => n = m
       /\ \A n, m \in Slots' : \A d \in 1..cases : Grants(n, d)' /\ Grants(m, d)' => n = m
  BY <1>5 DEF CaseInv
<1>16. \A n \in Slots' : /\ IsAnswer(n)' => /\ Letter(n)'.case \in 0..cases
                                            /\ Letter(n)'.case # 0 => Letter(n)'.ok /\ Letter(n)'.kind = "extif"
                         /\ Letter(n)'.kind = "ready" => Letter(n)'.case \in 1..cases /\ Letter(n)'.case \notin abroad
  BY <1>1, <1>5 DEF CaseInv
<1>17. QED
  BY <1>2, <1>4, <1>10, <1>12, <1>13, <1>14, <1>15, <1>16 DEF CaseInv

LEMMA HandleReadyStep == ASSUME IInv, HandleReady PROVE IInv'
<1>1. PICK c, i, result, ended : c = msg.case /\ i = FirstOf(WithId(c)) /\ result = msg.result /\ ended = "ENDED"
  OBVIOUS
<1>2. /\ pc = "handle" /\ alarm # "handler" /\ pc' = "script" /\ msg.kind = "ready"
      /\ remotes' = remotes - 1
      /\ IF WithId(c) = {} THEN flags' = flags \cup {"error"} /\ UNCHANGED recs
         ELSE /\ recs' = [recs EXCEPT ![i].status = ended, ![i].results = @ \cup {result}]
              /\ UNCHANGED flags
      /\ UNCHANGED <<begun, lines, complete, walks, alarm, procs, queue, asked, abroad, cases, verdict>>
  BY <1>1 DEF HandleReady, At, Goes, world
<1>3. TypeInv /\ LoopInv /\ KindInv /\ TestInv /\ RetInv /\ CaseInv /\ CancelInv /\ NoError /\ VerdictInv
  BY DEF IInv
<1>4. MailDone /\ 0 \in Slots /\ Letter(0) = msg /\ IsReady(0, c)
  BY <1>1, <1>2, <1>3, MailIsDone DEF MailDone, Letter, IsReady
<1>5. MailLess /\ NoNewMail
  BY <1>2, <1>4, DoneIsLess
<1>6. Letter(0) \in ReadyMsg /\ c \in Nat /\ result \in {"passed", "failed"}
  BY <1>1, <1>2, <1>3, <1>4, Letters DEF ReadyMsg
<1>7. Known(c)
  <2>1. Slots \subseteq Nat /\ c \in 1..cases
    BY <1>3, <1>4 DEF Slots, CaseInv, IsReady
  <2>2. QED
    BY <1>3, <1>4, <2>1 DEF CaseInv
<1>8. /\ i \in DOMAIN recs /\ recs[i].kind = "remote" /\ recs[i] \in Rec /\ recs \in Seq(Rec)
      /\ recs[i].results \subseteq {"passed", "failed"}
      /\ recs' = [recs EXCEPT ![i].status = ended, ![i].results = @ \cup {result}] /\ flags' = flags
  <2>1. WithId(c) \in SUBSET Nat /\ WithId(c) # {} /\ WithId(c) \subseteq DOMAIN recs
    BY <1>7, Types DEF WithId, Known
  <2>2. i \in WithId(c)
    BY <1>1, <2>1, FirstMember
  <2>3. i \in DOMAIN recs /\ recs[i].id = c
    BY <2>2 DEF WithId
  <2>4. KindOk(i) /\ recs[i] \in Rec
    BY <1>3, <2>3, Types DEF KindInv
  <2>5. recs[i].kind = "remote"
    BY <1>3, <1>6, <2>3, <2>4, ScripterAssumption DEF KindOk, Rec, TypeInv
  <2>6. recs' = [recs EXCEPT ![i].status = ended, ![i].results = @ \cup {result}] /\ flags' = flags
    BY <1>2, <2>1
  <2>7. QED
    BY <1>3, <2>3, <2>4, <2>5, <2>6 DEF KindOk, TypeInv
<1>9. /\ recs' \in Seq(Rec) /\ Len(recs') = Len(recs) /\ DOMAIN recs' = DOMAIN recs
      /\ recs'[i].status = "ENDED" /\ \A j \in DOMAIN recs : j # i => recs'[j] = recs[j]
      /\ recs'[i].results \subseteq {"passed", "failed"}
      /\ \A j \in DOMAIN recs : recs'[j].kind = recs[j].kind /\ recs'[j].id = recs[j].id
  <2>1. PICK r : r = [recs[i] EXCEPT !.status = ended, !.results = @ \cup {result}]
    OBVIOUS
  <2>2. /\ r \in Rec /\ r.status = ended /\ r.kind = recs[i].kind /\ r.id = recs[i].id
        /\ r.results = recs[i].results \cup {result}
    BY <1>1, <1>6, <1>8, <2>1 DEF Rec, Status, Results
  <2>3. recs' = [recs EXCEPT ![i] = r]
    BY <1>8, <2>1
  <2>4. r.results \subseteq {"passed", "failed"}
    BY <1>6, <1>8, <2>2
  <2>5. /\ recs' \in Seq(Rec) /\ Len(recs') = Len(recs) /\ DOMAIN recs' = DOMAIN recs /\ recs'[i] = r
        /\ \A j \in DOMAIN recs : j # i => recs'[j] = recs[j]
    <3>1. i \in DOMAIN recs /\ recs \in Seq(Rec) /\ r \in Rec
      BY <1>8, <2>2
    <3>2. QED
      BY <2>3, <3>1, SetOne
  <2>6. QED
    BY <1>1, <2>2, <2>4, <2>5
<1>10. NamesKept /\ \A j : Calm(j)
  BY <1>2, <1>3, <1>9, SameProcs DEF NamesKept, TypeInv
<1>11. \A j \in DOMAIN recs : recs[j].kind # "remote" => recs'[j] = recs[j]
  BY <1>8, <1>9
<1>12. \A d : Known(d)' <=> Known(d)
  BY <1>9 DEF Known
<1>13. remotes' \in Nat /\ CaseInv'
  BY <1>2, <1>3, <1>4, <1>6, <1>12, ReadyTaken
<1>14. TypeInv'
  BY <1>2, <1>3, <1>8, <1>9, <1>13 DEF TypeInv
<1>15. KindInv'
  <2>1. \A j \in DOMAIN recs : recs'[j].status = recs[j].status \/ recs[j].kind = "remote"
    BY <1>11
  <2>2. \A j \in DOMAIN recs : \/ recs'[j].results = recs[j].results
                               \/ recs'[j].results \subseteq {"passed", "failed"}
    BY <1>9
  <2>3. QED
    BY <1>2, <1>3, <1>10, <2>1, <2>2, KindKept
<1>16. RetInv'
  BY <1>2, <1>3, <1>5, <1>10, <1>11, RetKept
<1>17. CancelInv'
  <2>1. \A j \in DOMAIN recs : recs'[j].status = "CANCELED" => recs[j].status = "CANCELED"
    BY <1>8, <1>9
  <2>2. QED
    BY <1>2, <1>3, <1>10, <2>1, CancelKept
<1>18. TestInv'
  <2>1. \A j \in DOMAIN recs : ~Awaited(j)
    BY <1>2, NoWalk
  <2>2. QED
    BY <1>2, <1>3, <1>10, <1>11, <2>1, TestKept
<1>19. LoopInv' /\ VerdictInv'
  BY <1>2, <1>3, <1>8, NoWalk, NoVerdict DEF LoopInv, VerdictInv
<1>20. NoError'
  <2> SUFFICES ASSUME ~Is("error") PROVE AskInv' /\ ClassInv' /\ EndInv'
    BY <1>8 DEF NoError, Is
  <2>1. AskInv /\ ClassInv /\ EndInv
    BY <1>3 DEF NoError
  <2>2. (Waits => Waits') /\ (Is("tclass_exec") => Is("tclass_exec")') /\ (Is("finished")' => Is("finished"))
    BY <1>8 DEF Waits, Is
  <2>3. \A j \in DOMAIN recs : Culprit(j) => recs'[j].status = "CANCELED"
    BY <1>11 DEF Culprit
  <2>4. ClassInv'
    BY <1>5, <1>10, <1>11, <2>1, <2>2, ClassKept
  <2>5. AskInv' /\ EndInv'
    BY <1>2, <1>5, <1>10, <2>1, <2>2, <2>3, AskKept, EndKept
  <2>6. QED
    BY <2>4, <2>5
<1>21. QED
  BY <1>13, <1>14, <1>15, <1>16, <1>17, <1>18, <1>19, <1>20 DEF IInv

----------------------------------------------------------------------------
(* The test processes.                                                     *)

LEMMA RetSent ==
  ASSUME NEW k, NEW m, MailSent(k, m), m.kind = "ret"
  PROVE  /\ k \notin Slots /\ Slots' = Slots \cup {k} /\ Letter(k)' = m /\ k # 0
         /\ \A n \in Slots : /\ n < k /\ Letter(n)' = Letter(n) /\ (IsAnswer(n)' <=> IsAnswer(n))
                             /\ \A j : IsRet(n, j)' <=> IsRet(n, j)
                             /\ \A c : (IsReady(n, c)' <=> IsReady(n, c)) /\ (Grants(n, c)' <=> Grants(n, c))
         /\ ~IsAnswer(k)' /\ \A c : ~IsReady(k, c)' /\ ~Grants(k, c)'
         /\ \A j : IsRet(k, j)' <=> j = m.from
BY DEF MailSent, IsRet, IsAnswer, IsReady, Grants

LEMMA RetSentCase ==
  ASSUME CaseInv, NEW k, NEW m, MailSent(k, m), m.kind = "ret", UNCHANGED <<abroad, cases, remotes>>,
         \A d : Known(d)' <=> Known(d)
  PROVE  CaseInv'
<1>1. /\ k \notin Slots /\ Slots' = Slots \cup {k} /\ Letter(k)' = m
      /\ \A n \in Slots : /\ n < k /\ Letter(n)' = Letter(n) /\ (IsAnswer(n)' <=> IsAnswer(n))
                          /\ \A c : (IsReady(n, c)' <=> IsReady(n, c)) /\ (Grants(n, c)' <=> Grants(n, c))
      /\ ~IsAnswer(k)' /\ \A c : ~IsReady(k, c)' /\ ~Grants(k, c)'
  BY RetSent
<1>2. \A d : Readied(d)' <=> Readied(d)
  BY <1>1 DEF Readied
<1>3. Out' = Out
  BY <1>2 DEF Out
<1>4. QED
  BY <1>1, <1>2, <1>3 DEF CaseInv

(* One more MSG_RET: of another process, and of this one.                  *)
LEMMA MoreMail ==
  ASSUME NEW j, RetOk(j), NEW k, Slots' = Slots \cup {k}, ~IsRet(k, j)', procs'[j] = procs[j], recs'[j] = recs[j],
         \A n \in Slots : Letter(n)' = Letter(n) /\ (IsRet(n, j)' <=> IsRet(n, j))
  PROVE  RetOk(j)'
<1>1. \A result : Outcome(j, result)' = Outcome(j, result)
  BY DEF Outcome
<1>2. \A n, m \in Slots' : IsRet(n, j)' /\ IsRet(m, j)' => n = m
  BY DEF RetOk
<1>3. \A n \in Slots' : IsRet(n, j)' =>
        Quiet(j)' /\ Outcome(j, Letter(n).result)' \in procs'[j].outcomes
  BY <1>1 DEF RetOk, Quiet
<1>4. ASSUME NEW o \in procs'[j].outcomes PROVE Settled(j, o)' \/ Coming(j, o)'
  <2>1. CASE Settled(j, o)
    BY <2>1 DEF Settled, Judged
  <2>2. CASE Coming(j, o)
    BY <1>1, <2>2 DEF Coming
  <2>3. QED
    BY <2>1, <2>2 DEF RetOk
<1>5. Backed(j)'
  BY DEF RetOk, Backed
<1>6. QED
  BY <1>2, <1>3, <1>4, <1>5 DEF RetOk

LEMMA SaysMore ==
  ASSUME NEW i, RetOk(i), procs[i].state = "running", NEW k, Slots' = Slots \cup {k}, IsRet(k, i)',
         recs'[i] = recs[i], NEW result, Letter(k)'.result = result,
         procs'[i].outcomes = procs[i].outcomes \cup {Outcome(i, result)},
         procs'[i].state \in {"idle", "sent", "zombie"},
         \A n \in Slots : Letter(n)' = Letter(n) /\ (IsRet(n, i)' <=> IsRet(n, i))
  PROVE  RetOk(i)'
<1>1. \A q : Outcome(i, q)' = Outcome(i, q)
  BY DEF Outcome
<1>2. \A n \in Slots : ~IsRet(n, i)
  BY DEF RetOk, Quiet
<1>3. \A n \in Slots' : IsRet(n, i)' => n = k
  BY <1>2
<1>4. Quiet(i)'
  BY DEF Quiet
<1>5. Outcome(i, Letter(k).result)' = Outcome(i, result)
  BY DEF Outcome
<1>6. ASSUME NEW o \in procs'[i].outcomes PROVE Settled(i, o)' \/ Coming(i, o)'
  <2>1. CASE o = Outcome(i, result)
    BY <1>5, <2>1 DEF Coming
  <2>2. CASE o \in procs[i].outcomes
    <3>1. Settled(i, o)
      BY <1>2, <2>2 DEF RetOk, Coming
    <3>2. QED
      BY <3>1 DEF Settled, Judged
  <2>3. QED
    BY <2>1, <2>2
<1>7. Backed(i)'
  BY DEF RetOk, Backed
<1>8. \A n \in Slots' : IsRet(n, i)' =>
        Quiet(i)' /\ Outcome(i, Letter(n).result)' \in procs'[i].outcomes
  BY <1>3, <1>4, <1>5
<1>9. QED
  BY <1>3, <1>6, <1>7, <1>8 DEF RetOk

(* The process of i does not run any more, and has said what it has to.    *)
LEMMA ReportStep ==
  ASSUME IInv, NEW i \in DOMAIN procs, procs[i].state = "running", NEW result \in Results, NEW p \in Proc,
         p.outcomes = procs[i].outcomes \cup {Outcome(i, result)}, p.state \in {"idle", "sent", "zombie"},
         p.state = "idle" => recs[i].kind = "class", p.state = "sent" => recs[i].kind # "class",
         procs' = [procs EXCEPT ![i] = p], Reports(i, result),
         UNCHANGED <<main, recs, walks, alarm, world, verdict>>
  PROVE  IInv'
<1>1. /\ UNCHANGED <<pc, begun, lines, msg, flags, complete, remotes>>
      /\ UNCHANGED <<recs, walks, alarm, asked, abroad, cases, verdict>>
  BY DEF main, world
<1>2. TypeInv /\ LoopInv /\ KindInv /\ TestInv /\ RetInv /\ CaseInv /\ CancelInv /\ NoError /\ VerdictInv
  BY DEF IInv
<1>3. /\ i \in DOMAIN recs /\ recs[i] \in Rec /\ KindOk(i) /\ procs \in Seq(Proc) /\ DOMAIN recs = DOMAIN procs
      /\ i \in Nat \ {0}
  BY <1>2, Types DEF KindInv, TypeInv
<1>4. /\ procs' \in Seq(Proc) /\ Len(procs') = Len(procs) /\ procs'[i] = p
      /\ \A j \in DOMAIN recs : j # i => procs'[j] = procs[j]
  BY <1>3, SetOne
<1>5. recs[i].kind \in {"run", "class"}
  BY <1>3 DEF KindOk, Rec
<1>6. NamesKept /\ \A j \in DOMAIN recs : j # i => Calm(j)
  BY <1>1, <1>2, <1>4 DEF NamesKept, TypeInv, Calm
<1>7. \A j : Awaited(j)' <=> Awaited(j)
  BY <1>1 DEF Awaited
<1>8. \A d : Known(d)' <=> Known(d)
  BY <1>1 DEF Known
<1>9. KindInv'
  <2>1. KindOk(i)'
    BY <1>1, <1>3, <1>4, <1>5 DEF KindOk
  <2>2. \A j \in DOMAIN recs : KindOk(j)'
    BY <1>1, <1>2, <1>4, <2>1 DEF KindOk, KindInv
  <2>3. QED
    BY <1>1, <1>2, <2>2 DEF KindInv
<1>10. TestInv'
  <2>1. ASSUME NEW j \in DOMAIN recs PROVE TestOk(j)'
    BY <1>1, <1>2, <1>4, <1>7, <2>1 DEF TestInv, TestOk
  <2>2. QED
    BY <1>1, <1>2, <2>1 DEF TestInv
<1>11. LoopInv'
  BY <1>1, <1>2 DEF LoopInv, Is
<1>12. CancelInv'
  <2>1. \A j \in DOMAIN recs : Failed(j) => Failed(j)'
    BY <1>1, <1>4 DEF Failed
  <2>2. QED
    BY <1>1, <1>2, <2>1 DEF CancelInv
<1>13. CASE pc = "done"
  <2>1. queue' = queue
    BY <1>13 DEF Reports
  <2>2. MailKept /\ NoNewMail /\ MailLess /\ MailCase
    BY <1>1, <1>2, <2>1, MailIsKept, KeptIsLess
  <2>3. recs[i].kind = "class"
    <3>1. alarm # "handler" /\ recs[i].status \notin {"RUNNING", "PAUSED"}
      BY <1>2, <1>3, <1>13 DEF LoopInv, TestInv
    <3>2. ~Awaited(i)
      BY <1>3, <1>13, <3>1, NoWalk
    <3>3. QED
      BY <1>2, <1>3, <1>5, <3>1, <3>2 DEF TestInv, TestOk
  <2>4. Is("error") /\ Is("error")'
    BY <1>1, <1>2, <1>3, <1>13, <2>3 DEF NoError, ClassInv, ClassOk, LoopInv, Is
  <2>5. TypeInv'
    BY <1>1, <1>2, <1>4, <2>1 DEF TypeInv
  <2>6. RetInv'
    <3>1. \A j \in DOMAIN recs : recs[j].kind = "run" => Calm(j)
      BY <1>6, <2>3
    <3>2. QED
      BY <1>1, <1>2, <1>6, <2>2, <3>1, RetKept
  <2>7. CaseInv'
    BY <1>1, <1>2, <1>6, <2>2, CaseKept
  <2>8. VerdictInv'
    <3>1. verdict \notin {"passed", "failed"}
      BY <1>2, <2>4 DEF VerdictInv
    <3>2. \A j \in DOMAIN recs : Failed(j) => Failed(j)'
      BY <1>1, <1>4 DEF Failed
    <3>3. QED
      BY <1>1, <1>2, <3>1, <3>2 DEF VerdictInv
  <2>9. QED
    BY <1>9, <1>10, <1>11, <1>12, <2>4, <2>5, <2>6, <2>7, <2>8 DEF IInv, NoError
<1>14. CASE pc # "done"
  <2>1. PICK m : m = [kind |-> "ret", from |-> i, result |-> result]
    OBVIOUS
  <2>2. m \in Msg /\ m.kind = "ret" /\ m.from = i /\ m.result = result
    BY <1>3, <2>1 DEF Msg, RetMsg
  <2>3. queue' = Append(queue, m)
    BY <1>14, <2>1 DEF Reports
  <2>4. queue' \in Seq(Msg) /\ \E k \in Nat : MailSent(k, m)
    BY <1>1, <1>2, <2>2, <2>3, MailIsSent
  <2>5. PICK k \in Nat : MailSent(k, m)
    BY <2>4
  <2>6. TypeInv'
    BY <1>1, <1>2, <1>4, <2>4 DEF TypeInv
  <2>7. CaseInv'
    BY <1>1, <1>2, <1>8, <2>2, <2>5, RetSentCase
  <2>8. VerdictInv'
    BY <1>1, <1>2, <1>14, NoVerdict DEF VerdictInv
  <2>9. /\ k \notin Slots /\ Slots' = Slots \cup {k} /\ Letter(k)' = m /\ k # 0
        /\ \A n \in Slots : /\ Letter(n)' = Letter(n) /\ (IsAnswer(n)' <=> IsAnswer(n))
                            /\ \A j : IsRet(n, j)' <=> IsRet(n, j)
        /\ ~IsAnswer(k)' /\ \A j : IsRet(k, j)' <=> j = i
    BY <2>2, <2>5, RetSent
  <2>10. ASSUME NEW j, j # i PROVE NoRet(j)' <=> NoRet(j)
    BY <2>9, <2>10 DEF NoRet
  <2>11. ASSUME NEW j \in DOMAIN recs, j # i, RetOk(j) PROVE RetOk(j)'
    BY <1>1, <1>4, <2>9, <2>11, MoreMail
  <2>12. RetOk(i) => RetOk(i)'
    BY <1>1, <1>4, <2>2, <2>9, SaysMore
  <2>13. Quiet(i)'
    BY <1>4 DEF Quiet
  <2>14. RetInv'
    <3>1. ASSUME NEW j \in DOMAIN recs, recs[j].kind = "run", j # i PROVE RunRetOk(j)'
      <4>1. RunRetOk(j)
        BY <1>2, <3>1 DEF RetInv
      <4>2. recs[j].status = "ENDED" => Quiet(j)' /\ \A n \in Slots' : IsRet(n, j)' => n = 0 /\ pc = "reap"
        BY <1>4, <2>9, <3>1, <4>1 DEF RunRetOk, Quiet
      <4>3. QED
        BY <1>1, <2>11, <3>1, <4>1, <4>2 DEF RunRetOk
    <3>2. recs[i].kind = "run" => RunRetOk(i)'
      BY <1>1, <1>2, <1>3, <2>12 DEF RetInv, RunRetOk, Quiet
    <3>3. ASSUME NEW n \in Slots', Letter(n)'.kind = "ret"
          PROVE  Letter(n)'.from \in DOMAIN recs' /\ recs'[Letter(n)'.from].kind \in {"run", "class"}
      BY <1>1, <1>2, <1>3, <1>5, <2>2, <2>9, <3>3 DEF RetInv
    <3>4. QED
      BY <1>1, <3>1, <3>2, <3>3 DEF RetInv
  <2>15. NoError'
    <3> SUFFICES ASSUME ~Is("error") PROVE AskInv' /\ ClassInv' /\ EndInv'
      BY <1>1 DEF NoError, Is
    <3>1. AskInv /\ ClassInv /\ EndInv
      BY <1>2 DEF NoError
    <3>2. (Waits' <=> Waits) /\ (Is("tclass_exec")' <=> Is("tclass_exec")) /\ (Is("finished")' <=> Is("finished"))
      BY <1>1 DEF Waits, Is
    <3>3. Unasked' <=> Unasked
      BY <1>1, <2>9 DEF Unasked
    <3>4. AskInv'
      BY <1>1, <2>9, <3>1, <3>2, <3>3 DEF AskInv
    <3>5. ASSUME NEW j \in DOMAIN recs, recs[j].kind = "class", j # i PROVE ClassOk(j)'
      <4>1. ClassOk(j)
        BY <3>1, <3>5 DEF ClassInv
      <4>2. QED
        BY <1>1, <1>4, <2>10, <2>11, <3>2, <3>5, <4>1 DEF ClassOk
    <3>6. recs[i].kind = "class" => ClassOk(i)'
      BY <1>3, <2>12, <3>1, <3>2 DEF ClassInv, ClassOk
    <3>7. ClassInv'
      BY <1>1, <3>5, <3>6 DEF ClassInv
    <3>8. \A j \in DOMAIN recs : Culprit(j) => Culprit(j)'
      BY <1>1, <1>4, <2>10 DEF Culprit, Quiet
    <3>9. EndInv'
      BY <1>1, <3>1, <3>2, <3>3, <3>8 DEF EndInv
    <3>10. QED
      BY <3>4, <3>7, <3>9
  <2>16. QED
    BY <1>9, <1>10, <1>11, <1>12, <2>6, <2>7, <2>8, <2>14, <2>15 DEF IInv
<1>15. QED
  BY <1>13, <1>14

LEMMA OutcomeType ==
  ASSUME TypeInv, NEW i \in DOMAIN recs, NEW result \in Results
  PROVE  Outcome(i, result) \in [result : Results, expect : Results]
BY Domains DEF Outcome, Rec

LEMMA TestStepStep ==
  ASSUME IInv, NEW i \in DOMAIN procs, TestStep(i) \/ LibraryFails(i) \/ TestDies(i)
  PROVE  IInv'
<1>1. /\ TypeInv /\ LoopInv /\ VerdictInv /\ TestInv /\ procs[i] \in Proc /\ procs \in Seq(Proc)
      /\ DOMAIN procs = DOMAIN recs /\ Len(procs) = Len(recs)
  BY Types DEF IInv, TypeInv
<1>2. CASE TestEnds(i)
  <2>1. PICK result \in {"passed", "failed"} :
          /\ procs' = [procs EXCEPT ![i].state = IF recs[i].kind = "class" THEN "idle" ELSE "sent",
                                    ![i].outcomes = @ \cup {Outcome(i, result)}]
          /\ Reports(i, result)
    BY <1>2 DEF TestEnds
  <2>2. PICK state, p :
          /\ state = IF recs[i].kind = "class" THEN "idle" ELSE "sent"
          /\ p = [procs[i] EXCEPT !.state = state, !.outcomes = @ \cup {Outcome(i, result)}]
    OBVIOUS
  <2>3. /\ p \in Proc /\ p.outcomes = procs[i].outcomes \cup {Outcome(i, result)}
        /\ p.state = IF recs[i].kind = "class" THEN "idle" ELSE "sent"
    <3>1. i \in DOMAIN recs /\ result \in Results /\ state \in {"idle", "sent", "zombie"}
      BY <1>1, <2>2 DEF Results
    <3>2. Outcome(i, result) \in [result : Results, expect : Results]
      BY <1>1, <3>1, OutcomeType
    <3>3. QED
      BY <1>1, <2>2, <3>1, <3>2 DEF Proc
  <2>4. procs' = [procs EXCEPT ![i] = p]
    BY <1>1, <2>1, <2>2
  <2>5. procs[i].state = "running" /\ UNCHANGED <<main, recs, walks, alarm, world, verdict>> /\ result \in Results
    BY <1>2 DEF TestEnds, Stepping, Results
  <2>6. QED
    BY <2>1, <2>3, <2>4, <2>5, ReportStep
<1>3. CASE TestCrashes(i)
  <2>1. PICK result, state, p :
          /\ result = "crashed" /\ state = "zombie"
          /\ p = [procs[i] EXCEPT !.state = state, !.outcomes = @ \cup {Outcome(i, result)}]
    OBVIOUS
  <2>2. /\ p \in Proc /\ p.outcomes = procs[i].outcomes \cup {Outcome(i, result)} /\ p.state = "zombie"
        /\ result \in Results
    <3>1. i \in DOMAIN recs /\ result \in Results /\ state \in {"idle", "sent", "zombie"}
      BY <1>1, <2>1 DEF Results
    <3>2. Outcome(i, result) \in [result : Results, expect : Results]
      BY <1>1, <3>1, OutcomeType
    <3>3. QED
      BY <1>1, <2>1, <3>1, <3>2 DEF Proc
  <2>3. procs' = [procs EXCEPT ![i] = p] /\ Reports(i, result)
    BY <1>1, <1>3, <2>1 DEF TestCrashes
  <2>4. procs[i].state = "running" /\ UNCHANGED <<main, recs, walks, alarm, world, verdict>>
    BY <1>3 DEF TestCrashes, Stepping
  <2>5. QED
    BY <2>2, <2>3, <2>4, ReportStep
<1>4. CASE ProcessExits(i) \/ PauseEnds(i) \/ TestBegins(i) \/ LibraryFails(i) \/ TestDies(i)
  <2>1. PICK state :
          state = IF recs[i].kind = "run" \/ Is("tclass_exec") THEN "running" ELSE "idle"
    OBVIOUS
  <2>2. \E q : /\ procs' = [procs EXCEPT ![i] = q] /\ q \in Proc /\ q.outcomes = procs[i].outcomes
               /\ \/ q.state = procs[i].state
                  \/ procs[i].state \in {"forked", "stray", "running", "sent", "idle"} /\ q.state = "zombie"
                  \/ procs[i].state = "forked" /\ q.state \in {state, "stray"}
    <3>1. PICK a, b, c, d : /\ a = [procs[i] EXCEPT !.state = "zombie"]
                            /\ b = [procs[i] EXCEPT !.stopped = "no"]
                            /\ c = [procs[i] EXCEPT !.state = state, !.usr2 = FALSE]
                            /\ d = [procs[i] EXCEPT !.state = "stray", !.usr2 = FALSE]
      OBVIOUS
    <3>2. /\ a \in Proc /\ a.outcomes = procs[i].outcomes /\ a.state = "zombie"
          /\ b \in Proc /\ b.outcomes = procs[i].outcomes /\ b.state = procs[i].state
      BY <1>1, <3>1 DEF Proc
    <3>3. /\ c \in Proc /\ c.outcomes = procs[i].outcomes /\ c.state = state
          /\ d \in Proc /\ d.outcomes = procs[i].outcomes /\ d.state = "stray"
      BY <1>1, <2>1, <3>1 DEF Proc
    <3>4. \/ /\ procs' = [procs EXCEPT ![i] = a]
             /\ procs[i].state \in {"forked", "stray", "running", "sent", "idle"}
          \/ procs' = [procs EXCEPT ![i] = b]
          \/ procs' = [procs EXCEPT ![i] = c] /\ procs[i].state = "forked"
          \/ procs' = [procs EXCEPT ![i] = d] /\ procs[i].state = "forked"
      BY <1>1, <1>4, <2>1, <3>1 DEF ProcessExits, PauseEnds, TestBegins, LibraryFails, TestDies
    <3>5. QED
      BY <3>2, <3>3, <3>4
  <2>3. /\ procs' \in Seq(Proc) /\ Len(procs') = Len(recs) /\ \A j \in DOMAIN recs : Calm(j)
    <3>1. PICK q \in Proc : /\ procs' = [procs EXCEPT ![i] = q] /\ q.outcomes = procs[i].outcomes
                            /\ \/ q.state = procs[i].state
                               \/ /\ procs[i].state \in {"forked", "stray", "running", "sent", "idle"}
                                  /\ q.state = "zombie"
                               \/ procs[i].state = "forked" /\ q.state \in {state, "stray"}
      BY <2>2
    <3>2. /\ procs' \in Seq(Proc) /\ Len(procs') = Len(recs) /\ procs'[i] = q
          /\ \A j \in DOMAIN recs : j # i => procs'[j] = procs[j]
      BY <1>1, <3>1, SetOne
    <3>3. Calm(i)
      BY <2>1, <3>1, <3>2 DEF Calm, Awakes
    <3>4. \A j \in DOMAIN recs : j # i => Calm(j)
      BY <3>2 DEF Calm
    <3>5. QED
      BY <3>2, <3>3, <3>4
  <2>4. /\ UNCHANGED <<pc, begun, lines, msg, flags, complete, remotes>>
        /\ UNCHANGED <<recs, walks, alarm, queue, asked, abroad, cases, verdict>>
        /\ UNCHANGED <<world, remotes>>
    BY <1>4 DEF ProcessExits, PauseEnds, TestBegins, LibraryFails, TestDies, Stepping, main, world
  <2>5. TypeInv'
    BY <1>1, <2>3, <2>4 DEF TypeInv
  <2>6. LoopInv'
    BY <1>1, <2>4 DEF LoopInv, Is
  <2>7. VerdictInv'
    <3>1. NamesKept
      BY <1>1, <2>3, <2>4 DEF NamesKept, TypeInv
    <3>2. QED
      BY <1>1, <2>3, <2>4, <3>1, VerdictKept
  <2>8. MailKept
    BY <1>1, <2>4, MailIsKept
  <2>9. \A j : Awaited(j)' <=> Awaited(j)
    BY <2>4 DEF Awaited
  <2>10. pc' = "done" => \A j \in DOMAIN recs : recs[j].status \notin {"RUNNING", "PAUSED"}
    BY <1>1, <2>4 DEF TestInv
  <2>11. QED
    BY <2>3, <2>4, <2>5, <2>6, <2>7, <2>8, <2>9, <2>10, QuietStep
<1>5. QED
  BY <1>2, <1>3, <1>4 DEF TestStep

----------------------------------------------------------------------------
(* The engine and the slaves.                                              *)

LEMMA OtherSent ==
  ASSUME NEW k, NEW m, MailSent(k, m), m.kind # "ret"
  PROVE  /\ k \notin Slots /\ Slots' = Slots \cup {k} /\ Letter(k)' = m /\ k # 0
         /\ \A n \in Slots : /\ n < k /\ Letter(n)' = Letter(n) /\ (IsAnswer(n)' <=> IsAnswer(n))
                             /\ \A j : IsRet(n, j)' <=> IsRet(n, j)
                             /\ \A c : (IsReady(n, c)' <=> IsReady(n, c)) /\ (Grants(n, c)' <=> Grants(n, c))
         /\ \A j : ~IsRet(k, j)' /\ (NoRet(j)' <=> NoRet(j))
         /\ IsAnswer(k)' <=> m.kind \in {"extif", "event"}
         /\ \A c : /\ IsReady(k, c)' <=> m.kind = "ready" /\ m.case = c
                   /\ Grants(k, c)' <=> m.kind = "extif" /\ m.case = c /\ c # 0
<1>1. /\ k \notin Slots /\ Slots' = Slots \cup {k} /\ Letter(k)' = m /\ k # 0
      /\ \A n \in Slots : /\ n < k /\ Letter(n)' = Letter(n) /\ (IsAnswer(n)' <=> IsAnswer(n))
                          /\ \A j : IsRet(n, j)' <=> IsRet(n, j)
                          /\ \A c : (IsReady(n, c)' <=> IsReady(n, c)) /\ (Grants(n, c)' <=> Grants(n, c))
      /\ \A j : ~IsRet(k, j)'
  BY DEF MailSent, IsRet, IsAnswer, IsReady, Grants
<1>2. \A j : NoRet(j)' <=> NoRet(j)
  BY <1>1 DEF NoRet
<1>3. QED
  BY <1>1, <1>2 DEF IsAnswer, IsReady, Grants

(* What a message of the engine leaves as it was.                          *)
LEMMA OtherSentParts ==
  ASSUME IInv, NEW k, NEW m, MailSent(k, m), m.kind # "ret",
         UNCHANGED <<main, recs, walks, alarm, procs, verdict>>, cases' \in Nat, cases <= cases'
  PROVE  /\ KindInv' /\ LoopInv' /\ TestInv' /\ RetInv' /\ CancelInv'
         /\ ClassInv => ClassInv'
<1>1. /\ UNCHANGED <<pc, begun, lines, msg, flags, complete, remotes>>
      /\ UNCHANGED <<recs, walks, alarm, procs, verdict>>
  BY DEF main
<1>2. TypeInv /\ LoopInv /\ KindInv /\ TestInv /\ RetInv /\ CancelInv
  BY DEF IInv
<1>3. /\ k \notin Slots /\ Slots' = Slots \cup {k} /\ Letter(k)' = m
      /\ \A n \in Slots : Letter(n)' = Letter(n) /\ \A j : IsRet(n, j)' <=> IsRet(n, j)
      /\ \A j : ~IsRet(k, j)' /\ (NoRet(j)' <=> NoRet(j))
  BY OtherSent
<1>4. KindInv'
  <2>1. 1..cases \subseteq 1..cases'
    BY <1>2 DEF TypeInv
  <2>2. ASSUME NEW j \in DOMAIN recs PROVE KindOk(j)'
    BY <1>1, <1>2, <2>1 DEF KindInv, KindOk
  <2>3. QED
    BY <1>1, <1>2, <2>2 DEF KindInv
<1>5. LoopInv'
  BY <1>1, <1>2 DEF LoopInv, Is
<1>6. TestInv'
  BY <1>1, <1>2 DEF TestInv, TestOk, Awaited
<1>7. CancelInv'
  BY <1>1, <1>2 DEF CancelInv, Failed
<1>8. \A j : RetOk(j) => RetOk(j)'
  BY <1>1, <1>3, MoreMail
<1>9. RetInv'
  <2>1. ASSUME NEW j \in DOMAIN recs, recs[j].kind = "run" PROVE RunRetOk(j)'
    <3>1. RunRetOk(j)
      BY <1>2, <2>1 DEF RetInv
    <3>2. recs[j].status = "ENDED" => Quiet(j)' /\ \A n \in Slots' : IsRet(n, j)' => n = 0 /\ pc = "reap"
      BY <1>1, <1>3, <3>1 DEF RunRetOk, Quiet
    <3>3. QED
      BY <1>1, <1>3, <1>8, <3>1, <3>2 DEF RunRetOk
  <2>2. ASSUME NEW n \in Slots', Letter(n)'.kind = "ret"
        PROVE  Letter(n)'.from \in DOMAIN recs' /\ recs'[Letter(n)'.from].kind \in {"run", "class"}
    BY <1>1, <1>2, <1>3, <2>2 DEF RetInv
  <2>3. QED
    BY <1>1, <2>1, <2>2 DEF RetInv
<1>10. ASSUME ClassInv PROVE ClassInv'
  <2>1. ASSUME NEW j \in DOMAIN recs, recs[j].kind = "class" PROVE ClassOk(j)'
    BY <1>1, <1>3, <1>8, <1>10, <2>1 DEF ClassInv, ClassOk, Is
  <2>2. QED
    BY <1>1, <2>1 DEF ClassInv
<1>11. QED
  BY <1>4, <1>5, <1>6, <1>7, <1>9, <1>10

LEMMA AnswerStep == ASSUME IInv, Answer PROVE IInv'
<1> DEFINE granted(ok) == IF ok /\ Head(asked) = "remote" THEN cases + 1 ELSE 0
<1>k. PICK kind : kind = IF Head(asked) = "wait" THEN "event" ELSE "extif"
  OBVIOUS
<1>o. PICK ok \in BOOLEAN :
        /\ queue' = Append(queue, [kind |-> kind, ok |-> ok, case |-> granted(ok)])
        /\ IF granted(ok) # 0 THEN abroad' = abroad \cup {granted(ok)} /\ cases' = granted(ok)
           ELSE UNCHANGED <<abroad, cases>>
  BY <1>k DEF Answer
<1>c. PICK c : c = granted(ok)
  OBVIOUS
<1>1. /\ ok \in BOOLEAN
      /\ kind = IF Head(asked) = "wait" THEN "event" ELSE "extif"
      /\ c = IF ok /\ Head(asked) = "remote" THEN cases + 1 ELSE 0
      /\ queue' = Append(queue, [kind |-> kind, ok |-> ok, case |-> c])
      /\ IF c # 0 THEN abroad' = abroad \cup {c} /\ cases' = c ELSE UNCHANGED <<abroad, cases>>
  BY <1>k, <1>o, <1>c
<1>2. /\ asked # <<>> /\ asked' = Tail(asked)
      /\ UNCHANGED <<main, recs, walks, alarm, procs, verdict>>
      /\ UNCHANGED <<pc, begun, lines, msg, flags, complete, remotes>>
  BY DEF Answer, main
<1>3. TypeInv /\ KindInv /\ CaseInv /\ NoError /\ VerdictInv
  BY DEF IInv
<1>4. PICK m : m = [kind |-> kind, ok |-> ok, case |-> c]
  OBVIOUS
<1>5. c = 0 \/ (c = cases + 1 /\ ok /\ kind = "extif")
  BY <1>1
<1>6. /\ c \in Nat /\ kind \in {"extif", "event"} /\ cases \in Nat
      /\ m \in Msg /\ m.kind = kind /\ m.case = c /\ m.ok = ok
  BY <1>1, <1>3, <1>4, <1>5 DEF TypeInv, Msg, AnswerMsg
<1>7. queue' = Append(queue, m)
  BY <1>1, <1>4
<1>8. queue' \in Seq(Msg) /\ \E k \in Nat : MailSent(k, m)
  BY <1>2, <1>3, <1>6, <1>7, MailIsSent
<1>9. PICK k \in Nat : MailSent(k, m)
  BY <1>8
<1>10. /\ k \notin Slots /\ Slots' = Slots \cup {k} /\ Letter(k)' = m
       /\ \A n \in Slots : /\ n < k /\ Letter(n)' = Letter(n) /\ (IsAnswer(n)' <=> IsAnswer(n))
                           /\ \A d : (IsReady(n, d)' <=> IsReady(n, d)) /\ (Grants(n, d)' <=> Grants(n, d))
       /\ \A j : NoRet(j)' <=> NoRet(j)
       /\ IsAnswer(k)' /\ \A d : ~IsReady(k, d)' /\ (Grants(k, d)' => d = c /\ d # 0)
       /\ c # 0 => Grants(k, c)'
  BY <1>5, <1>6, <1>9, OtherSent
<1>11. /\ asked' \in Seq({"allocate", "wait", "remote"}) /\ Len(asked') = Len(asked) - 1 /\ Len(asked) \in Nat
  BY <1>2, <1>3 DEF TypeInv
<1>12. /\ cases' \in Nat /\ cases <= cases' /\ abroad' \subseteq 1..cases'
       /\ c # 0 => abroad' = abroad \cup {c} /\ cases' = cases + 1 /\ cases' = c
       /\ c = 0 => abroad' = abroad /\ cases' = cases
       /\ abroad \subseteq 1..cases
  <2>1. abroad \subseteq 1..cases
    BY <1>3 DEF TypeInv
  <2>2. CASE c = 0
    <3>1. abroad' = abroad /\ cases' = cases
      BY <1>1, <2>2
    <3>2. QED
      BY <1>6, <2>1, <2>2, <3>1
  <2>3. CASE c # 0
    <3>1. abroad' = abroad \cup {c} /\ cases' = c /\ c = cases + 1
      BY <1>1, <1>5, <2>3
    <3>2. 1..cases \subseteq 1..c /\ c \in 1..c /\ cases <= c
      BY <1>6, <3>1
    <3>3. QED
      BY <1>6, <2>1, <2>3, <3>1, <3>2
  <2>4. QED
    BY <2>2, <2>3
<1>13. TypeInv'
  BY <1>2, <1>3, <1>8, <1>11, <1>12 DEF TypeInv
<1>14. /\ KindInv' /\ LoopInv' /\ TestInv' /\ RetInv' /\ CancelInv'
       /\ ClassInv => ClassInv'
  BY <1>2, <1>6, <1>9, <1>12, OtherSentParts
<1>15. VerdictInv'
  BY <1>2, <1>3 DEF VerdictInv, Failed, Blamed, Met
<1>16. \A d : (Known(d)' <=> Known(d)) /\ (Readied(d)' <=> Readied(d))
  BY <1>2, <1>10 DEF Known, Readied
<1>17. \A d : Known(d) => d \in 1..cases
  BY <1>3 DEF Known, KindInv, KindOk
<1>18. c # 0 => ~Known(c) /\ c \notin 1..cases /\ c \in 1..cases'
  BY <1>5, <1>6, <1>12, <1>17
<1>19. \A n \in Slots : \A d : IsReady(n, d) \/ Grants(n, d) => d \in 1..cases
  BY <1>3, <1>6 DEF CaseInv, IsReady, Grants, IsAnswer
<1>20. CaseInv'
  <2>1. Out' = Out
    <3>1. ASSUME NEW d, Known(d) PROVE d \in 1..cases /\ d \in 1..cases' /\ (d \in abroad' <=> d \in abroad)
      BY <1>6, <1>12, <1>17, <1>18, <3>1
    <3>2. QED
      BY <1>16, <3>1 DEF Out
  <2>2. remotes' = Cardinality(Out')
    BY <1>2, <1>3, <2>1, Zenon DEF CaseInv
  <2>3. \A n \in Slots' : IsAnswer(n)' =>
          /\ Letter(n)'.case \in 0..cases'
          /\ Letter(n)'.case # 0 => Letter(n)'.ok /\ Letter(n)'.kind = "extif"
    BY <1>3, <1>5, <1>6, <1>10, <1>12, <1>18 DEF CaseInv
  <2>4. ASSUME NEW n \in Slots', Letter(n)'.kind = "ready"
        PROVE  Letter(n)'.case \in 1..cases' /\ Letter(n)'.case \notin abroad'
    <3>1. n \in Slots /\ Letter(n).kind = "ready"
      BY <1>6, <1>10, <2>4
    <3>2. Letter(n)'.case \in 1..cases /\ Letter(n)'.case \notin abroad
      BY <1>3, <1>10, <3>1 DEF CaseInv
    <3>3. QED
      BY <1>6, <1>12, <1>18, <3>2
  <2>5. \A d \in abroad' : Known(d)' \/ \E n \in Slots' : Grants(n, d)'
    BY <1>3, <1>10, <1>12, <1>16 DEF CaseInv
  <2>6. ASSUME NEW n \in Slots', NEW d \in 1..cases', IsReady(n, d)'
        PROVE  Known(d)' \/ \E l \in Slots' : l < n /\ Grants(l, d)'
    <3>1. n \in Slots /\ IsReady(n, d) /\ d \in 1..cases
      BY <1>10, <1>19, <2>6
    <3>2. QED
      BY <1>3, <1>10, <1>16, <3>1 DEF CaseInv
  <2>7. ASSUME NEW n \in Slots', NEW l \in Slots', NEW d \in 1..cases', IsReady(n, d)', IsReady(l, d)'
        PROVE  n = l
    BY <1>3, <1>10, <1>19, <2>7 DEF CaseInv
  <2>8. ASSUME NEW n \in Slots', NEW d \in 1..cases', Grants(n, d)'
        PROVE  ~Known(d)' /\ (d \in abroad' \/ Readied(d)')
    <3>1. CASE n = k
      BY <1>10, <1>12, <1>16, <1>18, <2>8, <3>1
    <3>2. CASE n \in Slots
      BY <1>3, <1>10, <1>12, <1>16, <1>19, <2>8, <3>2 DEF CaseInv
    <3>3. QED
      BY <1>10, <3>1, <3>2
  <2>9. ASSUME NEW n \in Slots', NEW l \in Slots', NEW d \in 1..cases', Grants(n, d)', Grants(l, d)'
        PROVE  n = l
    <3>1. CASE n \in Slots /\ l \in Slots
      BY <1>3, <1>10, <1>19, <2>9, <3>1 DEF CaseInv
    <3>2. CASE n = k \/ l = k
      BY <1>10, <1>18, <1>19, <2>9, <3>2
    <3>3. QED
      BY <1>10, <3>1, <3>2
  <2>10. QED
    BY <2>2, <2>3, <2>4, <2>5, <2>6, <2>7, <2>8, <2>9 DEF CaseInv
<1>21. NoError'
  <2> SUFFICES ASSUME ~Is("error") PROVE AskInv' /\ ClassInv' /\ EndInv'
    BY <1>2 DEF NoError, Is
  <2>1. AskInv /\ ClassInv /\ EndInv /\ ~Unasked
    BY <1>2, <1>3 DEF NoError, Unasked
  <2>2. Waits' /\ (Is("finished")' => Is("finished"))
    BY <1>2, <2>1 DEF AskInv, Waits, Is
  <2>3. asked' = <<>>
    BY <1>11, <2>1 DEF AskInv
  <2>4. \A n, l \in Slots' : IsAnswer(n)' /\ IsAnswer(l)' => n = l
    BY <1>2, <1>10, <2>1 DEF AskInv
  <2>5. Len(asked') <= 1
    BY <2>3
  <2>6. AskInv'
    BY <2>2, <2>3, <2>4, <2>5 DEF AskInv
  <2>7. EndInv'
    BY <1>2, <1>10, <2>1, <2>2 DEF EndInv, Culprit, Quiet
  <2>8. QED
    BY <1>14, <2>1, <2>6, <2>7
<1>22. QED
  BY <1>13, <1>14, <1>15, <1>20, <1>21 DEF IInv

LEMMA SlaveReadyStep == ASSUME IInv, SlaveReady PROVE IInv'
<1>1. PICK c \in abroad, result \in {"passed", "failed"} :
        /\ abroad' = abroad \ {c}
        /\ queue' = Append(queue, [kind |-> "ready", case |-> c, result |-> result])
  BY DEF SlaveReady
<1>2. /\ UNCHANGED <<main, recs, walks, alarm, procs, verdict>>
      /\ UNCHANGED <<pc, begun, lines, msg, flags, complete, remotes, asked, cases>>
  BY DEF SlaveReady, main
<1>3. TypeInv /\ KindInv /\ CaseInv /\ NoError /\ VerdictInv
  BY DEF IInv
<1>4. PICK m : m = [kind |-> "ready", case |-> c, result |-> result]
  OBVIOUS
<1>5. c \in 1..cases /\ c \in Nat /\ m \in Msg /\ m.kind = "ready" /\ m.case = c /\ cases \in Nat
  BY <1>1, <1>3, <1>4 DEF TypeInv, Msg, ReadyMsg
<1>6. queue' = Append(queue, m)
  BY <1>1, <1>4
<1>7. queue' \in Seq(Msg) /\ \E k \in Nat : MailSent(k, m)
  BY <1>2, <1>3, <1>5, <1>6, MailIsSent
<1>8. PICK k \in Nat : MailSent(k, m)
  BY <1>7
<1>9. /\ k \notin Slots /\ Slots' = Slots \cup {k} /\ Letter(k)' = m
      /\ \A n \in Slots : /\ n < k /\ Letter(n)' = Letter(n) /\ (IsAnswer(n)' <=> IsAnswer(n))
                          /\ \A d : (IsReady(n, d)' <=> IsReady(n, d)) /\ (Grants(n, d)' <=> Grants(n, d))
      /\ \A j : NoRet(j)' <=> NoRet(j)
      /\ ~IsAnswer(k)' /\ \A d : ~Grants(k, d)' /\ (IsReady(k, d)' <=> d = c)
  BY <1>5, <1>8, OtherSent
<1>10. TypeInv'
  BY <1>1, <1>2, <1>3, <1>7 DEF TypeInv
<1>11. /\ KindInv' /\ LoopInv' /\ TestInv' /\ RetInv' /\ CancelInv'
       /\ ClassInv => ClassInv'
  BY <1>2, <1>5, <1>8, OtherSentParts
<1>12. VerdictInv'
  BY <1>1, <1>2, <1>3 DEF VerdictInv, Failed, Blamed, Met
<1>13. \A d : (Known(d)' <=> Known(d)) /\ (Readied(d)' <=> Readied(d) \/ d = c)
  BY <1>2, <1>9 DEF Known, Readied
<1>14. \A n \in Slots : ~IsReady(n, c)
  BY <1>3 DEF CaseInv, IsReady
<1>15. CaseInv'
  <2>1. Out' = Out
    BY <1>1, <1>2, <1>13 DEF Out
  <2>2. remotes' = Cardinality(Out')
    BY <1>2, <1>3, <2>1, Zenon DEF CaseInv
  <2>3. \A n \in Slots' : IsAnswer(n)' =>
          /\ Letter(n)'.case \in 0..cases'
          /\ Letter(n)'.case # 0 => Letter(n)'.ok /\ Letter(n)'.kind = "extif"
    BY <1>2, <1>3, <1>9 DEF CaseInv
  <2>4. \A n \in Slots' : Letter(n)'.kind = "ready" => Letter(n)'.case \in 1..cases' /\ Letter(n)'.case \notin abroad'
    BY <1>1, <1>2, <1>3, <1>5, <1>9 DEF CaseInv
  <2>5. \A d \in abroad' : Known(d)' \/ \E n \in Slots' : Grants(n, d)'
    BY <1>1, <1>3, <1>9, <1>13 DEF CaseInv
  <2>6. ASSUME NEW n \in Slots', NEW d \in 1..cases', IsReady(n, d)'
        PROVE  Known(d)' \/ \E l \in Slots' : l < n /\ Grants(l, d)'
    <3>1. CASE n = k
      BY <1>1, <1>3, <1>9, <1>13, <2>6, <3>1 DEF CaseInv
    <3>2. CASE n \in Slots
      BY <1>2, <1>3, <1>9, <1>13, <2>6, <3>2 DEF CaseInv
    <3>3. QED
      BY <1>9, <3>1, <3>2
  <2>7. ASSUME NEW n \in Slots', NEW l \in Slots', NEW d \in 1..cases', IsReady(n, d)', IsReady(l, d)'
        PROVE  n = l
    BY <1>2, <1>3, <1>9, <1>14, <2>7 DEF CaseInv
  <2>8. ASSUME NEW n \in Slots', NEW d \in 1..cases', Grants(n, d)'
        PROVE  ~Known(d)' /\ (d \in abroad' \/ Readied(d)')
    BY <1>1, <1>2, <1>3, <1>9, <1>13, <2>8 DEF CaseInv
  <2>9. ASSUME NEW n \in Slots', NEW l \in Slots', NEW d \in 1..cases', Grants(n, d)', Grants(l, d)'
        PROVE  n = l
    BY <1>2, <1>3, <1>9, <2>9 DEF CaseInv
  <2>10. QED
    BY <2>2, <2>3, <2>4, <2>5, <2>6, <2>7, <2>8, <2>9 DEF CaseInv
<1>16. NoError'
  <2> SUFFICES ASSUME ~Is("error") PROVE AskInv' /\ ClassInv' /\ EndInv'
    BY <1>2 DEF NoError, Is
  <2>1. AskInv /\ ClassInv /\ EndInv
    BY <1>3 DEF NoError
  <2>2. (Waits' <=> Waits) /\ (Is("finished")' => Is("finished"))
    BY <1>2 DEF Waits, Is
  <2>3. Unasked' <=> Unasked
    BY <1>2, <1>9 DEF Unasked
  <2>4. AskInv'
    BY <1>2, <1>9, <2>1, <2>2, <2>3 DEF AskInv
  <2>5. EndInv'
    BY <1>2, <1>9, <2>1, <2>2, <2>3 DEF EndInv, Culprit, Quiet
  <2>6. QED
    BY <1>11, <2>1, <2>4, <2>5
<1>17. QED
  BY <1>10, <1>11, <1>12, <1>15, <1>16 DEF IInv

----------------------------------------------------------------------------
LEMMA InitStep == ASSUME Init PROVE IInv
<1>1. /\ pc = "top" /\ begun = FALSE /\ lines = 0 /\ msg = None /\ flags = {} /\ complete = None
      /\ remotes = 0 /\ recs = <<>> /\ procs = <<>> /\ queue = <<>> /\ asked = <<>> /\ abroad = {} /\ cases = 0
      /\ walks = [w \in {"main", "handler"} |-> [at |-> 1, wait |-> 0]]
      /\ alarm = "off" /\ verdict = None
  BY DEF Init
<1>2. Slots = {}
  BY <1>1 DEF Slots
<1>3. TypeInv
  <2>1. PICK e : e = [at |-> 1, wait |-> 0]
    OBVIOUS
  <2>2. e \in Walk /\ e.wait = 0 /\ walks = [w \in {"main", "handler"} |-> e]
    BY <1>1, <2>1 DEF Walk
  <2>3. walks \in [{"main", "handler"} -> Walk] /\ \A w \in {"main", "handler"} : walks[w].wait = 0
    BY <2>2
  <2>4. /\ recs \in Seq(Rec) /\ procs \in Seq(Proc) /\ queue \in Seq(Msg) /\ Len(recs) = Len(procs)
        /\ asked \in Seq({"allocate", "wait", "remote"}) /\ abroad \subseteq 1..cases
    BY <1>1
  <2>5. lines \in 0..MaxLines /\ remotes \in Nat /\ cases \in Nat
    BY <1>1, ScripterAssumption
  <2>6. /\ pc \in {"top", "read", "handle", "reap", "cancel", "script", "done"} /\ pc \notin {"handle", "reap"}
        /\ begun \in BOOLEAN /\ flags \subseteq Flags /\ complete \in Ids \cup {None}
        /\ alarm \in {"off", "armed", "handler"} /\ verdict \in {None, "passed", "failed", "crashed", "nc"}
    BY <1>1
  <2>7. QED
    BY <2>3, <2>4, <2>5, <2>6, Zenon DEF TypeInv
<1>4. DOMAIN recs = {}
  BY <1>1
<1>5. KindInv /\ LoopInv /\ TestInv /\ RetInv /\ CancelInv
  BY <1>1, <1>2, <1>4 DEF KindInv, LoopInv, TestInv, RetInv, CancelInv
<1>6. CaseInv
  <2>1. Out = {}
    BY <1>1, <1>4 DEF Out, Known
  <2>2. remotes = Cardinality(Out)
    BY <1>1, <2>1, FS_EmptySet
  <2>3. QED
    BY <1>1, <1>2, <2>2 DEF CaseInv
<1>7. VerdictInv
  BY <1>1, ScripterAssumption DEF VerdictInv, Results
<1>8. NoError
  <2>1. Len(asked) = 0 /\ ~Is("finished") /\ Unasked
    BY <1>1, <1>2 DEF Is, Unasked
  <2>2. QED
    BY <1>1, <1>2, <1>4, <2>1 DEF NoError, AskInv, ClassInv, EndInv
<1>9. QED
  BY <1>3, <1>5, <1>6, <1>7, <1>8 DEF IInv

LEMMA NextStep == ASSUME IInv, [Next]_vars PROVE IInv'
<1>1. CASE MainStep
  <2>1. CASE Loop \/ Read \/ Finish
    BY <2>1, LoopStep, ReadStep, FinishStep
  <2>2. CASE HandleRet \/ HandleRetEnds \/ CancelStep \/ HandleCallRet \/ HandleAnswer \/ HandleReady
    BY <2>2, HandleRetStep, HandleRetEndsStep, CancelStepStep, HandleCallRetStep, HandleAnswerStep,
       HandleReadyStep
  <2>3. CASE Polls \/ BlockingTimeout \/ StartPiece \/ EndPiece \/ Command
    BY <2>3, PollsStep, PiecesStep, CommandStep
  <2>4. QED
    BY <1>1, <2>1, <2>2, <2>3 DEF MainStep
<1>2. CASE AlarmRings \/ HandlerStep \/ Answer \/ SlaveReady
  BY <1>2, AlarmRingsStep, HandlerStepStep, AnswerStep, SlaveReadyStep
<1>3. CASE \E i \in DOMAIN procs : TestStep(i) \/ LibraryFails(i) \/ TestDies(i)
  BY <1>3, TestStepStep
<1>4. CASE UNCHANGED vars
  <2>1. /\ UNCHANGED <<pc, begun, lines, msg, flags, complete, remotes>>
        /\ UNCHANGED <<recs, walks, alarm, procs, queue, asked, abroad, cases, verdict, world>>
    BY <1>4 DEF vars, main, world
  <2>2. TypeInv /\ LoopInv /\ VerdictInv /\ TestInv
    BY DEF IInv
  <2>3. TypeInv'
    BY <2>1, <2>2 DEF TypeInv
  <2>4. LoopInv' /\ VerdictInv'
    BY <2>1, <2>2 DEF LoopInv, Is, VerdictInv, Met, Failed, Blamed
  <2>5. MailKept
    BY <2>1, <2>2, MailIsKept
  <2>6. \A j : Awaited(j)' <=> Awaited(j)
    BY <2>1 DEF Awaited
  <2>7. pc' = "done" => \A j \in DOMAIN recs : recs[j].status \notin {"RUNNING", "PAUSED"}
    BY <2>1, <2>2 DEF TestInv
  <2>8. procs' \in Seq(Proc) /\ Len(procs') = Len(recs) /\ \A j : Calm(j)
    BY <2>1, <2>2, SameProcs DEF TypeInv
  <2>9. QED
    BY <2>1, <2>3, <2>4, <2>5, <2>6, <2>7, <2>8, QuietStep
<1>5. QED
  BY <1>1, <1>2, <1>3, <1>4 DEF Next

(* IInv is an invariant: what the theorems below rest on.                  *)
THEOREM Invariance == Spec => []IInv
<1>1. Init => IInv
  BY InitStep
<1>2. IInv /\ [Next]_vars => IInv'
  BY NextStep
<1>3. QED
  BY <1>1, <1>2, PTL DEF Spec

(* The state of the scripter has its types; every record has one process   *)
(* entry, and nobody waits for a record that is not there.                 *)
THEOREM TypeCorrect == Spec => []TypeOK
<1>1. IInv => TypeOK
  <2> SUFFICES ASSUME IInv PROVE TypeOK
    OBVIOUS
  <2>1. TypeInv /\ \A i \in DOMAIN recs : recs[i] \in Rec /\ procs[i] \in Proc
    BY Types
  <2>2. \A i \in DOMAIN recs :
          /\ recs[i].kind \in {"run", "class", "remote"} /\ recs[i].results \subseteq Results
          /\ recs[i].status \in {"NONE", "RUNNING", "PAUSED", "ENDED", "ABORTED", "CANCELED", "TIMEOUT"}
          /\ procs[i].state \in {"none", "forked", "stray", "idle", "running", "sent", "zombie", "reaped"}
          /\ procs[i].stopped \in {"no", "timed", "stopped"}
    BY <2>1 DEF Rec, Proc, Status
  <2>3. \A w \in DOMAIN walks : walks[w].wait = 0 \/ walks[w].wait \in DOMAIN recs
    BY <2>1 DEF TypeInv
  <2>4. QED
    BY <2>1, <2>2, <2>3 DEF TypeInv, TypeOK
<1>2. QED
  BY <1>1, Invariance, PTL

(* When tm_run_test_case returns, no process of a test case is alive, and  *)
(* after a verdict of passed or failed no case is left on a slave.         *)
THEOREM NoTestIsLeft == Spec => []NoTestLeft
<1>1. IInv => NoTestLeft
  <2> SUFFICES ASSUME IInv, pc = "done"
               PROVE  /\ \A i \in DOMAIN recs : recs[i].kind = "run" => procs[i].state \in {"zombie", "reaped"}
                      /\ verdict \in {"passed", "failed"} => abroad = {}
    BY DEF NoTestLeft
  <2>1. LoopInv /\ TestInv /\ VerdictInv
    BY DEF IInv
  <2>2. \A i \in DOMAIN recs : ~Awaited(i)
    BY <2>1, NoWalk DEF LoopInv
  <2>3. QED
    BY <2>1, <2>2 DEF TestInv, TestOk, VerdictInv
<1>2. QED
  BY <1>1, Invariance, PTL

(* A scripted test case passes only if no test function it started, but    *)
(* for those it cancelled, gave a result that was neither passed nor the   *)
(* expected one (scripter_final_verdict, uengine_handle_ret); it is not    *)
(* completed only because one of them failed, and fails only for a result  *)
(* like that, of a test function or of a slave, for a time-out, or for a   *)
(* class that is left.                                                     *)
THEOREM VerdictIsTrue == Spec => []TrueVerdict
<1>1. IInv => TrueVerdict
  BY DEF IInv, VerdictInv, TrueVerdict, Failed, Blamed
<1>2. QED
  BY <1>1, Invariance, PTL

(* complete is over only when every test case with its testid has ended,   *)
(* or the script is in error.                                              *)
LEMMA CompleteKept ==
  ASSUME IInv, [Next]_vars, complete # None, complete' = None, ~Is("error")
  PROVE  \A i \in WithId(complete) : recs'[i].status = "ENDED"
<1>1. ~ExecuteScript
  BY DEF ExecuteScript, Is
<1>2. \A started : ~Interprets(started)
  BY <1>1 DEF Interprets
<1>3. ~StartPiece /\ ~EndPiece
  BY <1>2 DEF StartPiece, EndPiece
<1>4. \A command : ~Does(command)
  BY <1>2 DEF Does
<1>5. ~Command
  BY <1>4 DEF Command, Run, Complete, Pause, Resume, Cancel, OnTest, CancelIfError, BlockTimeout, Timeout,
              Create, Call, Delete, Ask
<1>6. complete' # complete
  OBVIOUS
<1>7. HandleRet
  <2>1. /\ ~Loop /\ ~Read /\ ~Finish /\ ~Polls /\ ~BlockingTimeout
        /\ ~HandleRetEnds /\ ~CancelStep /\ ~HandleCallRet /\ ~HandleAnswer /\ ~HandleReady
    BY <1>6 DEF Loop, Read, Finish, Polls, BlockingTimeout, HandleRetEnds, CancelStep, HandleCallRet,
                HandleAnswer, HandleReady
  <2>2. main' # main
    BY <1>6 DEF main
  <2>3. ~AlarmRings /\ ~HandlerStep /\ ~Answer /\ ~SlaveReady /\ \A i : ~TestStep(i) /\ ~LibraryFails(i) /\ ~TestDies(i)
    BY <2>2 DEF AlarmRings, HandlerStep, Answer, SlaveReady, TestStep, TestBegins, TestEnds, TestCrashes,
                ProcessExits, PauseEnds, LibraryFails, TestDies, Stepping
  <2>4. ~UNCHANGED vars
    BY <2>2 DEF vars
  <2>5. QED
    BY <1>3, <1>5, <2>1, <2>3, <2>4 DEF Next, MainStep
<1>8. PICK i, ended : i = msg.from /\ ended = "ENDED"
  OBVIOUS
<1>9. /\ recs' = [recs EXCEPT ![i].status = ended] /\ StillOpen(complete, i) = {} /\ pc = "handle"
      /\ msg.kind = "ret"
  BY <1>6, <1>7, <1>8 DEF HandleRet, At
<1>10. TypeInv /\ RetInv
  BY DEF IInv
<1>11. 0 \in Slots /\ Letter(0) = msg
  BY <1>9, <1>10 DEF Slots, Letter, TypeInv
<1>12. i \in DOMAIN recs
  BY <1>8, <1>9, <1>10, <1>11 DEF RetInv
<1>13. recs'[i].status = ended /\ \A j \in DOMAIN recs : j # i => recs'[j] = recs[j]
  BY <1>8, <1>9, <1>10, <1>12, StatusSet DEF Status
<1>14. \A j \in WithId(complete) : j \in DOMAIN recs /\ (recs[j].status = "ENDED" \/ j = i)
  BY <1>9 DEF StillOpen, WithId
<1>15. QED
  BY <1>8, <1>13, <1>14

THEOREM CompleteIsOver == Spec => CompleteWaits
<1>1. IInv /\ [Next]_vars =>
        [complete # None /\ complete' = None =>
           Is("error") \/ \A i \in WithId(complete) : recs'[i].status = "ENDED"]_vars
  BY CompleteKept
<1>2. QED
  BY <1>1, Invariance, PTL DEF Spec, CompleteWaits
=============================================================================
