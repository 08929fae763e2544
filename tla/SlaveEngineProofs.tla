-------------------------- MODULE SlaveEngineProofs -------------------------
(***************************************************************************)
(* Proofs about SlaveEngine for any cases and any number of runs: its type *)
(* correctness however the threads interleave; and that it implements the  *)
(* safety part of SlaveSession, as long as a case goes on until the other  *)
(* threads have seen it start and no command comes while one is being      *)
(* started.                                                                *)
(***************************************************************************)
EXTENDS SlaveEngine, FunctionTheorems, FiniteSetTheorems, SequenceTheorems, TLAPS

----------------------------------------------------------------------------
(* Where the members of S are in a sequence.                               *)
Hits(s, S) == {k \in DOMAIN s : s[k] \in S}

Removed(s, k) == SubSeq(s, 1, k - 1) \o SubSeq(s, k + 1, Len(s))

(* What an operation on a queue does to the number of messages of a kind.   *)
LEMMA HitsFinite ==
  ASSUME NEW T, NEW s \in Seq(T), NEW S
  PROVE  IsFiniteSet(Hits(s, S)) /\ Cardinality(Hits(s, S)) \in Nat
<1>1. IsFiniteSet(1..Len(s)) /\ Hits(s, S) \in SUBSET (1..Len(s))
  BY FS_Interval DEF Hits
<1>2. QED
  BY <1>1, FS_Subset, FS_CardinalityType

LEMMA HitsEmpty == ASSUME NEW S PROVE Hits(<<>>, S) = {} /\ Cardinality(Hits(<<>>, S)) = 0
BY FS_EmptySet DEF Hits

LEMMA HitsAppend ==
  ASSUME NEW T, NEW s \in Seq(T), NEW e \in T, NEW S
  PROVE  Cardinality(Hits(Append(s, e), S)) = Cardinality(Hits(s, S)) + (IF e \in S THEN 1 ELSE 0)
<1>1. Hits(Append(s, e), S) = IF e \in S THEN Hits(s, S) \cup {Len(s) + 1} ELSE Hits(s, S)
  BY AppendProperties DEF Hits
<1>2. Len(s) + 1 \notin Hits(s, S)
  BY DEF Hits
<1>3. IsFiniteSet(Hits(s, S)) /\ Cardinality(Hits(s, S)) \in Nat
  BY HitsFinite
<1>4. Cardinality(Hits(s, S) \cup {Len(s) + 1}) = Cardinality(Hits(s, S)) + 1
  BY <1>2, <1>3, FS_AddElement
<1>5. QED
  BY <1>1, <1>3, <1>4

LEMMA RemovedProperties ==
  ASSUME NEW T, NEW s \in Seq(T), NEW k \in DOMAIN s
  PROVE  /\ Removed(s, k) \in Seq(T)
         /\ Len(Removed(s, k)) = Len(s) - 1
         /\ \A i \in 1..(Len(s) - 1) : Removed(s, k)[i] = IF i < k THEN s[i] ELSE s[i + 1]
<1>1. k \in 1..Len(s) /\ Len(s) \in Nat
  OBVIOUS
<1>2. /\ SubSeq(s, 1, k - 1) \in Seq(T) /\ Len(SubSeq(s, 1, k - 1)) = k - 1
      /\ \A i \in 1..(k - 1) : SubSeq(s, 1, k - 1)[i] = s[i]
  BY <1>1
<1>3. /\ SubSeq(s, k + 1, Len(s)) \in Seq(T) /\ Len(SubSeq(s, k + 1, Len(s))) = Len(s) - k
      /\ \A i \in 1..(Len(s) - k) : SubSeq(s, k + 1, Len(s))[i] = s[i + k]
  BY <1>1
<1>4. /\ Removed(s, k) \in Seq(T)
      /\ Len(Removed(s, k)) = (k - 1) + (Len(s) - k)
      /\ \A i \in 1..((k - 1) + (Len(s) - k)) :
           Removed(s, k)[i] = IF i <= k - 1 THEN SubSeq(s, 1, k - 1)[i]
                              ELSE SubSeq(s, k + 1, Len(s))[i - (k - 1)]
  <2> DEFINE a == SubSeq(s, 1, k - 1)
             b == SubSeq(s, k + 1, Len(s))
  <2>1. a \in Seq(T) /\ Len(a) = k - 1 /\ b \in Seq(T) /\ Len(b) = Len(s) - k
    BY <1>2, <1>3
  <2>2. Removed(s, k) = a \o b
    BY DEF Removed
  <2> HIDE DEF a, b
  <2>3. /\ a \o b \in Seq(T)
        /\ Len(a \o b) = Len(a) + Len(b)
        /\ \A i \in 1..(Len(a) + Len(b)) : (a \o b)[i] = IF i <= Len(a) THEN a[i] ELSE b[i - Len(a)]
    BY <2>1, ConcatProperties
  <2>4. QED
    BY <2>1, <2>2, <2>3 DEF a, b
<1>5. (k - 1) + (Len(s) - k) = Len(s) - 1
  BY <1>1
<1>6. ASSUME NEW i \in 1..(Len(s) - 1)
      PROVE  Removed(s, k)[i] = IF i < k THEN s[i] ELSE s[i + 1]
  <2>1. CASE i < k
    BY SMTT(30), <1>1, <1>2, <1>4, <1>5, <2>1
  <2>2. CASE ~(i < k)
    <3>1. i - (k - 1) \in 1..(Len(s) - k) /\ i - (k - 1) + k = i + 1 /\ ~(i <= k - 1)
      BY <1>1, <2>2
    <3>2. Removed(s, k)[i] = SubSeq(s, k + 1, Len(s))[i - (k - 1)]
      BY <1>4, <1>5, <3>1
    <3>3. QED
      BY <1>3, <2>2, <3>1, <3>2
  <2>3. QED
    BY <2>1, <2>2
<1>7. QED
  BY <1>4, <1>5, <1>6

LEMMA HitsRemoved ==
  ASSUME NEW T, NEW s \in Seq(T), NEW k \in DOMAIN s, NEW S
  PROVE  Cardinality(Hits(s, S)) = Cardinality(Hits(Removed(s, k), S)) + (IF s[k] \in S THEN 1 ELSE 0)
<1> DEFINE t == Removed(s, k)
           A == Hits(t, S)
           B == Hits(s, S) \ {k}
           f == [i \in A |-> IF i < k THEN i ELSE i + 1]
<1>0. k \in 1..Len(s) /\ Len(s) \in Nat
  OBVIOUS
<1>b. /\ DOMAIN t = 1..(Len(s) - 1)
      /\ \A i \in 1..(Len(s) - 1) : t[i] = IF i < k THEN s[i] ELSE s[i + 1]
  <2>1. /\ t \in Seq(T)
        /\ Len(t) = Len(s) - 1
        /\ \A i \in 1..(Len(s) - 1) : t[i] = IF i < k THEN s[i] ELSE s[i + 1]
    BY RemovedProperties
  <2> HIDE DEF t
  <2>2. QED
    BY <2>1, <1>0
<1> HIDE DEF t
<1>1. \A i \in A : f[i] \in B
  BY <1>0, <1>b DEF Hits
<1>2. \A j \in B : \E i \in A : f[i] = j
  <2> TAKE j \in B
  <2> DEFINE i == IF j < k THEN j ELSE j - 1
  <2>1. j \in 1..Len(s) /\ j # k /\ s[j] \in S
    BY DEF Hits
  <2>2. i \in 1..(Len(s) - 1) /\ t[i] = s[j]
    BY <1>0, <1>b, <2>1
  <2>3. i \in A
    BY <1>b, <2>1, <2>2 DEF Hits
  <2>4. f[i] = j
    BY <2>1, <2>3, <1>0
  <2>5. QED
    BY <2>3, <2>4
<1>3. \A i, j \in A : f[i] = f[j] => i = j
  BY <1>0, <1>b DEF Hits
<1>4. f \in Bijection(A, B)
  <2> HIDE DEF A, B
  <2>1. f \in [A -> B]
    BY <1>1
  <2> HIDE DEF f
  <2>2. QED
    BY <2>1, <1>2, <1>3, Fun_IsBij
<1>5. IsFiniteSet(A) /\ Cardinality(A) = Cardinality(B)
  <2>1. t \in Seq(T)
    BY RemovedProperties DEF t
  <2>2. IsFiniteSet(A)
    BY <2>1, HitsFinite
  <2> HIDE DEF A, B
  <2>3. QED
    BY <1>4, <2>2, FS_Bijection DEF ExistsBijection
<1>6. Cardinality(B) = IF k \in Hits(s, S) THEN Cardinality(Hits(s, S)) - 1 ELSE Cardinality(Hits(s, S))
  BY HitsFinite, FS_RemoveElement
<1>7. k \in Hits(s, S) <=> s[k] \in S
  BY DEF Hits
<1>8. Cardinality(Hits(s, S)) \in Nat
  BY HitsFinite
<1>9. QED
  BY <1>5, <1>6, <1>7, <1>8 DEF t

(* Which message is where after one is appended.                           *)
LEMMA AppendIndexed ==
  ASSUME NEW T, NEW s \in Seq(T), NEW e \in T
  PROVE  /\ Append(s, e) \in Seq(T) /\ Append(s, e) # <<>>
         /\ DOMAIN Append(s, e) = DOMAIN s \cup {Len(s) + 1}
         /\ Len(s) + 1 \notin DOMAIN s
         /\ \A k \in DOMAIN s : k \in Nat /\ k < Len(s) + 1 /\ Append(s, e)[k] = s[k]
         /\ Append(s, e)[Len(s) + 1] = e
BY AppendProperties

----------------------------------------------------------------------------
Started == Told("started")
Done == Told("ready")
Selected == Len(selected_cases)

----------------------------------------------------------------------------
(* What is said is counted.                                                *)

Msg == [type : {"started", "ready"}, case : 1..MaxRuns]
Of(type) == {m \in Msg : m.type = type}

LEMMA MemberOfSeq == ASSUME NEW T, NEW s \in Seq(T), NEW k \in DOMAIN s PROVE s[k] \in T
OBVIOUS

LEMMA ToldIsHits ==
  ASSUME NEW s \in Seq(Msg), NEW type
  PROVE  {k \in DOMAIN s : s[k].type = type} = Hits(s, Of(type))
<1>1. \A k \in DOMAIN s : s[k] \in Msg
  OBVIOUS
<1>2. QED
  BY <1>1 DEF Hits, Of

LEMMA CountsAreNumbers == TypeOK => Started \in Nat /\ Done \in Nat
<1> SUFFICES ASSUME TypeOK PROVE Started \in Nat /\ Done \in Nat
  OBVIOUS
<1>1. said \in Seq(Msg)
  BY DEF TypeOK, Msg
<1>2. \A t : {k \in DOMAIN said : said[k].type = t} = Hits(said, Of(t))
  BY <1>1, ToldIsHits
<1>3. \A S : Cardinality(Hits(said, S)) \in Nat
  BY <1>1, HitsFinite
<1>4. QED
  BY <1>2, <1>3 DEF Started, Done, Told

LEMMA SayCounts ==
  ASSUME TypeOK, NEW type \in {"started", "ready"}, NEW n \in 1..MaxRuns, Say(type, n)
  PROVE  /\ said' \in Seq(Msg)
         /\ Started' = Started + (IF type = "started" THEN 1 ELSE 0)
         /\ Done' = Done + (IF type = "ready" THEN 1 ELSE 0)
         /\ DOMAIN said' = DOMAIN said \cup {Len(said) + 1}
         /\ \A k \in DOMAIN said : said'[k] = said[k]
         /\ said'[Len(said) + 1] = [type |-> type, case |-> n]
<1> DEFINE m == [type |-> type, case |-> n]
<1>1. said \in Seq(Msg) /\ m \in Msg /\ said' = Append(said, m)
  BY DEF TypeOK, Msg, Say
<1>2. m \in Of("started") <=> type = "started"
  BY <1>1 DEF Of
<1>3. m \in Of("ready") <=> type = "ready"
  BY <1>1 DEF Of
<1> HIDE DEF m
<1>4. /\ said' \in Seq(Msg) /\ DOMAIN said' = DOMAIN said \cup {Len(said) + 1}
      /\ \A k \in DOMAIN said : said'[k] = said[k]
      /\ said'[Len(said) + 1] = m
  BY <1>1, AppendIndexed
<1>5. \A t : {k \in DOMAIN said : said[k].type = t} = Hits(said, Of(t))
  BY <1>1, ToldIsHits
<1>6. \A t : {k \in DOMAIN said' : said'[k].type = t} = Hits(said', Of(t))
  BY <1>4, ToldIsHits
<1>7. Started' = Cardinality(Hits(said', Of("started")))
  BY <1>6 DEF Started, Told
<1>8. Done' = Cardinality(Hits(said', Of("ready")))
  BY <1>6 DEF Done, Told
<1>9. Started = Cardinality(Hits(said, Of("started"))) /\ Done = Cardinality(Hits(said, Of("ready")))
  BY <1>5 DEF Started, Done, Told
<1>10. Cardinality(Hits(Append(said, m), Of("started")))
         = Cardinality(Hits(said, Of("started"))) + (IF m \in Of("started") THEN 1 ELSE 0)
  BY <1>1, HitsAppend
<1>11. Cardinality(Hits(Append(said, m), Of("ready")))
         = Cardinality(Hits(said, Of("ready"))) + (IF m \in Of("ready") THEN 1 ELSE 0)
  BY <1>1, HitsAppend
<1>12. Started' = Started + (IF type = "started" THEN 1 ELSE 0)
  BY <1>1, <1>2, <1>7, <1>9, <1>10
<1>13. Done' = Done + (IF type = "ready" THEN 1 ELSE 0)
  BY <1>1, <1>3, <1>8, <1>9, <1>11
<1>14. QED
  BY <1>4, <1>12, <1>13 DEF m

LEMMA NothingSaid == said' = said => Started' = Started /\ Done' = Done
BY DEF Started, Done, Told

----------------------------------------------------------------------------
(* Without any assumption: every command is executed once.  The run the    *)
(* run thread has in hand is in the queue and not started; the others that *)
(* are not started have not been executed.                                 *)

Waiting == {p \in Param : p.id = 0}
Unstarted == Cardinality(Hits(run_queue, Waiting))
InHand == {"find", "add", "exec", "poll"}

QueueInv ==
  /\ \A k \in DOMAIN run_queue : run_queue[k].cmd <= taken
  /\ \A j, k \in DOMAIN run_queue : run_queue[j].cmd = run_queue[k].cmd => j = k
PlaceInv ==
  /\ thread \notin {"none", "born"} => thread_running
  /\ thread \in InHand => \E k \in DOMAIN run_queue : run_queue[k].cmd = entry /\ run_queue[k].id = 0
OnceInv ==
  /\ Selected + Unstarted <= taken + (IF thread = "poll" THEN 1 ELSE 0)
  /\ \A k \in DOMAIN test_runs : test_runs[k].run <= Selected

TInv == TypeOK /\ QueueInv /\ PlaceInv /\ OnceInv

LEMMA Numbers ==
  ASSUME TypeOK
  PROVE  /\ taken \in Nat /\ taken <= MaxRuns /\ MaxRuns \in Nat /\ MaxRuns # 0
         /\ Selected \in Nat /\ Unstarted \in Nat
         /\ run_queue \in Seq(Param) /\ selected_cases \in Seq(Case)
         /\ test_runs \in Seq([run : 1..MaxRuns, running : BOOLEAN])
<1>1. /\ run_queue \in Seq(Param) /\ selected_cases \in Seq(Case) /\ taken \in 0..MaxRuns
      /\ test_runs \in Seq([run : 1..MaxRuns, running : BOOLEAN])
  BY DEF TypeOK
<1>2. Unstarted \in Nat
  BY <1>1, HitsFinite DEF Unstarted
<1>3. QED
  BY <1>1, <1>2, SlaveEngineAssumption DEF Selected

LEMMA InHandIsWaiting ==
  ASSUME TInv, thread \in InHand
  PROVE  \E k \in DOMAIN run_queue :
           /\ run_queue[k] \in Waiting /\ run_queue[k].cmd = entry /\ k \in Hits(run_queue, Waiting)
           /\ \A j \in DOMAIN run_queue : run_queue[j].cmd = entry => j = k
           /\ CaseOf(entry) = run_queue[k].case /\ CaseOf(entry) \in Case
           /\ Unstarted >= 1
<1>1. PICK k \in DOMAIN run_queue : run_queue[k].cmd = entry /\ run_queue[k].id = 0
  BY DEF TInv, PlaceInv
<1>2. run_queue \in Seq(Param) /\ Unstarted \in Nat
  BY Numbers DEF TInv
<1>3. run_queue[k] \in Param /\ run_queue[k] \in Waiting
  BY <1>1, <1>2, MemberOfSeq DEF Waiting
<1>4. \A j \in DOMAIN run_queue : run_queue[j].cmd = entry => j = k
  BY <1>1 DEF TInv, QueueInv
<1>5. CaseOf(entry) = run_queue[k].case
  BY <1>1, <1>4 DEF CaseOf
<1>6. run_queue[k].case \in Case
  BY <1>3 DEF Param
<1>7. k \in Hits(run_queue, Waiting)
  BY <1>3 DEF Hits
<1>8. Unstarted # 0
  <2>1. IsFiniteSet(Hits(run_queue, Waiting))
    BY <1>2, HitsFinite
  <2>2. QED
    BY <1>7, <2>1, FS_EmptySet DEF Unstarted
<1>9. Unstarted >= 1
  BY <1>2, <1>8
<1>10. QED
  BY <1>1, <1>3, <1>4, <1>5, <1>6, <1>7, <1>9

(* No more cases are selected than commands have come.                     *)
LEMMA SelectedBound ==
  ASSUME TInv
  PROVE  Selected <= taken /\ Selected <= MaxRuns
<1>1. taken \in Nat /\ taken <= MaxRuns /\ MaxRuns \in Nat /\ Selected \in Nat /\ Unstarted \in Nat
  BY Numbers DEF TInv
<1>2. CASE thread = "poll"
  <2>1. Unstarted >= 1
    BY <1>2, InHandIsWaiting DEF InHand
  <2>2. Selected + Unstarted <= taken + 1
    BY <1>2 DEF TInv, OnceInv
  <2>3. QED
    BY <1>1, <2>1, <2>2
<1>3. CASE thread # "poll"
  <2>1. Selected + Unstarted <= taken + 0
    BY <1>3 DEF TInv, OnceInv
  <2>2. QED
    BY <1>1, <2>1
<1>4. QED
  BY <1>2, <1>3

(* The steps that leave the queue and the lists alone.                     *)
LEMMA SameLists ==
  ASSUME TInv, TypeOK', PlaceInv', thread' = "poll" <=> thread = "poll",
         taken' = taken, run_queue' = run_queue, selected_cases' = selected_cases,
         test_runs' = test_runs
  PROVE  TInv'
<1>1. Selected' = Selected /\ Unstarted' = Unstarted
  BY DEF Selected, Unstarted
<1>2. QueueInv' /\ OnceInv'
  BY <1>1 DEF TInv, QueueInv, OnceInv
<1>3. QED
  BY <1>2 DEF TInv

LEMMA TInit == Init => TInv
<1> SUFFICES ASSUME Init PROVE TInv
  OBVIOUS
<1>1. TypeOK
  <2>1. /\ 0 \in 0..MaxRuns /\ run_queue \in Seq(Param) /\ selected_cases \in Seq(Case)
        /\ test_runs \in Seq([run : 1..MaxRuns, running : BOOLEAN])
        /\ said \in Seq([type : {"started", "ready"}, case : 1..MaxRuns])
    BY SlaveEngineAssumption DEF Init
  <2>2. QED
    BY <2>1 DEF Init, TypeOK
<1>2. Unstarted = 0
  BY HitsEmpty DEF Init, Unstarted
<1>3. QueueInv /\ PlaceInv /\ OnceInv
  BY <1>2 DEF Init, QueueInv, PlaceInv, OnceInv, InHand, Selected
<1>4. QED
  BY <1>1, <1>3 DEF TInv

LEMMA TTakeRun == ASSUME TInv, NEW c \in Case, TakeRun(c) PROVE TInv'
<1> DEFINE p == [cmd |-> taken + 1, case |-> c, id |-> 0]
<1>a. /\ taken < MaxRuns /\ sock' = "queued" /\ num_selected' = Selected /\ taken' = taken + 1
      /\ run_queue' = Append(run_queue, p)
  BY DEF TakeRun, Selected
<1>b. /\ thread' = thread /\ thread_running' = thread_running /\ entry' = entry
      /\ modules' = modules /\ test_runs' = test_runs /\ selected_cases' = selected_cases
      /\ said' = said /\ crashed' = crashed
  BY DEF TakeRun, threadVars, ifVars
<1>c. /\ taken \in Nat /\ MaxRuns \in Nat /\ Selected \in Nat /\ Unstarted \in Nat
      /\ Selected <= MaxRuns /\ run_queue \in Seq(Param)
  BY Numbers, SelectedBound DEF TInv
<1>d. p \in Param /\ p \in Waiting /\ p.cmd = taken + 1
  BY <1>a, <1>c DEF Param, Waiting
<1> HIDE DEF p
<1>e. /\ run_queue' \in Seq(Param)
      /\ DOMAIN run_queue' = DOMAIN run_queue \cup {Len(run_queue) + 1}
      /\ \A k \in DOMAIN run_queue : run_queue'[k] = run_queue[k]
      /\ run_queue'[Len(run_queue) + 1] = p
  BY <1>a, <1>c, <1>d, AppendIndexed
<1>f. Unstarted' = Unstarted + 1 /\ Selected' = Selected
  <2>1. Cardinality(Hits(Append(run_queue, p), Waiting))
          = Cardinality(Hits(run_queue, Waiting)) + (IF p \in Waiting THEN 1 ELSE 0)
    BY <1>c, <1>d, HitsAppend
  <2>2. QED
    BY <1>a, <1>b, <1>d, <2>1 DEF Unstarted, Selected
<1>1. TypeOK'
  BY <1>a, <1>b, <1>c, <1>e DEF TInv, TypeOK
<1>2. QueueInv'
  <2>1. \A k \in DOMAIN run_queue : run_queue[k].cmd <= taken /\ run_queue[k].cmd \in Nat
    <3>1. \A k \in DOMAIN run_queue : run_queue[k] \in Param
      BY <1>c, MemberOfSeq
    <3>2. QED
      BY <3>1 DEF TInv, QueueInv, Param
  <2>2. \A k \in DOMAIN run_queue' : run_queue'[k].cmd <= taken + 1
    BY <1>c, <1>d, <1>e, <2>1
  <2>3. \A j, k \in DOMAIN run_queue' : run_queue'[j].cmd = run_queue'[k].cmd => j = k
    BY <1>c, <1>d, <1>e, <2>1 DEF TInv, QueueInv
  <2>4. QED
    BY <1>a, <2>2, <2>3 DEF QueueInv
<1>3. PlaceInv'
  BY <1>b, <1>e DEF TInv, PlaceInv, InHand
<1>4. OnceInv'
  BY <1>a, <1>b, <1>c, <1>f DEF TInv, OnceInv
<1>5. QED
  BY <1>1, <1>2, <1>3, <1>4 DEF TInv

LEMMA TStartThread == ASSUME TInv, StartThread PROVE TInv'
<1>a. /\ sock' = "waiting" /\ thread' = IF thread_running THEN thread ELSE "born"
  BY DEF StartThread
<1>b. /\ num_selected' = num_selected /\ taken' = taken
      /\ thread_running' = thread_running /\ entry' = entry /\ run_queue' = run_queue
      /\ modules' = modules /\ test_runs' = test_runs /\ selected_cases' = selected_cases
      /\ said' = said /\ crashed' = crashed
  BY DEF StartThread, ifVars
<1>1. TypeOK'
  BY <1>a, <1>b DEF TInv, TypeOK
<1>2. PlaceInv' /\ (thread' = "poll" <=> thread = "poll")
  BY <1>a, <1>b DEF TInv, PlaceInv, InHand
<1>3. QED
  BY <1>b, <1>1, <1>2, SameLists

LEMMA TSayStarted == ASSUME TInv, SayStarted PROVE TInv'
<1>a. sock' = "idle" /\ Selected > num_selected /\ Say("started", Selected)
  BY DEF SayStarted, Selected
<1>b. /\ num_selected' = num_selected /\ taken' = taken
      /\ thread' = thread /\ thread_running' = thread_running /\ entry' = entry
      /\ run_queue' = run_queue /\ modules' = modules /\ test_runs' = test_runs
      /\ selected_cases' = selected_cases /\ crashed' = crashed
  BY DEF SayStarted, threadVars, ifVars
<1>c. Selected \in 1..MaxRuns
  <2>1. Selected \in Nat /\ Selected <= MaxRuns /\ MaxRuns \in Nat
    BY Numbers, SelectedBound DEF TInv
  <2>2. num_selected \in Nat
    BY DEF TInv, TypeOK
  <2>3. QED
    BY <1>a, <2>1, <2>2
<1>d. PICK type \in {"started", "ready"} : type = "started"
  OBVIOUS
<1>e. said' \in Seq(Msg)
  <2>1. Say(type, Selected) /\ TypeOK
    BY <1>a, <1>d DEF TInv
  <2>2. QED
    BY <1>c, <2>1, SayCounts
<1>1. TypeOK'
  BY <1>a, <1>b, <1>e DEF TInv, TypeOK, Msg
<1>2. PlaceInv'
  BY <1>b DEF TInv, PlaceInv
<1>3. QED
  BY <1>b, <1>1, <1>2, SameLists

(* A step of the run thread that is neither a walk nor a note.             *)
LEMMA TThread ==
  ASSUME TInv, Born \/ Sleep \/ Leave \/ FindCase
  PROVE  TInv'
<1>a. /\ sock' = sock /\ num_selected' = num_selected /\ taken' = taken
      /\ entry' = entry /\ run_queue' = run_queue /\ modules' = modules
      /\ test_runs' = test_runs /\ selected_cases' = selected_cases
      /\ said' = said /\ crashed' = crashed
  BY DEF Born, Sleep, Leave, FindCase, sockVars, ifVars
<1>b. /\ thread # "poll" /\ thread' \in {"check", "none", "exec", "add"}
      /\ thread' \in {"exec", "add"} => thread = "find"
      /\ thread_running' = IF thread' = "none" THEN FALSE
                           ELSE IF thread = "born" THEN TRUE ELSE thread_running
      /\ thread \notin {"none"}
  BY DEF Born, Sleep, Leave, FindCase
<1>1. TypeOK'
  BY <1>a, <1>b DEF TInv, TypeOK
<1>2. PlaceInv'
  BY <1>a, <1>b DEF TInv, PlaceInv, InHand
<1>3. QED
  BY <1>a, <1>b, <1>1, <1>2, SameLists

LEMMA TWalk ==
  ASSUME TInv, NEW k, WalkTo(k), thread \notin {"poll", "none", "born"},
         crashed' \in BOOLEAN, sock' = sock, num_selected' = num_selected, taken' = taken,
         thread_running' = thread_running, run_queue' = run_queue, modules' = modules,
         test_runs' = test_runs, selected_cases' = selected_cases, said' = said
  PROVE  TInv'
<1>1. CASE k \in DOMAIN run_queue /\ run_queue[k].id = 0
  <2>1. thread' = "find" /\ entry' = run_queue[k].cmd
    BY <1>1 DEF WalkTo
  <2>2. entry' \in 0..MaxRuns
    <3>1. run_queue[k] \in Param
      BY <1>1, Numbers, MemberOfSeq DEF TInv
    <3>2. run_queue[k].cmd \in 1..MaxRuns
      BY <3>1 DEF Param
    <3>3. QED
      BY <2>1, <3>2, SlaveEngineAssumption
  <2>3. TypeOK'
    BY <2>1, <2>2 DEF TInv, TypeOK
  <2>4. PlaceInv'
    BY <1>1, <2>1 DEF TInv, PlaceInv, InHand
  <2>5. QED
    BY <2>1, <2>3, <2>4, SameLists
<1>2. CASE ~(k \in DOMAIN run_queue /\ run_queue[k].id = 0)
  <2>1. thread' = "sleep" /\ entry' = 0
    BY <1>2 DEF WalkTo
  <2>2. TypeOK'
    BY <2>1, SlaveEngineAssumption DEF TInv, TypeOK
  <2>3. PlaceInv'
    BY <2>1 DEF TInv, PlaceInv, InHand
  <2>4. QED
    BY <2>1, <2>2, <2>3, SameLists
<1>3. QED
  BY <1>1, <1>2

LEMMA TCheckQueue == ASSUME TInv, CheckQueue PROVE TInv'
<1>a. /\ thread = "check" /\ sock' = sock /\ num_selected' = num_selected /\ taken' = taken
      /\ thread_running' = thread_running /\ run_queue' = run_queue /\ modules' = modules
      /\ test_runs' = test_runs /\ selected_cases' = selected_cases /\ said' = said
      /\ crashed' = crashed
  BY DEF CheckQueue, sockVars, ifVars
<1>1. CASE run_queue = <<>>
  <2>1. thread' = "leave" /\ entry' = entry
    BY <1>1 DEF CheckQueue
  <2>2. TypeOK'
    BY <1>a, <2>1 DEF TInv, TypeOK
  <2>3. PlaceInv'
    BY <1>a, <2>1 DEF TInv, PlaceInv, InHand
  <2>4. QED
    BY <1>a, <2>1, <2>2, <2>3, SameLists
<1>2. CASE run_queue # <<>>
  <2>1. WalkTo(1)
    BY <1>2 DEF CheckQueue
  <2>2. crashed' \in BOOLEAN
    BY <1>a DEF TInv, TypeOK
  <2>3. QED
    BY <1>a, <2>1, <2>2, TWalk
<1>3. QED
  BY <1>1, <1>2

LEMMA TNextEntry == ASSUME TInv, NextEntry PROVE TInv'
<1>1. /\ thread = "next" /\ sock' = sock /\ num_selected' = num_selected /\ taken' = taken
      /\ thread_running' = thread_running /\ run_queue' = run_queue /\ modules' = modules
      /\ test_runs' = test_runs /\ selected_cases' = selected_cases /\ said' = said
  BY DEF NextEntry, sockVars, ifVars
<1>2. crashed' \in BOOLEAN
  BY DEF NextEntry, TInv, TypeOK
<1>3. PICK k \in 1..(Len(run_queue) + 1) : WalkTo(k)
  BY DEF NextEntry
<1>4. QED
  BY <1>1, <1>2, <1>3, TWalk

(* The run in hand is executed: it has not been before.                    *)
LEMMA TExecCase == ASSUME TInv, ExecCase PROVE TInv'
<1> DEFINE c == CaseOf(entry)
<1>a. /\ thread = "exec" /\ thread' = "poll" /\ thread_running' = thread_running
      /\ selected_cases' = Append(selected_cases, c)
  BY DEF ExecCase
<1>b. /\ sock' = sock /\ num_selected' = num_selected /\ taken' = taken
      /\ entry' = entry /\ run_queue' = run_queue
      /\ modules' = modules /\ test_runs' = test_runs
      /\ said' = said /\ crashed' = crashed
  BY DEF ExecCase, ifVars, sockVars
<1>c. c \in Case
  BY <1>a, InHandIsWaiting DEF InHand
<1> HIDE DEF c
<1>d. /\ taken \in Nat /\ Selected \in Nat /\ Unstarted \in Nat /\ selected_cases \in Seq(Case)
      /\ \A k \in DOMAIN test_runs : test_runs[k].run \in Nat
  <2>1. test_runs \in Seq([run : 1..MaxRuns, running : BOOLEAN])
    BY Numbers DEF TInv
  <2>2. \A k \in DOMAIN test_runs : test_runs[k] \in [run : 1..MaxRuns, running : BOOLEAN]
    BY <2>1, MemberOfSeq
  <2>3. QED
    BY <2>2, Numbers DEF TInv
<1>e. selected_cases' \in Seq(Case) /\ Selected' = Selected + 1 /\ Unstarted' = Unstarted
  BY <1>a, <1>b, <1>c, <1>d, AppendProperties DEF Selected, Unstarted
<1>1. TypeOK'
  BY <1>a, <1>b, <1>e DEF TInv, TypeOK
<1>2. QueueInv'
  BY <1>b DEF TInv, QueueInv
<1>3. PlaceInv'
  BY <1>a, <1>b DEF TInv, PlaceInv, InHand
<1>4. OnceInv'
  <2>1. Selected + Unstarted <= taken + 0
    BY <1>a DEF TInv, OnceInv
  <2>2. Selected' + Unstarted' <= taken' + 1
    BY <1>b, <1>d, <1>e, <2>1
  <2>3. \A k \in DOMAIN test_runs' : test_runs'[k].run <= Selected'
    BY <1>b, <1>d, <1>e DEF TInv, OnceInv
  <2>4. QED
    BY <1>a, <2>2, <2>3 DEF OnceInv
<1>5. QED
  BY <1>1, <1>2, <1>3, <1>4 DEF TInv

(* The run thread notes what has become of the run in hand.                *)
LEMMA TNote ==
  ASSUME TInv, thread \in {"add", "poll"}, NEW id \in {Failed} \cup 1..MaxRuns, Note(id),
         sock' = sock, num_selected' = num_selected, taken' = taken,
         thread_running' = thread_running, entry' = entry, modules' = modules,
         test_runs' = test_runs, selected_cases' = selected_cases, said' = said,
         crashed' = crashed
  PROVE  TInv'
<1>1. PICK k \in DOMAIN run_queue :
        /\ run_queue[k] \in Waiting /\ run_queue[k].cmd = entry /\ k \in Hits(run_queue, Waiting)
        /\ \A j \in DOMAIN run_queue : run_queue[j].cmd = entry => j = k
  BY InHandIsWaiting DEF InHand
<1> DEFINE e == [run_queue[k] EXCEPT !.id = id]
<1>2. thread' = "next" /\ run_queue' = [run_queue EXCEPT ![k] = e]
  <2>1. run_queue' = [j \in DOMAIN run_queue |-> IF run_queue[j].cmd = entry
                                                 THEN [run_queue[j] EXCEPT !.id = id] ELSE run_queue[j]]
    BY DEF Note
  <2>2. \A j \in DOMAIN run_queue : run_queue'[j] = IF j = k THEN e ELSE run_queue[j]
    BY <1>1, <2>1
  <2>3. run_queue' = [j \in DOMAIN run_queue |-> IF j = k THEN e ELSE run_queue[j]]
    BY <2>1, <2>2
  <2>4. run_queue \in Seq(Param) /\ thread' = "next"
    BY Numbers DEF TInv, Note
  <2>5. QED
    BY <2>3, <2>4
<1>3. /\ e \in Param /\ e \notin Waiting /\ e.cmd = entry
  <2>1. run_queue[k] \in Param /\ id # 0
    BY <1>1, SlaveEngineAssumption DEF Waiting, Failed
  <2>2. id \in {Failed} \cup 0..MaxRuns
    BY SlaveEngineAssumption
  <2>3. e \in Param /\ e.id = id /\ e.cmd = run_queue[k].cmd
    BY <2>1, <2>2 DEF Param
  <2>4. QED
    BY <1>1, <2>1, <2>3 DEF Waiting
<1> HIDE DEF e
<1>4. /\ run_queue \in Seq(Param) /\ run_queue' \in Seq(Param) /\ DOMAIN run_queue' = DOMAIN run_queue
      /\ run_queue'[k] = e /\ \A j \in DOMAIN run_queue : j # k => run_queue'[j] = run_queue[j]
  <2>1. run_queue \in Seq(Param)
    BY Numbers DEF TInv
  <2>2. QED
    BY <1>2, <1>3, <2>1
<1>5. Unstarted' = Unstarted - 1 /\ Selected' = Selected
  <2>1. Hits(run_queue', Waiting) = Hits(run_queue, Waiting) \ {k}
    BY <1>3, <1>4 DEF Hits
  <2>2. IsFiniteSet(Hits(run_queue, Waiting))
    BY <1>4, HitsFinite
  <2>3. Cardinality(Hits(run_queue, Waiting) \ {k}) = Cardinality(Hits(run_queue, Waiting)) - 1
    BY <1>1, <2>2, FS_RemoveElement
  <2>4. QED
    BY <2>1, <2>3 DEF Unstarted, Selected
<1>6. TypeOK'
  BY <1>2, <1>4 DEF TInv, TypeOK
<1>7. QueueInv'
  <2>1. \A j \in DOMAIN run_queue : run_queue'[j].cmd = run_queue[j].cmd
    BY <1>1, <1>3, <1>4
  <2>2. QED
    BY <1>4, <2>1 DEF TInv, QueueInv
<1>8. PlaceInv'
  BY <1>2 DEF TInv, PlaceInv, InHand
<1>9. OnceInv'
  <2>1. taken \in Nat /\ Selected \in Nat /\ Unstarted \in Nat
    BY Numbers DEF TInv
  <2>2. Selected + Unstarted <= taken + 1
    BY <2>1 DEF TInv, OnceInv
  <2>3. Selected' + Unstarted' <= taken'
    BY <1>5, <2>1, <2>2
  <2>4. \A j \in DOMAIN test_runs' : test_runs'[j].run <= Selected'
    BY <1>5 DEF TInv, OnceInv
  <2>5. taken' + 0 = taken'
    BY <2>1
  <2>6. QED
    BY <1>2, <2>3, <2>4, <2>5 DEF OnceInv
<1>10. QED
  BY <1>6, <1>7, <1>8, <1>9 DEF TInv

LEMMA TAddFails == ASSUME TInv, AddFails PROVE TInv'
<1>1. thread = "add" /\ Note(Failed)
  BY DEF AddFails
<1>2. /\ sock' = sock /\ num_selected' = num_selected /\ taken' = taken
      /\ thread_running' = thread_running /\ entry' = entry /\ modules' = modules
      /\ test_runs' = test_runs /\ selected_cases' = selected_cases /\ said' = said
      /\ crashed' = crashed
  BY DEF AddFails, sockVars, ifVars
<1>3. QED
  BY <1>1, <1>2, TNote

LEMMA TSeesRunning == ASSUME TInv, SeesRunning PROVE TInv'
<1>1. PICK k \in RunsOf(CaseOf(entry)) : Note(test_runs[k].run)
  BY DEF SeesRunning
<1>2. test_runs[k].run \in 1..MaxRuns
  <2>1. k \in DOMAIN test_runs
    BY DEF RunsOf
  <2>2. test_runs[k] \in [run : 1..MaxRuns, running : BOOLEAN]
    BY <2>1, Numbers, MemberOfSeq DEF TInv
  <2>3. QED
    BY <2>2
<1>3. /\ thread = "poll" /\ sock' = sock /\ num_selected' = num_selected /\ taken' = taken
      /\ thread_running' = thread_running /\ entry' = entry /\ modules' = modules
      /\ test_runs' = test_runs /\ selected_cases' = selected_cases /\ said' = said
      /\ crashed' = crashed
  BY DEF SeesRunning, sockVars, ifVars
<1>4. PICK id \in {Failed} \cup 1..MaxRuns : id = test_runs[k].run
  BY <1>2
<1>5. Note(id)
  BY <1>1, <1>4
<1>6. QED
  BY <1>3, <1>5, TNote

LEMMA TModuleReady == ASSUME TInv, ModuleReady PROVE TInv'
<1>a. thread = "add" /\ thread' = "exec" /\ thread_running' = thread_running
  BY DEF ModuleReady
<1>b. /\ sock' = sock /\ num_selected' = num_selected /\ taken' = taken
      /\ entry' = entry /\ run_queue' = run_queue
      /\ test_runs' = test_runs /\ selected_cases' = selected_cases
      /\ said' = said /\ crashed' = crashed
  BY DEF ModuleReady, sockVars
<1>c. modules' \subseteq Case
  BY DEF ModuleReady, Case, TInv, TypeOK
<1>1. TypeOK'
  BY <1>a, <1>b, <1>c DEF TInv, TypeOK
<1>2. PlaceInv'
  BY <1>a, <1>b DEF TInv, PlaceInv, InHand
<1>3. QED
  BY <1>a, <1>b, <1>1, <1>2, SameLists

LEMMA TCaseStarted == ASSUME TInv, NEW r \in DOMAIN selected_cases, CaseStarted(r) PROVE TInv'
<1> DEFINE t == [run |-> r, running |-> TRUE]
<1>a. test_runs' = Append(test_runs, t)
  BY DEF CaseStarted
<1>b. /\ sock' = sock /\ num_selected' = num_selected /\ taken' = taken
      /\ thread' = thread /\ thread_running' = thread_running /\ entry' = entry
      /\ run_queue' = run_queue /\ modules' = modules
      /\ selected_cases' = selected_cases /\ said' = said /\ crashed' = crashed
  BY DEF CaseStarted, threadVars, sockVars
<1>c. /\ test_runs \in Seq([run : 1..MaxRuns, running : BOOLEAN])
      /\ Selected \in Nat /\ Selected <= MaxRuns /\ MaxRuns \in Nat /\ r \in 1..Selected
  <2>1. selected_cases \in Seq(Case)
    BY Numbers DEF TInv
  <2>2. QED
    BY <2>1, Numbers, SelectedBound DEF TInv, Selected
<1>d. t \in [run : 1..MaxRuns, running : BOOLEAN] /\ t.run = r
  BY <1>c
<1> HIDE DEF t
<1>e. /\ test_runs' \in Seq([run : 1..MaxRuns, running : BOOLEAN])
      /\ DOMAIN test_runs' = DOMAIN test_runs \cup {Len(test_runs) + 1}
      /\ \A k \in DOMAIN test_runs : test_runs'[k] = test_runs[k]
      /\ test_runs'[Len(test_runs) + 1] = t
  BY <1>a, <1>c, <1>d, AppendIndexed
<1>f. Selected' = Selected /\ Unstarted' = Unstarted
  BY <1>b DEF Selected, Unstarted
<1>1. TypeOK'
  BY <1>b, <1>e DEF TInv, TypeOK
<1>2. QueueInv' /\ PlaceInv'
  BY <1>b DEF TInv, QueueInv, PlaceInv
<1>3. OnceInv'
  <2>1. \A k \in DOMAIN test_runs' : test_runs'[k].run <= Selected
    BY <1>c, <1>d, <1>e DEF TInv, OnceInv
  <2>2. QED
    BY <1>b, <1>f, <2>1 DEF TInv, OnceInv
<1>4. QED
  BY <1>1, <1>2, <1>3 DEF TInv

LEMMA TCaseEnds == ASSUME TInv, NEW k \in DOMAIN test_runs, CaseEnds(k) PROVE TInv'
<1> DEFINE r == test_runs[k].run
<1>a. /\ sock' = sock /\ num_selected' = num_selected /\ taken' = taken
      /\ thread' = thread /\ thread_running' = thread_running /\ entry' = entry
      /\ modules' = modules /\ selected_cases' = selected_cases
      /\ test_runs' = [test_runs EXCEPT ![k].running = FALSE] /\ Say("ready", Selected)
  BY DEF CaseEnds, threadVars, sockVars, Ended, Selected
<1>b. /\ test_runs \in Seq([run : 1..MaxRuns, running : BOOLEAN]) /\ run_queue \in Seq(Param)
      /\ Selected \in Nat /\ Selected <= MaxRuns /\ MaxRuns \in Nat /\ taken \in Nat /\ Unstarted \in Nat
  BY Numbers, SelectedBound DEF TInv
<1>c. r \in 1..MaxRuns /\ r <= Selected
  <2>1. test_runs[k] \in [run : 1..MaxRuns, running : BOOLEAN]
    BY <1>b, MemberOfSeq
  <2>2. QED
    BY <2>1 DEF TInv, OnceInv
<1> HIDE DEF r
<1>d. said' \in Seq(Msg)
  <2>1. PICK type \in {"started", "ready"} : type = "ready"
    OBVIOUS
  <2>2. Selected \in 1..MaxRuns
    BY <1>b, <1>c
  <2>3. Say(type, Selected) /\ TypeOK
    BY <1>a, <2>1 DEF TInv
  <2>4. QED
    BY <2>2, <2>3, SayCounts
<1>e. /\ test_runs' \in Seq([run : 1..MaxRuns, running : BOOLEAN])
      /\ DOMAIN test_runs' = DOMAIN test_runs
      /\ \A j \in DOMAIN test_runs : test_runs'[j].run = test_runs[j].run
  <2>1. PICK e : e = [test_runs[k] EXCEPT !.running = FALSE]
    OBVIOUS
  <2>2. test_runs[k] \in [run : 1..MaxRuns, running : BOOLEAN]
    BY <1>b, MemberOfSeq
  <2>3. e \in [run : 1..MaxRuns, running : BOOLEAN] /\ e.run = test_runs[k].run
    BY <2>1, <2>2
  <2>4. test_runs' = [test_runs EXCEPT ![k] = e]
    BY <1>a, <2>1
  <2>5. QED
    BY <1>b, <2>3, <2>4
<1>f. Selected' = Selected
  BY <1>a DEF Selected
<1>g. \A j \in DOMAIN test_runs' : test_runs'[j].run <= Selected'
  BY <1>e, <1>f DEF TInv, OnceInv
<1>1. CASE run_queue' = run_queue /\ crashed' = TRUE
  <2>1. TypeOK'
    BY <1>1, <1>a, <1>d, <1>e DEF TInv, TypeOK, Msg
  <2>2. QueueInv' /\ PlaceInv'
    BY <1>1, <1>a DEF TInv, QueueInv, PlaceInv
  <2>3. Unstarted' = Unstarted
    BY <1>1 DEF Unstarted
  <2>4. OnceInv'
    BY <1>a, <1>f, <1>g, <2>3 DEF TInv, OnceInv
  <2>5. QED
    BY <2>1, <2>2, <2>4 DEF TInv
<1>2. ASSUME NEW p \in EntriesOf(r), crashed' = crashed,
             run_queue' = SubSeq(run_queue, 1, p - 1) \o SubSeq(run_queue, p + 1, Len(run_queue))
      PROVE  TInv'
  <2>1. p \in DOMAIN run_queue /\ run_queue[p].id = r /\ run_queue' = Removed(run_queue, p)
    BY <1>2 DEF EntriesOf, Removed
  <2>2. run_queue[p].id # 0
    BY <1>c, <2>1
  <2>3. PICK len \in Nat : len = Len(run_queue)
    BY <1>b
  <2>4. DOMAIN run_queue = 1..len
    <3>1. DOMAIN run_queue = 1..Len(run_queue)
      BY <1>b
    <3>2. QED
      BY <2>3, <3>1, Zenon
  <2>5. /\ run_queue' \in Seq(Param) /\ DOMAIN run_queue' = 1..(len - 1)
        /\ \A i \in 1..(len - 1) : run_queue'[i] = IF i < p THEN run_queue[i] ELSE run_queue[i + 1]
    <3>1. /\ Removed(run_queue, p) \in Seq(Param) /\ Len(Removed(run_queue, p)) = len - 1
          /\ \A i \in 1..(len - 1) : Removed(run_queue, p)[i] = IF i < p THEN run_queue[i] ELSE run_queue[i + 1]
      BY <1>b, <2>1, <2>3, RemovedProperties
    <3>2. DOMAIN Removed(run_queue, p) = 1..(len - 1)
      BY <3>1
    <3>3. QED
      BY <2>1, <3>1, <3>2
  <2>6. p \in Nat /\ p \in 1..len
    BY <2>1, <2>4
  <2>7. Unstarted' = Unstarted
    <3>1. Cardinality(Hits(run_queue, Waiting))
            = Cardinality(Hits(Removed(run_queue, p), Waiting)) + (IF run_queue[p] \in Waiting THEN 1 ELSE 0)
      BY <1>b, <2>1, HitsRemoved
    <3>2. run_queue[p] \notin Waiting
      BY <2>2 DEF Waiting
    <3>3. Cardinality(Hits(Removed(run_queue, p), Waiting)) \in Nat
      BY <2>1, <2>5, HitsFinite
    <3>4. QED
      BY <2>1, <3>1, <3>2, <3>3 DEF Unstarted
  <2>8. TypeOK'
    BY <1>2, <1>a, <1>d, <1>e, <2>5 DEF TInv, TypeOK, Msg
  <2>9. QueueInv'
    <3>1. \A i \in DOMAIN run_queue' :
            \E j \in DOMAIN run_queue : run_queue'[i] = run_queue[j] /\ j = IF i < p THEN i ELSE i + 1
      BY <2>4, <2>5, <2>6
    <3>2. \A i \in DOMAIN run_queue' : run_queue'[i].cmd <= taken
      BY <3>1 DEF TInv, QueueInv
    <3>3. ASSUME NEW i \in DOMAIN run_queue', NEW j \in DOMAIN run_queue',
                 run_queue'[i].cmd = run_queue'[j].cmd
          PROVE  i = j
      <4>1. PICK a \in DOMAIN run_queue : run_queue'[i] = run_queue[a] /\ a = IF i < p THEN i ELSE i + 1
        BY <3>1
      <4>2. PICK b \in DOMAIN run_queue : run_queue'[j] = run_queue[b] /\ b = IF j < p THEN j ELSE j + 1
        BY <3>1
      <4>3. a = b
        BY <3>3, <4>1, <4>2 DEF TInv, QueueInv
      <4>4. i \in Nat /\ j \in Nat
        BY <2>5
      <4>5. QED
        BY <2>6, <4>1, <4>2, <4>3, <4>4
    <3>4. QED
      BY <1>a, <3>2, <3>3 DEF QueueInv
  <2>10. PlaceInv'
    <3>1. ASSUME thread \in InHand
          PROVE  \E i \in DOMAIN run_queue' : run_queue'[i].cmd = entry /\ run_queue'[i].id = 0
      <4>1. PICK j \in DOMAIN run_queue : run_queue[j].cmd = entry /\ run_queue[j].id = 0
        BY <3>1 DEF TInv, PlaceInv
      <4>2. j # p /\ j \in 1..len
        BY <2>2, <2>4, <4>1
      <4>3. PICK i \in 1..(len - 1) : i = IF j < p THEN j ELSE j - 1
        BY <2>3, <2>6, <4>2
      <4>4. run_queue'[i] = run_queue[j]
        BY <2>5, <2>6, <4>2, <4>3
      <4>5. QED
        BY <2>5, <4>1, <4>4
    <3>2. QED
      BY <1>a, <3>1 DEF TInv, PlaceInv, InHand
  <2>11. OnceInv'
    BY <1>a, <1>f, <1>g, <2>7 DEF TInv, OnceInv
  <2>12. QED
    BY <2>8, <2>9, <2>10, <2>11 DEF TInv
<1>3. QED
  BY <1>1, <1>2 DEF CaseEnds, r

LEMMA TStep == ASSUME TInv, [Next]_vars PROVE TInv'
<1>1. CASE \E c \in Case : TakeRun(c)
  BY <1>1, TTakeRun
<1>2. CASE StartThread
  BY <1>2, TStartThread
<1>3. CASE SayStarted
  BY <1>3, TSayStarted
<1>4. CASE RunThread
  BY <1>4, TThread, TCheckQueue, TAddFails, TExecCase, TSeesRunning, TNextEntry DEF RunThread
<1>5. CASE ModuleReady
  BY <1>5, TModuleReady
<1>6. CASE \E r \in DOMAIN selected_cases : CaseStarted(r)
  BY <1>6, TCaseStarted
<1>7. CASE \E k \in DOMAIN test_runs : CaseEnds(k)
  BY <1>7, TCaseEnds
<1>8. CASE UNCHANGED vars
  <2>1. /\ sock' = sock /\ num_selected' = num_selected /\ taken' = taken
        /\ thread' = thread /\ thread_running' = thread_running /\ entry' = entry
        /\ run_queue' = run_queue /\ modules' = modules /\ test_runs' = test_runs
        /\ selected_cases' = selected_cases /\ said' = said /\ crashed' = crashed
    BY <1>8 DEF vars, sockVars, threadVars, ifVars
  <2>2. TypeOK' /\ PlaceInv'
    BY <2>1 DEF TInv, TypeOK, PlaceInv
  <2>3. QED
    BY <2>1, <2>2, SameLists
<1>9. QED
  BY <1>1, <1>2, <1>3, <1>4, <1>5, <1>6, <1>7, <1>8 DEF Next, SocketThread, Listener

(* The threads, the queue and the lists of the slave hold what they are    *)
(* meant to, however the threads interleave and whether or not a case is   *)
(* short or a command comes too early: in particular min_if_exec_case has  *)
(* not selected more cases than commands have come.                        *)
THEOREM TypeCorrect == Spec => []TypeOK
<1>1. TInv => TypeOK
  BY DEF TInv
<1>2. Init => TInv
  BY TInit
<1>3. TInv /\ [Next]_vars => TInv'
  BY TStep
<1>4. QED
  BY <1>1, <1>2, <1>3, PTL DEF Spec

----------------------------------------------------------------------------
(* When a case goes on until the other threads have seen it start and no   *)
(* command comes while one is being started, as in MCSlaveEngine.cfg.      *)
Patient == ~ShortCases /\ ~Hasty

(* The cases are started, selected and told of one at a time; the queue    *)
(* holds the runs whose result has not been told.                          *)
CountInv ==
  /\ Started \in Nat /\ Done \in Nat
  /\ Done <= Started /\ Started <= Selected /\ Selected <= Done + 1
  /\ Len(run_queue) = taken - Done
  /\ \A k \in DOMAIN run_queue : run_queue[k].cmd = Done + k
  /\ sock = "idle" => taken = Started /\ Selected = Started
  /\ sock # "idle" => taken = Started + 1 /\ num_selected = Started

(* Only the first run of the queue is ever started, and its id tells how   *)
(* far it has come.                                                        *)
HeadInv ==
  \A k \in DOMAIN run_queue :
    IF k # 1 THEN run_queue[k].id = 0
    ELSE /\ run_queue[k].id \in {0, Failed, Done + 1}
         /\ run_queue[k].id = Done + 1 => Selected = Done + 1
         /\ run_queue[k].id = Failed => Selected = Done
         /\ run_queue[k].id = 0 /\ Selected = Done + 1 => thread = "poll"

(* While a run is being started it is alone in the queue, and the run      *)
(* thread has said that it is there.                                       *)
ThreadInv ==
  /\ thread \notin {"none", "born"} => thread_running
  /\ Starting => Len(run_queue) = 1 /\ entry = Done + 1
  /\ Starting => (thread = "next" <=> run_queue[1].id # 0)
  /\ thread \in {"find", "add", "exec"} => Selected = Done
  /\ thread = "poll" => Selected = Done + 1
  /\ thread \in {"leave", "none"} => Selected = Done

(* Only the last case is running, and every case told of has run once.     *)
RunInv ==
  /\ \A k \in DOMAIN test_runs : test_runs[k].run <= Selected
  /\ \A j, k \in DOMAIN test_runs : test_runs[j].run = test_runs[k].run => j = k
  /\ \A k \in DOMAIN test_runs : test_runs[k].running => test_runs[k].run = Done + 1
  /\ \A r \in 1..Done : \E k \in DOMAIN test_runs : test_runs[k].run = r

SaidInv == \A k \in DOMAIN said : said[k].type = "started" => said[k].case <= Started

IInv == TypeOK /\ CountInv /\ HeadInv /\ ThreadInv /\ RunInv /\ SaidInv /\ ~crashed

LEMMA InitStep == Init => IInv
<1> SUFFICES ASSUME Init PROVE IInv
  OBVIOUS
<1>1. TypeOK
  <2>1. /\ 0 \in 0..MaxRuns /\ run_queue \in Seq(Param) /\ selected_cases \in Seq(Case)
        /\ test_runs \in Seq([run : 1..MaxRuns, running : BOOLEAN])
        /\ said \in Seq([type : {"started", "ready"}, case : 1..MaxRuns])
    BY SlaveEngineAssumption DEF Init
  <2>2. QED
    BY <2>1 DEF Init, TypeOK
<1>2. Started = 0 /\ Done = 0
  <2>1. said = <<>> /\ <<>> \in Seq(Msg)
    BY DEF Init
  <2>2. QED
    BY <2>1, ToldIsHits, HitsEmpty DEF Started, Done, Told
<1>3. CountInv /\ HeadInv /\ ThreadInv /\ RunInv /\ SaidInv /\ ~crashed
  BY <1>2 DEF Init, CountInv, HeadInv, ThreadInv, RunInv, SaidInv, Starting, Selected
<1>4. QED
  BY <1>1, <1>3 DEF IInv

LEMMA TakeRunStep ==
  ASSUME Patient, IInv, NEW c \in Case, TakeRun(c)
  PROVE  IInv'
<1> DEFINE p == [cmd |-> taken + 1, case |-> c, id |-> 0]
<1>a. /\ sock = "idle" /\ taken < MaxRuns /\ ~Starting /\ sock' = "queued"
      /\ num_selected' = Len(selected_cases) /\ taken' = taken + 1
      /\ run_queue' = Append(run_queue, p)
  BY DEF TakeRun, Patient
<1>b. /\ thread' = thread /\ thread_running' = thread_running /\ entry' = entry
      /\ modules' = modules /\ test_runs' = test_runs /\ selected_cases' = selected_cases
      /\ said' = said /\ crashed' = crashed
  BY DEF TakeRun, threadVars, ifVars
<1>c. taken \in Nat /\ MaxRuns \in Nat /\ Selected \in Nat /\ Selected' = Selected
      /\ Started \in Nat /\ Done \in Nat /\ Started' = Started /\ Done' = Done
  BY <1>b, NothingSaid, CountsAreNumbers, SlaveEngineAssumption DEF IInv, TypeOK, Selected
<1>d. /\ taken = Started /\ Selected = Started /\ Done <= Started /\ Started <= Done + 1
      /\ Len(run_queue) = taken - Done /\ num_selected' = Started
  BY <1>a, <1>c DEF IInv, CountInv, Selected
<1>e. p \in Param /\ run_queue \in Seq(Param)
  BY <1>a, <1>c DEF IInv, TypeOK, Param
<1> HIDE DEF p
<1>f. /\ run_queue' \in Seq(Param) /\ Len(run_queue') = Len(run_queue) + 1
      /\ DOMAIN run_queue' = DOMAIN run_queue \cup {Len(run_queue) + 1}
      /\ \A k \in DOMAIN run_queue : run_queue'[k] = run_queue[k]
      /\ run_queue'[Len(run_queue) + 1] = p
  BY <1>a, <1>e, AppendIndexed, AppendProperties
<1>g. p.id = 0 /\ p.cmd = taken + 1
  BY DEF p
<1>1. TypeOK'
  BY <1>a, <1>b, <1>c, <1>d, <1>f DEF IInv, TypeOK
<1>2. CountInv'
  <2>1. \A k \in DOMAIN run_queue' : run_queue'[k].cmd = Done + k
    BY <1>c, <1>d, <1>f, <1>g DEF IInv, CountInv
  <2>2. QED
    BY <1>a, <1>c, <1>d, <1>f, <2>1 DEF CountInv
<1>3. HeadInv'
  <2>1. ASSUME NEW k \in DOMAIN run_queue', k # 1 PROVE run_queue'[k].id = 0
    BY <1>f, <1>g, <2>1 DEF IInv, HeadInv
  <2>2. CASE run_queue = <<>>
    <3>1. DOMAIN run_queue' = {1} /\ run_queue'[1].id = 0 /\ Selected = Done
      BY <1>c, <1>d, <1>f, <1>g, <2>2
    <3>2. Done # -1 /\ Done + 1 # 0
      BY <1>c
    <3>3. QED
      BY <1>c, <3>1, <3>2 DEF HeadInv, Failed
  <2>3. CASE run_queue # <<>>
    <3>1. 1 \in DOMAIN run_queue /\ run_queue'[1] = run_queue[1]
      BY <1>e, <1>f, <2>3
    <3>2. QED
      BY <1>b, <1>c, <2>1, <3>1 DEF IInv, HeadInv
  <2>4. QED
    BY <2>2, <2>3
<1>4. ThreadInv'
  BY <1>a, <1>b, <1>c DEF IInv, ThreadInv, Starting
<1>5. RunInv' /\ SaidInv' /\ ~crashed'
  BY <1>b, <1>c DEF IInv, RunInv, SaidInv
<1>6. QED
  BY <1>1, <1>2, <1>3, <1>4, <1>5 DEF IInv

(* The steps in which only the threads' own state changes.                 *)
LEMMA SameQueue ==
  ASSUME IInv, TypeOK', ThreadInv', ~crashed',
         num_selected' = num_selected, taken' = taken, run_queue' = run_queue,
         test_runs' = test_runs, selected_cases' = selected_cases, said' = said,
         sock' = "idle" <=> sock = "idle", thread = "poll" => thread' = "poll"
  PROVE  IInv'
<1>a. Selected' = Selected /\ Started' = Started /\ Done' = Done
  BY NothingSaid DEF Selected
<1>1. CountInv' /\ HeadInv'
  BY <1>a DEF IInv, CountInv, HeadInv
<1>2. RunInv' /\ SaidInv'
  BY <1>a DEF IInv, RunInv, SaidInv
<1>3. QED
  BY <1>1, <1>2 DEF IInv

LEMMA StartThreadStep == ASSUME IInv, StartThread PROVE IInv'
<1>a. /\ sock = "queued" /\ sock' = "waiting"
      /\ thread' = IF thread_running THEN thread ELSE "born"
  BY DEF StartThread
<1>b. /\ num_selected' = num_selected /\ taken' = taken
      /\ thread_running' = thread_running /\ entry' = entry /\ run_queue' = run_queue
      /\ modules' = modules /\ test_runs' = test_runs /\ selected_cases' = selected_cases
      /\ said' = said /\ crashed' = crashed
  BY DEF StartThread, ifVars
<1>c. Selected' = Selected /\ Started' = Started /\ Done' = Done
  BY <1>b, NothingSaid DEF Selected
<1>1. TypeOK'
  BY <1>a, <1>b DEF IInv, TypeOK
<1>2. ThreadInv' /\ (thread = "poll" => thread' = "poll")
  BY <1>a, <1>b, <1>c DEF IInv, ThreadInv, Starting
<1>3. QED
  BY <1>a, <1>b, <1>1, <1>2, SameQueue DEF IInv

LEMMA BornStep == ASSUME IInv, Born PROVE IInv'
<1>a. thread = "born" /\ thread' = "check" /\ thread_running' = TRUE
  BY DEF Born
<1>b. /\ sock' = sock /\ num_selected' = num_selected /\ taken' = taken
      /\ entry' = entry /\ run_queue' = run_queue
      /\ modules' = modules /\ test_runs' = test_runs /\ selected_cases' = selected_cases
      /\ said' = said /\ crashed' = crashed
  BY DEF Born, ifVars, sockVars
<1>1. TypeOK'
  BY <1>a, <1>b DEF IInv, TypeOK
<1>2. ThreadInv'
  BY <1>a, <1>b DEF IInv, ThreadInv, Starting
<1>3. QED
  BY <1>a, <1>b, <1>1, <1>2, SameQueue DEF IInv

LEMMA SleepStep == ASSUME IInv, Sleep PROVE IInv'
<1>a. thread = "sleep" /\ thread' = "check" /\ thread_running' = thread_running
  BY DEF Sleep
<1>b. /\ sock' = sock /\ num_selected' = num_selected /\ taken' = taken
      /\ entry' = entry /\ run_queue' = run_queue
      /\ modules' = modules /\ test_runs' = test_runs /\ selected_cases' = selected_cases
      /\ said' = said /\ crashed' = crashed
  BY DEF Sleep, ifVars, sockVars
<1>1. TypeOK'
  BY <1>a, <1>b DEF IInv, TypeOK
<1>2. ThreadInv'
  BY <1>a, <1>b DEF IInv, ThreadInv, Starting
<1>3. QED
  BY <1>a, <1>b, <1>1, <1>2, SameQueue DEF IInv

LEMMA LeaveStep == ASSUME IInv, Leave PROVE IInv'
<1>a. thread = "leave" /\ thread' = "none" /\ thread_running' = FALSE
  BY DEF Leave
<1>b. /\ sock' = sock /\ num_selected' = num_selected /\ taken' = taken
      /\ entry' = entry /\ run_queue' = run_queue
      /\ modules' = modules /\ test_runs' = test_runs /\ selected_cases' = selected_cases
      /\ said' = said /\ crashed' = crashed
  BY DEF Leave, ifVars, sockVars
<1>c. Selected' = Selected /\ Done' = Done
  BY <1>b, NothingSaid DEF Selected
<1>1. TypeOK'
  BY <1>a, <1>b DEF IInv, TypeOK
<1>2. ThreadInv'
  BY <1>a, <1>b, <1>c DEF IInv, ThreadInv, Starting
<1>3. QED
  BY <1>a, <1>b, <1>1, <1>2, SameQueue DEF IInv

(* A walk finds no run but the one at the head to start, and that one is   *)
(* alone.                                                                  *)
LEMMA HeadOfQueue ==
  ASSUME IInv
  PROVE  /\ taken \in Nat /\ Selected \in Nat /\ Started \in Nat /\ Done \in Nat
         /\ Done <= taken /\ taken <= Done + 2 /\ Len(run_queue) = taken - Done
         /\ run_queue \in Seq(Param)
         /\ 1 \in DOMAIN run_queue =>
              /\ run_queue[1].cmd = Done + 1
              /\ run_queue[1].id = 0 /\ thread # "poll" =>
                   Selected = Done /\ Len(run_queue) = 1
<1>1. taken \in Nat /\ Selected \in Nat /\ Started \in Nat /\ Done \in Nat /\ run_queue \in Seq(Param)
  BY CountsAreNumbers DEF IInv, TypeOK, Selected
<1>2. /\ Done <= Started /\ Started <= Selected /\ Selected <= Done + 1
      /\ Len(run_queue) = taken - Done /\ (taken = Started \/ taken = Started + 1)
  BY DEF IInv, CountInv
<1>3. Done <= taken /\ taken <= Done + 2
  BY <1>1, <1>2
<1>4. ASSUME 1 \in DOMAIN run_queue, run_queue[1].id = 0, thread # "poll"
      PROVE  Selected = Done /\ Len(run_queue) = 1
  <2>1. Selected # Done + 1
    BY <1>4 DEF IInv, HeadInv
  <2>2. Len(run_queue) >= 1
    BY <1>1, <1>4
  <2>3. QED
    BY <1>1, <1>2, <2>1, <2>2
<1>5. ASSUME 1 \in DOMAIN run_queue PROVE run_queue[1].cmd = Done + 1
  BY <1>5 DEF IInv, CountInv
<1>6. QED
  BY <1>1, <1>2, <1>3, <1>4, <1>5

LEMMA CheckQueueStep == ASSUME IInv, CheckQueue PROVE IInv'
<1>a. thread = "check" /\ thread_running' = thread_running
  BY DEF CheckQueue
<1>b. /\ sock' = sock /\ num_selected' = num_selected /\ taken' = taken
      /\ run_queue' = run_queue /\ modules' = modules /\ test_runs' = test_runs
      /\ selected_cases' = selected_cases /\ said' = said /\ crashed' = crashed
  BY DEF CheckQueue, ifVars, sockVars
<1>c. Selected' = Selected /\ Done' = Done
  BY <1>b, NothingSaid DEF Selected
<1>d. entry \in 0..MaxRuns /\ run_queue \in Seq(Param) /\ 0 \in 0..MaxRuns /\ thread_running
  BY <1>a, SlaveEngineAssumption DEF IInv, TypeOK, ThreadInv
<1>e. CASE run_queue = <<>>
  <2>1. thread' = "leave" /\ entry' = entry
    BY <1>e DEF CheckQueue
  <2>2. Selected = Done
    BY <1>e, HeadOfQueue DEF IInv, CountInv
  <2>3. TypeOK'
    BY <1>a, <1>b, <2>1 DEF IInv, TypeOK
  <2>4. ThreadInv'
    BY <1>a, <1>b, <1>c, <1>d, <2>1, <2>2 DEF ThreadInv, Starting
  <2>5. QED
    BY <1>a, <1>b, <2>3, <2>4, SameQueue DEF IInv
<1>f. CASE run_queue # <<>> /\ run_queue[1].id = 0
  <2>0. 1 \in DOMAIN run_queue
    BY <1>d, <1>f
  <2>1. thread' = "find" /\ entry' = run_queue[1].cmd
    BY <1>f, <2>0 DEF CheckQueue, WalkTo
  <2>2. entry' = Done + 1 /\ Selected = Done /\ Len(run_queue) = 1
    BY <1>a, <1>f, <2>0, <2>1, HeadOfQueue
  <2>3. entry' \in 0..MaxRuns
    <3>1. run_queue[1] \in Param
      BY <1>d, <2>0
    <3>2. run_queue[1].cmd \in 1..MaxRuns
      BY <3>1 DEF Param
    <3>3. QED
      BY <2>1, <3>2, SlaveEngineAssumption
  <2>4. TypeOK'
    BY <1>a, <1>b, <2>1, <2>3 DEF IInv, TypeOK
  <2>5. ThreadInv'
    BY <1>a, <1>b, <1>c, <1>d, <1>f, <2>1, <2>2 DEF ThreadInv, Starting
  <2>6. QED
    BY <1>a, <1>b, <2>4, <2>5, SameQueue DEF IInv
<1>g. CASE run_queue # <<>> /\ run_queue[1].id # 0
  <2>1. thread' = "sleep" /\ entry' = 0
    BY <1>g DEF CheckQueue, WalkTo
  <2>2. TypeOK'
    BY <1>a, <1>b, <1>d, <2>1 DEF IInv, TypeOK
  <2>3. ThreadInv'
    BY <1>a, <1>b, <1>c, <1>d, <2>1 DEF ThreadInv, Starting
  <2>4. QED
    BY <1>a, <1>b, <2>2, <2>3, SameQueue DEF IInv
<1>h. QED
  BY <1>e, <1>f, <1>g

LEMMA FindCaseStep == ASSUME IInv, FindCase PROVE IInv'
<1>a. thread = "find" /\ thread' \in {"exec", "add"} /\ thread_running' = thread_running
  BY DEF FindCase
<1>b. /\ sock' = sock /\ num_selected' = num_selected /\ taken' = taken
      /\ entry' = entry /\ run_queue' = run_queue
      /\ modules' = modules /\ test_runs' = test_runs /\ selected_cases' = selected_cases
      /\ said' = said /\ crashed' = crashed
  BY DEF FindCase, ifVars, sockVars
<1>c. Selected' = Selected /\ Done' = Done
  BY <1>b, NothingSaid DEF Selected
<1>1. TypeOK'
  BY <1>a, <1>b DEF IInv, TypeOK
<1>2. ThreadInv'
  BY <1>a, <1>b, <1>c DEF IInv, ThreadInv, Starting
<1>3. QED
  BY <1>a, <1>b, <1>1, <1>2, SameQueue DEF IInv

LEMMA ModuleReadyStep == ASSUME IInv, ModuleReady PROVE IInv'
<1>a. thread = "add" /\ thread' = "exec" /\ thread_running' = thread_running
  BY DEF ModuleReady
<1>b. /\ sock' = sock /\ num_selected' = num_selected /\ taken' = taken
      /\ entry' = entry /\ run_queue' = run_queue
      /\ test_runs' = test_runs /\ selected_cases' = selected_cases
      /\ said' = said /\ crashed' = crashed
  BY DEF ModuleReady, sockVars
<1>c. Selected' = Selected /\ Done' = Done
  BY <1>b, NothingSaid DEF Selected
<1>d. modules' \subseteq Case
  BY DEF ModuleReady, Case, IInv, TypeOK
<1>1. TypeOK'
  BY <1>a, <1>b, <1>d DEF IInv, TypeOK
<1>2. ThreadInv'
  BY <1>a, <1>b, <1>c DEF IInv, ThreadInv, Starting
<1>3. QED
  BY <1>a, <1>b, <1>1, <1>2, SameQueue DEF IInv

LEMMA NextEntryStep == ASSUME IInv, NextEntry PROVE IInv'
<1>a. thread = "next" /\ thread_running' = thread_running
  BY DEF NextEntry
<1>b. /\ sock' = sock /\ num_selected' = num_selected /\ taken' = taken
      /\ run_queue' = run_queue /\ modules' = modules /\ test_runs' = test_runs
      /\ selected_cases' = selected_cases /\ said' = said
  BY DEF NextEntry, ifVars, sockVars
<1>c. Selected' = Selected /\ Done' = Done
  BY <1>b, NothingSaid DEF Selected
<1>d. Len(run_queue) = 1 /\ run_queue[1].cmd = Done + 1 /\ entry = Done + 1 /\ DOMAIN run_queue = {1}
  <2>1. Len(run_queue) = 1 /\ entry = Done + 1
    BY <1>a DEF IInv, ThreadInv, Starting
  <2>2. DOMAIN run_queue = {1}
    BY <2>1, HeadOfQueue
  <2>3. QED
    BY <2>1, <2>2, HeadOfQueue
<1>e. crashed' = crashed
  BY <1>d DEF NextEntry
<1>f. thread' = "sleep" /\ entry' = 0
  <2>1. PICK k \in 1..(Len(run_queue) + 1) :
          /\ \A j \in DOMAIN run_queue : run_queue[j].cmd <= entry <=> j < k
          /\ WalkTo(k)
    BY DEF NextEntry
  <2>2. Done \in Nat
    BY HeadOfQueue
  <2>3. k \notin DOMAIN run_queue
    BY <1>d, <2>1, <2>2
  <2>4. QED
    BY <2>1, <2>3 DEF WalkTo
<1>1. TypeOK'
  BY <1>a, <1>b, <1>e, <1>f, SlaveEngineAssumption DEF IInv, TypeOK
<1>2. ThreadInv'
  BY <1>a, <1>b, <1>c, <1>f DEF IInv, ThreadInv, Starting
<1>3. QED
  BY <1>a, <1>b, <1>e, <1>1, <1>2, SameQueue DEF IInv

(* The run that is being started is the first and only one of the queue.   *)
LEMMA TheCase ==
  ASSUME IInv, Starting
  PROVE  /\ Len(run_queue) = 1 /\ DOMAIN run_queue = {1} /\ run_queue[1].cmd = entry
         /\ CaseOf(entry) = run_queue[1].case /\ CaseOf(entry) \in Case
         /\ thread # "next" => run_queue[1].id = 0
<1>1. Len(run_queue) = 1 /\ run_queue \in Seq(Param) /\ entry = Done + 1
  BY HeadOfQueue DEF IInv, ThreadInv
<1>2. DOMAIN run_queue = {1} /\ run_queue[1] \in Param
  <2>1. DOMAIN run_queue = 1..1 /\ 1..1 = {1}
    BY <1>1
  <2>2. run_queue[1] \in Param
    BY <1>1, ElementOfSeq
  <2>3. QED
    BY <2>1, <2>2
<1>3. run_queue[1].cmd = entry
  BY <1>1, <1>2, HeadOfQueue
<1>4. (CHOOSE k \in DOMAIN run_queue : run_queue[k].cmd = entry) = 1
  BY <1>2, <1>3
<1>5. CaseOf(entry) = run_queue[1].case
  BY <1>4 DEF CaseOf
<1>6. run_queue[1].case \in Case
  BY <1>2 DEF Param
<1>7. thread # "next" => run_queue[1].id = 0
  BY DEF IInv, ThreadInv
<1>8. QED
  BY <1>1, <1>2, <1>3, <1>5, <1>6, <1>7

LEMMA SelectedIsTaken == IInv => Selected <= taken
<1>1. IInv => Selected \in Nat /\ Started \in Nat /\ Done \in Nat /\ taken \in Nat
  BY HeadOfQueue
<1>2. QED
  BY <1>1 DEF IInv, CountInv

(* The steps that start the first run.                                     *)
LEMMA ExecCaseStep == ASSUME IInv, ExecCase PROVE IInv'
<1> DEFINE c == CaseOf(entry)
<1>a. /\ thread = "exec" /\ thread' = "poll" /\ thread_running' = thread_running
      /\ selected_cases' = Append(selected_cases, c)
  BY DEF ExecCase
<1>b. /\ sock' = sock /\ num_selected' = num_selected /\ taken' = taken
      /\ entry' = entry /\ run_queue' = run_queue
      /\ modules' = modules /\ test_runs' = test_runs
      /\ said' = said /\ crashed' = crashed
  BY DEF ExecCase, ifVars, sockVars
<1>c. Started' = Started /\ Done' = Done
  BY <1>b, NothingSaid
<1>d. c \in Case
  BY TheCase, <1>a DEF Starting
<1> HIDE DEF c
<1>e. /\ selected_cases' \in Seq(Case) /\ Selected' = Selected + 1
      /\ \A k \in DOMAIN test_runs : test_runs[k].run \in Nat
  <2>1. selected_cases \in Seq(Case)
    BY DEF IInv, TypeOK
  <2>2. selected_cases' \in Seq(Case) /\ Selected' = Selected + 1
    BY <1>a, <1>d, <2>1, AppendProperties DEF Selected
  <2>3. \A k \in DOMAIN test_runs : test_runs[k] \in [run : 1..MaxRuns, running : BOOLEAN]
    <3>1. test_runs \in Seq([run : 1..MaxRuns, running : BOOLEAN])
      BY DEF IInv, TypeOK
    <3>2. QED
      BY <3>1, MemberOfSeq
  <2>4. QED
    BY <2>2, <2>3
<1>f. Len(run_queue) = 1 /\ entry = Done + 1 /\ Selected = Done /\ run_queue[1].id = 0
      /\ DOMAIN run_queue = {1} /\ thread_running
  BY <1>a, TheCase DEF IInv, ThreadInv, Starting
<1>g. Selected \in Nat /\ Done \in Nat /\ Started \in Nat /\ taken \in Nat /\ taken = Done + 1
  <2>1. Selected \in Nat /\ Done \in Nat /\ Started \in Nat /\ taken \in Nat /\ Len(run_queue) = taken - Done
    BY HeadOfQueue
  <2>2. taken - Done = 1
    BY <1>f, <2>1
  <2>3. QED
    BY <2>1, <2>2
<1>1. TypeOK'
  BY <1>a, <1>b, <1>e DEF IInv, TypeOK
<1>2. CountInv'
  <2>1. Started = Done /\ sock # "idle"
    BY <1>f, <1>g DEF IInv, CountInv
  <2>2. QED
    BY <1>b, <1>c, <1>e, <1>f, <1>g, <2>1 DEF IInv, CountInv
<1>3. HeadInv'
  BY <1>a, <1>b, <1>c, <1>f, <1>g, <1>e DEF HeadInv, Failed
<1>4. ThreadInv'
  BY <1>a, <1>b, <1>c, <1>e, <1>f DEF ThreadInv, Starting
<1>5. RunInv'
  BY <1>b, <1>c, <1>e, <1>g DEF IInv, RunInv
<1>6. SaidInv' /\ ~crashed'
  BY <1>b, <1>c DEF IInv, SaidInv
<1>7. QED
  BY <1>1, <1>2, <1>3, <1>4, <1>5, <1>6 DEF IInv

(* The run thread notes what has become of the first run.                  *)
LEMMA NoteStep ==
  ASSUME IInv, Starting, thread # "next", NEW id \in {Failed, Done + 1}, Note(id),
         id = Failed => Selected = Done, id # Failed => Selected = Done + 1,
         sock' = sock, num_selected' = num_selected, taken' = taken,
         thread_running' = thread_running, entry' = entry, modules' = modules,
         test_runs' = test_runs, selected_cases' = selected_cases, said' = said,
         crashed' = crashed
  PROVE  IInv'
<1>a. Selected' = Selected /\ Started' = Started /\ Done' = Done
  BY NothingSaid DEF Selected
<1>b. /\ Len(run_queue) = 1 /\ DOMAIN run_queue = {1} /\ entry = Done + 1
      /\ run_queue \in Seq(Param) /\ run_queue[1] \in Param /\ run_queue[1].cmd = Done + 1
      /\ Done \in Nat /\ taken \in Nat /\ taken = Done + 1 /\ taken <= MaxRuns /\ thread_running
      /\ Selected \in Nat
  <2>1. /\ Len(run_queue) = 1 /\ DOMAIN run_queue = {1} /\ entry = Done + 1 /\ thread_running
    BY TheCase DEF IInv, ThreadInv, Starting
  <2>2. /\ taken \in Nat /\ Done \in Nat /\ Len(run_queue) = taken - Done
        /\ run_queue \in Seq(Param) /\ run_queue[1].cmd = Done + 1 /\ Selected \in Nat
    BY <2>1, HeadOfQueue
  <2>3. taken <= MaxRuns
    BY <2>2, SlaveEngineAssumption DEF IInv, TypeOK
  <2>4. taken - Done = 1
    BY <2>1, <2>2
  <2>5. taken = Done + 1
    BY <2>2, <2>4
  <2>6. run_queue[1] \in Param
    BY <2>1, <2>2
  <2>7. QED
    BY <2>1, <2>2, <2>3, <2>5, <2>6
<1> DEFINE e == [run_queue[1] EXCEPT !.id = id]
<1>c. thread' = "next" /\ run_queue' = [k \in {1} |-> e]
  BY <1>b DEF Note
<1>d. e \in Param /\ e.cmd = Done + 1 /\ e.id = id
  <2>1. id \in {Failed} \cup 0..MaxRuns
    BY <1>b, SlaveEngineAssumption
  <2>2. QED
    BY <1>b, <2>1 DEF Param
<1> HIDE DEF e
<1>e. run_queue' \in Seq(Param) /\ Len(run_queue') = 1 /\ DOMAIN run_queue' = {1} /\ run_queue'[1] = e
  <2>1. run_queue' = <<e>>
    BY <1>c
  <2>2. QED
    BY <1>d, <2>1
<1>f. id # 0
  BY <1>b DEF Failed
<1>1. TypeOK'
  BY <1>c, <1>e DEF IInv, TypeOK
<1>2. CountInv'
  BY <1>a, <1>b, <1>d, <1>e DEF IInv, CountInv
<1>3. HeadInv'
  BY <1>a, <1>b, <1>d, <1>e, <1>f DEF HeadInv, Failed
<1>4. ThreadInv'
  BY <1>a, <1>b, <1>c, <1>d, <1>e, <1>f DEF ThreadInv, Starting
<1>5. RunInv' /\ SaidInv' /\ ~crashed'
  BY <1>a DEF IInv, RunInv, SaidInv
<1>6. QED
  BY <1>1, <1>2, <1>3, <1>4, <1>5 DEF IInv

LEMMA AddFailsStep == ASSUME IInv, AddFails PROVE IInv'
<1>1. thread = "add" /\ Note(Failed) /\ Selected = Done
  BY DEF AddFails, IInv, ThreadInv
<1>2. /\ sock' = sock /\ num_selected' = num_selected /\ taken' = taken
      /\ thread_running' = thread_running /\ entry' = entry /\ modules' = modules
      /\ test_runs' = test_runs /\ selected_cases' = selected_cases /\ said' = said
      /\ crashed' = crashed
  BY DEF AddFails, sockVars, ifVars
<1>3. QED
  BY <1>1, <1>2, NoteStep DEF Starting

LEMMA SeesRunningStep == ASSUME IInv, SeesRunning PROVE IInv'
<1>1. PICK k \in RunsOf(CaseOf(entry)) : Note(test_runs[k].run)
  BY DEF SeesRunning
<1>2. thread = "poll" /\ Selected = Done + 1
  BY DEF SeesRunning, IInv, ThreadInv
<1>3. k \in DOMAIN test_runs /\ test_runs[k].run = Done + 1
  BY DEF RunsOf, IInv, RunInv
<1>4. /\ sock' = sock /\ num_selected' = num_selected /\ taken' = taken
      /\ thread_running' = thread_running /\ entry' = entry /\ modules' = modules
      /\ test_runs' = test_runs /\ selected_cases' = selected_cases /\ said' = said
      /\ crashed' = crashed
  BY DEF SeesRunning, sockVars, ifVars
<1>5. Done \in Nat
  BY HeadOfQueue
<1>6. Done + 1 # Failed
  BY <1>5 DEF Failed
<1>7. PICK id \in {Failed, Done + 1} : id = Done + 1
  OBVIOUS
<1>8. Note(id)
  BY <1>1, <1>3, <1>7
<1>9. QED
  BY <1>2, <1>4, <1>6, <1>7, <1>8, NoteStep DEF Starting

LEMMA SayStartedStep == ASSUME IInv, SayStarted PROVE IInv'
<1>a. sock = "waiting" /\ sock' = "idle" /\ Selected > num_selected /\ Say("started", Selected)
  BY DEF SayStarted, Selected
<1>b. /\ num_selected' = num_selected /\ taken' = taken
      /\ thread' = thread /\ thread_running' = thread_running /\ entry' = entry
      /\ run_queue' = run_queue /\ modules' = modules /\ test_runs' = test_runs
      /\ selected_cases' = selected_cases /\ crashed' = crashed
  BY DEF SayStarted, threadVars, ifVars
<1>c. /\ taken \in Nat /\ Selected \in Nat /\ Started \in Nat /\ Done \in Nat /\ Selected' = Selected
      /\ taken <= MaxRuns /\ MaxRuns \in Nat
  BY <1>b, HeadOfQueue, SlaveEngineAssumption DEF IInv, TypeOK, Selected
<1>d. /\ taken = Started + 1 /\ num_selected = Started /\ Selected = Started + 1 /\ Started = Done
  BY <1>a, <1>c DEF IInv, CountInv
<1>e. PICK type \in {"started", "ready"}, n \in 1..MaxRuns : type = "started" /\ n = Selected
  BY <1>c, <1>d
<1>f. Say(type, n)
  BY <1>a, <1>e
<1>g. /\ said' \in Seq(Msg) /\ Started' = Started + 1 /\ Done' = Done
      /\ DOMAIN said' = DOMAIN said \cup {Len(said) + 1}
      /\ \A k \in DOMAIN said : said'[k] = said[k]
      /\ said'[Len(said) + 1] = [type |-> "started", case |-> Selected]
  <2>1. TypeOK
    BY DEF IInv
  <2>2. Started' = Started + (IF type = "started" THEN 1 ELSE 0) /\ Done' = Done + (IF type = "ready" THEN 1 ELSE 0)
    BY <1>f, <2>1, SayCounts
  <2>3. Started' = Started + 1 /\ Done' = Done
    BY <1>c, <1>e, <2>2
  <2>4. /\ said' \in Seq(Msg)
        /\ DOMAIN said' = DOMAIN said \cup {Len(said) + 1}
        /\ \A k \in DOMAIN said : said'[k] = said[k]
        /\ said'[Len(said) + 1] = [type |-> type, case |-> n]
    BY <1>f, <2>1, SayCounts
  <2>5. QED
    BY <1>e, <2>3, <2>4
<1>1. TypeOK'
  BY <1>a, <1>b, <1>g DEF IInv, TypeOK, Msg
<1>2. CountInv'
  BY <1>a, <1>b, <1>c, <1>d, <1>g DEF IInv, CountInv
<1>3. HeadInv' /\ ThreadInv' /\ RunInv' /\ ~crashed'
  BY <1>b, <1>c, <1>g DEF IInv, HeadInv, ThreadInv, RunInv, Starting
<1>4. SaidInv'
  <2>1. ASSUME NEW k \in DOMAIN said', said'[k].type = "started" PROVE said'[k].case <= Started'
    <3>1. CASE k = Len(said) + 1
      BY <1>c, <1>d, <1>g, <3>1
    <3>2. CASE k \in DOMAIN said
      <4>1. said[k].case <= Started
        BY <1>g, <2>1, <3>2 DEF IInv, SaidInv
      <4>2. said[k] \in Msg
        BY <3>2, MemberOfSeq DEF IInv, TypeOK, Msg
      <4>3. QED
        BY <1>c, <1>g, <3>2, <4>1, <4>2 DEF Msg
    <3>3. QED
      BY <1>g, <3>1, <3>2
  <2>2. QED
    BY <2>1 DEF SaidInv
<1>5. QED
  BY <1>1, <1>2, <1>3, <1>4 DEF IInv

LEMMA CaseStartedStep ==
  ASSUME IInv, NEW r \in DOMAIN selected_cases, CaseStarted(r)
  PROVE  IInv'
<1> DEFINE t == [run |-> r, running |-> TRUE]
<1>a. /\ \A k \in DOMAIN test_runs : test_runs[k].run # r
      /\ test_runs' = Append(test_runs, t)
  BY DEF CaseStarted
<1>b. /\ sock' = sock /\ num_selected' = num_selected /\ taken' = taken
      /\ thread' = thread /\ thread_running' = thread_running /\ entry' = entry
      /\ run_queue' = run_queue /\ modules' = modules
      /\ selected_cases' = selected_cases /\ said' = said /\ crashed' = crashed
  BY DEF CaseStarted, threadVars, sockVars
<1>c. Selected' = Selected /\ Started' = Started /\ Done' = Done
  BY <1>b, NothingSaid DEF Selected
<1>d. /\ r \in 1..Selected /\ Selected \in Nat /\ Done \in Nat /\ Selected <= Done + 1
      /\ Selected <= MaxRuns /\ MaxRuns \in Nat
  <2>1. /\ taken \in Nat /\ Selected \in Nat /\ Started \in Nat /\ Done \in Nat
        /\ selected_cases \in Seq(Case) /\ taken <= MaxRuns /\ MaxRuns \in Nat
    BY HeadOfQueue, SlaveEngineAssumption DEF IInv, TypeOK
  <2>2. Selected <= Done + 1 /\ Selected <= taken
    BY <2>1, SelectedIsTaken DEF IInv, CountInv
  <2>3. QED
    BY <2>1, <2>2 DEF Selected
<1>e. r = Done + 1
  <2>1. r \notin 1..Done
    BY <1>a DEF IInv, RunInv
  <2>2. QED
    BY <1>d, <2>1
<1>f. t \in [run : 1..MaxRuns, running : BOOLEAN] /\ t.run = r
  BY <1>d
<1> HIDE DEF t
<1>g. /\ test_runs' \in Seq([run : 1..MaxRuns, running : BOOLEAN])
      /\ DOMAIN test_runs' = DOMAIN test_runs \cup {Len(test_runs) + 1}
      /\ \A k \in DOMAIN test_runs : test_runs'[k] = test_runs[k]
      /\ test_runs'[Len(test_runs) + 1] = t
  BY <1>a, <1>f, AppendIndexed DEF IInv, TypeOK
<1>1. TypeOK'
  BY <1>b, <1>g DEF IInv, TypeOK
<1>2. CountInv' /\ HeadInv' /\ ThreadInv' /\ SaidInv' /\ ~crashed'
  BY <1>b, <1>c DEF IInv, CountInv, HeadInv, ThreadInv, SaidInv, Starting
<1>3. RunInv'
  <2>1. \A k \in DOMAIN test_runs' : test_runs'[k].run <= Selected
    BY <1>d, <1>f, <1>g DEF IInv, RunInv
  <2>2. \A j, k \in DOMAIN test_runs' : test_runs'[j].run = test_runs'[k].run => j = k
    BY <1>a, <1>f, <1>g DEF IInv, RunInv
  <2>3. \A k \in DOMAIN test_runs' : test_runs'[k].running => test_runs'[k].run = Done + 1
    BY <1>e, <1>f, <1>g DEF IInv, RunInv
  <2>4. \A q \in 1..Done : \E k \in DOMAIN test_runs' : test_runs'[k].run = q
    BY <1>g DEF IInv, RunInv
  <2>5. QED
    BY <1>c, <2>1, <2>2, <2>3, <2>4 DEF RunInv
<1>4. QED
  BY <1>1, <1>2, <1>3 DEF IInv

(* A case that ends has been told of as started and is the first of the    *)
(* queue; no other is running.                                             *)
LEMMA TheEnding ==
  ASSUME Patient, IInv, NEW k \in DOMAIN test_runs, CaseEnds(k)
  PROVE  /\ test_runs[k].run = Done + 1 /\ Started = Done + 1 /\ Selected = Done + 1
         /\ Started \in Nat /\ Done \in Nat /\ Done + 1 <= MaxRuns
         /\ 1 \in DOMAIN run_queue /\ run_queue[1].id = Done + 1 /\ ~Starting
         /\ run_queue' = Removed(run_queue, 1) /\ crashed' = crashed
<1> DEFINE r == test_runs[k].run
<1>1. r = Done + 1 /\ Seen(r)
  BY DEF CaseEnds, Patient, IInv, RunInv
<1> HIDE DEF r
<1>2. /\ Selected \in Nat /\ Started \in Nat /\ Done \in Nat /\ taken \in Nat
      /\ Started <= Selected /\ Selected <= Done + 1 /\ Selected <= taken
      /\ taken <= MaxRuns /\ MaxRuns \in Nat
  BY HeadOfQueue, SelectedIsTaken, SlaveEngineAssumption DEF IInv, CountInv, TypeOK
<1>3. PICK m \in DOMAIN said : said[m].type = "started" /\ said[m].case = r
  BY <1>1 DEF Seen
<1>4. Done + 1 <= Started
  BY <1>1, <1>3 DEF IInv, SaidInv
<1>5. Started = Done + 1 /\ Selected = Done + 1 /\ Done + 1 <= MaxRuns
  BY <1>2, <1>4
<1>6. \A p \in DOMAIN run_queue : run_queue[p].id = r => p = 1
  BY <1>1, <1>2 DEF IInv, HeadInv
<1>7. 1 \in DOMAIN run_queue /\ run_queue[1].id = r /\ ~Starting
  BY <1>1, <1>6 DEF Seen
<1>8. EntriesOf(r) = {1}
  BY <1>6, <1>7 DEF EntriesOf
<1>9. run_queue' = Removed(run_queue, 1) /\ crashed' = crashed
  BY <1>8 DEF CaseEnds, Removed, r
<1>10. QED
  BY <1>1, <1>2, <1>5, <1>7, <1>9 DEF r

LEMMA CaseEndsStep ==
  ASSUME Patient, IInv, NEW k \in DOMAIN test_runs, CaseEnds(k)
  PROVE  IInv'
<1>a. /\ test_runs[k].run = Done + 1 /\ Started = Done + 1 /\ Selected = Done + 1
      /\ Started \in Nat /\ Done \in Nat /\ Done + 1 <= MaxRuns
      /\ 1 \in DOMAIN run_queue /\ run_queue[1].id = Done + 1 /\ ~Starting
      /\ run_queue' = Removed(run_queue, 1) /\ crashed' = crashed
  BY TheEnding
<1>b. /\ sock' = sock /\ num_selected' = num_selected /\ taken' = taken
      /\ thread' = thread /\ thread_running' = thread_running /\ entry' = entry
      /\ modules' = modules /\ selected_cases' = selected_cases
      /\ test_runs' = [test_runs EXCEPT ![k].running = FALSE] /\ Say("ready", Selected)
  BY DEF CaseEnds, threadVars, sockVars, Ended, Selected
<1>c. PICK type \in {"started", "ready"}, n \in 1..MaxRuns : type = "ready" /\ n = Selected
  BY <1>a, SlaveEngineAssumption
<1>d. Say(type, n)
  BY <1>b, <1>c
<1>e. /\ said' \in Seq(Msg) /\ Started' = Started /\ Done' = Done + 1 /\ Selected' = Selected
      /\ DOMAIN said' = DOMAIN said \cup {Len(said) + 1}
      /\ \A j \in DOMAIN said : said'[j] = said[j]
      /\ said'[Len(said) + 1] = [type |-> "ready", case |-> n]
  <2>1. TypeOK
    BY DEF IInv
  <2>2. Started' = Started + (IF type = "started" THEN 1 ELSE 0) /\ Done' = Done + (IF type = "ready" THEN 1 ELSE 0)
    BY <1>d, <2>1, SayCounts
  <2>3. Started' = Started /\ Done' = Done + 1
    BY <1>a, <1>c, <2>2
  <2>4. /\ said' \in Seq(Msg)
        /\ DOMAIN said' = DOMAIN said \cup {Len(said) + 1}
        /\ \A j \in DOMAIN said : said'[j] = said[j]
        /\ said'[Len(said) + 1] = [type |-> type, case |-> n]
    BY <1>d, <2>1, SayCounts
  <2>5. Selected' = Selected
    BY <1>b DEF Selected
  <2>6. QED
    BY <1>c, <2>3, <2>4, <2>5
<1>f. PICK len \in Nat : len = Len(run_queue) /\ len = taken - Done
  BY HeadOfQueue
<1>g. /\ run_queue \in Seq(Param) /\ DOMAIN run_queue = 1..len /\ taken \in Nat
  <2>1. run_queue \in Seq(Param) /\ taken \in Nat
    BY HeadOfQueue
  <2>2. DOMAIN run_queue = 1..len
    <3>1. DOMAIN run_queue = 1..Len(run_queue)
      BY <2>1
    <3>2. QED
      BY <1>f, <3>1, Zenon
  <2>3. QED
    BY <2>1, <2>2
<1>h. /\ run_queue' \in Seq(Param) /\ Len(run_queue') = len - 1 /\ DOMAIN run_queue' = 1..(len - 1)
      /\ \A i \in 1..(len - 1) : i + 1 \in DOMAIN run_queue /\ run_queue'[i] = run_queue[i + 1]
  <2>1. /\ Removed(run_queue, 1) \in Seq(Param) /\ Len(Removed(run_queue, 1)) = len - 1
        /\ \A i \in 1..(len - 1) : Removed(run_queue, 1)[i] = IF i < 1 THEN run_queue[i] ELSE run_queue[i + 1]
    BY <1>a, <1>f, <1>g, RemovedProperties
  <2>2. DOMAIN Removed(run_queue, 1) = 1..(len - 1)
    BY <2>1
  <2>3. QED
    BY <1>a, <1>f, <1>g, <2>1, <2>2
<1>i. /\ test_runs' \in Seq([run : 1..MaxRuns, running : BOOLEAN])
      /\ DOMAIN test_runs' = DOMAIN test_runs
      /\ \A j \in DOMAIN test_runs : test_runs'[j].run = test_runs[j].run
      /\ \A j \in DOMAIN test_runs : j # k => test_runs'[j].running = test_runs[j].running
      /\ ~test_runs'[k].running
  <2>1. PICK e : e = [test_runs[k] EXCEPT !.running = FALSE]
    OBVIOUS
  <2>2. test_runs \in Seq([run : 1..MaxRuns, running : BOOLEAN])
    BY DEF IInv, TypeOK
  <2>3. test_runs[k] \in [run : 1..MaxRuns, running : BOOLEAN]
    BY <2>2, MemberOfSeq
  <2>4. e \in [run : 1..MaxRuns, running : BOOLEAN] /\ e.run = test_runs[k].run /\ ~e.running
    BY <2>1, <2>3
  <2>5. test_runs' = [test_runs EXCEPT ![k] = e]
    BY <1>b, <2>1
  <2>6. QED
    BY <2>2, <2>4, <2>5
<1>1. TypeOK'
  BY <1>a, <1>b, <1>e, <1>h, <1>i DEF IInv, TypeOK, Msg
<1>2. CountInv'
  <2>1. \A i \in DOMAIN run_queue' : run_queue'[i].cmd = Done' + i
    BY <1>a, <1>e, <1>h DEF IInv, CountInv
  <2>2. QED
    BY <1>a, <1>b, <1>e, <1>f, <1>g, <1>h, <2>1 DEF IInv, CountInv
<1>3. HeadInv'
  <2>1. \A i \in DOMAIN run_queue' : run_queue'[i].id = 0
    BY <1>h DEF IInv, HeadInv
  <2>2. QED
    BY <1>a, <1>e, <2>1 DEF HeadInv, Failed
<1>4. ThreadInv'
  <2>1. thread \notin {"leave", "none"}
    BY <1>a DEF IInv, ThreadInv
  <2>2. thread' \notin {"leave", "none"} /\ ~Starting'
    BY <1>a, <1>b, <2>1 DEF Starting
  <2>3. thread' \notin {"none", "born"} => thread_running'
    BY <1>b DEF IInv, ThreadInv
  <2>4. QED
    BY <2>2, <2>3 DEF ThreadInv, Starting
<1>5. RunInv'
  <2>1. ASSUME NEW j \in DOMAIN test_runs' PROVE ~test_runs'[j].running
    <3>1. CASE j = k
      BY <1>i, <3>1
    <3>2. CASE j # k
      <4>1. j \in DOMAIN test_runs /\ test_runs'[j].running = test_runs[j].running
        BY <1>i, <3>2
      <4>2. test_runs[j].run # Done + 1
        BY <1>a, <3>2, <4>1 DEF IInv, RunInv
      <4>3. QED
        BY <4>1, <4>2 DEF IInv, RunInv
    <3>3. QED
      BY <3>1, <3>2
  <2>2. ASSUME NEW r \in 1..Done' PROVE \E j \in DOMAIN test_runs' : test_runs'[j].run = r
    <3>1. r \in 1..Done \/ r = Done + 1
      BY <1>a, <1>e
    <3>2. CASE r = Done + 1
      BY <1>a, <1>i, <3>2
    <3>3. CASE r \in 1..Done
      BY <1>i, <3>3 DEF IInv, RunInv
    <3>4. QED
      BY <3>1, <3>2, <3>3
  <2>3. QED
    BY <1>e, <1>i, <2>1, <2>2 DEF IInv, RunInv
<1>6. SaidInv' /\ ~crashed'
  BY <1>a, <1>e DEF IInv, SaidInv
<1>7. QED
  BY <1>1, <1>2, <1>3, <1>4, <1>5, <1>6 DEF IInv

LEMMA Step == ASSUME Patient, IInv, [Next]_vars PROVE IInv'
<1>1. CASE \E c \in Case : TakeRun(c)
  BY <1>1, TakeRunStep
<1>2. CASE StartThread
  BY <1>2, StartThreadStep
<1>3. CASE SayStarted
  BY <1>3, SayStartedStep
<1>4. CASE RunThread
  BY <1>4, BornStep, CheckQueueStep, SleepStep, LeaveStep, FindCaseStep, AddFailsStep,
     ExecCaseStep, SeesRunningStep, NextEntryStep DEF RunThread
<1>5. CASE ModuleReady
  BY <1>5, ModuleReadyStep
<1>6. CASE \E r \in DOMAIN selected_cases : CaseStarted(r)
  BY <1>6, CaseStartedStep
<1>7. CASE \E k \in DOMAIN test_runs : CaseEnds(k)
  BY <1>7, CaseEndsStep
<1>8. CASE UNCHANGED vars
  <2>1. /\ sock' = sock /\ num_selected' = num_selected /\ taken' = taken
        /\ thread' = thread /\ thread_running' = thread_running /\ entry' = entry
        /\ run_queue' = run_queue /\ modules' = modules /\ test_runs' = test_runs
        /\ selected_cases' = selected_cases /\ said' = said /\ crashed' = crashed
    BY <1>8 DEF vars, sockVars, threadVars, ifVars
  <2>2. TypeOK'
    BY <2>1 DEF IInv, TypeOK
  <2>3. ThreadInv'
    BY <2>1, NothingSaid DEF IInv, ThreadInv, Starting, Selected
  <2>4. QED
    BY <2>1, <2>2, <2>3, SameQueue DEF IInv
<1>9. QED
  BY <1>1, <1>2, <1>3, <1>4, <1>5, <1>6, <1>7, <1>8 DEF Next, SocketThread, Listener

----------------------------------------------------------------------------
(* The theorems.                                                           *)

(* The three threads keep IInv, whatever the master asks for.              *)
THEOREM Invariance == Patient /\ Spec => []IInv
<1> SUFFICES ASSUME Patient PROVE Spec => []IInv
  OBVIOUS
<1>1. Init => IInv
  BY InitStep
<1>2. IInv /\ [Next]_vars => IInv'
  BY Step
<1>3. QED
  BY <1>1, <1>2, PTL DEF Spec

----------------------------------------------------------------------------
(* The refinement of SlaveSession.                                         *)

(* A slave that goes deaf executes nothing and owes its master an answer.  *)
LEMMA DeafIsIdle ==
  ASSUME IInv, IInv', taken' = taken, said' = said, Deaf'
  PROVE  Started < taken /\ ~(Done < Started)
<1>a. Started' = Started /\ Done' = Done
  BY NothingSaid
<1>b. Started \in Nat /\ Done \in Nat /\ taken \in Nat /\ Done <= Started
  BY HeadOfQueue DEF IInv, CountInv
<1>1. sock' = "waiting" /\ taken = Started + 1
  BY <1>a DEF Deaf, IInv, CountInv
<1>2. Selected' \in Nat /\ Started <= Selected'
  BY <1>a DEF IInv, TypeOK, CountInv, Selected
<1>3. Selected' = Done
  <2>1. CASE thread' \in {"none", "add"}
    BY <1>a, <2>1 DEF IInv, ThreadInv
  <2>2. ASSUME NEW k \in DOMAIN run_queue', run_queue'[k].id = Failed PROVE Selected' = Done
    BY <1>a, <2>2 DEF IInv, HeadInv, Failed
  <2>3. QED
    BY <2>1, <2>2 DEF Deaf
<1>4. QED
  BY <1>b, <1>1, <1>2, <1>3

(* What the master does not see: the slave may go deaf, and stays so.      *)
LEMMA Unseen ==
  ASSUME IInv, IInv', taken' = taken, said' = said, Deaf => Deaf'
  PROVE  [Session!Next]_Session!vars
<1>1. Told("started")' = Told("started") /\ Told("ready")' = Told("ready")
  BY DEF Told
<1>2. CASE Deaf' <=> Deaf
  BY <1>1, <1>2 DEF Session!vars
<1>3. CASE ~Deaf /\ Deaf'
  <2>1. Started < taken /\ ~(Done < Started)
    BY <1>3, DeafIsIdle
  <2>2. Session!GoDeaf
    BY <1>1, <1>3, <2>1 DEF Session!GoDeaf, Started, Done
  <2>3. QED
    BY <2>2 DEF Session!Next
<1>4. QED
  BY <1>2, <1>3
(* The steps of a run that is being started: it is alone in the queue and  *)
(* not refused, so a slave that is deaf has the run thread in "add".       *)
LEMMA DeafWhileStarting ==
  ASSUME IInv, Deaf, Starting, thread # "next"
  PROVE  thread = "add" /\ CaseOf(entry) \in Silent
BY TheCase DEF Deaf, Starting, Failed

LEMMA RunThreadRefines == ASSUME IInv, IInv', RunThread PROVE [Session!Next]_Session!vars
<1>a. /\ sock' = sock /\ num_selected' = num_selected /\ taken' = taken /\ said' = said
  BY DEF RunThread, Born, CheckQueue, Sleep, Leave, FindCase, AddFails, ExecCase, SeesRunning,
         NextEntry, sockVars
<1>b. SUFFICES ASSUME Deaf PROVE Deaf'
  BY <1>a, Unseen
<1>1. CASE Born \/ CheckQueue \/ Sleep \/ Leave
  <2>1. run_queue' = run_queue /\ selected_cases' = selected_cases /\ thread \notin {"none", "add"}
    BY <1>1 DEF Born, CheckQueue, Sleep, Leave
  <2>2. QED
    BY <1>a, <1>b, <2>1 DEF Deaf
<1>2. CASE NextEntry
  <2>1. run_queue' = run_queue /\ selected_cases' = selected_cases /\ thread = "next"
    BY <1>2 DEF NextEntry
  <2>2. QED
    BY <1>a, <1>b, <2>1 DEF Deaf
<1>3. CASE FindCase \/ ExecCase \/ SeesRunning
  <2>1. thread \in {"find", "exec", "poll"}
    BY <1>3 DEF FindCase, ExecCase, SeesRunning
  <2>2. QED
    BY <1>b, <2>1, DeafWhileStarting DEF Starting
<1>4. CASE AddFails
  <2>1. thread = "add" /\ CaseOf(entry) \in Refused
    BY <1>4 DEF AddFails
  <2>2. CaseOf(entry) \in Silent
    BY <1>b, <2>1, DeafWhileStarting DEF Starting
  <2>3. QED
    BY <2>1, <2>2, SlaveEngineAssumption
<1>5. QED
  BY <1>1, <1>2, <1>3, <1>4 DEF RunThread

LEMMA TakeRunRefines ==
  ASSUME Patient, IInv, NEW c \in Case, TakeRun(c)
  PROVE  [Session!Next]_Session!vars
<1>1. sock = "idle" /\ sock' = "queued" /\ taken' = taken + 1 /\ said' = said
  BY DEF TakeRun
<1>2. taken = Started
  BY <1>1 DEF IInv, CountInv
<1>3. Deaf = FALSE /\ Deaf' = FALSE
  BY <1>1 DEF Deaf
<1>4. Told("started")' = Told("started") /\ Told("ready")' = Told("ready")
  BY <1>1 DEF Told
<1>5. Session!Take
  BY <1>1, <1>2, <1>3, <1>4 DEF Session!Take, Started
<1>6. QED
  BY <1>5 DEF Session!Next

LEMMA StartThreadRefines == ASSUME IInv, IInv', StartThread PROVE [Session!Next]_Session!vars
<1>1. sock = "queued" /\ taken' = taken /\ said' = said
  BY DEF StartThread
<1>2. ~Deaf
  BY <1>1 DEF Deaf
<1>3. QED
  BY <1>1, <1>2, Unseen

LEMMA SayStartedRefines == ASSUME IInv, SayStarted PROVE [Session!Next]_Session!vars
<1>1. /\ sock = "waiting" /\ sock' = "idle" /\ Selected > num_selected /\ Say("started", Selected)
      /\ taken' = taken
  BY DEF SayStarted, Selected
<1>2. /\ taken = Started + 1 /\ num_selected = Started /\ Selected = Started + 1 /\ Started = Done
      /\ Started \in Nat /\ taken \in 1..MaxRuns
  <2>1. /\ taken \in Nat /\ Selected \in Nat /\ Started \in Nat /\ Done \in Nat
        /\ taken <= MaxRuns /\ MaxRuns \in Nat
    BY HeadOfQueue, SlaveEngineAssumption DEF IInv, TypeOK
  <2>2. QED
    BY <1>1, <2>1 DEF IInv, CountInv
<1>3. PICK type \in {"started", "ready"}, n \in 1..MaxRuns : type = "started" /\ n = Selected
  BY <1>2
<1>4. Say(type, n)
  BY <1>1, <1>3
<1>5. TypeOK
  BY DEF IInv
<1>6. Started' = Started + (IF type = "started" THEN 1 ELSE 0) /\ Done' = Done + (IF type = "ready" THEN 1 ELSE 0)
  BY <1>4, <1>5, SayCounts
<1>7. Started' = Started + 1 /\ Done' = Done
  BY <1>2, <1>3, <1>6
<1>8. Deaf = FALSE /\ Deaf' = FALSE
  <2>1. ~(Len(selected_cases) = num_selected)
    BY <1>2 DEF Selected
  <2>2. QED
    BY <1>1, <2>1 DEF Deaf
<1>9. Session!Say("started", Started + 1)
  BY <1>1, <1>2 DEF Say, Session!Say
<1>10. Session!Start
  <2>1. Told("started") = Started /\ Told("ready") = Done /\ Told("started")' = Started + 1 /\ Told("ready")' = Done
    BY <1>7 DEF Started, Done
  <2>2. Started < taken /\ ~(Done < Started) /\ Done < Started + 1
    BY <1>2
  <2>3. QED
    BY <1>1, <1>8, <1>9, <2>1, <2>2 DEF Session!Start
<1>11. QED
  BY <1>10 DEF Session!Next

LEMMA ModuleReadyRefines == ASSUME IInv, IInv', ModuleReady PROVE [Session!Next]_Session!vars
<1>1. /\ sock' = sock /\ num_selected' = num_selected /\ taken' = taken /\ said' = said
      /\ thread = "add" /\ CaseOf(entry) \in Here
  BY DEF ModuleReady, sockVars
<1>2. ~Deaf
  BY <1>1, DeafWhileStarting, SlaveEngineAssumption DEF Starting
<1>3. QED
  BY <1>1, <1>2, Unseen

LEMMA CaseStartedRefines ==
  ASSUME IInv, IInv', NEW r \in DOMAIN selected_cases, CaseStarted(r)
  PROVE  [Session!Next]_Session!vars
<1>1. /\ sock' = sock /\ num_selected' = num_selected /\ taken' = taken /\ said' = said
      /\ thread' = thread /\ entry' = entry /\ run_queue' = run_queue
      /\ selected_cases' = selected_cases
  BY DEF CaseStarted, sockVars, threadVars
<1>2. Deaf' = Deaf
  BY <1>1 DEF Deaf, CaseOf
<1>3. QED
  BY <1>1, <1>2, Unseen

LEMMA CaseEndsRefines ==
  ASSUME Patient, IInv, NEW k \in DOMAIN test_runs, CaseEnds(k)
  PROVE  [Session!Next]_Session!vars
<1>1. /\ Started = Done + 1 /\ Selected = Done + 1 /\ Done \in Nat /\ Done + 1 <= MaxRuns
      /\ 1 \in DOMAIN run_queue /\ run_queue[1].id = Done + 1 /\ ~Starting
      /\ run_queue' = Removed(run_queue, 1)
  BY TheEnding
<1>2. /\ sock' = sock /\ num_selected' = num_selected /\ taken' = taken
      /\ thread' = thread /\ selected_cases' = selected_cases /\ Say("ready", Selected)
  BY DEF CaseEnds, sockVars, threadVars, Selected
<1>3. PICK type \in {"started", "ready"}, n \in 1..MaxRuns : type = "ready" /\ n = Selected
  BY <1>1, SlaveEngineAssumption
<1>4. Say(type, n) /\ TypeOK
  BY <1>2, <1>3 DEF IInv
<1>5. Started' = Started + (IF type = "started" THEN 1 ELSE 0) /\ Done' = Done + (IF type = "ready" THEN 1 ELSE 0)
  BY <1>4, SayCounts
<1>6. Started' = Started /\ Done' = Started
  BY <1>1, <1>3, <1>5
<1>7. Deaf = FALSE /\ Deaf' = FALSE
  <2>1. \A i \in DOMAIN run_queue : run_queue[i].id # Failed
    BY <1>1 DEF IInv, HeadInv, Failed
  <2>2. \A i \in DOMAIN run_queue' : run_queue'[i].id # Failed
    <3>1. run_queue \in Seq(Param)
      BY HeadOfQueue
    <3>2. PICK len \in Nat : len = Len(run_queue)
      BY <3>1
    <3>3. /\ DOMAIN Removed(run_queue, 1) = 1..(len - 1)
          /\ \A i \in 1..(len - 1) : Removed(run_queue, 1)[i] = run_queue[i + 1]
      <4>1. /\ Removed(run_queue, 1) \in Seq(Param) /\ Len(Removed(run_queue, 1)) = len - 1
            /\ \A i \in 1..(len - 1) : Removed(run_queue, 1)[i] = IF i < 1 THEN run_queue[i] ELSE run_queue[i + 1]
        BY <1>1, <3>1, <3>2, RemovedProperties
      <4>2. DOMAIN Removed(run_queue, 1) = 1..Len(Removed(run_queue, 1))
        BY <4>1
      <4>3. QED
        BY <4>1, <4>2, <3>2
    <3>4. \A i \in 1..(len - 1) : i + 1 \in DOMAIN run_queue
      BY <3>1, <3>2
    <3>5. QED
      BY <1>1, <2>1, <3>3, <3>4
  <2>3. thread \notin {"none", "add"}
    BY <1>1 DEF Starting, IInv, ThreadInv
  <2>4. QED
    BY <1>2, <2>1, <2>2, <2>3 DEF Deaf
<1>8. Session!Say("ready", Started)
  BY <1>1, <1>2 DEF Say, Session!Say
<1>9. Session!Finish
  <2>1. Told("started") = Started /\ Told("ready") = Done /\ Told("started")' = Started /\ Told("ready")' = Started
    BY <1>6 DEF Started, Done
  <2>2. Done < Started /\ (Started < Started) = FALSE
    BY <1>1
  <2>3. (Told("ready") < Told("started"))' = FALSE
    BY <2>1, <2>2
  <2>4. Told("ready") < Told("started") /\ Told("started")' = Told("started")
    BY <2>1, <2>2
  <2>5. Deaf' = Deaf /\ taken' = taken
    BY <1>2, <1>7
  <2>6. Session!Say("ready", Told("started"))
    BY <1>8, <2>1
  <2>7. QED
    BY <2>3, <2>4, <2>5, <2>6 DEF Session!Finish
<1>10. QED
  BY <1>9 DEF Session!Next

(* SlaveEngine implements the safety part of SlaveSession: the slave tells *)
(* its master of one run at a time, "started" before "ready" and with the  *)
(* number of the run, and of none once it is deaf.  This is what SlavePool *)
(* takes a slave for.                                                      *)
THEOREM Implementation == Patient /\ Spec => Session!Safety
<1> SUFFICES ASSUME Patient PROVE Spec => Session!Safety
  OBVIOUS
<1>1. Init => Session!Init
  <2> SUFFICES ASSUME Init PROVE Session!Init
    OBVIOUS
  <2>1. Started = 0 /\ Done = 0
    <3>1. said = <<>> /\ <<>> \in Seq(Msg)
      BY DEF Init
    <3>2. QED
      BY <3>1, ToldIsHits, HitsEmpty DEF Started, Done, Told
  <2>2. ~Deaf
    BY DEF Init, Deaf
  <2>3. QED
    BY <2>1, <2>2 DEF Init, Session!Init, Started, Done
<1>2. ASSUME IInv, IInv', [Next]_vars PROVE [Session!Next]_Session!vars
  <2>1. CASE UNCHANGED vars
    <3>1. /\ sock' = sock /\ num_selected' = num_selected /\ taken' = taken /\ said' = said
          /\ thread' = thread /\ entry' = entry /\ run_queue' = run_queue
          /\ selected_cases' = selected_cases
      BY <2>1 DEF vars, sockVars, threadVars
    <3>2. Deaf' = Deaf
      BY <3>1 DEF Deaf, CaseOf
    <3>3. QED
      BY <1>2, <3>1, <3>2, Unseen
  <2>2. CASE \E c \in Case : TakeRun(c)
    BY <1>2, <2>2, TakeRunRefines
  <2>3. CASE StartThread
    BY <1>2, <2>3, StartThreadRefines
  <2>4. CASE SayStarted
    BY <1>2, <2>4, SayStartedRefines
  <2>5. CASE RunThread
    BY <1>2, <2>5, RunThreadRefines
  <2>6. CASE ModuleReady
    BY <1>2, <2>6, ModuleReadyRefines
  <2>7. CASE \E r \in DOMAIN selected_cases : CaseStarted(r)
    BY <1>2, <2>7, CaseStartedRefines
  <2>8. CASE \E k \in DOMAIN test_runs : CaseEnds(k)
    BY <1>2, <2>8, CaseEndsRefines
  <2>9. QED
    BY <1>2, <2>1, <2>2, <2>3, <2>4, <2>5, <2>6, <2>7, <2>8 DEF Next, SocketThread, Listener
<1>3. QED
  BY <1>1, <1>2, Invariance, PTL DEF Spec, Session!Safety
=============================================================================
