--------------------------- MODULE SlavePoolProofs --------------------------
(***************************************************************************)
(* Proofs about SlavePool for any number of slaves and tests and any       *)
(* bounds, as long as no two tests use the same name for their slaves.     *)
(* EInv holds whenever a test frees a slave.  IInv, and with it the lease, *)
(* holds of tests that complete their remote runs first.                   *)
(***************************************************************************)
EXTENDS SlavePool, FunctionTheorems, FiniteSetTheorems, SequenceTheorems, WellFoundedInduction, TLAPS

----------------------------------------------------------------------------
(* Where the members of S are in a sequence.                               *)
Hits(s, S) == {k \in DOMAIN s : s[k] \in S}

Removed(s, k) == SubSeq(s, 1, k - 1) \o SubSeq(s, k + 1, Len(s))

(* What an operation on a queue does to the number of messages of a kind.   *)
LEMMA HitsFinite ==
  ASSUME NEW T, NEW s \in Seq(T), NEW S
  PROVE  IsFiniteSet(Hits(s, S)) /\ Cardinality(Hits(s, S)) \in Nat
<1>1. IsFiniteSet(1..Len(s)) /\ Hits(s, S) \in SUBSET (1..Len(s))
  BY FS_Interval DEF Hits
<1>2. QED
  BY <1>1, FS_Subset, FS_CardinalityType

LEMMA HitsAppend ==
  ASSUME NEW T, NEW s \in Seq(T), NEW e \in T, NEW S
  PROVE  Cardinality(Hits(Append(s, e), S)) = Cardinality(Hits(s, S)) + (IF e \in S THEN 1 ELSE 0)
<1>1. Hits(Append(s, e), S) = IF e \in S THEN Hits(s, S) \cup {Len(s) + 1} ELSE Hits(s, S)
  BY AppendProperties DEF Hits
<1>2. Len(s) + 1 \notin Hits(s, S)
  BY DEF Hits
<1>3. IsFiniteSet(Hits(s, S)) /\ Cardinality(Hits(s, S)) \in Nat
  BY HitsFinite
<1>4. Cardinality(Hits(s, S) \cup {Len(s) + 1}) = Cardinality(Hits(s, S)) + 1
  BY <1>2, <1>3, FS_AddElement
<1>5. QED
  BY <1>1, <1>3, <1>4

LEMMA RemovedProperties ==
  ASSUME NEW T, NEW s \in Seq(T), NEW k \in DOMAIN s
  PROVE  /\ Removed(s, k) \in Seq(T)
         /\ Len(Removed(s, k)) = Len(s) - 1
         /\ \A i \in 1..(Len(s) - 1) : Removed(s, k)[i] = IF i < k THEN s[i] ELSE s[i + 1]
<1>1. k \in 1..Len(s) /\ Len(s) \in Nat
  OBVIOUS
<1>2. /\ SubSeq(s, 1, k - 1) \in Seq(T) /\ Len(SubSeq(s, 1, k - 1)) = k - 1
      /\ \A i \in 1..(k - 1) : SubSeq(s, 1, k - 1)[i] = s[i]
  BY <1>1
<1>3. /\ SubSeq(s, k + 1, Len(s)) \in Seq(T) /\ Len(SubSeq(s, k + 1, Len(s))) = Len(s) - k
      /\ \A i \in 1..(Len(s) - k) : SubSeq(s, k + 1, Len(s))[i] = s[i + k]
  BY <1>1
<1>4. /\ Removed(s, k) \in Seq(T)
      /\ Len(Removed(s, k)) = (k - 1) + (Len(s) - k)
      /\ \A i \in 1..((k - 1) + (Len(s) - k)) :
           Removed(s, k)[i] = IF i <= k - 1 THEN SubSeq(s, 1, k - 1)[i]
                              ELSE SubSeq(s, k + 1, Len(s))[i - (k - 1)]
  <2> DEFINE a == SubSeq(s, 1, k - 1)
             b == SubSeq(s, k + 1, Len(s))
  <2>1. a \in Seq(T) /\ Len(a) = k - 1 /\ b \in Seq(T) /\ Len(b) = Len(s) - k
    BY <1>2, <1>3
  <2>2. Removed(s, k) = a \o b
    BY DEF Removed
  <2> HIDE DEF a, b
  <2>3. /\ a \o b \in Seq(T)
        /\ Len(a \o b) = Len(a) + Len(b)
        /\ \A i \in 1..(Len(a) + Len(b)) : (a \o b)[i] = IF i <= Len(a) THEN a[i] ELSE b[i - Len(a)]
    BY <2>1, ConcatProperties
  <2>4. QED
    BY <2>1, <2>2, <2>3 DEF a, b
<1>5. (k - 1) + (Len(s) - k) = Len(s) - 1
  BY <1>1
<1>6. ASSUME NEW i \in 1..(Len(s) - 1)
      PROVE  Removed(s, k)[i] = IF i < k THEN s[i] ELSE s[i + 1]
  <2>1. CASE i < k
    BY SMTT(30), <1>1, <1>2, <1>4, <1>5, <2>1
  <2>2. CASE ~(i < k)
    <3>1. i - (k - 1) \in 1..(Len(s) - k) /\ i - (k - 1) + k = i + 1 /\ ~(i <= k - 1)
      BY <1>1, <2>2
    <3>2. Removed(s, k)[i] = SubSeq(s, k + 1, Len(s))[i - (k - 1)]
      BY <1>4, <1>5, <3>1
    <3>3. QED
      BY <1>3, <2>2, <3>1, <3>2
  <2>3. QED
    BY <2>1, <2>2
<1>7. QED
  BY <1>4, <1>5, <1>6

LEMMA HitsRemoved ==
  ASSUME NEW T, NEW s \in Seq(T), NEW k \in DOMAIN s, NEW S
  PROVE  Cardinality(Hits(s, S)) = Cardinality(Hits(Removed(s, k), S)) + (IF s[k] \in S THEN 1 ELSE 0)
<1> DEFINE t == Removed(s, k)
           A == Hits(t, S)
           B == Hits(s, S) \ {k}
           f == [i \in A |-> IF i < k THEN i ELSE i + 1]
<1>0. k \in 1..Len(s) /\ Len(s) \in Nat
  OBVIOUS
<1>b. /\ DOMAIN t = 1..(Len(s) - 1)
      /\ \A i \in 1..(Len(s) - 1) : t[i] = IF i < k THEN s[i] ELSE s[i + 1]
  <2>1. /\ t \in Seq(T)
        /\ Len(t) = Len(s) - 1
        /\ \A i \in 1..(Len(s) - 1) : t[i] = IF i < k THEN s[i] ELSE s[i + 1]
    BY RemovedProperties
  <2> HIDE DEF t
  <2>2. QED
    BY <2>1, <1>0
<1> HIDE DEF t
<1>1. \A i \in A : f[i] \in B
  BY <1>0, <1>b DEF Hits
<1>2. \A j \in B : \E i \in A : f[i] = j
  <2> TAKE j \in B
  <2> DEFINE i == IF j < k THEN j ELSE j - 1
  <2>1. j \in 1..Len(s) /\ j # k /\ s[j] \in S
    BY DEF Hits
  <2>2. i \in 1..(Len(s) - 1) /\ t[i] = s[j]
    BY <1>0, <1>b, <2>1
  <2>3. i \in A
    BY <1>b, <2>1, <2>2 DEF Hits
  <2>4. f[i] = j
    BY <2>1, <2>3, <1>0
  <2>5. QED
    BY <2>3, <2>4
<1>3. \A i, j \in A : f[i] = f[j] => i = j
  BY <1>0, <1>b DEF Hits
<1>4. f \in Bijection(A, B)
  <2> HIDE DEF A, B
  <2>1. f \in [A -> B]
    BY <1>1
  <2> HIDE DEF f
  <2>2. QED
    BY <2>1, <1>2, <1>3, Fun_IsBij
<1>5. IsFiniteSet(A) /\ Cardinality(A) = Cardinality(B)
  <2>1. t \in Seq(T)
    BY RemovedProperties DEF t
  <2>2. IsFiniteSet(A)
    BY <2>1, HitsFinite
  <2> HIDE DEF A, B
  <2>3. QED
    BY <1>4, <2>2, FS_Bijection DEF ExistsBijection
<1>6. Cardinality(B) = IF k \in Hits(s, S) THEN Cardinality(Hits(s, S)) - 1 ELSE Cardinality(Hits(s, S))
  BY HitsFinite, FS_RemoveElement
<1>7. k \in Hits(s, S) <=> s[k] \in S
  BY DEF Hits
<1>8. Cardinality(Hits(s, S)) \in Nat
  BY HitsFinite
<1>9. QED
  BY <1>5, <1>6, <1>7, <1>8 DEF t

LEMMA HitsTail ==
  ASSUME NEW T, NEW s \in Seq(T), s # <<>>, NEW S
  PROVE  Cardinality(Hits(s, S)) = Cardinality(Hits(Tail(s), S)) + (IF Head(s) \in S THEN 1 ELSE 0)
<1>1. Len(s) \in Nat /\ Len(s) # 0 /\ 1 \in DOMAIN s /\ Head(s) = s[1]
  OBVIOUS
<1>2. Tail(s) = Removed(s, 1)
  <2>1. SubSeq(s, 1, 1 - 1) = <<>>
    BY SubSeqEmpty
  <2>2. Tail(s) = SubSeq(s, 1 + 1, Len(s)) /\ SubSeq(s, 1 + 1, Len(s)) \in Seq(T)
    BY TailIsSubSeq, HeadTailProperties
  <2>3. QED
    BY <2>1, <2>2, ConcatEmptySeq DEF Removed
<1>3. Cardinality(Hits(s, S)) = Cardinality(Hits(Removed(s, 1), S)) + (IF s[1] \in S THEN 1 ELSE 0)
  <2>1. 1 \in DOMAIN s
    BY <1>1
  <2>2. QED
    BY <2>1, HitsRemoved
<1>4. QED
  BY <1>1, <1>2, <1>3

(* Which message is where after one is appended, or the oldest is taken.   *)
LEMMA AppendIndexed ==
  ASSUME NEW T, NEW s \in Seq(T), NEW e \in T
  PROVE  /\ Append(s, e) \in Seq(T) /\ Append(s, e) # <<>>
         /\ DOMAIN Append(s, e) = DOMAIN s \cup {Len(s) + 1}
         /\ Len(s) + 1 \notin DOMAIN s
         /\ \A k \in DOMAIN s : k \in Nat /\ k < Len(s) + 1 /\ Append(s, e)[k] = s[k]
         /\ Append(s, e)[Len(s) + 1] = e
BY AppendProperties

LEMMA TailIndexed ==
  ASSUME NEW T, NEW s \in Seq(T), s # <<>>
  PROVE  /\ Tail(s) \in Seq(T) /\ 1 \in DOMAIN s /\ Head(s) = s[1] /\ s[1] \in T
         /\ \A k \in DOMAIN Tail(s) :
              k \in Nat /\ k + 1 \in DOMAIN s /\ k + 1 # 1 /\ Tail(s)[k] = s[k + 1]
         /\ \A k \in DOMAIN s :
              k \in Nat /\ k >= 1 /\ (k # 1 => k - 1 \in DOMAIN Tail(s) /\ Tail(s)[k - 1] = s[k])
         /\ Len(s) = 1 => Tail(s) = <<>>
<1>1. /\ Tail(s) \in Seq(T) /\ Len(Tail(s)) = Len(s) - 1
      /\ \A k \in 1..Len(Tail(s)) : Tail(s)[k] = s[k + 1]
  OBVIOUS
<1>2. QED
  BY <1>1

(* A set of naturals that is not empty has a least element.                *)
LEMMA LeastElement ==
  ASSUME NEW S \in SUBSET Nat, S # {}
  PROVE  \E s \in S : \A r \in S : s <= r
<1> DEFINE R == {p \in Nat \X Nat : p[1] < p[2]}
<1>1. IsWellFoundedOn(R, Nat)
  BY NatLessThanWellFounded DEF OpToRel
<1>2. PICK s \in S : \A r \in S : <<r, s>> \notin R
  <2> HIDE DEF R
  <2>1. QED
    BY <1>1, WFMin
<1>3. ASSUME NEW r \in S PROVE s <= r
  <2>1. <<r, s>> \in Nat \X Nat /\ <<r, s>>[1] = r /\ <<r, s>>[2] = s
    OBVIOUS
  <2>2. ~(r < s)
    BY <1>2, <2>1
  <2>3. QED
    BY <2>2
<1>4. QED
  BY <1>3

----------------------------------------------------------------------------
Live(t) == at[t] # "gone"
Holds(t, s) == pool[s].reserved /\ pool[s].pid = t

(* Where what a test has asked for may be: with the engine, in the write   *)
(* queue of its slave (pool[s].out), with the slave, back in its inbox.    *)
Asks(t) == \E k \in DOMAIN queue : queue[k].from = t
Owed(s) == \E k \in DOMAIN answers[s] : answers[s][k].type # "ready"
Heard(t) == \E k \in DOMAIN inbox[t] : inbox[t][k].type = "response"

(* The step of its script in which a test asks this, and is told that.     *)
Waits(t, type) ==
  \/ at[t] = "gone"
  \/ at[t] = "allocating" /\ type \in {"allocate", "reserve"}
  \/ at[t] = "starting" /\ type \in {"run", "started", "error"}
  \/ at[t] = "freeing" /\ type \in {"free", "release"}

(* No remote run of the test that has the slave, nor news of one.          *)
Quiet(s) ==
  /\ ~session[s].busy /\ inbox[pool[s].pid] = <<>>
  /\ \A k \in DOMAIN answers[s] : answers[s][k].type # "ready"

EntryInv ==
  \A s \in Slaves :
    /\ pool[s].open = pool[s].reserved
    /\ pool[s].reserved => pool[s].pid \in Tests /\ pool[s].name = pool[s].pid
    /\ ~pool[s].reserved =>
         pool[s].runs = 0 /\ pool[s].out = <<>> /\ answers[s] = <<>> /\ ~session[s].busy
    /\ \A r \in Slaves : pool[r].name = pool[s].name /\ pool[s].name # Nobody => r = s
    /\ ~pool[s].reserved /\ pool[s].name # Nobody =>
         at[pool[s].name] \in {"allocating", "gone"} /\ ~Asks(pool[s].name)

(* A test that waits for the engine has one request, command, answer or    *)
(* response on its way, and no more.                                       *)
Orderly(q) ==
  \A j \in DOMAIN q :
    /\ \A k \in DOMAIN q : q[k].from = q[j].from => k = j
    /\ ~Heard(q[j].from) /\ Waits(q[j].from, q[j].type)
    /\ q[j].type = "allocate" =>
         inbox[q[j].from] = <<>> /\ \A s \in Slaves : pool[s].name # q[j].from
    /\ q[j].type # "allocate" => \E s \in Slaves : Holds(q[j].from, s)
    /\ q[j].type = "free" => \A s \in Slaves : Holds(q[j].from, s) => Quiet(s)

QueueInv == Orderly(queue)

OutOk(s) == pool[s].out # <<>> =>
  /\ Len(pool[s].out) = 1 /\ pool[s].out[1].from = pool[s].pid
  /\ ~Asks(pool[s].pid) /\ ~Heard(pool[s].pid) /\ ~Owed(s)
  /\ Waits(pool[s].pid, pool[s].out[1].type)
  /\ pool[s].out[1].type # "run" => Quiet(s)

AnswerOk(s) == \A k \in DOMAIN answers[s] : answers[s][k].type # "ready" =>
  /\ \A j \in DOMAIN answers[s] : answers[s][j].type # "ready" => j = k
  /\ ~Asks(pool[s].pid) /\ ~Heard(pool[s].pid)
  /\ Waits(pool[s].pid, answers[s][k].type)
  /\ answers[s][k].type \in {"reserve", "release"} => Quiet(s)

OutInv == \A s \in Slaves : OutOk(s)
AnswerInv == \A s \in Slaves : AnswerOk(s)

InboxOk(t) ==
  /\ at[t] \in {"gone", "idle"} => inbox[t] = <<>>
  /\ at[t] = "idle" => \A s \in Slaves : pool[s].name # t
  /\ at[t] \in {"holding", "starting"} => \E s \in Slaves : Holds(t, s)
  /\ Heard(t) => at[t] \in Blocked
  /\ \A j, k \in DOMAIN inbox[t] :
       inbox[t][j].type = "response" /\ inbox[t][k].type = "response" => j = k
  /\ Heard(t) /\ at[t] = "allocating" => \E s \in Slaves : Holds(t, s)
  /\ Heard(t) /\ at[t] = "freeing" => Len(inbox[t]) = 1 /\ \A s \in Slaves : pool[s].name # t

InboxInv == \A t \in Tests : InboxOk(t)

(* The ends of remote runs that are still to be told of: a test knows each *)
(* of them, or is about to be told that it has begun.  The slave is in     *)
(* session e, its answers are a, the inbox of the test is i and the remote *)
(* runs it knows of are p.                                                 *)
ReadyAt(q, c) == \E k \in DOMAIN q : q[k].type = "ready" /\ q[k].case = c
Unreported(e, a, i, c) == (e.busy /\ c = e.cases) \/ ReadyAt(a, c) \/ ReadyAt(i, c)
Known(e, a, i, p, c) ==
  \/ <<e.id, c>> \in p
  \/ \E k \in DOMAIN a : a[k].type = "started" /\ a[k].case = c
  \/ \E k \in DOMAIN i : i[k].type = "response" /\ i[k].case = c

OfSession(e, a, i) ==
  /\ \A k \in DOMAIN a : a[k].id = e.id
  /\ \A k \in DOMAIN i : i[k].id = e.id

OnceOnly(e, a, i) ==
  /\ \A j, k \in DOMAIN a : a[j].type = "ready" /\ a[k].type = "ready" /\ a[j].case = a[k].case => j = k
  /\ \A j, k \in DOMAIN i : i[j].type = "ready" /\ i[k].type = "ready" /\ i[j].case = i[k].case => j = k
  /\ \A c \in Nat : ~(ReadyAt(a, c) /\ ReadyAt(i, c))
  /\ e.busy => ~ReadyAt(a, e.cases) /\ ~ReadyAt(i, e.cases)

Consistent(e, a, i, p) ==
  /\ OfSession(e, a, i) /\ OnceOnly(e, a, i)
  /\ \A c \in Nat : Unreported(e, a, i, c) => c > 0 /\ c <= e.cases /\ Known(e, a, i, p, c)

CaseOk(s) == pool[s].reserved /\ Live(pool[s].pid) =>
  Consistent(session[s], answers[s], inbox[pool[s].pid], pending[pool[s].pid])

CaseInv == \A s \in Slaves : CaseOk(s)

(* The count of a slave is exact: not so of an entry that was freed early, *)
(* which is closed with its count.                                         *)
RunsCounted == \A s \in Slaves : pool[s].runs = Ongoing(s)

(* The same of one slave.                                                  *)
Counted(s) ==
  pool[s].runs = Count(pool[s].out, {"run"}) + Count(answers[s], {"ready", "error"})
                 + (IF session[s].busy THEN 1 ELSE 0)

BoundInv == \A s \in Slaves : pool[s].runs + Count(queue, {"run"}) <= started

IInv == DataOK /\ EntryInv /\ QueueInv /\ OutInv /\ AnswerInv /\ InboxInv /\ CaseInv /\ RunsCounted /\ BoundInv

----------------------------------------------------------------------------
(* Distinct names, as in MCSlavePool.cfg.                                  *)
LEMMA OwnName == ASSUME ~OneName PROVE \A t : Name(t) = t
BY DEF Name

LEMMA FirstIsLeast ==
  ASSUME NEW S \in SUBSET Slaves, NEW s \in S, \A r \in S : s <= r
  PROVE  First(S) = s
<1>1. PICK f : f = First(S)
  OBVIOUS
<1>2. f \in S /\ \A r \in S : f <= r
  BY <1>1 DEF First
<1>3. f \in Nat /\ s \in Nat /\ f <= s /\ s <= f
  BY <1>2, PoolAssumption DEF Slaves
<1>4. QED
  BY <1>1, <1>3

LEMMA LeastIsFirst ==
  ASSUME NEW S \in SUBSET Slaves, S # {}
  PROVE  First(S) \in S /\ \A r \in S : First(S) <= r
<1>1. S \in SUBSET Nat
  BY PoolAssumption DEF Slaves
<1>2. \E s \in S : \A r \in S : s <= r
  BY <1>1, LeastElement
<1>3. QED
  BY <1>2 DEF First

(* Counting messages of some types.                                        *)
LEMMA CountIsHits ==
  ASSUME NEW T, NEW q \in Seq(T), NEW types
  PROVE  Count(q, types) = Cardinality(Hits(q, {m \in T : m.type \in types}))
<1>1. {k \in DOMAIN q : q[k].type \in types} = Hits(q, {m \in T : m.type \in types})
  BY DEF Hits
<1>2. QED
  BY <1>1 DEF Count

LEMMA CountAppend ==
  ASSUME NEW T, NEW q \in Seq(T), NEW types, NEW m \in T
  PROVE  /\ Count(q, types) \in Nat
         /\ Count(Append(q, m), types) = Count(q, types) + (IF m.type \in types THEN 1 ELSE 0)
<1> DEFINE S == {n \in T : n.type \in types}
<1>1. Append(q, m) \in Seq(T) /\ (m \in S <=> m.type \in types)
  OBVIOUS
<1>2. \A r \in Seq(T) : Count(r, types) = Cardinality(Hits(r, S))
  BY CountIsHits
<1> HIDE DEF S
<1>3. Cardinality(Hits(Append(q, m), S)) = Cardinality(Hits(q, S)) + (IF m \in S THEN 1 ELSE 0)
  BY HitsAppend
<1>4. Cardinality(Hits(q, S)) \in Nat
  BY HitsFinite
<1>5. QED
  BY <1>1, <1>2, <1>3, <1>4

LEMMA CountTail ==
  ASSUME NEW T, NEW q \in Seq(T), NEW types, q # <<>>
  PROVE  /\ Count(Tail(q), types) \in Nat /\ Count(q, types) \in Nat
         /\ Count(q, types) = Count(Tail(q), types) + (IF Head(q).type \in types THEN 1 ELSE 0)
<1> DEFINE S == {n \in T : n.type \in types}
<1>1. Tail(q) \in Seq(T) /\ (Head(q) \in S <=> Head(q).type \in types)
  <2>1. Tail(q) \in Seq(T) /\ Head(q) \in T
    OBVIOUS
  <2>2. QED
    BY <2>1
<1>2. \A r \in Seq(T) : Count(r, types) = Cardinality(Hits(r, S))
  BY CountIsHits
<1> HIDE DEF S
<1>3. Cardinality(Hits(q, S)) = Cardinality(Hits(Tail(q), S)) + (IF Head(q) \in S THEN 1 ELSE 0)
  BY HitsTail
<1>4. Cardinality(Hits(Tail(q), S)) \in Nat /\ Cardinality(Hits(q, S)) \in Nat
  BY <1>1, HitsFinite
<1>5. QED
  BY <1>1, <1>2, <1>3, <1>4

LEMMA CountEmpty == ASSUME NEW types PROVE Count(<<>>, types) = 0
<1>1. {k \in DOMAIN <<>> : <<>>[k].type \in types} = {}
  OBVIOUS
<1>2. QED
  BY <1>1, FS_EmptySet DEF Count

LEMMA CountNone ==
  ASSUME NEW T, NEW q \in Seq(T), NEW types, \A k \in DOMAIN q : q[k].type \notin types
  PROVE  Count(q, types) = 0
<1>1. {k \in DOMAIN q : q[k].type \in types} = {}
  OBVIOUS
<1>2. QED
  BY <1>1, FS_EmptySet DEF Count

LEMMA CountOne ==
  ASSUME NEW m, NEW types
  PROVE  Count(<<m>>, types) = IF m.type \in types THEN 1 ELSE 0
<1>1. \A z : Cardinality({z}) = 1
  BY FS_Singleton
<1>2. {k \in DOMAIN <<m>> : <<m>>[k].type \in types} = IF m.type \in types THEN {1} ELSE {}
  OBVIOUS
<1>3. QED
  BY <1>1, <1>2, FS_EmptySet DEF Count

LEMMA CountType == ASSUME NEW T, NEW q \in Seq(T), NEW types PROVE Count(q, types) \in Nat
<1>1. Count(q, types) = Cardinality(Hits(q, {m \in T : m.type \in types}))
  BY CountIsHits
<1>2. QED
  BY <1>1, HitsFinite

(* The fields of the state of one slave and of one test.                   *)
LEMMA Fields ==
  ASSUME DataOK
  PROVE  /\ \A s \in Slaves :
              /\ pool[s] \in Entry /\ pool[s].reserved \in BOOLEAN /\ pool[s].open \in BOOLEAN
              /\ pool[s].name \in Tests \cup {Nobody} /\ pool[s].pid \in Tests \cup {Nobody}
              /\ pool[s].id \in Nat /\ pool[s].runs \in Nat /\ pool[s].runs <= MaxRuns
              /\ pool[s].out \in Seq(Command)
              /\ session[s] \in Session /\ session[s].id \in Nat /\ session[s].cases \in Nat
              /\ session[s].busy \in BOOLEAN /\ answers[s] \in Seq(Answer)
         /\ \A t \in Tests : inbox[t] \in Seq(Notice) /\ pending[t] \subseteq Id \X Nat
         /\ DOMAIN at = Tests /\ DOMAIN inbox = Tests /\ DOMAIN pending = Tests
         /\ DOMAIN pool = Slaves /\ DOMAIN session = Slaves /\ DOMAIN answers = Slaves
         /\ allocs \in Nat /\ started \in Nat /\ lastId \in Nat /\ started <= MaxRuns
BY PoolAssumption DEF DataOK, Entry, Session, Id

LEMMA InitIInv == Init => IInv
<1> SUFFICES ASSUME Init PROVE IInv
  OBVIOUS
<1>1. DataOK
  <2>1. pool \in [Slaves -> Entry]
    BY PoolAssumption DEF Init, Entry, Id
  <2>2. session \in [Slaves -> Session] /\ answers \in [Slaves -> Seq(Answer)]
    BY DEF Init, Session, Unconnected, Id
  <2>3. /\ allocs \in 0..MaxAllocs /\ started \in 0..MaxRuns /\ lastId \in Id
        /\ queue \in Seq(Request)
    BY PoolAssumption DEF Init, Id
  <2>4. /\ at \in [Tests -> {"idle", "holding", "gone"} \cup Blocked]
        /\ pending \in [Tests -> SUBSET (Id \X Nat)] /\ inbox \in [Tests -> Seq(Notice)]
    BY DEF Init
  <2>5. QED
    BY <2>1, <2>2, <2>3, <2>4 DEF DataOK
<1>2. /\ queue = <<>> /\ \A t \in Tests : at[t] = "idle" /\ inbox[t] = <<>>
      /\ \A s \in Slaves :
           /\ pool[s].reserved = FALSE /\ pool[s].open = FALSE /\ pool[s].name = Nobody /\ pool[s].runs = 0
           /\ pool[s].out = <<>> /\ answers[s] = <<>> /\ ~session[s].busy
  BY DEF Init, Unconnected
<1>3. EntryInv /\ QueueInv /\ OutInv /\ AnswerInv /\ CaseInv
  <2>1. EntryInv
    BY <1>2 DEF EntryInv
  <2>2. OutInv
    BY <1>2 DEF OutInv, OutOk
  <2>3. CaseInv
    BY <1>2 DEF CaseInv, CaseOk
  <2>4. QueueInv /\ AnswerInv
    BY <1>2 DEF QueueInv, Orderly, AnswerInv, AnswerOk
  <2>5. QED
    BY <2>1, <2>2, <2>3, <2>4
<1>4. InboxInv
  BY <1>2, PoolAssumption DEF InboxInv, InboxOk, Heard
<1>5. \A types : Count(<<>>, types) = 0
  BY CountEmpty
<1>6. RunsCounted
  BY <1>2, <1>5 DEF RunsCounted, Ongoing
<1>7. BoundInv
  BY <1>2, <1>5 DEF Init, BoundInv
<1>8. QED
  BY <1>1, <1>3, <1>4, <1>6, <1>7 DEF IInv

----------------------------------------------------------------------------
(* Requests of a test.                                                     *)

(* A test that does not wait for the engine has nothing on its way.        *)
LEMMA NothingOnItsWay ==
  ASSUME IInv, NEW t \in Tests, at[t] \in {"idle", "holding"}
  PROVE  /\ ~Asks(t) /\ ~Heard(t)
         /\ \A s \in Slaves : Holds(t, s) => pool[s].out = <<>> /\ ~Owed(s)
<1>1. \A type : ~Waits(t, type)
  BY DEF Waits
<1>2. ~Asks(t) /\ ~Heard(t)
  BY <1>1 DEF IInv, QueueInv, Orderly, InboxInv, InboxOk, Asks, Blocked
<1>3. \A s \in Slaves : Holds(t, s) => pool[s].out = <<>> /\ ~Owed(s)
  BY <1>1 DEF IInv, OutInv, OutOk, AnswerInv, AnswerOk, Holds, Owed
<1>4. QED
  BY <1>2, <1>3

(* A test that knows of no remote run and waits for nothing has none.      *)
LEMMA QuietWhenComplete ==
  ASSUME IInv, NEW t \in Tests, at[t] = "holding", pending[t] = {}, NEW s \in Slaves, Holds(t, s)
  PROVE  Quiet(s)
<1>1. ~Heard(t) /\ ~Owed(s)
  BY NothingOnItsWay
<1>2. inbox[t] \in Seq(Notice) /\ answers[s] \in Seq(Answer) /\ session[s].cases \in Nat
  BY Fields DEF IInv
<1>3. \A c \in Nat : ~Unreported(session[s], answers[s], inbox[t], c)
  <2>1. pool[s].reserved /\ pool[s].pid = t /\ Live(t)
    BY DEF Holds, Live
  <2>2. \A c \in Nat : Unreported(session[s], answers[s], inbox[t], c) => Known(session[s], answers[s], inbox[t], {}, c)
    BY <2>1 DEF IInv, CaseInv, CaseOk, Consistent
  <2>3. \A c : ~Known(session[s], answers[s], inbox[t], {}, c)
    BY <1>1 DEF Known, Heard, Owed
  <2>4. QED
    BY <2>2, <2>3
<1>4. ~session[s].busy
  BY <1>2, <1>3 DEF Unreported
<1>5. \A k \in DOMAIN answers[s] : answers[s][k].type # "ready"
  <2>1. \A k \in DOMAIN answers[s] : answers[s][k] \in Answer
    BY <1>2
  <2>2. \A k \in DOMAIN answers[s] : answers[s][k].case \in Nat
    BY <2>1 DEF Answer
  <2>3. QED
    BY <1>3, <2>2 DEF Unreported, ReadyAt
<1>6. inbox[t] = <<>>
  <2>1. \A k \in DOMAIN inbox[t] : inbox[t][k] \in Notice
    BY <1>2
  <2>2. \A k \in DOMAIN inbox[t] : inbox[t][k].type = "ready" /\ inbox[t][k].case \in Nat
    BY <1>1, <2>1 DEF Notice, Heard
  <2>3. \A k : k \notin DOMAIN inbox[t]
    BY <1>3, <2>2 DEF Unreported, ReadyAt
  <2>4. Len(inbox[t]) = 0
    <3>1. DOMAIN inbox[t] = 1..Len(inbox[t]) /\ Len(inbox[t]) \in Nat /\ 1 \notin DOMAIN inbox[t]
      BY <1>2, <2>3
    <3>2. QED
      BY <3>1
  <2>5. QED
    BY <1>2, <2>4
<1>7. QED
  BY <1>4, <1>5, <1>6 DEF Quiet, Holds

LEMMA AskStep ==
  ASSUME IInv, NEW t \in Tests, NEW type, NEW where, Ask(t, type, where),
         allocs' \in 0..MaxAllocs, started' \in 0..MaxRuns,
         \/ at[t] = "idle" /\ type = "allocate" /\ where = "allocating" /\ started' = started
         \/ at[t] = "holding" /\ type = "run" /\ where = "starting" /\ started' = started + 1
         \/ /\ at[t] = "holding" /\ type = "free" /\ where = "freeing" /\ started' = started
            /\ pending[t] = {}
  PROVE  IInv'
<1> DEFINE m == [type |-> type, from |-> t]
<1>1. /\ queue' = Append(queue, m) /\ at' = [at EXCEPT ![t] = where]
      /\ UNCHANGED <<pending, inbox, pool, lastId, session, answers>>
  BY DEF Ask
<1>2. m \in Request /\ m.type = type /\ m.from = t
  BY DEF Request
<1> HIDE DEF m
<1>3. DataOK
  BY DEF IInv
<1>4. /\ queue' \in Seq(Request) /\ DOMAIN queue' = DOMAIN queue \cup {Len(queue) + 1}
      /\ Len(queue) + 1 \notin DOMAIN queue
      /\ \A k \in DOMAIN queue : queue'[k] = queue[k]
      /\ queue'[Len(queue) + 1] = m
  BY <1>1, <1>2, <1>3, AppendIndexed DEF DataOK
<1>5. at'[t] = where /\ \A u : u # t => at'[u] = at[u]
  BY <1>1, <1>3 DEF DataOK
<1>6. /\ \A u : Asks(u)' <=> Asks(u) \/ u = t
      /\ \A u : Heard(u)' <=> Heard(u)
      /\ \A s : Owed(s)' <=> Owed(s)
      /\ \A s : Quiet(s)' <=> Quiet(s)
      /\ \A u, s : Holds(u, s)' <=> Holds(u, s)
      /\ \A u, ty : u # t => (Waits(u, ty)' <=> Waits(u, ty))
  <2>1. \A u : Asks(u)' <=> Asks(u) \/ u = t
    BY <1>2, <1>4 DEF Asks
  <2>2. QED
    BY <1>1, <1>5, <2>1 DEF Heard, Owed, Quiet, Holds, Waits
<1>7. ~Asks(t) /\ ~Heard(t) /\ \A s \in Slaves : Holds(t, s) => pool[s].out = <<>> /\ ~Owed(s)
  BY NothingOnItsWay
<1>8. Waits(t, type)'
  BY <1>5 DEF Waits
<1>9. \A s \in Slaves : pool[s].out # <<>> \/ Owed(s) => pool[s].reserved /\ pool[s].pid # t
  <2>1. \A s \in Slaves : pool[s].out # <<>> \/ Owed(s) => pool[s].reserved
    BY DEF IInv, EntryInv, Owed
  <2>2. QED
    BY <1>7, <2>1 DEF Holds
<1>10. DataOK'
  BY <1>1, <1>3, <1>4 DEF DataOK, Blocked
<1>11. EntryInv'
  BY <1>1, <1>5, <1>6 DEF IInv, EntryInv
<1>12. QueueInv'
  <2>1. \A k \in DOMAIN queue : queue[k].from # t
    BY <1>7 DEF Asks
  <2>2. type = "allocate" => inbox[t] = <<>> /\ \A s \in Slaves : pool[s].name # t
    BY DEF IInv, InboxInv, InboxOk
  <2>3. type # "allocate" => \E s \in Slaves : Holds(t, s)
    BY DEF IInv, InboxInv, InboxOk
  <2>4. type = "free" => \A s \in Slaves : Holds(t, s) => Quiet(s)
    BY QuietWhenComplete
  <2>5. ASSUME NEW j \in DOMAIN queue
        PROVE  /\ ~Heard(queue[j].from) /\ Waits(queue[j].from, queue[j].type)
               /\ queue[j].type = "allocate" =>
                    inbox[queue[j].from] = <<>> /\ \A s \in Slaves : pool[s].name # queue[j].from
               /\ queue[j].type # "allocate" => \E s \in Slaves : Holds(queue[j].from, s)
               /\ queue[j].type = "free" => \A s \in Slaves : Holds(queue[j].from, s) => Quiet(s)
               /\ \A k \in DOMAIN queue : queue[k].from = queue[j].from => k = j
    BY DEF IInv, QueueInv, Orderly
  <2>6. QED
    BY <1>1, <1>2, <1>4, <1>6, <1>7, <1>8, <2>1, <2>2, <2>3, <2>4, <2>5 DEF QueueInv, Orderly
<1>13. OutInv'
  BY <1>1, <1>6, <1>9 DEF IInv, OutInv, OutOk
<1>14. AnswerInv'
  BY <1>1, <1>6, <1>9 DEF IInv, AnswerInv, AnswerOk, Owed
<1>15. InboxInv'
  BY <1>1, <1>5, <1>6, <1>7 DEF IInv, InboxInv, InboxOk, Blocked
<1>16. CaseInv'
  BY <1>1, <1>5 DEF IInv, CaseInv, CaseOk, Live
<1>17. RunsCounted' /\ BoundInv'
  <2>1. Count(queue, {"run"}) \in Nat /\ Count(queue', {"run"}) = Count(queue, {"run"}) + (IF type = "run" THEN 1 ELSE 0)
    BY <1>1, <1>2, <1>3, CountAppend DEF DataOK
  <2>2. \A s \in Slaves : pool[s].runs \in Nat
    BY <1>3, Fields
  <2>3. started \in Nat
    BY <1>3, Fields
  <2>4. BoundInv'
    <3>1. (Count(queue, {"run"}))' = Count(queue', {"run"})
      BY DEF Count
    <3>2. QED
      BY <1>1, <2>1, <2>2, <2>3, <3>1 DEF IInv, BoundInv
  <2>5. RunsCounted'
    BY <1>1 DEF IInv, RunsCounted, Ongoing, Count
  <2>6. QED
    BY <2>4, <2>5
<1>18. QED
  BY <1>10, <1>11, <1>12, <1>13, <1>14, <1>15, <1>16, <1>17 DEF IInv

----------------------------------------------------------------------------
(* What a test hears from the engine.                                      *)

(* A response makes a record of the run that it says has begun.            *)
LEMMA ConsistentResponse ==
  ASSUME NEW e, NEW a, NEW i \in Seq(Notice), NEW p, NEW q,
         Consistent(e, a, i, p), i # <<>>, Head(i).type = "response", p \subseteq q,
         Head(i).case > 0 => <<Head(i).id, Head(i).case>> \in q
  PROVE  Consistent(e, a, Tail(i), q)
<1>1. /\ 1 \in DOMAIN i /\ Head(i) = i[1]
      /\ \A k \in DOMAIN Tail(i) : k \in Nat /\ k + 1 \in DOMAIN i /\ k + 1 # 1 /\ Tail(i)[k] = i[k + 1]
      /\ \A k \in DOMAIN i : k \in Nat /\ k >= 1 /\ (k # 1 => k - 1 \in DOMAIN Tail(i) /\ Tail(i)[k - 1] = i[k])
  BY TailIndexed
<1>2. \A c : ReadyAt(Tail(i), c) => ReadyAt(i, c)
  BY <1>1 DEF ReadyAt
<1>3. OfSession(e, a, Tail(i))
  BY <1>1 DEF Consistent, OfSession
<1>4. OnceOnly(e, a, Tail(i))
  <2>1. ASSUME NEW j \in DOMAIN Tail(i), NEW k \in DOMAIN Tail(i), Tail(i)[j].type = "ready",
               Tail(i)[k].type = "ready", Tail(i)[j].case = Tail(i)[k].case
        PROVE  j = k
    <3>1. j + 1 = k + 1
      BY <1>1, <2>1 DEF Consistent, OnceOnly
    <3>2. QED
      BY <1>1, <3>1
  <2>2. QED
    BY <1>2, <2>1 DEF Consistent, OnceOnly
<1>5. ASSUME NEW c \in Nat, Unreported(e, a, Tail(i), c)
      PROVE  c > 0 /\ c <= e.cases /\ Known(e, a, Tail(i), q, c)
  <2>1. Unreported(e, a, i, c)
    BY <1>2, <1>5 DEF Unreported
  <2>2. c > 0 /\ c <= e.cases /\ Known(e, a, i, p, c)
    BY <2>1 DEF Consistent
  <2>3. CASE \E k \in DOMAIN i : i[k].type = "response" /\ i[k].case = c
    <3>1. PICK k \in DOMAIN i : i[k].type = "response" /\ i[k].case = c
      BY <2>3
    <3>2. CASE k = 1
      <4>1. Head(i).case = c /\ Head(i).id = e.id
        BY <1>1, <2>2, <3>1, <3>2 DEF Consistent, OfSession
      <4>2. QED
        BY <2>2, <4>1 DEF Known
    <3>3. CASE k # 1
      BY <1>1, <2>2, <3>1, <3>3 DEF Known
    <3>4. QED
      BY <3>2, <3>3
  <2>4. QED
    BY <2>2, <2>3 DEF Known
<1>6. QED
  BY <1>3, <1>4, <1>5 DEF Consistent

(* The end of a run removes its record, and no record that is needed.      *)
LEMMA ConsistentReady ==
  ASSUME NEW e, NEW a, NEW i \in Seq(Notice), NEW p,
         Consistent(e, a, i, p), i # <<>>, Head(i).type = "ready"
  PROVE  Consistent(e, a, Tail(i), p \ {<<Head(i).id, Head(i).case>>})
<1>1. /\ 1 \in DOMAIN i /\ Head(i) = i[1] /\ i[1] \in Notice
      /\ \A k \in DOMAIN Tail(i) : k \in Nat /\ k + 1 \in DOMAIN i /\ k + 1 # 1 /\ Tail(i)[k] = i[k + 1]
      /\ \A k \in DOMAIN i : k \in Nat /\ k >= 1 /\ (k # 1 => k - 1 \in DOMAIN Tail(i) /\ Tail(i)[k - 1] = i[k])
  BY TailIndexed
<1>2. \A c : ReadyAt(Tail(i), c) => ReadyAt(i, c)
  BY <1>1 DEF ReadyAt
<1>3. OfSession(e, a, Tail(i))
  BY <1>1 DEF Consistent, OfSession
<1>4. OnceOnly(e, a, Tail(i))
  <2>1. ASSUME NEW j \in DOMAIN Tail(i), NEW k \in DOMAIN Tail(i), Tail(i)[j].type = "ready",
               Tail(i)[k].type = "ready", Tail(i)[j].case = Tail(i)[k].case
        PROVE  j = k
    <3>1. j + 1 = k + 1
      BY <1>1, <2>1 DEF Consistent, OnceOnly
    <3>2. QED
      BY <1>1, <3>1
  <2>2. QED
    BY <1>2, <2>1 DEF Consistent, OnceOnly
<1>5. Head(i).case \in Nat /\ ReadyAt(i, Head(i).case)
  BY <1>1 DEF ReadyAt, Notice
<1>6. ASSUME NEW c \in Nat, Unreported(e, a, Tail(i), c)
      PROVE  /\ c > 0 /\ c <= e.cases
             /\ Known(e, a, Tail(i), p \ {<<Head(i).id, Head(i).case>>}, c)
  <2>1. Unreported(e, a, i, c)
    BY <1>2, <1>6 DEF Unreported
  <2>2. c > 0 /\ c <= e.cases /\ Known(e, a, i, p, c)
    BY <2>1 DEF Consistent
  <2>3. c # Head(i).case
    <3>1. CASE ReadyAt(Tail(i), c)
      <4>1. PICK k \in DOMAIN Tail(i) : Tail(i)[k].type = "ready" /\ Tail(i)[k].case = c
        BY <3>1 DEF ReadyAt
      <4>2. QED
        BY <1>1, <4>1 DEF Consistent, OnceOnly
    <3>2. CASE ReadyAt(a, c) \/ (e.busy /\ c = e.cases)
      BY <1>5, <3>2 DEF Consistent, OnceOnly
    <3>3. QED
      BY <1>6, <3>1, <3>2 DEF Unreported
  <2>4. CASE \E k \in DOMAIN i : i[k].type = "response" /\ i[k].case = c
    BY <1>1, <2>2, <2>4 DEF Known
  <2>5. QED
    BY <2>2, <2>3, <2>4 DEF Known
<1>7. QED
  BY <1>3, <1>4, <1>6 DEF Consistent

(* A test whose script ends, whatever it was waiting for.                  *)
LEMMA GoneStep ==
  ASSUME IInv, NEW t \in Tests, at' = [at EXCEPT ![t] = "gone"], inbox' = [inbox EXCEPT ![t] = <<>>],
         pending' \in [Tests -> SUBSET (Id \X Nat)], \A u \in Tests : u # t => pending'[u] = pending[u],
         UNCHANGED <<allocs, started, queue, pool, lastId, session, answers>>
  PROVE  IInv'
<1>1. DataOK
  BY DEF IInv
<1>2. at'[t] = "gone" /\ inbox'[t] = <<>> /\ \A u : u # t => at'[u] = at[u] /\ inbox'[u] = inbox[u]
  BY <1>1 DEF DataOK
<1>3. /\ \A u : Asks(u)' <=> Asks(u)
      /\ \A u : u # t => (Heard(u)' <=> Heard(u))
      /\ ~Heard(t)'
      /\ \A s : Owed(s)' <=> Owed(s)
      /\ \A s : Quiet(s) => Quiet(s)'
      /\ \A u, s : Holds(u, s)' <=> Holds(u, s)
      /\ \A u, ty : Waits(u, ty) => Waits(u, ty)'
  <2>1. ~Heard(t)'
    BY <1>2 DEF Heard
  <2>2. \A s : Quiet(s) => Quiet(s)'
    BY <1>2 DEF Quiet
  <2>3. QED
    BY <1>2, <2>1, <2>2 DEF Asks, Heard, Owed, Holds, Waits
<1>4. DataOK'
  BY <1>1 DEF DataOK
<1>5. EntryInv'
  BY <1>2, <1>3 DEF IInv, EntryInv
<1>6. QueueInv'
  <2>1. \A u : inbox[u] = <<>> => inbox'[u] = <<>>
    BY <1>2
  <2>2. \A u : ~Heard(u) => ~Heard(u)'
    BY <1>3
  <2>3. QED
    BY <1>3, <2>1, <2>2 DEF IInv, QueueInv, Orderly
<1>7. OutInv' /\ AnswerInv'
  BY <1>3 DEF IInv, OutInv, OutOk, AnswerInv, AnswerOk, Owed
<1>8. InboxInv'
  BY <1>2, <1>3 DEF IInv, InboxInv, InboxOk
<1>9. CaseInv'
  <2>1. ASSUME NEW s \in Slaves, pool[s].reserved, at'[pool[s].pid] # "gone"
        PROVE  pool[s].pid \in Tests /\ pool[s].pid # t /\ at[pool[s].pid] # "gone"
    BY <1>2, <2>1 DEF IInv, EntryInv
  <2>2. QED
    BY <1>2, <2>1 DEF IInv, CaseInv, CaseOk, Live
<1>10. RunsCounted' /\ BoundInv'
  BY DEF IInv, RunsCounted, Ongoing, BoundInv, Count
<1>11. QED
  BY <1>4, <1>5, <1>6, <1>7, <1>8, <1>9, <1>10 DEF IInv

(* What Hear does to an inbox that is kept.                                *)
LEMMA InboxTail ==
  ASSUME DataOK, NEW t \in Tests, inbox[t] # <<>>, inbox' = [inbox EXCEPT ![t] = Tail(@)]
  PROVE  /\ inbox' \in [Tests -> Seq(Notice)] /\ inbox'[t] = Tail(inbox[t])
         /\ \A u : u # t => inbox'[u] = inbox[u]
         /\ Head(inbox[t]) = inbox[t][1] /\ Head(inbox[t]) \in Notice /\ 1 \in DOMAIN inbox[t]
         /\ \A k \in DOMAIN inbox'[t] :
              k \in Nat /\ k + 1 \in DOMAIN inbox[t] /\ k + 1 # 1 /\ inbox'[t][k] = inbox[t][k + 1]
         /\ \A k \in DOMAIN inbox[t] :
              k # 1 => k - 1 \in DOMAIN inbox'[t] /\ inbox'[t][k - 1] = inbox[t][k]
         /\ Len(inbox[t]) = 1 => inbox'[t] = <<>>
<1>1. inbox \in [Tests -> Seq(Notice)] /\ inbox[t] \in Seq(Notice)
  BY DEF DataOK
<1>2. inbox'[t] = Tail(inbox[t]) /\ \A u : u # t => inbox'[u] = inbox[u]
  BY <1>1
<1>3. /\ Tail(inbox[t]) \in Seq(Notice) /\ 1 \in DOMAIN inbox[t]
      /\ Head(inbox[t]) = inbox[t][1] /\ inbox[t][1] \in Notice
      /\ \A k \in DOMAIN Tail(inbox[t]) :
           k \in Nat /\ k + 1 \in DOMAIN inbox[t] /\ k + 1 # 1 /\ Tail(inbox[t])[k] = inbox[t][k + 1]
      /\ \A k \in DOMAIN inbox[t] :
           k \in Nat /\ k >= 1 /\ (k # 1 => k - 1 \in DOMAIN Tail(inbox[t]) /\ Tail(inbox[t])[k - 1] = inbox[t][k])
      /\ Len(inbox[t]) = 1 => Tail(inbox[t]) = <<>>
  BY <1>1, TailIndexed
<1>4. QED
  BY <1>1, <1>2, <1>3

LEMMA HearResponseStep ==
  ASSUME IInv, NEW t \in Tests, inbox[t] # <<>>, HearResponse(t, Head(inbox[t])), Head(inbox[t]).ok,
         inbox' = [inbox EXCEPT ![t] = Tail(@)],
         UNCHANGED <<allocs, started, queue, pool, lastId, session, answers>>
  PROVE  IInv'
<1> DEFINE m == Head(inbox[t])
<1>1. DataOK
  BY DEF IInv
<1>2. /\ inbox' \in [Tests -> Seq(Notice)] /\ inbox'[t] = Tail(inbox[t])
      /\ \A u : u # t => inbox'[u] = inbox[u]
      /\ m = inbox[t][1] /\ m \in Notice /\ 1 \in DOMAIN inbox[t]
      /\ \A k \in DOMAIN inbox'[t] :
           k \in Nat /\ k + 1 \in DOMAIN inbox[t] /\ k + 1 # 1 /\ inbox'[t][k] = inbox[t][k + 1]
      /\ Len(inbox[t]) = 1 => inbox'[t] = <<>>
  BY <1>1, InboxTail
<1>3. m.type = "response" /\ Heard(t) /\ at[t] \in Blocked
  BY <1>2 DEF HearResponse, Heard, IInv, InboxInv, InboxOk
<1>4. at' = [at EXCEPT ![t] = IF at[t] = "freeing" THEN "idle" ELSE "holding"]
  BY <1>3 DEF HearResponse, Answered, Blocked
<1>5. /\ at'[t] = (IF at[t] = "freeing" THEN "idle" ELSE "holding")
      /\ \A u : u # t => at'[u] = at[u]
  BY <1>1, <1>4 DEF DataOK
<1>6. /\ pending' \in [Tests -> SUBSET (Id \X Nat)]
      /\ pending[t] \subseteq pending'[t] /\ \A u : u # t => pending'[u] = pending[u]
      /\ m.case > 0 => <<m.id, m.case>> \in pending'[t]
  <2>1. <<m.id, m.case>> \in Id \X Nat
    BY <1>2 DEF Notice
  <2>2. QED
    BY <1>1, <2>1 DEF HearResponse, DataOK
<1> HIDE DEF m
<1>7. /\ ~Asks(t) /\ ~Heard(t)'
      /\ \A s \in Slaves : pool[s].out # <<>> \/ Owed(s) => pool[s].pid # t
  <2>1. ~Asks(t)
    BY <1>3 DEF IInv, QueueInv, Orderly, Asks
  <2>2. \A s \in Slaves : pool[s].out # <<>> \/ Owed(s) => pool[s].pid # t
    BY <1>3 DEF IInv, OutInv, OutOk, AnswerInv, AnswerOk, Owed
  <2>3. \A k \in DOMAIN inbox[t] : inbox[t][k].type = "response" => k = 1
    BY <1>2, <1>3 DEF IInv, InboxInv, InboxOk
  <2>4. ~Heard(t)'
    BY <1>2, <2>3 DEF Heard
  <2>5. QED
    BY <2>1, <2>2, <2>4
<1>8. /\ \A u : Asks(u)' <=> Asks(u)
      /\ \A u : u # t => (Heard(u)' <=> Heard(u))
      /\ \A s : Owed(s)' <=> Owed(s)
      /\ \A s : pool[s].pid # t => (Quiet(s)' <=> Quiet(s))
      /\ \A u, s : Holds(u, s)' <=> Holds(u, s)
      /\ \A u, ty : u # t => (Waits(u, ty)' <=> Waits(u, ty))
  BY <1>2, <1>5 DEF Asks, Heard, Owed, Quiet, Holds, Waits
<1>9. at'[t] = "holding" => \E s \in Slaves : Holds(t, s)
  BY <1>3, <1>5 DEF IInv, InboxInv, InboxOk, Blocked
<1>10. at'[t] = "idle" => inbox'[t] = <<>> /\ \A s \in Slaves : pool[s].name # t
  BY <1>2, <1>3, <1>5 DEF IInv, InboxInv, InboxOk
<1>11. DataOK'
  BY <1>1, <1>2, <1>4, <1>6 DEF DataOK
<1>12. EntryInv'
  <2>1. ASSUME NEW s \in Slaves, ~pool[s].reserved, pool[s].name = t PROVE FALSE
    <3>1. at[t] \in {"allocating", "gone"}
      BY <2>1, PoolAssumption DEF IInv, EntryInv
    <3>2. PICK r \in Slaves : Holds(t, r)
      BY <1>3, <3>1 DEF Blocked, IInv, InboxInv, InboxOk
    <3>3. pool[r].name = t /\ t # Nobody /\ pool[r].reserved
      BY <3>2, PoolAssumption DEF IInv, EntryInv, Holds
    <3>4. r = s
      BY <2>1, <3>3 DEF IInv, EntryInv
    <3>5. QED
      BY <2>1, <3>3, <3>4
  <2>2. QED
    BY <1>5, <1>8, <2>1 DEF IInv, EntryInv
<1>13. QueueInv'
  <2>1. \A j \in DOMAIN queue : queue[j].from # t
    BY <1>7 DEF Asks
  <2>2. QED
    BY <1>2, <1>8, <2>1 DEF IInv, QueueInv, Orderly, Holds
<1>14. OutInv'
  BY <1>7, <1>8 DEF IInv, OutInv, OutOk
<1>15. AnswerInv'
  BY <1>7, <1>8 DEF IInv, AnswerInv, AnswerOk, Owed
<1>16. InboxInv'
  <2>2. \A j, k \in DOMAIN inbox'[t] :
          inbox'[t][j].type = "response" /\ inbox'[t][k].type = "response" => j = k
    BY <1>7 DEF Heard
  <2>3. at'[t] \notin {"gone", "starting"}
    BY <1>5
  <2>4. QED
    BY <1>2, <1>5, <1>7, <1>8, <1>9, <1>10, <2>2, <2>3 DEF IInv, InboxInv, InboxOk
<1>17. CaseInv'
  <2>1. ASSUME NEW s \in Slaves, pool[s].reserved, pool[s].pid = t
        PROVE  Consistent(session[s], answers[s], inbox'[t], pending'[t])
    <3>1. Consistent(session[s], answers[s], inbox[t], pending[t])
      BY <1>3, <2>1 DEF IInv, CaseInv, CaseOk, Live, Blocked
    <3>2. inbox[t] \in Seq(Notice)
      BY <1>1 DEF DataOK
    <3>3. QED
      BY <1>2, <1>3, <1>6, <3>1, <3>2, ConsistentResponse DEF m
  <2>2. QED
    BY <1>2, <1>5, <1>6, <2>1 DEF IInv, CaseInv, CaseOk, Live
<1>18. RunsCounted' /\ BoundInv'
  BY DEF IInv, RunsCounted, Ongoing, BoundInv, Count
<1>19. QED
  BY <1>11, <1>12, <1>13, <1>14, <1>15, <1>16, <1>17, <1>18 DEF IInv

LEMMA HearReadyStep ==
  ASSUME IInv, NEW t \in Tests, inbox[t] # <<>>, Head(inbox[t]).type = "ready", at' = at,
         pending' = [pending EXCEPT ![t] = @ \ {<<Head(inbox[t]).id, Head(inbox[t]).case>>}],
         inbox' = [inbox EXCEPT ![t] = Tail(@)],
         UNCHANGED <<allocs, started, queue, pool, lastId, session, answers>>
  PROVE  IInv'
<1> DEFINE m == Head(inbox[t])
<1>1. DataOK
  BY DEF IInv
<1>2. /\ inbox' \in [Tests -> Seq(Notice)] /\ inbox'[t] = Tail(inbox[t])
      /\ \A u : u # t => inbox'[u] = inbox[u]
      /\ m = inbox[t][1] /\ m \in Notice /\ 1 \in DOMAIN inbox[t]
      /\ \A k \in DOMAIN inbox'[t] :
           k \in Nat /\ k + 1 \in DOMAIN inbox[t] /\ k + 1 # 1 /\ inbox'[t][k] = inbox[t][k + 1]
      /\ \A k \in DOMAIN inbox[t] :
           k # 1 => k - 1 \in DOMAIN inbox'[t] /\ inbox'[t][k - 1] = inbox[t][k]
  BY <1>1, InboxTail
<1>3. /\ pending'[t] = pending[t] \ {<<m.id, m.case>>} /\ \A u : u # t => pending'[u] = pending[u]
      /\ pending' \in [Tests -> SUBSET (Id \X Nat)]
  BY <1>1 DEF DataOK
<1> HIDE DEF m
<1>4. at[t] \notin {"gone", "idle"}
  BY DEF IInv, InboxInv, InboxOk
<1>5. ~(Heard(t) /\ at[t] = "freeing")
  <2> SUFFICES ASSUME Heard(t), at[t] = "freeing" PROVE FALSE
    OBVIOUS
  <2>1. Len(inbox[t]) = 1 /\ inbox[t] \in Seq(Notice)
    BY <1>1 DEF IInv, InboxInv, InboxOk, DataOK
  <2>2. PICK k \in DOMAIN inbox[t] : inbox[t][k].type = "response"
    BY DEF Heard
  <2>3. k = 1
    BY <2>1
  <2>4. QED
    BY <1>2, <2>2, <2>3 DEF m
<1>6. /\ \A u : Asks(u)' <=> Asks(u)
      /\ \A u : Heard(u)' <=> Heard(u)
      /\ \A s : Owed(s)' <=> Owed(s)
      /\ \A s : Quiet(s) => pool[s].pid # t
      /\ \A s : Quiet(s) => Quiet(s)'
      /\ \A u, s : Holds(u, s)' <=> Holds(u, s)
      /\ \A u, ty : Waits(u, ty)' <=> Waits(u, ty)
  <2>1. Heard(t)' <=> Heard(t)
    <3>1. ASSUME NEW k \in DOMAIN inbox[t], inbox[t][k].type = "response"
          PROVE  \E j \in DOMAIN inbox'[t] : inbox'[t][j].type = "response"
      <4>1. k # 1
        BY <1>2, <3>1 DEF m
      <4>2. QED
        BY <1>2, <3>1, <4>1
    <3>2. QED
      BY <1>2, <3>1 DEF Heard
  <2>2. \A u : u # t => (Heard(u)' <=> Heard(u))
    BY <1>2 DEF Heard
  <2>3. \A s : Quiet(s) => pool[s].pid # t
    BY DEF Quiet
  <2>4. \A s : Quiet(s) => Quiet(s)'
    BY <1>2, <2>3 DEF Quiet
  <2>5. QED
    BY <2>1, <2>2, <2>3, <2>4 DEF Asks, Owed, Holds, Waits
<1>7. DataOK'
  BY <1>1, <1>2, <1>3 DEF DataOK
<1>8. EntryInv'
  BY <1>6 DEF IInv, EntryInv
<1>9. QueueInv'
  <2>1. \A j \in DOMAIN queue : queue[j].type = "allocate" => queue[j].from # t
    BY DEF IInv, QueueInv, Orderly
  <2>2. QED
    BY <1>2, <1>6, <2>1 DEF IInv, QueueInv, Orderly
<1>10. OutInv' /\ AnswerInv'
  BY <1>6 DEF IInv, OutInv, OutOk, AnswerInv, AnswerOk, Owed
<1>11. InboxInv'
  <2>1. ASSUME NEW j \in DOMAIN inbox'[t], NEW k \in DOMAIN inbox'[t],
               inbox'[t][j].type = "response", inbox'[t][k].type = "response"
        PROVE  j = k
    <3>1. j + 1 = k + 1
      BY <1>2, <2>1 DEF IInv, InboxInv, InboxOk
    <3>2. QED
      BY <1>2, <3>1
  <2>2. QED
    BY <1>2, <1>4, <1>5, <1>6, <2>1 DEF IInv, InboxInv, InboxOk
<1>12. CaseInv'
  <2>1. ASSUME NEW s \in Slaves, pool[s].reserved, pool[s].pid = t
        PROVE  Consistent(session[s], answers[s], inbox'[t], pending'[t])
    <3>1. Consistent(session[s], answers[s], inbox[t], pending[t])
      BY <1>4, <2>1 DEF IInv, CaseInv, CaseOk, Live
    <3>2. inbox[t] \in Seq(Notice)
      BY <1>1 DEF DataOK
    <3>3. QED
      BY <1>2, <1>3, <3>1, <3>2, ConsistentReady DEF m
  <2>2. ASSUME NEW s \in Slaves, pool[s].reserved, Live(pool[s].pid), pool[s].pid # t
        PROVE  Consistent(session[s], answers[s], inbox'[pool[s].pid], pending'[pool[s].pid])
    BY <1>2, <1>3, <2>2 DEF IInv, CaseInv, CaseOk
  <2>3. QED
    BY <2>1, <2>2 DEF CaseInv, CaseOk, Live
<1>13. RunsCounted' /\ BoundInv'
  BY DEF IInv, RunsCounted, Ongoing, BoundInv, Count
<1>14. QED
  BY <1>7, <1>8, <1>9, <1>10, <1>11, <1>12, <1>13 DEF IInv

LEMMA HearStep == ASSUME IInv, NEW t \in Tests, Hear(t) PROVE IInv'
<1> DEFINE m == Head(inbox[t])
<1>1. /\ inbox[t] # <<>> /\ (HearResponse(t, m) \/ HearReady(t, m))
      /\ inbox' = [inbox EXCEPT ![t] = IF at'[t] = "gone" THEN <<>> ELSE Tail(@)]
      /\ UNCHANGED <<allocs, started, queue, pool, lastId, session, answers>>
  BY DEF Hear
<1>2. DataOK /\ at[t] # "gone" /\ m \in Notice /\ inbox[t] \in Seq(Notice)
  BY <1>1 DEF IInv, InboxInv, InboxOk, DataOK
<1>3. DOMAIN at = Tests /\ DOMAIN inbox = Tests /\ m.ok \in BOOLEAN
  BY <1>2 DEF DataOK, Notice
<1>4. CASE HearResponse(t, m) /\ m.ok
  <2>1. at'[t] # "gone"
    BY <1>2, <1>3, <1>4 DEF HearResponse, Answered
  <2>2. inbox' = [inbox EXCEPT ![t] = Tail(@)]
    BY <1>1, <2>1
  <2>3. QED
    BY <1>1, <1>4, <2>2, HearResponseStep
<1>5. CASE HearResponse(t, m) /\ ~m.ok
  <2>1. at' = [at EXCEPT ![t] = "gone"] /\ pending' = pending
    BY <1>5 DEF HearResponse, Answered
  <2>2. at'[t] = "gone"
    BY <1>3, <2>1
  <2>3. inbox' = [inbox EXCEPT ![t] = <<>>]
    BY <1>1, <2>2
  <2>4. QED
    BY <1>1, <1>2, <2>1, <2>3, GoneStep DEF DataOK
<1>6. CASE HearReady(t, m)
  <2>1. /\ m.type = "ready" /\ pending' = [pending EXCEPT ![t] = @ \ {<<m.id, m.case>>}]
        /\ at' = IF <<m.id, m.case>> \in pending[t] THEN at ELSE [at EXCEPT ![t] = "gone"]
    BY <1>6 DEF HearReady
  <2>2. CASE <<m.id, m.case>> \in pending[t]
    <3>1. at' = at /\ inbox' = [inbox EXCEPT ![t] = Tail(@)]
      BY <1>1, <1>2, <2>1, <2>2
    <3>2. QED
      BY <1>1, <2>1, <3>1, HearReadyStep
  <2>3. CASE <<m.id, m.case>> \notin pending[t]
    <3>1. at' = [at EXCEPT ![t] = "gone"] /\ at'[t] = "gone"
      BY <1>3, <2>1, <2>3
    <3>2. inbox' = [inbox EXCEPT ![t] = <<>>]
      BY <1>1, <3>1
    <3>3. pending' \in [Tests -> SUBSET (Id \X Nat)] /\ \A u \in Tests : u # t => pending'[u] = pending[u]
      BY <1>2, <2>1 DEF DataOK
    <3>4. QED
      BY <1>1, <3>1, <3>2, <3>3, GoneStep
  <2>4. QED
    BY <2>2, <2>3
<1>7. QED
  BY <1>1, <1>3, <1>4, <1>5, <1>6

----------------------------------------------------------------------------
(* The listener thread.                                                    *)

(* Names, and with them tests, find one entry.                             *)
LEMMA OneEntry ==
  ASSUME IInv, NEW t \in Tests, NEW s \in Slaves, Holds(t, s)
  PROVE  /\ pool[s].name = t /\ pool[s].open
         /\ \A r \in Slaves : pool[r].name = t \/ Holds(t, r) => r = s
BY PoolAssumption DEF IInv, EntryInv, Holds

(* The request at the head of the queue, and what is left behind it.       *)
LEMMA ListenerReads ==
  ASSUME IInv, queue # <<>>, queue' = Tail(queue), UNCHANGED <<at, allocs, started, pending, inbox>>,
         NEW t, t = Head(queue).from, NEW type, type = Head(queue).type
  PROVE  /\ t \in Tests /\ type \in {"allocate", "run", "free"}
         /\ queue' \in Seq(Request)
         /\ Orderly(queue') /\ \A k \in DOMAIN queue' : queue'[k].from # t
         /\ Asks(t) /\ ~Asks(t)'
         /\ \A u : Asks(u)' => Asks(u)
         /\ \A u : u # t /\ Asks(u) => Asks(u)'
         /\ \A u : Heard(u)' <=> Heard(u)
         /\ \A u, ty : Waits(u, ty)' <=> Waits(u, ty)
         /\ ~Heard(t) /\ Waits(t, type)
         /\ type = "allocate" =>
              inbox[t] = <<>> /\ \A s \in Slaves : pool[s].name # t
         /\ type # "allocate" => \E s \in Slaves : Holds(t, s)
         /\ type = "free" => \A s \in Slaves : Holds(t, s) => Quiet(s)
         /\ Count(queue', {"run"}) \in Nat
         /\ Count(queue, {"run"}) =
              Count(queue', {"run"}) + (IF type = "run" THEN 1 ELSE 0)
<1>1. queue \in Seq(Request)
  BY DEF IInv, DataOK
<1>2. /\ Tail(queue) \in Seq(Request) /\ 1 \in DOMAIN queue
      /\ Head(queue) = queue[1] /\ queue[1] \in Request /\ t = queue[1].from /\ type = queue[1].type
      /\ \A k \in DOMAIN Tail(queue) :
           k \in Nat /\ k + 1 \in DOMAIN queue /\ k + 1 # 1 /\ Tail(queue)[k] = queue[k + 1]
      /\ \A k \in DOMAIN queue :
           k \in Nat /\ (k # 1 => k - 1 \in DOMAIN Tail(queue) /\ Tail(queue)[k - 1] = queue[k])
  BY <1>1, TailIndexed
<1>3. /\ t \in Tests /\ type \in {"allocate", "run", "free"}
  BY <1>2 DEF Request
<1>4. /\ \A k \in DOMAIN queue : queue[k].from = t => k = 1
      /\ ~Heard(t) /\ Waits(t, type)
      /\ type = "allocate" =>
           inbox[t] = <<>> /\ \A s \in Slaves : pool[s].name # t
      /\ type # "allocate" => \E s \in Slaves : Holds(t, s)
      /\ type = "free" => \A s \in Slaves : Holds(t, s) => Quiet(s)
  BY <1>2 DEF IInv, QueueInv, Orderly
<1>5. Asks(t) /\ ~Asks(t)' /\ \A u : Asks(u)' => Asks(u)
  <2>1. Asks(t)
    BY <1>2 DEF Asks
  <2>2. \A k \in DOMAIN queue' : k + 1 \in DOMAIN queue /\ k + 1 # 1 /\ queue'[k] = queue[k + 1]
    BY <1>2
  <2>3. QED
    BY <1>4, <2>1, <2>2 DEF Asks
<1>6. ASSUME NEW u, u # t, Asks(u) PROVE Asks(u)'
  <2>1. PICK k \in DOMAIN queue : queue[k].from = u
    BY <1>6 DEF Asks
  <2>2. k # 1
    BY <1>2, <1>6, <2>1
  <2>3. QED
    BY <1>2, <2>1, <2>2 DEF Asks
<1>7. (\A u : Heard(u)' <=> Heard(u)) /\ (\A u, ty : Waits(u, ty)' <=> Waits(u, ty))
  BY DEF Heard, Waits
<1>8. /\ Count(queue', {"run"}) \in Nat
      /\ Count(queue, {"run"}) = Count(queue', {"run"}) + (IF type = "run" THEN 1 ELSE 0)
  BY <1>1, CountTail
<1>9. Orderly(queue') /\ \A k \in DOMAIN queue' : queue'[k].from # t
  <2>1. \A k \in DOMAIN queue' : k + 1 \in DOMAIN queue /\ k + 1 # 1 /\ queue'[k] = queue[k + 1]
    BY <1>2
  <2>2. ASSUME NEW k \in DOMAIN queue', NEW i \in DOMAIN queue', queue'[k].from = queue'[i].from
        PROVE  k = i
    <3>1. k + 1 = i + 1
      BY <2>1, <2>2 DEF IInv, QueueInv, Orderly
    <3>2. QED
      BY <1>2, <3>1
  <2>3. Orderly(queue')
    BY <2>1, <2>2 DEF IInv, QueueInv, Orderly
  <2>4. QED
    BY <1>4, <2>1, <2>3
<1>10. QED
  BY <1>2, <1>3, <1>4, <1>5, <1>6, <1>7, <1>8, <1>9

(* The test is not told, and no slave is reserved: at most a free entry    *)
(* takes the name of the test.                                             *)
LEMMA NotServedStep ==
  ASSUME IInv, queue # <<>>, queue' = Tail(queue), UNCHANGED <<testVars, inbox, lastId, session, answers>>,
         Head(queue).type = "allocate", NEW t \in Tests, t = Head(queue).from,
         NEW s \in Slaves, NEW n, n = pool[s].name \/ (n = t /\ ~pool[s].reserved),
         pool' = [pool EXCEPT ![s].name = n]
  PROVE  IInv'
<1>1. DataOK /\ UNCHANGED <<at, allocs, started, pending, inbox>>
  BY DEF IInv, testVars
<1>2. /\ queue' \in Seq(Request)
      /\ Orderly(queue') /\ \A k \in DOMAIN queue' : queue'[k].from # t
      /\ Asks(t) /\ ~Asks(t)' /\ \A u : Asks(u)' => Asks(u)
      /\ \A u : Heard(u)' <=> Heard(u)
      /\ \A u, ty : Waits(u, ty)' <=> Waits(u, ty)
      /\ ~Heard(t) /\ Waits(t, "allocate")
      /\ \A r \in Slaves : pool[r].name # t
      /\ Count(queue', {"run"}) \in Nat /\ Count(queue, {"run"}) = Count(queue', {"run"})
  BY <1>1, ListenerReads
<1>3. at[t] \in {"allocating", "gone"}
  BY <1>2 DEF Waits
<1>4. /\ \A r \in Slaves :
           /\ pool'[r] \in Entry
           /\ pool'[r].open = pool[r].open /\ pool'[r].reserved = pool[r].reserved
           /\ pool'[r].pid = pool[r].pid /\ pool'[r].out = pool[r].out /\ pool'[r].runs = pool[r].runs
           /\ pool'[r].name = pool[r].name \/ (pool'[r].name = t /\ ~pool[r].reserved)
      /\ \A r, q \in Slaves : pool'[r].name = t /\ pool'[q].name = t => q = r
      /\ pool' \in [Slaves -> Entry]
  <2>1. pool'[s] = [pool[s] EXCEPT !.name = n] /\ \A r \in Slaves : r # s => pool'[r] = pool[r]
    BY <1>1 DEF DataOK
  <2>2. \A r \in Slaves : pool[r] \in Entry
    BY <1>1 DEF DataOK
  <2>3. /\ pool'[s] \in Entry /\ pool'[s].name = n
        /\ pool'[s].open = pool[s].open /\ pool'[s].reserved = pool[s].reserved
        /\ pool'[s].pid = pool[s].pid /\ pool'[s].out = pool[s].out /\ pool'[s].runs = pool[s].runs
    BY <2>1, <2>2 DEF Entry
  <2>4. pool' \in [Slaves -> Entry]
    BY <1>1, <2>1, <2>2, <2>3 DEF DataOK
  <2>5. QED
    BY <1>2, <2>1, <2>2, <2>3, <2>4
<1>5. /\ \A r : Owed(r)' <=> Owed(r)
      /\ \A r \in Slaves : Quiet(r)' <=> Quiet(r)
      /\ \A u, r : r \in Slaves => (Holds(u, r)' <=> Holds(u, r))
  BY <1>1, <1>4 DEF Owed, Quiet, Holds
<1>6. DataOK'
  BY <1>1, <1>2, <1>4 DEF DataOK
<1>7. EntryInv'
  BY <1>1, <1>2, <1>3, <1>4 DEF IInv, EntryInv
<1>8. QueueInv'
  BY <1>1, <1>2, <1>4, <1>5 DEF QueueInv, Orderly
<1>9. OutInv'
  BY <1>1, <1>2, <1>4, <1>5 DEF IInv, OutInv, OutOk
<1>10. AnswerInv'
  BY <1>1, <1>2, <1>4, <1>5 DEF IInv, AnswerInv, AnswerOk
<1>11. InboxInv'
  BY <1>1, <1>2, <1>3, <1>4, <1>5 DEF IInv, InboxInv, InboxOk
<1>12. CaseInv'
  BY <1>1, <1>4 DEF IInv, CaseInv, CaseOk, Live
<1>13. RunsCounted'
  BY <1>4 DEF IInv, RunsCounted, Ongoing, Count
<1>14. BoundInv'
  <2>1. (Count(queue, {"run"}))' = Count(queue', {"run"})
    BY DEF Count
  <2>2. QED
    BY <1>1, <1>2, <1>4, <2>1 DEF IInv, BoundInv
<1>15. QED
  BY <1>6, <1>7, <1>8, <1>9, <1>10, <1>11, <1>12, <1>13, <1>14 DEF IInv

(* What does not concern a slave or its test leaves the other slaves as    *)
(* they should be.                                                         *)
LEMMA OtherKept ==
  ASSUME IInv, NEW r \in Slaves, at' = at, pending' = pending,
         pool'[r] = pool[r], session'[r] = session[r], answers'[r] = answers[r],
         NEW u, u = pool[r].pid, pool[r].reserved => inbox'[u] = inbox[u] /\ (Asks(u)' => Asks(u))
  PROVE  OutOk(r)' /\ AnswerOk(r)' /\ CaseOk(r)' /\ Counted(r)'
<1>1. OutOk(r) /\ AnswerOk(r) /\ CaseOk(r) /\ Counted(r)
  BY DEF IInv, OutInv, AnswerInv, CaseInv, RunsCounted, Ongoing, Counted
<1>2. pool'[r] = pool[r] /\ session'[r] = session[r] /\ answers'[r] = answers[r]
  OBVIOUS
<1>3. Counted(r)'
  <2>1. (Count(pool[r].out, {"run"}))' = Count(pool'[r].out, {"run"})
    BY DEF Count
  <2>2. (Count(answers[r], {"ready", "error"}))' = Count(answers'[r], {"ready", "error"})
    BY DEF Count
  <2>3. QED
    BY <1>1, <1>2, <2>2 DEF Counted
<1>4. CASE ~pool[r].reserved
  <2>1. pool[r].out = <<>> /\ answers[r] = <<>>
    BY <1>4 DEF IInv, EntryInv
  <2>2. QED
    BY <1>2, <1>3, <1>4, <2>1 DEF OutOk, AnswerOk, CaseOk
<1>5. CASE pool[r].reserved
  <2>2. inbox'[u] = inbox[u] /\ (Asks(u)' => Asks(u))
    BY <1>5
  <2>3. /\ Heard(u)' <=> Heard(u)
        /\ \A ty : Waits(u, ty)' <=> Waits(u, ty)
        /\ Owed(r)' <=> Owed(r)
        /\ Quiet(r)' <=> Quiet(r)
    BY <1>2, <2>2 DEF Heard, Waits, Owed, Quiet
  <2>4. OutOk(r)' /\ AnswerOk(r)'
    BY <1>1, <1>2, <2>2, <2>3 DEF OutOk, AnswerOk
  <2>5. CaseOk(r)'
    BY <1>1, <1>2, <2>2 DEF CaseOk, Live
  <2>6. QED
    BY <1>3, <2>4, <2>5
<1>6. QED
  BY <1>4, <1>5

LEMMA Others ==
  ASSUME IInv, NEW s \in Slaves, NEW t, at' = at, pending' = pending,
         \A r \in Slaves : r # s => pool'[r] = pool[r] /\ session'[r] = session[r] /\ answers'[r] = answers[r],
         \A r \in Slaves : r # s /\ pool[r].reserved => pool[r].pid # t,
         \A u : u # t => inbox'[u] = inbox[u] /\ (Asks(u)' => Asks(u))
  PROVE  \A r \in Slaves : r # s => OutOk(r)' /\ AnswerOk(r)' /\ CaseOk(r)' /\ Counted(r)'
<1>1. ASSUME NEW r \in Slaves, r # s PROVE OutOk(r)' /\ AnswerOk(r)' /\ CaseOk(r)' /\ Counted(r)'
  <2>1. PICK u : u = pool[r].pid
    OBVIOUS
  <2>2. pool[r].reserved => inbox'[u] = inbox[u] /\ (Asks(u)' => Asks(u))
    BY <1>1, <2>1
  <2>3. pool'[r] = pool[r] /\ session'[r] = session[r] /\ answers'[r] = answers[r]
    BY <1>1
  <2>4. QED
    BY <2>1, <2>2, <2>3, OtherKept
<1>2. QED
  BY <1>1

(* A slave without a remote run whose test has heard nothing of one.       *)
LEMMA ConsistentNone ==
  ASSUME NEW e, ~e.busy, NEW a, \A k \in DOMAIN a : a[k].type # "ready" /\ a[k].id = e.id, NEW p
  PROVE  Consistent(e, a, <<>>, p)
<1>1. \A c : ~Unreported(e, a, <<>>, c)
  BY DEF Unreported, ReadyAt
<1>2. QED
  BY <1>1 DEF Consistent, OfSession, OnceOnly, ReadyAt

(* The command of a test goes to the first slave with its name.            *)
LEMMA SentFirst ==
  ASSUME ~OneName, NEW t \in Tests, NEW s \in Slaves, NEW p \in [Slaves -> Entry],
         p[s].open, p[s].out = <<>>, p[s].name = t, \A r \in Slaves : p[r].name = t => s <= r,
         NEW type \in {"reserve", "run", "release"}, type = "run" => p[s].runs < MaxRuns,
         NEW c, c = [type |-> type, from |-> t, id |-> p[s].id]
  PROVE  /\ Sent(p, type, t) \in [Slaves -> Entry]
         /\ \A r \in Slaves : r # s => Sent(p, type, t)[r] = p[r]
         /\ Sent(p, type, t)[s].out = <<c>>
         /\ type = "run" => Sent(p, type, t)[s].runs = p[s].runs + 1
         /\ type # "run" => Sent(p, type, t)[s].runs = p[s].runs
         /\ Sent(p, type, t)[s].open /\ (Sent(p, type, t)[s].reserved <=> p[s].reserved)
         /\ Sent(p, type, t)[s].name = p[s].name /\ Sent(p, type, t)[s].pid = p[s].pid
<1>1. Name(t) = t
  BY DEF Name
<1>2. PICK N : N = {r \in Slaves : p[r].name = t}
  OBVIOUS
<1>3. First(N) = s /\ N # {}
  BY <1>2, FirstIsLeast
<1>4. Target(p, Name(t)) = s
  BY <1>1, <1>2, <1>3 DEF Target
<1>5. p[s] \in Entry /\ p[s].runs \in 0..MaxRuns /\ p[s].id \in Id /\ MaxRuns \in Nat
  BY PoolAssumption DEF Entry
<1> DEFINE n == IF type = "run" THEN p[s].runs + 1 ELSE p[s].runs
           q == [p EXCEPT ![s] = [@ EXCEPT !.runs = n]]
<1>6. n \in 0..MaxRuns 
  BY <1>5
<1>7. c \in Command /\ <<c>> \in Seq(Command) /\ Append(<<>>, c) = <<c>>
  <2>1. c \in Command
    BY <1>5 DEF Command
  <2>2. QED
    BY <2>1
<1>8. /\ q \in [Slaves -> Entry] /\ \A r \in Slaves : r # s => q[r] = p[r]
      /\ q[s].runs = n /\ q[s].out = <<>> /\ q[s].id = p[s].id
      /\ q[s].open = p[s].open /\ q[s].reserved = p[s].reserved
      /\ q[s].name = p[s].name /\ q[s].pid = p[s].pid
  <2> HIDE DEF n
  <2>1. DEFINE e == [p[s] EXCEPT !.runs = n]
  <2>2. /\ e \in Entry /\ e.runs = n /\ e.out = <<>> /\ e.id = p[s].id
        /\ e.open = p[s].open /\ e.reserved = p[s].reserved
        /\ e.name = p[s].name /\ e.pid = p[s].pid
    BY <1>5, <1>6 DEF Entry
  <2>3. q[s] = e /\ (\A r \in Slaves : r # s => q[r] = p[r]) /\ q = [p EXCEPT ![s] = e]
    OBVIOUS
  <2> HIDE DEF e, q
  <2>4. QED
    BY <2>2, <2>3
<1>9. QueueOf(p, s) = s /\ QueueOf(q, s) = s
  BY <1>8 DEF QueueOf
<1>10. Sent(p, type, t) = [q EXCEPT ![s].out = Append(@, c)]
  <2>1. CASE type = "run"
    <3>1. q = [p EXCEPT ![s].runs = @ + 1]
      BY <2>1
    <3>2. QED
      BY <1>4, <1>9, <2>1, <3>1 DEF Sent
  <2>2. CASE type # "run"
    <3>1. n = p[s].runs
      BY <2>2
    <3>2. [p[s] EXCEPT !.runs = p[s].runs] = p[s]
      BY <1>5 DEF Entry
    <3>3. q = p
      BY <3>1, <3>2
    <3>4. Sent(p, type, t) = [p EXCEPT ![s].out = Append(@, c)]
      BY <1>4, <1>9, <2>2 DEF Sent
    <3>5. QED
      BY <3>3, <3>4
  <2>3. QED
    BY <2>1, <2>2
<1> HIDE DEF n, q
<1>11. DEFINE f == [q[s] EXCEPT !.out = <<c>>]
<1>12. /\ f \in Entry /\ f.out = <<c>> /\ f.runs = n
       /\ f.open = p[s].open /\ f.reserved = p[s].reserved /\ f.name = p[s].name /\ f.pid = p[s].pid
  BY ZenonT(40), <1>7, <1>8 DEF Entry
<1>13. /\ Sent(p, type, t)[s] = f /\ Sent(p, type, t) \in [Slaves -> Entry]
       /\ \A r \in Slaves : r # s => Sent(p, type, t)[r] = q[r]
  <2>1. Sent(p, type, t) = [q EXCEPT ![s] = f]
    BY <1>7, <1>8, <1>10
  <2> HIDE DEF f
  <2>2. QED
    BY <1>8, <1>12, <2>1
<1> HIDE DEF f
<1>14. QED
  BY <1>6, <1>8, <1>12, <1>13 DEF n

(* The command of a test goes to the only slave with its name.             *)
LEMMA SentOwn ==
  ASSUME ~OneName, NEW t \in Tests, NEW s \in Slaves, NEW p \in [Slaves -> Entry],
         p[s].open, p[s].out = <<>>, \A r \in Slaves : p[r].name = t <=> r = s,
         NEW type \in {"reserve", "run", "release"}, type = "run" => p[s].runs < MaxRuns,
         NEW c, c = [type |-> type, from |-> t, id |-> p[s].id]
  PROVE  /\ Sent(p, type, t) \in [Slaves -> Entry]
         /\ \A r \in Slaves : r # s => Sent(p, type, t)[r] = p[r]
         /\ Sent(p, type, t)[s].out = <<c>>
         /\ type = "run" => Sent(p, type, t)[s].runs = p[s].runs + 1
         /\ type # "run" => Sent(p, type, t)[s].runs = p[s].runs
         /\ Sent(p, type, t)[s].open = p[s].open /\ Sent(p, type, t)[s].reserved = p[s].reserved
         /\ Sent(p, type, t)[s].name = p[s].name /\ Sent(p, type, t)[s].pid = p[s].pid
<1>1. /\ ~OneName /\ p[s].name = t /\ s \in Nat /\ p[s] \in Entry
      /\ \A r \in Slaves : p[r].name = t => s <= r
  BY DEF Slaves
<1>2. Sent(p, type, t) \in [Slaves -> Entry] /\ \A r \in Slaves : r # s => Sent(p, type, t)[r] = p[r]
  BY <1>1, SentFirst
<1>3. Sent(p, type, t)[s].out = <<c>>
  BY <1>1, SentFirst
<1>4. type = "run" => Sent(p, type, t)[s].runs = p[s].runs + 1
  BY <1>1, SentFirst
<1>5. type # "run" => Sent(p, type, t)[s].runs = p[s].runs
  BY <1>1, SentFirst
<1>6. Sent(p, type, t)[s].open /\ (Sent(p, type, t)[s].reserved <=> p[s].reserved)
  BY <1>1, SentFirst
<1>7. Sent(p, type, t)[s].open = p[s].open /\ Sent(p, type, t)[s].reserved = p[s].reserved
  <2>1. Sent(p, type, t)[s] \in Entry
    BY <1>2
  <2>2. QED
    BY <1>1, <1>6, <2>1 DEF Entry
<1>8. Sent(p, type, t)[s].name = p[s].name /\ Sent(p, type, t)[s].pid = p[s].pid
  BY SMTT(30), <1>1, SentFirst
<1>9. QED
  BY <1>2, <1>3, <1>4, <1>5, <1>7, <1>8

LEMMA HandleAllocateStep ==
  ASSUME IInv, ~OneName, queue # <<>>, queue' = Tail(queue), UNCHANGED <<testVars, inbox>>,
         Head(queue).type = "allocate", NEW t, t = Head(queue).from, HandleAllocate(t)
  PROVE  IInv'
<1>1. DataOK /\ UNCHANGED <<at, allocs, started, pending, inbox>>
  BY DEF IInv, testVars
<1>2. /\ t \in Tests /\ queue' \in Seq(Request)
      /\ Orderly(queue') /\ \A k \in DOMAIN queue' : queue'[k].from # t
      /\ Asks(t) /\ ~Asks(t)' /\ \A u : Asks(u)' => Asks(u)
      /\ \A u : Heard(u)' <=> Heard(u)
      /\ \A u, ty : Waits(u, ty)' <=> Waits(u, ty)
      /\ ~Heard(t) /\ Waits(t, "allocate")
      /\ inbox[t] = <<>> /\ \A r \in Slaves : pool[r].name # t
      /\ Count(queue', {"run"}) \in Nat /\ Count(queue, {"run"}) = Count(queue', {"run"})
  BY <1>1, ListenerReads
<1>3. PICK s \in Slaves : s = First(FreeEntries) /\ ~pool[s].reserved
  BY LeastIsFirst DEF HandleAllocate, FreeEntries
<1>4. at[t] \in {"allocating", "gone"} /\ t # Nobody
  BY <1>3, <1>2, PoolAssumption DEF Waits
<1>5. /\ lastId' = lastId + 1 /\ lastId \in Nat
      /\ session' = [session EXCEPT ![s] = Unconnected] /\ answers' = [answers EXCEPT ![s] = <<>>]
      /\ pool' = Sent([pool EXCEPT ![s] = Reserved(@, t)], "reserve", t)
  BY <1>1, <1>3, Fields DEF HandleAllocate
<1>6. /\ pool \in [Slaves -> Entry] /\ pool[s] \in Entry
      /\ pool[s].runs = 0 /\ pool[s].out = <<>>
  BY <1>1, <1>3 DEF IInv, EntryInv, DataOK
<1>7. /\ pool' \in [Slaves -> Entry] /\ \A r \in Slaves : r # s => pool'[r] = pool[r]
      /\ pool'[s].reserved /\ pool'[s].open /\ pool'[s].name = t /\ pool'[s].pid = t
      /\ pool'[s].runs = 0
      /\ pool'[s].out = <<[type |-> "reserve", from |-> t, id |-> lastId + 1]>>
  <2>1. Name(t) = t /\ lastId + 1 \in Nat
    BY <1>3, <1>5, OwnName
  <2>2. PICK e : e = Reserved(pool[s], t)
    OBVIOUS
  <2>3. /\ e \in Entry /\ e.reserved /\ e.open /\ e.name = t /\ e.pid = t
        /\ e.runs = 0 /\ e.out = <<>> /\ e.id = lastId + 1
    BY <1>2, <1>3, <1>6, <2>1, <2>2 DEF Reserved, Entry, Id
  <2>4. PICK p : p = [pool EXCEPT ![s] = e]
    OBVIOUS
  <2>5. p \in [Slaves -> Entry] /\ p[s] = e /\ \A r \in Slaves : r # s => p[r] = pool[r]
    BY <1>3, <1>6, <2>3, <2>4
  <2>6. pool' = Sent(p, "reserve", t)
    BY <1>3, <1>5, <1>6, <2>2, <2>4
  <2>7. /\ p[s].open /\ p[s].out = <<>> /\ \A r \in Slaves : p[r].name = t <=> r = s
    BY <1>2, <1>3, <2>3, <2>5
  <2>8. PICK c : c = [type |-> "reserve", from |-> t, id |-> p[s].id]
    OBVIOUS
  <2>9. "reserve" # "run" /\ "reserve" \in {"reserve", "run", "release"} /\ t \in Tests /\ s \in Slaves
    BY <1>2, <1>3
  <2>10. pool' \in [Slaves -> Entry] /\ \A r \in Slaves : r # s => pool'[r] = p[r]
    BY <2>5, <2>6, <2>7, <2>8, <2>9, SentOwn
  <2>11. pool'[s].out = <<c>>
    BY <2>5, <2>6, <2>7, <2>8, <2>9, SentOwn
  <2>12. pool'[s].runs = p[s].runs
    BY <2>5, <2>6, <2>7, <2>8, <2>9, SentOwn
  <2>13. pool'[s].open = p[s].open /\ pool'[s].reserved = p[s].reserved
    BY ZenonT(40), <2>5, <2>6, <2>7, <2>8, <2>9, SentOwn
  <2>14. pool'[s].name = p[s].name /\ pool'[s].pid = p[s].pid
    BY SMTT(30), <2>5, <2>6, <2>7, <2>8, <2>9, SentOwn
  <2>15. QED
    BY <2>3, <2>5, <2>8, <2>10, <2>11, <2>12, <2>13, <2>14
<1>8. /\ session'[s] = Unconnected /\ answers'[s] = <<>>
      /\ \A r \in Slaves : r # s => session'[r] = session[r] /\ answers'[r] = answers[r]
      /\ session' \in [Slaves -> Session] /\ answers' \in [Slaves -> Seq(Answer)]
  <2>1. Unconnected \in Session
    BY DEF Unconnected, Session, Id
  <2>2. QED
    BY <1>3, <1>1, <1>5, <2>1 DEF DataOK
<1>9. /\ ~Owed(s)' /\ Quiet(s)' /\ \A u : Holds(u, s)' <=> u = t
      /\ \A r \in Slaves : r # s => (Owed(r)' <=> Owed(r)) /\ (Quiet(r)' <=> Quiet(r))
      /\ \A u, r : r \in Slaves /\ r # s => (Holds(u, r)' <=> Holds(u, r))
      /\ \A u, r : r \in Slaves /\ Holds(u, r) => r # s /\ u # t
  <2>1. ~Owed(s)'
    BY <1>3, <1>8 DEF Owed
  <2>2. Quiet(s)'
    BY <1>3, <1>1, <1>2, <1>7, <1>8 DEF Quiet, Unconnected
  <2>3. \A u, r : r \in Slaves /\ Holds(u, r) => r # s /\ u # t
    BY <1>2, <1>3 DEF Holds, IInv, EntryInv
  <2>4. QED
    BY <1>3, <1>1, <1>7, <1>8, <2>1, <2>2, <2>3 DEF Owed, Quiet, Holds
<1>10. DataOK'
  <2>1. /\ at' \in [Tests -> {"idle", "holding", "gone"} \cup Blocked]
        /\ allocs' \in 0..MaxAllocs /\ started' \in 0..MaxRuns
        /\ pending' \in [Tests -> SUBSET (Id \X Nat)] /\ inbox' \in [Tests -> Seq(Notice)]
    BY <1>3, <1>1 DEF DataOK
  <2>2. lastId' \in Id
    BY <1>3, <1>5 DEF Id
  <2>3. QED
    BY <1>3, <1>2, <1>7, <1>8, <2>1, <2>2 DEF DataOK
<1>11. EntryInv'
  <2>1. ASSUME NEW r \in Slaves, r # s
        PROVE  /\ pool'[r] = pool[r] /\ answers'[r] = answers[r] /\ session'[r] = session[r]
               /\ pool[r].name # t
    BY <1>2, <1>7, <1>8, <2>1
  <2>2. \A r, q \in Slaves : pool'[q].name = pool'[r].name /\ pool'[r].name # Nobody => q = r
    BY <1>7, <2>1 DEF IInv, EntryInv
  <2>3. ASSUME NEW r \in Slaves, r # s, ~pool[r].reserved, pool[r].name # Nobody
        PROVE  at'[pool[r].name] \in {"allocating", "gone"} /\ \A u : u = pool[r].name => ~Asks(u)'
    BY <1>1, <1>2, <2>3 DEF IInv, EntryInv
  <2>4. ASSUME NEW r \in Slaves
        PROVE  /\ pool'[r].open = pool'[r].reserved
               /\ pool'[r].reserved => pool'[r].pid \in Tests /\ pool'[r].name = pool'[r].pid
               /\ ~pool'[r].reserved =>
                    pool'[r].runs = 0 /\ pool'[r].out = <<>> /\ answers'[r] = <<>> /\ ~session'[r].busy
    <3>1. pool'[s].open = pool'[s].reserved
      BY <1>3, <1>7 DEF Entry
    <3>2. CASE r = s
      BY <1>2, <1>7, <3>1, <3>2
    <3>3. CASE r # s
      BY <2>1, <3>3 DEF IInv, EntryInv
    <3>4. QED
      BY <3>2, <3>3
  <2>5. QED
    BY <1>7, <2>1, <2>2, <2>3, <2>4 DEF EntryInv
<1>12. QueueInv'
  BY <1>3, <1>1, <1>2, <1>7, <1>9 DEF QueueInv, Orderly
<1>13. InboxInv'
  BY <1>3, <1>1, <1>2, <1>4, <1>7, <1>9 DEF IInv, InboxInv, InboxOk
<1>14. \A r \in Slaves : r # s => OutOk(r)' /\ AnswerOk(r)' /\ CaseOk(r)' /\ Counted(r)'
  <2>1. \A r \in Slaves : r # s /\ pool[r].reserved => pool[r].pid # t
    BY <1>3, <1>2 DEF IInv, EntryInv
  <2>2. QED
    BY ZenonT(40), <1>3, <1>1, <1>2, <1>7, <1>8, <2>1, Others
<1>15. OutOk(s)' /\ AnswerOk(s)'
  <2>1. /\ Len(pool'[s].out) = 1 /\ pool'[s].out[1].from = t /\ pool'[s].out[1].type = "reserve"
        /\ Waits(t, "reserve")'
    BY <1>3, <1>1, <1>4, <1>7 DEF Waits
  <2>2. pool'[s].pid = t /\ ~Asks(t)' /\ ~Heard(t)' /\ ~Owed(s)' /\ Quiet(s)'
    BY <1>3, <1>2, <1>7, <1>9
  <2>3. QED
    BY <1>3, <1>8, <2>1, <2>2 DEF OutOk, AnswerOk
<1>16. CaseOk(s)'
  <2>1. ~session'[s].busy /\ \A k : k \notin DOMAIN answers'[s]
    BY <1>3, <1>8 DEF Unconnected
  <2>2. Consistent(session'[s], answers'[s], <<>>, pending[t])
    BY <2>1, ConsistentNone
  <2>3. QED
    BY <1>3, <1>1, <1>2, <1>7, <2>2 DEF CaseOk
<1>17. Counted(s)'
  <2>1. [type |-> "reserve", from |-> t, id |-> lastId + 1] \in Command
    BY <1>3, <1>2, <1>5 DEF Command, Id
  <2>2. pool'[s].out \in Seq(Command) /\ \A k \in DOMAIN pool'[s].out : pool'[s].out[k].type \notin {"run"}
    BY <1>3, <1>7, <2>1
  <2>3. Count(pool'[s].out, {"run"}) = 0 /\ Count(answers'[s], {"ready", "error"}) = 0
    BY <1>3, <1>8, <2>2, CountNone, CountEmpty
  <2>4. (Count(pool[s].out, {"run"}))' = 0 /\ (Count(answers[s], {"ready", "error"}))' = 0
    BY <2>3 DEF Count
  <2>5. QED
    BY <1>3, <1>7, <1>8, <2>4 DEF Counted, Unconnected
<1>18. BoundInv'
  <2>1. (Count(queue, {"run"}))' = Count(queue', {"run"})
    BY DEF Count
  <2>2. QED
    BY <1>3, <1>1, <1>2, <1>6, <1>7, <2>1 DEF IInv, BoundInv
<1>19. QED
  BY <1>3, <1>10, <1>11, <1>12, <1>13, <1>14, <1>15, <1>16, <1>17, <1>18
     DEF IInv, OutInv, AnswerInv, CaseInv, RunsCounted, Ongoing, Counted

LEMMA HandleCommandStep ==
  ASSUME IInv, ~OneName, queue # <<>>, queue' = Tail(queue), UNCHANGED <<testVars, inbox>>,
         Head(queue).type # "allocate", HandleCommand(Head(queue))
  PROVE  IInv'
<1>1. DataOK /\ UNCHANGED <<at, allocs, started, pending, inbox, session, answers, lastId>>
  BY DEF IInv, testVars, HandleCommand
<1>2. PICK t, type : t = Head(queue).from /\ type = Head(queue).type
  OBVIOUS
<1>3. /\ t \in Tests /\ type \in {"run", "free"} /\ queue' \in Seq(Request)
      /\ Orderly(queue') /\ \A k \in DOMAIN queue' : queue'[k].from # t
      /\ Asks(t) /\ ~Asks(t)' /\ \A u : Asks(u)' => Asks(u)
      /\ \A u : Heard(u)' <=> Heard(u)
      /\ \A u, ty : Waits(u, ty)' <=> Waits(u, ty)
      /\ ~Heard(t) /\ Waits(t, type)
      /\ \E s \in Slaves : Holds(t, s)
      /\ type = "free" => \A s \in Slaves : Holds(t, s) => Quiet(s)
      /\ Count(queue', {"run"}) \in Nat
      /\ Count(queue, {"run"}) = Count(queue', {"run"}) + (IF type = "run" THEN 1 ELSE 0)
  BY <1>1, <1>2, ListenerReads
<1>4. PICK s \in Slaves : Holds(t, s)
  BY <1>3
<1>5. /\ pool[s].name = t /\ pool[s].open /\ pool[s].reserved /\ pool[s].pid = t
      /\ \A r \in Slaves : pool[r].name = t <=> r = s
      /\ \A r \in Slaves : r # s /\ pool[r].reserved => pool[r].pid # t
  BY <1>3, <1>4, OneEntry DEF Holds
<1>6. pool[s].out = <<>> /\ ~Owed(s)
  BY <1>3, <1>4, <1>5 DEF IInv, OutInv, OutOk, AnswerInv, AnswerOk, Owed
<1>7. /\ pool \in [Slaves -> Entry] /\ pool[s].runs \in Nat /\ pool[s].id \in Nat
      /\ started \in Nat /\ started <= MaxRuns /\ MaxRuns \in Nat
  BY <1>1, <1>4, Fields, PoolAssumption DEF DataOK
<1>8. PICK send : send = IF type = "free" THEN "release" ELSE type
  OBVIOUS
<1>9. send \in {"reserve", "run", "release"} /\ send # "reserve" /\ (send = "run" <=> type = "run")
  BY <1>3, <1>8
<1>10. send = "run" => pool[s].runs < MaxRuns
  <2>1. pool[s].runs + Count(queue, {"run"}) <= started
    BY <1>4 DEF IInv, BoundInv
  <2>2. QED
    BY <1>3, <1>7, <1>9, <2>1
<1>11. pool' = Sent(pool, send, t)
  BY <1>2, <1>8 DEF HandleCommand
<1>12. PICK c : c = [type |-> send, from |-> t, id |-> pool[s].id]
  OBVIOUS
<1>13. /\ pool' \in [Slaves -> Entry] /\ \A r \in Slaves : r # s => pool'[r] = pool[r]
       /\ pool'[s].out = <<c>>
       /\ send = "run" => pool'[s].runs = pool[s].runs + 1
       /\ send # "run" => pool'[s].runs = pool[s].runs
       /\ pool'[s].open = pool[s].open /\ pool'[s].reserved = pool[s].reserved
       /\ pool'[s].name = pool[s].name /\ pool'[s].pid = pool[s].pid
  <2>0. /\ t \in Tests /\ s \in Slaves /\ pool \in [Slaves -> Entry]
        /\ pool[s].open /\ pool[s].out = <<>> /\ \A r \in Slaves : pool[r].name = t <=> r = s
        /\ send \in {"reserve", "run", "release"} /\ (send = "run" => pool[s].runs < MaxRuns)
        /\ c = [type |-> send, from |-> t, id |-> pool[s].id]
    BY <1>3, <1>4, <1>5, <1>6, <1>7, <1>9, <1>10, <1>12
  <2>1. pool' \in [Slaves -> Entry] /\ \A r \in Slaves : r # s => pool'[r] = pool[r]
    BY <1>11, <2>0, SentOwn
  <2>2. pool'[s].out = <<c>>
    BY <1>11, <2>0, SentOwn
  <2>3. send = "run" => pool'[s].runs = pool[s].runs + 1
    BY <1>11, <2>0, SentOwn
  <2>4. send # "run" => pool'[s].runs = pool[s].runs
    BY <1>11, <2>0, SentOwn
  <2>5. pool'[s].open = pool[s].open /\ pool'[s].reserved = pool[s].reserved
    <3>1. pool'[s].open = pool[s].open
      <4>1. pool'[s] \in Entry /\ pool[s] \in Entry
        BY <2>0, <2>1
      <4>2. pool'[s].open
        BY <1>11, <2>0, SentOwn
      <4>3. QED
        BY <2>0, <4>1, <4>2 DEF Entry
    <3>2. pool'[s].reserved = pool[s].reserved
      BY <1>11, <2>0, SentOwn
    <3>3. QED
      BY <3>1, <3>2
  <2>6. pool'[s].name = pool[s].name /\ pool'[s].pid = pool[s].pid
    BY <1>11, <2>0, SentOwn
  <2>7. QED
    BY <2>1, <2>2, <2>3, <2>4, <2>5, <2>6
<1>14. \A r \in Slaves :
         /\ pool'[r].open = pool[r].open /\ pool'[r].reserved = pool[r].reserved
         /\ pool'[r].name = pool[r].name /\ pool'[r].pid = pool[r].pid
         /\ ~pool[r].reserved => pool'[r] = pool[r]
  BY <1>5, <1>13
<1>15. /\ \A r \in Slaves : (Owed(r)' <=> Owed(r)) /\ (Quiet(r)' <=> Quiet(r))
       /\ \A u, r : r \in Slaves => (Holds(u, r)' <=> Holds(u, r))
  BY <1>1, <1>14 DEF Owed, Quiet, Holds
<1>16. DataOK'
  <2>1. /\ at' \in [Tests -> {"idle", "holding", "gone"} \cup Blocked]
        /\ allocs' \in 0..MaxAllocs /\ started' \in 0..MaxRuns /\ lastId' \in Id
        /\ pending' \in [Tests -> SUBSET (Id \X Nat)] /\ inbox' \in [Tests -> Seq(Notice)]
        /\ session' \in [Slaves -> Session] /\ answers' \in [Slaves -> Seq(Answer)]
    BY <1>1 DEF DataOK
  <2>2. QED
    BY <1>3, <1>13, <2>1 DEF DataOK
<1>17. EntryInv'
  BY <1>1, <1>3, <1>14 DEF IInv, EntryInv
<1>18. QueueInv'
  BY <1>1, <1>3, <1>14, <1>15 DEF QueueInv, Orderly
<1>19. InboxInv'
  BY <1>1, <1>3, <1>14, <1>15 DEF IInv, InboxInv, InboxOk
<1>20. \A r \in Slaves : r # s => OutOk(r)' /\ AnswerOk(r)' /\ CaseOk(r)' /\ Counted(r)'
  <2>1. at' = at /\ pending' = pending /\ \A r \in Slaves : session'[r] = session[r] /\ answers'[r] = answers[r]
    BY <1>1
  <2>2. \A u : u # t => inbox'[u] = inbox[u] /\ (Asks(u)' => Asks(u))
    BY <1>1, <1>3
  <2>3. \A r \in Slaves : r # s => pool'[r] = pool[r] /\ session'[r] = session[r] /\ answers'[r] = answers[r]
    BY <1>13, <2>1
  <2>4. s \in Slaves /\ \A r \in Slaves : r # s /\ pool[r].reserved => pool[r].pid # t
    BY <1>4, <1>5
  <2>5. QED
    BY <2>1, <2>2, <2>3, <2>4, Others
<1>21. OutOk(s)'
  <2>1. Len(pool'[s].out) = 1 /\ pool'[s].out[1].from = t /\ pool'[s].out[1].type = send
    BY <1>12, <1>13
  <2>2. Waits(t, send)'
    BY <1>1, <1>3, <1>8, <1>9 DEF Waits
  <2>3. send # "run" => Quiet(s)'
    BY <1>3, <1>4, <1>9, <1>15
  <2>4. pool'[s].pid = t /\ ~Asks(t)' /\ ~Heard(t)' /\ ~Owed(s)'
    BY <1>3, <1>4, <1>5, <1>6, <1>13, <1>15
  <2>5. QED
    BY <2>1, <2>2, <2>3, <2>4 DEF OutOk
<1>22. AnswerOk(s)'
  BY <1>1, <1>6 DEF AnswerOk, Owed
<1>23. CaseOk(s)'
  <2>1. CaseOk(s)
    BY <1>4 DEF IInv, CaseInv
  <2>2. QED
    BY <1>1, <1>13, <2>1 DEF CaseOk, Live
<1>24. Counted(s)'
  <2>1. c \in Command
    BY <1>3, <1>7, <1>9, <1>12 DEF Command, Id
  <2>2. c.type = send
    BY <1>12
  <2>3. Count(<<c>>, {"run"}) = IF send = "run" THEN 1 ELSE 0
    BY <2>2, CountOne
  <2>4. (Count(pool[s].out, {"run"}))' = Count(<<c>>, {"run"})
    BY <1>13 DEF Count
  <2>5. (Count(answers[s], {"ready", "error"}))' = Count(answers[s], {"ready", "error"})
    BY <1>1 DEF Count
  <2>6. pool[s].runs = Count(<<>>, {"run"}) + Count(answers[s], {"ready", "error"}) + (IF session[s].busy THEN 1 ELSE 0)
    BY <1>4, <1>6 DEF IInv, RunsCounted, Ongoing
  <2>7. Count(<<>>, {"run"}) = 0 /\ Count(answers[s], {"ready", "error"}) \in Nat
    <3>1. answers[s] \in Seq(Answer)
      BY <1>1, <1>4, Fields
    <3>2. QED
      BY <3>1, CountEmpty, CountType
  <2>8. QED
    BY <1>1, <1>13, <2>3, <2>4, <2>5, <2>6, <2>7 DEF Counted
<1>25. BoundInv'
  <2>1. (Count(queue, {"run"}))' = Count(queue', {"run"})
    BY DEF Count
  <2>2. \A r \in Slaves : pool[r].runs \in Nat
    BY <1>1, Fields
  <2>3. \A r \in Slaves : pool'[r].runs <= pool[r].runs + (IF type = "run" THEN 1 ELSE 0)
    BY <1>4, <1>9, <1>13, <2>2
  <2>4. \A r \in Slaves : pool'[r].runs \in Nat
    BY <1>4, <1>9, <1>13, <2>2
  <2>5. ASSUME NEW r \in Slaves PROVE pool'[r].runs + Count(queue', {"run"}) <= started
    <3>1. pool[r].runs + Count(queue, {"run"}) <= started
      BY DEF IInv, BoundInv
    <3>2. QED
      BY <1>3, <1>7, <2>2, <2>3, <2>4, <3>1
  <2>6. QED
    BY <1>1, <2>1, <2>5 DEF BoundInv
<1>26. QED
  BY <1>16, <1>17, <1>18, <1>19, <1>20, <1>21, <1>22, <1>23, <1>24, <1>25
     DEF IInv, OutInv, AnswerInv, CaseInv, RunsCounted, Ongoing, Counted

LEMMA ListenerStep == ASSUME IInv, ~OneName, Listener PROVE IInv'
<1>1. /\ queue # <<>> /\ queue' = Tail(queue) /\ UNCHANGED <<testVars, inbox>>
      /\ \/ /\ Head(queue).type = "allocate"
            /\ HandleAllocate(Head(queue).from) \/ NoneFree \/ Refused(Head(queue).from)
         \/ Head(queue).type # "allocate" /\ HandleCommand(Head(queue))
  BY DEF Listener
<1>2. PICK t : t = Head(queue).from
  OBVIOUS
<1>3. t \in Tests /\ pool \in [Slaves -> Entry] /\ 1 \in Slaves
  <2>1. UNCHANGED <<at, allocs, started, pending, inbox>>
    BY <1>1 DEF testVars
  <2>2. t \in Tests
    BY <1>1, <1>2, <2>1, ListenerReads
  <2>3. QED
    BY <2>2, PoolAssumption DEF IInv, DataOK, Slaves
<1>4. CASE Head(queue).type = "allocate" /\ HandleAllocate(t)
  BY <1>1, <1>2, <1>4, HandleAllocateStep
<1>5. CASE Head(queue).type = "allocate" /\ NoneFree
  <2>1. UNCHANGED <<pool, lastId, session, answers>>
    BY <1>5 DEF NoneFree
  <2>2. pool' = [pool EXCEPT ![1].name = pool[1].name]
    <3>1. pool[1] \in Entry
      BY <1>3
    <3>2. [pool[1] EXCEPT !.name = pool[1].name] = pool[1]
      BY <3>1 DEF Entry
    <3>3. QED
      BY <1>3, <2>1, <3>2
  <2>3. QED
    BY <1>1, <1>2, <1>3, <1>5, <2>1, <2>2, NotServedStep
<1>6. CASE Head(queue).type = "allocate" /\ Refused(t)
  <2>1. FreeEntries # {} /\ FreeEntries \in SUBSET Slaves /\ UNCHANGED <<lastId, session, answers>>
    BY <1>6 DEF Refused, FreeEntries
  <2>2. PICK s \in Slaves : s = First(FreeEntries) /\ ~pool[s].reserved
    BY <2>1, LeastIsFirst DEF FreeEntries
  <2>3. pool' = [pool EXCEPT ![s].name = t]
    BY <1>6, <2>2, OwnName DEF Refused
  <2>4. QED
    BY <1>1, <1>2, <1>3, <1>6, <2>1, <2>2, <2>3, NotServedStep
<1>7. CASE Head(queue).type # "allocate" /\ HandleCommand(Head(queue))
  BY <1>1, <1>7, HandleCommandStep
<1>8. QED
  BY <1>1, <1>2, <1>4, <1>5, <1>6, <1>7

----------------------------------------------------------------------------
(* The engines of the slaves.                                              *)

(* A step between a slave and its connection concerns this slave only.     *)
LEMMA SlaveFrame ==
  ASSUME IInv, NEW s \in Slaves, pool[s].reserved, UNCHANGED <<testVars, queue, inbox, lastId>>,
         pool' \in [Slaves -> Entry], session' \in [Slaves -> Session], answers' \in [Slaves -> Seq(Answer)],
         pool'[s].open = pool[s].open, pool'[s].reserved = pool[s].reserved, pool'[s].runs = pool[s].runs,
         pool'[s].name = pool[s].name, pool'[s].pid = pool[s].pid,
         \A r \in Slaves : r # s => pool'[r] = pool[r] /\ session'[r] = session[r] /\ answers'[r] = answers[r],
         Quiet(s) /\ Asks(pool[s].pid) => ~session'[s].busy /\ answers'[s] = answers[s],
         OutOk(s)', AnswerOk(s)', CaseOk(s)', Counted(s)'
  PROVE  IInv'
<1>1. DataOK /\ UNCHANGED <<at, allocs, started, pending, queue, inbox, lastId>>
  BY DEF IInv, testVars
<1>2. PICK t : t = pool[s].pid
  OBVIOUS
<1>3. t \in Tests /\ pool[s].name = t /\ \A r \in Slaves : r # s /\ pool[r].reserved => pool[r].pid # t
  <2>1. t \in Tests /\ Holds(t, s)
    BY <1>2 DEF IInv, EntryInv, Holds
  <2>2. QED
    BY <2>1, OneEntry DEF Holds
<1>4. \A r \in Slaves :
        /\ pool'[r].open = pool[r].open /\ pool'[r].reserved = pool[r].reserved
        /\ pool'[r].name = pool[r].name /\ pool'[r].pid = pool[r].pid /\ pool'[r].runs = pool[r].runs
        /\ ~pool[r].reserved => pool'[r] = pool[r] /\ session'[r] = session[r] /\ answers'[r] = answers[r]
  OBVIOUS
<1>5. /\ \A u : (Asks(u)' <=> Asks(u)) /\ (Heard(u)' <=> Heard(u))
      /\ \A u, ty : Waits(u, ty)' <=> Waits(u, ty)
      /\ \A u, r : r \in Slaves => (Holds(u, r)' <=> Holds(u, r))
      /\ \A r \in Slaves : r # s => (Quiet(r)' <=> Quiet(r))
      /\ Quiet(s) /\ Asks(t) => Quiet(s)'
  <2>1. \A r \in Slaves : r # s => (Quiet(r)' <=> Quiet(r))
    BY <1>1 DEF Quiet
  <2>2. Quiet(s) /\ Asks(t) => Quiet(s)'
    BY <1>1, <1>2 DEF Quiet
  <2>3. QED
    BY <1>1, <1>4, <2>1, <2>2 DEF Asks, Heard, Waits, Holds
<1>6. DataOK'
  <2>1. /\ at' \in [Tests -> {"idle", "holding", "gone"} \cup Blocked]
        /\ allocs' \in 0..MaxAllocs /\ started' \in 0..MaxRuns /\ lastId' \in Id
        /\ pending' \in [Tests -> SUBSET (Id \X Nat)] /\ inbox' \in [Tests -> Seq(Notice)]
        /\ queue' \in Seq(Request)
    BY <1>1 DEF DataOK
  <2>2. QED
    BY <2>1 DEF DataOK
<1>7. EntryInv'
  BY <1>1, <1>4, <1>5 DEF IInv, EntryInv
<1>8. QueueInv'
  <2>1. ASSUME NEW j \in DOMAIN queue, queue[j].type = "free", NEW r \in Slaves, Holds(queue[j].from, r)
        PROVE  Quiet(r)'
    <3>1. Quiet(r)
      BY <2>1 DEF IInv, QueueInv, Orderly
    <3>2. r = s => Asks(t)
      BY <1>2, <2>1 DEF Holds, Asks
    <3>3. QED
      BY <1>5, <3>1, <3>2
  <2>2. QED
    BY <1>1, <1>4, <1>5, <2>1 DEF IInv, QueueInv, Orderly
<1>9. InboxInv'
  BY <1>1, <1>4, <1>5 DEF IInv, InboxInv, InboxOk
<1>10. \A r \in Slaves : r # s => OutOk(r)' /\ AnswerOk(r)' /\ CaseOk(r)' /\ Counted(r)'
  <2>1. at' = at /\ pending' = pending /\ \A u : u # t => inbox'[u] = inbox[u] /\ (Asks(u)' => Asks(u))
    BY <1>1, <1>5
  <2>2. \A r \in Slaves : r # s => pool'[r] = pool[r] /\ session'[r] = session[r] /\ answers'[r] = answers[r]
    OBVIOUS
  <2>3. \A r \in Slaves : r # s /\ pool[r].reserved => pool[r].pid # t
    BY <1>3
  <2>4. QED
    BY <2>1, <2>2, <2>3, Others
<1>11. BoundInv'
  <2>1. (Count(queue, {"run"}))' = Count(queue, {"run"})
    BY <1>1 DEF Count
  <2>2. QED
    BY <1>1, <1>4, <2>1 DEF IInv, BoundInv
<1>12. QED
  BY <1>6, <1>7, <1>8, <1>9, <1>10, <1>11 DEF IInv, OutInv, AnswerInv, CaseInv, RunsCounted, Ongoing, Counted

(* A slave that takes a command and answers it with a.                     *)
LEMMA CommandTaken ==
  ASSUME IInv, NEW s \in Slaves, pool[s].open, pool[s].out # <<>>, pool' = [pool EXCEPT ![s].out = Tail(@)],
         UNCHANGED <<testVars, queue, inbox, lastId>>, NEW c, c = Head(pool[s].out),
         NEW a \in Answer, answers' = [answers EXCEPT ![s] = Append(@, a)],
         NEW e \in Session, session' = [session EXCEPT ![s] = e],
         \/ c.type = "reserve" /\ a.type = "reserve" /\ e.busy = session[s].busy
         \/ c.type = "release" /\ a.type = "release" /\ e.busy = session[s].busy
         \/ c.type = "run" /\ a.type = "started" /\ ~session[s].busy /\ e.busy
         \/ c.type = "run" /\ a.type = "error" /\ e.busy = session[s].busy,
         Live(pool[s].pid) =>
           Consistent(e, Append(answers[s], a), inbox[pool[s].pid], pending[pool[s].pid])
  PROVE  IInv'
<1>1. DataOK /\ UNCHANGED <<at, allocs, started, pending, queue, inbox, lastId>>
  BY DEF IInv, testVars
<1>2. PICK t : t = pool[s].pid
  OBVIOUS
<1>3. pool[s] \in Entry /\ session[s] \in Session /\ answers[s] \in Seq(Answer) /\ pool[s].out \in Seq(Command)
  BY <1>1, Fields
<1>4. /\ pool[s].reserved /\ Len(pool[s].out) = 1 /\ c = pool[s].out[1]
      /\ ~Asks(t) /\ ~Heard(t) /\ ~Owed(s) /\ Waits(t, c.type)
      /\ c.type # "run" => Quiet(s)
  <2>1. c = pool[s].out[1] /\ pool[s].reserved
    BY <1>3 DEF IInv, EntryInv
  <2>2. QED
    BY <1>2, <2>1 DEF IInv, OutInv, OutOk
<1>5. PICK f : f = [pool[s] EXCEPT !.out = <<>>]
  OBVIOUS
<1>6. /\ f \in Entry /\ f.out = <<>> /\ f.open = pool[s].open /\ f.reserved = pool[s].reserved
      /\ f.runs = pool[s].runs /\ f.name = pool[s].name /\ f.pid = pool[s].pid
  <2>1. f \in Entry
    <3>1. <<>> \in Seq(Command)
      OBVIOUS
    <3>2. \A q \in Seq(Command) : [pool[s] EXCEPT !.out = q] \in Entry
      BY <1>3 DEF Entry
    <3>3. QED
      BY <1>5, <3>1, <3>2
  <2>2. f.out = <<>> /\ f.open = pool[s].open /\ f.reserved = pool[s].reserved
    BY <1>3, <1>5 DEF Entry
  <2>3. f.runs = pool[s].runs /\ f.name = pool[s].name /\ f.pid = pool[s].pid
    BY <1>3, <1>5 DEF Entry
  <2>4. QED
    BY <2>1, <2>2, <2>3
<1>7. /\ pool'[s] = f /\ pool' \in [Slaves -> Entry]
      /\ session'[s] = e /\ session' \in [Slaves -> Session]
      /\ answers'[s] = Append(answers[s], a) /\ answers' \in [Slaves -> Seq(Answer)]
      /\ \A r \in Slaves : r # s => pool'[r] = pool[r] /\ session'[r] = session[r] /\ answers'[r] = answers[r]
  <2>1. Tail(pool[s].out) = <<>>
    BY <1>3, <1>4, TailIndexed
  <2>2. pool' = [pool EXCEPT ![s] = f]
    BY <1>5, <2>1
  <2>3. Append(answers[s], a) \in Seq(Answer)
    BY <1>3
  <2>4. QED
    BY <1>1, <1>6, <2>2, <2>3 DEF DataOK
<1>8. OutOk(s)'
  BY <1>6, <1>7 DEF OutOk
<1>9. AnswerOk(s)'
  <2>1. /\ DOMAIN answers'[s] = DOMAIN answers[s] \cup {Len(answers[s]) + 1}
        /\ \A k \in DOMAIN answers[s] : answers'[s][k] = answers[s][k]
        /\ answers'[s][Len(answers[s]) + 1] = a
    BY <1>3, <1>7, AppendIndexed
  <2>2. \A k \in DOMAIN answers'[s] : answers'[s][k].type # "ready" =>
          k = Len(answers[s]) + 1 /\ answers'[s][k].type = a.type
    BY <1>4, <2>1 DEF Owed
  <2>3. Waits(t, a.type)'
    BY <1>1, <1>4 DEF Waits
  <2>4. a.type \in {"reserve", "release"} => Quiet(s)'
    <3>1. ASSUME a.type \in {"reserve", "release"} PROVE Quiet(s)'
      <4>1. Quiet(s) /\ ~e.busy
        BY <1>4, <3>1 DEF Quiet
      <4>2. \A k \in DOMAIN answers'[s] : answers'[s][k].type # "ready"
        BY <2>1, <3>1, <4>1 DEF Quiet
      <4>3. QED
        BY <1>1, <1>6, <1>7, <4>1, <4>2 DEF Quiet
    <3>2. QED
      BY <3>1
  <2>5. pool'[s].pid = t /\ ~Asks(t)' /\ ~Heard(t)'
    BY <1>1, <1>2, <1>4, <1>6, <1>7 DEF Asks, Heard
  <2>6. QED
    BY <2>2, <2>3, <2>4, <2>5 DEF AnswerOk
<1>10. CaseOk(s)'
  BY <1>1, <1>6, <1>7 DEF CaseOk, Live
<1>11. Counted(s)'
  <2>1. pool[s].out = <<c>>
    BY <1>3, <1>4
  <2>2. Count(<<c>>, {"run"}) = IF c.type = "run" THEN 1 ELSE 0
    BY CountOne
  <2>3. /\ Count(answers[s], {"ready", "error"}) \in Nat
        /\ Count(answers'[s], {"ready", "error"}) =
             Count(answers[s], {"ready", "error"}) + (IF a.type \in {"ready", "error"} THEN 1 ELSE 0)
    <3>1. PICK q \in Seq(Answer) : q = answers[s]
      BY <1>3
    <3>2. /\ Count(q, {"ready", "error"}) \in Nat
          /\ Count(Append(q, a), {"ready", "error"}) =
               Count(q, {"ready", "error"}) + (IF a.type \in {"ready", "error"} THEN 1 ELSE 0)
      BY SMTT(30), <3>1, CountAppend
    <3>3. QED
      BY <1>7, <3>1, <3>2
  <2>4. Count(<<>>, {"run"}) = 0
    BY CountEmpty
  <2>5. /\ (Count(pool[s].out, {"run"}))' = Count(<<>>, {"run"})
        /\ (Count(answers[s], {"ready", "error"}))' = Count(answers'[s], {"ready", "error"})
    BY <1>6, <1>7 DEF Count
  <2>6. pool[s].runs = Count(<<c>>, {"run"}) + Count(answers[s], {"ready", "error"}) + (IF session[s].busy THEN 1 ELSE 0)
    BY <2>1 DEF IInv, RunsCounted, Ongoing
  <2>7. pool'[s].runs = 0 + Count(answers'[s], {"ready", "error"}) + (IF e.busy THEN 1 ELSE 0)
    BY <1>6, <1>7, <2>2, <2>3, <2>6
  <2>8. QED
    BY <1>7, <2>4, <2>5, <2>7 DEF Counted
<1>12. QED
  BY <1>1, <1>2, <1>4, <1>6, <1>7, <1>8, <1>9, <1>10, <1>11, SlaveFrame DEF testVars

(* A remote run that begins is told of, and has a number of its own.       *)
LEMMA ConsistentStarted ==
  ASSUME NEW e \in Session, NEW a \in Seq(Answer), NEW i, NEW p, Consistent(e, a, i, p), ~e.busy,
         NEW f \in Session, f.id = e.id, f.cases = e.cases + 1, f.busy,
         NEW m \in Answer, m.type = "started", m.id = e.id, m.case = e.cases + 1
  PROVE  Consistent(f, Append(a, m), i, p)
<1>1. /\ DOMAIN Append(a, m) = DOMAIN a \cup {Len(a) + 1}
      /\ \A k \in DOMAIN a : Append(a, m)[k] = a[k]
      /\ Append(a, m)[Len(a) + 1] = m
  BY AppendIndexed
<1>2. e.cases \in Nat
  BY DEF Session
<1>3. \A c : ReadyAt(Append(a, m), c) <=> ReadyAt(a, c)
  BY <1>1 DEF ReadyAt
<1>4. ~ReadyAt(a, f.cases) /\ ~ReadyAt(i, f.cases)
  BY <1>2 DEF Consistent, Unreported
<1>5. OfSession(f, Append(a, m), i)
  BY <1>1 DEF Consistent, OfSession
<1>6. OnceOnly(f, Append(a, m), i)
  BY <1>1, <1>3, <1>4 DEF Consistent, OnceOnly
<1>7. ASSUME NEW c \in Nat, Unreported(f, Append(a, m), i, c)
      PROVE  c > 0 /\ c <= f.cases /\ Known(f, Append(a, m), i, p, c)
  <2>1. CASE c = f.cases
    BY <1>1, <1>2, <2>1 DEF Known
  <2>2. CASE c # f.cases
    <3>1. Unreported(e, a, i, c)
      BY <1>3, <1>7, <2>2 DEF Unreported
    <3>2. c > 0 /\ c <= e.cases /\ Known(e, a, i, p, c)
      BY <3>1 DEF Consistent
    <3>3. Known(f, Append(a, m), i, p, c)
      BY <1>1, <3>2 DEF Known
    <3>4. QED
      BY <1>2, <3>2, <3>3
  <2>3. QED
    BY <2>1, <2>2
<1>8. QED
  BY <1>5, <1>6, <1>7 DEF Consistent

(* A command that could not be run leaves the runs as they are.            *)
LEMMA ConsistentError ==
  ASSUME NEW e, NEW a \in Seq(Answer), NEW i, NEW p, Consistent(e, a, i, p),
         NEW m \in Answer, m.type = "error", m.id = e.id
  PROVE  Consistent(e, Append(a, m), i, p)
<1>1. /\ DOMAIN Append(a, m) = DOMAIN a \cup {Len(a) + 1}
      /\ \A k \in DOMAIN a : Append(a, m)[k] = a[k]
      /\ Append(a, m)[Len(a) + 1] = m
  BY AppendIndexed
<1>2. \A c : ReadyAt(Append(a, m), c) <=> ReadyAt(a, c)
  BY <1>1 DEF ReadyAt
<1>3. OfSession(e, Append(a, m), i) /\ OnceOnly(e, Append(a, m), i)
  BY <1>1, <1>2 DEF Consistent, OfSession, OnceOnly
<1>4. ASSUME NEW c \in Nat, Unreported(e, Append(a, m), i, c)
      PROVE  c > 0 /\ c <= e.cases /\ Known(e, Append(a, m), i, p, c)
  <2>1. c > 0 /\ c <= e.cases /\ Known(e, a, i, p, c)
    BY <1>2, <1>4 DEF Unreported, Consistent
  <2>2. QED
    BY <1>1, <2>1 DEF Known
<1>5. QED
  BY <1>3, <1>4 DEF Consistent

(* The end of the run that a slave works on is not yet told of.            *)
LEMMA ConsistentEnded ==
  ASSUME NEW e \in Session, NEW a \in Seq(Answer), NEW i, NEW p, Consistent(e, a, i, p), e.busy,
         NEW f, f.id = e.id, f.cases = e.cases, ~f.busy,
         NEW m \in Answer, m.type = "ready", m.id = e.id, m.case = e.cases
  PROVE  Consistent(f, Append(a, m), i, p)
<1>1. /\ DOMAIN Append(a, m) = DOMAIN a \cup {Len(a) + 1}
      /\ Len(a) + 1 \notin DOMAIN a
      /\ \A k \in DOMAIN a : Append(a, m)[k] = a[k]
      /\ Append(a, m)[Len(a) + 1] = m
  BY AppendIndexed
<1>2. \A c : ReadyAt(Append(a, m), c) <=> ReadyAt(a, c) \/ c = e.cases
  BY <1>1 DEF ReadyAt
<1>3. OfSession(f, Append(a, m), i)
  BY <1>1 DEF Consistent, OfSession
<1>4. OnceOnly(f, Append(a, m), i)
  <2>1. ~ReadyAt(a, e.cases) /\ ~ReadyAt(i, e.cases)
    BY DEF Consistent, OnceOnly
  <2>2. ASSUME NEW j \in DOMAIN Append(a, m), NEW k \in DOMAIN Append(a, m),
               Append(a, m)[j].type = "ready", Append(a, m)[k].type = "ready",
               Append(a, m)[j].case = Append(a, m)[k].case
        PROVE  j = k
    BY <1>1, <2>1, <2>2 DEF Consistent, OnceOnly, ReadyAt
  <2>3. QED
    BY <1>2, <2>1, <2>2 DEF Consistent, OnceOnly
<1>5. ASSUME NEW c \in Nat, Unreported(f, Append(a, m), i, c)
      PROVE  c > 0 /\ c <= f.cases /\ Known(f, Append(a, m), i, p, c)
  <2>1. c > 0 /\ c <= e.cases /\ Known(e, a, i, p, c)
    BY <1>2, <1>5 DEF Unreported, Consistent
  <2>2. QED
    BY <1>1, <2>1 DEF Known
<1>6. QED
  BY <1>3, <1>4, <1>5 DEF Consistent

LEMMA SlaveReadsStep == ASSUME IInv, NEW s \in Slaves, SlaveReads(s) PROVE IInv'
<1>1. /\ DataOK /\ pool[s].open /\ pool[s].out # <<>> /\ pool' = [pool EXCEPT ![s].out = Tail(@)]
      /\ UNCHANGED <<testVars, queue, inbox, lastId>>
  BY DEF IInv, SlaveReads
<1>2. PICK c, t, i, p : c = Head(pool[s].out) /\ t = pool[s].pid /\ i = inbox[t] /\ p = pending[t]
  OBVIOUS
<1>3. /\ pool[s] \in Entry /\ session[s] \in Session /\ answers[s] \in Seq(Answer) /\ c \in Command
      /\ session \in [Slaves -> Session] /\ pool[s].reserved
  <2>1. pool[s].out \in Seq(Command)
    BY <1>1, Fields
  <2>2. QED
    BY <1>1, <1>2, <2>1, Fields DEF IInv, EntryInv, DataOK
<1>4. c.id \in Nat /\ session[s].id \in Nat /\ session[s].cases \in Nat /\ session[s].busy \in BOOLEAN
  BY <1>3 DEF Command, Session, Id
<1>5. /\ c.type # "run" => Quiet(s) /\ ~Owed(s)
      /\ Live(t) => Consistent(session[s], answers[s], i, p)
  <2>1. c = pool[s].out[1]
    BY <1>1, <1>2, <1>3 DEF Entry
  <2>2. QED
    BY <1>1, <1>2, <1>3, <2>1 DEF IInv, OutInv, OutOk, CaseInv, CaseOk
<1>6. c.type # "run" => ~session[s].busy /\ i = <<>> /\ \A k : k \notin DOMAIN answers[s]
  BY <1>2, <1>5 DEF Quiet, Owed
<1>7. CASE c.type = "reserve" /\ session' = [session EXCEPT ![s].id = c.id] /\ Say(s, "reserve", c.id, 0)
  <2>1. PICK a, e : a = [type |-> "reserve", id |-> c.id, case |-> 0] /\ e = [session[s] EXCEPT !.id = c.id]
    OBVIOUS
  <2>2. /\ a \in Answer /\ a.type = "reserve" /\ a.id = c.id
        /\ e \in Session /\ e.id = c.id /\ e.busy = session[s].busy
    BY <1>3, <1>4, <2>1 DEF Answer, Session, Id
  <2>3. session' = [session EXCEPT ![s] = e] /\ answers' = [answers EXCEPT ![s] = Append(@, a)]
    BY <1>7, <2>1 DEF Say
  <2>4. Consistent(e, Append(answers[s], a), i, p)
    <3>1. \A k \in DOMAIN Append(answers[s], a) : Append(answers[s], a)[k] = a
      BY <1>3, <1>6, <1>7, <2>2, AppendIndexed
    <3>2. QED
      BY <1>6, <1>7, <2>2, <3>1, ConsistentNone
  <2>5. QED
    BY ZenonT(40), <1>1, <1>2, <1>7, <2>2, <2>3, <2>4, CommandTaken
<1>8. CASE c.type = "release" /\ session' = session /\ Say(s, "release", session[s].id, 0)
  <2>1. PICK a, e : a = [type |-> "release", id |-> session[s].id, case |-> 0] /\ e = session[s]
    OBVIOUS
  <2>2. /\ a \in Answer /\ a.type = "release" /\ a.id = e.id
        /\ e \in Session /\ e.busy = session[s].busy
    BY <1>3, <1>4, <2>1 DEF Answer, Id
  <2>3. session' = [session EXCEPT ![s] = e] /\ answers' = [answers EXCEPT ![s] = Append(@, a)]
    BY <1>3, <1>8, <2>1 DEF Say
  <2>4. Consistent(e, Append(answers[s], a), i, p)
    <3>1. \A k \in DOMAIN Append(answers[s], a) : Append(answers[s], a)[k] = a
      BY <1>3, <1>6, <1>8, <2>2, AppendIndexed
    <3>2. QED
      BY <1>6, <1>8, <2>1, <2>2, <3>1, ConsistentNone
  <2>5. QED
    BY <1>1, <1>2, <1>8, <2>2, <2>3, <2>4, CommandTaken
<1>9. CASE StartCase(s, c)
  <2>1. PICK a, e : /\ a = [type |-> "started", id |-> session[s].id, case |-> session[s].cases + 1]
                    /\ e = [session[s] EXCEPT !.cases = @ + 1, !.busy = TRUE]
    OBVIOUS
  <2>2. /\ a \in Answer /\ a.type = "started" /\ a.id = session[s].id /\ a.case = session[s].cases + 1
        /\ e \in Session /\ e.id = session[s].id /\ e.cases = session[s].cases + 1 /\ e.busy
    <3>1. a \in Answer /\ a.type = "started" /\ a.id = session[s].id /\ a.case = session[s].cases + 1
      BY <1>4, <2>1 DEF Answer, Id
    <3>2. session[s].cases + 1 \in Nat
      BY <1>4
    <3>3. e \in Session /\ e.id = session[s].id /\ e.cases = session[s].cases + 1 /\ e.busy
      BY <1>3, <2>1, <3>2 DEF Session
    <3>4. QED
      BY <3>1, <3>3
  <2>3. /\ c.type = "run" /\ ~session[s].busy
        /\ session' = [session EXCEPT ![s] = e] /\ answers' = [answers EXCEPT ![s] = Append(@, a)]
    BY <1>3, <1>9, <2>1 DEF StartCase, Say
  <2>4. Live(t) => Consistent(e, Append(answers[s], a), i, p)
    BY <1>3, <1>5, <2>2, <2>3, ConsistentStarted
  <2>5. QED
    BY <1>1, <1>2, <2>2, <2>3, <2>4, CommandTaken
<1>10. CASE RunFault(s, c)
  <2>1. PICK a, e : a = [type |-> "error", id |-> session[s].id, case |-> 0] /\ e = session[s]
    OBVIOUS
  <2>2. /\ a \in Answer /\ a.type = "error" /\ a.id = e.id
        /\ e \in Session /\ e.busy = session[s].busy
    BY <1>3, <1>4, <2>1 DEF Answer, Id
  <2>3. /\ c.type = "run"
        /\ session' = [session EXCEPT ![s] = e] /\ answers' = [answers EXCEPT ![s] = Append(@, a)]
    BY <1>3, <1>10, <2>1 DEF RunFault, Say
  <2>4. Live(t) => Consistent(e, Append(answers[s], a), i, p)
    BY <1>3, <1>5, <2>1, <2>2, ConsistentError
  <2>5. QED
    BY <1>1, <1>2, <2>2, <2>3, <2>4, CommandTaken
<1>11. QED
  BY <1>2, <1>7, <1>8, <1>9, <1>10 DEF SlaveReads, Serve

LEMMA SlaveReadyStep == ASSUME IInv, NEW s \in Slaves, SlaveReady(s) PROVE IInv'
<1>1. DataOK /\ session[s].busy /\ UNCHANGED <<testVars, queue, inbox, pool, lastId>>
  BY DEF IInv, SlaveReady
<1>2. PICK t, i, p : t = pool[s].pid /\ i = inbox[t] /\ p = pending[t]
  OBVIOUS
<1>3. /\ pool[s] \in Entry /\ session[s] \in Session /\ answers[s] \in Seq(Answer)
      /\ session[s].id \in Nat /\ session[s].cases \in Nat /\ session[s].busy = TRUE
  BY <1>1, Fields
<1>4. pool[s].reserved /\ ~Quiet(s)
  BY <1>1 DEF IInv, EntryInv, Quiet
<1>5. PICK a, e : /\ a = [type |-> "ready", id |-> session[s].id, case |-> session[s].cases]
                  /\ e = [session[s] EXCEPT !.busy = FALSE]
  OBVIOUS
<1>6. /\ a \in Answer /\ a.type = "ready" /\ a.id = session[s].id /\ a.case = session[s].cases
      /\ e \in Session /\ e.id = session[s].id /\ e.cases = session[s].cases /\ ~e.busy
  BY <1>3, <1>5 DEF Answer, Session, Id
<1>7. /\ session'[s] = e /\ session' \in [Slaves -> Session]
      /\ answers'[s] = Append(answers[s], a) /\ answers' \in [Slaves -> Seq(Answer)]
      /\ \A r \in Slaves : r # s => pool'[r] = pool[r] /\ session'[r] = session[r] /\ answers'[r] = answers[r]
  <2>1. session' = [session EXCEPT ![s] = e] /\ answers' = [answers EXCEPT ![s] = Append(@, a)]
    BY <1>1, <1>5 DEF SlaveReady, Say, DataOK
  <2>2. Append(answers[s], a) \in Seq(Answer)
    BY <1>3, <1>6
  <2>3. QED
    BY <1>1, <1>6, <2>1, <2>2 DEF DataOK
<1>8. /\ DOMAIN answers'[s] = DOMAIN answers[s] \cup {Len(answers[s]) + 1}
      /\ \A k \in DOMAIN answers[s] : answers'[s][k] = answers[s][k]
      /\ answers'[s][Len(answers[s]) + 1] = a
  BY <1>3, <1>6, <1>7, AppendIndexed
<1>9. UNCHANGED <<at, pending, queue, inbox, pool>> /\ (Owed(s)' <=> Owed(s))
  BY <1>1, <1>6, <1>8 DEF testVars, Owed
<1>10. OutOk(s)'
  <2>1. OutOk(s)
    BY DEF IInv, OutInv
  <2>2. QED
    BY <1>4, <1>9, <2>1 DEF OutOk, Asks, Heard, Waits
<1>11. AnswerOk(s)'
  <2>1. AnswerOk(s)
    BY DEF IInv, AnswerInv
  <2>2. \A k \in DOMAIN answers'[s] : answers'[s][k].type # "ready" =>
          k \in DOMAIN answers[s] /\ answers'[s][k] = answers[s][k]
    BY <1>6, <1>8
  <2>3. QED
    BY <1>4, <1>9, <2>1, <2>2 DEF AnswerOk, Asks, Heard, Waits
<1>12. CaseOk(s)'
  <2>1. Live(t) => Consistent(session[s], answers[s], i, p)
    BY <1>2, <1>4 DEF IInv, CaseInv, CaseOk
  <2>2. Live(t) => Consistent(e, Append(answers[s], a), i, p)
    BY <1>1, <1>3, <1>6, <2>1, ConsistentEnded
  <2>3. QED
    BY <1>2, <1>7, <1>9, <2>2 DEF CaseOk, Live
<1>13. Counted(s)'
  <2>1. PICK q \in Seq(Answer) : q = answers[s]
    BY <1>3
  <2>2. /\ Count(q, {"ready", "error"}) \in Nat
        /\ Count(Append(q, a), {"ready", "error"}) = Count(q, {"ready", "error"}) + 1
    BY <1>6, CountAppend
  <2>3. /\ (Count(pool[s].out, {"run"}))' = Count(pool[s].out, {"run"})
        /\ (Count(answers[s], {"ready", "error"}))' = Count(Append(q, a), {"ready", "error"})
    BY <1>7, <1>9, <2>1 DEF Count
  <2>4. Count(pool[s].out, {"run"}) \in Nat
    <3>1. pool[s].out \in Seq(Command)
      BY <1>1, Fields
    <3>2. QED
      BY <3>1, CountType
  <2>5. pool[s].runs = Count(pool[s].out, {"run"}) + Count(q, {"ready", "error"}) + 1
    BY <1>1, <2>1 DEF IInv, RunsCounted, Ongoing
  <2>6. QED
    BY <1>6, <1>7, <1>9, <2>2, <2>3, <2>4, <2>5 DEF Counted
<1>14. QED
  BY <1>1, <1>4, <1>6, <1>7, <1>9, <1>10, <1>11, <1>12, <1>13, SlaveFrame DEF DataOK

----------------------------------------------------------------------------
(* The socket thread.                                                      *)

(* The answer at the head of a connection, and what is left behind it.     *)
LEMMA SocketFacts ==
  ASSUME IInv, NEW s \in Slaves, pool[s].open, answers[s] # <<>>,
         NEW a, a = Head(answers[s]), NEW t, t = pool[s].pid
  PROVE  /\ t \in Tests /\ Holds(t, s) /\ pool[s].reserved /\ pool[s].name = t
         /\ \A r \in Slaves : pool[r].name = t \/ Holds(t, r) => r = s
         /\ a \in Answer /\ Tail(answers[s]) \in Seq(Answer)
         /\ \A k \in DOMAIN Tail(answers[s]) : \E j \in DOMAIN answers[s] :
              j = k + 1 /\ j # 1 /\ k \in Nat /\ Tail(answers[s])[k] = answers[s][j]
         /\ a.type # "ready" =>
              /\ ~Asks(t) /\ ~Heard(t) /\ Waits(t, a.type) /\ pool[s].out = <<>>
              /\ \A k \in DOMAIN Tail(answers[s]) : Tail(answers[s])[k].type = "ready"
         /\ a.type \in {"reserve", "release"} => Quiet(s) /\ Tail(answers[s]) = <<>>
         /\ a.type = "ready" => ~Quiet(s)
<1>1. DataOK /\ answers[s] \in Seq(Answer)
  BY Fields DEF IInv
<1>2. t \in Tests /\ Holds(t, s) /\ pool[s].reserved
  BY DEF IInv, EntryInv, Holds
<1>3. pool[s].name = t /\ \A r \in Slaves : pool[r].name = t \/ Holds(t, r) => r = s
  BY <1>2, OneEntry
<1>4. /\ Tail(answers[s]) \in Seq(Answer) /\ 1 \in DOMAIN answers[s] /\ a = answers[s][1] /\ a \in Answer
      /\ \A k \in DOMAIN Tail(answers[s]) :
           k \in Nat /\ k + 1 \in DOMAIN answers[s] /\ k + 1 # 1 /\ Tail(answers[s])[k] = answers[s][k + 1]
      /\ Len(answers[s]) = 1 => Tail(answers[s]) = <<>>
  BY <1>1, TailIndexed
<1>5. ASSUME a.type # "ready"
      PROVE  /\ ~Asks(t) /\ ~Heard(t) /\ Waits(t, a.type) /\ pool[s].out = <<>>
             /\ \A k \in DOMAIN answers[s] : answers[s][k].type # "ready" => k = 1
             /\ a.type \in {"reserve", "release"} => Quiet(s)
  <2>1. AnswerOk(s) /\ OutOk(s)
    BY DEF IInv, AnswerInv, OutInv
  <2>2. Owed(s)
    BY <1>4, <1>5 DEF Owed
  <2>3. QED
    BY <1>4, <1>5, <2>1, <2>2 DEF AnswerOk, OutOk
<1>6. ASSUME a.type # "ready"
      PROVE  \A k \in DOMAIN Tail(answers[s]) : Tail(answers[s])[k].type = "ready"
  BY <1>4, <1>5, <1>6
<1>7. ASSUME a.type \in {"reserve", "release"}
      PROVE  Quiet(s) /\ Tail(answers[s]) = <<>>
  <2>1. Quiet(s)
    BY <1>5, <1>7
  <2>2. \A k \in DOMAIN answers[s] : k = 1
    BY <1>5, <1>7, <2>1 DEF Quiet
  <2>3. Len(answers[s]) = 1
    <3>1. Len(answers[s]) \in Nat /\ DOMAIN answers[s] = 1..Len(answers[s]) /\ Len(answers[s]) # 0
      BY <1>1
    <3>2. Len(answers[s]) \in DOMAIN answers[s]
      BY <3>1
    <3>3. QED
      BY <2>2, <3>2
  <2>4. QED
    BY <1>4, <2>1, <2>3
<1>8. a.type = "ready" => ~Quiet(s)
  BY <1>4 DEF Quiet
<1>9. QED
  BY <1>2, <1>3, <1>4, <1>5, <1>6, <1>7, <1>8

(* What the test is told, if it is still there.                            *)
LEMMA TellFacts ==
  ASSUME DataOK, NEW s \in Slaves, NEW t \in Tests, t = pool[s].pid, NEW a \in Answer,
         NEW type \in {"response", "ready"}, NEW ok \in BOOLEAN, Tell(s, type, ok, a)
  PROVE  /\ inbox' \in [Tests -> Seq(Notice)] /\ \A u : u # t => inbox'[u] = inbox[u]
         /\ at[t] = "gone" => inbox'[t] = inbox[t]
         /\ at[t] # "gone" => \E n \in Notice :
              n.type = type /\ n.id = a.id /\ n.case = a.case /\ inbox'[t] = Append(inbox[t], n)
<1>1. PICK n : n = [type |-> type, ok |-> ok, id |-> a.id, case |-> a.case]
  OBVIOUS
<1>2. n \in Notice /\ n.type = type /\ n.id = a.id /\ n.case = a.case
  BY <1>1 DEF Notice, Answer
<1>3. inbox \in [Tests -> Seq(Notice)] /\ t # Nobody
  BY PoolAssumption DEF DataOK
<1>4. CASE at[t] = "gone"
  BY <1>3, <1>4 DEF Tell
<1>5. CASE at[t] # "gone"
  <2>1. inbox' = [inbox EXCEPT ![t] = Append(@, n)]
    BY <1>1, <1>3, <1>5 DEF Tell
  <2>2. Append(inbox[t], n) \in Seq(Notice)
    BY <1>2, <1>3
  <2>3. QED
    BY <1>2, <1>3, <1>5, <2>1, <2>2
<1>6. QED
  BY <1>4, <1>5

(* A test is told that its remote run has begun.                           *)
LEMMA ConsistentTold ==
  ASSUME NEW e, NEW a \in Seq(Answer), a # <<>>, NEW i \in Seq(Notice), NEW p, Consistent(e, a, i, p),
         Head(a).type # "ready",
         NEW n \in Notice, n.type = "response", n.id = Head(a).id, n.case = Head(a).case
  PROVE  Consistent(e, Tail(a), Append(i, n), p)
<1>1. /\ DOMAIN Append(i, n) = DOMAIN i \cup {Len(i) + 1}
      /\ \A k \in DOMAIN i : Append(i, n)[k] = i[k]
      /\ Append(i, n)[Len(i) + 1] = n
  BY AppendIndexed
<1>2. /\ 1 \in DOMAIN a /\ Head(a) = a[1]
      /\ \A k \in DOMAIN Tail(a) : k \in Nat /\ k + 1 \in DOMAIN a /\ k + 1 # 1 /\ Tail(a)[k] = a[k + 1]
      /\ \A k \in DOMAIN a : k # 1 => k - 1 \in DOMAIN Tail(a) /\ Tail(a)[k - 1] = a[k]
  BY TailIndexed
<1>3. \A c : (ReadyAt(Append(i, n), c) <=> ReadyAt(i, c)) /\ (ReadyAt(Tail(a), c) => ReadyAt(a, c))
  BY <1>1, <1>2 DEF ReadyAt
<1>4. OfSession(e, Tail(a), Append(i, n))
  <2>1. \A k \in DOMAIN Tail(a) : Tail(a)[k].id = e.id
    BY <1>2 DEF Consistent, OfSession
  <2>2. \A k \in DOMAIN Append(i, n) : Append(i, n)[k].id = e.id
    BY <1>1, <1>2 DEF Consistent, OfSession
  <2>3. QED
    BY <2>1, <2>2 DEF OfSession
<1>5. OnceOnly(e, Tail(a), Append(i, n))
  <2>1. ASSUME NEW j \in DOMAIN Tail(a), NEW k \in DOMAIN Tail(a), Tail(a)[j].type = "ready",
               Tail(a)[k].type = "ready", Tail(a)[j].case = Tail(a)[k].case
        PROVE  j = k
    <3>1. j + 1 = k + 1
      BY <1>2, <2>1 DEF Consistent, OnceOnly
    <3>2. QED
      BY <1>2, <3>1
  <2>2. ASSUME NEW j \in DOMAIN Append(i, n), NEW k \in DOMAIN Append(i, n), Append(i, n)[j].type = "ready",
               Append(i, n)[k].type = "ready", Append(i, n)[j].case = Append(i, n)[k].case
        PROVE  j = k
    BY <1>1, <2>2 DEF Consistent, OnceOnly
  <2>3. QED
    BY <1>3, <2>1, <2>2 DEF Consistent, OnceOnly
<1>6. ASSUME NEW c \in Nat, Unreported(e, Tail(a), Append(i, n), c)
      PROVE  c > 0 /\ c <= e.cases /\ Known(e, Tail(a), Append(i, n), p, c)
  <2>1. Unreported(e, a, i, c)
    BY <1>3, <1>6 DEF Unreported
  <2>2. c > 0 /\ c <= e.cases /\ Known(e, a, i, p, c)
    BY <2>1 DEF Consistent
  <2>3. CASE \E k \in DOMAIN a : a[k].type = "started" /\ a[k].case = c
    <3>1. PICK k \in DOMAIN a : a[k].type = "started" /\ a[k].case = c
      BY <2>3
    <3>2. CASE k = 1
      BY <1>1, <1>2, <2>2, <3>1, <3>2 DEF Known
    <3>3. CASE k # 1
      BY <1>2, <2>2, <3>1, <3>3 DEF Known
    <3>4. QED
      BY <3>2, <3>3
  <2>4. CASE \E k \in DOMAIN i : i[k].type = "response" /\ i[k].case = c
    BY <1>1, <2>2, <2>4 DEF Known
  <2>5. QED
    BY <2>2, <2>3, <2>4 DEF Known
<1>7. QED
  BY <1>4, <1>5, <1>6 DEF Consistent

(* A test is told that its remote run has ended.                           *)
LEMMA ConsistentReadyTold ==
  ASSUME NEW e, NEW a \in Seq(Answer), a # <<>>, NEW i \in Seq(Notice), NEW p, Consistent(e, a, i, p),
         Head(a).type = "ready",
         NEW n \in Notice, n.type = "ready", n.id = Head(a).id, n.case = Head(a).case
  PROVE  Consistent(e, Tail(a), Append(i, n), p)
<1>1. /\ DOMAIN Append(i, n) = DOMAIN i \cup {Len(i) + 1}
      /\ \A k \in DOMAIN i : Append(i, n)[k] = i[k]
      /\ Append(i, n)[Len(i) + 1] = n
  BY AppendIndexed
<1>2. /\ 1 \in DOMAIN a /\ Head(a) = a[1]
      /\ \A k \in DOMAIN Tail(a) : k \in Nat /\ k + 1 \in DOMAIN a /\ k + 1 # 1 /\ Tail(a)[k] = a[k + 1]
      /\ \A k \in DOMAIN a : k # 1 => k - 1 \in DOMAIN Tail(a) /\ Tail(a)[k - 1] = a[k]
  BY TailIndexed
<1>3. n.case \in Nat /\ ReadyAt(a, n.case) /\ ~ReadyAt(Tail(a), n.case) /\ ~ReadyAt(i, n.case)
  <2>1. n.case \in Nat
    BY DEF Notice
  <2>2. ReadyAt(a, n.case)
    BY <1>2 DEF ReadyAt
  <2>3. ~ReadyAt(Tail(a), n.case)
    BY <1>2 DEF ReadyAt, Consistent, OnceOnly
  <2>4. QED
    BY <2>1, <2>2, <2>3 DEF Consistent, OnceOnly
<1>4. \A c : /\ ReadyAt(Append(i, n), c) <=> ReadyAt(i, c) \/ c = n.case
             /\ ReadyAt(Tail(a), c) => ReadyAt(a, c) /\ c # n.case
  BY <1>1, <1>2, <1>3 DEF ReadyAt
<1>5. OfSession(e, Tail(a), Append(i, n))
  <2>1. \A k \in DOMAIN Tail(a) : Tail(a)[k].id = e.id
    BY <1>2 DEF Consistent, OfSession
  <2>2. \A k \in DOMAIN Append(i, n) : Append(i, n)[k].id = e.id
    BY <1>1, <1>2 DEF Consistent, OfSession
  <2>3. QED
    BY <2>1, <2>2 DEF OfSession
<1>6. OnceOnly(e, Tail(a), Append(i, n))
  <2>1. ASSUME NEW j \in DOMAIN Tail(a), NEW k \in DOMAIN Tail(a), Tail(a)[j].type = "ready",
               Tail(a)[k].type = "ready", Tail(a)[j].case = Tail(a)[k].case
        PROVE  j = k
    <3>1. j + 1 = k + 1
      BY <1>2, <2>1 DEF Consistent, OnceOnly
    <3>2. QED
      BY <1>2, <3>1
  <2>2. ASSUME NEW j \in DOMAIN Append(i, n), NEW k \in DOMAIN Append(i, n), Append(i, n)[j].type = "ready",
               Append(i, n)[k].type = "ready", Append(i, n)[j].case = Append(i, n)[k].case
        PROVE  j = k
    BY <1>1, <1>3, <2>2 DEF Consistent, OnceOnly, ReadyAt
  <2>3. \A c \in Nat : ~(ReadyAt(Tail(a), c) /\ ReadyAt(Append(i, n), c))
    BY <1>4 DEF Consistent, OnceOnly
  <2>4. e.busy => ~ReadyAt(Tail(a), e.cases) /\ ~ReadyAt(Append(i, n), e.cases)
    BY <1>3, <1>4 DEF Consistent, OnceOnly
  <2>5. QED
    BY <2>1, <2>2, <2>3, <2>4 DEF OnceOnly
<1>7. ASSUME NEW c \in Nat, Unreported(e, Tail(a), Append(i, n), c)
      PROVE  c > 0 /\ c <= e.cases /\ Known(e, Tail(a), Append(i, n), p, c)
  <2>1. Unreported(e, a, i, c)
    BY <1>3, <1>4, <1>7 DEF Unreported
  <2>2. c > 0 /\ c <= e.cases /\ Known(e, a, i, p, c)
    BY <2>1 DEF Consistent
  <2>3. CASE \E k \in DOMAIN a : a[k].type = "started" /\ a[k].case = c
    <3>1. PICK k \in DOMAIN a : a[k].type = "started" /\ a[k].case = c
      BY <2>3
    <3>2. k # 1
      BY <1>2, <3>1
    <3>3. QED
      BY <1>2, <2>2, <3>1, <3>2 DEF Known
  <2>4. CASE \E k \in DOMAIN i : i[k].type = "response" /\ i[k].case = c
    BY <1>1, <2>2, <2>4 DEF Known
  <2>5. QED
    BY <2>2, <2>3, <2>4 DEF Known
<1>8. QED
  BY <1>5, <1>6, <1>7 DEF Consistent

(* An answer that keeps the slave reserved concerns it and its test only.  *)
LEMMA HeardFrame ==
  ASSUME IInv, NEW s \in Slaves, pool[s].reserved, NEW t \in Tests, t = pool[s].pid,
         UNCHANGED <<testVars, queue, lastId, session>>,
         pool' \in [Slaves -> Entry], answers' \in [Slaves -> Seq(Answer)], inbox' \in [Tests -> Seq(Notice)],
         pool'[s].open = pool[s].open, pool'[s].reserved = pool[s].reserved,
         pool'[s].name = pool[s].name, pool'[s].pid = pool[s].pid, pool'[s].runs <= pool[s].runs,
         \A r \in Slaves : r # s => pool'[r] = pool[r] /\ answers'[r] = answers[r],
         \A u : u # t => inbox'[u] = inbox[u],
         Asks(t) => ~Quiet(s) /\ ~Heard(t)',
         InboxOk(t)', OutOk(s)', AnswerOk(s)', CaseOk(s)', Counted(s)'
  PROVE  IInv'
<1>1. DataOK /\ UNCHANGED <<at, allocs, started, pending, queue, lastId, session>>
  BY DEF IInv, testVars
<1>2. /\ Holds(t, s) /\ pool[s].name = t
      /\ \A r \in Slaves : pool[r].name = t \/ Holds(t, r) => r = s
  BY OneEntry DEF Holds
<1>3. \A r \in Slaves :
        /\ pool'[r].open = pool[r].open /\ pool'[r].reserved = pool[r].reserved
        /\ pool'[r].name = pool[r].name /\ pool'[r].pid = pool[r].pid
        /\ ~pool[r].reserved => pool'[r] = pool[r] /\ answers'[r] = answers[r]
  OBVIOUS
<1>4. /\ \A u : Asks(u)' <=> Asks(u)
      /\ \A u : u # t => (Heard(u)' <=> Heard(u))
      /\ \A u, ty : Waits(u, ty)' <=> Waits(u, ty)
      /\ \A u, r : r \in Slaves => (Holds(u, r)' <=> Holds(u, r))
      /\ \A u, r : r \in Slaves /\ u # t /\ Holds(u, r) => (Quiet(r)' <=> Quiet(r))
  <2>1. \A u : u # t => (Heard(u)' <=> Heard(u))
    BY DEF Heard
  <2>2. ASSUME NEW u, NEW r \in Slaves, u # t, Holds(u, r) PROVE Quiet(r)' <=> Quiet(r)
    <3>1. r # s /\ pool[r].pid = u
      BY <2>2 DEF Holds
    <3>2. pool'[r] = pool[r] /\ answers'[r] = answers[r] /\ inbox'[u] = inbox[u] /\ session' = session
      BY <1>1, <2>2, <3>1
    <3>3. QED
      BY <3>1, <3>2 DEF Quiet
  <2>3. QED
    BY <1>1, <1>3, <2>1, <2>2 DEF Asks, Waits, Holds
<1>5. DataOK'
  <2>1. /\ at' \in [Tests -> {"idle", "holding", "gone"} \cup Blocked]
        /\ allocs' \in 0..MaxAllocs /\ started' \in 0..MaxRuns /\ lastId' \in Id
        /\ pending' \in [Tests -> SUBSET (Id \X Nat)] /\ queue' \in Seq(Request)
        /\ session' \in [Slaves -> Session]
    BY <1>1 DEF DataOK
  <2>2. QED
    BY <2>1 DEF DataOK
<1>6. EntryInv'
  BY <1>1, <1>3, <1>4 DEF IInv, EntryInv
<1>7. QueueInv'
  <2>1. ASSUME NEW j \in DOMAIN queue
        PROVE  /\ ~Heard(queue[j].from) /\ Waits(queue[j].from, queue[j].type)
               /\ queue[j].type = "allocate" =>
                    inbox[queue[j].from] = <<>> /\ \A r \in Slaves : pool[r].name # queue[j].from
               /\ queue[j].type # "allocate" => \E r \in Slaves : Holds(queue[j].from, r)
               /\ queue[j].type = "free" => \A r \in Slaves : Holds(queue[j].from, r) => Quiet(r)
               /\ \A k \in DOMAIN queue : queue[k].from = queue[j].from => k = j
    BY DEF IInv, QueueInv, Orderly
  <2>2. ASSUME NEW j \in DOMAIN queue, queue[j].from = t
        PROVE  ~Heard(t)' /\ queue[j].type \notin {"allocate", "free"}
    <3>1. Asks(t)
      BY <2>2 DEF Asks
    <3>2. QED
      BY <1>2, <2>1, <2>2, <3>1
  <2>3. ASSUME NEW j \in DOMAIN queue
        PROVE  /\ ~Heard(queue[j].from)' /\ Waits(queue[j].from, queue[j].type)'
               /\ queue[j].type = "allocate" =>
                    inbox'[queue[j].from] = <<>> /\ \A r \in Slaves : pool'[r].name # queue[j].from
               /\ queue[j].type # "allocate" => \E r \in Slaves : Holds(queue[j].from, r)'
               /\ queue[j].type = "free" => \A r \in Slaves : Holds(queue[j].from, r)' => Quiet(r)'
    <3>1. PICK u, ty : u = queue[j].from /\ ty = queue[j].type
      OBVIOUS
    <3>2. queue' = queue
      BY <1>1
    <3>3. CASE u = t
      BY <1>3, <1>4, <2>1, <2>2, <3>1, <3>2, <3>3
    <3>4. CASE u # t
      BY <1>3, <1>4, <2>1, <3>1, <3>2, <3>4
    <3>5. QED
      BY <3>3, <3>4
  <2>4. QED
    BY <1>1, <2>1, <2>3 DEF QueueInv, Orderly
<1>8. InboxInv'
  <2>1. ASSUME NEW u \in Tests, u # t PROVE InboxOk(u)'
    <3>1. InboxOk(u)
      BY DEF IInv, InboxInv
    <3>2. inbox'[u] = inbox[u] /\ at' = at /\ (Heard(u)' <=> Heard(u))
      BY <1>1, <1>4, <2>1
    <3>3. QED
      BY <1>3, <1>4, <3>1, <3>2 DEF InboxOk
  <2>2. QED
    BY <2>1 DEF InboxInv
<1>9. \A r \in Slaves : r # s => OutOk(r)' /\ AnswerOk(r)' /\ CaseOk(r)' /\ Counted(r)'
  <2>1. at' = at /\ pending' = pending
    BY <1>1
  <2>2. \A r \in Slaves : r # s => pool'[r] = pool[r] /\ session'[r] = session[r] /\ answers'[r] = answers[r]
    BY <1>1
  <2>5. \A u : u # t => inbox'[u] = inbox[u] /\ (Asks(u)' => Asks(u))
    BY <1>4
  <2>3. ASSUME NEW r \in Slaves, r # s PROVE OutOk(r)' /\ AnswerOk(r)' /\ CaseOk(r)' /\ Counted(r)'
    <3>1. PICK u : u = pool[r].pid
      OBVIOUS
    <3>2. pool[r].reserved => u # t
      BY <1>2, <2>3, <3>1 DEF Holds
    <3>3. pool[r].reserved => inbox'[u] = inbox[u] /\ (Asks(u)' => Asks(u))
      BY <2>5, <3>2
    <3>4. pool'[r] = pool[r] /\ session'[r] = session[r] /\ answers'[r] = answers[r]
      BY <2>2, <2>3
    <3>5. QED
      BY <2>1, <3>1, <3>3, <3>4, OtherKept
  <2>4. QED
    BY <2>3
<1>10. BoundInv'
  <2>1. (Count(queue, {"run"}))' = Count(queue, {"run"})
    BY <1>1 DEF Count
  <2>2. Count(queue, {"run"}) \in Nat
    BY <1>1, CountType DEF DataOK
  <2>3. \A r \in Slaves : pool'[r] \in Entry /\ pool[r] \in Entry /\ pool'[r].runs <= pool[r].runs
    <3>1. \A r \in Slaves : pool[r] \in Entry /\ pool[r].runs \in Nat
      BY <1>1, Fields
    <3>2. QED
      BY <3>1
  <2>4. \A r \in Slaves : pool'[r].runs \in Nat /\ pool[r].runs \in Nat
    BY <2>3, PoolAssumption DEF Entry
  <2>5. started \in Nat
    BY <1>1, Fields
  <2>6. ASSUME NEW r \in Slaves PROVE pool'[r].runs + Count(queue, {"run"}) <= started
    <3>1. pool[r].runs + Count(queue, {"run"}) <= started
      BY DEF IInv, BoundInv
    <3>2. QED
      BY <2>2, <2>3, <2>4, <2>5, <3>1
  <2>7. QED
    BY <1>1, <2>1, <2>6 DEF BoundInv
<1>11. QED
  BY <1>5, <1>6, <1>7, <1>8, <1>9, <1>10 DEF IInv, OutInv, AnswerInv, CaseInv, RunsCounted, Ongoing, Counted

(* What the answer at the head of a connection is counted as.              *)
LEMMA HeardCounts ==
  ASSUME IInv, NEW s \in Slaves, answers[s] # <<>>, NEW a, a = Head(answers[s])
  PROVE  /\ Count(pool[s].out, {"run"}) \in Nat /\ Count(Tail(answers[s]), {"ready", "error"}) \in Nat
         /\ pool[s].runs =
              Count(pool[s].out, {"run"}) + Count(Tail(answers[s]), {"ready", "error"})
              + (IF session[s].busy THEN 1 ELSE 0) + (IF a.type \in {"ready", "error"} THEN 1 ELSE 0)
<1>1. answers[s] \in Seq(Answer) /\ pool[s].out \in Seq(Command)
  BY Fields DEF IInv
<1>2. /\ Count(Tail(answers[s]), {"ready", "error"}) \in Nat
      /\ Count(answers[s], {"ready", "error"}) = Count(Tail(answers[s]), {"ready", "error"})
           + (IF a.type \in {"ready", "error"} THEN 1 ELSE 0)
  BY <1>1, CountTail
<1>3. Count(pool[s].out, {"run"}) \in Nat
  BY <1>1, CountType
<1>4. pool[s].runs = Count(pool[s].out, {"run"}) + Count(answers[s], {"ready", "error"})
        + (IF session[s].busy THEN 1 ELSE 0)
  BY DEF IInv, RunsCounted, Ongoing
<1>5. QED
  BY <1>2, <1>3, <1>4

(* The response that the test waits for, and the slave stays reserved.     *)
LEMMA ToldStep ==
  ASSUME IInv, NEW s \in Slaves, pool[s].open, answers[s] # <<>>,
         NEW a, a = Head(answers[s]), a.type \in {"reserve", "started", "error"},
         UNCHANGED <<testVars, queue, lastId, session>>,
         NEW e \in Entry, pool' = [pool EXCEPT ![s] = e], answers' = [answers EXCEPT ![s] = Tail(@)],
         e.open = pool[s].open, e.reserved = pool[s].reserved, e.name = pool[s].name, e.pid = pool[s].pid,
         e.out = pool[s].out, pool[s].runs = e.runs + (IF a.type = "error" THEN 1 ELSE 0),
         NEW ok \in BOOLEAN, Tell(s, "response", ok, a)
  PROVE  IInv'
<1>1. DataOK /\ UNCHANGED <<at, allocs, started, pending, queue, lastId, session>>
  BY DEF IInv, testVars
<1>2. PICK t : t = pool[s].pid
  OBVIOUS
<1>3. /\ t \in Tests /\ Holds(t, s) /\ pool[s].reserved
      /\ a \in Answer /\ Tail(answers[s]) \in Seq(Answer)
      /\ ~Asks(t) /\ ~Heard(t) /\ Waits(t, a.type) /\ pool[s].out = <<>>
      /\ \A k \in DOMAIN Tail(answers[s]) : Tail(answers[s])[k].type = "ready"
  BY <1>2, SocketFacts
<1>4. /\ pool'[s] = e /\ pool' \in [Slaves -> Entry]
      /\ answers'[s] = Tail(answers[s]) /\ answers' \in [Slaves -> Seq(Answer)]
      /\ \A r \in Slaves : r # s => pool'[r] = pool[r] /\ answers'[r] = answers[r]
  BY <1>1, <1>3 DEF DataOK
<1>5. /\ inbox' \in [Tests -> Seq(Notice)] /\ \A u : u # t => inbox'[u] = inbox[u]
      /\ at[t] = "gone" => inbox'[t] = inbox[t]
      /\ at[t] # "gone" => \E n \in Notice :
           n.type = "response" /\ n.id = a.id /\ n.case = a.case /\ inbox'[t] = Append(inbox[t], n)
  <2>1. PICK type, told : type = "response" /\ told = ok
    OBVIOUS
  <2>2. type \in {"response", "ready"} /\ told \in BOOLEAN /\ Tell(s, type, told, a)
    BY <2>1
  <2>3. QED
    BY SMTT(30), <1>1, <1>2, <1>3, <2>1, <2>2, TellFacts
<1>6. inbox[t] \in Seq(Notice) /\ answers[s] \in Seq(Answer)
  BY <1>1, <1>3, Fields
<1>7. OutOk(s)' /\ AnswerOk(s)'
  BY <1>3, <1>4 DEF OutOk, AnswerOk
<1>8. Holds(t, s)'
  BY <1>2, <1>3, <1>4 DEF Holds
<1>9. InboxOk(t)'
  <2>1. InboxOk(t) /\ at'[t] = at[t]
    BY <1>1, <1>3 DEF IInv, InboxInv
  <2>2. CASE at[t] = "gone"
    <3>1. inbox'[t] = <<>>
      BY <1>5, <2>1, <2>2 DEF InboxOk
    <3>2. QED
      BY <2>1, <2>2, <3>1 DEF InboxOk, Heard
  <2>3. CASE at[t] # "gone"
    <3>1. PICK n \in Notice : n.type = "response" /\ inbox'[t] = Append(inbox[t], n)
      BY <1>5, <2>3
    <3>2. /\ DOMAIN inbox'[t] = DOMAIN inbox[t] \cup {Len(inbox[t]) + 1}
          /\ \A k \in DOMAIN inbox[t] : inbox'[t][k] = inbox[t][k]
      BY <1>6, <3>1, AppendIndexed
    <3>3. \A k \in DOMAIN inbox'[t] : inbox'[t][k].type = "response" => k = Len(inbox[t]) + 1
      BY <1>3, <3>2 DEF Heard
    <3>4. at[t] \in {"allocating", "starting"}
      BY <1>3, <2>3 DEF Waits
    <3>5. QED
      BY <1>8, <2>1, <3>3, <3>4 DEF InboxOk, Blocked
  <2>4. QED
    BY <2>2, <2>3
<1>10. CaseOk(s)'
  <2>1. ASSUME at[t] # "gone"
        PROVE  Consistent(session[s], Tail(answers[s]), inbox'[t], pending[t])
    <3>1. Consistent(session[s], answers[s], inbox[t], pending[t])
      BY <1>2, <1>3, <2>1 DEF IInv, CaseInv, CaseOk, Live
    <3>2. PICK n \in Notice :
            n.type = "response" /\ n.id = a.id /\ n.case = a.case /\ inbox'[t] = Append(inbox[t], n)
      BY <1>5, <2>1
    <3>3. QED
      BY <1>6, <3>1, <3>2, ConsistentTold
  <2>2. QED
    BY <1>1, <1>2, <1>4, <2>1 DEF CaseOk, Live
<1>11. Counted(s)'
  <2>1. /\ Count(pool[s].out, {"run"}) \in Nat /\ Count(Tail(answers[s]), {"ready", "error"}) \in Nat
        /\ pool[s].runs =
             Count(pool[s].out, {"run"}) + Count(Tail(answers[s]), {"ready", "error"})
             + (IF session[s].busy THEN 1 ELSE 0) + (IF a.type \in {"ready", "error"} THEN 1 ELSE 0)
    BY HeardCounts
  <2>2. /\ (Count(pool[s].out, {"run"}))' = Count(pool[s].out, {"run"})
        /\ (Count(answers[s], {"ready", "error"}))' = Count(Tail(answers[s]), {"ready", "error"})
    BY <1>4 DEF Count
  <2>3. e.runs \in Nat
    BY PoolAssumption DEF Entry
  <2>4. QED
    BY <1>1, <1>4, <2>1, <2>2, <2>3 DEF Counted
<1>12. pool'[s].runs <= pool[s].runs
  BY <1>4, PoolAssumption DEF Entry
<1>13. QED
  BY <1>1, <1>2, <1>3, <1>4, <1>5, <1>7, <1>9, <1>10, <1>11, <1>12, HeardFrame

(* The end of a remote run.                                                *)
LEMMA ReadyStep ==
  ASSUME IInv, NEW s \in Slaves, pool[s].open, answers[s] # <<>>,
         NEW a, a = Head(answers[s]), a.type = "ready",
         UNCHANGED <<testVars, queue, lastId, session>>,
         NEW e \in Entry, pool' = [pool EXCEPT ![s] = e], answers' = [answers EXCEPT ![s] = Tail(@)],
         e.open = pool[s].open, e.reserved = pool[s].reserved, e.name = pool[s].name, e.pid = pool[s].pid,
         e.out = pool[s].out, pool[s].runs = e.runs + 1,
         NEW ok \in BOOLEAN, Tell(s, "ready", ok, a)
  PROVE  IInv'
<1>1. DataOK /\ UNCHANGED <<at, allocs, started, pending, queue, lastId, session>>
  BY DEF IInv, testVars
<1>2. PICK t : t = pool[s].pid
  OBVIOUS
<1>3. /\ t \in Tests /\ Holds(t, s) /\ pool[s].reserved /\ pool[s].name = t
      /\ a \in Answer /\ Tail(answers[s]) \in Seq(Answer) /\ ~Quiet(s)
      /\ \A k \in DOMAIN Tail(answers[s]) : \E j \in DOMAIN answers[s] :
           j = k + 1 /\ j # 1 /\ k \in Nat /\ Tail(answers[s])[k] = answers[s][j]
  BY <1>2, SocketFacts
<1>4. /\ pool'[s] = e /\ pool' \in [Slaves -> Entry]
      /\ answers'[s] = Tail(answers[s]) /\ answers' \in [Slaves -> Seq(Answer)]
      /\ \A r \in Slaves : r # s => pool'[r] = pool[r] /\ answers'[r] = answers[r]
  BY <1>1, <1>3 DEF DataOK
<1>5. /\ inbox' \in [Tests -> Seq(Notice)] /\ \A u : u # t => inbox'[u] = inbox[u]
      /\ at[t] = "gone" => inbox'[t] = inbox[t]
      /\ at[t] # "gone" => \E n \in Notice :
           n.type = "ready" /\ n.id = a.id /\ n.case = a.case /\ inbox'[t] = Append(inbox[t], n)
  <2>1. PICK type, told : type = "ready" /\ told = ok
    OBVIOUS
  <2>2. type \in {"response", "ready"} /\ told \in BOOLEAN /\ Tell(s, type, told, a)
    BY <2>1
  <2>3. DataOK /\ t \in Tests /\ t = pool[s].pid /\ a \in Answer
    BY <1>1, <1>2, <1>3
  <2>4. QED
    BY <2>1, <2>2, <2>3, TellFacts
<1>6. inbox[t] \in Seq(Notice) /\ answers[s] \in Seq(Answer)
  BY <1>1, <1>3, Fields
<1>7. /\ \A k \in DOMAIN inbox'[t] : inbox'[t][k].type = "response" =>
           k \in DOMAIN inbox[t] /\ inbox[t][k].type = "response"
      /\ Heard(t)' <=> Heard(t)
  <2>1. CASE at[t] = "gone"
    BY <1>5, <2>1 DEF Heard
  <2>2. CASE at[t] # "gone"
    <3>1. PICK n \in Notice : n.type = "ready" /\ inbox'[t] = Append(inbox[t], n)
      BY <1>5, <2>2
    <3>2. /\ DOMAIN inbox'[t] = DOMAIN inbox[t] \cup {Len(inbox[t]) + 1}
          /\ \A k \in DOMAIN inbox[t] : inbox'[t][k] = inbox[t][k]
          /\ inbox'[t][Len(inbox[t]) + 1] = n
      BY <1>6, <3>1, AppendIndexed
    <3>3. QED
      BY <3>1, <3>2 DEF Heard
  <2>3. QED
    BY <2>1, <2>2
<1>8. Holds(t, s)' /\ (Asks(t)' <=> Asks(t)) /\ \A ty : Waits(t, ty)' <=> Waits(t, ty)
  BY <1>1, <1>2, <1>3, <1>4 DEF Holds, Asks, Waits
<1>9. OutOk(s)'
  <2>1. OutOk(s)
    BY DEF IInv, OutInv
  <2>2. Owed(s)' => Owed(s)
    BY <1>3, <1>4 DEF Owed
  <2>3. QED
    BY <1>2, <1>3, <1>4, <1>7, <1>8, <2>1, <2>2 DEF OutOk
<1>10. AnswerOk(s)'
  <2>1. AnswerOk(s)
    BY DEF IInv, AnswerInv
  <2>2. ASSUME NEW k \in DOMAIN Tail(answers[s]), Tail(answers[s])[k].type # "ready"
        PROVE  /\ \A j \in DOMAIN Tail(answers[s]) : Tail(answers[s])[j].type # "ready" => j = k
               /\ ~Asks(t) /\ ~Heard(t) /\ Waits(t, Tail(answers[s])[k].type)
               /\ Tail(answers[s])[k].type \notin {"reserve", "release"}
    BY <1>2, <1>3, <2>1, <2>2 DEF AnswerOk
  <2>3. QED
    BY <1>2, <1>4, <1>7, <1>8, <2>2 DEF AnswerOk
<1>11. InboxOk(t)'
  <2>1. InboxOk(t) /\ at'[t] = at[t]
    BY <1>1, <1>3 DEF IInv, InboxInv
  <2>2. at[t] # "idle" /\ ~(Heard(t) /\ at[t] = "freeing")
    BY <1>3, <2>1 DEF InboxOk
  <2>3. QED
    BY <1>5, <1>7, <1>8, <2>1, <2>2 DEF InboxOk
<1>12. CaseOk(s)'
  <2>1. ASSUME at[t] # "gone"
        PROVE  Consistent(session[s], Tail(answers[s]), inbox'[t], pending[t])
    <3>1. Consistent(session[s], answers[s], inbox[t], pending[t])
      BY <1>2, <1>3, <2>1 DEF IInv, CaseInv, CaseOk, Live
    <3>2. PICK n \in Notice :
            n.type = "ready" /\ n.id = a.id /\ n.case = a.case /\ inbox'[t] = Append(inbox[t], n)
      BY <1>5, <2>1
    <3>3. QED
      BY <1>6, <3>1, <3>2, ConsistentReadyTold
  <2>2. QED
    BY <1>1, <1>2, <1>4, <2>1 DEF CaseOk, Live
<1>13. Counted(s)'
  <2>1. /\ Count(pool[s].out, {"run"}) \in Nat /\ Count(Tail(answers[s]), {"ready", "error"}) \in Nat
        /\ pool[s].runs =
             Count(pool[s].out, {"run"}) + Count(Tail(answers[s]), {"ready", "error"})
             + (IF session[s].busy THEN 1 ELSE 0) + (IF a.type \in {"ready", "error"} THEN 1 ELSE 0)
    BY HeardCounts
  <2>2. /\ (Count(pool[s].out, {"run"}))' = Count(pool[s].out, {"run"})
        /\ (Count(answers[s], {"ready", "error"}))' = Count(Tail(answers[s]), {"ready", "error"})
    BY <1>4 DEF Count
  <2>3. e.runs \in Nat
    BY PoolAssumption DEF Entry
  <2>4. QED
    BY <1>1, <1>4, <2>1, <2>2, <2>3 DEF Counted
<1>14. pool'[s].runs <= pool[s].runs
  BY <1>4, PoolAssumption DEF Entry
<1>15. Asks(t) => ~Quiet(s) /\ ~Heard(t)'
  <2>1. Asks(t) => ~Heard(t)
    BY DEF IInv, QueueInv, Orderly, Asks
  <2>2. QED
    BY <1>3, <1>7, <2>1
<1>16. QED
  BY <1>1, <1>2, <1>3, <1>4, <1>5, <1>9, <1>10, <1>11, <1>12, <1>13, <1>14, <1>15, HeardFrame

(* When the release of a slave is heard of, nothing runs there, and its    *)
(* test does not count on it.                                              *)
LEMMA AtRest ==
  ASSUME IInv, NEW s \in Slaves, pool[s].open, answers[s] # <<>>,
         NEW a, a = Head(answers[s]), a.type = "release"
  PROVE  pool[s].runs = 0 /\ ~session[s].busy /\ at[pool[s].pid] \in {"gone", "freeing"}
<1>1. PICK t : t = pool[s].pid
  OBVIOUS
<1>2. /\ Waits(t, "release") /\ pool[s].out = <<>>
      /\ Quiet(s) /\ Tail(answers[s]) = <<>>
  BY <1>1, SocketFacts
<1>3. ~session[s].busy /\ at[t] \in {"gone", "freeing"}
  BY <1>2 DEF Quiet, Waits
<1>4. pool[s].runs = Count(pool[s].out, {"run"}) + Count(Tail(answers[s]), {"ready", "error"})
        + (IF session[s].busy THEN 1 ELSE 0) + (IF a.type \in {"ready", "error"} THEN 1 ELSE 0)
  BY HeardCounts
<1>5. Count(pool[s].out, {"run"}) = 0 /\ Count(Tail(answers[s]), {"ready", "error"}) = 0
  BY <1>2, CountEmpty
<1>6. a.type \notin {"ready", "error"}
  OBVIOUS
<1>7. QED
  BY <1>1, <1>3, <1>4, <1>5, <1>6

(* A slave that is taken back is at rest, so that its connection is closed.*)
LEMMA ReleaseStep ==
  ASSUME IInv, NEW s \in Slaves, pool[s].open, answers[s] # <<>>,
         NEW a, a = Head(answers[s]), HearRelease(s, a), UNCHANGED <<testVars, queue, lastId>>
  PROVE  IInv'
<1>1. DataOK /\ UNCHANGED <<at, allocs, started, pending, queue, lastId>> /\ a.type = "release"
  BY DEF IInv, testVars, HearRelease
<1>2. PICK t : t = pool[s].pid
  OBVIOUS
<1>3. /\ t \in Tests /\ Holds(t, s) /\ pool[s].reserved /\ pool[s].name = t
      /\ \A r \in Slaves : pool[r].name = t \/ Holds(t, r) => r = s
      /\ a \in Answer /\ ~Asks(t) /\ ~Heard(t) /\ Waits(t, "release") /\ pool[s].out = <<>>
      /\ Quiet(s) /\ Tail(answers[s]) = <<>>
  BY <1>1, <1>2, SocketFacts
<1>4. ~session[s].busy /\ inbox[t] = <<>> /\ at[t] \in {"gone", "freeing"} /\ t # Nobody
  BY <1>2, <1>3, PoolAssumption DEF Quiet, Waits
<1>5. pool[s].runs = 0 /\ Count(<<>>, {"run"}) = 0 /\ Count(<<>>, {"ready", "error"}) = 0
  BY <1>1, AtRest, CountEmpty
<1>6. PICK e : e = [pool[s] EXCEPT !.open = FALSE, !.reserved = FALSE, !.name = Nobody]
  OBVIOUS
<1>7. /\ e \in Entry /\ e.open = FALSE /\ e.reserved = FALSE /\ e.name = Nobody
      /\ e.pid = t /\ e.out = <<>> /\ e.runs = 0
  <2>1. pool[s] \in Entry
    BY <1>1, Fields
  <2>2. QED
    BY <1>2, <1>3, <1>5, <1>6, <2>1 DEF Entry
<1>8. /\ pool'[s] = e /\ pool' \in [Slaves -> Entry]
      /\ session'[s] = Unconnected /\ session' \in [Slaves -> Session]
      /\ answers'[s] = <<>> /\ answers' \in [Slaves -> Seq(Answer)]
      /\ \A r \in Slaves : r # s => pool'[r] = pool[r] /\ session'[r] = session[r] /\ answers'[r] = answers[r]
  <2>1. /\ pool' = [pool EXCEPT ![s] = e] /\ session' = [session EXCEPT ![s] = Unconnected]
        /\ answers' = [answers EXCEPT ![s] = <<>>]
    BY <1>1, <1>5, <1>6 DEF HearRelease, Close, DataOK
  <2>2. Unconnected \in Session /\ <<>> \in Seq(Answer)
    BY DEF Unconnected, Session, Id
  <2>3. QED
    BY <1>1, <1>7, <2>1, <2>2 DEF DataOK
<1>9. /\ inbox' \in [Tests -> Seq(Notice)] /\ \A u : u # t => inbox'[u] = inbox[u]
      /\ at[t] = "gone" => inbox'[t] = <<>>
      /\ at[t] # "gone" => Len(inbox'[t]) = 1
  <2>1. PICK type, ok : type = "response" /\ ok \in BOOLEAN /\ Tell(s, type, ok, a)
    BY DEF HearRelease
  <2>2. type \in {"response", "ready"}
    BY <2>1
  <2>3. DataOK /\ t \in Tests /\ t = pool[s].pid /\ a \in Answer
    BY <1>1, <1>2, <1>3
  <2>4. /\ inbox' \in [Tests -> Seq(Notice)] /\ \A u : u # t => inbox'[u] = inbox[u]
        /\ at[t] = "gone" => inbox'[t] = inbox[t]
        /\ at[t] # "gone" => \E n \in Notice :
             n.type = type /\ n.id = a.id /\ n.case = a.case /\ inbox'[t] = Append(inbox[t], n)
    BY <2>1, <2>2, <2>3, TellFacts
  <2>5. \A n : Len(Append(<<>>, n)) = 1
    OBVIOUS
  <2>6. QED
    BY <1>4, <2>4, <2>5
<1>10. /\ \A u : Asks(u)' <=> Asks(u)
       /\ \A u : u # t => (Heard(u)' <=> Heard(u))
       /\ \A u, ty : Waits(u, ty)' <=> Waits(u, ty)
       /\ \A u, r : r \in Slaves => (Holds(u, r)' <=> Holds(u, r) /\ r # s)
       /\ \A u, r : r \in Slaves /\ u # t /\ Holds(u, r)' => (Quiet(r)' <=> Quiet(r))
  <2>1. \A u : Asks(u)' <=> Asks(u)
    BY <1>1 DEF Asks
  <2>2. \A u : u # t => (Heard(u)' <=> Heard(u))
    BY <1>9 DEF Heard
  <2>3. \A u, ty : Waits(u, ty)' <=> Waits(u, ty)
    BY <1>1 DEF Waits
  <2>4. \A u, r : r \in Slaves => (Holds(u, r)' <=> Holds(u, r) /\ r # s)
    BY <1>7, <1>8 DEF Holds
  <2>5. ASSUME NEW u, NEW r \in Slaves, u # t, Holds(u, r)' PROVE Quiet(r)' <=> Quiet(r)
    <3>1. r # s /\ pool[r].pid = u
      BY <2>4, <2>5 DEF Holds
    <3>2. pool'[r] = pool[r] /\ session'[r] = session[r] /\ answers'[r] = answers[r] /\ inbox'[u] = inbox[u]
      BY <1>8, <1>9, <2>5, <3>1
    <3>3. QED
      BY <3>1, <3>2 DEF Quiet
  <2>6. QED
    BY <2>1, <2>2, <2>3, <2>4, <2>5
<1>11. DataOK'
  <2>1. /\ at' \in [Tests -> {"idle", "holding", "gone"} \cup Blocked]
        /\ allocs' \in 0..MaxAllocs /\ started' \in 0..MaxRuns /\ lastId' \in Id
        /\ pending' \in [Tests -> SUBSET (Id \X Nat)] /\ queue' \in Seq(Request)
    BY <1>1 DEF DataOK
  <2>2. QED
    BY <1>8, <1>9, <2>1 DEF DataOK
<1>12. EntryInv'
  <2>1. \A r \in Slaves : r # s =>
          /\ pool[r].open = pool[r].reserved
          /\ pool[r].reserved => pool[r].pid \in Tests /\ pool[r].name = pool[r].pid
          /\ ~pool[r].reserved =>
               pool[r].runs = 0 /\ pool[r].out = <<>> /\ answers[r] = <<>> /\ ~session[r].busy
          /\ \A q \in Slaves : pool[q].name = pool[r].name /\ pool[r].name # Nobody => q = r
          /\ ~pool[r].reserved /\ pool[r].name # Nobody =>
               at[pool[r].name] \in {"allocating", "gone"} /\ ~Asks(pool[r].name)
    BY DEF IInv, EntryInv
  <2>2. ASSUME NEW r \in Slaves
        PROVE  /\ pool'[r].open = pool'[r].reserved
               /\ pool'[r].reserved => pool'[r].pid \in Tests /\ pool'[r].name = pool'[r].pid
               /\ ~pool'[r].reserved =>
                    pool'[r].runs = 0 /\ pool'[r].out = <<>> /\ answers'[r] = <<>> /\ ~session'[r].busy
               /\ \A q \in Slaves : pool'[q].name = pool'[r].name /\ pool'[r].name # Nobody => q = r
               /\ ~pool'[r].reserved /\ pool'[r].name # Nobody =>
                    at'[pool'[r].name] \in {"allocating", "gone"} /\ ~Asks(pool'[r].name)
    <3>1. /\ ~pool'[s].open /\ ~pool'[s].reserved /\ pool'[s].open = pool'[s].reserved
          /\ pool'[s].name = Nobody /\ pool'[s].runs = 0 /\ pool'[s].out = <<>> /\ answers'[s] = <<>>
      BY <1>7, <1>8
    <3>2. ~session'[s].busy
      BY <1>8 DEF Unconnected
    <3>3. CASE r = s
      BY <3>1, <3>2, <3>3
    <3>4. CASE r # s
      <4>1. pool'[r] = pool[r] /\ session'[r] = session[r] /\ answers'[r] = answers[r] /\ at' = at
        BY <1>1, <1>8, <3>4
      <4>2. ASSUME NEW q \in Slaves, pool'[q].name = pool'[r].name, pool'[r].name # Nobody PROVE q = r
        <5>1. q # s
          BY <3>1, <4>2
        <5>2. pool'[q] = pool[q]
          BY <1>8, <5>1
        <5>3. QED
          BY <2>1, <3>4, <4>1, <4>2, <5>2
      <4>3. QED
        BY <2>1, <3>4, <4>1, <4>2
    <3>5. QED
      BY <3>3, <3>4
  <2>3. QED
    BY <1>10, <2>2 DEF EntryInv
<1>13. QueueInv'
  <2>1. ASSUME NEW j \in DOMAIN queue
        PROVE  /\ ~Heard(queue[j].from) /\ Waits(queue[j].from, queue[j].type)
               /\ queue[j].type = "allocate" =>
                    inbox[queue[j].from] = <<>> /\ \A r \in Slaves : pool[r].name # queue[j].from
               /\ queue[j].type # "allocate" => \E r \in Slaves : Holds(queue[j].from, r)
               /\ queue[j].type = "free" => \A r \in Slaves : Holds(queue[j].from, r) => Quiet(r)
               /\ \A k \in DOMAIN queue : queue[k].from = queue[j].from => k = j
               /\ queue[j].from \in Tests
    <3>1. queue[j] \in Request
      BY <1>1 DEF DataOK
    <3>2. QED
      BY <3>1 DEF IInv, QueueInv, Orderly, Request
  <2>2. ASSUME NEW j \in DOMAIN queue
        PROVE  /\ ~Heard(queue[j].from)' /\ Waits(queue[j].from, queue[j].type)'
               /\ queue[j].type = "allocate" =>
                    inbox'[queue[j].from] = <<>> /\ \A r \in Slaves : pool'[r].name # queue[j].from
               /\ queue[j].type # "allocate" => \E r \in Slaves : Holds(queue[j].from, r)'
               /\ queue[j].type = "free" => \A r \in Slaves : Holds(queue[j].from, r)' => Quiet(r)'
    <3>1. PICK u, ty : u = queue[j].from /\ ty = queue[j].type
      OBVIOUS
    <3>2. queue' = queue /\ u # t /\ u # Nobody
      <4>1. Asks(u)
        BY <3>1 DEF Asks
      <4>2. QED
        BY <1>1, <1>3, <2>1, <3>1, <4>1, PoolAssumption
    <3>3. \A r \in Slaves : Holds(u, r)' <=> Holds(u, r)
      BY <1>2, <1>10, <3>2 DEF Holds
    <3>4. \A r \in Slaves : Holds(u, r)' => (Quiet(r)' <=> Quiet(r))
      BY <1>10, <3>2
    <3>5. inbox'[u] = inbox[u] /\ (Heard(u)' <=> Heard(u)) /\ (Waits(u, ty)' <=> Waits(u, ty))
      BY <1>9, <1>10, <3>2
    <3>6. \A r \in Slaves : pool[r].name # u => pool'[r].name # u
      BY <1>7, <1>8, <3>2
    <3>7. QED
      BY <2>1, <3>1, <3>2, <3>3, <3>4, <3>5, <3>6
  <2>3. QED
    BY <1>1, <2>1, <2>2 DEF QueueInv, Orderly
<1>14. InboxInv'
  <2>1. ASSUME NEW u \in Tests PROVE InboxOk(u)'
    <3>1. InboxOk(u) /\ at' = at /\ u # Nobody
      BY <1>1, PoolAssumption DEF IInv, InboxInv
    <3>2. CASE u # t
      <4>1. \A r \in Slaves : Holds(u, r)' <=> Holds(u, r)
        BY <1>2, <1>10, <3>2 DEF Holds
      <4>2. inbox'[u] = inbox[u] /\ (Heard(u)' <=> Heard(u))
        BY <1>9, <1>10, <3>2
      <4>3. \A r \in Slaves : pool[r].name # u => pool'[r].name # u
        BY <1>7, <1>8, <3>1
      <4>4. QED
        BY <3>1, <4>1, <4>2, <4>3 DEF InboxOk
    <3>3. CASE u = t /\ at[t] = "gone"
      BY <1>9, <3>1, <3>3 DEF InboxOk, Heard
    <3>4. CASE u = t /\ at[t] = "freeing"
      <4>1. inbox'[t] \in Seq(Notice) /\ Len(inbox'[t]) = 1
        BY <1>3, <1>9, <3>4
      <4>2. \A j, k \in DOMAIN inbox'[t] : j = k
        BY <4>1
      <4>3. \A r \in Slaves : pool'[r].name # t
        BY <1>3, <1>4, <1>7, <1>8
      <4>4. QED
        BY <3>1, <3>4, <4>1, <4>2, <4>3 DEF InboxOk, Blocked
    <3>5. QED
      BY <1>4, <3>2, <3>3, <3>4
  <2>2. QED
    BY <2>1 DEF InboxInv
<1>15. OutOk(s)' /\ AnswerOk(s)' /\ CaseOk(s)'
  BY <1>7, <1>8 DEF OutOk, AnswerOk, CaseOk
<1>16. Counted(s)'
  <2>1. /\ (Count(pool[s].out, {"run"}))' = Count(<<>>, {"run"})
        /\ (Count(answers[s], {"ready", "error"}))' = Count(<<>>, {"ready", "error"})
    BY <1>7, <1>8 DEF Count
  <2>2. QED
    BY <1>5, <1>7, <1>8, <2>1 DEF Counted, Unconnected
<1>17. \A r \in Slaves : r # s => OutOk(r)' /\ AnswerOk(r)' /\ CaseOk(r)' /\ Counted(r)'
  <2>1. at' = at /\ pending' = pending /\ \A u : u # t => inbox'[u] = inbox[u] /\ (Asks(u)' => Asks(u))
    BY <1>1, <1>9, <1>10
  <2>2. \A r \in Slaves : r # s => pool'[r] = pool[r] /\ session'[r] = session[r] /\ answers'[r] = answers[r]
    BY <1>8
  <2>3. \A r \in Slaves : r # s /\ pool[r].reserved => pool[r].pid # t
    BY <1>3 DEF Holds
  <2>4. QED
    BY <2>1, <2>2, <2>3, Others
<1>18. BoundInv'
  <2>1. (Count(queue, {"run"}))' = Count(queue, {"run"})
    BY <1>1 DEF Count
  <2>2. \A r \in Slaves : pool'[r].runs = pool[r].runs
    BY <1>5, <1>7, <1>8
  <2>3. QED
    BY <1>1, <2>1, <2>2 DEF IInv, BoundInv
<1>19. QED
  BY <1>11, <1>12, <1>13, <1>14, <1>15, <1>16, <1>17, <1>18
     DEF IInv, OutInv, AnswerInv, CaseInv, RunsCounted, Ongoing, Counted

LEMMA SocketReadsStep == ASSUME IInv, NEW s \in Slaves, SocketReads(s) PROVE IInv'
<1>1. /\ DataOK /\ pool[s].open /\ answers[s] # <<>> /\ UNCHANGED <<testVars, queue, lastId>>
      /\ pool[s] \in Entry /\ pool[s].reserved = TRUE
  <2>1. DataOK /\ pool[s].open
    BY DEF IInv, SocketReads
  <2>2. pool[s] \in Entry /\ pool[s].reserved \in BOOLEAN /\ pool[s].reserved
    BY <2>1, Fields DEF IInv, EntryInv
  <2>3. QED
    BY <2>1, <2>2 DEF SocketReads
<1>2. PICK a : a = Head(answers[s])
  OBVIOUS
<1>3. a \in Answer
  <2>1. PICK t : t = pool[s].pid
    OBVIOUS
  <2>2. QED
    BY <1>1, <1>2, <2>1, SocketFacts
<1>4. CASE HearReserve(s, a)
  <2>1. PICK e : e = [pool[s] EXCEPT !.id = a.id, !.reserved = TRUE]
    OBVIOUS
  <2>2. /\ e \in Entry /\ e.open = pool[s].open /\ e.reserved = pool[s].reserved /\ e.name = pool[s].name
        /\ e.pid = pool[s].pid /\ e.out = pool[s].out /\ e.runs = pool[s].runs
    <3>1. a.id \in Id
      BY <1>3 DEF Answer
    <3>2. e \in Entry
      BY <1>1, <2>1, <3>1 DEF Entry
    <3>3. e.open = pool[s].open /\ e.reserved = pool[s].reserved /\ e.name = pool[s].name
      BY <1>1, <2>1 DEF Entry
    <3>4. e.pid = pool[s].pid /\ e.out = pool[s].out /\ e.runs = pool[s].runs
      BY <1>1, <2>1 DEF Entry
    <3>5. QED
      BY <3>2, <3>3, <3>4
  <2>3. PICK ok \in BOOLEAN : Tell(s, "response", ok, a)
    BY <1>4 DEF HearReserve
  <2>4. /\ a.type = "reserve" /\ pool' = [pool EXCEPT ![s] = e] /\ answers' = [answers EXCEPT ![s] = Tail(@)]
        /\ UNCHANGED <<testVars, queue, lastId, session>>
    BY <1>1, <1>4, <2>1 DEF HearReserve, Keep
  <2>5. pool[s].runs = e.runs + (IF a.type = "error" THEN 1 ELSE 0)
    BY <1>1, <2>2, <2>4, PoolAssumption DEF Entry
  <2>6. QED
    BY <1>1, <1>2, <2>2, <2>3, <2>4, <2>5, ToldStep
<1>5. CASE HearStarted(s, a)
  <2>1. PICK e : e = pool[s]
    OBVIOUS
  <2>2. PICK ok \in BOOLEAN : Tell(s, "response", ok, a)
    BY <1>5 DEF HearStarted
  <2>3. /\ a.type = "started" /\ pool' = [pool EXCEPT ![s] = e] /\ answers' = [answers EXCEPT ![s] = Tail(@)]
        /\ UNCHANGED <<testVars, queue, lastId, session>>
    BY <1>1, <1>5, <2>1 DEF HearStarted, Keep
  <2>4. pool[s].runs = e.runs + (IF a.type = "error" THEN 1 ELSE 0)
    BY <1>1, <2>1, <2>3, PoolAssumption DEF Entry
  <2>5. QED
    BY <1>1, <1>2, <2>1, <2>2, <2>3, <2>4, ToldStep
<1>6. CASE HearEnd(s, a)
  <2>1. PICK e : e = [pool[s] EXCEPT !.runs = @ - 1]
    OBVIOUS
  <2>2. /\ a.type \in {"ready", "error"}
        /\ pool' = [pool EXCEPT ![s] = e] /\ answers' = [answers EXCEPT ![s] = Tail(@)]
        /\ UNCHANGED <<testVars, queue, lastId, session>>
    BY <1>1, <1>6, <2>1 DEF HearEnd, Keep
  <2>3. pool[s].runs - 1 \in 0..MaxRuns /\ pool[s].runs = (pool[s].runs - 1) + 1
    <3>1. /\ Count(pool[s].out, {"run"}) \in Nat /\ Count(Tail(answers[s]), {"ready", "error"}) \in Nat
          /\ pool[s].runs =
               Count(pool[s].out, {"run"}) + Count(Tail(answers[s]), {"ready", "error"})
               + (IF session[s].busy THEN 1 ELSE 0) + (IF a.type \in {"ready", "error"} THEN 1 ELSE 0)
      BY <1>1, <1>2, HeardCounts
    <3>2. pool[s].runs \in Nat /\ pool[s].runs <= MaxRuns
      BY <1>1, Fields
    <3>3. QED
      BY <2>2, <3>1, <3>2, PoolAssumption
  <2>4. /\ e \in Entry /\ e.open = pool[s].open /\ e.reserved = pool[s].reserved /\ e.name = pool[s].name
        /\ e.pid = pool[s].pid /\ e.out = pool[s].out /\ pool[s].runs = e.runs + 1
    <3>1. e \in Entry
      BY <1>1, <2>1, <2>3 DEF Entry
    <3>2. e.open = pool[s].open /\ e.reserved = pool[s].reserved /\ e.name = pool[s].name
      BY <1>1, <2>1 DEF Entry
    <3>3. e.pid = pool[s].pid /\ e.out = pool[s].out /\ pool[s].runs = e.runs + 1
      BY <1>1, <2>1, <2>3 DEF Entry
    <3>4. QED
      BY <3>1, <3>2, <3>3
  <2>5. CASE a.type = "ready"
    <3>1. PICK ok \in BOOLEAN : Tell(s, "ready", ok, a)
      BY <1>6, <2>5 DEF HearEnd
    <3>2. QED
      BY <1>1, <1>2, <2>2, <2>4, <2>5, <3>1, ReadyStep
  <2>6. CASE a.type = "error"
    <3>1. PICK ok \in BOOLEAN : Tell(s, "response", ok, a)
      BY <1>6, <2>6 DEF HearEnd
    <3>2. pool[s].runs = e.runs + (IF a.type = "error" THEN 1 ELSE 0)
      BY <2>4, <2>6
    <3>3. QED
      BY <1>1, <1>2, <2>2, <2>4, <2>6, <3>1, <3>2, ToldStep
  <2>7. QED
    BY <2>2, <2>5, <2>6
<1>7. CASE HearRelease(s, a)
  BY <1>1, <1>2, <1>7, ReleaseStep
<1>8. QED
  BY <1>2, <1>4, <1>5, <1>6, <1>7 DEF SocketReads

----------------------------------------------------------------------------
(* Every step.                                                             *)

LEMMA Stutter == IInv /\ UNCHANGED vars => IInv'
<1> SUFFICES ASSUME IInv, UNCHANGED vars PROVE IInv'
  OBVIOUS
<1>1. UNCHANGED <<at, allocs, started, pending, queue, inbox, pool, lastId, session, answers>>
  BY DEF vars, testVars
<1>2. DataOK'
  BY <1>1 DEF IInv, DataOK
<1>3. EntryInv' /\ QueueInv'
  BY <1>1 DEF IInv, EntryInv, QueueInv, Orderly, Asks, Heard, Waits, Holds, Quiet
<1>4. OutInv' /\ AnswerInv'
  BY <1>1 DEF IInv, OutInv, OutOk, AnswerInv, AnswerOk, Asks, Heard, Waits, Owed, Quiet
<1>5. InboxInv' /\ CaseInv'
  BY <1>1 DEF IInv, InboxInv, InboxOk, Heard, Holds, CaseInv, CaseOk, Live
<1>6. RunsCounted' /\ BoundInv'
  BY <1>1 DEF IInv, RunsCounted, Ongoing, BoundInv, Count
<1>7. QED
  BY <1>2, <1>3, <1>4, <1>5, <1>6 DEF IInv

LEMMA NextStep == ASSUME IInv, ~OneName, tidy, [Next]_vars PROVE IInv'
<1>1. allocs \in 0..MaxAllocs /\ started \in 0..MaxRuns /\ MaxAllocs \in Nat /\ MaxRuns \in Nat
  BY PoolAssumption DEF IInv, DataOK
<1>2. ASSUME NEW t \in Tests, Allocate(t) PROVE IInv'
  <2>1. PICK type, where : type = "allocate" /\ where = "allocating"
    OBVIOUS
  <2>2. /\ Ask(t, type, where) /\ at[t] = "idle" /\ started' = started
        /\ allocs' \in 0..MaxAllocs /\ started' \in 0..MaxRuns
    BY <1>1, <1>2, <2>1 DEF Allocate
  <2>3. QED
    BY <2>1, <2>2, AskStep
<1>3. ASSUME NEW t \in Tests, Run(t) PROVE IInv'
  <2>1. PICK type, where : type = "run" /\ where = "starting"
    OBVIOUS
  <2>2. /\ Ask(t, type, where) /\ at[t] = "holding" /\ started' = started + 1
        /\ allocs' \in 0..MaxAllocs /\ started' \in 0..MaxRuns
    BY <1>1, <1>3, <2>1 DEF Run
  <2>3. QED
    BY <2>1, <2>2, AskStep
<1>4. ASSUME NEW t \in Tests, Free(t) PROVE IInv'
  <2>1. PICK type, where : type = "free" /\ where = "freeing"
    OBVIOUS
  <2>2. /\ Ask(t, type, where) /\ at[t] = "holding" /\ pending[t] = {} /\ started' = started
        /\ allocs' \in 0..MaxAllocs /\ started' \in 0..MaxRuns
    BY <1>1, <1>4, <2>1 DEF Free
  <2>3. QED
    BY <2>1, <2>2, AskStep
<1>5. ASSUME NEW t \in Tests, GiveUp(t) PROVE IInv'
  <2>1. pending' \in [Tests -> SUBSET (Id \X Nat)] /\ \A u \in Tests : u # t => pending'[u] = pending[u]
    BY <1>5 DEF GiveUp, IInv, DataOK
  <2>2. /\ at' = [at EXCEPT ![t] = "gone"] /\ inbox' = [inbox EXCEPT ![t] = <<>>]
        /\ UNCHANGED <<allocs, started, queue, pool, lastId, session, answers>>
    BY <1>5 DEF GiveUp
  <2>3. QED
    BY <2>1, <2>2, GoneStep
<1>6. QED
  BY <1>2, <1>3, <1>4, <1>5, HearStep, ListenerStep, SlaveReadsStep, SlaveReadyStep, SocketReadsStep, Stutter
     DEF Next

LEMMA TidyStays == [Next]_vars => tidy' = tidy
<1> SUFFICES ASSUME [Next]_vars PROVE tidy' = tidy
  OBVIOUS
<1>1. ASSUME NEW t \in Tests, Allocate(t) \/ Run(t) \/ Free(t) \/ Hear(t) \/ GiveUp(t) PROVE tidy' = tidy
  BY <1>1 DEF Allocate, Run, Free, Ask, Hear, GiveUp
<1>2. CASE Listener
  BY <1>2 DEF Listener, testVars
<1>3. ASSUME NEW s \in Slaves, SlaveReads(s) \/ SlaveReady(s) \/ SocketReads(s) PROVE tidy' = tidy
  BY <1>3 DEF SlaveReads, SlaveReady, SocketReads, testVars
<1>4. QED
  BY <1>1, <1>2, <1>3 DEF Next, vars, testVars

LEMMA Invariance == ~OneName /\ Spec => [](tidy => IInv)
<1> SUFFICES ASSUME ~OneName PROVE Spec => [](tidy => IInv)
  OBVIOUS
<1>1. (tidy => IInv) /\ [Next]_vars => (tidy => IInv)'
  BY NextStep, TidyStays
<1>2. QED
  BY <1>1, InitIInv, PTL DEF Spec

----------------------------------------------------------------------------
(* Tests that free a slave while it still works for them.                  *)

(* What holds of an entry, of the requests, of the write queue and the     *)
(* connection of a slave, and of a test, whenever a slave is freed.        *)
Placed(s) ==
  /\ pool[s].reserved =>
       /\ pool[s].open /\ pool[s].pid \in Tests /\ pool[s].name = pool[s].pid
       /\ \A r \in Slaves : pool[r].name = pool[s].pid => s <= r
  /\ ~pool[s].reserved => pool[s].out = <<>> /\ ~Owed(s)

Requested(q) ==
  \A j \in DOMAIN q :
    /\ \A k \in DOMAIN q : q[k].from = q[j].from => k = j
    /\ ~Heard(q[j].from) /\ Waits(q[j].from, q[j].type)
    /\ q[j].type = "allocate" => \A s \in Slaves : ~Holds(q[j].from, s)
    /\ q[j].type # "allocate" => \E s \in Slaves : Holds(q[j].from, s)

Sending(s) == pool[s].out # <<>> =>
  /\ Len(pool[s].out) = 1 /\ pool[s].out[1].from = pool[s].pid
  /\ ~Asks(pool[s].pid) /\ ~Heard(pool[s].pid) /\ ~Owed(s)
  /\ Waits(pool[s].pid, pool[s].out[1].type)

Answering(s) == \A k \in DOMAIN answers[s] : answers[s][k].type # "ready" =>
  /\ \A j \in DOMAIN answers[s] : answers[s][j].type # "ready" => j = k
  /\ ~Asks(pool[s].pid) /\ ~Heard(pool[s].pid)
  /\ Waits(pool[s].pid, answers[s][k].type)

Hearing(t) ==
  /\ at[t] = "gone" => inbox[t] = <<>>
  /\ at[t] = "idle" => \A s \in Slaves : ~Holds(t, s)
  /\ at[t] \in {"holding", "starting"} => \E s \in Slaves : Holds(t, s)
  /\ Heard(t) => at[t] \in Blocked
  /\ \A j, k \in DOMAIN inbox[t] :
       inbox[t][j].type = "response" /\ inbox[t][k].type = "response" => j = k
  /\ Heard(t) /\ at[t] = "allocating" => \E s \in Slaves : Holds(t, s)
  /\ Heard(t) /\ at[t] = "freeing" => \A s \in Slaves : ~Holds(t, s)

(* NoRunOverlooked of one slave.                                           *)
Covered(s) == Ongoing(s) <= pool[s].runs

EInv ==
  /\ DataOK /\ BoundInv /\ Requested(queue)
  /\ \A t \in Tests : Hearing(t)
  /\ \A s \in Slaves : Placed(s) /\ Sending(s) /\ Answering(s) /\ Covered(s)

(* A test has reserved one slave at most.                                  *)
LEMMA OneHeld ==
  ASSUME EInv, NEW t, NEW s \in Slaves, NEW r \in Slaves, Holds(t, s), Holds(t, r)
  PROVE  r = s
<1>1. Placed(s) /\ Placed(r)
  BY DEF EInv
<1>2. s <= r /\ r <= s
  BY <1>1 DEF Placed, Holds
<1>3. QED
  BY <1>2 DEF Slaves

(* What the remote runs of a slave are in the next state.                  *)
LEMMA OngoingNext ==
  ASSUME NEW s \in Slaves
  PROVE  Covered(s)' <=>
           Count(pool'[s].out, {"run"}) + Count(answers'[s], {"ready", "error"})
           + (IF session'[s].busy THEN 1 ELSE 0) <= pool'[s].runs
BY DEF Covered, Ongoing, Count

LEMMA InitEInv == Init => EInv
<1> SUFFICES ASSUME Init PROVE EInv
  OBVIOUS
<1>1. IInv
  BY InitIInv
<1>2. /\ queue = <<>> /\ \A t \in Tests : at[t] = "idle" /\ inbox[t] = <<>>
      /\ \A s \in Slaves :
           /\ pool[s].reserved = FALSE /\ pool[s].out = <<>> /\ answers[s] = <<>>
  BY DEF Init
<1>3. \A t \in Tests : Hearing(t)
  BY <1>2 DEF Hearing, Heard, Holds
<1>4. \A s \in Slaves : Placed(s) /\ Sending(s) /\ Answering(s)
  BY <1>2 DEF Placed, Sending, Answering, Owed
<1>5. Requested(queue)
  BY <1>2 DEF Requested
<1>6. \A s \in Slaves : Covered(s)
  <2>1. \A s \in Slaves : pool[s].runs = Ongoing(s) /\ pool[s].runs \in Nat
    BY <1>1, Fields DEF IInv, RunsCounted
  <2>2. QED
    BY <2>1 DEF Covered
<1>7. QED
  BY <1>1, <1>3, <1>4, <1>5, <1>6 DEF EInv, IInv

(* A test that does not wait for the engine has nothing on its way.        *)
LEMMA NothingDue ==
  ASSUME EInv, NEW t \in Tests, at[t] \in {"idle", "holding"}
  PROVE  /\ ~Asks(t) /\ ~Heard(t)
         /\ \A s \in Slaves : Holds(t, s) => pool[s].out = <<>> /\ ~Owed(s)
<1>1. \A type : ~Waits(t, type)
  BY DEF Waits
<1>2. ~Asks(t) /\ ~Heard(t)
  BY <1>1 DEF EInv, Requested, Hearing, Asks, Blocked
<1>3. \A s \in Slaves : Holds(t, s) => pool[s].out = <<>> /\ ~Owed(s)
  BY <1>1 DEF EInv, Sending, Answering, Holds, Owed
<1>4. QED
  BY <1>2, <1>3

(* A slave to which a step does nothing, and whose test is told nothing.   *)
LEMMA LeftAlone ==
  ASSUME EInv, NEW r \in Slaves, at' = at,
         pool'[r] = pool[r], session'[r] = session[r], answers'[r] = answers[r],
         NEW u, u = pool[r].pid, pool[r].reserved => (Heard(u)' => Heard(u)) /\ (Asks(u)' => Asks(u))
  PROVE  Sending(r)' /\ Answering(r)' /\ Covered(r)'
<1>1. Placed(r) /\ Sending(r) /\ Answering(r) /\ Covered(r)
  BY DEF EInv
<1>2. Covered(r)'
  <2>1. Covered(r)' <=> Count(pool[r].out, {"run"}) + Count(answers[r], {"ready", "error"})
                        + (IF session[r].busy THEN 1 ELSE 0) <= pool[r].runs
    BY OngoingNext
  <2>2. QED
    BY <1>1, <2>1 DEF Covered, Ongoing
<1>3. CASE ~pool[r].reserved
  <2>1. pool'[r].out = <<>> /\ \A k \in DOMAIN answers'[r] : answers'[r][k].type = "ready"
    BY <1>1, <1>3 DEF Placed, Owed
  <2>2. QED
    BY <1>2, <2>1 DEF Sending, Answering
<1>4. CASE pool[r].reserved
  <2>1. (Heard(u)' => Heard(u)) /\ (Asks(u)' => Asks(u))
    BY <1>4
  <2>2. (\A ty : Waits(u, ty)' <=> Waits(u, ty)) /\ (Owed(r)' <=> Owed(r)) /\ pool'[r].pid = u
    BY DEF Waits, Owed
  <2>3. Sending(r)'
    BY <1>1, <2>1, <2>2 DEF Sending
  <2>4. Answering(r)'
    BY <1>1, <2>1, <2>2 DEF Answering
  <2>5. QED
    BY <1>2, <2>3, <2>4
<1>5. QED
  BY <1>3, <1>4

(* A test asks for something.                                              *)
LEMMA Asking ==
  ASSUME EInv, NEW t \in Tests, NEW type, NEW where, Ask(t, type, where),
         allocs' \in 0..MaxAllocs, started' \in 0..MaxRuns,
         \/ at[t] = "idle" /\ type = "allocate" /\ where = "allocating" /\ started' = started
         \/ at[t] = "holding" /\ type = "run" /\ where = "starting" /\ started' = started + 1
         \/ at[t] = "holding" /\ type = "free" /\ where = "freeing" /\ started' = started
  PROVE  EInv'
<1> DEFINE m == [type |-> type, from |-> t]
<1>1. /\ queue' = Append(queue, m) /\ at' = [at EXCEPT ![t] = where]
      /\ UNCHANGED <<pending, inbox, pool, lastId, session, answers>>
  BY DEF Ask
<1>2. m \in Request /\ m.type = type /\ m.from = t
  BY DEF Request
<1> HIDE DEF m
<1>3. DataOK
  BY DEF EInv
<1>4. /\ queue' \in Seq(Request) /\ DOMAIN queue' = DOMAIN queue \cup {Len(queue) + 1}
      /\ Len(queue) + 1 \notin DOMAIN queue
      /\ \A k \in DOMAIN queue : queue'[k] = queue[k]
      /\ queue'[Len(queue) + 1] = m
  BY <1>1, <1>2, <1>3, AppendIndexed DEF DataOK
<1>5. at'[t] = where /\ \A u : u # t => at'[u] = at[u]
  BY <1>1, <1>3 DEF DataOK
<1>6. /\ \A u : Asks(u)' <=> Asks(u) \/ u = t
      /\ \A u : Heard(u)' <=> Heard(u)
      /\ \A s : Owed(s)' <=> Owed(s)
      /\ \A u, s : Holds(u, s)' <=> Holds(u, s)
      /\ \A u, ty : u # t => (Waits(u, ty)' <=> Waits(u, ty))
  <2>1. \A u : Asks(u)' <=> Asks(u) \/ u = t
    BY <1>2, <1>4 DEF Asks
  <2>2. QED
    BY <1>1, <1>5, <2>1 DEF Heard, Owed, Holds, Waits
<1>7. ~Asks(t) /\ ~Heard(t) /\ \A s \in Slaves : Holds(t, s) => pool[s].out = <<>> /\ ~Owed(s)
  BY NothingDue
<1>8. Waits(t, type)'
  BY <1>5 DEF Waits
<1>9. \A s \in Slaves : pool[s].out # <<>> \/ Owed(s) => pool[s].pid # t
  <2>1. \A s \in Slaves : pool[s].out # <<>> \/ Owed(s) => pool[s].reserved
    BY DEF EInv, Placed
  <2>2. QED
    BY <1>7, <2>1 DEF Holds
<1>10. DataOK'
  BY <1>1, <1>3, <1>4 DEF DataOK, Blocked
<1>11. Requested(queue)'
  <2>1. \A k \in DOMAIN queue : queue[k].from # t
    BY <1>7 DEF Asks
  <2>2. type = "allocate" => \A s \in Slaves : ~Holds(t, s)
    BY DEF EInv, Hearing
  <2>3. type # "allocate" => \E s \in Slaves : Holds(t, s)
    BY DEF EInv, Hearing
  <2>4. ASSUME NEW j \in DOMAIN queue
        PROVE  /\ ~Heard(queue[j].from) /\ Waits(queue[j].from, queue[j].type)
               /\ queue[j].type = "allocate" => \A s \in Slaves : ~Holds(queue[j].from, s)
               /\ queue[j].type # "allocate" => \E s \in Slaves : Holds(queue[j].from, s)
               /\ \A k \in DOMAIN queue : queue[k].from = queue[j].from => k = j
    BY DEF EInv, Requested
  <2>5. QED
    BY <1>1, <1>2, <1>4, <1>6, <1>7, <1>8, <2>1, <2>2, <2>3, <2>4 DEF Requested
<1>12. \A u \in Tests : Hearing(u)'
  BY <1>1, <1>5, <1>6, <1>7 DEF EInv, Hearing, Blocked
<1>13. \A s \in Slaves : Placed(s)' /\ Sending(s)' /\ Answering(s)' /\ Covered(s)'
  <2>1. \A s \in Slaves : Placed(s)'
    BY <1>1, <1>6 DEF EInv, Placed
  <2>2. \A s \in Slaves : Sending(s)'
    BY <1>1, <1>6, <1>9 DEF EInv, Sending
  <2>3. \A s \in Slaves : Answering(s)'
    BY <1>1, <1>6, <1>9 DEF EInv, Answering, Owed
  <2>4. \A s \in Slaves : Covered(s)'
    BY <1>1 DEF EInv, Covered, Ongoing, Count
  <2>5. QED
    BY <2>1, <2>2, <2>3, <2>4
<1>14. BoundInv'
  <2>1. /\ Count(queue, {"run"}) \in Nat
        /\ Count(queue', {"run"}) = Count(queue, {"run"}) + (IF type = "run" THEN 1 ELSE 0)
    BY <1>1, <1>2, <1>3, CountAppend DEF DataOK
  <2>2. (\A s \in Slaves : pool[s].runs \in Nat) /\ started \in Nat
    BY <1>3, Fields
  <2>3. (Count(queue, {"run"}))' = Count(queue', {"run"})
    BY DEF Count
  <2>4. QED
    BY <1>1, <2>1, <2>2, <2>3 DEF EInv, BoundInv
<1>15. QED
  BY <1>10, <1>11, <1>12, <1>13, <1>14 DEF EInv

(* A test whose script ends, whatever it was waiting for.                  *)
LEMMA Leaving ==
  ASSUME EInv, NEW t \in Tests, at' = [at EXCEPT ![t] = "gone"], inbox' = [inbox EXCEPT ![t] = <<>>],
         pending' \in [Tests -> SUBSET (Id \X Nat)],
         UNCHANGED <<allocs, started, queue, pool, lastId, session, answers>>
  PROVE  EInv'
<1>1. DataOK
  BY DEF EInv
<1>2. at'[t] = "gone" /\ inbox'[t] = <<>> /\ \A u : u # t => at'[u] = at[u] /\ inbox'[u] = inbox[u]
  BY <1>1 DEF DataOK
<1>3. /\ \A u : Asks(u)' <=> Asks(u)
      /\ \A u : u # t => (Heard(u)' <=> Heard(u))
      /\ ~Heard(t)'
      /\ \A s : Owed(s)' <=> Owed(s)
      /\ \A u, s : Holds(u, s)' <=> Holds(u, s)
      /\ \A u, ty : Waits(u, ty) => Waits(u, ty)'
  <2>1. ~Heard(t)'
    BY <1>2 DEF Heard
  <2>2. QED
    BY <1>2, <2>1 DEF Asks, Heard, Owed, Holds, Waits
<1>4. DataOK'
  BY <1>1 DEF DataOK
<1>5. Requested(queue)'
  <2>1. \A u : ~Heard(u) => ~Heard(u)'
    BY <1>3
  <2>2. QED
    BY <1>3, <2>1 DEF EInv, Requested
<1>6. \A u \in Tests : Hearing(u)'
  BY <1>2, <1>3 DEF EInv, Hearing
<1>7. \A s \in Slaves : Placed(s)' /\ Sending(s)' /\ Answering(s)'
  BY <1>3 DEF EInv, Placed, Sending, Answering
<1>8. (\A s \in Slaves : Covered(s)') /\ BoundInv'
  BY DEF EInv, Covered, Ongoing, BoundInv, Count
<1>9. QED
  BY <1>4, <1>5, <1>6, <1>7, <1>8 DEF EInv

(* A test hears what it waits for.                                         *)
LEMMA HearingResponse ==
  ASSUME EInv, NEW t \in Tests, inbox[t] # <<>>, HearResponse(t, Head(inbox[t])), Head(inbox[t]).ok,
         inbox' = [inbox EXCEPT ![t] = Tail(@)],
         UNCHANGED <<allocs, started, queue, pool, lastId, session, answers>>
  PROVE  EInv'
<1> DEFINE m == Head(inbox[t])
<1>1. DataOK
  BY DEF EInv
<1>2. /\ inbox' \in [Tests -> Seq(Notice)] /\ \A u : u # t => inbox'[u] = inbox[u]
      /\ m = inbox[t][1] /\ m \in Notice /\ 1 \in DOMAIN inbox[t]
      /\ \A k \in DOMAIN inbox'[t] :
           k \in Nat /\ k + 1 \in DOMAIN inbox[t] /\ k + 1 # 1 /\ inbox'[t][k] = inbox[t][k + 1]
  BY <1>1, InboxTail
<1>3. m.type = "response" /\ Heard(t) /\ at[t] \in Blocked
  BY <1>2 DEF HearResponse, Heard, EInv, Hearing
<1>4. at' = [at EXCEPT ![t] = IF at[t] = "freeing" THEN "idle" ELSE "holding"]
  BY <1>3 DEF HearResponse, Answered, Blocked
<1>5. /\ at'[t] = (IF at[t] = "freeing" THEN "idle" ELSE "holding")
      /\ \A u : u # t => at'[u] = at[u]
  BY <1>1, <1>4 DEF DataOK
<1>6. pending' \in [Tests -> SUBSET (Id \X Nat)]
  <2>1. <<m.id, m.case>> \in Id \X Nat
    BY <1>2 DEF Notice
  <2>2. QED
    BY <1>1, <2>1 DEF HearResponse, DataOK
<1> HIDE DEF m
<1>7. /\ ~Asks(t) /\ ~Heard(t)'
      /\ \A s \in Slaves : pool[s].out # <<>> \/ Owed(s) => pool[s].pid # t
  <2>1. ~Asks(t)
    BY <1>3 DEF EInv, Requested, Asks
  <2>2. \A s \in Slaves : pool[s].out # <<>> \/ Owed(s) => pool[s].pid # t
    BY <1>3 DEF EInv, Sending, Answering, Owed
  <2>3. \A k \in DOMAIN inbox[t] : inbox[t][k].type = "response" => k = 1
    BY <1>2, <1>3 DEF EInv, Hearing
  <2>4. ~Heard(t)'
    BY <1>2, <2>3 DEF Heard
  <2>5. QED
    BY <2>1, <2>2, <2>4
<1>8. /\ \A u : Asks(u)' <=> Asks(u)
      /\ \A u : u # t => (Heard(u)' <=> Heard(u))
      /\ \A s : Owed(s)' <=> Owed(s)
      /\ \A u, s : Holds(u, s)' <=> Holds(u, s)
      /\ \A u, ty : u # t => (Waits(u, ty)' <=> Waits(u, ty))
  BY <1>2, <1>5 DEF Asks, Heard, Owed, Holds, Waits
<1>9. /\ at'[t] = "holding" => \E s \in Slaves : Holds(t, s)
      /\ at'[t] = "idle" => \A s \in Slaves : ~Holds(t, s)
  BY <1>3, <1>5 DEF EInv, Hearing, Blocked
<1>10. DataOK'
  BY <1>1, <1>2, <1>4, <1>6 DEF DataOK
<1>11. Requested(queue)'
  <2>1. \A j \in DOMAIN queue : queue[j].from # t
    BY <1>7 DEF Asks
  <2>2. QED
    BY <1>8, <2>1 DEF EInv, Requested
<1>12. \A u \in Tests : Hearing(u)'
  <2>1. Hearing(t)'
    <3>1. \A j, k \in DOMAIN inbox'[t] :
            inbox'[t][j].type = "response" /\ inbox'[t][k].type = "response" => j = k
      BY <1>7 DEF Heard
    <3>2. at'[t] \in {"idle", "holding"}
      BY <1>5
    <3>3. QED
      BY <1>7, <1>8, <1>9, <3>1, <3>2 DEF Hearing
  <2>2. QED
    BY <1>2, <1>5, <1>8, <2>1 DEF EInv, Hearing
<1>13. \A s \in Slaves : Placed(s)' /\ Sending(s)' /\ Answering(s)'
  <2>1. \A s \in Slaves : Placed(s)'
    BY <1>8 DEF EInv, Placed
  <2>2. \A s \in Slaves : Sending(s)'
    BY <1>7, <1>8 DEF EInv, Sending
  <2>3. \A s \in Slaves : Answering(s)'
    BY <1>7, <1>8 DEF EInv, Answering, Owed
  <2>4. QED
    BY <2>1, <2>2, <2>3
<1>14. (\A s \in Slaves : Covered(s)') /\ BoundInv'
  BY DEF EInv, Covered, Ongoing, BoundInv, Count
<1>15. QED
  BY <1>10, <1>11, <1>12, <1>13, <1>14 DEF EInv

(* A test hears of the end of a remote run it knows of.                    *)
LEMMA HearingReady ==
  ASSUME EInv, NEW t \in Tests, inbox[t] # <<>>, Head(inbox[t]).type = "ready", at' = at,
         pending' \in [Tests -> SUBSET (Id \X Nat)],
         inbox' = [inbox EXCEPT ![t] = Tail(@)],
         UNCHANGED <<allocs, started, queue, pool, lastId, session, answers>>
  PROVE  EInv'
<1>1. DataOK
  BY DEF EInv
<1>2. /\ inbox' \in [Tests -> Seq(Notice)] /\ \A u : u # t => inbox'[u] = inbox[u]
      /\ \A k \in DOMAIN inbox'[t] :
           k \in Nat /\ k + 1 \in DOMAIN inbox[t] /\ k + 1 # 1 /\ inbox'[t][k] = inbox[t][k + 1]
  BY <1>1, InboxTail
<1>3. at[t] # "gone"
  BY DEF EInv, Hearing
<1>4. /\ \A u : Asks(u)' <=> Asks(u)
      /\ \A u : Heard(u)' => Heard(u)
      /\ \A s : Owed(s)' <=> Owed(s)
      /\ \A u, s : Holds(u, s)' <=> Holds(u, s)
      /\ \A u, ty : Waits(u, ty)' <=> Waits(u, ty)
  <2>1. \A u : Heard(u)' => Heard(u)
    BY <1>2 DEF Heard
  <2>2. QED
    BY <2>1 DEF Asks, Owed, Holds, Waits
<1>5. DataOK'
  BY <1>1, <1>2 DEF DataOK
<1>6. Requested(queue)'
  BY <1>4 DEF EInv, Requested
<1>7. \A u \in Tests : Hearing(u)'
  <2>1. ASSUME NEW j \in DOMAIN inbox'[t], NEW k \in DOMAIN inbox'[t],
               inbox'[t][j].type = "response", inbox'[t][k].type = "response"
        PROVE  j = k
    <3>1. j + 1 = k + 1
      BY <1>2, <2>1 DEF EInv, Hearing
    <3>2. QED
      BY <1>2, <3>1
  <2>2. QED
    BY <1>2, <1>3, <1>4, <2>1 DEF EInv, Hearing
<1>8. \A s \in Slaves : Placed(s)' /\ Sending(s)' /\ Answering(s)'
  BY <1>4 DEF EInv, Placed, Sending, Answering
<1>9. (\A s \in Slaves : Covered(s)') /\ BoundInv'
  BY DEF EInv, Covered, Ongoing, BoundInv, Count
<1>10. QED
  BY <1>5, <1>6, <1>7, <1>8, <1>9 DEF EInv

LEMMA HearKeeps == ASSUME EInv, NEW t \in Tests, Hear(t) PROVE EInv'
<1> DEFINE m == Head(inbox[t])
<1>1. /\ inbox[t] # <<>> /\ (HearResponse(t, m) \/ HearReady(t, m))
      /\ inbox' = [inbox EXCEPT ![t] = IF at'[t] = "gone" THEN <<>> ELSE Tail(@)]
      /\ UNCHANGED <<allocs, started, queue, pool, lastId, session, answers>>
  BY DEF Hear
<1>2. DataOK /\ at[t] # "gone" /\ m \in Notice
  <2>1. DataOK /\ at[t] # "gone" /\ inbox[t] \in Seq(Notice)
    BY <1>1 DEF EInv, Hearing, DataOK
  <2>2. QED
    BY <1>1, <2>1
<1>3. DOMAIN at = Tests /\ m.ok \in BOOLEAN
  BY <1>2 DEF DataOK, Notice
<1>4. CASE HearResponse(t, m) /\ m.ok
  <2>1. at'[t] # "gone"
    BY <1>2, <1>3, <1>4 DEF HearResponse, Answered
  <2>2. inbox' = [inbox EXCEPT ![t] = Tail(@)]
    BY <1>1, <2>1
  <2>3. QED
    BY <1>1, <1>4, <2>2, HearingResponse
<1>5. CASE HearResponse(t, m) /\ ~m.ok
  <2>1. at' = [at EXCEPT ![t] = "gone"] /\ pending' = pending
    BY <1>5 DEF HearResponse, Answered
  <2>2. at'[t] = "gone"
    BY <1>3, <2>1
  <2>3. inbox' = [inbox EXCEPT ![t] = <<>>]
    BY <1>1, <2>2
  <2>4. QED
    BY <1>1, <1>2, <2>1, <2>3, Leaving DEF DataOK
<1>6. CASE HearReady(t, m)
  <2>1. /\ m.type = "ready" /\ pending' \in [Tests -> SUBSET (Id \X Nat)]
        /\ at' = IF <<m.id, m.case>> \in pending[t] THEN at ELSE [at EXCEPT ![t] = "gone"]
    BY <1>2, <1>6 DEF HearReady, DataOK
  <2>2. CASE <<m.id, m.case>> \in pending[t]
    <3>1. at' = at /\ inbox' = [inbox EXCEPT ![t] = Tail(@)]
      BY <1>1, <1>2, <2>1, <2>2
    <3>2. QED
      BY <1>1, <2>1, <3>1, HearingReady
  <2>3. CASE <<m.id, m.case>> \notin pending[t]
    <3>1. at' = [at EXCEPT ![t] = "gone"] /\ at'[t] = "gone"
      BY <1>3, <2>1, <2>3
    <3>2. inbox' = [inbox EXCEPT ![t] = <<>>]
      BY <1>1, <3>1
    <3>3. QED
      BY <1>1, <2>1, <3>1, <3>2, Leaving
  <2>4. QED
    BY <2>2, <2>3
<1>7. QED
  BY <1>1, <1>3, <1>4, <1>5, <1>6

(* The request at the head of the queue, and what is left behind it.       *)
LEMMA RequestTaken ==
  ASSUME EInv, queue # <<>>, queue' = Tail(queue), UNCHANGED <<at, allocs, started, pending, inbox>>,
         NEW t, t = Head(queue).from, NEW type, type = Head(queue).type
  PROVE  /\ t \in Tests /\ type \in {"allocate", "run", "free"}
         /\ queue' \in Seq(Request)
         /\ Requested(queue') /\ \A k \in DOMAIN queue' : queue'[k].from # t
         /\ ~Asks(t)' /\ \A u : Asks(u)' => Asks(u)
         /\ \A u : Heard(u)' <=> Heard(u)
         /\ \A u, ty : Waits(u, ty)' <=> Waits(u, ty)
         /\ Asks(t) /\ ~Heard(t) /\ Waits(t, type)
         /\ type = "allocate" => \A s \in Slaves : ~Holds(t, s)
         /\ type # "allocate" => \E s \in Slaves : Holds(t, s)
         /\ Count(queue', {"run"}) \in Nat
         /\ Count(queue, {"run"}) =
              Count(queue', {"run"}) + (IF type = "run" THEN 1 ELSE 0)
<1>1. queue \in Seq(Request)
  BY DEF EInv, DataOK
<1>2. /\ Tail(queue) \in Seq(Request) /\ 1 \in DOMAIN queue
      /\ Head(queue) = queue[1] /\ queue[1] \in Request /\ t = queue[1].from /\ type = queue[1].type
      /\ \A k \in DOMAIN Tail(queue) :
           k \in Nat /\ k + 1 \in DOMAIN queue /\ k + 1 # 1 /\ Tail(queue)[k] = queue[k + 1]
  BY <1>1, TailIndexed
<1>3. /\ t \in Tests /\ type \in {"allocate", "run", "free"}
  BY <1>2 DEF Request
<1>4. /\ \A k \in DOMAIN queue : queue[k].from = t => k = 1
      /\ ~Heard(t) /\ Waits(t, type)
      /\ type = "allocate" => \A s \in Slaves : ~Holds(t, s)
      /\ type # "allocate" => \E s \in Slaves : Holds(t, s)
  BY <1>2 DEF EInv, Requested
<1>5. \A k \in DOMAIN queue' : k \in Nat /\ k + 1 \in DOMAIN queue /\ k + 1 # 1 /\ queue'[k] = queue[k + 1]
  BY <1>2
<1>6. Asks(t) /\ ~Asks(t)' /\ \A u : Asks(u)' => Asks(u)
  BY <1>2, <1>4, <1>5 DEF Asks
<1>7. (\A u : Heard(u)' <=> Heard(u)) /\ (\A u, ty : Waits(u, ty)' <=> Waits(u, ty))
  BY DEF Heard, Waits
<1>8. /\ Count(queue', {"run"}) \in Nat
      /\ Count(queue, {"run"}) = Count(queue', {"run"}) + (IF type = "run" THEN 1 ELSE 0)
  BY <1>1, CountTail
<1>9. Requested(queue') /\ \A k \in DOMAIN queue' : queue'[k].from # t
  <2>1. ASSUME NEW k \in DOMAIN queue', NEW i \in DOMAIN queue', queue'[k].from = queue'[i].from
        PROVE  k = i
    <3>1. k + 1 = i + 1
      BY <1>5, <2>1 DEF EInv, Requested
    <3>2. QED
      BY <1>5, <3>1
  <2>2. Requested(queue')
    BY <1>5, <2>1 DEF EInv, Requested
  <2>3. QED
    BY <1>4, <1>5, <2>2
<1>10. QED
  BY <1>2, <1>3, <1>4, <1>6, <1>7, <1>8, <1>9

(* The test is not told, and no slave is reserved: at most the first free  *)
(* entry takes the name of the test.                                       *)
LEMMA NotServed ==
  ASSUME EInv, queue # <<>>, queue' = Tail(queue), UNCHANGED <<testVars, inbox, lastId, session, answers>>,
         Head(queue).type = "allocate", NEW t \in Tests, t = Head(queue).from,
         NEW s \in Slaves, NEW n, n = pool[s].name \/ (n = t /\ ~pool[s].reserved),
         pool' = [pool EXCEPT ![s].name = n]
  PROVE  EInv'
<1>1. DataOK /\ UNCHANGED <<at, allocs, started, pending, inbox>>
  BY DEF EInv, testVars
<1>2. /\ queue' \in Seq(Request) /\ Requested(queue')
      /\ \A u : Asks(u)' => Asks(u)
      /\ \A u : Heard(u)' <=> Heard(u)
      /\ \A u, ty : Waits(u, ty)' <=> Waits(u, ty)
      /\ \A r \in Slaves : ~Holds(t, r)
      /\ Count(queue', {"run"}) \in Nat /\ Count(queue, {"run"}) = Count(queue', {"run"})
  BY <1>1, RequestTaken
<1>3. /\ \A r \in Slaves :
           /\ pool'[r].open = pool[r].open /\ pool'[r].reserved = pool[r].reserved
           /\ pool'[r].pid = pool[r].pid /\ pool'[r].out = pool[r].out /\ pool'[r].runs = pool[r].runs
           /\ pool'[r].name = pool[r].name \/ (pool'[r].name = t /\ ~pool[r].reserved)
      /\ pool' \in [Slaves -> Entry]
  <2>1. pool'[s] = [pool[s] EXCEPT !.name = n] /\ \A r \in Slaves : r # s => pool'[r] = pool[r]
    BY <1>1 DEF DataOK
  <2>2. \A r \in Slaves : pool[r] \in Entry
    BY <1>1 DEF DataOK
  <2>3. /\ pool'[s] \in Entry /\ pool'[s].name = n
        /\ pool'[s].open = pool[s].open /\ pool'[s].reserved = pool[s].reserved
        /\ pool'[s].pid = pool[s].pid /\ pool'[s].out = pool[s].out /\ pool'[s].runs = pool[s].runs
    BY <2>1, <2>2 DEF Entry
  <2>4. pool' \in [Slaves -> Entry]
    BY <1>1, <2>1, <2>2, <2>3 DEF DataOK
  <2>5. QED
    BY <2>1, <2>2, <2>3, <2>4
<1>4. /\ \A r : Owed(r)' <=> Owed(r)
      /\ \A u, r : r \in Slaves => (Holds(u, r)' <=> Holds(u, r))
  BY <1>1, <1>3 DEF Owed, Holds
<1>5. DataOK'
  BY <1>1, <1>2, <1>3 DEF DataOK
<1>6. Requested(queue)'
  BY <1>1, <1>2, <1>4 DEF Requested
<1>7. \A u \in Tests : Hearing(u)'
  BY <1>1, <1>2, <1>4 DEF EInv, Hearing
<1>8. ASSUME NEW r \in Slaves PROVE Placed(r)' /\ Sending(r)' /\ Answering(r)' /\ Covered(r)'
  <2>1. Placed(r) /\ Sending(r) /\ Answering(r) /\ Covered(r)
    BY DEF EInv
  <2>2. Placed(r)'
    <3>1. pool[r].reserved => pool[r].pid # t
      BY <1>2 DEF Holds
    <3>2. pool[r].reserved => \A q \in Slaves : pool'[q].name = pool[r].pid => r <= q
      BY <1>3, <2>1, <3>1 DEF Placed
    <3>3. QED
      BY <1>3, <1>4, <2>1, <3>2 DEF Placed
  <2>3. Sending(r)' /\ Answering(r)'
    BY <1>1, <1>2, <1>3, <1>4, <2>1 DEF Sending, Answering
  <2>4. Covered(r)'
    BY <1>1, <1>3, <2>1 DEF Covered, Ongoing, Count
  <2>5. QED
    BY <2>2, <2>3, <2>4
<1>9. BoundInv'
  <2>1. (Count(queue, {"run"}))' = Count(queue', {"run"})
    BY DEF Count
  <2>2. QED
    BY <1>1, <1>2, <1>3, <2>1 DEF EInv, BoundInv
<1>10. QED
  BY <1>5, <1>6, <1>7, <1>8, <1>9 DEF EInv

(* A slave is reserved, and nothing of an older connection is left.        *)
LEMMA Reserving ==
  ASSUME EInv, ~OneName, queue # <<>>, queue' = Tail(queue), UNCHANGED <<testVars, inbox>>,
         Head(queue).type = "allocate", NEW t, t = Head(queue).from, HandleAllocate(t)
  PROVE  EInv'
<1>1. DataOK /\ UNCHANGED <<at, allocs, started, pending, inbox>>
  BY DEF EInv, testVars
<1>2. /\ t \in Tests /\ queue' \in Seq(Request) /\ Requested(queue')
      /\ \A k \in DOMAIN queue' : queue'[k].from # t
      /\ ~Asks(t)' /\ \A u : Asks(u)' => Asks(u)
      /\ \A u : Heard(u)' <=> Heard(u)
      /\ \A u, ty : Waits(u, ty)' <=> Waits(u, ty)
      /\ ~Heard(t) /\ Waits(t, "allocate")
      /\ \A r \in Slaves : ~Holds(t, r)
      /\ Count(queue', {"run"}) \in Nat /\ Count(queue, {"run"}) = Count(queue', {"run"})
  BY <1>1, RequestTaken
<1>3. PICK s \in Slaves : /\ s = First(FreeEntries) /\ ~pool[s].reserved
                          /\ \A r \in Slaves : ~pool[r].reserved => s <= r
  BY LeastIsFirst DEF HandleAllocate, FreeEntries
<1>4. at[t] \in {"allocating", "gone"} /\ t # Nobody
  BY <1>2, PoolAssumption DEF Waits
<1>5. /\ lastId' = lastId + 1 /\ lastId \in Nat
      /\ session' = [session EXCEPT ![s] = Unconnected] /\ answers' = [answers EXCEPT ![s] = <<>>]
      /\ pool' = Sent([pool EXCEPT ![s] = Reserved(@, t)], "reserve", t)
  BY <1>1, <1>3, Fields DEF HandleAllocate
<1>6. /\ pool \in [Slaves -> Entry] /\ pool[s] \in Entry /\ pool[s].out = <<>> /\ pool[s].runs \in Nat
      /\ \A r \in Slaves : pool[r].name = t => s <= r
  <2>1. pool \in [Slaves -> Entry] /\ pool[s] \in Entry /\ pool[s].out = <<>> /\ pool[s].runs \in Nat
    BY <1>1, <1>3, Fields DEF EInv, Placed, DataOK
  <2>2. ASSUME NEW r \in Slaves, pool[r].name = t PROVE s <= r
    <3>1. ~pool[r].reserved
      BY <1>2, <2>2 DEF EInv, Placed, Holds
    <3>2. QED
      BY <1>3, <3>1
  <2>3. QED
    BY <2>1, <2>2
<1>7. /\ pool' \in [Slaves -> Entry] /\ \A r \in Slaves : r # s => pool'[r] = pool[r]
      /\ pool'[s].reserved /\ pool'[s].open /\ pool'[s].name = t /\ pool'[s].pid = t
      /\ pool'[s].runs = pool[s].runs
      /\ pool'[s].out = <<[type |-> "reserve", from |-> t, id |-> lastId + 1]>>
  <2>1. Name(t) = t /\ lastId + 1 \in Nat
    BY <1>5 DEF Name
  <2>2. PICK e : e = Reserved(pool[s], t)
    OBVIOUS
  <2>3. /\ e \in Entry /\ e.reserved /\ e.open /\ e.name = t /\ e.pid = t
        /\ e.runs = pool[s].runs /\ e.out = <<>> /\ e.id = lastId + 1
    BY <1>2, <1>3, <1>6, <2>1, <2>2 DEF Reserved, Entry, Id
  <2>4. PICK p : p = [pool EXCEPT ![s] = e]
    OBVIOUS
  <2>5. p \in [Slaves -> Entry] /\ p[s] = e /\ \A r \in Slaves : r # s => p[r] = pool[r]
    BY <1>3, <1>6, <2>3, <2>4
  <2>6. PICK type \in {"reserve", "run", "release"} : type = "reserve"
    OBVIOUS
  <2>7. pool' = Sent(p, type, t)
    BY <1>3, <1>5, <1>6, <2>2, <2>4, <2>6
  <2>8. PICK c : c = [type |-> type, from |-> t, id |-> p[s].id]
    OBVIOUS
  <2>9. /\ p[s].open /\ p[s].out = <<>> /\ p[s].name = t
        /\ \A r \in Slaves : p[r].name = t => s <= r
    <3>1. s <= s
      BY PoolAssumption DEF Slaves
    <3>2. QED
      BY <1>6, <2>3, <2>5, <3>1
  <2>10. /\ pool' \in [Slaves -> Entry] /\ \A r \in Slaves : r # s => pool'[r] = p[r]
         /\ pool'[s].out = <<c>> /\ pool'[s].runs = p[s].runs
         /\ pool'[s].open /\ (pool'[s].reserved <=> p[s].reserved)
         /\ pool'[s].name = p[s].name /\ pool'[s].pid = p[s].pid
    <3>1. /\ ~OneName /\ t \in Tests /\ s \in Slaves /\ p \in [Slaves -> Entry]
          /\ p[s].open /\ p[s].out = <<>> /\ p[s].name = t /\ \A r \in Slaves : p[r].name = t => s <= r
          /\ type \in {"reserve", "run", "release"} /\ type # "run" /\ (type = "run" => p[s].runs < MaxRuns)
          /\ c = [type |-> type, from |-> t, id |-> p[s].id]
      BY <1>2, <2>5, <2>6, <2>8, <2>9
    <3>2. pool' \in [Slaves -> Entry] /\ \A r \in Slaves : r # s => pool'[r] = p[r]
      BY <2>7, <3>1, SentFirst
    <3>3. pool'[s].out = <<c>>
      BY <2>7, <3>1, SentFirst
    <3>4. pool'[s].runs = p[s].runs
      BY <2>7, <3>1, SentFirst
    <3>5. pool'[s].open /\ (pool'[s].reserved <=> p[s].reserved)
      BY <2>7, <3>1, SentFirst
    <3>6. pool'[s].name = p[s].name /\ pool'[s].pid = p[s].pid
      BY SMTT(30), <2>7, <3>1, SentFirst
    <3>7. QED
      BY <3>2, <3>3, <3>4, <3>5, <3>6
  <2>11. QED
    BY <2>3, <2>5, <2>6, <2>8, <2>10
<1>8. /\ session'[s] = Unconnected /\ answers'[s] = <<>>
      /\ \A r \in Slaves : r # s => session'[r] = session[r] /\ answers'[r] = answers[r]
      /\ session' \in [Slaves -> Session] /\ answers' \in [Slaves -> Seq(Answer)]
  <2>1. Unconnected \in Session
    BY DEF Unconnected, Session, Id
  <2>2. QED
    BY <1>1, <1>3, <1>5, <2>1 DEF DataOK
<1>9. /\ ~Owed(s)' /\ \A u : Holds(u, s)' <=> u = t
      /\ \A r \in Slaves : r # s => (Owed(r)' <=> Owed(r))
      /\ \A u, r : r \in Slaves /\ r # s => (Holds(u, r)' <=> Holds(u, r))
      /\ \A u, r : r \in Slaves /\ Holds(u, r) => r # s /\ u # t
  BY <1>2, <1>3, <1>7, <1>8 DEF Owed, Holds
<1>10. DataOK'
  <2>1. /\ at' \in [Tests -> {"idle", "holding", "gone"} \cup Blocked]
        /\ allocs' \in 0..MaxAllocs /\ started' \in 0..MaxRuns
        /\ pending' \in [Tests -> SUBSET (Id \X Nat)] /\ inbox' \in [Tests -> Seq(Notice)]
    BY <1>1 DEF DataOK
  <2>2. lastId' \in Id
    BY <1>5 DEF Id
  <2>3. QED
    BY <1>2, <1>7, <1>8, <2>1, <2>2 DEF DataOK
<1>11. Requested(queue)'
  BY <1>1, <1>2, <1>3, <1>7, <1>9 DEF Requested
<1>12. \A u \in Tests : Hearing(u)'
  BY <1>1, <1>2, <1>3, <1>4, <1>9 DEF EInv, Hearing
<1>13. \A r \in Slaves : Placed(r)'
  <2>1. ASSUME NEW r \in Slaves, r # s PROVE Placed(r)'
    <3>1. Placed(r) /\ (pool[r].reserved => pool[r].pid # t)
      BY <1>2 DEF EInv, Holds
    <3>2. pool[r].reserved => \A q \in Slaves : pool'[q].name = pool[r].pid => r <= q
      BY <1>7, <3>1 DEF Placed
    <3>3. QED
      BY <1>7, <1>9, <2>1, <3>1, <3>2 DEF Placed
  <2>2. Placed(s)'
    <3>1. \A r \in Slaves : pool'[r].name = t => s <= r
      <4>1. s <= s
        BY PoolAssumption DEF Slaves
      <4>2. QED
        BY <1>6, <1>7, <4>1
    <3>2. QED
      BY <1>2, <1>7, <3>1 DEF Placed
  <2>3. QED
    BY <2>1, <2>2
<1>14. \A r \in Slaves : r # s => Sending(r)' /\ Answering(r)' /\ Covered(r)'
  <2>1. ASSUME NEW r \in Slaves, r # s PROVE Sending(r)' /\ Answering(r)' /\ Covered(r)'
    <3>1. PICK u : u = pool[r].pid
      OBVIOUS
    <3>2. pool'[r] = pool[r] /\ session'[r] = session[r] /\ answers'[r] = answers[r]
      BY <1>7, <1>8, <2>1
    <3>3. (Heard(u)' => Heard(u)) /\ (Asks(u)' => Asks(u)) /\ at' = at
      BY <1>1, <1>2
    <3>4. QED
      BY <3>1, <3>2, <3>3, LeftAlone
  <2>2. QED
    BY <2>1
<1>15. Sending(s)' /\ Answering(s)'
  <2>1. /\ Len(pool'[s].out) = 1 /\ pool'[s].out[1].from = t /\ pool'[s].out[1].type = "reserve"
        /\ Waits(t, "reserve")'
    BY <1>1, <1>4, <1>7 DEF Waits
  <2>2. pool'[s].pid = t /\ ~Asks(t)' /\ ~Heard(t)' /\ ~Owed(s)'
    BY <1>2, <1>7, <1>9
  <2>3. QED
    BY <1>8, <2>1, <2>2 DEF Sending, Answering
<1>16. Covered(s)'
  <2>1. PICK c : c = [type |-> "reserve", from |-> t, id |-> lastId + 1]
    OBVIOUS
  <2>2. Count(<<c>>, {"run"}) = 0 /\ Count(<<>>, {"ready", "error"}) = 0
    BY <2>1, CountOne, CountEmpty
  <2>3. pool'[s].out = <<c>> /\ answers'[s] = <<>> /\ session'[s].busy = FALSE /\ 0 <= pool'[s].runs
    BY <1>6, <1>7, <1>8, <2>1 DEF Unconnected
  <2>4. Count(pool'[s].out, {"run"}) + Count(answers'[s], {"ready", "error"})
        + (IF session'[s].busy THEN 1 ELSE 0) <= pool'[s].runs
    BY <2>2, <2>3
  <2>5. QED
    BY <2>4, OngoingNext
<1>17. BoundInv'
  <2>1. (Count(queue, {"run"}))' = Count(queue', {"run"})
    BY DEF Count
  <2>2. QED
    BY <1>1, <1>2, <1>7, <2>1 DEF EInv, BoundInv
<1>18. QED
  BY <1>10, <1>11, <1>12, <1>13, <1>14, <1>15, <1>16, <1>17 DEF EInv

(* A slave is sent a command of the test that has reserved it.             *)
LEMMA Commanding ==
  ASSUME EInv, ~OneName, queue # <<>>, queue' = Tail(queue), UNCHANGED <<testVars, inbox>>,
         Head(queue).type # "allocate", HandleCommand(Head(queue))
  PROVE  EInv'
<1>1. DataOK /\ UNCHANGED <<at, allocs, started, pending, inbox, session, answers, lastId>>
  BY DEF EInv, testVars, HandleCommand
<1>2. PICK t, type : t = Head(queue).from /\ type = Head(queue).type
  OBVIOUS
<1>3. /\ t \in Tests /\ type \in {"run", "free"} /\ queue' \in Seq(Request)
      /\ Requested(queue') /\ \A k \in DOMAIN queue' : queue'[k].from # t
      /\ ~Asks(t)' /\ \A u : Asks(u)' => Asks(u)
      /\ \A u : Heard(u)' <=> Heard(u)
      /\ \A u, ty : Waits(u, ty)' <=> Waits(u, ty)
      /\ Asks(t) /\ ~Heard(t) /\ Waits(t, type)
      /\ \E s \in Slaves : Holds(t, s)
      /\ Count(queue', {"run"}) \in Nat
      /\ Count(queue, {"run"}) = Count(queue', {"run"}) + (IF type = "run" THEN 1 ELSE 0)
  BY <1>1, <1>2, RequestTaken
<1>4. PICK s \in Slaves : Holds(t, s)
  BY <1>3
<1>5. /\ pool[s].name = t /\ pool[s].open /\ pool[s].reserved /\ pool[s].pid = t
      /\ \A r \in Slaves : pool[r].name = t => s <= r
  BY <1>4 DEF EInv, Placed, Holds
<1>6. \A r \in Slaves : r # s /\ pool[r].reserved => pool[r].pid # t
  BY <1>4, OneHeld DEF Holds
<1>7. pool[s].out = <<>> /\ ~Owed(s)
  BY <1>3, <1>4, <1>5 DEF EInv, Sending, Answering, Owed
<1>8. /\ pool \in [Slaves -> Entry] /\ pool[s].runs \in Nat /\ pool[s].id \in Nat
      /\ started \in Nat /\ started <= MaxRuns /\ MaxRuns \in Nat
  BY <1>1, Fields, PoolAssumption DEF DataOK
<1>9. PICK send : send = IF type = "free" THEN "release" ELSE type
  OBVIOUS
<1>10. send \in {"reserve", "run", "release"} /\ send # "reserve" /\ (send = "run" <=> type = "run")
  BY <1>3, <1>9
<1>11. send = "run" => pool[s].runs < MaxRuns
  <2>1. pool[s].runs + Count(queue, {"run"}) <= started
    BY DEF EInv, BoundInv
  <2>2. QED
    BY <1>3, <1>8, <1>10, <2>1
<1>12. pool' = Sent(pool, send, t)
  BY <1>2, <1>9 DEF HandleCommand
<1>13. PICK c : c = [type |-> send, from |-> t, id |-> pool[s].id]
  OBVIOUS
<1>14. /\ pool' \in [Slaves -> Entry] /\ \A r \in Slaves : r # s => pool'[r] = pool[r]
       /\ pool'[s].out = <<c>>
       /\ pool'[s].runs = pool[s].runs + (IF send = "run" THEN 1 ELSE 0)
       /\ pool'[s].open /\ (pool'[s].reserved <=> pool[s].reserved)
       /\ pool'[s].name = pool[s].name /\ pool'[s].pid = pool[s].pid
  <2>1. /\ ~OneName /\ t \in Tests /\ s \in Slaves /\ pool \in [Slaves -> Entry]
        /\ pool[s].open /\ pool[s].out = <<>> /\ pool[s].name = t
        /\ \A r \in Slaves : pool[r].name = t => s <= r
        /\ send \in {"reserve", "run", "release"} /\ (send = "run" => pool[s].runs < MaxRuns)
        /\ c = [type |-> send, from |-> t, id |-> pool[s].id]
    BY <1>3, <1>5, <1>7, <1>8, <1>10, <1>11, <1>13
  <2>2. pool' \in [Slaves -> Entry] /\ \A r \in Slaves : r # s => pool'[r] = pool[r]
    BY <1>12, <2>1, SentFirst
  <2>3. pool'[s].out = <<c>>
    BY <1>12, <2>1, SentFirst
  <2>4. send = "run" => pool'[s].runs = pool[s].runs + 1
    BY <1>12, <2>1, SentFirst
  <2>5. send # "run" => pool'[s].runs = pool[s].runs
    BY <1>12, <2>1, SentFirst
  <2>6. pool'[s].open /\ (pool'[s].reserved <=> pool[s].reserved)
    BY <1>12, <2>1, SentFirst
  <2>7. pool'[s].name = pool[s].name /\ pool'[s].pid = pool[s].pid
    BY SMTT(30), <1>12, <2>1, SentFirst
  <2>8. QED
    BY <1>8, <2>2, <2>3, <2>4, <2>5, <2>6, <2>7
<1>15. \A r \in Slaves :
         /\ pool'[r].open <=> pool[r].open
         /\ pool'[r].reserved <=> pool[r].reserved
         /\ pool'[r].name = pool[r].name /\ pool'[r].pid = pool[r].pid
         /\ ~pool[r].reserved => pool'[r] = pool[r]
  BY <1>5, <1>14
<1>16. /\ \A r \in Slaves : Owed(r)' <=> Owed(r)
       /\ \A u, r : r \in Slaves => (Holds(u, r)' <=> Holds(u, r))
  BY <1>1, <1>15 DEF Owed, Holds
<1>17. DataOK'
  <2>1. /\ at' \in [Tests -> {"idle", "holding", "gone"} \cup Blocked]
        /\ allocs' \in 0..MaxAllocs /\ started' \in 0..MaxRuns /\ lastId' \in Id
        /\ pending' \in [Tests -> SUBSET (Id \X Nat)] /\ inbox' \in [Tests -> Seq(Notice)]
        /\ session' \in [Slaves -> Session] /\ answers' \in [Slaves -> Seq(Answer)]
    BY <1>1 DEF DataOK
  <2>2. QED
    BY <1>3, <1>14, <2>1 DEF DataOK
<1>18. Requested(queue)'
  BY <1>1, <1>3, <1>16 DEF Requested
<1>19. \A u \in Tests : Hearing(u)'
  BY <1>1, <1>3, <1>16 DEF EInv, Hearing
<1>20. \A r \in Slaves : Placed(r)'
  BY <1>14, <1>15, <1>16 DEF EInv, Placed
<1>21. ASSUME NEW r \in Slaves, r # s PROVE Sending(r)' /\ Answering(r)' /\ Covered(r)'
  <2>1. PICK u : u = pool[r].pid
    OBVIOUS
  <2>2. pool'[r] = pool[r] /\ session'[r] = session[r] /\ answers'[r] = answers[r]
    BY <1>1, <1>14, <1>21
  <2>3. (Heard(u)' => Heard(u)) /\ (Asks(u)' => Asks(u)) /\ at' = at
    BY <1>1, <1>3
  <2>4. QED
    BY <2>1, <2>2, <2>3, LeftAlone
<1>22. Sending(s)' /\ Answering(s)'
  <2>1. Len(pool'[s].out) = 1 /\ pool'[s].out[1].from = t /\ pool'[s].out[1].type = send
    BY <1>13, <1>14
  <2>2. Waits(t, send)'
    BY <1>1, <1>3, <1>9, <1>10 DEF Waits
  <2>3. pool'[s].pid = t /\ ~Asks(t)' /\ ~Heard(t)' /\ ~Owed(s)'
    BY <1>3, <1>5, <1>7, <1>14, <1>16
  <2>4. Sending(s)'
    BY <2>1, <2>2, <2>3 DEF Sending
  <2>5. Answering(s)'
    BY <2>3 DEF Answering, Owed
  <2>6. QED
    BY <2>4, <2>5
<1>23. Covered(s)'
  <2>1. Count(<<c>>, {"run"}) = IF send = "run" THEN 1 ELSE 0
    <3>1. c.type = send
      BY <1>13
    <3>2. QED
      BY <3>1, CountOne
  <2>2. Count(<<>>, {"run"}) = 0 /\ Count(answers[s], {"ready", "error"}) \in Nat
    <3>1. answers[s] \in Seq(Answer)
      BY <1>1, Fields
    <3>2. QED
      BY <3>1, CountEmpty, CountType
  <2>3. Count(<<>>, {"run"}) + Count(answers[s], {"ready", "error"}) + (IF session[s].busy THEN 1 ELSE 0)
        <= pool[s].runs
    BY <1>7 DEF EInv, Covered, Ongoing
  <2>4. Count(pool'[s].out, {"run"}) + Count(answers'[s], {"ready", "error"})
        + (IF session'[s].busy THEN 1 ELSE 0) <= pool'[s].runs
    <3>1. pool'[s].out = <<c>> /\ answers'[s] = answers[s] /\ session'[s] = session[s]
      BY <1>1, <1>14
    <3>2. Count(<<c>>, {"run"}) + Count(answers[s], {"ready", "error"})
          + (IF session[s].busy THEN 1 ELSE 0) <= pool'[s].runs
      BY <1>8, <1>14, <2>1, <2>2, <2>3
    <3>3. QED
      BY <3>1, <3>2
  <2>5. QED
    BY <2>4, OngoingNext
<1>24. BoundInv'
  <2>1. (Count(queue, {"run"}))' = Count(queue', {"run"})
    BY DEF Count
  <2>2. \A r \in Slaves : pool[r].runs \in Nat
    BY <1>1, Fields
  <2>3. ASSUME NEW r \in Slaves PROVE pool'[r].runs + Count(queue', {"run"}) <= started
    <3>1. pool[r].runs + Count(queue, {"run"}) <= started
      BY DEF EInv, BoundInv
    <3>2. pool'[r].runs = pool[r].runs \/ pool'[r].runs = pool[r].runs + (IF type = "run" THEN 1 ELSE 0)
      BY <1>10, <1>14
    <3>3. QED
      BY <1>3, <1>8, <2>2, <3>1, <3>2
  <2>4. QED
    BY <1>1, <2>1, <2>3 DEF BoundInv
<1>25. QED
  BY <1>17, <1>18, <1>19, <1>20, <1>21, <1>22, <1>23, <1>24 DEF EInv

LEMMA ListenerKeeps == ASSUME EInv, ~OneName, Listener PROVE EInv'
<1>1. /\ queue # <<>> /\ queue' = Tail(queue) /\ UNCHANGED <<testVars, inbox>>
      /\ \/ /\ Head(queue).type = "allocate"
            /\ HandleAllocate(Head(queue).from) \/ NoneFree \/ Refused(Head(queue).from)
         \/ Head(queue).type # "allocate" /\ HandleCommand(Head(queue))
  BY DEF Listener
<1>2. PICK t : t = Head(queue).from
  OBVIOUS
<1>3. t \in Tests /\ pool \in [Slaves -> Entry] /\ 1 \in Slaves
  <2>1. UNCHANGED <<at, allocs, started, pending, inbox>>
    BY <1>1 DEF testVars
  <2>2. t \in Tests
    BY <1>1, <1>2, <2>1, RequestTaken
  <2>3. QED
    BY <2>2, PoolAssumption DEF EInv, DataOK, Slaves
<1>4. CASE Head(queue).type = "allocate" /\ HandleAllocate(t)
  BY <1>1, <1>2, <1>4, Reserving
<1>5. CASE Head(queue).type = "allocate" /\ NoneFree
  <2>1. UNCHANGED <<pool, lastId, session, answers>>
    BY <1>5 DEF NoneFree
  <2>2. PICK n : n = pool[1].name
    OBVIOUS
  <2>3. pool' = [pool EXCEPT ![1].name = n]
    <3>1. pool[1] \in Entry
      BY <1>3
    <3>2. [pool[1] EXCEPT !.name = pool[1].name] = pool[1]
      BY <3>1 DEF Entry
    <3>3. QED
      BY <1>3, <2>1, <2>2, <3>2
  <2>4. QED
    BY <1>1, <1>2, <1>3, <1>5, <2>1, <2>2, <2>3, NotServed
<1>6. CASE Head(queue).type = "allocate" /\ Refused(t)
  <2>1. FreeEntries # {} /\ FreeEntries \in SUBSET Slaves /\ UNCHANGED <<lastId, session, answers>>
    BY <1>6 DEF Refused, FreeEntries
  <2>2. PICK s \in Slaves : s = First(FreeEntries) /\ ~pool[s].reserved
    BY <2>1, LeastIsFirst DEF FreeEntries
  <2>3. pool' = [pool EXCEPT ![s].name = t]
    BY <1>6, <2>2 DEF Refused, Name
  <2>4. PICK n : n = t
    OBVIOUS
  <2>5. QED
    BY <1>1, <1>2, <1>3, <1>6, <2>1, <2>2, <2>3, <2>4, NotServed
<1>7. CASE Head(queue).type # "allocate" /\ HandleCommand(Head(queue))
  BY <1>1, <1>7, Commanding
<1>8. QED
  BY <1>1, <1>2, <1>4, <1>5, <1>6, <1>7

(* A step between a slave, its connection and its test concerns these only.*)
LEMMA EFrame ==
  ASSUME EInv, NEW s \in Slaves, NEW t, t = pool[s].pid, UNCHANGED <<testVars, queue, lastId>>,
         pool' \in [Slaves -> Entry], session' \in [Slaves -> Session],
         answers' \in [Slaves -> Seq(Answer)], inbox' \in [Tests -> Seq(Notice)],
         \A r \in Slaves : r # s => pool'[r] = pool[r] /\ session'[r] = session[r] /\ answers'[r] = answers[r],
         \A u : u # t => inbox'[u] = inbox[u],
         pool'[s].pid = t, pool'[s].name = pool[s].name \/ pool'[s].name = Nobody,
         pool'[s].reserved => pool[s].reserved /\ pool'[s].open /\ pool'[s].name = pool[s].name,
         ~pool'[s].reserved => pool'[s].out = <<>> /\ ~Owed(s)',
         pool[s].reserved /\ ~pool'[s].reserved => ~Asks(t),
         t \in Tests => Hearing(t)' /\ (Asks(t) => ~Heard(t)'),
         ~pool[s].reserved => (Heard(t)' => Heard(t)),
         Sending(s)', Answering(s)', Covered(s)', pool'[s].runs <= pool[s].runs
  PROVE  EInv'
<1>1. DataOK /\ UNCHANGED <<at, allocs, started, pending, queue, lastId>>
  BY DEF EInv, testVars
<1>2. DataOK'
  <2>1. /\ at' \in [Tests -> {"idle", "holding", "gone"} \cup Blocked]
        /\ allocs' \in 0..MaxAllocs /\ started' \in 0..MaxRuns /\ lastId' \in Id
        /\ pending' \in [Tests -> SUBSET (Id \X Nat)] /\ queue' \in Seq(Request)
    BY <1>1 DEF DataOK
  <2>2. QED
    BY <2>1 DEF DataOK
<1>3. /\ \A u : Asks(u)' <=> Asks(u)
      /\ \A u : u # t => (Heard(u)' <=> Heard(u))
      /\ \A u, ty : Waits(u, ty)' <=> Waits(u, ty)
      /\ \A r \in Slaves : r # s => (Owed(r)' <=> Owed(r))
      /\ \A u, r : r \in Slaves /\ r # s => (Holds(u, r)' <=> Holds(u, r))
      /\ \A u : Holds(u, s)' <=> Holds(u, s) /\ pool'[s].reserved
  BY <1>1 DEF Asks, Heard, Waits, Owed, Holds
<1>4. \A u, r : r \in Slaves /\ u # t => (Holds(u, r)' <=> Holds(u, r))
  BY <1>3 DEF Holds
<1>5. Requested(queue)'
  <2>1. ASSUME NEW j \in DOMAIN queue, NEW u, u = queue[j].from, NEW type, type = queue[j].type
        PROVE  /\ ~Heard(u)' /\ Waits(u, type)'
               /\ type = "allocate" => \A r \in Slaves : ~Holds(u, r)'
               /\ type # "allocate" => \E r \in Slaves : Holds(u, r)'
    <3>1. Asks(u) /\ u \in Tests
      <4>1. queue[j] \in Request
        BY <1>1 DEF DataOK
      <4>2. QED
        BY <2>1, <4>1 DEF Asks, Request
    <3>2. /\ ~Heard(u) /\ Waits(u, type)
          /\ type = "allocate" => \A r \in Slaves : ~Holds(u, r)
          /\ type # "allocate" => \E r \in Slaves : Holds(u, r)
      BY <2>1 DEF EInv, Requested
    <3>3. ~Heard(u)' /\ Waits(u, type)'
      BY <1>3, <3>1, <3>2
    <3>4. type = "allocate" => \A r \in Slaves : ~Holds(u, r)'
      BY <1>3, <3>2
    <3>5. type # "allocate" => \E r \in Slaves : Holds(u, r)'
      <4>1. PICK r \in Slaves : type # "allocate" => Holds(u, r)
        BY <3>2
      <4>2. CASE u # t
        BY <1>4, <4>1, <4>2
      <4>3. CASE r # s
        BY <1>3, <4>1, <4>3
      <4>4. CASE u = t /\ r = s
        <5>1. pool[s].reserved => pool'[s].reserved
          BY <3>1, <4>4
        <5>2. Holds(u, s) => pool[s].reserved
          BY DEF Holds
        <5>3. QED
          BY <1>3, <4>1, <4>4, <5>1, <5>2
      <4>5. QED
        BY <4>2, <4>3, <4>4
    <3>6. QED
      BY <3>3, <3>4, <3>5
  <2>2. \A j, k \in DOMAIN queue : queue[k].from = queue[j].from => k = j
    BY DEF EInv, Requested
  <2>3. QED
    BY <1>1, <2>1, <2>2 DEF Requested
<1>6. \A u \in Tests : Hearing(u)'
  <2>1. ASSUME NEW u \in Tests, u # t PROVE Hearing(u)'
    <3>1. /\ Hearing(u) /\ at' = at /\ inbox'[u] = inbox[u] /\ (Heard(u)' <=> Heard(u))
          /\ \A r \in Slaves : Holds(u, r)' <=> Holds(u, r)
      BY <1>1, <1>3, <1>4, <2>1 DEF EInv
    <3>2. QED
      BY <3>1 DEF Hearing
  <2>2. QED
    BY <2>1
<1>7. ASSUME NEW r \in Slaves PROVE Placed(r)'
  <2>1. Placed(r) /\ Placed(s)
    BY DEF EInv
  <2>2. CASE r = s
    <3>1. pool'[s].reserved => \A q \in Slaves : pool'[q].name = t => s <= q
      <4>1. pool'[s].reserved => \A q \in Slaves : pool'[q].name = pool[q].name
        OBVIOUS
      <4>2. QED
        BY <2>1, <4>1 DEF Placed
    <3>2. pool'[s].reserved => pool'[s].open /\ t \in Tests /\ pool'[s].name = t
      BY <2>1 DEF Placed
    <3>3. QED
      BY <2>2, <3>1, <3>2 DEF Placed
  <2>3. CASE r # s
    <3>1. pool'[r] = pool[r] /\ (Owed(r)' <=> Owed(r))
      BY <1>3, <2>3
    <3>2. pool[r].reserved => \A q \in Slaves : pool'[q].name = pool[r].pid => r <= q
      <4>1. pool[r].reserved => pool[r].pid # Nobody
        BY <2>1, PoolAssumption DEF Placed
      <4>2. pool[r].reserved => \A q \in Slaves : pool'[q].name = pool[r].pid => pool[q].name = pool[r].pid
        BY <4>1
      <4>3. QED
        BY <2>1, <4>2 DEF Placed
    <3>3. QED
      BY <2>1, <3>1, <3>2 DEF Placed
  <2>4. QED
    BY <2>2, <2>3
<1>8. ASSUME NEW r \in Slaves, r # s PROVE Sending(r)' /\ Answering(r)' /\ Covered(r)'
  <2>1. PICK u : u = pool[r].pid
    OBVIOUS
  <2>2. pool'[r] = pool[r] /\ session'[r] = session[r] /\ answers'[r] = answers[r] /\ at' = at
    BY <1>1, <1>8
  <2>3. pool[r].reserved => (Heard(u)' => Heard(u)) /\ (Asks(u)' => Asks(u))
    <3>1. pool[r].reserved /\ pool[s].reserved => u # t
      BY <1>8, <2>1, OneHeld DEF Holds
    <3>2. QED
      BY <1>3, <3>1
  <2>4. QED
    BY <2>1, <2>2, <2>3, LeftAlone
<1>9. BoundInv'
  <2>1. (Count(queue, {"run"}))' = Count(queue, {"run"}) /\ Count(queue, {"run"}) \in Nat
    <3>1. (Count(queue, {"run"}))' = Count(queue, {"run"})
      BY <1>1 DEF Count
    <3>2. queue \in Seq(Request)
      BY <1>1 DEF DataOK
    <3>3. QED
      BY <3>1, <3>2, CountType
  <2>2. \A r \in Slaves : pool[r].runs \in Nat /\ pool'[r].runs \in Nat /\ pool'[r].runs <= pool[r].runs
    <3>1. \A r \in Slaves : pool[r].runs \in Nat
      BY <1>1, Fields
    <3>2. \A r \in Slaves : pool'[r].runs \in Nat
      BY DEF Entry
    <3>3. \A r \in Slaves : r = s \/ pool'[r].runs = pool[r].runs
      OBVIOUS
    <3>4. QED
      BY <3>1, <3>2, <3>3
  <2>3. started \in Nat
    BY <1>1, Fields
  <2>4. ASSUME NEW r \in Slaves PROVE pool'[r].runs + Count(queue, {"run"}) <= started
    <3>1. pool[r].runs + Count(queue, {"run"}) <= started
      BY DEF EInv, BoundInv
    <3>2. QED
      BY <2>1, <2>2, <2>3, <3>1
  <2>5. QED
    BY <1>1, <2>1, <2>4 DEF BoundInv
<1>10. QED
  BY <1>2, <1>5, <1>6, <1>7, <1>8, <1>9 DEF EInv

(* A slave takes the command of its test and answers it.                   *)
LEMMA Serving ==
  ASSUME EInv, NEW s \in Slaves, pool[s].open, pool[s].out # <<>>, pool' = [pool EXCEPT ![s].out = Tail(@)],
         UNCHANGED <<testVars, queue, inbox, lastId>>, NEW c, c = Head(pool[s].out),
         NEW a \in Answer, answers' = [answers EXCEPT ![s] = Append(@, a)],
         NEW e \in Session, session' = [session EXCEPT ![s] = e],
         \/ c.type = "reserve" /\ a.type = "reserve" /\ e.busy = session[s].busy
         \/ c.type = "release" /\ a.type = "release" /\ e.busy = session[s].busy
         \/ c.type = "run" /\ a.type = "started" /\ ~session[s].busy /\ e.busy
         \/ c.type = "run" /\ a.type = "error" /\ e.busy = session[s].busy
  PROVE  EInv'
<1>1. DataOK /\ UNCHANGED <<at, allocs, started, pending, queue, inbox, lastId>>
  BY DEF EInv, testVars
<1>2. PICK t : t = pool[s].pid
  OBVIOUS
<1>3. pool[s] \in Entry /\ session[s] \in Session /\ answers[s] \in Seq(Answer) /\ pool[s].out \in Seq(Command)
  BY <1>1, Fields
<1>4. /\ pool[s].reserved /\ t \in Tests /\ Len(pool[s].out) = 1 /\ c = pool[s].out[1]
      /\ ~Asks(t) /\ ~Heard(t) /\ ~Owed(s) /\ Waits(t, c.type)
  <2>1. c = pool[s].out[1] /\ pool[s].reserved
    BY <1>3 DEF EInv, Placed
  <2>2. QED
    BY <1>2, <2>1 DEF EInv, Placed, Sending
<1>5. PICK f : f = [pool[s] EXCEPT !.out = <<>>]
  OBVIOUS
<1>6. /\ f \in Entry /\ f.out = <<>> /\ f.open = pool[s].open /\ f.reserved = pool[s].reserved
      /\ f.runs = pool[s].runs /\ f.name = pool[s].name /\ f.pid = pool[s].pid
  <2>1. f \in Entry
    <3>1. <<>> \in Seq(Command)
      OBVIOUS
    <3>2. \A q \in Seq(Command) : [pool[s] EXCEPT !.out = q] \in Entry
      BY <1>3 DEF Entry
    <3>3. QED
      BY <1>5, <3>1, <3>2
  <2>2. f.out = <<>> /\ f.open = pool[s].open /\ f.reserved = pool[s].reserved
    BY <1>3, <1>5 DEF Entry
  <2>3. f.runs = pool[s].runs /\ f.name = pool[s].name /\ f.pid = pool[s].pid
    BY <1>3, <1>5 DEF Entry
  <2>4. QED
    BY <2>1, <2>2, <2>3
<1>7. /\ pool'[s] = f /\ pool' \in [Slaves -> Entry]
      /\ session'[s] = e /\ session' \in [Slaves -> Session]
      /\ answers'[s] = Append(answers[s], a) /\ answers' \in [Slaves -> Seq(Answer)]
      /\ \A r \in Slaves : r # s => pool'[r] = pool[r] /\ session'[r] = session[r] /\ answers'[r] = answers[r]
  <2>1. Tail(pool[s].out) = <<>>
    BY <1>3, <1>4, TailIndexed
  <2>2. pool' = [pool EXCEPT ![s] = f]
    BY <1>5, <2>1
  <2>3. Append(answers[s], a) \in Seq(Answer)
    BY <1>3
  <2>4. QED
    BY <1>1, <1>6, <2>2, <2>3 DEF DataOK
<1>8. (\A u : Asks(u)' <=> Asks(u)) /\ (\A u : Heard(u)' <=> Heard(u)) /\ \A u, ty : Waits(u, ty)' <=> Waits(u, ty)
  BY <1>1 DEF Asks, Heard, Waits
<1>9. Sending(s)'
  BY <1>6, <1>7 DEF Sending
<1>10. Answering(s)'
  <2>1. /\ DOMAIN answers'[s] = DOMAIN answers[s] \cup {Len(answers[s]) + 1}
        /\ \A k \in DOMAIN answers[s] : answers'[s][k] = answers[s][k]
        /\ answers'[s][Len(answers[s]) + 1] = a
    BY <1>3, <1>7, AppendIndexed
  <2>2. \A k \in DOMAIN answers'[s] : answers'[s][k].type # "ready" =>
          k = Len(answers[s]) + 1 /\ answers'[s][k].type = a.type
    BY <1>4, <2>1 DEF Owed
  <2>3. Waits(t, a.type)'
    BY <1>4, <1>8 DEF Waits
  <2>4. pool'[s].pid = t /\ ~Asks(t)' /\ ~Heard(t)'
    BY <1>2, <1>4, <1>6, <1>7, <1>8
  <2>5. QED
    BY <2>2, <2>3, <2>4 DEF Answering
<1>11. Covered(s)'
  <2>1. pool[s].out = <<c>>
    BY <1>3, <1>4
  <2>2. Count(<<c>>, {"run"}) = IF c.type = "run" THEN 1 ELSE 0
    BY CountOne
  <2>3. PICK q \in Seq(Answer) : q = answers[s]
    BY <1>3
  <2>4. /\ Count(q, {"ready", "error"}) \in Nat
        /\ Count(Append(q, a), {"ready", "error"}) =
             Count(q, {"ready", "error"}) + (IF a.type \in {"ready", "error"} THEN 1 ELSE 0)
    <3>1. \A z \in Seq(Answer), m \in Answer :
            /\ Count(z, {"ready", "error"}) \in Nat
            /\ Count(Append(z, m), {"ready", "error"}) =
                 Count(z, {"ready", "error"}) + (IF m.type \in {"ready", "error"} THEN 1 ELSE 0)
      BY CountAppend
    <3>2. QED
      BY <3>1
  <2>5. Count(<<>>, {"run"}) = 0 /\ pool[s].runs \in Nat
    BY <1>1, CountEmpty, Fields
  <2>6. Count(<<c>>, {"run"}) + Count(q, {"ready", "error"}) + (IF session[s].busy THEN 1 ELSE 0) <= pool[s].runs
    BY <2>1, <2>3 DEF EInv, Covered, Ongoing
  <2>7. Count(<<>>, {"run"}) + Count(Append(q, a), {"ready", "error"}) + (IF e.busy THEN 1 ELSE 0) <= pool[s].runs
    BY <2>2, <2>4, <2>5, <2>6
  <2>8. Count(pool'[s].out, {"run"}) + Count(answers'[s], {"ready", "error"})
        + (IF session'[s].busy THEN 1 ELSE 0) <= pool'[s].runs
    BY <1>6, <1>7, <2>3, <2>7
  <2>9. QED
    BY <2>8, OngoingNext
<1>12. Hearing(t)'
  <2>1. \A u, r : r \in Slaves => (Holds(u, r)' <=> Holds(u, r))
    BY <1>6, <1>7 DEF Holds
  <2>2. Hearing(t) /\ at' = at /\ inbox' = inbox
    BY <1>1, <1>4 DEF EInv
  <2>3. QED
    BY <1>8, <2>1, <2>2 DEF Hearing
<1>13. /\ pool'[s].pid = t /\ pool'[s].name = pool[s].name /\ pool'[s].open /\ pool'[s].reserved
       /\ pool'[s].runs <= pool[s].runs
  <2>1. pool[s].runs \in Nat
    BY <1>1, Fields
  <2>2. QED
    BY <1>2, <1>4, <1>6, <1>7, <2>1
<1>14. inbox' \in [Tests -> Seq(Notice)] /\ \A u : u # t => inbox'[u] = inbox[u]
  BY <1>1 DEF DataOK
<1>15. QED
  BY <1>2, <1>4, <1>7, <1>8, <1>9, <1>10, <1>11, <1>12, <1>13, <1>14, EFrame

LEMMA SlaveReadsKeeps == ASSUME EInv, NEW s \in Slaves, SlaveReads(s) PROVE EInv'
<1>1. /\ DataOK /\ pool[s].open /\ pool[s].out # <<>> /\ pool' = [pool EXCEPT ![s].out = Tail(@)]
      /\ UNCHANGED <<testVars, queue, inbox, lastId>>
  BY DEF EInv, SlaveReads
<1>2. PICK c : c = Head(pool[s].out)
  OBVIOUS
<1>3. session[s] \in Session /\ c \in Command /\ session \in [Slaves -> Session]
  <2>1. pool[s].out \in Seq(Command)
    BY <1>1, Fields
  <2>2. QED
    BY <1>1, <1>2, <2>1, Fields DEF DataOK
<1>4. c.id \in Nat /\ session[s].id \in Nat /\ session[s].cases \in Nat /\ session[s].busy \in BOOLEAN
  BY <1>3 DEF Command, Session, Id
<1>5. CASE c.type = "reserve" /\ session' = [session EXCEPT ![s].id = c.id] /\ Say(s, "reserve", c.id, 0)
  <2>1. PICK a, e : a = [type |-> "reserve", id |-> c.id, case |-> 0] /\ e = [session[s] EXCEPT !.id = c.id]
    OBVIOUS
  <2>2. a \in Answer /\ a.type = "reserve" /\ e \in Session /\ e.busy = session[s].busy
    BY <1>3, <1>4, <2>1 DEF Answer, Session, Id
  <2>3. session' = [session EXCEPT ![s] = e] /\ answers' = [answers EXCEPT ![s] = Append(@, a)]
    BY <1>5, <2>1 DEF Say
  <2>4. QED
    BY <1>1, <1>2, <1>5, <2>2, <2>3, Serving
<1>6. CASE c.type = "release" /\ session' = session /\ Say(s, "release", session[s].id, 0)
  <2>1. PICK a, e : a = [type |-> "release", id |-> session[s].id, case |-> 0] /\ e = session[s]
    OBVIOUS
  <2>2. a \in Answer /\ a.type = "release" /\ e \in Session /\ e.busy = session[s].busy
    BY <1>3, <1>4, <2>1 DEF Answer, Id
  <2>3. session' = [session EXCEPT ![s] = e] /\ answers' = [answers EXCEPT ![s] = Append(@, a)]
    BY <1>3, <1>6, <2>1 DEF Say
  <2>4. QED
    BY <1>1, <1>2, <1>6, <2>2, <2>3, Serving
<1>7. CASE StartCase(s, c)
  <2>1. PICK a, e : /\ a = [type |-> "started", id |-> session[s].id, case |-> session[s].cases + 1]
                    /\ e = [session[s] EXCEPT !.cases = @ + 1, !.busy = TRUE]
    OBVIOUS
  <2>2. a \in Answer /\ a.type = "started" /\ e \in Session /\ e.busy
    <3>1. session[s].cases + 1 \in Nat
      BY <1>4
    <3>2. a \in Answer /\ a.type = "started"
      BY <1>4, <2>1 DEF Answer, Id
    <3>3. e \in Session /\ e.busy
      BY <1>3, <2>1, <3>1 DEF Session
    <3>4. QED
      BY <3>2, <3>3
  <2>3. /\ c.type = "run" /\ ~session[s].busy
        /\ session' = [session EXCEPT ![s] = e] /\ answers' = [answers EXCEPT ![s] = Append(@, a)]
    BY <1>3, <1>7, <2>1 DEF StartCase, Say
  <2>4. QED
    BY <1>1, <1>2, <2>2, <2>3, Serving
<1>8. CASE RunFault(s, c)
  <2>1. PICK a, e : a = [type |-> "error", id |-> session[s].id, case |-> 0] /\ e = session[s]
    OBVIOUS
  <2>2. a \in Answer /\ a.type = "error" /\ e \in Session /\ e.busy = session[s].busy
    BY <1>3, <1>4, <2>1 DEF Answer, Id
  <2>3. /\ c.type = "run"
        /\ session' = [session EXCEPT ![s] = e] /\ answers' = [answers EXCEPT ![s] = Append(@, a)]
    BY <1>3, <1>8, <2>1 DEF RunFault, Say
  <2>4. QED
    BY <1>1, <1>2, <2>2, <2>3, Serving
<1>9. QED
  BY <1>2, <1>5, <1>6, <1>7, <1>8 DEF SlaveReads, Serve

(* A remote run ends, whoever has the slave.                               *)
LEMMA SlaveReadyKeeps == ASSUME EInv, NEW s \in Slaves, SlaveReady(s) PROVE EInv'
<1>1. DataOK /\ session[s].busy /\ UNCHANGED <<testVars, queue, inbox, pool, lastId>>
  BY DEF EInv, SlaveReady
<1>2. PICK t : t = pool[s].pid
  OBVIOUS
<1>3. /\ pool[s] \in Entry /\ session[s] \in Session /\ answers[s] \in Seq(Answer)
      /\ session[s].id \in Nat /\ session[s].cases \in Nat /\ session[s].busy = TRUE
  BY <1>1, Fields
<1>4. PICK a, e : /\ a = [type |-> "ready", id |-> session[s].id, case |-> session[s].cases]
                  /\ e = [session[s] EXCEPT !.busy = FALSE]
  OBVIOUS
<1>5. a \in Answer /\ a.type = "ready" /\ e \in Session /\ e.busy = FALSE
  BY <1>3, <1>4 DEF Answer, Session, Id
<1>6. /\ session'[s] = e /\ session' \in [Slaves -> Session]
      /\ answers'[s] = Append(answers[s], a) /\ answers' \in [Slaves -> Seq(Answer)]
      /\ \A r \in Slaves : r # s => pool'[r] = pool[r] /\ session'[r] = session[r] /\ answers'[r] = answers[r]
  <2>1. session' = [session EXCEPT ![s] = e] /\ answers' = [answers EXCEPT ![s] = Append(@, a)]
    BY <1>1, <1>4 DEF SlaveReady, Say, DataOK
  <2>2. Append(answers[s], a) \in Seq(Answer)
    BY <1>3, <1>5
  <2>3. QED
    BY <1>1, <1>5, <2>1, <2>2 DEF DataOK
<1>7. /\ DOMAIN answers'[s] = DOMAIN answers[s] \cup {Len(answers[s]) + 1}
      /\ \A k \in DOMAIN answers[s] : answers'[s][k] = answers[s][k]
      /\ answers'[s][Len(answers[s]) + 1] = a
  BY <1>3, <1>5, <1>6, AppendIndexed
<1>8. /\ UNCHANGED <<at, pending, queue, inbox, pool>> /\ (Owed(s)' <=> Owed(s))
      /\ (\A u : Asks(u)' <=> Asks(u)) /\ (\A u : Heard(u)' <=> Heard(u))
      /\ \A u, ty : Waits(u, ty)' <=> Waits(u, ty)
  <2>1. UNCHANGED <<at, pending, queue, inbox, pool>> /\ (Owed(s)' <=> Owed(s))
    BY <1>1, <1>5, <1>7 DEF testVars, Owed
  <2>2. QED
    BY <2>1 DEF Asks, Heard, Waits
<1>9. Placed(s) /\ Sending(s) /\ Answering(s) /\ Covered(s)
  BY DEF EInv
<1>10. Sending(s)'
  BY <1>8, <1>9 DEF Sending
<1>11. Answering(s)'
  <2>1. \A k \in DOMAIN answers'[s] : answers'[s][k].type # "ready" =>
          k \in DOMAIN answers[s] /\ answers'[s][k] = answers[s][k]
    BY <1>5, <1>7
  <2>2. QED
    BY <1>8, <1>9, <2>1 DEF Answering
<1>12. Covered(s)'
  <2>1. PICK q \in Seq(Answer) : q = answers[s]
    BY <1>3
  <2>2. /\ Count(q, {"ready", "error"}) \in Nat
        /\ Count(Append(q, a), {"ready", "error"}) = Count(q, {"ready", "error"}) + 1
    BY <1>5, CountAppend
  <2>3. Count(pool[s].out, {"run"}) \in Nat /\ pool[s].runs \in Nat
    <3>1. pool[s].out \in Seq(Command) /\ pool[s].runs \in Nat
      BY <1>1, Fields
    <3>2. QED
      BY <3>1, CountType
  <2>4. Count(pool[s].out, {"run"}) + Count(q, {"ready", "error"}) + 1 <= pool[s].runs
    BY <1>1, <1>9, <2>1 DEF Covered, Ongoing
  <2>5. Count(pool'[s].out, {"run"}) + Count(answers'[s], {"ready", "error"})
        + (IF session'[s].busy THEN 1 ELSE 0) <= pool'[s].runs
    <3>1. pool' = pool /\ answers'[s] = Append(q, a) /\ session'[s].busy = FALSE
      BY <1>5, <1>6, <1>8, <2>1
    <3>2. Count(pool[s].out, {"run"}) + Count(Append(q, a), {"ready", "error"}) + 0 <= pool[s].runs
      BY <2>2, <2>3, <2>4
    <3>3. QED
      BY <3>1, <3>2
  <2>6. QED
    BY <2>5, OngoingNext
<1>13. t \in Tests => Hearing(t)' /\ (Asks(t) => ~Heard(t)')
  <2>1. \A u, r : Holds(u, r)' <=> Holds(u, r)
    BY <1>8 DEF Holds
  <2>2. t \in Tests => Hearing(t)'
    BY <1>8, <2>1 DEF EInv, Hearing
  <2>3. Asks(t) => ~Heard(t)
    BY DEF Asks, EInv, Requested
  <2>4. QED
    BY <1>8, <2>2, <2>3
<1>14. pool'[s].runs <= pool[s].runs
  <2>1. pool[s].runs \in Nat
    BY <1>1, Fields
  <2>2. QED
    BY <1>8, <2>1
<1>15. /\ inbox' \in [Tests -> Seq(Notice)] /\ pool' \in [Slaves -> Entry]
       /\ \A u : u # t => inbox'[u] = inbox[u]
       /\ pool'[s].pid = t /\ pool'[s].name = pool[s].name
       /\ pool'[s].reserved => pool[s].reserved /\ pool'[s].open
       /\ ~pool'[s].reserved => pool'[s].out = <<>> /\ ~Owed(s)'
  BY <1>1, <1>2, <1>8, <1>9 DEF DataOK, Placed
<1>16. QED
  BY <1>1, <1>2, <1>6, <1>8, <1>10, <1>11, <1>12, <1>13, <1>14, <1>15, EFrame

(* The answer at the head of a connection, and what is left behind it.     *)
LEMMA AnswerTaken ==
  ASSUME EInv, NEW s \in Slaves, answers[s] # <<>>, NEW a, a = Head(answers[s]), NEW t, t = pool[s].pid
  PROVE  /\ a \in Answer /\ Tail(answers[s]) \in Seq(Answer)
         /\ \A k \in DOMAIN Tail(answers[s]) : \E j \in DOMAIN answers[s] :
              j = k + 1 /\ k \in Nat /\ Tail(answers[s])[k] = answers[s][j]
         /\ a.type # "ready" =>
              /\ pool[s].reserved /\ t \in Tests /\ pool[s].out = <<>>
              /\ ~Asks(t) /\ ~Heard(t) /\ Waits(t, a.type)
              /\ \A k \in DOMAIN Tail(answers[s]) : Tail(answers[s])[k].type = "ready"
         /\ pool[s].reserved => pool[s].open /\ t \in Tests
         /\ Count(pool[s].out, {"run"}) \in Nat /\ Count(Tail(answers[s]), {"ready", "error"}) \in Nat
         /\ Count(pool[s].out, {"run"}) + Count(Tail(answers[s]), {"ready", "error"})
            + (IF session[s].busy THEN 1 ELSE 0) + (IF a.type \in {"ready", "error"} THEN 1 ELSE 0)
            <= pool[s].runs
<1>1. DataOK /\ answers[s] \in Seq(Answer) /\ pool[s].out \in Seq(Command) /\ pool[s].runs \in Nat
  BY Fields DEF EInv
<1>2. Placed(s) /\ Sending(s) /\ Answering(s) /\ Covered(s)
  BY DEF EInv
<1>3. /\ Tail(answers[s]) \in Seq(Answer) /\ 1 \in DOMAIN answers[s] /\ a = answers[s][1] /\ a \in Answer
      /\ \A k \in DOMAIN Tail(answers[s]) :
           k \in Nat /\ k + 1 \in DOMAIN answers[s] /\ k + 1 # 1 /\ Tail(answers[s])[k] = answers[s][k + 1]
  BY <1>1, TailIndexed
<1>4. ASSUME a.type # "ready"
      PROVE  /\ pool[s].reserved /\ t \in Tests /\ pool[s].out = <<>>
             /\ ~Asks(t) /\ ~Heard(t) /\ Waits(t, a.type)
             /\ \A k \in DOMAIN Tail(answers[s]) : Tail(answers[s])[k].type = "ready"
  <2>1. Owed(s)
    BY <1>3, <1>4 DEF Owed
  <2>2. pool[s].reserved /\ t \in Tests
    BY <1>2, <2>1 DEF Placed
  <2>3. pool[s].out = <<>>
    BY <1>2, <2>1 DEF Sending
  <2>4. ~Asks(t) /\ ~Heard(t) /\ Waits(t, a.type) /\ \A k \in DOMAIN answers[s] : answers[s][k].type # "ready" => k = 1
    BY <1>2, <1>3, <1>4 DEF Answering
  <2>5. \A k \in DOMAIN Tail(answers[s]) : Tail(answers[s])[k].type = "ready"
    BY <1>3, <2>4
  <2>6. QED
    BY <2>2, <2>3, <2>4, <2>5
<1>5. /\ Count(Tail(answers[s]), {"ready", "error"}) \in Nat
      /\ Count(answers[s], {"ready", "error"}) = Count(Tail(answers[s]), {"ready", "error"})
           + (IF a.type \in {"ready", "error"} THEN 1 ELSE 0)
  BY <1>1, CountTail
<1>6. Count(pool[s].out, {"run"}) \in Nat
  BY <1>1, CountType
<1>7. Count(pool[s].out, {"run"}) + Count(answers[s], {"ready", "error"}) + (IF session[s].busy THEN 1 ELSE 0)
      <= pool[s].runs
  BY <1>2 DEF Covered, Ongoing
<1>8. pool[s].reserved => pool[s].open /\ t \in Tests
  BY <1>2 DEF Placed
<1>9. QED
  BY <1>1, <1>3, <1>4, <1>5, <1>6, <1>7, <1>8

(* At most one response is in an inbox.                                    *)
OneResponse(q) == \A j, k \in DOMAIN q : q[j].type = "response" /\ q[k].type = "response" => j = k

(* What the inbox of the test of a slave holds afterwards.                 *)
LEMMA InboxTold ==
  ASSUME EInv, at' = at, NEW s \in Slaves, NEW t \in Tests, t = pool[s].pid, NEW a \in Answer,
         NEW type \in {"response", "ready"}, NEW ok \in BOOLEAN, Tell(s, type, ok, a)
  PROVE  /\ inbox' \in [Tests -> Seq(Notice)] /\ \A u : u # t => inbox'[u] = inbox[u]
         /\ at[t] = "gone" => inbox'[t] = <<>>
         /\ type = "ready" => (Heard(t)' <=> Heard(t))
         /\ at[t] = "gone" => ~Heard(t)'
         /\ (Heard(t) => type = "ready") => OneResponse(inbox'[t])
<1>1. /\ inbox' \in [Tests -> Seq(Notice)] /\ \A u : u # t => inbox'[u] = inbox[u]
      /\ at[t] = "gone" => inbox'[t] = inbox[t]
      /\ at[t] # "gone" => \E n \in Notice :
           n.type = type /\ n.id = a.id /\ n.case = a.case /\ inbox'[t] = Append(inbox[t], n)
  BY TellFacts DEF EInv
<1>2. Hearing(t) /\ inbox[t] \in Seq(Notice)
  BY DEF EInv, DataOK
<1>3. CASE at[t] = "gone"
  <2>1. inbox'[t] = <<>> /\ inbox[t] = <<>>
    BY <1>1, <1>2, <1>3 DEF Hearing
  <2>2. ~Heard(t) /\ ~Heard(t)'
    BY <2>1 DEF Heard
  <2>3. QED
    BY <1>1, <2>1, <2>2 DEF OneResponse
<1>4. CASE at[t] # "gone"
  <2>1. PICK n \in Notice : n.type = type /\ inbox'[t] = Append(inbox[t], n)
    BY <1>1, <1>4
  <2>2. PICK l : l = Len(inbox[t]) + 1
    OBVIOUS
  <2>3. /\ DOMAIN inbox'[t] = DOMAIN inbox[t] \cup {l} /\ inbox'[t][l] = n
        /\ \A k \in DOMAIN inbox[t] : inbox'[t][k] = inbox[t][k]
    BY <1>2, <2>1, <2>2, AppendIndexed
  <2>4. type = "ready" => (Heard(t)' <=> Heard(t))
    BY <2>1, <2>3 DEF Heard
  <2>5. ASSUME Heard(t) => type = "ready", NEW j \in DOMAIN inbox'[t], NEW k \in DOMAIN inbox'[t],
               inbox'[t][j].type = "response", inbox'[t][k].type = "response"
        PROVE  j = k
    <3>1. CASE type = "ready"
      BY <1>2, <2>1, <2>3, <2>5, <3>1 DEF Hearing
    <3>2. CASE ~Heard(t)
      BY <2>3, <2>5, <3>2 DEF Heard
    <3>3. QED
      BY <2>5, <3>1, <3>2
  <2>6. QED
    BY <1>1, <1>4, <2>4, <2>5 DEF OneResponse
<1>5. QED
  BY <1>3, <1>4

(* A test is told what it waits for, and keeps its slave.                  *)
LEMMA Telling ==
  ASSUME EInv, NEW s \in Slaves, answers[s] # <<>>, NEW a, a = Head(answers[s]),
         a.type \in {"reserve", "started", "error"}, NEW ok \in BOOLEAN, Tell(s, "response", ok, a),
         NEW e \in Entry, e.open, e.reserved, e.name = pool[s].name, e.pid = pool[s].pid, e.out = pool[s].out,
         pool[s].runs = e.runs + (IF a.type = "error" THEN 1 ELSE 0),
         pool' = [pool EXCEPT ![s] = e], answers' = [answers EXCEPT ![s] = Tail(@)],
         UNCHANGED <<testVars, queue, lastId, session>>
  PROVE  EInv'
<1>1. DataOK /\ UNCHANGED <<at, pending, queue, session>>
  BY DEF EInv, testVars
<1>2. PICK t : t = pool[s].pid
  OBVIOUS
<1>3. /\ a \in Answer /\ Tail(answers[s]) \in Seq(Answer)
      /\ pool[s].reserved /\ t \in Tests /\ pool[s].out = <<>> /\ ~Asks(t) /\ ~Heard(t) /\ Waits(t, a.type)
      /\ \A k \in DOMAIN Tail(answers[s]) : Tail(answers[s])[k].type = "ready"
      /\ Count(pool[s].out, {"run"}) \in Nat /\ Count(Tail(answers[s]), {"ready", "error"}) \in Nat
      /\ Count(pool[s].out, {"run"}) + Count(Tail(answers[s]), {"ready", "error"})
         + (IF session[s].busy THEN 1 ELSE 0) + (IF a.type \in {"ready", "error"} THEN 1 ELSE 0)
         <= pool[s].runs
  <2>1. a.type # "ready"
    OBVIOUS
  <2>2. QED
    BY <1>2, <2>1, AnswerTaken
<1>4. /\ inbox' \in [Tests -> Seq(Notice)] /\ \A u : u # t => inbox'[u] = inbox[u]
      /\ at[t] = "gone" => inbox'[t] = <<>> /\ ~Heard(t)'
      /\ \A j, k \in DOMAIN inbox'[t] :
           inbox'[t][j].type = "response" /\ inbox'[t][k].type = "response" => j = k
  <2>1. PICK type \in {"response", "ready"} : type = "response"
    OBVIOUS
  <2>2. /\ at' = at /\ t \in Tests /\ t = pool[s].pid /\ a \in Answer /\ ok \in BOOLEAN
        /\ ~Heard(t) /\ Tell(s, type, ok, a)
    BY <1>1, <1>2, <1>3, <2>1
  <2>3. inbox' \in [Tests -> Seq(Notice)] /\ \A u : u # t => inbox'[u] = inbox[u]
    BY <2>2, InboxTold
  <2>4. at[t] = "gone" => inbox'[t] = <<>> /\ ~Heard(t)'
    BY <2>2, InboxTold
  <2>5. type = "ready" => (Heard(t)' <=> Heard(t))
    BY <2>2, InboxTold
  <2>6. OneResponse(inbox'[t])
    BY <2>2, InboxTold
  <2>7. QED
    BY <2>2, <2>3, <2>4, <2>5, <2>6 DEF OneResponse
<1>5. /\ pool'[s] = e /\ pool' \in [Slaves -> Entry]
      /\ session' \in [Slaves -> Session]
      /\ answers'[s] = Tail(answers[s]) /\ answers' \in [Slaves -> Seq(Answer)]
      /\ \A r \in Slaves : r # s => pool'[r] = pool[r] /\ session'[r] = session[r] /\ answers'[r] = answers[r]
  BY <1>1, <1>3 DEF DataOK
<1>6. pool[s].runs \in Nat /\ e.runs \in Nat /\ e.runs <= pool[s].runs
  <2>1. pool[s].runs \in Nat /\ e.runs \in Nat
    BY <1>1, Fields DEF Entry
  <2>2. QED
    BY <2>1
<1>7. Sending(s)' /\ Answering(s)'
  BY <1>3, <1>5 DEF Sending, Answering
<1>8. Covered(s)'
  <2>1. Count(pool[s].out, {"run"}) + Count(Tail(answers[s]), {"ready", "error"})
        + (IF session[s].busy THEN 1 ELSE 0) <= e.runs
    BY <1>3, <1>6
  <2>2. Count(pool'[s].out, {"run"}) + Count(answers'[s], {"ready", "error"})
        + (IF session'[s].busy THEN 1 ELSE 0) <= pool'[s].runs
    BY <1>1, <1>5, <2>1
  <2>3. QED
    BY <2>2, OngoingNext
<1>9. Hearing(t)'
  <2>1. at' = at /\ at[t] \in {"allocating", "starting", "gone"}
    BY <1>1, <1>3 DEF Waits
  <2>2. Holds(t, s)'
    BY <1>2, <1>5 DEF Holds
  <2>3. CASE at[t] = "gone"
    BY <1>4, <2>1, <2>3 DEF Hearing, Heard
  <2>4. CASE at[t] \in {"allocating", "starting"}
    BY <1>4, <2>1, <2>2, <2>4 DEF Hearing, Blocked
  <2>5. QED
    BY <2>1, <2>3, <2>4
<1>10. QED
  BY <1>2, <1>3, <1>4, <1>5, <1>6, <1>7, <1>8, <1>9, EFrame

(* A test is told of the end of a remote run, and keeps its slave.         *)
LEMMA Ending ==
  ASSUME EInv, NEW s \in Slaves, pool[s].reserved, answers[s] # <<>>, NEW a, a = Head(answers[s]),
         a.type = "ready", NEW ok \in BOOLEAN, Tell(s, "ready", ok, a),
         NEW e \in Entry, e.open, e.reserved, e.name = pool[s].name, e.pid = pool[s].pid, e.out = pool[s].out,
         pool[s].runs = e.runs + 1,
         pool' = [pool EXCEPT ![s] = e], answers' = [answers EXCEPT ![s] = Tail(@)],
         UNCHANGED <<testVars, queue, lastId, session>>
  PROVE  EInv'
<1>1. DataOK /\ UNCHANGED <<at, pending, queue, session>>
  BY DEF EInv, testVars
<1>2. PICK t : t = pool[s].pid
  OBVIOUS
<1>3. /\ a \in Answer /\ Tail(answers[s]) \in Seq(Answer) /\ t \in Tests
      /\ \A k \in DOMAIN Tail(answers[s]) : \E j \in DOMAIN answers[s] :
           j = k + 1 /\ k \in Nat /\ Tail(answers[s])[k] = answers[s][j]
      /\ Count(pool[s].out, {"run"}) \in Nat /\ Count(Tail(answers[s]), {"ready", "error"}) \in Nat
      /\ Count(pool[s].out, {"run"}) + Count(Tail(answers[s]), {"ready", "error"})
         + (IF session[s].busy THEN 1 ELSE 0) + (IF a.type \in {"ready", "error"} THEN 1 ELSE 0)
         <= pool[s].runs
  BY <1>2, AnswerTaken
<1>4. /\ inbox' \in [Tests -> Seq(Notice)] /\ \A u : u # t => inbox'[u] = inbox[u]
      /\ at[t] = "gone" => inbox'[t] = <<>>
      /\ Heard(t)' <=> Heard(t)
      /\ \A j, k \in DOMAIN inbox'[t] :
           inbox'[t][j].type = "response" /\ inbox'[t][k].type = "response" => j = k
  <2>1. PICK type \in {"response", "ready"} : type = "ready"
    OBVIOUS
  <2>2. /\ at' = at /\ t \in Tests /\ t = pool[s].pid /\ a \in Answer /\ ok \in BOOLEAN
        /\ type = "ready" /\ Tell(s, type, ok, a)
    BY <1>1, <1>2, <1>3, <2>1
  <2>3. inbox' \in [Tests -> Seq(Notice)] /\ \A u : u # t => inbox'[u] = inbox[u]
    BY <2>2, InboxTold
  <2>4. at[t] = "gone" => inbox'[t] = <<>> /\ ~Heard(t)'
    BY <2>2, InboxTold
  <2>5. type = "ready" => (Heard(t)' <=> Heard(t))
    BY <2>2, InboxTold
  <2>6. OneResponse(inbox'[t])
    BY <2>2, InboxTold
  <2>7. QED
    BY <2>2, <2>3, <2>4, <2>5, <2>6 DEF OneResponse
<1>5. /\ pool'[s] = e /\ pool' \in [Slaves -> Entry]
      /\ session' \in [Slaves -> Session]
      /\ answers'[s] = Tail(answers[s]) /\ answers' \in [Slaves -> Seq(Answer)]
      /\ \A r \in Slaves : r # s => pool'[r] = pool[r] /\ session'[r] = session[r] /\ answers'[r] = answers[r]
  BY <1>1, <1>3 DEF DataOK
<1>6. pool[s].runs \in Nat /\ e.runs \in Nat /\ e.runs <= pool[s].runs
  <2>1. pool[s].runs \in Nat /\ e.runs \in Nat
    BY <1>1, Fields DEF Entry
  <2>2. QED
    BY <2>1
<1>7. /\ \A u : Asks(u)' <=> Asks(u)
      /\ \A u, ty : Waits(u, ty)' <=> Waits(u, ty)
      /\ Owed(s)' => Owed(s)
      /\ \A u, r : r \in Slaves => (Holds(u, r)' <=> Holds(u, r))
  <2>1. Owed(s)' => Owed(s)
    BY <1>3, <1>5 DEF Owed
  <2>2. \A u, r : r \in Slaves => (Holds(u, r)' <=> Holds(u, r))
    BY <1>5 DEF Holds
  <2>3. QED
    BY <1>1, <2>1, <2>2 DEF Asks, Waits
<1>8. Sending(s)'
  <2>1. Sending(s)
    BY DEF EInv
  <2>2. QED
    BY <1>2, <1>4, <1>5, <1>7, <2>1 DEF Sending
<1>9. Answering(s)'
  <2>1. ASSUME NEW k \in DOMAIN answers'[s], answers'[s][k].type # "ready"
        PROVE  /\ \A j \in DOMAIN answers'[s] : answers'[s][j].type # "ready" => j = k
               /\ ~Asks(t) /\ ~Heard(t) /\ Waits(t, answers'[s][k].type)
    <3>1. PICK i \in DOMAIN answers[s] : i = k + 1 /\ k \in Nat /\ answers'[s][k] = answers[s][i]
      BY <1>3, <1>5
    <3>2. /\ \A j \in DOMAIN answers[s] : answers[s][j].type # "ready" => j = i
          /\ ~Asks(t) /\ ~Heard(t) /\ Waits(t, answers[s][i].type)
      BY <1>2, <2>1, <3>1 DEF EInv, Answering
    <3>3. ASSUME NEW j \in DOMAIN answers'[s], answers'[s][j].type # "ready" PROVE j = k
      <4>1. PICK l \in DOMAIN answers[s] : l = j + 1 /\ j \in Nat /\ answers'[s][j] = answers[s][l]
        BY <1>3, <1>5
      <4>2. l = i
        BY <3>2, <3>3, <4>1
      <4>3. QED
        BY <3>1, <4>1, <4>2
    <3>4. QED
      BY <3>1, <3>2, <3>3
  <2>2. QED
    BY <1>2, <1>4, <1>5, <1>7, <2>1 DEF Answering
<1>10. Covered(s)'
  <2>1. Count(pool[s].out, {"run"}) + Count(Tail(answers[s]), {"ready", "error"})
        + (IF session[s].busy THEN 1 ELSE 0) <= e.runs
    BY <1>3, <1>6
  <2>2. Count(pool'[s].out, {"run"}) + Count(answers'[s], {"ready", "error"})
        + (IF session'[s].busy THEN 1 ELSE 0) <= pool'[s].runs
    BY <1>1, <1>5, <2>1
  <2>3. QED
    BY <2>2, OngoingNext
<1>11. Hearing(t)'
  <2>1. Hearing(t) /\ at' = at
    BY <1>1, <1>3 DEF EInv
  <2>2. QED
    BY <1>4, <1>7, <2>1 DEF Hearing
<1>12. Asks(t) => ~Heard(t)'
  <2>1. Asks(t) => ~Heard(t)
    BY DEF Asks, EInv, Requested
  <2>2. QED
    BY <1>4, <2>1
<1>13. QED
  BY <1>2, <1>3, <1>4, <1>5, <1>6, <1>8, <1>9, <1>10, <1>11, <1>12, EFrame

(* The connection of an entry is closed, or the entry is free from now on  *)
(* although something still runs there.                                    *)
LEMMA Freeing ==
  ASSUME EInv, NEW s \in Slaves, answers[s] # <<>>, NEW a, a = Head(answers[s]), NEW t, t = pool[s].pid,
         a.type = "release" \/ ~pool[s].reserved,
         NEW type \in {"response", "ready"}, type = "response" <=> a.type = "release",
         NEW ok \in BOOLEAN, Tell(s, type, ok, a),
         NEW e \in Entry, ~e.reserved, e.name = pool[s].name \/ e.name = Nobody, e.pid = pool[s].pid,
         e.out = pool[s].out, e.runs = pool[s].runs, pool' = [pool EXCEPT ![s] = e],
         \/ Close(s)
         \/ a.type = "release" /\ answers' = [answers EXCEPT ![s] = Tail(@)] /\ session' = session,
         UNCHANGED <<testVars, queue, lastId>>
  PROVE  EInv'
<1>1. DataOK /\ UNCHANGED <<at, pending, queue>>
  BY DEF EInv, testVars
<1>2. /\ a \in Answer /\ Tail(answers[s]) \in Seq(Answer)
      /\ a.type # "ready" =>
           /\ pool[s].reserved /\ t \in Tests /\ pool[s].out = <<>>
           /\ ~Asks(t) /\ ~Heard(t) /\ Waits(t, a.type)
           /\ \A k \in DOMAIN Tail(answers[s]) : Tail(answers[s])[k].type = "ready"
      /\ Count(pool[s].out, {"run"}) \in Nat /\ Count(Tail(answers[s]), {"ready", "error"}) \in Nat
      /\ Count(pool[s].out, {"run"}) + Count(Tail(answers[s]), {"ready", "error"})
         + (IF session[s].busy THEN 1 ELSE 0) + (IF a.type \in {"ready", "error"} THEN 1 ELSE 0)
         <= pool[s].runs
  BY AnswerTaken
<1>3. pool[s].out = <<>> /\ (a.type = "release" => pool[s].reserved) /\ pool[s].runs \in Nat
  <2>1. pool[s].runs \in Nat /\ Placed(s)
    BY <1>1, Fields DEF EInv
  <2>2. QED
    BY <1>2, <2>1 DEF Placed
<1>4. /\ inbox' \in [Tests -> Seq(Notice)] /\ \A u : u # t => inbox'[u] = inbox[u]
      /\ t \in Tests => /\ at[t] = "gone" => inbox'[t] = <<>> /\ ~Heard(t)'
                        /\ type = "ready" => (Heard(t)' <=> Heard(t))
                        /\ OneResponse(inbox'[t])
      /\ t \notin Tests => inbox' = inbox
  <2>1. CASE t \in Tests
    <3>1. at' = at /\ t = pool[s].pid /\ (Heard(t) => type = "ready")
      BY <1>1, <1>2
    <3>2. inbox' \in [Tests -> Seq(Notice)] /\ \A u : u # t => inbox'[u] = inbox[u]
      BY <1>2, <2>1, <3>1, InboxTold
    <3>3. at[t] = "gone" => inbox'[t] = <<>> /\ ~Heard(t)'
      BY <1>2, <2>1, <3>1, InboxTold
    <3>4. type = "ready" => (Heard(t)' <=> Heard(t))
      BY <1>2, <2>1, <3>1, InboxTold
    <3>5. OneResponse(inbox'[t])
      BY <1>2, <2>1, <3>1, InboxTold
    <3>6. QED
      BY <2>1, <3>2, <3>3, <3>4, <3>5
  <2>2. CASE t \notin Tests
    <3>1. t = Nobody
      BY <1>1, <2>2, Fields
    <3>2. inbox' = inbox
      BY <3>1 DEF Tell
    <3>3. QED
      BY <1>1, <2>2, <3>2 DEF DataOK
  <2>3. QED
    BY <2>1, <2>2
<1>5. /\ pool'[s] = e /\ pool' \in [Slaves -> Entry]
      /\ session' \in [Slaves -> Session] /\ answers' \in [Slaves -> Seq(Answer)]
      /\ \A r \in Slaves : r # s => pool'[r] = pool[r] /\ session'[r] = session[r] /\ answers'[r] = answers[r]
      /\ \/ answers'[s] = <<>> /\ session'[s] = Unconnected
         \/ a.type = "release" /\ answers'[s] = Tail(answers[s]) /\ session'[s] = session[s]
  <2>1. Unconnected \in Session /\ <<>> \in Seq(Answer)
    BY DEF Unconnected, Session, Id
  <2>2. CASE Close(s)
    BY <1>1, <2>1, <2>2 DEF Close, DataOK
  <2>3. CASE a.type = "release" /\ answers' = [answers EXCEPT ![s] = Tail(@)] /\ session' = session
    BY <1>1, <1>2, <2>3 DEF DataOK
  <2>4. QED
    BY <2>2, <2>3
<1>6. \A k \in DOMAIN answers'[s] : answers'[s][k].type = "ready"
  <2>1. CASE answers'[s] = <<>>
    BY <2>1
  <2>2. CASE a.type = "release" /\ answers'[s] = Tail(answers[s])
    <3>1. \A k \in DOMAIN Tail(answers[s]) : Tail(answers[s])[k].type = "ready"
      BY <1>2, <2>2
    <3>2. QED
      BY <2>2, <3>1
  <2>3. QED
    BY <1>5, <2>1, <2>2
<1>7. Sending(s)' /\ Answering(s)' /\ ~Owed(s)' /\ pool'[s].out = <<>>
  BY <1>3, <1>5, <1>6 DEF Sending, Answering, Owed
<1>8. Covered(s)'
  <2>1. Count(<<>>, {"run"}) = 0 /\ Count(<<>>, {"ready", "error"}) = 0
    BY CountEmpty
  <2>2. Count(pool'[s].out, {"run"}) + Count(answers'[s], {"ready", "error"})
        + (IF session'[s].busy THEN 1 ELSE 0) <= pool'[s].runs
    <3>1. CASE answers'[s] = <<>> /\ session'[s] = Unconnected
      <4>1. session'[s].busy = FALSE /\ pool'[s].runs = pool[s].runs /\ 0 <= pool[s].runs
        BY <1>3, <1>5, <3>1 DEF Unconnected
      <4>2. QED
        BY <1>7, <2>1, <3>1, <4>1
    <3>2. CASE a.type = "release" /\ answers'[s] = Tail(answers[s]) /\ session'[s] = session[s]
      <4>1. Count(pool[s].out, {"run"}) + Count(Tail(answers[s]), {"ready", "error"})
            + (IF session[s].busy THEN 1 ELSE 0) <= pool[s].runs
        BY <1>2, <1>3, <3>2
      <4>2. QED
        BY <1>5, <3>2, <4>1
    <3>3. QED
      BY <1>5, <3>1, <3>2
  <2>3. QED
    BY <2>2, OngoingNext
<1>9. ASSUME t \in Tests PROVE Hearing(t)' /\ (Asks(t) => ~Heard(t)')
  <2>1. Hearing(t) /\ at' = at /\ (Asks(t) => ~Heard(t))
    BY <1>1, <1>9 DEF EInv, Requested, Asks
  <2>2. \A r \in Slaves : Holds(t, r)' <=> Holds(t, r) /\ r # s
    BY <1>5 DEF Holds
  <2>3. CASE a.type = "release"
    <3>1. at[t] \in {"freeing", "gone"} /\ ~Asks(t)
      BY <1>2, <2>3 DEF Waits
    <3>2. \A r \in Slaves : ~Holds(t, r)'
      <4>1. Holds(t, s)
        BY <1>3, <2>3 DEF Holds
      <4>2. QED
        BY <2>2, <4>1, OneHeld
    <3>3. CASE at[t] = "gone"
      BY <1>4, <1>9, <2>1, <3>1, <3>3 DEF Hearing, OneResponse
    <3>4. CASE at[t] = "freeing"
      BY <1>4, <1>9, <2>1, <3>1, <3>2, <3>4 DEF Hearing, OneResponse, Blocked
    <3>5. QED
      BY <3>1, <3>3, <3>4
  <2>4. CASE a.type # "release"
    <3>1. type = "ready" /\ ~pool[s].reserved
      BY <2>4
    <3>2. (Heard(t)' <=> Heard(t)) /\ \A r \in Slaves : Holds(t, r)' <=> Holds(t, r)
      BY <1>4, <1>9, <2>2, <3>1 DEF Holds
    <3>3. QED
      BY <1>4, <1>9, <2>1, <3>2 DEF Hearing, OneResponse
  <2>5. QED
    BY <2>3, <2>4
<1>10. pool[s].reserved => ~Asks(t)
  BY <1>2
<1>11. ~pool[s].reserved => (Heard(t)' => Heard(t))
  <2>1. ~pool[s].reserved => type = "ready"
    BY <1>3
  <2>2. t \notin Tests => (Heard(t)' => Heard(t))
    BY <1>4 DEF Heard
  <2>3. QED
    BY <1>4, <2>1, <2>2
<1>12. /\ pool'[s].pid = t /\ (pool'[s].name = pool[s].name \/ pool'[s].name = Nobody)
       /\ ~pool'[s].reserved /\ pool'[s].runs <= pool[s].runs
  BY <1>3, <1>5
<1>13. QED
  BY <1>4, <1>5, <1>7, <1>8, <1>9, <1>10, <1>11, <1>12, EFrame

LEMMA SocketReadsKeeps == ASSUME EInv, NEW s \in Slaves, SocketReads(s) PROVE EInv'
<1>1. /\ DataOK /\ pool[s].open /\ answers[s] # <<>> /\ UNCHANGED <<testVars, queue, lastId>>
      /\ pool[s] \in Entry /\ pool[s].open = TRUE /\ pool[s].reserved \in BOOLEAN
  <2>1. DataOK /\ pool[s].open
    BY DEF EInv, SocketReads
  <2>2. QED
    BY <2>1, Fields DEF SocketReads
<1>2. PICK a, t : a = Head(answers[s]) /\ t = pool[s].pid
  OBVIOUS
<1>3. /\ a \in Answer /\ (a.type # "ready" => pool[s].reserved)
      /\ a.type \in {"ready", "error"} => pool[s].runs \in Nat /\ pool[s].runs >= 1
  <2>1. /\ a \in Answer /\ (a.type # "ready" => pool[s].reserved)
        /\ Count(pool[s].out, {"run"}) \in Nat /\ Count(Tail(answers[s]), {"ready", "error"}) \in Nat
        /\ Count(pool[s].out, {"run"}) + Count(Tail(answers[s]), {"ready", "error"})
           + (IF session[s].busy THEN 1 ELSE 0) + (IF a.type \in {"ready", "error"} THEN 1 ELSE 0)
           <= pool[s].runs
    BY <1>1, <1>2, AnswerTaken
  <2>2. pool[s].runs \in Nat
    BY <1>1, Fields
  <2>3. QED
    BY <2>1, <2>2
<1>4. CASE HearReserve(s, a)
  <2>1. PICK e : e = [pool[s] EXCEPT !.id = a.id, !.reserved = TRUE]
    OBVIOUS
  <2>2. /\ e \in Entry /\ e.open /\ e.reserved /\ e.name = pool[s].name
        /\ e.pid = pool[s].pid /\ e.out = pool[s].out /\ e.runs = pool[s].runs
    <3>1. a.id \in Id
      BY <1>3 DEF Answer
    <3>2. e \in Entry
      BY <1>1, <2>1, <3>1 DEF Entry
    <3>3. e.open /\ e.reserved /\ e.name = pool[s].name
      BY <1>1, <2>1 DEF Entry
    <3>4. e.pid = pool[s].pid /\ e.out = pool[s].out /\ e.runs = pool[s].runs
      BY <1>1, <2>1 DEF Entry
    <3>5. QED
      BY <3>2, <3>3, <3>4
  <2>3. PICK ok \in BOOLEAN : Tell(s, "response", ok, a)
    BY <1>4 DEF HearReserve
  <2>4. /\ a.type = "reserve" /\ pool' = [pool EXCEPT ![s] = e] /\ answers' = [answers EXCEPT ![s] = Tail(@)]
        /\ UNCHANGED <<testVars, queue, lastId, session>>
    BY <1>1, <1>4, <2>1 DEF HearReserve, Keep
  <2>5. pool[s].runs = e.runs + (IF a.type = "error" THEN 1 ELSE 0)
    BY <1>1, <2>2, <2>4, PoolAssumption DEF Entry
  <2>6. QED
    BY <1>1, <1>2, <2>2, <2>3, <2>4, <2>5, Telling
<1>5. CASE HearStarted(s, a)
  <2>1. PICK e : e = pool[s]
    OBVIOUS
  <2>2. PICK ok \in BOOLEAN : Tell(s, "response", ok, a)
    BY <1>5 DEF HearStarted
  <2>3. /\ a.type = "started" /\ pool' = [pool EXCEPT ![s] = e] /\ answers' = [answers EXCEPT ![s] = Tail(@)]
        /\ UNCHANGED <<testVars, queue, lastId, session>>
    BY <1>1, <1>5, <2>1 DEF HearStarted, Keep
  <2>4. pool[s].runs = e.runs + (IF a.type = "error" THEN 1 ELSE 0)
    BY <1>1, <2>1, <2>3, PoolAssumption DEF Entry
  <2>5. pool[s].reserved
    BY <1>3, <2>3
  <2>6. QED
    BY <1>1, <1>2, <2>1, <2>2, <2>3, <2>4, <2>5, Telling
<1>6. CASE HearEnd(s, a) /\ pool[s].reserved
  <2>1. PICK e : e = [pool[s] EXCEPT !.runs = @ - 1]
    OBVIOUS
  <2>2. /\ a.type \in {"ready", "error"}
        /\ pool' = [pool EXCEPT ![s] = e] /\ answers' = [answers EXCEPT ![s] = Tail(@)]
        /\ UNCHANGED <<testVars, queue, lastId, session>>
    BY <1>1, <1>6, <2>1 DEF HearEnd, Keep
  <2>3. pool[s].runs - 1 \in 0..MaxRuns /\ pool[s].runs = (pool[s].runs - 1) + 1
    <3>1. pool[s].runs \in Nat /\ pool[s].runs <= MaxRuns
      BY <1>1, Fields
    <3>2. QED
      BY <1>3, <2>2, <3>1, PoolAssumption
  <2>4. /\ e \in Entry /\ e.open /\ e.reserved /\ e.name = pool[s].name
        /\ e.pid = pool[s].pid /\ e.out = pool[s].out /\ pool[s].runs = e.runs + 1
    <3>1. e \in Entry
      BY <1>1, <2>1, <2>3 DEF Entry
    <3>2. e.open /\ e.reserved /\ e.name = pool[s].name
      BY <1>1, <1>6, <2>1 DEF Entry
    <3>3. e.pid = pool[s].pid /\ e.out = pool[s].out /\ pool[s].runs = e.runs + 1
      BY <1>1, <2>1, <2>3 DEF Entry
    <3>4. QED
      BY <3>1, <3>2, <3>3
  <2>5. CASE a.type = "ready"
    <3>1. PICK ok \in BOOLEAN : Tell(s, "ready", ok, a)
      BY <1>6, <2>5 DEF HearEnd
    <3>2. QED
      BY <1>1, <1>2, <1>6, <2>2, <2>4, <2>5, <3>1, Ending
  <2>6. CASE a.type = "error"
    <3>1. PICK ok \in BOOLEAN : Tell(s, "response", ok, a)
      BY <1>6, <2>6 DEF HearEnd
    <3>2. pool[s].runs = e.runs + (IF a.type = "error" THEN 1 ELSE 0)
      BY <2>4, <2>6
    <3>3. QED
      BY <1>1, <1>2, <2>2, <2>4, <2>6, <3>1, <3>2, Telling
  <2>7. QED
    BY <2>2, <2>5, <2>6
<1>7. CASE HearEnd(s, a) /\ ~pool[s].reserved
  <2>1. PICK e, type : e = [pool[s] EXCEPT !.open = FALSE, !.reserved = FALSE, !.name = Nobody] /\ type = "ready"
    OBVIOUS
  <2>2. /\ e \in Entry /\ ~e.reserved /\ e.name = Nobody
        /\ e.pid = pool[s].pid /\ e.out = pool[s].out /\ e.runs = pool[s].runs
    BY <1>1, <2>1 DEF Entry
  <2>3. a.type = "ready" /\ Close(s) /\ pool' = [pool EXCEPT ![s] = e]
    BY <1>1, <1>3, <1>7, <2>1 DEF HearEnd, Close, DataOK
  <2>4. PICK ok \in BOOLEAN : Tell(s, type, ok, a)
    BY <1>7, <2>1, <2>3 DEF HearEnd
  <2>5. type \in {"response", "ready"} /\ (type = "response" <=> a.type = "release")
    BY <2>1, <2>3
  <2>6. QED
    BY <1>1, <1>2, <1>7, <2>2, <2>3, <2>4, <2>5, Freeing
<1>8. CASE HearRelease(s, a)
  <2>1. PICK ok, type : ok \in BOOLEAN /\ type = "response" /\ Tell(s, type, ok, a)
    BY <1>8 DEF HearRelease
  <2>2. a.type = "release" /\ type \in {"response", "ready"} /\ (type = "response" <=> a.type = "release")
    BY <1>8, <2>1 DEF HearRelease
  <2>3. CASE pool[s].runs = 0
    <3>1. PICK e : e = [pool[s] EXCEPT !.open = FALSE, !.reserved = FALSE, !.name = Nobody]
      OBVIOUS
    <3>2. /\ e \in Entry /\ ~e.reserved /\ e.name = Nobody
          /\ e.pid = pool[s].pid /\ e.out = pool[s].out /\ e.runs = pool[s].runs
      BY <1>1, <3>1 DEF Entry
    <3>3. Close(s) /\ pool' = [pool EXCEPT ![s] = e]
      BY <1>1, <1>8, <2>3, <3>1 DEF HearRelease, Close, DataOK
    <3>4. QED
      BY <1>1, <1>2, <2>1, <2>2, <3>2, <3>3, Freeing
  <2>4. CASE pool[s].runs # 0
    <3>1. PICK e : e = [pool[s] EXCEPT !.reserved = FALSE]
      OBVIOUS
    <3>2. /\ e \in Entry /\ ~e.reserved /\ e.name = pool[s].name
          /\ e.pid = pool[s].pid /\ e.out = pool[s].out /\ e.runs = pool[s].runs
      BY <1>1, <3>1 DEF Entry
    <3>3. pool' = [pool EXCEPT ![s] = e] /\ answers' = [answers EXCEPT ![s] = Tail(@)] /\ session' = session
      BY <1>8, <2>4, <3>1 DEF HearRelease, Keep
    <3>4. QED
      BY <1>1, <1>2, <2>1, <2>2, <3>2, <3>3, Freeing
  <2>5. QED
    BY <2>3, <2>4
<1>9. QED
  BY <1>2, <1>4, <1>5, <1>6, <1>7, <1>8 DEF SocketReads

LEMMA StutterKeeps == EInv /\ UNCHANGED vars => EInv'
<1> SUFFICES ASSUME EInv, UNCHANGED vars PROVE EInv'
  OBVIOUS
<1>1. UNCHANGED <<at, allocs, started, pending, queue, inbox, pool, lastId, session, answers>>
  BY DEF vars, testVars
<1>2. DataOK'
  BY <1>1 DEF EInv, DataOK
<1>3. Requested(queue)' /\ \A t \in Tests : Hearing(t)'
  BY <1>1 DEF EInv, Requested, Hearing, Heard, Waits, Holds
<1>4. \A s \in Slaves : Placed(s)' /\ Sending(s)' /\ Answering(s)'
  BY <1>1 DEF EInv, Placed, Sending, Answering, Asks, Heard, Waits, Owed
<1>5. (\A s \in Slaves : Covered(s)') /\ BoundInv'
  BY <1>1 DEF EInv, Covered, Ongoing, BoundInv, Count
<1>6. QED
  BY <1>2, <1>3, <1>4, <1>5 DEF EInv

LEMMA NextKeeps == ASSUME EInv, ~OneName, [Next]_vars PROVE EInv'
<1>1. allocs \in 0..MaxAllocs /\ started \in 0..MaxRuns /\ MaxAllocs \in Nat /\ MaxRuns \in Nat
  BY PoolAssumption DEF EInv, DataOK
<1>2. ASSUME NEW t \in Tests, Allocate(t) PROVE EInv'
  <2>1. PICK type, where : type = "allocate" /\ where = "allocating"
    OBVIOUS
  <2>2. /\ Ask(t, type, where) /\ at[t] = "idle" /\ started' = started
        /\ allocs' \in 0..MaxAllocs /\ started' \in 0..MaxRuns
    BY <1>1, <1>2, <2>1 DEF Allocate
  <2>3. QED
    BY <2>1, <2>2, Asking
<1>3. ASSUME NEW t \in Tests, Run(t) PROVE EInv'
  <2>1. PICK type, where : type = "run" /\ where = "starting"
    OBVIOUS
  <2>2. /\ Ask(t, type, where) /\ at[t] = "holding" /\ started' = started + 1
        /\ allocs' \in 0..MaxAllocs /\ started' \in 0..MaxRuns
    BY <1>1, <1>3, <2>1 DEF Run
  <2>3. QED
    BY <2>1, <2>2, Asking
<1>4. ASSUME NEW t \in Tests, Free(t) PROVE EInv'
  <2>1. PICK type, where : type = "free" /\ where = "freeing"
    OBVIOUS
  <2>2. /\ Ask(t, type, where) /\ at[t] = "holding" /\ started' = started
        /\ allocs' \in 0..MaxAllocs /\ started' \in 0..MaxRuns
    BY <1>1, <1>4, <2>1 DEF Free
  <2>3. QED
    BY <2>1, <2>2, Asking
<1>5. ASSUME NEW t \in Tests, GiveUp(t) PROVE EInv'
  <2>1. pending' \in [Tests -> SUBSET (Id \X Nat)]
    BY <1>5 DEF GiveUp, EInv, DataOK
  <2>2. /\ at' = [at EXCEPT ![t] = "gone"] /\ inbox' = [inbox EXCEPT ![t] = <<>>]
        /\ UNCHANGED <<allocs, started, queue, pool, lastId, session, answers>>
    BY <1>5 DEF GiveUp
  <2>3. QED
    BY <2>1, <2>2, Leaving
<1>6. QED
  BY <1>2, <1>3, <1>4, <1>5, HearKeeps, ListenerKeeps, SlaveReadsKeeps, SlaveReadyKeeps, SocketReadsKeeps, StutterKeeps
     DEF Next

LEMMA EInvariance == ~OneName /\ Spec => []EInv
<1> SUFFICES ASSUME ~OneName PROVE Spec => []EInv
  OBVIOUS
<1>1. EInv /\ [Next]_vars => EInv'
  BY NextKeeps
<1>2. QED
  BY <1>1, InitEInv, PTL DEF Spec

(* What the pool of slaves, the queues of the two threads and the tests    *)
(* hold is always of its type, whenever a test frees a slave: no counter   *)
(* of remote runs goes below zero or above the runs that were asked for.   *)
THEOREM TypeCorrect == ~OneName /\ Spec => []TypeOK
<1>1. EInv /\ tidy \in BOOLEAN => TypeOK
  BY DEF EInv, TypeOK
<1>2. Init => tidy \in BOOLEAN
  BY DEF Init
<1>3. tidy \in BOOLEAN /\ [Next]_vars => (tidy \in BOOLEAN)'
  BY TidyStays
<1>4. QED
  BY <1>1, <1>2, <1>3, EInvariance, PTL DEF Spec

(* send_to_slave and socket_send_rcp put the command of a test in the      *)
(* write queue of the slave this test has reserved, and of no other, also  *)
(* when an entry still has the name of a test that freed its slave early:  *)
(* two searches, by name and by socket, find the same entry.               *)
THEOREM CommandsReachTheirSlave == ~OneName /\ Spec => []OwnCommands
<1>1. EInv => OwnCommands
  <2>1. ASSUME EInv, NEW s \in Slaves, NEW k \in DOMAIN pool[s].out
        PROVE  pool[s].out[k].from = pool[s].pid
    <3>1. pool[s].out \in Seq(Command)
      BY <2>1, Fields DEF EInv
    <3>2. pool[s].out # <<>>
      BY <2>1, <3>1
    <3>3. Len(pool[s].out) = 1 /\ pool[s].out[1].from = pool[s].pid
      BY <2>1, <3>2 DEF EInv, Sending
    <3>4. QED
      BY <3>1, <3>3
  <2>2. QED
    BY <2>1 DEF OwnCommands
<1>2. QED
  BY <1>1, EInvariance, PTL

(* No ongoing remote run is left out of run_cnt_, wherever it is and       *)
(* whichever test has the slave meanwhile: the release of                  *)
(* tcp_msg_handle_response that finds 0 and closes cuts none off.          *)
THEOREM NoRunIsOverlooked == ~OneName /\ Spec => []NoRunOverlooked
<1>1. EInv => NoRunOverlooked
  BY DEF EInv, Covered, NoRunOverlooked
<1>2. QED
  BY <1>1, EInvariance, PTL

----------------------------------------------------------------------------
(* The lease.                                                              *)

LEMMA LeaseInit == Init => Lease!Init
<1> SUFFICES ASSUME Init PROVE Lease!Init
  OBVIOUS
<1>1. \A s \in Slaves : pool[s].reserved = FALSE /\ session[s].busy = FALSE
  BY DEF Init, Unconnected
<1>2. [s \in Slaves |-> IF tidy /\ pool[s].reserved THEN pool[s].pid ELSE Nobody] = [s \in Slaves |-> Nobody]
  BY <1>1
<1>3. \A s \in Slaves : (tidy /\ session[s].busy) = FALSE
  BY <1>1
<1>4. [s \in Slaves |-> tidy /\ session[s].busy] = [s \in Slaves |-> FALSE]
  BY <1>3
<1>5. {t \in Tests : tidy /\ at[t] \in {"holding", "starting"}} = {}
  BY DEF Init
<1>6. QED
  BY <1>2, <1>4, <1>5 DEF Lease!Init

(* What a step may change of the lease, seen from the pool.                *)
LEMMA LeaseSame ==
  ASSUME tidy, tidy' = tidy, {t \in Tests : at'[t] \in {"holding", "starting"}} = {t \in Tests : at[t] \in {"holding", "starting"}},
         \A r \in Slaves : /\ pool'[r].reserved = pool[r].reserved /\ pool'[r].pid = pool[r].pid
                          /\ session'[r].busy = session[r].busy
  PROVE  UNCHANGED Lease!vars
BY DEF Lease!vars

LEMMA LeaseReturn ==
  ASSUME tidy, tidy' = tidy, NEW s \in Slaves, pool[s].reserved, at[pool[s].pid] \notin {"holding", "starting"},
         ~session[s].busy, at' = at, ~pool'[s].reserved,
         \A r \in Slaves : session'[r].busy = session[r].busy,
         \A r \in Slaves : r # s => pool'[r] = pool[r]
  PROVE  Lease!Return(s)
BY DEF Lease!Return

LEMMA LeaseLease ==
  ASSUME tidy, tidy' = tidy, NEW s \in Slaves, NEW t, ~pool[s].reserved, ~session[s].busy,
         at' = at, pool'[s].reserved, pool'[s].pid = t,
         \A r \in Slaves : session'[r].busy = session[r].busy,
         \A r \in Slaves : r # s =>
           pool'[r].reserved = pool[r].reserved /\ pool'[r].pid = pool[r].pid
  PROVE  Lease!Lease(s, t)
BY DEF Lease!Lease

LEMMA LeaseWork ==
  ASSUME tidy, tidy' = tidy, NEW s \in Slaves, pool[s].reserved, pool[s].pid # Nobody, at' = at, session'[s].busy = TRUE,
         \A r \in Slaves : pool'[r].reserved = pool[r].reserved /\ pool'[r].pid = pool[r].pid,
         \A r \in Slaves : r # s => session'[r].busy = session[r].busy
  PROVE  Lease!Work(s)
BY DEF Lease!Work

LEMMA LeaseRest ==
  ASSUME tidy, tidy' = tidy, NEW s \in Slaves, at' = at, pool' = pool, session'[s].busy = FALSE,
         \A r \in Slaves : r # s => session'[r].busy = session[r].busy
  PROVE  Lease!Rest(s)
BY DEF Lease!Rest

(* A test that goes on in its script, or ends it.                          *)
LEMMA LeaseTest ==
  ASSUME tidy, tidy' = tidy, IInv, NEW t \in Tests, NEW where, at' = [at EXCEPT ![t] = where], UNCHANGED <<pool, session>>,
         where \in {"holding", "starting"} =>
           at[t] \in {"holding", "starting"} \/ \E s \in Slaves : Holds(t, s)
  PROVE  Lease!Next \/ UNCHANGED Lease!vars
<1>1. at'[t] = where /\ \A u \in Tests : u # t => at'[u] = at[u]
  BY DEF IInv, DataOK
<1>2. CASE where \notin {"holding", "starting"}
  <2>1. Lease!Leave(t)
    BY <1>1, <1>2 DEF Lease!Leave
  <2>2. QED
    BY <2>1 DEF Lease!Next
<1>3. CASE where \in {"holding", "starting"} /\ at[t] \in {"holding", "starting"}
  BY <1>1, <1>3, LeaseSame
<1>4. CASE where \in {"holding", "starting"} /\ \E s \in Slaves : Holds(t, s)
  <2>1. Lease!Use(t)
    BY <1>1, <1>4 DEF Lease!Use, Holds
  <2>2. QED
    BY <2>1 DEF Lease!Next
<1>5. QED
  BY <1>2, <1>3, <1>4

LEMMA LeaseHear == ASSUME tidy, tidy' = tidy, IInv, NEW t \in Tests, Hear(t) PROVE Lease!Next \/ UNCHANGED Lease!vars
<1>1. PICK m : m = Head(inbox[t])
  OBVIOUS
<1>2. inbox[t] # <<>> /\ (HearResponse(t, m) \/ HearReady(t, m)) /\ UNCHANGED <<pool, session>>
  BY <1>1 DEF Hear
<1>3. CASE HearReady(t, m)
  <2>1. at' = at \/ at' = [at EXCEPT ![t] = "gone"]
    BY <1>3 DEF HearReady
  <2>2. CASE at' = at
    BY <1>2, <2>2, LeaseSame
  <2>3. CASE at' = [at EXCEPT ![t] = "gone"]
    <3>1. PICK where : where = "gone"
      OBVIOUS
    <3>2. QED
      BY <1>2, <2>3, <3>1, LeaseTest
  <2>4. QED
    BY <2>1, <2>2, <2>3
<1>4. CASE HearResponse(t, m)
  <2>1. PICK where : where = Answered(t, m)
    OBVIOUS
  <2>2. at' = [at EXCEPT ![t] = where] /\ m.type = "response"
    BY <1>4, <2>1 DEF HearResponse
  <2>3. Heard(t)
    <3>1. inbox[t] \in Seq(Notice)
      BY Fields DEF IInv
    <3>2. 1 \in DOMAIN inbox[t] /\ m = inbox[t][1]
      BY <1>1, <1>2, <3>1, TailIndexed
    <3>3. QED
      BY <2>2, <3>2 DEF Heard
  <2>4. at[t] \in Blocked /\ (at[t] = "allocating" => \E s \in Slaves : Holds(t, s))
    BY <2>3 DEF IInv, InboxInv, InboxOk
  <2>5. where \in {"holding", "starting"} => at[t] \in {"allocating", "starting"}
    BY <2>1, <2>4 DEF Answered, Blocked
  <2>6. where \in {"holding", "starting"} =>
          at[t] \in {"holding", "starting"} \/ \E s \in Slaves : Holds(t, s)
    BY <2>4, <2>5
  <2>7. QED
    BY <1>2, <2>2, <2>6, LeaseTest
<1>5. QED
  BY <1>2, <1>3, <1>4

(* A command changes nothing of an entry but its write queue and the count *)
(* of its remote runs.                                                     *)
LEMMA SentKeeps ==
  ASSUME NEW p \in [Slaves -> Entry], NEW type, NEW t, NEW r \in Slaves
  PROVE  Sent(p, type, t)[r].reserved = p[r].reserved /\ Sent(p, type, t)[r].pid = p[r].pid
<1>1. PICK s, q, c :
        s = Target(p, Name(t)) /\ q = QueueOf(p, s) /\ c = [type |-> type, from |-> t, id |-> p[s].id]
  OBVIOUS
<1>2. PICK g : g = IF type = "run" THEN [p EXCEPT ![s].runs = @ + 1] ELSE p
  OBVIOUS
<1>3. Sent(p, type, t) = [g EXCEPT ![q].out = Append(@, c)]
  BY <1>1, <1>2 DEF Sent
<1>4. p[r] \in Entry
  OBVIOUS
<1>5. \A v : /\ [p[r] EXCEPT !.runs = v].reserved = p[r].reserved
             /\ [p[r] EXCEPT !.runs = v].pid = p[r].pid
             /\ DOMAIN [p[r] EXCEPT !.runs = v] = DOMAIN p[r]
  BY <1>4 DEF Entry
<1>6. /\ DOMAIN g = Slaves
      /\ g[r].reserved = p[r].reserved /\ g[r].pid = p[r].pid
      /\ DOMAIN g[r] = DOMAIN p[r]
  <2>1. CASE type = "run"
    <3>1. DOMAIN g = Slaves /\ (g[r] = p[r] \/ \E v : g[r] = [p[r] EXCEPT !.runs = v])
      BY <1>2, <2>1
    <3>2. QED
      BY <1>5, <3>1
  <2>2. CASE type # "run"
    BY <1>2, <2>2
  <2>3. QED
    BY <2>1, <2>2
<1>7. {"reserved", "pid"} \subseteq DOMAIN g[r]
  BY <1>4, <1>6 DEF Entry
<1>8. Sent(p, type, t)[r] = g[r] \/ \E v : Sent(p, type, t)[r] = [g[r] EXCEPT !.out = v]
  BY <1>3, <1>6
<1>9. \A v : [g[r] EXCEPT !.out = v].reserved = g[r].reserved /\ [g[r] EXCEPT !.out = v].pid = g[r].pid
  BY <1>7
<1>10. QED
  BY <1>6, <1>8, <1>9

LEMMA LeaseListener == ASSUME tidy, tidy' = tidy, IInv, ~OneName, Listener PROVE Lease!Next \/ UNCHANGED Lease!vars
<1>1. /\ queue # <<>> /\ UNCHANGED at
      /\ \/ Head(queue).type = "allocate"
            /\ (HandleAllocate(Head(queue).from) \/ NoneFree \/ Refused(Head(queue).from))
         \/ HandleCommand(Head(queue))
  BY DEF Listener, testVars
<1>2. PICK m, t : m = Head(queue) /\ t = m.from
  OBVIOUS
<1>3. t \in Tests /\ pool \in [Slaves -> Entry] /\ session \in [Slaves -> Session]
  <2>1. queue \in Seq(Request)
    BY DEF IInv, DataOK
  <2>2. m \in Request
    BY <1>1, <1>2, <2>1
  <2>3. QED
    BY <1>2, <2>2 DEF IInv, DataOK, Request
<1>4. CASE HandleAllocate(t)
  <2>1. PICK s \in Slaves : s = First(FreeEntries) /\ ~pool[s].reserved
    BY <1>4, LeastIsFirst DEF HandleAllocate, FreeEntries
  <2>2. PICK e, p : e = Reserved(pool[s], t) /\ p = [pool EXCEPT ![s] = e]
    OBVIOUS
  <2>3. /\ pool' = Sent(p, "reserve", t)
        /\ session' = [session EXCEPT ![s] = Unconnected]
    BY <1>3, <1>4, <2>1, <2>2 DEF HandleAllocate
  <2>4. e \in Entry /\ e.reserved /\ e.pid = t
    <3>1. Name(t) = t /\ lastId + 1 \in Nat
      BY Fields, OwnName DEF IInv
    <3>2. pool[s] \in Entry
      BY <1>3, <2>1
    <3>3. QED
      BY <1>3, <2>2, <3>1, <3>2 DEF Reserved, Entry, Id
  <2>5. /\ p \in [Slaves -> Entry] /\ p[s] = e
        /\ \A r \in Slaves : r # s => p[r] = pool[r]
    BY <1>3, <2>1, <2>2, <2>4
  <2>6. \A r \in Slaves : pool'[r].reserved = p[r].reserved /\ pool'[r].pid = p[r].pid
    BY <2>3, <2>5, SentKeeps
  <2>7. ~session[s].busy /\ \A r \in Slaves : session'[r].busy = session[r].busy
    <3>1. ~session[s].busy /\ session[s].busy \in BOOLEAN
      BY <2>1, Fields DEF IInv, EntryInv
    <3>2. session'[s].busy = FALSE /\ \A r \in Slaves : r # s => session'[r] = session[r]
      BY <1>3, <2>1, <2>3 DEF Unconnected
    <3>3. QED
      BY <3>1, <3>2
  <2>8. Lease!Lease(s, t)
    BY <1>1, <2>1, <2>4, <2>5, <2>6, <2>7, LeaseLease
  <2>9. QED
    BY <1>3, <2>8 DEF Lease!Next
<1>5. CASE NoneFree
  BY <1>1, <1>5, LeaseSame DEF NoneFree
<1>6. CASE Refused(t)
  <2>1. PICK s : s = First(FreeEntries)
    OBVIOUS
  <2>2. pool' = [pool EXCEPT ![s].name = Name(t)] /\ session' = session
    BY <1>6, <2>1 DEF Refused
  <2>3. \A r \in Slaves : pool'[r] = pool[r] \/ \E v : pool'[r] = [pool[r] EXCEPT !.name = v]
    BY <1>3, <2>2
  <2>4. \A r \in Slaves : \A v :
          /\ [pool[r] EXCEPT !.name = v].reserved = pool[r].reserved
          /\ [pool[r] EXCEPT !.name = v].pid = pool[r].pid
    BY <1>3 DEF Entry
  <2>5. ASSUME NEW r \in Slaves
        PROVE  pool'[r].reserved = pool[r].reserved /\ pool'[r].pid = pool[r].pid
    <3>1. CASE pool'[r] = pool[r]
      BY <3>1
    <3>2. CASE \E v : pool'[r] = [pool[r] EXCEPT !.name = v]
      <4>1. PICK v : pool'[r] = [pool[r] EXCEPT !.name = v]
        BY <3>2
      <4>2. QED
        BY <2>4, <4>1
    <3>3. QED
      BY <2>3, <3>1, <3>2
  <2>6. QED
    BY <1>1, <2>2, <2>5, LeaseSame
<1>7. CASE HandleCommand(m)
  <2>1. PICK type : pool' = Sent(pool, type, t) /\ session' = session
    BY <1>2, <1>7 DEF HandleCommand
  <2>2. \A r \in Slaves : pool'[r].reserved = pool[r].reserved /\ pool'[r].pid = pool[r].pid
    BY <1>3, <2>1, SentKeeps
  <2>3. QED
    BY <1>1, <2>1, <2>2, LeaseSame
<1>8. QED
  BY <1>1, <1>2, <1>4, <1>5, <1>6, <1>7

LEMMA LeaseSlave ==
  ASSUME tidy, tidy' = tidy, IInv, NEW s \in Slaves, SlaveReads(s) \/ SlaveReady(s)
  PROVE  Lease!Next \/ UNCHANGED Lease!vars
<1>1. /\ pool \in [Slaves -> Entry] /\ session \in [Slaves -> Session] /\ pool[s] \in Entry
      /\ session[s] \in Session
  BY DEF IInv, DataOK
<1>2. CASE SlaveReady(s)
  <2>1. at' = at /\ pool' = pool /\ session' = [session EXCEPT ![s].busy = FALSE]
    BY <1>2 DEF SlaveReady, testVars
  <2>2. session'[s].busy = FALSE /\ \A r \in Slaves : r # s => session'[r] = session[r]
    BY <1>1, <2>1 DEF Session
  <2>3. Lease!Rest(s)
    BY <2>1, <2>2, LeaseRest
  <2>4. QED
    BY <2>3 DEF Lease!Next
<1>3. CASE SlaveReads(s)
  <2>1. /\ at' = at /\ pool[s].open /\ pool' = [pool EXCEPT ![s].out = Tail(@)]
        /\ \E c : Serve(s, c) \/ StartCase(s, c) \/ RunFault(s, c)
    BY <1>3 DEF SlaveReads, testVars
  <2>2. pool[s].reserved /\ pool[s].pid # Nobody
    BY <2>1, PoolAssumption DEF IInv, EntryInv
  <2>3. \A r \in Slaves : pool'[r].reserved = pool[r].reserved /\ pool'[r].pid = pool[r].pid
    <3>1. [pool[s] EXCEPT !.out = Tail(@)].reserved = pool[s].reserved
          /\ [pool[s] EXCEPT !.out = Tail(@)].pid = pool[s].pid
      BY <1>1 DEF Entry
    <3>2. pool'[s] = [pool[s] EXCEPT !.out = Tail(@)] /\ \A r \in Slaves : r # s => pool'[r] = pool[r]
      BY <1>1, <2>1
    <3>3. QED
      BY <3>1, <3>2
  <2>4. PICK c : Serve(s, c) \/ StartCase(s, c) \/ RunFault(s, c)
    BY <2>1
  <2>5. CASE StartCase(s, c)
    <3>1. session' = [session EXCEPT ![s].cases = @ + 1, ![s].busy = TRUE]
      BY <2>5 DEF StartCase
    <3>2. session'[s].busy = TRUE /\ \A r \in Slaves : r # s => session'[r] = session[r]
      BY <1>1, <3>1 DEF Session
    <3>3. Lease!Work(s)
      BY <2>1, <2>2, <2>3, <3>2, LeaseWork
    <3>4. QED
      BY <3>3 DEF Lease!Next
  <2>6. CASE Serve(s, c) \/ RunFault(s, c)
    <3>1. session' = session \/ \E v : session' = [session EXCEPT ![s].id = v]
      BY <2>6 DEF Serve, RunFault
    <3>2. \A v : [session[s] EXCEPT !.id = v].busy = session[s].busy
      BY <1>1 DEF Session
    <3>3. \A r \in Slaves : session'[r] = session[r] \/ (r = s /\ \E v : session'[s] = [session[s] EXCEPT !.id = v])
      BY <1>1, <3>1
    <3>4. \A r \in Slaves : session'[r].busy = session[r].busy
      BY <3>2, <3>3
    <3>5. QED
      BY <2>1, <2>3, <3>4, LeaseSame
  <2>7. QED
    BY <2>4, <2>5, <2>6
<1>4. QED
  BY <1>2, <1>3

LEMMA LeaseSocket ==
  ASSUME tidy, tidy' = tidy, IInv, NEW s \in Slaves, SocketReads(s)
  PROVE  Lease!Next \/ UNCHANGED Lease!vars
<1>1. PICK a : a = Head(answers[s])
  OBVIOUS
<1>2. /\ at' = at /\ pool[s].open /\ answers[s] # <<>>
      /\ HearReserve(s, a) \/ HearRelease(s, a) \/ HearStarted(s, a) \/ HearEnd(s, a)
  BY <1>1 DEF SocketReads, testVars
<1>3. /\ pool \in [Slaves -> Entry] /\ pool[s] \in Entry /\ session \in [Slaves -> Session]
      /\ pool[s].reserved = TRUE
  <2>1. pool[s].reserved /\ pool[s].reserved \in BOOLEAN
    BY <1>2, Fields DEF IInv, EntryInv
  <2>2. QED
    BY <2>1 DEF IInv, DataOK
<1>4. CASE HearRelease(s, a)
  <2>1. pool[s].runs = 0 /\ ~session[s].busy /\ at[pool[s].pid] \in {"gone", "freeing"} /\ session[s].busy \in BOOLEAN
    BY <1>1, <1>2, <1>4, AtRest, Fields DEF HearRelease, IInv
  <2>2. /\ pool' = [pool EXCEPT ![s].open = FALSE, ![s].reserved = FALSE, ![s].name = Nobody]
        /\ session' = [session EXCEPT ![s] = Unconnected]
    BY <1>4, <2>1 DEF HearRelease, Close
  <2>3. ~pool'[s].reserved /\ \A r \in Slaves : r # s => pool'[r] = pool[r]
    BY <1>3, <2>2 DEF Entry
  <2>4. \A r \in Slaves : session'[r].busy = session[r].busy
    <3>1. session'[s].busy = FALSE /\ \A r \in Slaves : r # s => session'[r] = session[r]
      BY <1>3, <2>2 DEF Unconnected
    <3>2. QED
      BY <2>1, <3>1
  <2>5. at[pool[s].pid] \notin {"holding", "starting"}
    BY <2>1
  <2>6. Lease!Return(s)
    BY <1>2, <1>3, <2>1, <2>3, <2>4, <2>5, LeaseReturn
  <2>7. QED
    BY <2>6 DEF Lease!Next
<1>5. CASE HearReserve(s, a) \/ HearStarted(s, a) \/ HearEnd(s, a)
  <2>1. PICK e : /\ e = [pool[s] EXCEPT !.id = a.id, !.reserved = TRUE] \/ e = pool[s]
                    \/ e = [pool[s] EXCEPT !.runs = @ - 1]
                 /\ pool' = [pool EXCEPT ![s] = e] /\ session' = session
    BY <1>3, <1>5 DEF HearReserve, HearStarted, HearEnd, Keep
  <2>2. e.reserved = pool[s].reserved /\ e.pid = pool[s].pid
    BY <1>3, <2>1 DEF Entry
  <2>3. \A r \in Slaves : pool'[r].reserved = pool[r].reserved /\ pool'[r].pid = pool[r].pid
    BY <1>3, <2>1, <2>2
  <2>4. QED
    BY <1>2, <2>1, <2>3, LeaseSame
<1>6. QED
  BY <1>2, <1>4, <1>5

(* The pool is the lease the tests rely on: a slave is given to one test   *)
(* at a time, works for it only, and is taken back when this test no       *)
(* longer counts on it and nothing runs in it, whatever the listener, the  *)
(* socket thread, the slaves and the tests do in between, if all scripts   *)
(* complete their remote runs before they free a slave.                    *)
THEOREM Implementation == ~OneName /\ Spec => ImplementsLease
<1> SUFFICES ASSUME ~OneName PROVE Spec => ImplementsLease
  OBVIOUS
<1>1. ASSUME tidy, IInv, [Next]_vars PROVE Lease!Next \/ UNCHANGED Lease!vars
  <2>1. tidy' = tidy
    BY <1>1, TidyStays
  <2>2. ASSUME NEW t \in Tests, Allocate(t) \/ Run(t) \/ Free(t) \/ GiveUp(t)
        PROVE  Lease!Next \/ UNCHANGED Lease!vars
    <3>1. PICK where : /\ at' = [at EXCEPT ![t] = where] /\ UNCHANGED <<pool, session>>
                       /\ where = "starting" => at[t] = "holding"
                       /\ where # "holding"
      BY <2>2 DEF Allocate, Run, Free, GiveUp, Ask
    <3>2. QED
      BY <1>1, <2>1, <3>1, LeaseTest
  <2>3. CASE UNCHANGED vars
    BY <1>1, <2>1, <2>3, LeaseSame DEF vars, testVars
  <2>4. QED
    BY <1>1, <2>1, <2>2, <2>3, LeaseHear, LeaseListener, LeaseSlave, LeaseSocket DEF Next
<1>2. ASSUME ~tidy, [Next]_vars PROVE UNCHANGED Lease!vars
  BY <1>2, TidyStays DEF Lease!vars
<1>3. (tidy => IInv) /\ [Next]_vars => [Lease!Next]_(Lease!vars)
  BY <1>1, <1>2
<1>4. QED
  BY Invariance, LeaseInit, <1>3, PTL DEF Spec, ImplementsLease, Lease!Spec

=============================================================================
