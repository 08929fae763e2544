--------------------------- MODULE MsgQueueProofs ---------------------------
(***************************************************************************)
(* Proofs about MsgQueue for any set of processes, any links between them, *)
(* any sizes and capacity and any number of messages.                      *)
(***************************************************************************)
EXTENDS MsgQueue, FunctionTheorems, FiniteSetTheorems, SequenceTheorems, TLAPS

----------------------------------------------------------------------------
(* Where the members of S are in a sequence.                               *)
Hits(s, S) == {k \in DOMAIN s : s[k] \in S}

Removed(s, k) == SubSeq(s, 1, k - 1) \o SubSeq(s, k + 1, Len(s))

(* What an operation on a queue does to the number of messages of a kind.   *)
LEMMA HitsFinite ==
  ASSUME NEW T, NEW s \in Seq(T), NEW S
  PROVE  IsFiniteSet(Hits(s, S)) /\ Cardinality(Hits(s, S)) \in Nat
<1>1. IsFiniteSet(1..Len(s)) /\ Hits(s, S) \in SUBSET (1..Len(s))
  BY FS_Interval DEF Hits
<1>2. QED
  BY <1>1, FS_Subset, FS_CardinalityType

LEMMA HitsEmpty == ASSUME NEW S PROVE Hits(<<>>, S) = {} /\ Cardinality(Hits(<<>>, S)) = 0
BY FS_EmptySet DEF Hits

LEMMA HitsAppend ==
  ASSUME NEW T, NEW s \in Seq(T), NEW e \in T, NEW S
  PROVE  Cardinality(Hits(Append(s, e), S)) = Cardinality(Hits(s, S)) + (IF e \in S THEN 1 ELSE 0)
<1>1. Hits(Append(s, e), S) = IF e \in S THEN Hits(s, S) \cup {Len(s) + 1} ELSE Hits(s, S)
  BY AppendProperties DEF Hits
<1>2. Len(s) + 1 \notin Hits(s, S)
  BY DEF Hits
<1>3. IsFiniteSet(Hits(s, S)) /\ Cardinality(Hits(s, S)) \in Nat
  BY HitsFinite
<1>4. Cardinality(Hits(s, S) \cup {Len(s) + 1}) = Cardinality(Hits(s, S)) + 1
  BY <1>2, <1>3, FS_AddElement
<1>5. QED
  BY <1>1, <1>3, <1>4

LEMMA RemovedProperties ==
  ASSUME NEW T, NEW s \in Seq(T), NEW k \in DOMAIN s
  PROVE  /\ Removed(s, k) \in Seq(T)
         /\ Len(Removed(s, k)) = Len(s) - 1
         /\ \A i \in 1..(Len(s) - 1) : Removed(s, k)[i] = IF i < k THEN s[i] ELSE s[i + 1]
<1>1. k \in 1..Len(s) /\ Len(s) \in Nat
  OBVIOUS
<1>2. /\ SubSeq(s, 1, k - 1) \in Seq(T) /\ Len(SubSeq(s, 1, k - 1)) = k - 1
      /\ \A i \in 1..(k - 1) : SubSeq(s, 1, k - 1)[i] = s[i]
  BY <1>1
<1>3. /\ SubSeq(s, k + 1, Len(s)) \in Seq(T) /\ Len(SubSeq(s, k + 1, Len(s))) = Len(s) - k
      /\ \A i \in 1..(Len(s) - k) : SubSeq(s, k + 1, Len(s))[i] = s[i + k]
  BY <1>1
<1>4. /\ Removed(s, k) \in Seq(T)
      /\ Len(Removed(s, k)) = (k - 1) + (Len(s) - k)
      /\ \A i \in 1..((k - 1) + (Len(s) - k)) :
           Removed(s, k)[i] = IF i <= k - 1 THEN SubSeq(s, 1, k - 1)[i]
                              ELSE SubSeq(s, k + 1, Len(s))[i - (k - 1)]
  <2> DEFINE a == SubSeq(s, 1, k - 1)
             b == SubSeq(s, k + 1, Len(s))
  <2>1. a \in Seq(T) /\ Len(a) = k - 1 /\ b \in Seq(T) /\ Len(b) = Len(s) - k
    BY <1>2, <1>3
  <2>2. Removed(s, k) = a \o b
    BY DEF Removed
  <2> HIDE DEF a, b
  <2>3. /\ a \o b \in Seq(T)
        /\ Len(a \o b) = Len(a) + Len(b)
        /\ \A i \in 1..(Len(a) + Len(b)) : (a \o b)[i] = IF i <= Len(a) THEN a[i] ELSE b[i - Len(a)]
    BY <2>1, ConcatProperties
  <2>4. QED
    BY <2>1, <2>2, <2>3 DEF a, b
<1>5. (k - 1) + (Len(s) - k) = Len(s) - 1
  BY <1>1
<1>6. ASSUME NEW i \in 1..(Len(s) - 1)
      PROVE  Removed(s, k)[i] = IF i < k THEN s[i] ELSE s[i + 1]
  <2>1. CASE i < k
    BY SMTT(30), <1>1, <1>2, <1>4, <1>5, <2>1
  <2>2. CASE ~(i < k)
    <3>1. i - (k - 1) \in 1..(Len(s) - k) /\ i - (k - 1) + k = i + 1 /\ ~(i <= k - 1)
      BY <1>1, <2>2
    <3>2. Removed(s, k)[i] = SubSeq(s, k + 1, Len(s))[i - (k - 1)]
      BY <1>4, <1>5, <3>1
    <3>3. QED
      BY <1>3, <2>2, <3>1, <3>2
  <2>3. QED
    BY <2>1, <2>2
<1>7. QED
  BY <1>4, <1>5, <1>6

LEMMA HitsRemoved ==
  ASSUME NEW T, NEW s \in Seq(T), NEW k \in DOMAIN s, NEW S
  PROVE  Cardinality(Hits(s, S)) = Cardinality(Hits(Removed(s, k), S)) + (IF s[k] \in S THEN 1 ELSE 0)
<1> DEFINE t == Removed(s, k)
           A == Hits(t, S)
           B == Hits(s, S) \ {k}
           f == [i \in A |-> IF i < k THEN i ELSE i + 1]
<1>0. k \in 1..Len(s) /\ Len(s) \in Nat
  OBVIOUS
<1>b. /\ DOMAIN t = 1..(Len(s) - 1)
      /\ \A i \in 1..(Len(s) - 1) : t[i] = IF i < k THEN s[i] ELSE s[i + 1]
  <2>1. /\ t \in Seq(T)
        /\ Len(t) = Len(s) - 1
        /\ \A i \in 1..(Len(s) - 1) : t[i] = IF i < k THEN s[i] ELSE s[i + 1]
    BY RemovedProperties
  <2> HIDE DEF t
  <2>2. QED
    BY <2>1, <1>0
<1> HIDE DEF t
<1>1. \A i \in A : f[i] \in B
  BY <1>0, <1>b DEF Hits
<1>2. \A j \in B : \E i \in A : f[i] = j
  <2> TAKE j \in B
  <2> DEFINE i == IF j < k THEN j ELSE j - 1
  <2>1. j \in 1..Len(s) /\ j # k /\ s[j] \in S
    BY DEF Hits
  <2>2. i \in 1..(Len(s) - 1) /\ t[i] = s[j]
    BY <1>0, <1>b, <2>1
  <2>3. i \in A
    BY <1>b, <2>1, <2>2 DEF Hits
  <2>4. f[i] = j
    BY <2>1, <2>3, <1>0
  <2>5. QED
    BY <2>3, <2>4
<1>3. \A i, j \in A : f[i] = f[j] => i = j
  BY <1>0, <1>b DEF Hits
<1>4. f \in Bijection(A, B)
  <2> HIDE DEF A, B
  <2>1. f \in [A -> B]
    BY <1>1
  <2> HIDE DEF f
  <2>2. QED
    BY <2>1, <1>2, <1>3, Fun_IsBij
<1>5. IsFiniteSet(A) /\ Cardinality(A) = Cardinality(B)
  <2>1. t \in Seq(T)
    BY RemovedProperties DEF t
  <2>2. IsFiniteSet(A)
    BY <2>1, HitsFinite
  <2> HIDE DEF A, B
  <2>3. QED
    BY <1>4, <2>2, FS_Bijection DEF ExistsBijection
<1>6. Cardinality(B) = IF k \in Hits(s, S) THEN Cardinality(Hits(s, S)) - 1 ELSE Cardinality(Hits(s, S))
  BY HitsFinite, FS_RemoveElement
<1>7. k \in Hits(s, S) <=> s[k] \in S
  BY DEF Hits
<1>8. Cardinality(Hits(s, S)) \in Nat
  BY HitsFinite
<1>9. QED
  BY <1>5, <1>6, <1>7, <1>8 DEF t

LEMMA HitsTail ==
  ASSUME NEW T, NEW s \in Seq(T), s # <<>>, NEW S
  PROVE  Cardinality(Hits(s, S)) = Cardinality(Hits(Tail(s), S)) + (IF Head(s) \in S THEN 1 ELSE 0)
<1>1. Len(s) \in Nat /\ Len(s) # 0 /\ 1 \in DOMAIN s /\ Head(s) = s[1]
  OBVIOUS
<1>2. Tail(s) = Removed(s, 1)
  <2>1. SubSeq(s, 1, 1 - 1) = <<>>
    BY SubSeqEmpty
  <2>2. Tail(s) = SubSeq(s, 1 + 1, Len(s)) /\ SubSeq(s, 1 + 1, Len(s)) \in Seq(T)
    BY TailIsSubSeq, HeadTailProperties
  <2>3. QED
    BY <2>1, <2>2, ConcatEmptySeq DEF Removed
<1>3. Cardinality(Hits(s, S)) = Cardinality(Hits(Removed(s, 1), S)) + (IF s[1] \in S THEN 1 ELSE 0)
  <2>1. 1 \in DOMAIN s
    BY <1>1
  <2>2. QED
    BY <2>1, HitsRemoved
<1>4. QED
  BY <1>1, <1>2, <1>3

----------------------------------------------------------------------------
(* A message in the hand of its sender is the last one it was asked to     *)
(* send, and has not been buffered.                                        *)
HandInv ==
  \A p \in Process : pc[p] \in {"retry", "post", "block"} =>
    /\ out[p] \in Message /\ out[p].from = p /\ out[p].n = sent[p]
    /\ out[p].n \notin late[p]

(* The buffer of a process holds messages of its own, in the order in      *)
(* which it was asked to send them.                                        *)
BufferInv ==
  \A p \in Process : \A k \in DOMAIN buffer[p] :
    /\ buffer[p][k].from = p /\ buffer[p][k].n \in late[p]
    /\ \A j \in DOMAIN buffer[p] : j < k => buffer[p][j].n < buffer[p][k].n

Posted == Elements(kernel) \cup UNION {Elements(got[q]) : q \in Process}

(* A message that is in the queue or read was sent before the one in hand, *)
(* and if it was buffered, before those still in the buffer.               *)
PostedInv ==
  \A m \in Posted :
    /\ m \in Message /\ m.n <= sent[m.from]
    /\ m \notin InHand(m.from)
    /\ pc[m.from] \in {"retry", "post", "block"} => m.n # sent[m.from]
    /\ m.n \in late[m.from] => \A k \in DOMAIN buffer[m.from] : m.n < buffer[m.from][k].n

GotInv == \A q \in Process : \A m \in Elements(got[q]) : m.to = q

Unlost == \A m \in lost : pc[m.from] = "gone"

Fallen(p, n) == {m \in lost : m.from = p /\ m.n = n}

Conserved ==
  \A p \in Process : \A n \in Nat \ {0} :
    /\ IsFiniteSet(ReadersOf(p, n)) /\ IsFiniteSet(Fallen(p, n))
    /\ Copies(p, n) = IF n <= sent[p] THEN 1 ELSE 0

OrderInv == TypeOK /\ HandInv /\ BufferInv /\ PostedInv /\ GotInv /\ OnlyBufferedOvertaken
CountInv == Unlost /\ Conserved
IInv == OrderInv /\ CountInv

----------------------------------------------------------------------------
LEMMA InitOrderInv == Init => OrderInv
<1> SUFFICES ASSUME Init PROVE OrderInv
  OBVIOUS
<1>1. TypeOK
  BY DEF Init, TypeOK, PC
<1>2. HandInv /\ BufferInv
  BY DEF Init, HandInv, BufferInv
<1>3. Elements(kernel) = {} /\ \A q \in Process : Elements(got[q]) = {}
  BY DEF Init, Elements
<1>4. PostedInv /\ GotInv /\ OnlyBufferedOvertaken
  BY <1>3 DEF PostedInv, Posted, GotInv, OnlyBufferedOvertaken
<1>5. QED
  BY <1>1, <1>2, <1>4 DEF OrderInv

LEMMA InitCountInv == Init => CountInv
<1> SUFFICES ASSUME Init PROVE CountInv
  OBVIOUS
<1>1. Unlost
  BY DEF Init, Unlost
<1>2. ASSUME NEW p \in Process, NEW n \in Nat \ {0}
      PROVE  /\ IsFiniteSet(ReadersOf(p, n)) /\ IsFiniteSet(Fallen(p, n))
             /\ Copies(p, n) = IF n <= sent[p] THEN 1 ELSE 0
  <2>1. ReadersOf(p, n) = {} /\ Fallen(p, n) = {}
    BY DEF Init, ReadersOf, Fallen, Numbered
  <2>2. Numbered(kernel, p, n) = {} /\ Numbered(buffer[p], p, n) = {}
    BY DEF Init, Numbered
  <2>3. {m \in InHand(p) : m.n = n} = {}
    BY DEF Init, InHand
  <2>4. Copies(p, n) = 0
    BY <2>1, <2>2, <2>3, FS_EmptySet DEF Copies, Fallen
  <2>5. QED
    BY <2>1, <2>4, FS_EmptySet DEF Init
<1>3. QED
  BY <1>1, <1>2 DEF CountInv, Conserved

----------------------------------------------------------------------------
(* What a step of p can do, whichever function it is in.                   *)
SendStep(p, q, size, next) == next \in {"retry", "block"} /\ Send(p, q, size, next)

UnbufferStep(p) ==
  /\ buffer[p] # <<>> /\ Unbuffer(p)
  /\ UNCHANGED <<pc, out, sent, got, late, lost>>

PostNowStep(p) ==
  /\ pc[p] \in {"post", "block"} /\ pc' = [pc EXCEPT ![p] = "idle"]
  /\ kernel' = Append(kernel, out[p])
  /\ out' = [out EXCEPT ![p] = NoMessage]
  /\ UNCHANGED <<buffer, sent, got, late, lost>>

PostLaterStep(p) ==
  /\ pc[p] = "post" /\ pc' = [pc EXCEPT ![p] = "idle"]
  /\ buffer' = [buffer EXCEPT ![p] = Append(@, out[p])]
  /\ late' = [late EXCEPT ![p] = @ \cup {out[p].n}]
  /\ out' = [out EXCEPT ![p] = NoMessage]
  /\ UNCHANGED <<kernel, sent, got, lost>>

ReadStep(p) ==
  /\ pc[p] = "idle" /\ pc' = [pc EXCEPT ![p] = "drain"]
  /\ \E k \in DOMAIN kernel :
       /\ kernel[k].to = p
       /\ \A j \in 1..(k - 1) : kernel[j].to # p
       /\ got' = [got EXCEPT ![p] = Append(@, kernel[k])]
       /\ kernel' = Removed(kernel, k)
  /\ UNCHANGED <<buffer, out, sent, late, lost>>

(* Only the place of p changes, and what it holds does not.                *)
MoveStep(p) ==
  /\ \E next \in {"post", "idle", "resend", "gone"} :
       /\ pc[p] \in {"retry", "drain", "idle", "resend"}
       /\ pc[p] = "retry" <=> next = "post"
       /\ pc' = [pc EXCEPT ![p] = next]
       /\ next = "gone" => buffer[p] = <<>>
  /\ UNCHANGED <<kernel, buffer, out, sent, got, late, lost>>

LEMMA NextSteps ==
  ASSUME TypeOK, Next
  PROVE  \E p \in Process :
           \/ \E q \in Process, size \in Size, next \in {"retry", "block"} : SendStep(p, q, size, next)
           \/ UnbufferStep(p) \/ PostNowStep(p) \/ PostLaterStep(p)
           \/ ReadStep(p) \/ MoveStep(p) \/ Exit(p)
<1>1. ASSUME NEW link \in Links, NEW size \in Size, NEW next \in {"retry", "block"},
             Send(link[1], link[2], size, next)
      PROVE  \E p, q \in Process : SendStep(p, q, size, next)
  BY <1>1, MsgQueueAssumption DEF SendStep
<1>2. \A p \in Process : pc' = [pc EXCEPT ![p] = pc[p]] => pc' = pc
  BY DEF TypeOK
<1>3. ASSUME NEW p \in Process, Retry(p)
      PROVE  UnbufferStep(p) \/ MoveStep(p)
  BY <1>2, <1>3 DEF Retry, Goto, CanUnbuffer, UnbufferStep, MoveStep
<1>4. ASSUME NEW p \in Process, Post(p)
      PROVE  PostNowStep(p) \/ PostLaterStep(p)
  BY <1>4 DEF Post, Goto, PostNowStep, PostLaterStep
<1>5. ASSUME NEW p \in Process, PostBlocking(p)
      PROVE  PostNowStep(p)
  BY <1>5 DEF PostBlocking, Goto, PostNowStep
<1>6. ASSUME NEW p \in Process, Read(p)
      PROVE  ReadStep(p)
  BY <1>6 DEF Read, Goto, ReadStep, Removed
<1>7. ASSUME NEW p \in Process, Drain(p)
      PROVE  UnbufferStep(p) \/ MoveStep(p)
  BY <1>2, <1>7 DEF Drain, Goto, CanUnbuffer, UnbufferStep, MoveStep
<1>8. ASSUME NEW p \in Process, DrainWaiting(p)
      PROVE  UnbufferStep(p)
  BY <1>8 DEF DrainWaiting, CanUnbuffer, UnbufferStep
<1>9. ASSUME NEW p \in Process, Finish(p)
      PROVE  MoveStep(p)
  BY <1>9 DEF Finish, Goto, MoveStep
<1>10. ASSUME NEW p \in Process, Resend(p)
      PROVE  UnbufferStep(p) \/ MoveStep(p)
  BY <1>2, <1>10 DEF Resend, Goto, CanUnbuffer, UnbufferStep, MoveStep
<1>11. QED
  BY <1>1, <1>3, <1>4, <1>5, <1>6, <1>7, <1>8, <1>9, <1>10 DEF Next
----------------------------------------------------------------------------
(* What is in a sequence, and in which order, after the operations on it.  *)
LEMMA AppendOrder ==
  ASSUME NEW T, NEW s \in Seq(T), NEW x \in T
  PROVE  /\ Elements(Append(s, x)) = Elements(s) \cup {x}
         /\ \A m, n : Follows(Append(s, x), m, n) =>
              Follows(s, m, n) \/ (m \in Elements(s) /\ n = x)
<1>1. /\ Append(s, x) \in Seq(T) /\ Len(Append(s, x)) = Len(s) + 1
      /\ \A k \in 1..Len(s) : Append(s, x)[k] = s[k]
      /\ Append(s, x)[Len(s) + 1] = x
  BY AppendProperties
<1>2. DOMAIN Append(s, x) = 1..(Len(s) + 1) /\ DOMAIN s = 1..Len(s) /\ Len(s) \in Nat
  BY <1>1
<1>3. Elements(Append(s, x)) = Elements(s) \cup {x}
  <2>1. 1..(Len(s) + 1) = 1..Len(s) \cup {Len(s) + 1}
    BY <1>2
  <2>2. QED
    BY <1>1, <1>2, <2>1 DEF Elements
<1>4. ASSUME NEW m, NEW n, Follows(Append(s, x), m, n)
      PROVE  Follows(s, m, n) \/ (m \in Elements(s) /\ n = x)
  <2>1. PICK i, j \in 1..(Len(s) + 1) : i < j /\ Append(s, x)[i] = m /\ Append(s, x)[j] = n
    BY <1>2, <1>4 DEF Follows
  <2>2. i \in 1..Len(s) /\ s[i] = m
    BY <1>1, <1>2, <2>1
  <2>3. j \in 1..Len(s) => s[j] = n
    BY <1>1, <2>1
  <2>4. j \notin 1..Len(s) => n = x
    BY <1>1, <1>2, <2>1
  <2>5. QED
    BY <1>2, <2>1, <2>2, <2>3, <2>4 DEF Follows, Elements
<1>5. QED
  BY <1>3, <1>4

LEMMA RemovedOrder ==
  ASSUME NEW T, NEW s \in Seq(T), NEW k \in DOMAIN s
  PROVE  /\ Elements(Removed(s, k)) \subseteq Elements(s)
         /\ \A m, n : Follows(Removed(s, k), m, n) => Follows(s, m, n)
         /\ \A n \in Elements(Removed(s, k)) :
              \E j \in DOMAIN s : j # k /\ s[j] = n
<1>1. k \in 1..Len(s) /\ DOMAIN s = 1..Len(s) /\ Len(s) \in Nat
  OBVIOUS
<1>2. /\ DOMAIN Removed(s, k) = 1..(Len(s) - 1)
      /\ \A i \in 1..(Len(s) - 1) : Removed(s, k)[i] = IF i < k THEN s[i] ELSE s[i + 1]
  <2>1. /\ Removed(s, k) \in Seq(T) /\ Len(Removed(s, k)) = Len(s) - 1
        /\ \A i \in 1..(Len(s) - 1) : Removed(s, k)[i] = IF i < k THEN s[i] ELSE s[i + 1]
    BY RemovedProperties
  <2> DEFINE t == Removed(s, k)
  <2> HIDE DEF t
  <2>2. t \in Seq(T) /\ Len(t) = Len(s) - 1 => DOMAIN t = 1..(Len(s) - 1)
    BY <1>1
  <2>3. QED
    BY <2>1, <2>2 DEF t
<1> DEFINE w(i) == IF i < k THEN i ELSE i + 1
<1>3. \A i \in 1..(Len(s) - 1) : w(i) \in DOMAIN s /\ w(i) # k /\ Removed(s, k)[i] = s[w(i)]
  BY <1>1, <1>2
<1>4. \A i, j \in 1..(Len(s) - 1) : i < j => w(i) < w(j)
  BY <1>1
<1> HIDE DEF w
<1>5. Elements(Removed(s, k)) \subseteq Elements(s)
  BY <1>2, <1>3 DEF Elements
<1>6. ASSUME NEW m, NEW n, Follows(Removed(s, k), m, n)
      PROVE  Follows(s, m, n)
  <2>1. PICK i, j \in 1..(Len(s) - 1) : i < j /\ Removed(s, k)[i] = m /\ Removed(s, k)[j] = n
    BY <1>2, <1>6 DEF Follows
  <2>2. w(i) \in DOMAIN s /\ w(j) \in DOMAIN s /\ w(i) < w(j) /\ s[w(i)] = m /\ s[w(j)] = n
    BY <1>3, <1>4, <2>1
  <2>3. QED
    BY <2>2 DEF Follows
<1>7. ASSUME NEW n \in Elements(Removed(s, k))
      PROVE  \E j \in DOMAIN s : j # k /\ s[j] = n
  <2>1. PICK i \in 1..(Len(s) - 1) : Removed(s, k)[i] = n
    BY <1>2, <1>7 DEF Elements
  <2>2. QED
    BY <1>3, <2>1
<1>8. QED
  BY <1>5, <1>6, <1>7

----------------------------------------------------------------------------
(* The order of the messages.                                              *)
LEMMA SendOrder ==
  ASSUME OrderInv, NEW p \in Process, NEW q \in Process, NEW size \in Size,
         NEW next \in {"retry", "block"}, SendStep(p, q, size, next)
  PROVE  OrderInv'
<1> USE DEF OrderInv
<1>1. /\ pc[p] = "idle" /\ pc' = [pc EXCEPT ![p] = next] /\ next \in {"retry", "block"}
      /\ sent' = [sent EXCEPT ![p] = @ + 1]
      /\ out' = [out EXCEPT ![p] = [from |-> p, to |-> q, size |-> size, n |-> sent[p] + 1]]
      /\ UNCHANGED <<kernel, buffer, got, late, lost>>
  BY DEF SendStep, Send, Goto
<1>2. [from |-> p, to |-> q, size |-> size, n |-> sent[p] + 1] \in Message
  BY DEF TypeOK, Message
<1>3. \A r \in Process : sent[r] \in Nat /\ sent'[r] \in Nat /\ sent[r] <= sent'[r]
  BY <1>1 DEF TypeOK
<1>4. TypeOK'
  <2>1. pc' \in [Process -> PC] /\ sent' \in [Process -> Nat]
        /\ out' \in [Process -> Message \cup {NoMessage}]
    BY <1>1, <1>2 DEF TypeOK, PC
  <2>2. \A r \in Process : late'[r] \subseteq 1..sent'[r]
    BY <1>1, <1>3 DEF TypeOK
  <2>3. \A r \in Process : pc'[r] = "gone" => buffer'[r] = <<>>
    BY <1>1 DEF TypeOK
  <2>4. QED
    BY <1>1, <2>1, <2>2, <2>3 DEF TypeOK
<1>5. HandInv'
  <2>1. \A r \in Process \ {p} : pc'[r] = pc[r] /\ out'[r] = out[r] /\ sent'[r] = sent[r]
    BY <1>1 DEF TypeOK
  <2>2. out'[p] \in Message /\ out'[p].from = p /\ out'[p].n = sent[p] + 1 /\ sent'[p] = sent[p] + 1
    BY <1>1, <1>2 DEF TypeOK
  <2>3. sent[p] + 1 \notin late[p]
    BY DEF TypeOK
  <2>4. QED
    BY <1>1, <2>1, <2>2, <2>3 DEF HandInv
<1>6. BufferInv'
  BY <1>1 DEF BufferInv
<1>7. PostedInv'
  <2>1. Posted' = Posted
    BY <1>1 DEF Posted, Elements
  <2>2. ASSUME NEW m \in Posted
        PROVE  /\ m \in Message /\ m.n <= sent'[m.from]
               /\ m \notin InHand(m.from)'
               /\ pc'[m.from] \in {"retry", "post", "block"} => m.n # sent'[m.from]
               /\ m.n \in late'[m.from] => \A k \in DOMAIN buffer'[m.from] : m.n < buffer'[m.from][k].n
    <3>1. /\ m \in Message /\ m.n <= sent[m.from] /\ m \notin InHand(m.from)
          /\ pc[m.from] \in {"retry", "post", "block"} => m.n # sent[m.from]
          /\ m.n \in late[m.from] => \A k \in DOMAIN buffer[m.from] : m.n < buffer[m.from][k].n
      BY DEF PostedInv
    <3>2. m.from \in Process /\ m.n \in Nat
      BY <3>1 DEF Message
    <3>3. m.n <= sent'[m.from]
      BY <1>3, <3>1, <3>2
    <3>4. m.from = p => m.n < sent'[p] /\ out'[p].n = sent'[p]
      BY <1>1, <3>1, <3>2 DEF TypeOK
    <3>5. m.from # p => pc'[m.from] = pc[m.from] /\ out'[m.from] = out[m.from] /\ sent'[m.from] = sent[m.from]
      BY <1>1, <3>2 DEF TypeOK
    <3>6. m \notin InHand(m.from)'
      BY <1>3, <3>1, <3>2, <3>4, <3>5 DEF InHand
    <3>7. pc'[m.from] \in {"retry", "post", "block"} => m.n # sent'[m.from]
      BY <1>3, <3>1, <3>2, <3>4, <3>5
    <3>8. QED
      BY <1>1, <3>1, <3>3, <3>6, <3>7
  <2>3. QED
    BY <2>1, <2>2 DEF PostedInv
<1>8. GotInv' /\ OnlyBufferedOvertaken'
  BY <1>1 DEF GotInv, OnlyBufferedOvertaken, Before, Follows, Elements
<1>9. QED
  BY <1>4, <1>5, <1>6, <1>7, <1>8
(* A message enters the queue.                                             *)
LEMMA OvertakenAppend ==
  ASSUME OrderInv, NEW x \in Message, x \notin Posted,
         \A m \in Posted : m.from = x.from /\ m.n > x.n =>
           x.n \in late[x.from] /\ m.n \notin late[m.from],
         kernel' = Append(kernel, x), UNCHANGED <<got, late>>
  PROVE  OnlyBufferedOvertaken'
<1>1. kernel \in Seq(Message)
  BY DEF OrderInv, TypeOK
<1>2. /\ Elements(kernel)' = Elements(kernel) \cup {x}
      /\ \A m, n : Follows(kernel, m, n)' => Follows(kernel, m, n) \/ (m \in Elements(kernel) /\ n = x)
  <2>1. /\ Elements(Append(kernel, x)) = Elements(kernel) \cup {x}
        /\ \A m, n : Follows(Append(kernel, x), m, n) =>
             Follows(kernel, m, n) \/ (m \in Elements(kernel) /\ n = x)
    BY <1>1, AppendOrder
  <2>2. QED
    BY <2>1 DEF Elements, Follows
<1>3. \A q : Elements(got[q])' = Elements(got[q])
  BY DEF Elements
<1>4. \A q, m, n : Follows(got[q], m, n)' <=> Follows(got[q], m, n)
  BY DEF Follows
<1>5. SUFFICES ASSUME NEW q \in Process,
                      NEW m \in (Elements(got[q]) \cup {k \in Elements(kernel) : k.to = q})',
                      NEW n \in (Elements(got[q]) \cup {k \in Elements(kernel) : k.to = q})',
                      Before(q, m, n)', m.from = n.from, m.n > n.n
               PROVE  n.n \in late[n.from] /\ m.n \notin late[m.from]
  BY DEF OnlyBufferedOvertaken
<1>6. x \notin Elements(kernel) /\ x \notin Elements(got[q])
  BY DEF Posted
<1>7. m \in Elements(got[q]) \cup {k \in Elements(kernel) : k.to = q} \cup {x}
      /\ n \in Elements(got[q]) \cup {k \in Elements(kernel) : k.to = q} \cup {x}
  BY <1>2, <1>3
<1>8. m # x
  <2>1. x.n \in Nat
    BY DEF Message
  <2>2. ~Follows(got[q], x, n) /\ ~Follows(kernel, x, n)
    BY <1>6 DEF Follows, Elements
  <2>3. Before(q, m, n)' => Follows(got[q], m, n) \/ m \in Elements(got[q]) \/ Follows(kernel, m, n) \/ m \in Elements(kernel)
    BY <1>2, <1>3, <1>4 DEF Before
  <2>4. QED
    BY <1>5, <1>6, <2>2, <2>3
<1>9. CASE n = x
  <2>1. m \in Posted
    BY <1>7, <1>8 DEF Posted
  <2>2. QED
    BY <1>5, <1>9, <2>1
<1>10. CASE n # x
  <2>1. Before(q, m, n)
    BY <1>2, <1>3, <1>4, <1>5, <1>10 DEF Before
  <2>2. QED
    BY <1>5, <1>7, <1>8, <1>10, <2>1 DEF OrderInv, OnlyBufferedOvertaken
<1>11. QED
  BY <1>9, <1>10

LEMMA UnbufferOrder ==
  ASSUME OrderInv, NEW p \in Process, UnbufferStep(p)
  PROVE  OrderInv'
<1> USE DEF OrderInv
<1> DEFINE x == Head(buffer[p])
<1>1. /\ buffer[p] \in Seq(Message) /\ buffer[p] # <<>> /\ kernel \in Seq(Message)
      /\ kernel' = Append(kernel, x) /\ buffer' = [buffer EXCEPT ![p] = Tail(@)]
      /\ UNCHANGED <<pc, out, sent, got, late, lost>>
  BY DEF UnbufferStep, Unbuffer, TypeOK
<1>2. /\ Len(buffer[p]) \in Nat \ {0} /\ x = buffer[p][1] /\ x \in Message
      /\ Tail(buffer[p]) \in Seq(Message) /\ Len(Tail(buffer[p])) = Len(buffer[p]) - 1
      /\ \A k \in 1..(Len(buffer[p]) - 1) : Tail(buffer[p])[k] = buffer[p][k + 1]
  BY <1>1
<1>3. 1 \in DOMAIN buffer[p]
  BY <1>1, <1>2
<1>4. x.from = p /\ x.n \in late[p] /\ x.n \in Nat
  BY <1>2, <1>3 DEF BufferInv, Message
<1>5. /\ buffer'[p] = Tail(buffer[p]) /\ buffer' \in [Process -> Seq(Message)]
      /\ \A r \in Process \ {p} : buffer'[r] = buffer[r]
  BY <1>1, <1>2 DEF TypeOK
<1>6. \A k \in DOMAIN buffer'[p] : k + 1 \in DOMAIN buffer[p] /\ buffer'[p][k] = buffer[p][k + 1] /\ k \in Nat /\ 1 < k + 1
  BY <1>1, <1>2, <1>5
<1> HIDE DEF x
<1>7. TypeOK'
  BY <1>1, <1>2, <1>5, AppendProperties DEF TypeOK
<1>8. HandInv'
  BY <1>1 DEF HandInv
<1>9. BufferInv'
  <2>1. ASSUME NEW k \in DOMAIN buffer'[p]
        PROVE  /\ buffer'[p][k].from = p /\ buffer'[p][k].n \in late'[p]
               /\ \A j \in DOMAIN buffer'[p] : j < k => buffer'[p][j].n < buffer'[p][k].n
    BY <1>1, <1>6 DEF BufferInv
  <2>2. QED
    BY <1>1, <1>5, <2>1 DEF BufferInv
<1>10. Posted' = Posted \cup {x}
  <2>1. Elements(kernel') = Elements(kernel) \cup {x}
    BY <1>1, <1>2, AppendOrder
  <2>2. QED
    BY <1>1, <2>1 DEF Posted, Elements
<1>11. \A k \in DOMAIN buffer'[p] : x.n < buffer'[p][k].n
  BY <1>2, <1>3, <1>6 DEF BufferInv
<1>12. ASSUME NEW m \in Posted
       PROVE  m.n \in late[m.from] => \A k \in DOMAIN buffer'[m.from] : m.n < buffer'[m.from][k].n
  <2>1. m.from \in Process /\ (m.n \in late[m.from] => \A k \in DOMAIN buffer[m.from] : m.n < buffer[m.from][k].n)
    BY DEF PostedInv, Message
  <2>2. CASE m.from = p
    BY <1>6, <2>1, <2>2
  <2>3. CASE m.from # p
    BY <1>5, <2>1, <2>3
  <2>4. QED
    BY <2>2, <2>3
<1>13. /\ x.n <= sent[p] /\ x \notin InHand(p)
       /\ pc[p] \in {"retry", "post", "block"} => x.n # sent[p]
  <2>1. x.n <= sent[p]
    BY <1>4 DEF TypeOK
  <2>2. pc[p] \in {"retry", "post", "block"} => out[p].n = sent[p] /\ out[p].n \notin late[p]
    BY DEF HandInv
  <2>3. QED
    BY <1>4, <2>1, <2>2 DEF InHand
<1>14. PostedInv'
  <2>1. \A m \in Posted :
          /\ m \in Message /\ m.n <= sent[m.from] /\ m \notin InHand(m.from)
          /\ pc[m.from] \in {"retry", "post", "block"} => m.n # sent[m.from]
    BY DEF PostedInv
  <2>2. \A r : InHand(r)' = InHand(r)
    BY <1>1 DEF InHand
  <2>3. QED
    BY <1>1, <1>2, <1>4, <1>10, <1>11, <1>12, <1>13, <2>1, <2>2 DEF PostedInv
<1>15. GotInv'
  BY <1>1 DEF GotInv, Elements
<1>16. OnlyBufferedOvertaken'
  <2>1. ASSUME NEW m \in Posted, m.from = x.from, m.n >= x.n
        PROVE  m.n \notin late[m.from]
    <3>1. m \in Message /\ (m.n \in late[p] => m.n < x.n)
      BY <1>2, <1>3, <1>4, <2>1 DEF PostedInv
    <3>2. QED
      BY <1>4, <2>1, <3>1 DEF Message
  <2>2. x \notin Posted
    BY <1>4, <2>1
  <2>3. \A m \in Posted : m \in Message /\ m.n \in Nat
    BY DEF PostedInv, Message
  <2>4. \A m \in Posted : m.from = x.from /\ m.n > x.n =>
          x.n \in late[x.from] /\ m.n \notin late[m.from]
    BY <1>4, <2>1, <2>3
  <2>5. x \in Message /\ kernel' = Append(kernel, x) /\ UNCHANGED <<got, late>>
    BY <1>1, <1>2
  <2>6. QED
    BY <2>2, <2>4, <2>5, OvertakenAppend
<1>17. QED
  BY <1>7, <1>8, <1>9, <1>14, <1>15, <1>16

LEMMA PostNowOrder ==
  ASSUME OrderInv, NEW p \in Process, PostNowStep(p)
  PROVE  OrderInv'
<1> USE DEF OrderInv
<1> DEFINE x == out[p]
<1>1. /\ pc[p] \in {"post", "block"} /\ pc' = [pc EXCEPT ![p] = "idle"]
      /\ kernel' = Append(kernel, x) /\ out' = [out EXCEPT ![p] = NoMessage]
      /\ UNCHANGED <<buffer, sent, got, late, lost>>
  BY DEF PostNowStep
<1>2. x \in Message /\ x.from = p /\ x.n = sent[p] /\ x.n \notin late[p] /\ x.n \in Nat
  BY <1>1 DEF HandInv, Message
<1>3. kernel \in Seq(Message)
  BY DEF TypeOK
<1> HIDE DEF x
<1>4. TypeOK'
  BY <1>1, <1>2, <1>3, AppendProperties DEF TypeOK, PC
<1>5. /\ pc'[p] = "idle"
      /\ \A r \in Process \ {p} : pc'[r] = pc[r] /\ out'[r] = out[r]
  BY <1>1 DEF TypeOK
<1>6. HandInv' /\ BufferInv'
  BY <1>1, <1>5 DEF HandInv, BufferInv
<1>7. Posted' = Posted \cup {x}
  <2>1. Elements(kernel') = Elements(kernel) \cup {x}
    BY <1>1, <1>2, <1>3, AppendOrder
  <2>2. QED
    BY <1>1, <2>1 DEF Posted, Elements
<1>8. PostedInv'
  <2>1. x.n <= sent[p]
    BY <1>2
  <2>2. \A r \in Process : InHand(r)' \subseteq InHand(r)
    BY <1>5 DEF InHand
  <2>3. \A m \in Posted \cup {x} : m \in Message /\ m.from \in Process
    BY <1>2 DEF PostedInv, Message
  <2>4. InHand(p)' = {} /\ pc'[p] = "idle"
    BY <1>5 DEF InHand
  <2>5. ASSUME NEW m \in Posted
        PROVE  /\ m.n <= sent'[m.from] /\ m \notin InHand(m.from)'
               /\ pc'[m.from] \in {"retry", "post", "block"} => m.n # sent'[m.from]
               /\ m.n \in late'[m.from] => \A k \in DOMAIN buffer'[m.from] : m.n < buffer'[m.from][k].n
    BY <1>1, <1>5, <2>2, <2>3 DEF PostedInv
  <2>6. ASSUME NEW m, m = x
        PROVE  /\ m.n <= sent'[m.from] /\ m \notin InHand(m.from)'
               /\ pc'[m.from] \in {"retry", "post", "block"} => m.n # sent'[m.from]
               /\ m.n \in late'[m.from] => \A k \in DOMAIN buffer'[m.from] : m.n < buffer'[m.from][k].n
    BY <1>1, <1>2, <2>1, <2>4, <2>6
  <2>7. QED
    BY <1>7, <2>3, <2>5, <2>6 DEF PostedInv
<1>9. GotInv'
  BY <1>1 DEF GotInv, Elements
<1>10. OnlyBufferedOvertaken'
  <2>1. x \in InHand(p)
    BY <1>1 DEF InHand, x
  <2>2. x \notin Posted
    BY <1>2, <2>1 DEF PostedInv
  <2>3. \A m \in Posted : m.from = x.from => ~(m.n > x.n)
    BY <1>2 DEF PostedInv, Message
  <2>4. x \in Message /\ kernel' = Append(kernel, x) /\ UNCHANGED <<got, late>>
    BY <1>1, <1>2
  <2>5. QED
    BY <2>2, <2>3, <2>4, OvertakenAppend
<1>11. QED
  BY <1>4, <1>6, <1>8, <1>9, <1>10
LEMMA PostLaterOrder ==
  ASSUME OrderInv, NEW p \in Process, PostLaterStep(p)
  PROVE  OrderInv'
<1> USE DEF OrderInv
<1> DEFINE x == out[p]
<1>1. /\ pc[p] = "post" /\ pc' = [pc EXCEPT ![p] = "idle"]
      /\ buffer' = [buffer EXCEPT ![p] = Append(@, x)]
      /\ late' = [late EXCEPT ![p] = @ \cup {x.n}]
      /\ out' = [out EXCEPT ![p] = NoMessage]
      /\ UNCHANGED <<kernel, sent, got, lost>>
  BY DEF PostLaterStep
<1>2. x \in Message /\ x.from = p /\ x.n = sent[p] /\ x.n \notin late[p] /\ x.n \in Nat \ {0}
  BY <1>1 DEF HandInv, Message
<1>3. buffer[p] \in Seq(Message) /\ late[p] \subseteq 1..sent[p] /\ sent[p] \in Nat
  BY DEF TypeOK
<1> HIDE DEF x
<1>4. /\ Append(buffer[p], x) \in Seq(Message)
      /\ DOMAIN Append(buffer[p], x) = DOMAIN buffer[p] \cup {Len(buffer[p]) + 1}
      /\ \A k \in DOMAIN buffer[p] : k < Len(buffer[p]) + 1 /\ Append(buffer[p], x)[k] = buffer[p][k]
      /\ Append(buffer[p], x)[Len(buffer[p]) + 1] = x
  BY <1>2, <1>3, AppendProperties
<1>5. /\ pc'[p] = "idle" /\ buffer'[p] = Append(buffer[p], x) /\ late'[p] = late[p] \cup {x.n}
      /\ \A r \in Process \ {p} :
           pc'[r] = pc[r] /\ out'[r] = out[r] /\ buffer'[r] = buffer[r] /\ late'[r] = late[r]
  BY <1>1 DEF TypeOK
<1>6. TypeOK'
  <2>1. late' \in [Process -> SUBSET Nat] /\ \A r \in Process : late'[r] \subseteq 1..sent'[r]
    BY <1>1, <1>2, <1>3, <1>5 DEF TypeOK
  <2>2. buffer' \in [Process -> Seq(Message)] /\ pc' \in [Process -> PC]
        /\ out' \in [Process -> Message \cup {NoMessage}]
    BY <1>1, <1>4 DEF TypeOK, PC
  <2>3. QED
    BY <1>1, <2>1, <2>2 DEF TypeOK
<1>7. HandInv'
  BY <1>1, <1>5 DEF HandInv
<1>8. BufferInv'
  <2>1. \A k \in DOMAIN buffer[p] : buffer[p][k].n < x.n /\ k \in Nat
    <3>1. ASSUME NEW k \in DOMAIN buffer[p] PROVE buffer[p][k].n < x.n
      BY <1>2, <1>3 DEF BufferInv
    <3>2. QED
      BY <1>3, <3>1
  <2>2. Len(buffer[p]) \in Nat
    BY <1>3
  <2>3. ASSUME NEW k \in DOMAIN buffer'[p]
        PROVE  /\ buffer'[p][k].from = p /\ buffer'[p][k].n \in late'[p]
               /\ \A j \in DOMAIN buffer'[p] : j < k => buffer'[p][j].n < buffer'[p][k].n
    <3>1. CASE k \in DOMAIN buffer[p]
      BY <1>4, <1>5, <2>1, <2>2, <3>1 DEF BufferInv
    <3>2. CASE k = Len(buffer[p]) + 1
      BY <1>2, <1>4, <1>5, <2>1, <2>2, <3>2
    <3>3. QED
      BY <1>4, <1>5, <3>1, <3>2
  <2>4. QED
    BY <1>5, <2>3 DEF BufferInv
<1>9. Posted' = Posted
  BY <1>1 DEF Posted, Elements
<1>10. \A m \in Posted : m.from = p => m.n < x.n
  <2>1. ASSUME NEW m \in Posted, m.from = p PROVE m.n < x.n
    <3>1. m \in Message /\ m.n <= sent[p] /\ m.n # sent[p]
      BY <1>1, <2>1 DEF PostedInv
    <3>2. QED
      BY <1>2, <1>3, <3>1 DEF Message
  <2>2. QED
    BY <2>1
<1>11. PostedInv'
  <2>1. ASSUME NEW m \in Posted
        PROVE  /\ m \in Message /\ m.n <= sent'[m.from] /\ m \notin InHand(m.from)'
               /\ pc'[m.from] \in {"retry", "post", "block"} => m.n # sent'[m.from]
               /\ m.n \in late'[m.from] => \A k \in DOMAIN buffer'[m.from] : m.n < buffer'[m.from][k].n
    <3>1. /\ m \in Message /\ m.from \in Process /\ m.n \in Nat /\ m.n <= sent[m.from] /\ m \notin InHand(m.from)
          /\ pc[m.from] \in {"retry", "post", "block"} => m.n # sent[m.from]
          /\ m.n \in late[m.from] => \A k \in DOMAIN buffer[m.from] : m.n < buffer[m.from][k].n
      BY DEF PostedInv, Message
    <3>2. CASE m.from = p
      <4>1. m.n < x.n
        BY <1>10, <3>2
      <4>2. m.n \in late'[p] => m.n \in late[p]
        BY <1>2, <1>5, <3>1, <4>1
      <4>3. m.n \in late'[p] => \A k \in DOMAIN buffer'[p] : m.n < buffer'[p][k].n
        BY <1>4, <1>5, <3>1, <3>2, <4>1, <4>2
      <4>4. InHand(p)' = {}
        BY <1>5 DEF InHand
      <4>5. QED
        BY <1>1, <1>5, <3>1, <3>2, <4>3, <4>4
    <3>3. CASE m.from # p
      BY <1>1, <1>5, <3>1, <3>3 DEF InHand
    <3>4. QED
      BY <3>2, <3>3
  <2>2. QED
    BY <1>9, <2>1 DEF PostedInv
<1>12. GotInv'
  BY <1>1 DEF GotInv, Elements
<1>13. OnlyBufferedOvertaken'
  <2>1. SUFFICES ASSUME NEW q \in Process,
                        NEW m \in Elements(got[q]) \cup {k \in Elements(kernel) : k.to = q},
                        NEW n \in Elements(got[q]) \cup {k \in Elements(kernel) : k.to = q},
                        Before(q, m, n), m.from = n.from, m.n > n.n
                 PROVE  n.n \in late'[n.from] /\ m.n \notin late'[m.from]
    BY <1>1 DEF OnlyBufferedOvertaken, Before, Follows, Elements
  <2>2. n.n \in late[n.from] /\ m.n \notin late[m.from]
    BY <2>1 DEF OnlyBufferedOvertaken
  <2>3. m \in Posted /\ m.from \in Process
    BY DEF Posted, PostedInv, Message
  <2>4. m.from = p => m.n # x.n
    BY <1>2, <1>10, <2>3
  <2>5. QED
    BY <1>5, <2>1, <2>2, <2>3, <2>4
<1>14. QED
  BY <1>6, <1>7, <1>8, <1>11, <1>12, <1>13

LEMMA ReadOrder ==
  ASSUME OrderInv, NEW p \in Process, ReadStep(p)
  PROVE  OrderInv'
<1> USE DEF OrderInv
<1>1. /\ pc[p] = "idle" /\ pc' = [pc EXCEPT ![p] = "drain"]
      /\ UNCHANGED <<buffer, out, sent, late, lost>>
  BY DEF ReadStep
<1>2. PICK k \in DOMAIN kernel :
        /\ kernel[k].to = p
        /\ \A j \in 1..(k - 1) : kernel[j].to # p
        /\ got' = [got EXCEPT ![p] = Append(@, kernel[k])]
        /\ kernel' = Removed(kernel, k)
  BY DEF ReadStep
<1> DEFINE x == kernel[k]
<1>3. kernel \in Seq(Message) /\ x \in Message /\ got[p] \in Seq(Message)
  BY DEF TypeOK
<1>4. /\ kernel' \in Seq(Message) /\ Elements(kernel') \subseteq Elements(kernel)
      /\ \A m, n : Follows(kernel', m, n) => Follows(kernel, m, n)
      /\ \A n \in Elements(kernel') : \E j \in DOMAIN kernel : j # k /\ kernel[j] = n
  <2>1. Removed(kernel, k) \in Seq(Message)
    BY <1>3, RemovedProperties
  <2>2. /\ Elements(Removed(kernel, k)) \subseteq Elements(kernel)
        /\ \A m, n : Follows(Removed(kernel, k), m, n) => Follows(kernel, m, n)
        /\ \A n \in Elements(Removed(kernel, k)) : \E j \in DOMAIN kernel : j # k /\ kernel[j] = n
    BY <1>3, RemovedOrder
  <2>3. QED
    BY <1>2, <2>1, <2>2
<1>5. /\ Elements(got'[p]) = Elements(got[p]) \cup {x}
      /\ \A m, n : Follows(got'[p], m, n) => Follows(got[p], m, n) \/ (m \in Elements(got[p]) /\ n = x)
      /\ \A q \in Process \ {p} : got'[q] = got[q]
      /\ got' \in [Process -> Seq(Message)]
  <2>1. /\ Elements(Append(got[p], x)) = Elements(got[p]) \cup {x}
        /\ \A m, n : Follows(Append(got[p], x), m, n) =>
             Follows(got[p], m, n) \/ (m \in Elements(got[p]) /\ n = x)
    BY <1>3, AppendOrder
  <2>2. got'[p] = Append(got[p], x) /\ \A q \in Process \ {p} : got'[q] = got[q]
    BY <1>2 DEF TypeOK
  <2>3. got' \in [Process -> Seq(Message)]
    BY <1>2, <1>3, AppendProperties DEF TypeOK
  <2>4. QED
    BY <2>1, <2>2, <2>3
<1>6. x \in Elements(kernel) /\ x.to = p
  BY <1>2 DEF Elements
<1> HIDE DEF x
<1>7. TypeOK'
  BY <1>1, <1>4, <1>5 DEF TypeOK, PC
<1>8. \A r \in Process : pc'[r] \in {"retry", "post", "block"} => pc[r] \in {"retry", "post", "block"}
  BY <1>1 DEF TypeOK
<1>9. HandInv' /\ BufferInv'
  BY <1>1, <1>8 DEF HandInv, BufferInv
<1>10. Posted' \subseteq Posted
  <2>1. \A q \in Process : Elements(got'[q]) \subseteq Elements(got[q]) \cup Elements(kernel)
    BY <1>5, <1>6
  <2>2. Elements(kernel') \subseteq Elements(kernel)
    BY <1>4
  <2>3. Posted' = Elements(kernel') \cup UNION {Elements(got'[q]) : q \in Process}
    BY DEF Posted, Elements
  <2>4. QED
    BY <2>1, <2>2, <2>3 DEF Posted
<1>11. PostedInv'
  <2>1. ASSUME NEW m \in Posted'
        PROVE  /\ m \in Message /\ m.n <= sent'[m.from] /\ m \notin InHand(m.from)'
               /\ pc'[m.from] \in {"retry", "post", "block"} => m.n # sent'[m.from]
               /\ m.n \in late'[m.from] => \A j \in DOMAIN buffer'[m.from] : m.n < buffer'[m.from][j].n
    <3>1. /\ m \in Message /\ m.n <= sent[m.from] /\ m \notin InHand(m.from)
          /\ pc[m.from] \in {"retry", "post", "block"} => m.n # sent[m.from]
          /\ m.n \in late[m.from] => \A j \in DOMAIN buffer[m.from] : m.n < buffer[m.from][j].n
      BY <1>10 DEF PostedInv
    <3>2. m.from \in Process
      BY <3>1 DEF Message
    <3>3. QED
      BY <1>1, <1>8, <3>1, <3>2 DEF InHand
  <2>2. QED
    BY <2>1 DEF PostedInv
<1>12. GotInv'
  <2>1. \A q \in Process : \A m \in Elements(got'[q]) : m.to = q
    BY <1>5, <1>6 DEF GotInv
  <2>2. QED
    BY <2>1 DEF GotInv, Elements
<1>13. OnlyBufferedOvertaken'
  <2>1. SUFFICES ASSUME NEW q \in Process,
                        NEW m \in Elements(got'[q]) \cup {j \in Elements(kernel') : j.to = q},
                        NEW n \in Elements(got'[q]) \cup {j \in Elements(kernel') : j.to = q},
                        \/ Follows(got'[q], m, n)
                        \/ m \in Elements(got'[q]) /\ n \in Elements(kernel')
                        \/ Follows(kernel', m, n),
                        m.from = n.from, m.n > n.n
                 PROVE  n.n \in late[n.from] /\ m.n \notin late[m.from]
    BY <1>1 DEF OnlyBufferedOvertaken, Before, Follows, Elements
  <2>2. /\ m \in Elements(got[q]) \cup {j \in Elements(kernel) : j.to = q}
        /\ n \in Elements(got[q]) \cup {j \in Elements(kernel) : j.to = q}
    BY <1>4, <1>5, <1>6
  <2>3. n.to = q
    BY <2>2 DEF GotInv
  <2>4. n \in Elements(kernel') /\ q = p => Follows(kernel, x, n)
    <3>1. SUFFICES ASSUME n \in Elements(kernel'), q = p PROVE Follows(kernel, x, n)
      OBVIOUS
    <3>2. PICK j \in DOMAIN kernel : j # k /\ kernel[j] = n
      BY <1>4, <3>1
    <3>3. j \in Nat /\ k \in Nat /\ j >= 1
      BY <1>3
    <3>4. j > k
      BY <1>2, <2>3, <3>1, <3>2, <3>3
    <3>5. QED
      BY <3>2, <3>4 DEF Follows, x
  <2>5. Before(q, m, n)
    <3>1. CASE Follows(got'[q], m, n)
      BY <1>5, <1>6, <3>1 DEF Before
    <3>2. CASE m \in Elements(got'[q]) /\ n \in Elements(kernel')
      BY <1>4, <1>5, <2>4, <3>2 DEF Before
    <3>3. CASE Follows(kernel', m, n)
      BY <1>4, <3>3 DEF Before
    <3>4. QED
      BY <2>1, <3>1, <3>2, <3>3
  <2>6. QED
    BY <2>1, <2>2, <2>5 DEF OnlyBufferedOvertaken
<1>14. QED
  BY <1>7, <1>9, <1>11, <1>12, <1>13

LEMMA MoveOrder ==
  ASSUME OrderInv, UNCHANGED <<kernel, out, sent, got, late>>,
         NEW p \in Process, pc'[p] \in {"retry", "post", "block"} => pc[p] \in {"retry", "post", "block"},
         pc' \in [Process -> PC], \A r \in Process \ {p} : pc'[r] = pc[r],
         lost' \subseteq Message, buffer' \in [Process -> Seq(Message)],
         \A r \in Process : buffer'[r] \in {buffer[r], <<>>},
         pc'[p] = "gone" => buffer'[p] = <<>>
  PROVE  OrderInv'
<1> USE DEF OrderInv
<1>1. \A r \in Process : pc'[r] \in {"retry", "post", "block"} => pc[r] \in {"retry", "post", "block"}
  OBVIOUS
<1>2. TypeOK'
  BY DEF TypeOK
<1>3. HandInv' /\ BufferInv'
  BY <1>1 DEF HandInv, BufferInv
<1>4. Posted' = Posted
  BY DEF Posted, Elements
<1>5. PostedInv'
  <2>1. ASSUME NEW m \in Posted
        PROVE  /\ m \in Message /\ m.n <= sent'[m.from] /\ m \notin InHand(m.from)'
               /\ pc'[m.from] \in {"retry", "post", "block"} => m.n # sent'[m.from]
               /\ m.n \in late'[m.from] => \A j \in DOMAIN buffer'[m.from] : m.n < buffer'[m.from][j].n
    <3>1. /\ m \in Message /\ m.n <= sent[m.from] /\ m \notin InHand(m.from)
          /\ pc[m.from] \in {"retry", "post", "block"} => m.n # sent[m.from]
          /\ m.n \in late[m.from] => \A j \in DOMAIN buffer[m.from] : m.n < buffer[m.from][j].n
      BY DEF PostedInv
    <3>2. m.from \in Process
      BY <3>1 DEF Message
    <3>3. \A j \in DOMAIN buffer'[m.from] : buffer'[m.from] = buffer[m.from]
      BY <3>2
    <3>4. m.n \in late'[m.from] => \A j \in DOMAIN buffer'[m.from] : m.n < buffer'[m.from][j].n
      BY <3>1, <3>3
    <3>5. QED
      BY <1>1, <3>1, <3>2, <3>4 DEF InHand
  <2>2. QED
    BY <1>4, <2>1 DEF PostedInv
<1>6. GotInv' /\ OnlyBufferedOvertaken'
  BY DEF GotInv, OnlyBufferedOvertaken, Before, Follows, Elements
<1>7. QED
  BY <1>2, <1>3, <1>5, <1>6

LEMMA MoveStepOrder ==
  ASSUME OrderInv, NEW p \in Process, MoveStep(p)
  PROVE  OrderInv'
<1>1. pc' \in [Process -> PC] /\ (\A r \in Process \ {p} : pc'[r] = pc[r])
      /\ (pc'[p] \in {"retry", "post", "block"} => pc[p] \in {"retry", "post", "block"})
  BY DEF MoveStep, OrderInv, TypeOK, PC
<1>2. UNCHANGED <<kernel, out, sent, got, late, lost, buffer>>
  BY DEF MoveStep
<1>3. lost' \subseteq Message /\ buffer' \in [Process -> Seq(Message)]
  BY <1>2 DEF OrderInv, TypeOK
<1>4. pc'[p] = "gone" => buffer'[p] = <<>>
  BY <1>2 DEF MoveStep, OrderInv, TypeOK
<1>5. QED
  BY <1>1, <1>2, <1>3, <1>4, MoveOrder

LEMMA ExitOrder ==
  ASSUME OrderInv, NEW p \in Process, Exit(p)
  PROVE  OrderInv'
<1>1. pc' \in [Process -> PC] /\ (\A r \in Process \ {p} : pc'[r] = pc[r]) /\ pc'[p] = "gone"
  BY DEF Exit, Goto, OrderInv, TypeOK, PC
<1>2. UNCHANGED <<kernel, out, sent, got, late>>
  BY DEF Exit
<1>3. buffer' \in [Process -> Seq(Message)] /\ \A r \in Process : buffer'[r] \in {buffer[r], <<>>}
  BY DEF Exit, OrderInv, TypeOK
<1>4. lost' \subseteq Message
  BY DEF Exit, OrderInv, TypeOK
<1>5. buffer'[p] = <<>>
  BY DEF Exit, OrderInv, TypeOK
<1>6. QED
  BY <1>1, <1>2, <1>3, <1>4, <1>5, MoveOrder

LEMMA StepOrder == OrderInv /\ [Next]_vars => OrderInv'
<1> SUFFICES ASSUME OrderInv, [Next]_vars PROVE OrderInv'
  OBVIOUS
<1>1. CASE UNCHANGED vars
  <2>1. UNCHANGED <<kernel, buffer, pc, out, sent, got, late, lost>>
    BY <1>1 DEF vars
  <2>2. TypeOK' /\ HandInv' /\ BufferInv' /\ GotInv'
    BY <2>1 DEF OrderInv, TypeOK, HandInv, BufferInv, GotInv, Elements
  <2>3. PostedInv'
    BY <2>1 DEF OrderInv, PostedInv, Posted, InHand, Elements
  <2>4. OnlyBufferedOvertaken'
    BY <2>1 DEF OrderInv, OnlyBufferedOvertaken, Before, Follows, Elements
  <2>5. QED
    BY <2>2, <2>3, <2>4 DEF OrderInv
<1>2. CASE Next
  <2>1. PICK p \in Process :
           \/ \E q \in Process, size \in Size, next \in {"retry", "block"} : SendStep(p, q, size, next)
           \/ UnbufferStep(p) \/ PostNowStep(p) \/ PostLaterStep(p)
           \/ ReadStep(p) \/ MoveStep(p) \/ Exit(p)
    BY <1>2, NextSteps DEF OrderInv
  <2>2. QED
    BY <2>1, SendOrder, UnbufferOrder, PostNowOrder, PostLaterOrder, ReadOrder, MoveStepOrder, ExitOrder
<1>3. QED
  BY <1>1, <1>2

----------------------------------------------------------------------------
(* The number of copies of a message.                                      *)
Kind(p, n) == {m \in Message : m.from = p /\ m.n = n}
Holds(p) == pc[p] \in {"retry", "post", "block"}

(* How many copies are in the queue, in the buffer and in the hand of p.   *)
InKernel(p, n) == Cardinality(Hits(kernel, Kind(p, n)))
InBuffer(p, n) == Cardinality(Hits(buffer[p], Kind(p, n)))
Held(p, n) == IF Holds(p) /\ out[p].n = n THEN 1 ELSE 0
Received(p, n) == Cardinality(ReadersOf(p, n))
Losses(p, n) == Cardinality(Fallen(p, n))

Counted(p, n) ==
  /\ InKernel(p, n) \in Nat /\ InBuffer(p, n) \in Nat /\ Held(p, n) \in Nat
  /\ Received(p, n) \in Nat /\ Losses(p, n) \in Nat
  /\ Copies(p, n) = InKernel(p, n) + InBuffer(p, n) + Held(p, n) + Received(p, n) + Losses(p, n)

AllCounted ==
  \A p \in Process : \A n \in Nat \ {0} :
    IsFiniteSet(ReadersOf(p, n)) /\ IsFiniteSet(Fallen(p, n)) => Counted(p, n)

LEMMA Counts == TypeOK => AllCounted
<1> SUFFICES ASSUME TypeOK, NEW p \in Process, NEW n \in Nat \ {0},
                    IsFiniteSet(ReadersOf(p, n)), IsFiniteSet(Fallen(p, n))
             PROVE  Counted(p, n)
  BY DEF AllCounted
<1>1. kernel \in Seq(Message) /\ buffer[p] \in Seq(Message) /\ \A q \in Process : got[q] \in Seq(Message)
  BY DEF TypeOK
<1>2. \A s \in Seq(Message) : Numbered(s, p, n) = Hits(s, Kind(p, n))
  BY DEF Numbered, Hits, Kind
<1>3. \A s \in Seq(Message) : Cardinality(Hits(s, Kind(p, n))) \in Nat
  BY HitsFinite
<1>4. Cardinality(ReadersOf(p, n)) \in Nat /\ Cardinality(Fallen(p, n)) \in Nat
  BY FS_CardinalityType
<1>5. {m \in InHand(p) : m.n = n} = IF Holds(p) /\ out[p].n = n THEN {out[p]} ELSE {}
  BY DEF InHand, Holds
<1>6. Cardinality({m \in InHand(p) : m.n = n}) = IF Holds(p) /\ out[p].n = n THEN 1 ELSE 0
  BY <1>5, FS_EmptySet, FS_Singleton
<1>7. QED
  BY <1>1, <1>2, <1>3, <1>4, <1>6
    DEF Copies, Fallen, Counted, InKernel, InBuffer, Held, Received, Losses

LEMMA CountsNext == TypeOK' => AllCounted'
BY Counts, PTL

(* A step that leaves the messages that were read and lost as they are and *)
(* changes the other counts by nothing in total, or by the message sent.   *)
LEMMA CountStep ==
  ASSUME OrderInv, OrderInv', CountInv, UNCHANGED <<got, lost>>,
         \A p \in Process : pc[p] = "gone" => pc'[p] = "gone",
         \A p \in Process : \A n \in Nat \ {0} :
           \/ /\ n <= sent[p] <=> n <= sent'[p]
              /\ InKernel(p, n)' + InBuffer(p, n)' + Held(p, n)' = InKernel(p, n) + InBuffer(p, n) + Held(p, n)
           \/ /\ ~(n <= sent[p]) /\ n <= sent'[p]
              /\ InKernel(p, n)' + InBuffer(p, n)' + Held(p, n)' = InKernel(p, n) + InBuffer(p, n) + Held(p, n) + 1
  PROVE  CountInv'
<1>1. Unlost'
  BY DEF CountInv, Unlost, OrderInv, TypeOK, Message
<1>2. ASSUME NEW p \in Process, NEW n \in Nat \ {0}
      PROVE  (/\ IsFiniteSet(ReadersOf(p, n)) /\ IsFiniteSet(Fallen(p, n))
              /\ Copies(p, n) = IF n <= sent[p] THEN 1 ELSE 0)'
  <2>1. ReadersOf(p, n)' = ReadersOf(p, n) /\ Fallen(p, n)' = Fallen(p, n)
    BY DEF ReadersOf, Numbered, Fallen
  <2>2. IsFiniteSet(ReadersOf(p, n)) /\ IsFiniteSet(Fallen(p, n)) /\ Copies(p, n) = IF n <= sent[p] THEN 1 ELSE 0
    BY DEF CountInv, Conserved
  <2>3. Counted(p, n)
    BY <2>2, Counts DEF OrderInv, AllCounted
  <2>4. IsFiniteSet(ReadersOf(p, n)') /\ IsFiniteSet(Fallen(p, n)')
    BY <2>1, <2>2
  <2>5. Counted(p, n)'
    BY <2>4, CountsNext DEF OrderInv, AllCounted
  <2>6. Received(p, n)' = Received(p, n) /\ Losses(p, n)' = Losses(p, n)
    BY <2>1 DEF Received, Losses
  <2>7. Copies(p, n)' = Copies(p, n) + (IF n <= sent'[p] /\ ~(n <= sent[p]) THEN 1 ELSE 0)
        /\ (n <= sent[p] => n <= sent'[p])
    BY <2>3, <2>5, <2>6 DEF Counted
  <2>8. Copies(p, n)' = IF n <= sent'[p] THEN 1 ELSE 0
    BY <2>2, <2>7
  <2>9. QED
    BY <2>4, <2>8
<1>3. QED
  BY <1>1, <1>2 DEF CountInv, Conserved
(* The same for the process that takes the step: nothing of the others     *)
(* changes but, possibly, the queue, by a message of p.                    *)
LEMMA OthersCount ==
  ASSUME NEW p \in Process, NEW r \in Process \ {p}, NEW n, 
         pc'[r] = pc[r], out'[r] = out[r], buffer'[r] = buffer[r]
  PROVE  Held(r, n)' = Held(r, n) /\ InBuffer(r, n)' = InBuffer(r, n)
BY DEF Held, Holds, InBuffer, Hits

LEMMA KernelAppend ==
  ASSUME NEW x \in Message, kernel \in Seq(Message), kernel' = Append(kernel, x),
         NEW r \in Process, NEW n \in Nat \ {0}
  PROVE  InKernel(r, n)' = InKernel(r, n) + (IF x.from = r /\ x.n = n THEN 1 ELSE 0)
<1>1. Cardinality(Hits(Append(kernel, x), Kind(r, n)))
        = Cardinality(Hits(kernel, Kind(r, n))) + (IF x \in Kind(r, n) THEN 1 ELSE 0)
  BY HitsAppend
<1>2. x \in Kind(r, n) <=> x.from = r /\ x.n = n
  BY DEF Kind
<1>3. InKernel(r, n)' = Cardinality(Hits(Append(kernel, x), Kind(r, n)))
  BY DEF InKernel, Hits, Kind
<1>4. QED
  BY <1>1, <1>2, <1>3 DEF InKernel

LEMMA SendCount ==
  ASSUME OrderInv, CountInv, NEW p \in Process, NEW q \in Process, NEW size \in Size,
         NEW next \in {"retry", "block"}, SendStep(p, q, size, next)
  PROVE  CountInv'
<1>1. /\ pc[p] = "idle" /\ pc' = [pc EXCEPT ![p] = next]
      /\ sent' = [sent EXCEPT ![p] = @ + 1]
      /\ out' = [out EXCEPT ![p] = [from |-> p, to |-> q, size |-> size, n |-> sent[p] + 1]]
      /\ UNCHANGED <<kernel, buffer, got, late, lost>>
  BY DEF SendStep, Send, Goto
<1>2. OrderInv'
  BY SendOrder
<1>3. /\ pc'[p] = next /\ sent'[p] = sent[p] + 1 /\ out'[p].n = sent[p] + 1 /\ sent[p] \in Nat
      /\ \A r \in Process \ {p} : pc'[r] = pc[r] /\ sent'[r] = sent[r] /\ out'[r] = out[r]
  BY <1>1 DEF OrderInv, TypeOK
<1>4. ASSUME NEW r \in Process, NEW n \in Nat \ {0}
      PROVE  InKernel(r, n)' = InKernel(r, n) /\ InBuffer(r, n)' = InBuffer(r, n)
             /\ InKernel(r, n) \in Nat /\ InBuffer(r, n) \in Nat
  <2>1. Counted(r, n)
    BY Counts DEF OrderInv, CountInv, Conserved, AllCounted
  <2>2. QED
    BY <1>1, <2>1 DEF Counted, InKernel, InBuffer, Hits
<1>5. ASSUME NEW n \in Nat \ {0}
      PROVE  Held(p, n) = 0 /\ Held(p, n)' = IF n = sent[p] + 1 THEN 1 ELSE 0
  BY <1>1, <1>3 DEF Held, Holds
<1>6. ASSUME NEW r \in Process \ {p}, NEW n \in Nat \ {0}
      PROVE  Held(r, n)' = Held(r, n) /\ sent'[r] = sent[r]
  BY <1>3 DEF Held, Holds
<1>7. ASSUME NEW r \in Process, NEW n \in Nat \ {0}
      PROVE  \/ /\ n <= sent[r] <=> n <= sent'[r]
                /\ InKernel(r, n)' + InBuffer(r, n)' + Held(r, n)' = InKernel(r, n) + InBuffer(r, n) + Held(r, n)
             \/ /\ ~(n <= sent[r]) /\ n <= sent'[r]
                /\ InKernel(r, n)' + InBuffer(r, n)' + Held(r, n)' = InKernel(r, n) + InBuffer(r, n) + Held(r, n) + 1
  <2>1. CASE r = p
    BY <1>3, <1>4, <1>5, <2>1
  <2>2. CASE r # p
    BY <1>4, <1>6, <2>2
  <2>3. QED
    BY <2>1, <2>2
<1>8. \A r \in Process : pc[r] = "gone" => pc'[r] = "gone"
  BY <1>1, <1>3
<1>9. UNCHANGED <<got, lost>>
  BY <1>1
<1>10. QED
  BY <1>2, <1>7, <1>8, <1>9, CountStep

LEMMA UnbufferCount ==
  ASSUME OrderInv, CountInv, NEW p \in Process, UnbufferStep(p)
  PROVE  CountInv'
<1> DEFINE x == Head(buffer[p])
<1>1. /\ buffer[p] \in Seq(Message) /\ buffer[p] # <<>> /\ kernel \in Seq(Message)
      /\ kernel' = Append(kernel, x) /\ buffer' = [buffer EXCEPT ![p] = Tail(@)]
      /\ UNCHANGED <<pc, out, sent, got, late, lost>>
  BY DEF UnbufferStep, Unbuffer, OrderInv, TypeOK
<1>2. OrderInv'
  BY UnbufferOrder
<1>3. x \in Message /\ x.from = p
  <2>1. x = buffer[p][1] /\ 1 \in DOMAIN buffer[p] /\ x \in Message
    BY <1>1
  <2>2. QED
    BY <2>1 DEF OrderInv, BufferInv
<1>4. ASSUME NEW r \in Process, NEW n \in Nat \ {0}
      PROVE  InKernel(r, n)' + InBuffer(r, n)' + Held(r, n)' = InKernel(r, n) + InBuffer(r, n) + Held(r, n)
  <2>1. Counted(r, n) /\ Counted(r, n)'
    <3>1. ReadersOf(r, n)' = ReadersOf(r, n) /\ Fallen(r, n)' = Fallen(r, n)
      BY <1>1 DEF ReadersOf, Numbered, Fallen
    <3>2. IsFiniteSet(ReadersOf(r, n)) /\ IsFiniteSet(Fallen(r, n))
      BY DEF CountInv, Conserved
    <3>3. QED
      BY <1>2, <3>1, <3>2, Counts, CountsNext DEF OrderInv, AllCounted
  <2>2. Held(r, n)' = Held(r, n)
    BY <1>1 DEF Held, Holds
  <2>3. InKernel(r, n)' = InKernel(r, n) + (IF x.from = r /\ x.n = n THEN 1 ELSE 0)
    BY <1>1, <1>3, KernelAppend
  <2>4. CASE r = p
    <3>1. Cardinality(Hits(buffer[p], Kind(p, n)))
            = Cardinality(Hits(Tail(buffer[p]), Kind(p, n))) + (IF x \in Kind(p, n) THEN 1 ELSE 0)
      BY <1>1, HitsTail
    <3>2. InBuffer(p, n)' = Cardinality(Hits(Tail(buffer[p]), Kind(p, n)))
      BY <1>1 DEF InBuffer, Hits, OrderInv, TypeOK
    <3>3. x \in Kind(p, n) <=> x.n = n
      BY <1>3 DEF Kind
    <3> HIDE DEF x
    <3>4. InBuffer(p, n) = InBuffer(p, n)' + (IF x.n = n THEN 1 ELSE 0)
      BY <3>1, <3>2, <3>3 DEF InBuffer
    <3>5. QED
      BY <1>3, <2>1, <2>2, <2>3, <2>4, <3>4 DEF Counted
  <2>5. CASE r # p
    <3>1. InBuffer(r, n)' = InBuffer(r, n)
      BY <1>1, <2>5 DEF InBuffer, Hits, OrderInv, TypeOK
    <3> HIDE DEF x
    <3>2. QED
      BY <1>3, <2>1, <2>2, <2>3, <2>5, <3>1 DEF Counted
  <2>6. QED
    BY <2>4, <2>5
<1>5. UNCHANGED <<got, lost, pc, sent>>
  BY <1>1
<1>6. QED
  BY <1>2, <1>4, <1>5, CountStep

LEMMA PostNowCount ==
  ASSUME OrderInv, CountInv, NEW p \in Process, PostNowStep(p)
  PROVE  CountInv'
<1> DEFINE x == out[p]
<1>1. /\ pc[p] \in {"post", "block"} /\ pc' = [pc EXCEPT ![p] = "idle"]
      /\ kernel' = Append(kernel, x) /\ out' = [out EXCEPT ![p] = NoMessage]
      /\ UNCHANGED <<buffer, sent, got, late, lost>>
  BY DEF PostNowStep
<1>2. OrderInv'
  BY PostNowOrder
<1>3. x \in Message /\ x.from = p
  BY <1>1 DEF OrderInv, HandInv
<1>4. /\ pc'[p] = "idle" /\ kernel \in Seq(Message)
      /\ \A r \in Process \ {p} : pc'[r] = pc[r] /\ out'[r] = out[r]
  BY <1>1 DEF OrderInv, TypeOK
<1>5. ASSUME NEW r \in Process, NEW n \in Nat \ {0}
      PROVE  InKernel(r, n)' + InBuffer(r, n)' + Held(r, n)' = InKernel(r, n) + InBuffer(r, n) + Held(r, n)
  <2>1. Counted(r, n)
    BY Counts DEF OrderInv, CountInv, Conserved, AllCounted
  <2>2. InBuffer(r, n)' = InBuffer(r, n)
    BY <1>1 DEF InBuffer, Hits
  <2>3. InKernel(r, n)' = InKernel(r, n) + (IF x.from = r /\ x.n = n THEN 1 ELSE 0)
    BY <1>1, <1>3, <1>4, KernelAppend
  <2>4. CASE r = p
    <3>1. Held(p, n)' = 0 /\ Held(p, n) = IF x.n = n THEN 1 ELSE 0
      BY <1>1, <1>4 DEF Held, Holds
    <3> HIDE DEF x
    <3>2. QED
      BY <1>3, <2>1, <2>2, <2>3, <2>4, <3>1 DEF Counted
  <2>5. CASE r # p
    <3>1. Held(r, n)' = Held(r, n)
      BY <1>4, <2>5 DEF Held, Holds
    <3> HIDE DEF x
    <3>2. QED
      BY <1>3, <2>1, <2>2, <2>3, <2>5, <3>1 DEF Counted
  <2>6. QED
    BY <2>4, <2>5
<1>6. UNCHANGED <<got, lost, sent>> /\ \A r \in Process : pc[r] = "gone" => pc'[r] = "gone"
  BY <1>1, <1>4
<1>7. QED
  BY <1>2, <1>5, <1>6, CountStep

LEMMA PostLaterCount ==
  ASSUME OrderInv, CountInv, NEW p \in Process, PostLaterStep(p)
  PROVE  CountInv'
<1> DEFINE x == out[p]
<1>1. /\ pc[p] = "post" /\ pc' = [pc EXCEPT ![p] = "idle"]
      /\ buffer' = [buffer EXCEPT ![p] = Append(@, x)]
      /\ out' = [out EXCEPT ![p] = NoMessage]
      /\ UNCHANGED <<kernel, sent, got, lost>>
  BY DEF PostLaterStep
<1>2. OrderInv'
  BY PostLaterOrder
<1>3. x \in Message /\ x.from = p /\ buffer[p] \in Seq(Message)
  BY <1>1 DEF OrderInv, HandInv, TypeOK
<1>4. /\ pc'[p] = "idle" /\ buffer'[p] = Append(buffer[p], x)
      /\ \A r \in Process \ {p} : pc'[r] = pc[r] /\ out'[r] = out[r] /\ buffer'[r] = buffer[r]
  BY <1>1 DEF OrderInv, TypeOK
<1>5. ASSUME NEW r \in Process, NEW n \in Nat \ {0}
      PROVE  InKernel(r, n)' + InBuffer(r, n)' + Held(r, n)' = InKernel(r, n) + InBuffer(r, n) + Held(r, n)
  <2>1. Counted(r, n)
    BY Counts DEF OrderInv, CountInv, Conserved, AllCounted
  <2>2. InKernel(r, n)' = InKernel(r, n)
    BY <1>1 DEF InKernel, Hits
  <2>3. CASE r = p
    <3>1. Held(p, n)' = 0 /\ Held(p, n) = IF x.n = n THEN 1 ELSE 0
      BY <1>1, <1>4 DEF Held, Holds
    <3>2. Cardinality(Hits(Append(buffer[p], x), Kind(p, n)))
            = Cardinality(Hits(buffer[p], Kind(p, n))) + (IF x \in Kind(p, n) THEN 1 ELSE 0)
      BY <1>3, HitsAppend
    <3>3. InBuffer(p, n)' = Cardinality(Hits(Append(buffer[p], x), Kind(p, n)))
      BY <1>4 DEF InBuffer, Hits
    <3>4. x \in Kind(p, n) <=> x.n = n
      BY <1>3 DEF Kind
    <3> HIDE DEF x
    <3>5. InBuffer(p, n)' = InBuffer(p, n) + (IF x.n = n THEN 1 ELSE 0)
      BY <3>2, <3>3, <3>4 DEF InBuffer
    <3>6. QED
      BY <2>1, <2>2, <2>3, <3>1, <3>5 DEF Counted
  <2>4. CASE r # p
    <3>1. Held(r, n)' = Held(r, n) /\ InBuffer(r, n)' = InBuffer(r, n)
      BY <1>4, <2>4, OthersCount
    <3>2. QED
      BY <2>1, <2>2, <3>1 DEF Counted
  <2>5. QED
    BY <2>3, <2>4
<1>6. UNCHANGED <<got, lost, sent>> /\ \A r \in Process : pc[r] = "gone" => pc'[r] = "gone"
  BY <1>1, <1>4
<1>7. QED
  BY <1>2, <1>5, <1>6, CountStep
LEMMA MoveCount ==
  ASSUME OrderInv, CountInv, NEW p \in Process, MoveStep(p)
  PROVE  CountInv'
<1>1. /\ pc[p] \in {"retry", "drain", "idle", "resend"} /\ (pc[p] = "retry" <=> pc'[p] = "post")
      /\ pc'[p] \in {"post", "idle", "resend", "gone"}
      /\ \A r \in Process \ {p} : pc'[r] = pc[r]
      /\ UNCHANGED <<kernel, buffer, out, sent, got, late, lost>>
  BY DEF MoveStep, OrderInv, TypeOK
<1>2. OrderInv'
  BY MoveStepOrder
<1>3. ASSUME NEW r \in Process, NEW n \in Nat \ {0}
      PROVE  InKernel(r, n)' + InBuffer(r, n)' + Held(r, n)' = InKernel(r, n) + InBuffer(r, n) + Held(r, n)
  BY <1>1 DEF InKernel, InBuffer, Hits, Held, Holds
<1>4. \A r \in Process : pc[r] = "gone" => pc'[r] = "gone"
  BY <1>1
<1>5. QED
  BY <1>1, <1>2, <1>3, <1>4, CountStep

(* A message that is read leaves the queue; since it was nowhere else,     *)
(* nobody had read it before.                                              *)
LEMMA ReadCount ==
  ASSUME OrderInv, CountInv, NEW p \in Process, ReadStep(p)
  PROVE  CountInv'
<1>1. PICK k \in DOMAIN kernel :
        /\ got' = [got EXCEPT ![p] = Append(@, kernel[k])]
        /\ kernel' = Removed(kernel, k)
  BY DEF ReadStep
<1>2. /\ pc[p] = "idle" /\ pc' = [pc EXCEPT ![p] = "drain"]
      /\ UNCHANGED <<buffer, out, sent, late, lost>>
  BY DEF ReadStep
<1> DEFINE x == kernel[k]
<1>3. OrderInv'
  BY ReadOrder
<1>4. kernel \in Seq(Message) /\ got[p] \in Seq(Message) /\ x \in Message
  BY DEF OrderInv, TypeOK
<1>5. /\ \A r \in Process \ {p} : pc'[r] = pc[r] /\ got'[r] = got[r]
      /\ pc'[p] = "drain" /\ got'[p] = Append(got[p], x)
  BY <1>1, <1>2 DEF OrderInv, TypeOK
<1>6. Unlost'
  BY <1>2, <1>5 DEF CountInv, Unlost, OrderInv, TypeOK, Message
<1>7. ASSUME NEW r \in Process, NEW n \in Nat \ {0}
      PROVE  (/\ IsFiniteSet(ReadersOf(r, n)) /\ IsFiniteSet(Fallen(r, n))
              /\ Copies(r, n) = IF n <= sent[r] THEN 1 ELSE 0)'
  <2>1. IsFiniteSet(ReadersOf(r, n)) /\ IsFiniteSet(Fallen(r, n))
        /\ Copies(r, n) = IF n <= sent[r] THEN 1 ELSE 0
    BY DEF CountInv, Conserved
  <2>2. Counted(r, n)
    BY <2>1, Counts DEF OrderInv, AllCounted
  <2>3. InBuffer(r, n)' = InBuffer(r, n) /\ Held(r, n)' = Held(r, n) /\ Fallen(r, n)' = Fallen(r, n)
    BY <1>2, <1>5 DEF InBuffer, Hits, Held, Holds, Fallen
  <2>4. InKernel(r, n) = InKernel(r, n)' + (IF x \in Kind(r, n) THEN 1 ELSE 0)
    <3>1. Cardinality(Hits(kernel, Kind(r, n)))
            = Cardinality(Hits(Removed(kernel, k), Kind(r, n))) + (IF kernel[k] \in Kind(r, n) THEN 1 ELSE 0)
      BY <1>4, HitsRemoved
    <3>2. InKernel(r, n)' = Cardinality(Hits(Removed(kernel, k), Kind(r, n)))
      BY <1>1 DEF InKernel, Hits, Kind
    <3>3. QED
      BY <3>1, <3>2 DEF InKernel
  <2>5. InKernel(r, n)' \in Nat
    <3>1. kernel' \in Seq(Message)
      BY <1>3 DEF OrderInv, TypeOK
    <3>2. Cardinality(Hits(kernel', Kind(r, n))) \in Nat
      BY <3>1, HitsFinite
    <3>3. QED
      BY <3>2 DEF InKernel, Hits, Kind
  <2>6. x \in Kind(r, n) <=> x.from = r /\ x.n = n
    BY <1>4 DEF Kind
  <2>7. \A q \in Process \ {p} : q \in ReadersOf(r, n)' <=> q \in ReadersOf(r, n)
    BY <1>5 DEF ReadersOf, Numbered
  <2>8. p \in ReadersOf(r, n)' <=> p \in ReadersOf(r, n) \/ x \in Kind(r, n)
    <3>1. /\ DOMAIN Append(got[p], x) = DOMAIN got[p] \cup {Len(got[p]) + 1}
          /\ \A j \in DOMAIN got[p] : Append(got[p], x)[j] = got[p][j]
          /\ Append(got[p], x)[Len(got[p]) + 1] = x
      BY <1>4, AppendProperties
    <3>2. p \in ReadersOf(r, n)' <=>
            \E j \in DOMAIN Append(got[p], x) : Append(got[p], x)[j].from = r /\ Append(got[p], x)[j].n = n
      BY <1>5 DEF ReadersOf, Numbered
    <3>3. p \in ReadersOf(r, n) <=> \E j \in DOMAIN got[p] : got[p][j].from = r /\ got[p][j].n = n
      BY DEF ReadersOf, Numbered
    <3> HIDE DEF x
    <3>4. QED
      BY <2>6, <3>1, <3>2, <3>3
  <2>9. ReadersOf(r, n)' \subseteq Process /\ ReadersOf(r, n) \subseteq Process
    BY DEF ReadersOf
  <2> HIDE DEF x
  <2>10. CASE x \in Kind(r, n)
    <3>1. Received(r, n) = 0 /\ Copies(r, n) = 1
      BY <2>1, <2>2, <2>4, <2>5, <2>10 DEF Counted
    <3>2. ReadersOf(r, n) = {}
      BY <2>1, <3>1, FS_EmptySet DEF Received
    <3>3. ReadersOf(r, n)' = {p}
      BY <2>7, <2>8, <2>9, <2>10, <3>2
    <3>4. IsFiniteSet(ReadersOf(r, n)') /\ Received(r, n)' = 1 /\ IsFiniteSet(Fallen(r, n)')
      <4>1. \A z : IsFiniteSet({z}) /\ Cardinality({z}) = 1
        BY FS_Singleton
      <4>2. QED
        BY <2>1, <2>3, <3>3, <4>1 DEF Received
    <3>5. Counted(r, n)'
      BY <1>3, <3>4, CountsNext DEF OrderInv, AllCounted
    <3>6. Losses(r, n)' = Losses(r, n)
      BY <2>3 DEF Losses
    <3>7. Copies(r, n)' = Copies(r, n)
      BY <2>2, <2>3, <2>4, <2>10, <3>1, <3>4, <3>5, <3>6 DEF Counted
    <3>8. QED
      BY <1>2, <2>1, <3>4, <3>7
  <2>11. CASE x \notin Kind(r, n)
    <3>1. ReadersOf(r, n)' = ReadersOf(r, n)
      BY <2>7, <2>8, <2>9, <2>11
    <3>2. IsFiniteSet(ReadersOf(r, n)') /\ Received(r, n)' = Received(r, n) /\ IsFiniteSet(Fallen(r, n)')
      BY <2>1, <2>3, <3>1 DEF Received
    <3>3. Counted(r, n)'
      BY <1>3, <3>2, CountsNext DEF OrderInv, AllCounted
    <3>4. Losses(r, n)' = Losses(r, n)
      BY <2>3 DEF Losses
    <3>5. Copies(r, n)' = Copies(r, n)
      BY <2>2, <2>3, <2>4, <2>11, <3>2, <3>3, <3>4 DEF Counted
    <3>6. QED
      BY <1>2, <2>1, <3>2, <3>5
  <2>12. QED
    BY <2>10, <2>11
<1>8. QED
  BY <1>6, <1>7 DEF CountInv, Conserved

(* The buffer of a process that exits is lost, each message of it once.    *)
LEMMA ExitCount ==
  ASSUME OrderInv, CountInv, NEW p \in Process, Exit(p)
  PROVE  CountInv'
<1>1. /\ pc[p] = "idle" /\ pc' = [pc EXCEPT ![p] = "gone"]
      /\ lost' = lost \cup {buffer[p][k] : k \in DOMAIN buffer[p]}
      /\ buffer' = [buffer EXCEPT ![p] = <<>>]
      /\ UNCHANGED <<kernel, out, sent, got, late>>
  BY DEF Exit, Goto
<1>2. OrderInv'
  BY ExitOrder
<1>3. /\ \A r \in Process \ {p} : pc'[r] = pc[r] /\ buffer'[r] = buffer[r] /\ out'[r] = out[r]
      /\ pc'[p] = "gone" /\ buffer'[p] = <<>> /\ buffer[p] \in Seq(Message)
  BY <1>1 DEF OrderInv, TypeOK
<1>4. \A k \in DOMAIN buffer[p] : buffer[p][k] \in Message /\ buffer[p][k].from = p
  BY <1>3 DEF OrderInv, BufferInv
<1>5. Unlost'
  <2>1. \A m \in lost : m.from \in Process /\ pc[m.from] = "gone"
    BY DEF CountInv, Unlost, OrderInv, TypeOK, Message
  <2>2. \A m \in lost' : m.from = p \/ (m \in lost /\ m.from \in Process \ {p})
    BY <1>1, <1>4, <2>1
  <2>3. QED
    BY <1>3, <2>1, <2>2 DEF Unlost
<1>6. ASSUME NEW r \in Process, NEW n \in Nat \ {0}
      PROVE  (/\ IsFiniteSet(ReadersOf(r, n)) /\ IsFiniteSet(Fallen(r, n))
              /\ Copies(r, n) = IF n <= sent[r] THEN 1 ELSE 0)'
  <2>1. IsFiniteSet(ReadersOf(r, n)) /\ IsFiniteSet(Fallen(r, n))
        /\ Copies(r, n) = IF n <= sent[r] THEN 1 ELSE 0
    BY DEF CountInv, Conserved
  <2>2. Counted(r, n)
    BY <2>1, Counts DEF OrderInv, AllCounted
  <2>3. ReadersOf(r, n)' = ReadersOf(r, n) /\ InKernel(r, n)' = InKernel(r, n)
    BY <1>1 DEF ReadersOf, Numbered, InKernel, Hits
  <2>4. Held(r, n)' = Held(r, n)
    BY <1>1, <1>3 DEF Held, Holds
  <2>5. Received(r, n)' = Received(r, n)
    BY <2>3 DEF Received
  <2>6. IsFiniteSet(Fallen(r, n)') /\ InBuffer(r, n)' + Losses(r, n)' = InBuffer(r, n) + Losses(r, n)
    <3>1. CASE r # p
      <4>1. Fallen(r, n)' = Fallen(r, n)
        BY <1>1, <1>4, <3>1 DEF Fallen
      <4>2. InBuffer(r, n)' = InBuffer(r, n)
        BY <1>3, <3>1, OthersCount
      <4>3. QED
        BY <2>1, <4>1, <4>2 DEF Losses
    <3>2. CASE r = p /\ Hits(buffer[p], Kind(p, n)) = {}
      <4>1. Fallen(p, n)' = Fallen(p, n)
        BY <1>1, <1>4, <3>2 DEF Fallen, Hits, Kind
      <4>2. InBuffer(p, n)' = 0 /\ InBuffer(p, n) = 0
        BY <1>3, <3>2, HitsEmpty, FS_EmptySet DEF InBuffer, Hits
      <4>3. QED
        BY <2>1, <3>2, <4>1, <4>2 DEF Losses
    <3>3. CASE r = p /\ Hits(buffer[p], Kind(p, n)) # {}
      <4>1. IsFiniteSet(Hits(buffer[p], Kind(p, n)))
        BY <1>3, HitsFinite
      <4>2. InBuffer(p, n) # 0
        BY <3>3, <4>1, FS_EmptySet DEF InBuffer
      <4>3. InBuffer(p, n) = 1 /\ Losses(p, n) = 0
        <5>1. Counted(p, n) /\ Copies(p, n) \in {0, 1}
          BY <2>1, <2>2, <3>3
        <5>2. /\ InKernel(p, n) \in Nat /\ InBuffer(p, n) \in Nat /\ Held(p, n) \in Nat
              /\ Received(p, n) \in Nat /\ Losses(p, n) \in Nat
              /\ InKernel(p, n) + InBuffer(p, n) + Held(p, n) + Received(p, n) + Losses(p, n) \in {0, 1}
          BY <5>1 DEF Counted
        <5>3. PICK a, b, c, d, e \in Nat :
                /\ InKernel(p, n) = a /\ InBuffer(p, n) = b /\ Held(p, n) = c
                /\ Received(p, n) = d /\ Losses(p, n) = e
          BY <5>2
        <5>4. a + b + c + d + e \in {0, 1} /\ b # 0
          BY <4>2, <5>2, <5>3
        <5>5. b = 1 /\ e = 0
          BY <5>4
        <5>6. QED
          BY <5>3, <5>5
      <4>4. Fallen(p, n) = {}
        BY <2>1, <3>3, <4>3, FS_EmptySet DEF Losses
      <4>5. PICK k : Hits(buffer[p], Kind(p, n)) = {k}
        BY <4>1, <4>3, FS_Singleton DEF InBuffer
      <4>6. Fallen(p, n)' = {buffer[p][k]}
        BY <1>1, <1>4, <4>4, <4>5 DEF Fallen, Hits, Kind
      <4>7. IsFiniteSet(Fallen(p, n)') /\ Losses(p, n)' = 1
        <5>1. \A z : IsFiniteSet({z}) /\ Cardinality({z}) = 1
          BY FS_Singleton
        <5>2. QED
          BY <4>6, <5>1 DEF Losses
      <4>8. InBuffer(p, n)' = 0
        BY <1>3, HitsEmpty DEF InBuffer, Hits
      <4>9. QED
        BY <3>3, <4>3, <4>7, <4>8
    <3>4. QED
      BY <3>1, <3>2, <3>3
  <2>7. IsFiniteSet(ReadersOf(r, n)')
    BY <2>1, <2>3
  <2>8. Counted(r, n)'
    BY <1>2, <2>6, <2>7, CountsNext DEF OrderInv, AllCounted
  <2>9. Copies(r, n)' = Copies(r, n)
    BY <2>2, <2>3, <2>4, <2>5, <2>6, <2>8 DEF Counted
  <2>10. QED
    BY <1>1, <2>1, <2>6, <2>7, <2>9
<1>7. QED
  BY <1>5, <1>6 DEF CountInv, Conserved

LEMMA StepCount == OrderInv /\ CountInv /\ [Next]_vars => CountInv'
<1> SUFFICES ASSUME OrderInv, CountInv, [Next]_vars PROVE CountInv'
  OBVIOUS
<1>1. CASE UNCHANGED vars
  <2>1. UNCHANGED <<kernel, buffer, pc, out, sent, got, late, lost>>
    BY <1>1 DEF vars
  <2>2. Unlost'
    BY <2>1 DEF CountInv, Unlost
  <2>3. \A p, n : ReadersOf(p, n)' = ReadersOf(p, n) /\ Fallen(p, n)' = Fallen(p, n)
    BY <2>1 DEF ReadersOf, Fallen, Numbered
  <2>4. \A p, n : Copies(p, n)' = Copies(p, n)
    BY <2>1, <2>3 DEF Copies, Numbered, InHand
  <2>5. QED
    BY <2>1, <2>2, <2>3, <2>4 DEF CountInv, Conserved
<1>2. CASE Next
  <2>1. PICK p \in Process :
           \/ \E q \in Process, size \in Size, next \in {"retry", "block"} : SendStep(p, q, size, next)
           \/ UnbufferStep(p) \/ PostNowStep(p) \/ PostLaterStep(p)
           \/ ReadStep(p) \/ MoveStep(p) \/ Exit(p)
    BY <1>2, NextSteps DEF OrderInv
  <2>2. QED
    BY <2>1, SendCount, UnbufferCount, PostNowCount, PostLaterCount, ReadCount, MoveCount, ExitCount
<1>3. QED
  BY <1>1, <1>2

----------------------------------------------------------------------------
LEMMA Invariance == Spec => []IInv
<1>1. Init => IInv
  BY InitOrderInv, InitCountInv DEF IInv
<1>2. IInv /\ [Next]_vars => IInv'
  BY StepOrder, StepCount DEF IInv
<1>3. QED
  BY <1>1, <1>2, PTL DEF Spec

(* The queue and the buffers hold messages, and a process has buffered     *)
(* only messages it was asked to send (utils/ipc/min_ipc_mechanism.c).     *)
THEOREM TypeCorrect == Spec => []TypeOK
<1>1. IInv => TypeOK
  BY DEF IInv, OrderInv
<1>2. QED
  BY <1>1, Invariance, PTL

(* Whatever the retry loops of mq_wrapper_around_msgsnd, mq_read_message   *)
(* and mq_resend_buffered do in between each other, each message that was  *)
(* handed to mq_send_message is in exactly one place, and only the end of  *)
(* its sender loses one.                                                   *)
THEOREM EachMessageOnce == Spec => []ExactlyOnce
<1>1. IInv => ExactlyOnce
  <2> SUFFICES ASSUME IInv PROVE ExactlyOnce
    OBVIOUS
  <2>1. \A p \in Process : \A n \in 1..sent[p] : n \in Nat \ {0} /\ n <= sent[p]
    BY DEF IInv, OrderInv, TypeOK
  <2>2. QED
    BY <2>1 DEF IInv, CountInv, Conserved, Unlost, ExactlyOnce
<1>2. QED
  BY <1>1, Invariance, PTL

(* The new message is tried even when older ones are still in the buffer,  *)
(* so messages do overtake each other; but only those that were buffered   *)
(* are overtaken, and only by those that were not.                         *)
THEOREM OvertakingIsLimited == Spec => []OnlyBufferedOvertaken
<1>1. IInv => OnlyBufferedOvertaken
  BY DEF IInv, OrderInv
<1>2. QED
  BY <1>1, Invariance, PTL

=============================================================================
