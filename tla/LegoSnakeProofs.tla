--------------------------- MODULE LegoSnakeProofs --------------------------
(***************************************************************************)
(* Proofs about LegoSnake for scripts of any length and any numbers of     *)
(* passes: its type correctness for every script that is accepted; for     *)
(* regular ones, that the clean-up frees each piece once and that a script *)
(* does what the manual says.                                              *)
(***************************************************************************)
EXTENDS LegoSnake, FunctionTheorems, FiniteSetTheorems, SequenceTheorems, WellFoundedInduction, TLAPS

Type(i) == pieces[i].type
IsOpen(i) == \E k \in DOMAIN nesting : nesting[k] = i

(* A loop and its endloop, an if and its endif.                            *)
LoopPair(l, e) ==
  /\ l \in DOMAIN pieces /\ Type(l) = "loop"
  /\ e \in DOMAIN pieces /\ Type(e) = "endloop" /\ pieces[e].loopback = l
IfPair(i, f) ==
  /\ i \in DOMAIN pieces /\ Type(i) = "if"
  /\ f \in DOMAIN pieces /\ Type(f) = "endif" /\ pieces[i].end = f
Block(a, b) == LoopPair(a, b) \/ IfPair(a, b)
ElseOf(i, e) ==
  /\ i \in DOMAIN pieces /\ Type(i) = "if"
  /\ e \in DOMAIN pieces /\ Type(e) = "else" /\ pieces[i].else = e

(* The pieces are those of the lines, with a start and in the end an end.  *)
ShapeInv ==
  /\ pieces \in Seq(Pieces) /\ Len(lines) <= MaxLines
  /\ Len(pieces) = Len(lines) + (IF phase = "build" THEN 1 ELSE 2)
  /\ Type(1) = "start"
  /\ phase # "build" => Type(Len(pieces)) = "end" /\ nesting = <<>>
  /\ \A k \in DOMAIN lines : Type(k + 1) = lines[k].type

PairInv ==
  /\ \A e \in DOMAIN pieces : Type(e) = "endloop" => \E l \in DOMAIN pieces :
       LoopPair(l, e) /\ l < e /\ pieces[e].total = pieces[l].total /\ pieces[e].timed = pieces[l].timed
  /\ \A e \in DOMAIN pieces : Type(e) # "endloop" => pieces[e].loopback = 0
  /\ \A l, d, e \in DOMAIN pieces : LoopPair(l, d) /\ LoopPair(l, e) => d = e
  /\ \A l \in DOMAIN pieces : Type(l) = "loop" /\ ~IsOpen(l) => \E e \in DOMAIN pieces : LoopPair(l, e)
  /\ \A f \in DOMAIN pieces : Type(f) = "endif" => \E i \in DOMAIN pieces : IfPair(i, f)
  /\ \A i, f \in DOMAIN pieces : IfPair(i, f) => i < f /\ pieces[f].else = pieces[i].else
  /\ \A i, j, f \in DOMAIN pieces : IfPair(i, f) /\ IfPair(j, f) => i = j
  /\ \A i \in DOMAIN pieces : Type(i) = "if" =>
       IF IsOpen(i) THEN pieces[i].end = 0 ELSE \E f \in DOMAIN pieces : IfPair(i, f)

ElseInv ==
  /\ \A i \in DOMAIN pieces : Type(i) = "if" /\ pieces[i].else # 0 => \E e \in DOMAIN pieces :
       ElseOf(i, e) /\ i < e /\ pieces[e].prev = e - 1 /\ (~IsOpen(i) => e < pieces[i].end)
  /\ \A e \in DOMAIN pieces : Type(e) = "else" => \E i \in DOMAIN pieces : ElseOf(i, e)
  /\ \A i, j, e \in DOMAIN pieces : ElseOf(i, e) /\ ElseOf(j, e) => i = j

(* Blocks are nested.                                                      *)
NestInv ==
  /\ \A j, k \in DOMAIN nesting : j < k => nesting[j] < nesting[k]
  /\ \A i : IsOpen(i) => i \in DOMAIN pieces /\ Type(i) \in {"loop", "if"}
  /\ \A a, b \in DOMAIN pieces : \A o : Block(a, b) /\ IsOpen(o) => o < a \/ b < o
  /\ \A a, b, c, d \in DOMAIN pieces : Block(a, b) /\ Block(c, d) /\ a < c /\ c < b => d < b
  /\ \A i, e, c, d \in DOMAIN pieces : ElseOf(i, e) /\ Block(c, d) /\ i < c /\ c < e => d < e
  /\ \A i, e \in DOMAIN pieces : \A o : ElseOf(i, e) /\ IsOpen(o) /\ i < o => e < o

(* The link as mli_create has left it.                                     *)
Link(i) ==
  IF Type(i) = "endloop" /\ pieces[i].beyond # 0 THEN pieces[i].beyond ELSE pieces[i].next
LoopedBack(e) == Type(e) = "endloop" /\ pieces[e].next = pieces[e].loopback

LinkInv ==
  /\ pieces[Len(pieces)].next = 0 /\ (Type(Len(pieces)) = "endloop" => pieces[Len(pieces)].beyond = 0)
  /\ \A i \in DOMAIN pieces : i # Len(pieces) =>
       IF Type(i + 1) = "else"
       THEN \A j \in DOMAIN pieces : ElseOf(j, i + 1) => Link(i) = IF IsOpen(j) THEN i + 1 ELSE pieces[j].end
       ELSE Link(i) = i + 1
  /\ \A e \in DOMAIN pieces : Type(e) = "endloop" =>
       /\ pieces[e].next \in {Link(e), pieces[e].loopback}
       /\ LoopedBack(e) => pieces[e].beyond # 0
       /\ phase = "build" => pieces[e].beyond = 0 /\ pieces[e].counter = 0

(* The interpreter is inside the loops that are looped back.               *)
PlaceInv ==
  /\ phase = "build" => current = 0
  /\ phase = "run" => current \in DOMAIN pieces
  /\ \A e \in DOMAIN pieces : LoopedBack(e) => pieces[e].loopback <= current /\ current <= e
  /\ phase = "ended" /\ ~cut => current = 0

Encloses(l, b) ==
  /\ l \in DOMAIN pieces /\ Type(l) = "loop" /\ l < b
  /\ IsOpen(l) \/ \E e \in DOMAIN pieces : LoopPair(l, e) /\ b < e

BreakInv == \A b \in DOMAIN pieces : Type(b) = "breakloop" => \E l \in DOMAIN pieces : Encloses(l, b)

SnakeInv == TypeOK /\ ShapeInv /\ PairInv /\ ElseInv /\ NestInv /\ LinkInv /\ PlaceInv /\ BreakInv

(* What Regular adds.                                                      *)
TimesInv ==
  \A l \in DOMAIN pieces : Type(l) = "loop" =>
    /\ pieces[l].timed = lines[l - 1].msec
    /\ ~pieces[l].timed => pieces[l].total = lines[l - 1].times /\ pieces[l].total > 1

OutmostInv ==
  \A b, l, k \in DOMAIN pieces : Type(b) = "breakloop" /\ Encloses(l, b) =>
    /\ Encloses(k, b) => k = l
    /\ b < k => ~(Type(k) = "loop" /\ Encloses(l, k))

CountInv ==
  \A e \in DOMAIN pieces : Type(e) = "endloop" /\ ~pieces[e].timed =>
    /\ LoopedBack(e) => 0 < pieces[e].counter /\ pieces[e].counter < pieces[e].total
    /\ phase = "run" /\ ~LoopedBack(e) =>
         pieces[e].counter = 0 \/ (e < current /\ \A l, k : LoopPair(k, e) => ~Encloses(l, k))

RegularInv == TimesInv /\ OutmostInv /\ CountInv

----------------------------------------------------------------------------
(* A set of naturals that is not empty has a least element.                *)
LEMMA LeastElement ==
  ASSUME NEW S \in SUBSET Nat, S # {}
  PROVE  \E s \in S : \A r \in S : s <= r
<1> DEFINE R == {p \in Nat \X Nat : p[1] < p[2]}
<1>1. IsWellFoundedOn(R, Nat)
  BY NatLessThanWellFounded DEF OpToRel
<1>2. PICK s \in S : \A r \in S : <<r, s>> \notin R
  <2> HIDE DEF R
  <2>1. QED
    BY <1>1, WFMin
<1>3. ASSUME NEW r \in S PROVE s <= r
  <2>1. <<r, s>> \in Nat \X Nat /\ <<r, s>>[1] = r /\ <<r, s>>[2] = s
    OBVIOUS
  <2>2. ~(r < s)
    BY <1>2, <2>1
  <2>3. QED
    BY <2>2
<1>4. QED
  BY <1>3

(* Induction, for a set of naturals.                                       *)
LEMMA Induction ==
  ASSUME NEW S \in SUBSET Nat, 0 \in S, \A n \in S : n + 1 \in S
  PROVE  S = Nat
<1> SUFFICES ASSUME Nat \ S # {} PROVE FALSE
  OBVIOUS
<1>1. PICK m \in Nat \ S : \A r \in Nat \ S : m <= r
  BY LeastElement
<1>2. m # 0 /\ m - 1 \in Nat /\ m - 1 \notin Nat \ S
  BY <1>1
<1>3. (m - 1) + 1 \in S /\ (m - 1) + 1 = m
  BY <1>2
<1>4. QED
  BY <1>1, <1>3

(* A step that is taken again and again.                                   *)
Iterates(f, n, x, step) == f[0] = x /\ \A k \in 0..n - 1 : f[k + 1] = step[f[k]]

LEMMA Iterate ==
  ASSUME NEW S, NEW x \in S, NEW step \in [S -> S]
  PROVE  \E f \in [Nat -> S] : f = [k \in Nat |-> IF k = 0 THEN x ELSE step[f[k - 1]]]
<1> DEFINE Up(n) == {f \in [0..n -> S] : Iterates(f, n, x, step)}
           Agree == {n \in Nat : \A m \in Nat : \A f \in Up(n), g \in Up(m) : n <= m => f[n] = g[n]}
           Exist == {n \in Nat : Up(n) # {}}
<1>1. Agree = Nat
  <2>1. 0 \in Agree
    BY DEF Iterates
  <2>2. ASSUME NEW n \in Agree PROVE n + 1 \in Agree
    <3> SUFFICES ASSUME NEW m \in Nat, NEW f \in Up(n + 1), NEW g \in Up(m), n + 1 <= m
                 PROVE  f[n + 1] = g[n + 1]
      OBVIOUS
    <3> DEFINE h == [k \in 0..n |-> f[k]]
    <3>1. h \in Up(n)
      BY DEF Iterates
    <3>2. h[n] = g[n] /\ h[n] = f[n]
      BY <3>1
    <3>3. f[n + 1] = step[f[n]] /\ g[n + 1] = step[g[n]]
      BY DEF Iterates
    <3>4. QED
      BY <3>2, <3>3
  <2>3. QED
    <3> HIDE DEF Agree
    <3>1. Agree \in SUBSET Nat
      BY DEF Agree
    <3>2. QED
      BY <2>1, <2>2, <3>1, Induction
<1>2. Exist = Nat
  <2>1. 0 \in Exist
    <3>1. [k \in 0..0 |-> x] \in Up(0)
      BY DEF Iterates
    <3>2. QED
      BY <3>1
  <2>2. ASSUME NEW n \in Exist PROVE n + 1 \in Exist
    <3>1. PICK f \in Up(n) : TRUE
      OBVIOUS
    <3> DEFINE g == [k \in 0..n + 1 |-> IF k = n + 1 THEN step[f[n]] ELSE f[k]]
    <3>2. g \in Up(n + 1)
      BY DEF Iterates
    <3>3. QED
      BY <3>2
  <2>3. QED
    <3> HIDE DEF Exist
    <3>1. Exist \in SUBSET Nat
      BY DEF Exist
    <3>2. QED
      BY <2>1, <2>2, <3>1, Induction
<1> DEFINE C(n) == (CHOOSE f \in Up(n) : TRUE)[n]
           F == [n \in Nat |-> C(n)]
<1>3. ASSUME NEW n \in Nat, NEW m \in Nat, NEW f \in Up(m), n <= m PROVE F[n] = f[n]
  <2> DEFINE c == CHOOSE g \in Up(n) : TRUE
  <2>1. c \in Up(n)
    BY <1>2
  <2>2. F[n] = c[n]
    OBVIOUS
  <2>3. n \in Agree
    BY <1>1
  <2>4. \A g \in Up(n) : g[n] = f[n]
    <3> HIDE DEF Up
    <3>1. QED
      BY <1>3, <2>3
  <2> HIDE DEF c
  <2>5. QED
    BY <2>1, <2>2, <2>4
<1>4. ASSUME NEW n \in Nat PROVE F[n] \in S /\ F[n] = IF n = 0 THEN x ELSE step[F[n - 1]]
  <2>1. PICK f \in Up(n) : TRUE
    BY <1>2
  <2>2. F[n] = f[n]
    BY <1>3
  <2>3. f[n] \in S
    OBVIOUS
  <2>4. CASE n = 0
    BY <2>2, <2>3, <2>4 DEF Iterates
  <2>5. CASE n # 0
    <3>1. n - 1 \in Nat /\ n - 1 <= n
      BY <2>5
    <3>2. F[n - 1] = f[n - 1]
      BY <1>3, <3>1
    <3>3. n - 1 \in 0..n - 1 /\ (n - 1) + 1 = n
      BY <2>5
    <3>4. f[n] = step[f[n - 1]]
      BY <3>3 DEF Iterates
    <3>5. QED
      BY <2>2, <2>3, <2>5, <3>2, <3>4
  <2>6. QED
    BY <2>4, <2>5
<1>5. F \in [Nat -> S] /\ F = [k \in Nat |-> IF k = 0 THEN x ELSE step[F[k - 1]]]
  <2>1. F = [k \in Nat |-> F[k]]
    <3> HIDE DEF C
    <3>1. QED
      OBVIOUS
  <2> HIDE DEF F
  <2>2. [k \in Nat |-> F[k]] = [k \in Nat |-> IF k = 0 THEN x ELSE step[F[k - 1]]]
    BY <1>4
  <2>3. QED
    BY <1>4, <2>1, <2>2
<1>6. QED
  BY <1>5

----------------------------------------------------------------------------
(* The stacks: what is innermost was opened last.                          *)
LEMMA Opened ==
  ASSUME TypeOK, ShapeInv, NestInv
  PROVE  /\ pieces \in Seq(Pieces) /\ Len(pieces) \in Nat
         /\ Len(pieces) = Len(lines) + (IF phase = "build" THEN 1 ELSE 2)
         /\ New = Len(pieces) + 1 /\ New \in Nat /\ New \notin DOMAIN pieces
         /\ DOMAIN pieces = 1..Len(pieces) /\ DOMAIN pieces \subseteq Nat
         /\ ToSet(nesting) = {i \in DOMAIN pieces : IsOpen(i)}
         /\ LoopStack = {i \in DOMAIN pieces : IsOpen(i) /\ Type(i) = "loop"}
         /\ IfStack = {i \in DOMAIN pieces : IsOpen(i) /\ Type(i) = "if"}
<1>1. ToSet(nesting) = {i \in DOMAIN pieces : IsOpen(i)}
  BY DEF ToSet, NestInv, IsOpen
<1>2. LoopStack = {i \in DOMAIN pieces : IsOpen(i) /\ Type(i) = "loop"}
  BY <1>1 DEF LoopStack, Type
<1>3. IfStack = {i \in DOMAIN pieces : IsOpen(i) /\ Type(i) = "if"}
  BY <1>1 DEF IfStack, Type
<1>4. /\ nesting \in Seq(1..MaxLines + 2) /\ pieces \in Seq(Pieces)
      /\ Len(pieces) = Len(lines) + (IF phase = "build" THEN 1 ELSE 2)
  BY DEF TypeOK, ShapeInv
<1>5. Len(pieces) \in Nat /\ DOMAIN pieces = 1..Len(pieces)
  BY <1>4
<1>6. QED
  BY <1>1, <1>2, <1>3, <1>4, <1>5 DEF New

LEMMA Innermosts ==
  ASSUME TypeOK, ShapeInv, NestInv, NEW type \in {"loop", "if"}, Innermost(type)
  PROVE  LET top == Last(nesting) IN
         /\ top \in DOMAIN pieces /\ Type(top) = type /\ IsOpen(top)
         /\ \A o : IsOpen(o) => o <= top
         /\ type = "loop" => Max(LoopStack) = top
         /\ type = "if" => Max(IfStack) = top
         /\ Front(nesting) \in Seq(1..MaxLines + 2)
         /\ \A o : (\E k \in DOMAIN Front(nesting) : Front(nesting)[k] = o) <=> IsOpen(o) /\ o # top
         /\ \A j, k \in DOMAIN Front(nesting) : j < k => Front(nesting)[j] < Front(nesting)[k]
<1> DEFINE top == Last(nesting)
<1>1. /\ nesting \in Seq(1..MaxLines + 2) /\ nesting # <<>> /\ Len(nesting) \in Nat \ {0}
      /\ DOMAIN nesting = 1..Len(nesting) /\ top = nesting[Len(nesting)] /\ Type(top) = type
  BY DEF TypeOK, Innermost, Last, Type
<1>2. IsOpen(top) /\ top \in DOMAIN pieces
  BY <1>1 DEF IsOpen, NestInv
<1>3. ASSUME NEW o, IsOpen(o) PROVE o \in DOMAIN pieces /\ o <= top
  <2>1. PICK k \in DOMAIN nesting : nesting[k] = o
    BY <1>3 DEF IsOpen
  <2>2. k = Len(nesting) \/ nesting[k] < nesting[Len(nesting)]
    BY <1>1 DEF NestInv
  <2>3. o \in DOMAIN pieces
    BY <1>3 DEF NestInv
  <2>4. \A i \in DOMAIN pieces : i \in Nat
    BY Opened
  <2>5. QED
    BY <1>1, <1>2, <2>1, <2>2, <2>3, <2>4
<1>4. ASSUME NEW S \in SUBSET DOMAIN pieces, top \in S, \A o \in S : IsOpen(o)
      PROVE  Max(S) = top
  <2>1. \A i \in DOMAIN pieces : i \in Nat
    BY Opened
  <2>2. \A o \in S : top >= o
    BY <1>2, <1>3, <1>4, <2>1
  <2>3. \A x, y \in S : x >= y /\ y >= x => x = y
    BY <2>1
  <2>4. QED
    BY <1>4, <2>2, <2>3 DEF Max
<1>5. type = "loop" => Max(LoopStack) = top
  BY <1>1, <1>2, <1>4, Opened
<1>6. type = "if" => Max(IfStack) = top
  BY <1>1, <1>2, <1>4, Opened
<1>7. /\ Front(nesting) \in Seq(1..MaxLines + 2) /\ Len(Front(nesting)) = Len(nesting) - 1
      /\ \A k \in 1..Len(nesting) - 1 : Front(nesting)[k] = nesting[k]
  <2>1. 1 \in 1..Len(nesting) /\ Len(nesting) - 1 \in 0..Len(nesting)
    BY <1>1
  <2>2. Front(nesting) = SubSeq(nesting, 1, Len(nesting) - 1)
    BY DEF Front
  <2>3. \A i \in 1..Len(nesting) - 1 : nesting[i] \in 1..MaxLines + 2
    <3> DEFINE P == 1..MaxLines + 2
    <3>1. nesting \in Seq(P)
      BY <1>1
    <3> HIDE DEF P
    <3>2. \A i \in 1..Len(nesting) - 1 : nesting[i] \in P
      BY <1>1, <3>1
    <3>3. QED
      BY <3>2 DEF P
  <2> DEFINE m == Len(nesting) - 1
  <2>4. 1 \in Int /\ m \in Int /\ m - 1 + 1 = m /\ m \in Nat
    BY <1>1
  <2> HIDE DEF m
  <2>5. /\ SubSeq(nesting, 1, m) \in Seq(1..MaxLines + 2)
        /\ Len(SubSeq(nesting, 1, m)) = IF 1 <= m THEN m - 1 + 1 ELSE 0
        /\ \A i \in 1..m - 1 + 1 : SubSeq(nesting, 1, m)[i] = nesting[1 + i - 1]
    BY <2>3, <2>4, SubSeqProperties DEF m
  <2>6. \A k \in 1..m : SubSeq(nesting, 1, m)[k] = nesting[k]
    BY <2>4, <2>5
  <2>7. Len(SubSeq(nesting, 1, m)) = m
    BY <2>4, <2>5
  <2>8. QED
    BY <2>2, <2>5, <2>6, <2>7 DEF m
<1> HIDE DEF top
<1>8. ASSUME NEW o
      PROVE (\E k \in DOMAIN Front(nesting) : Front(nesting)[k] = o) <=> IsOpen(o) /\ o # top
  <2>1. ASSUME NEW k \in DOMAIN Front(nesting), Front(nesting)[k] = o PROVE IsOpen(o) /\ o # top
    <3>1. k \in DOMAIN nesting /\ nesting[k] = o /\ k < Len(nesting)
      BY <1>1, <1>7, <2>1
    <3>2. nesting[k] < top
      BY <1>1, <3>1 DEF NestInv
    <3>3. o \in Nat
      BY <3>1, Opened DEF IsOpen, NestInv
    <3>4. QED
      BY <3>1, <3>2, <3>3 DEF IsOpen
  <2>2. ASSUME IsOpen(o), o # top PROVE \E k \in DOMAIN Front(nesting) : Front(nesting)[k] = o
    <3>1. PICK k \in DOMAIN nesting : nesting[k] = o
      BY <2>2 DEF IsOpen
    <3>2. k # Len(nesting)
      BY <1>1, <2>2, <3>1
    <3>3. k \in DOMAIN Front(nesting) /\ Front(nesting)[k] = o
      BY <1>1, <1>7, <3>1, <3>2
    <3>4. QED
      BY <3>3
  <2>3. QED
    BY <2>1, <2>2
<1>9. ASSUME NEW j \in DOMAIN Front(nesting), NEW k \in DOMAIN Front(nesting), j < k
      PROVE  Front(nesting)[j] < Front(nesting)[k]
  BY <1>1, <1>7, <1>9 DEF NestInv
<1>10. QED
  BY <1>1, <1>2, <1>3, <1>5, <1>6, <1>7, <1>8, <1>9 DEF top

LEMMA Pushed ==
  ASSUME TypeOK, ShapeInv, NestInv, phase = "build", Len(lines) < MaxLines
  PROVE  LET n == Append(nesting, New) IN
         /\ n \in Seq(1..MaxLines + 2)
         /\ \A o : (\E k \in DOMAIN n : n[k] = o) <=> IsOpen(o) \/ o = New
         /\ \A j, k \in DOMAIN n : j < k => n[j] < n[k]
<1> DEFINE n == Append(nesting, New)
<1>1. New \in 1..MaxLines + 2 /\ \A i \in DOMAIN pieces : i < New
  BY LegoAssumption DEF TypeOK, ShapeInv, New
<1>2. /\ nesting \in Seq(1..MaxLines + 2) /\ n \in Seq(1..MaxLines + 2)
      /\ Len(n) = Len(nesting) + 1 /\ n[Len(nesting) + 1] = New
      /\ \A k \in 1..Len(nesting) : n[k] = nesting[k]
  BY <1>1 DEF TypeOK
<1>3. \A k \in DOMAIN nesting : nesting[k] < New
  BY <1>1 DEF NestInv, IsOpen
<1> HIDE DEF n
<1>4. ASSUME NEW o PROVE (\E k \in DOMAIN n : n[k] = o) <=> IsOpen(o) \/ o = New
  BY <1>2 DEF IsOpen
<1>5. ASSUME NEW j \in DOMAIN n, NEW k \in DOMAIN n, j < k PROVE n[j] < n[k]
  <2>1. j \in 1..Len(nesting) /\ n[j] = nesting[j]
    BY <1>2, <1>5
  <2>2. CASE k = Len(nesting) + 1
    BY <1>2, <1>3, <2>1, <2>2
  <2>3. CASE k # Len(nesting) + 1
    BY <1>2, <1>5, <2>1, <2>3 DEF NestInv
  <2>4. QED
    BY <2>2, <2>3
<1>6. QED
  BY <1>2, <1>4, <1>5 DEF n

----------------------------------------------------------------------------
(* What AddLine does to the pieces there are, and what the new one is.     *)
Alike(p, q) ==
  /\ p.type = q.type /\ p.loopback = q.loopback /\ p.beyond = q.beyond /\ p.total = q.total
  /\ p.counter = q.counter /\ p.timed = q.timed /\ p.prev = q.prev

GrownBy(type) ==
  /\ pieces' \in Seq(Pieces) /\ Len(pieces') = New
  /\ \A i \in DOMAIN pieces : Alike(pieces'[i], pieces[i])
  /\ pieces'[New].type = type /\ pieces'[New].next = 0
  /\ pieces'[New].beyond = 0 /\ pieces'[New].counter = 0
  /\ type # "endloop" => pieces'[New].loopback = 0

Grown(line) ==
  /\ phase = "build" /\ phase' = "build" /\ current' = current /\ cut' = cut
  /\ Len(lines) < MaxLines /\ lines' = Append(lines, line) /\ tmout' \in BOOLEAN
  /\ GrownBy(line.type)

Linked == \A i \in DOMAIN pieces : pieces'[i].next = IF i = Len(pieces) THEN New ELSE pieces[i].next
EndsKept == \A i \in DOMAIN pieces : pieces'[i].end = pieces[i].end
ElsesKept == \A i \in DOMAIN pieces : pieces'[i].else = pieces[i].else

LEMMA LineType ==
  ASSUME NEW line \in Line
  PROVE  /\ line.type \in Types /\ line.times \in Nat /\ line.msec \in BOOLEAN
         /\ line.type = "loop" /\ ~line.msec => line.times \in Times
<1> DEFINE A == [type : Types \ {"loop"}, times : {0}, msec : {FALSE}]
           B == [type : {"loop"}, times : Times, msec : {FALSE}]
           C == [type : {"loop"}, times : {0}, msec : {TRUE}]
<1>1. line \in A \/ line \in B \/ line \in C
  BY DEF Line
<1>2. "loop" \in Types /\ Times \subseteq Nat
  BY LegoAssumption DEF Types
<1>3. CASE line \in A
  <2>1. line.type \in Types \ {"loop"} /\ line.times \in {0} /\ line.msec \in {FALSE}
    BY <1>3
  <2>2. line.times \in Nat
    BY <2>1
  <2>3. line.msec \in BOOLEAN
    BY <2>1, Zenon
  <2>4. QED
    BY <2>1, <2>2, <2>3
<1>4. CASE line \in B
  <2>1. line.type \in {"loop"} /\ line.times \in Times /\ line.msec \in {FALSE}
    BY <1>4
  <2>2. line.msec \in BOOLEAN /\ line.times \in Nat
    BY <1>2, <2>1
  <2>3. QED
    BY <1>2, <2>1, <2>2
<1>5. CASE line \in C
  <2>1. line.type \in {"loop"} /\ line.times \in {0} /\ line.msec \in {TRUE}
    BY <1>5
  <2>2. line.times \in Nat
    BY <2>1
  <2>3. line.msec \in BOOLEAN
    BY <2>1, Zenon
  <2>4. QED
    BY <1>2, <2>1, <2>2, <2>3
<1>6. QED
  BY <1>1, <1>3, <1>4, <1>5

LEMMA NewPiece ==
  ASSUME NEW type \in Types \cup {"end"}
  PROVE  Piece(type) \in Pieces /\ 0 \in Place
BY LegoAssumption DEF Piece, Pieces, Place

LEMMA Places ==
  ASSUME TypeOK, ShapeInv, NestInv
  PROVE  /\ DOMAIN pieces \subseteq Place /\ 1 \in DOMAIN pieces /\ 0 \notin DOMAIN pieces
         /\ Len(pieces) \in DOMAIN pieces /\ Len(pieces) \in Place
         /\ phase = "build" => New \in Place /\ New # 0
<1>1. Len(lines) \in Nat /\ MaxLines \in Nat /\ Len(lines) <= MaxLines
  BY LegoAssumption DEF TypeOK, ShapeInv
<1>2. DOMAIN pieces = 1..Len(pieces) /\ Len(pieces) = Len(lines) + (IF phase = "build" THEN 1 ELSE 2)
      /\ New = Len(pieces) + 1
  BY Opened
<1>3. Len(pieces) \in 1..MaxLines + 2 /\ (phase = "build" => New \in 1..MaxLines + 2)
  BY <1>1, <1>2
<1>4. QED
  BY <1>1, <1>2, <1>3 DEF Place

LEMMA Replaced ==
  ASSUME NEW S, NEW s \in Seq(S), NEW k \in DOMAIN s, NEW x \in S
  PROVE  LET t == [s EXCEPT ![k] = x] IN
         /\ t \in Seq(S) /\ Len(t) = Len(s) /\ DOMAIN t = DOMAIN s
         /\ \A i \in DOMAIN s : t[i] = IF i = k THEN x ELSE s[i]
OBVIOUS

(* The last piece gets its link.                                           *)
LEMMA Linking ==
  ASSUME TypeOK, ShapeInv, NestInv, phase = "build"
  PROVE  LET linked == [pieces EXCEPT ![Len(pieces)].next = New] IN
         /\ linked \in Seq(Pieces) /\ Len(linked) = Len(pieces)
         /\ \A i \in DOMAIN pieces :
              /\ Alike(linked[i], pieces[i]) /\ linked[i].end = pieces[i].end /\ linked[i].else = pieces[i].else
              /\ linked[i].next = IF i = Len(pieces) THEN New ELSE pieces[i].next
<1> DEFINE n == Len(pieces)
           linked == [pieces EXCEPT ![n].next = New]
<1>1. /\ pieces \in Seq(Pieces) /\ n \in Nat /\ New = n + 1 /\ New \in Place /\ n \in DOMAIN pieces
      /\ DOMAIN pieces = 1..n
  BY Opened, Places
<1>2. pieces[n] \in Pieces
  BY <1>1
<1>3. [pieces[n] EXCEPT !.next = New] \in Pieces
  BY <1>1, <1>2 DEF Pieces
<1>4. linked \in Seq(Pieces) /\ Len(linked) = n
  BY <1>1, <1>3
<1>5. \A i \in DOMAIN pieces : linked[i] = IF i = n THEN [pieces[n] EXCEPT !.next = New] ELSE pieces[i]
  BY <1>1
<1>6. \A i \in DOMAIN pieces : pieces[i] \in Pieces
  BY <1>1
<1>7. QED
  BY <1>1, <1>4, <1>5, <1>6 DEF Alike, Pieces

LEMMA AddPlain ==
  ASSUME TypeOK, ShapeInv, NestInv, NEW line \in Line, AddLine(line),
         line.type \in {"do", "breakloop", "if", "loop"}
  PROVE  /\ Grown(line) /\ Linked /\ EndsKept /\ ElsesKept
         /\ pieces'[New].end = 0 /\ pieces'[New].else = 0
         /\ line.type \in {"do", "breakloop"} => nesting' = nesting
         /\ line.type \in {"if", "loop"} => nesting' = Append(nesting, New)
         /\ line.type = "loop" =>
              pieces'[New].total = line.times /\ pieces'[New].timed = tmout' /\ tmout' = (tmout \/ line.msec)
<1> DEFINE n == Len(pieces)
           linked == [pieces EXCEPT ![n].next = New]
<1>1. /\ phase = "build" /\ Len(lines) < MaxLines /\ lines' = Append(lines, line)
      /\ UNCHANGED <<phase, current, cut>>
  BY DEF AddLine
<1>2. /\ pieces \in Seq(Pieces) /\ n \in Nat /\ New = n + 1 /\ New \in Place /\ n \in DOMAIN pieces
      /\ DOMAIN pieces = 1..n
  BY <1>1, Opened, Places
<1>3. /\ linked \in Seq(Pieces) /\ Len(linked) = n
      /\ \A i \in DOMAIN pieces :
           /\ Alike(linked[i], pieces[i]) /\ linked[i].end = pieces[i].end /\ linked[i].else = pieces[i].else
           /\ linked[i].next = IF i = n THEN New ELSE pieces[i].next
  BY <1>1, Linking
<1>4. PICK p \in Pieces :
        /\ pieces' = Append(linked, p) /\ p.type = line.type /\ p.next = 0 /\ p.beyond = 0
        /\ p.counter = 0 /\ p.end = 0 /\ p.else = 0 /\ p.loopback = 0
        /\ line.type = "loop" => p.total = line.times /\ p.timed = tmout' /\ tmout' = (tmout \/ line.msec)
  <2>1. Piece(line.type) \in Pieces
    BY NewPiece, LineType
  <2>2. CASE line.type = "loop"
    <3>1. /\ tmout' = (tmout \/ line.msec)
          /\ pieces' = Append(linked, [Piece(line.type) EXCEPT !.total = line.times, !.timed = tmout'])
      BY <2>2 DEF AddLine
    <3>2. line.times \in Nat /\ tmout' \in BOOLEAN
      BY <3>1, LineType DEF TypeOK
    <3>3. [Piece(line.type) EXCEPT !.total = line.times, !.timed = tmout'] \in Pieces
      BY <2>1, <3>2 DEF Piece, Pieces
    <3>4. QED
      BY <2>2, <3>1, <3>2, <3>3 DEF Piece
  <2>3. CASE line.type # "loop"
    <3>1. pieces' = Append(linked, Piece(line.type))
      BY <2>3 DEF AddLine
    <3>2. QED
      BY <2>1, <2>3, <3>1 DEF Piece
  <2>4. QED
    BY <2>2, <2>3
<1>5. /\ line.type \in {"do", "breakloop"} => nesting' = nesting
      /\ line.type \in {"if", "loop"} => nesting' = Append(nesting, New)
      /\ tmout' = IF line.type = "loop" THEN (tmout \/ line.msec) ELSE tmout
  BY DEF AddLine
<1>6. tmout' \in BOOLEAN
  BY <1>5, LineType DEF TypeOK
<1> HIDE DEF linked
<1>7. /\ pieces' \in Seq(Pieces) /\ Len(pieces') = New /\ pieces'[New] = p
      /\ \A i \in DOMAIN pieces : pieces'[i] = linked[i]
  BY <1>2, <1>3, <1>4
<1>8. QED
  BY <1>1, <1>3, <1>4, <1>5, <1>6, <1>7 DEF Grown, GrownBy, Linked, EndsKept, ElsesKept, n

LEMMA AddElse ==
  ASSUME TypeOK, ShapeInv, NestInv, NEW line \in Line, AddLine(line), line.type = "else"
  PROVE  LET top == Last(nesting) IN
         /\ Innermost("if") /\ pieces[top].else = 0
         /\ Grown(line) /\ Linked /\ EndsKept /\ nesting' = nesting
         /\ pieces'[New].prev = Len(pieces)
         /\ \A i \in DOMAIN pieces : pieces'[i].else = IF i = top THEN New ELSE pieces[i].else
<1> DEFINE n == Len(pieces)
           top == Last(nesting)
           linked == [pieces EXCEPT ![n].next = New]
           told == [linked EXCEPT ![top].else = New]
           p == [Piece("else") EXCEPT !.prev = n]
<1>1. /\ phase = "build" /\ Len(lines) < MaxLines /\ lines' = Append(lines, line)
      /\ UNCHANGED <<phase, current, cut, nesting, tmout>>
      /\ Innermost("if") /\ pieces[top].else = 0
      /\ pieces' = Append([linked EXCEPT ![Max(IfStack)].else = New], p)
  BY DEF AddLine, Valid
<1>2. top \in DOMAIN pieces /\ Max(IfStack) = top
  BY <1>1, Innermosts
<1>3. /\ pieces \in Seq(Pieces) /\ n \in Nat /\ New = n + 1 /\ New \in Place /\ n \in Place
      /\ DOMAIN pieces = 1..n
  BY <1>1, Opened, Places
<1>4. /\ linked \in Seq(Pieces) /\ Len(linked) = n
      /\ \A i \in DOMAIN pieces :
           /\ Alike(linked[i], pieces[i]) /\ linked[i].end = pieces[i].end /\ linked[i].else = pieces[i].else
           /\ linked[i].next = IF i = n THEN New ELSE pieces[i].next
  BY <1>1, Linking
<1> HIDE DEF linked, top
<1>5. /\ told \in Seq(Pieces) /\ Len(told) = n
      /\ \A i \in DOMAIN pieces :
           /\ Alike(told[i], linked[i]) /\ told[i].end = linked[i].end /\ told[i].next = linked[i].next
           /\ told[i].else = IF i = top THEN New ELSE linked[i].else
  <2>1. linked[top] \in Pieces
    BY <1>2, <1>3, <1>4
  <2>2. [linked[top] EXCEPT !.else = New] \in Pieces
    BY <1>3, <2>1 DEF Pieces
  <2>3. told = [linked EXCEPT ![top] = [linked[top] EXCEPT !.else = New]] /\ top \in DOMAIN linked
    BY <1>2, <1>3, <1>4
  <2> HIDE DEF told
  <2>4. /\ told \in Seq(Pieces) /\ Len(told) = n
        /\ \A i \in DOMAIN pieces :
             told[i] = IF i = top THEN [linked[top] EXCEPT !.else = New] ELSE linked[i]
    BY <1>3, <1>4, <2>2, <2>3, Replaced
  <2>5. \A q \in Pieces : LET r == [q EXCEPT !.else = New] IN
          Alike(r, q) /\ Alike(q, q) /\ r.end = q.end /\ r.next = q.next /\ r.else = New
    BY DEF Alike, Pieces
  <2>6. \A i \in DOMAIN pieces : linked[i] \in Pieces
    BY <1>3, <1>4
  <2> HIDE DEF linked
  <2>7. ASSUME NEW i \in DOMAIN pieces
        PROVE  /\ Alike(told[i], linked[i]) /\ told[i].end = linked[i].end /\ told[i].next = linked[i].next
               /\ told[i].else = IF i = top THEN New ELSE linked[i].else
    <3>1. CASE i = top
      BY <2>1, <2>4, <2>5, <3>1
    <3>2. CASE i # top
      BY <2>4, <2>5, <2>6, <3>2
    <3>3. QED
      BY <3>1, <3>2
  <2>8. QED
    BY <2>4, <2>7
<1>6. /\ p \in Pieces /\ p.type = "else" /\ p.next = 0 /\ p.beyond = 0 /\ p.counter = 0 /\ p.prev = n
      /\ p.loopback = 0
  <2>1. Piece("else") \in Pieces
    BY NewPiece DEF Types
  <2>2. QED
    BY <1>3, <2>1 DEF Piece, Pieces
<1> HIDE DEF told, p
<1>7. /\ pieces' \in Seq(Pieces) /\ Len(pieces') = New /\ pieces'[New] = p
      /\ \A i \in DOMAIN pieces : pieces'[i] = told[i]
  BY <1>1, <1>2, <1>3, <1>5, <1>6 DEF told
<1>8. tmout' \in BOOLEAN
  BY <1>1 DEF TypeOK
<1>9. \A i \in DOMAIN pieces : Alike(pieces'[i], pieces[i]) /\ pieces'[i].end = pieces[i].end
  BY <1>4, <1>5, <1>7 DEF Alike
<1>10. Linked /\ EndsKept
  BY <1>4, <1>5, <1>7, <1>9 DEF Linked, EndsKept, n
<1>11. \A i \in DOMAIN pieces : pieces'[i].else = IF i = top THEN New ELSE pieces[i].else
  BY <1>4, <1>5, <1>7
<1>12. Grown(line)
  BY <1>1, <1>6, <1>7, <1>8, <1>9 DEF Grown, GrownBy
<1>13. QED
  BY <1>1, <1>6, <1>7, <1>10, <1>11, <1>12 DEF n, top

LEMMA AddEndloop ==
  ASSUME TypeOK, ShapeInv, NestInv, NEW line \in Line, AddLine(line), line.type = "endloop"
  PROVE  LET top == Last(nesting) IN
         /\ Innermost("loop")
         /\ Grown(line) /\ Linked /\ EndsKept /\ ElsesKept /\ nesting' = Front(nesting)
         /\ pieces'[New].loopback = top
         /\ pieces'[New].total = pieces[top].total /\ pieces'[New].timed = pieces[top].timed
<1> DEFINE n == Len(pieces)
           top == Last(nesting)
           linked == [pieces EXCEPT ![n].next = New]
           p == [Piece("endloop") EXCEPT !.loopback = top, !.total = pieces[top].total,
                                         !.timed = pieces[top].timed]
<1>1. /\ phase = "build" /\ Len(lines) < MaxLines /\ lines' = Append(lines, line)
      /\ UNCHANGED <<phase, current, cut, tmout>> /\ nesting' = Front(nesting)
      /\ Innermost("loop")
  BY DEF AddLine, Valid
<1>2. top \in DOMAIN pieces /\ Max(LoopStack) = top
  BY <1>1, Innermosts
<1>3. pieces' = Append(linked, p)
  BY <1>2 DEF AddLine
<1>4. /\ pieces \in Seq(Pieces) /\ n \in Nat /\ New = n + 1 /\ New \in Place /\ top \in Place
      /\ DOMAIN pieces = 1..n
  BY <1>1, <1>2, Opened, Places
<1>5. /\ linked \in Seq(Pieces) /\ Len(linked) = n
      /\ \A i \in DOMAIN pieces :
           /\ Alike(linked[i], pieces[i]) /\ linked[i].end = pieces[i].end /\ linked[i].else = pieces[i].else
           /\ linked[i].next = IF i = n THEN New ELSE pieces[i].next
  BY <1>1, Linking
<1> HIDE DEF linked, top
<1>6. /\ p \in Pieces /\ p.type = "endloop" /\ p.next = 0 /\ p.beyond = 0 /\ p.counter = 0
      /\ p.loopback = top /\ p.total = pieces[top].total /\ p.timed = pieces[top].timed
  <2>1. Piece("endloop") \in Pieces
    BY NewPiece DEF Types
  <2>2. pieces[top] \in Pieces
    BY <1>2, <1>4
  <2>3. pieces[top].total \in Nat /\ pieces[top].timed \in BOOLEAN
    BY <2>2 DEF Pieces
  <2>4. QED
    BY <1>4, <2>1, <2>3 DEF Piece, Pieces
<1> HIDE DEF p
<1>7. /\ pieces' \in Seq(Pieces) /\ Len(pieces') = New /\ pieces'[New] = p
      /\ \A i \in DOMAIN pieces : pieces'[i] = linked[i]
  BY <1>3, <1>4, <1>5, <1>6
<1>8. tmout' \in BOOLEAN
  BY <1>1 DEF TypeOK
<1>9. QED
  BY <1>1, <1>5, <1>6, <1>7, <1>8 DEF Grown, GrownBy, Linked, EndsKept, ElsesKept, n, top

LEMMA AddEndif ==
  ASSUME TypeOK, ShapeInv, NestInv, ElseInv, NEW line \in Line, AddLine(line), line.type = "endif"
  PROVE  LET top == Last(nesting) IN
         /\ Innermost("if")
         /\ Grown(line) /\ ElsesKept /\ nesting' = Front(nesting)
         /\ pieces'[New].else = pieces[top].else
         /\ \A i \in DOMAIN pieces : pieces'[i].end = IF i = top THEN New ELSE pieces[i].end
         /\ \A i \in DOMAIN pieces :
              pieces'[i].next = IF i = Len(pieces) \/ i + 1 = pieces[top].else THEN New ELSE pieces[i].next
<1> DEFINE n == Len(pieces)
           top == Last(nesting)
           linked == [pieces EXCEPT ![n].next = New]
           closed == [linked EXCEPT ![top].end = New]
           relinked == Relinked(linked, top)
           e == pieces[top].else
           p == [Piece("endif") EXCEPT !.else = e]
<1>1. /\ phase = "build" /\ Len(lines) < MaxLines /\ lines' = Append(lines, line)
      /\ UNCHANGED <<phase, current, cut, tmout>> /\ nesting' = Front(nesting)
      /\ Innermost("if")
  BY DEF AddLine, Valid
<1>2. top \in DOMAIN pieces /\ Max(IfStack) = top /\ Type(top) = "if"
  BY <1>1, Innermosts
<1>3. pieces' = Append(relinked, p)
  BY <1>2 DEF AddLine
<1>4. /\ pieces \in Seq(Pieces) /\ n \in Nat /\ New = n + 1 /\ New \in Place /\ n \in DOMAIN pieces
      /\ DOMAIN pieces = 1..n
  BY <1>1, Opened, Places
<1>5. /\ linked \in Seq(Pieces) /\ Len(linked) = n
      /\ \A i \in DOMAIN pieces :
           /\ Alike(linked[i], pieces[i]) /\ linked[i].end = pieces[i].end /\ linked[i].else = pieces[i].else
           /\ linked[i].next = IF i = n THEN New ELSE pieces[i].next
  BY <1>1, Linking
<1>6. e # 0 => e \in DOMAIN pieces /\ e - 1 \in DOMAIN pieces /\ pieces[e].prev = e - 1
  BY <1>2, <1>4 DEF ElseInv, ElseOf
<1>7. relinked = IF e = 0 THEN closed ELSE [closed EXCEPT ![e - 1].next = New]
  <2> HIDE DEF linked
  <2>1. linked[top].else = e /\ (e # 0 => linked[e].prev = e - 1)
    BY <1>2, <1>5, <1>6 DEF Alike
  <2>2. QED
    BY <2>1 DEF Relinked
<1> HIDE DEF linked, top, e, relinked
<1>8. /\ closed \in Seq(Pieces) /\ Len(closed) = n
      /\ \A i \in DOMAIN pieces :
           /\ Alike(closed[i], linked[i]) /\ closed[i].else = linked[i].else /\ closed[i].next = linked[i].next
           /\ closed[i].end = IF i = top THEN New ELSE linked[i].end
  <2>1. linked[top] \in Pieces
    BY <1>2, <1>4, <1>5
  <2>2. [linked[top] EXCEPT !.end = New] \in Pieces
    BY <1>4, <2>1 DEF Pieces
  <2>3. closed = [linked EXCEPT ![top] = [linked[top] EXCEPT !.end = New]] /\ top \in DOMAIN linked
    BY <1>2, <1>4, <1>5
  <2> HIDE DEF closed
  <2>4. /\ closed \in Seq(Pieces) /\ Len(closed) = n
        /\ \A i \in DOMAIN pieces :
             closed[i] = IF i = top THEN [linked[top] EXCEPT !.end = New] ELSE linked[i]
    BY <1>4, <1>5, <2>2, <2>3, Replaced
  <2>5. \A i \in DOMAIN pieces : linked[i] \in Pieces
    BY <1>4, <1>5
  <2>6. QED
    BY <2>4, <2>5 DEF Alike, Pieces
<1> HIDE DEF closed
<1>9. /\ relinked \in Seq(Pieces) /\ Len(relinked) = n
      /\ \A i \in DOMAIN pieces :
           /\ Alike(relinked[i], closed[i]) /\ relinked[i].else = closed[i].else /\ relinked[i].end = closed[i].end
           /\ relinked[i].next = IF i + 1 = e THEN New ELSE closed[i].next
  <2>1. CASE e = 0
    <3>1. \A i \in DOMAIN pieces : i + 1 # e
      BY <1>4, <2>1
    <3>2. QED
      BY <1>7, <1>8, <2>1, <3>1 DEF Alike
  <2>2. CASE e # 0
    <3>1. closed[e - 1] \in Pieces
      BY <1>4, <1>6, <1>8, <2>2
    <3>2. [closed[e - 1] EXCEPT !.next = New] \in Pieces
      BY <1>4, <3>1 DEF Pieces
    <3>3. relinked = [closed EXCEPT ![e - 1] = [closed[e - 1] EXCEPT !.next = New]] /\ e - 1 \in DOMAIN closed
      BY <1>4, <1>6, <1>7, <1>8, <2>2
    <3>4. /\ relinked \in Seq(Pieces) /\ Len(relinked) = n
          /\ \A i \in DOMAIN pieces :
               relinked[i] = IF i = e - 1 THEN [closed[e - 1] EXCEPT !.next = New] ELSE closed[i]
      BY <1>4, <1>8, <3>2, <3>3, Replaced
    <3>5. \A i \in DOMAIN pieces : closed[i] \in Pieces /\ (i = e - 1 <=> i + 1 = e)
      BY <1>4, <1>6, <1>8, <2>2
    <3> DEFINE q == [closed[e - 1] EXCEPT !.next = New]
    <3>6. /\ Alike(q, closed[e - 1]) /\ q.else = closed[e - 1].else /\ q.end = closed[e - 1].end
          /\ q.next = New
      BY <3>1 DEF Alike, Pieces
    <3> HIDE DEF q
    <3>7. \A i \in DOMAIN pieces : relinked[i] = IF i + 1 = e THEN q ELSE closed[i]
      BY <3>4, <3>5 DEF q
    <3>8. \A i \in DOMAIN pieces : i + 1 = e => closed[i] = closed[e - 1]
      BY <3>5
    <3>9. QED
      BY <3>4, <3>6, <3>7, <3>8 DEF Alike
  <2>3. QED
    BY <2>1, <2>2
<1>10. /\ p \in Pieces /\ p.type = "endif" /\ p.next = 0 /\ p.beyond = 0 /\ p.counter = 0 /\ p.else = e
       /\ p.loopback = 0
  <2>1. Piece("endif") \in Pieces
    BY NewPiece DEF Types
  <2>2. pieces[top] \in Pieces
    BY <1>2, <1>4
  <2>3. e \in Place
    BY <2>2 DEF e, Pieces
  <2>4. QED
    BY <2>1, <2>3 DEF Piece, Pieces
<1> HIDE DEF p
<1>11. /\ pieces' \in Seq(Pieces) /\ Len(pieces') = New /\ pieces'[New] = p
       /\ \A i \in DOMAIN pieces : pieces'[i] = relinked[i]
  BY <1>3, <1>4, <1>9, <1>10
<1>12. tmout' \in BOOLEAN
  BY <1>1 DEF TypeOK
<1>13. \A i \in DOMAIN pieces : Alike(pieces'[i], pieces[i]) /\ pieces'[i].else = pieces[i].else
  BY <1>5, <1>8, <1>9, <1>11 DEF Alike
<1>14. \A i \in DOMAIN pieces : pieces'[i].end = IF i = top THEN New ELSE pieces[i].end
  BY <1>5, <1>8, <1>9, <1>11
<1>15. \A i \in DOMAIN pieces : pieces'[i].next = IF i = n \/ i + 1 = e THEN New ELSE pieces[i].next
  BY <1>5, <1>8, <1>9, <1>11
<1>16. Grown(line)
  BY <1>1, <1>10, <1>11, <1>12, <1>13 DEF Grown, GrownBy
<1>17. QED
  BY <1>1, <1>10, <1>11, <1>13, <1>14, <1>15, <1>16 DEF ElsesKept, n, top, e

----------------------------------------------------------------------------
(* What is paired and what is open after a line more.                      *)
Closes(type) == type \in {"endloop", "endif"}
Opens(type) == type \in {"loop", "if"}

LEMMA Grows ==
  ASSUME TypeOK, ShapeInv, NestInv, NEW type, GrownBy(type)
  PROVE  /\ DOMAIN pieces' = DOMAIN pieces \cup {New} /\ New \notin DOMAIN pieces /\ 0 \notin DOMAIN pieces'
         /\ DOMAIN pieces' = 1..New /\ DOMAIN pieces = 1..Len(pieces) /\ Len(pieces) \in Nat
         /\ New = Len(pieces) + 1 /\ Len(pieces') = New
         /\ \A i \in DOMAIN pieces : pieces'[i].type = Type(i)
         /\ \A i \in DOMAIN pieces' : i \in Nat /\ i <= New /\ (i \in DOMAIN pieces => i < New)
<1>1. Len(pieces) \in Nat /\ New = Len(pieces) + 1 /\ DOMAIN pieces = 1..Len(pieces)
  BY Opened
<1>2. pieces' \in Seq(Pieces) /\ Len(pieces') = New /\ \A i \in DOMAIN pieces : pieces'[i].type = pieces[i].type
  BY DEF GrownBy, Alike
<1>3. DOMAIN pieces' = 1..New
  BY <1>2
<1>4. QED
  BY <1>1, <1>2, <1>3 DEF Type

LEMMA LoopPairs ==
  ASSUME TypeOK, ShapeInv, PairInv, NestInv, NEW type, GrownBy(type), NEW top,
         type = "endloop" => pieces'[New].loopback = top /\ top \in DOMAIN pieces /\ Type(top) = "loop"
  PROVE  \A l, e : LoopPair(l, e)' <=> LoopPair(l, e) \/ (type = "endloop" /\ l = top /\ e = New)
<1> SUFFICES ASSUME NEW l, NEW e
             PROVE  LoopPair(l, e)' <=> LoopPair(l, e) \/ (type = "endloop" /\ l = top /\ e = New)
  OBVIOUS
<1>1. /\ DOMAIN pieces' = DOMAIN pieces \cup {New} /\ New \notin DOMAIN pieces
      /\ \A i \in DOMAIN pieces : pieces'[i].type = Type(i)
  BY Grows
<1>2. pieces'[New].type = type /\ \A i \in DOMAIN pieces : pieces'[i].loopback = pieces[i].loopback
  BY DEF GrownBy, Alike
<1>3. \A i \in DOMAIN pieces : Type(i) = "endloop" => pieces[i].loopback \in DOMAIN pieces
  BY DEF PairInv, LoopPair
<1>4. LoopPair(l, e)' <=> /\ l \in DOMAIN pieces' /\ pieces'[l].type = "loop"
                          /\ e \in DOMAIN pieces' /\ pieces'[e].type = "endloop" /\ pieces'[e].loopback = l
  BY DEF LoopPair, Type
<1>5. LoopPair(l, e) <=> /\ l \in DOMAIN pieces /\ Type(l) = "loop"
                         /\ e \in DOMAIN pieces /\ Type(e) = "endloop" /\ pieces[e].loopback = l
  BY DEF LoopPair
<1>6. QED
  BY <1>1, <1>2, <1>3, <1>4, <1>5

LEMMA IfPairs ==
  ASSUME TypeOK, ShapeInv, PairInv, NestInv, NEW type, GrownBy(type), NEW top,
         type # "endif" => EndsKept,
         type = "if" => pieces'[New].end = 0,
         type = "endif" => /\ top \in DOMAIN pieces /\ Type(top) = "if" /\ IsOpen(top)
                                /\ \A i \in DOMAIN pieces : pieces'[i].end = IF i = top THEN New ELSE pieces[i].end
  PROVE  \A i, f : IfPair(i, f)' <=> IfPair(i, f) \/ (type = "endif" /\ i = top /\ f = New)
<1> SUFFICES ASSUME NEW i, NEW f
             PROVE  IfPair(i, f)' <=> IfPair(i, f) \/ (type = "endif" /\ i = top /\ f = New)
  OBVIOUS
<1>1. /\ DOMAIN pieces' = DOMAIN pieces \cup {New} /\ New \notin DOMAIN pieces
      /\ 0 \notin DOMAIN pieces' /\ \A j \in DOMAIN pieces : pieces'[j].type = Type(j)
  BY Grows
<1>2. pieces'[New].type = type
  BY DEF GrownBy
<1>3. \A j \in DOMAIN pieces : Type(j) = "if" =>
         pieces[j].end \in DOMAIN pieces \cup {0} /\ (IsOpen(j) => pieces[j].end = 0)
  BY DEF PairInv, IfPair
<1>4. IfPair(i, f)' <=> /\ i \in DOMAIN pieces' /\ pieces'[i].type = "if"
                        /\ f \in DOMAIN pieces' /\ pieces'[f].type = "endif" /\ pieces'[i].end = f
  BY DEF IfPair, Type
<1>5. IfPair(i, f) <=> /\ i \in DOMAIN pieces /\ Type(i) = "if"
                       /\ f \in DOMAIN pieces /\ Type(f) = "endif" /\ pieces[i].end = f
  BY DEF IfPair
<1>6. CASE type = "endif"
  BY <1>1, <1>2, <1>3, <1>4, <1>5, <1>6
<1>7. CASE type # "endif"
  <2>1. \A j \in DOMAIN pieces : pieces'[j].end = pieces[j].end
    BY <1>7 DEF EndsKept
  <2>2. QED
    BY <1>1, <1>2, <1>3, <1>4, <1>5, <1>7, <2>1
<1>8. QED
  BY <1>6, <1>7

LEMMA ElsesOf ==
  ASSUME TypeOK, ShapeInv, ElseInv, NestInv, NEW type, GrownBy(type), NEW top,
         type # "else" => ElsesKept,
         type = "if" => pieces'[New].else = 0,
         type = "else" => /\ top \in DOMAIN pieces /\ Type(top) = "if" /\ pieces[top].else = 0
                               /\ \A i \in DOMAIN pieces : pieces'[i].else = IF i = top THEN New ELSE pieces[i].else
  PROVE  \A i, e : ElseOf(i, e)' <=> ElseOf(i, e) \/ (type = "else" /\ i = top /\ e = New)
<1> SUFFICES ASSUME NEW i, NEW e
             PROVE  ElseOf(i, e)' <=> ElseOf(i, e) \/ (type = "else" /\ i = top /\ e = New)
  OBVIOUS
<1>1. /\ DOMAIN pieces' = DOMAIN pieces \cup {New} /\ New \notin DOMAIN pieces
      /\ 0 \notin DOMAIN pieces' /\ \A j \in DOMAIN pieces : pieces'[j].type = Type(j)
  BY Grows
<1>2. pieces'[New].type = type
  BY DEF GrownBy
<1>3. \A j \in DOMAIN pieces : Type(j) = "if" => pieces[j].else \in DOMAIN pieces \cup {0}
  BY DEF ElseInv, ElseOf
<1>4. ElseOf(i, e)' <=> /\ i \in DOMAIN pieces' /\ pieces'[i].type = "if"
                        /\ e \in DOMAIN pieces' /\ pieces'[e].type = "else" /\ pieces'[i].else = e
  BY DEF ElseOf, Type
<1>5. ElseOf(i, e) <=> /\ i \in DOMAIN pieces /\ Type(i) = "if"
                       /\ e \in DOMAIN pieces /\ Type(e) = "else" /\ pieces[i].else = e
  BY DEF ElseOf
<1>6. CASE type = "else"
  BY <1>1, <1>2, <1>3, <1>4, <1>5, <1>6
<1>7. CASE type # "else"
  <2>1. \A j \in DOMAIN pieces : pieces'[j].else = pieces[j].else
    BY <1>7 DEF ElsesKept
  <2>2. QED
    BY <1>1, <1>2, <1>3, <1>4, <1>5, <1>7, <2>1
<1>8. QED
  BY <1>6, <1>7

(* All of it.                                                              *)
Paired(type, top) ==
  /\ \A o : IsOpen(o)' <=> (IsOpen(o) /\ ~(Closes(type) /\ o = top)) \/ (Opens(type) /\ o = New)
  /\ \A l, e : LoopPair(l, e)' <=> LoopPair(l, e) \/ (type = "endloop" /\ l = top /\ e = New)
  /\ \A i, f : IfPair(i, f)' <=> IfPair(i, f) \/ (type = "endif" /\ i = top /\ f = New)
  /\ \A i, e : ElseOf(i, e)' <=> ElseOf(i, e) \/ (type = "else" /\ i = top /\ e = New)

Stacked ==
  /\ nesting' \in Seq(1..MaxLines + 2)
  /\ \A j, k \in DOMAIN nesting' : j < k => nesting'[j] < nesting'[k]

OnTop(top, type) == top \in DOMAIN pieces /\ Type(top) = type /\ IsOpen(top) /\ \A o : IsOpen(o) => o <= top

(* The fields of the pieces.                                               *)
Laid(type, top) ==
  /\ \A i \in DOMAIN pieces :
       /\ pieces'[i].end = IF type = "endif" /\ i = top THEN New ELSE pieces[i].end
       /\ pieces'[i].else = IF type = "else" /\ i = top THEN New ELSE pieces[i].else
       /\ pieces'[i].next = IF i = Len(pieces) \/ (type = "endif" /\ i + 1 = pieces[top].else)
                            THEN New ELSE pieces[i].next
  /\ type = "if" => pieces'[New].end = 0 /\ pieces'[New].else = 0
  /\ type = "endloop" =>
       pieces'[New].loopback = top /\ pieces'[New].total = pieces[top].total /\ pieces'[New].timed = pieces[top].timed
  /\ type = "else" => pieces'[New].prev = Len(pieces) /\ pieces[top].else = 0
  /\ type = "endif" => pieces'[New].else = pieces[top].else

Growth(type) ==
  /\ phase = "build" /\ GrownBy(type) /\ Stacked /\ Paired(type, Last(nesting)) /\ Laid(type, Last(nesting))
  /\ type = "endloop" => OnTop(Last(nesting), "loop")
  /\ type \in {"else", "endif"} => OnTop(Last(nesting), "if")

LEMMA Added ==
  ASSUME TypeOK, ShapeInv, PairInv, ElseInv, NestInv, NEW line \in Line, AddLine(line)
  PROVE  Grown(line) /\ Growth(line.type)
<1> DEFINE top == Last(nesting)
<1>1. phase = "build" /\ Len(lines) < MaxLines /\ nesting \in Seq(1..MaxLines + 2) /\ line.type \in Types
  BY LineType DEF AddLine, TypeOK
<1>2. \A o : IsOpen(o)' <=> \E k \in DOMAIN nesting' : nesting'[k] = o
  BY DEF IsOpen
<1> HIDE DEF top
<1>3. CASE line.type \in {"do", "breakloop"}
  <2>1. Grown(line) /\ Linked /\ EndsKept /\ ElsesKept /\ nesting' = nesting
    BY <1>3, AddPlain
  <2>2. Stacked
    BY <1>1, <2>1 DEF Stacked, NestInv
  <2>3. \A o : IsOpen(o)' <=> IsOpen(o)
    BY <1>2, <2>1 DEF IsOpen
  <2>4. \A l, e : LoopPair(l, e)' <=> LoopPair(l, e) \/ (line.type = "endloop" /\ l = top /\ e = New)
    BY <1>3, <2>1, LoopPairs DEF Grown
  <2>5. \A i, f : IfPair(i, f)' <=> IfPair(i, f) \/ (line.type = "endif" /\ i = top /\ f = New)
    BY <1>3, <2>1, IfPairs DEF Grown
  <2>6. \A i, e : ElseOf(i, e)' <=> ElseOf(i, e) \/ (line.type = "else" /\ i = top /\ e = New)
    BY <1>3, <2>1, ElsesOf DEF Grown
  <2>7. Laid(line.type, top)
    BY <1>3, <2>1 DEF Laid, Linked, EndsKept, ElsesKept
  <2>8. QED
    BY <1>3, <2>1, <2>2, <2>3, <2>4, <2>5, <2>6, <2>7 DEF Growth, Grown, Paired, Closes, Opens, top
<1>4. CASE line.type \in {"loop", "if"}
  <2>1. /\ Grown(line) /\ Linked /\ EndsKept /\ ElsesKept /\ nesting' = Append(nesting, New)
        /\ pieces'[New].end = 0 /\ pieces'[New].else = 0
    BY <1>4, AddPlain
  <2>2. Stacked
    BY <1>1, <2>1, Pushed DEF Stacked
  <2>3. \A o : IsOpen(o)' <=> IsOpen(o) \/ o = New
    BY <1>1, <1>2, <2>1, Pushed
  <2>4. \A l, e : LoopPair(l, e)' <=> LoopPair(l, e) \/ (line.type = "endloop" /\ l = top /\ e = New)
    BY <1>4, <2>1, LoopPairs DEF Grown
  <2>5. \A i, f : IfPair(i, f)' <=> IfPair(i, f) \/ (line.type = "endif" /\ i = top /\ f = New)
    BY <1>4, <2>1, IfPairs DEF Grown
  <2>6. \A i, e : ElseOf(i, e)' <=> ElseOf(i, e) \/ (line.type = "else" /\ i = top /\ e = New)
    BY <1>4, <2>1, ElsesOf DEF Grown
  <2>7. Laid(line.type, top)
    BY <1>4, <2>1 DEF Laid, Linked, EndsKept, ElsesKept
  <2>8. QED
    BY <1>4, <2>1, <2>2, <2>3, <2>4, <2>5, <2>6, <2>7 DEF Growth, Grown, Paired, Closes, Opens, top
<1>5. CASE line.type = "else"
  <2>1. /\ Innermost("if") /\ pieces[top].else = 0 /\ Grown(line) /\ Linked /\ EndsKept
        /\ nesting' = nesting /\ pieces'[New].prev = Len(pieces)
        /\ \A i \in DOMAIN pieces : pieces'[i].else = IF i = top THEN New ELSE pieces[i].else
    BY <1>5, AddElse DEF top
  <2>2. OnTop(top, "if")
    BY <2>1, Innermosts DEF OnTop, top
  <2>3. Stacked
    BY <1>1, <2>1 DEF Stacked, NestInv
  <2>4. \A o : IsOpen(o)' <=> IsOpen(o)
    BY <1>2, <2>1 DEF IsOpen
  <2>5. \A l, e : LoopPair(l, e)' <=> LoopPair(l, e) \/ (line.type = "endloop" /\ l = top /\ e = New)
    BY <1>5, <2>1, LoopPairs DEF Grown
  <2>6. \A i, f : IfPair(i, f)' <=> IfPair(i, f) \/ (line.type = "endif" /\ i = top /\ f = New)
    BY <1>5, <2>1, IfPairs DEF Grown
  <2>7. \A i, e : ElseOf(i, e)' <=> ElseOf(i, e) \/ (line.type = "else" /\ i = top /\ e = New)
    BY <1>5, <2>1, <2>2, ElsesOf DEF Grown, OnTop
  <2>8. Laid(line.type, top)
    BY <1>5, <2>1 DEF Laid, Linked, EndsKept, ElsesKept
  <2>9. QED
    BY <1>5, <2>1, <2>2, <2>3, <2>4, <2>5, <2>6, <2>7, <2>8 DEF Growth, Grown, Paired, Closes, Opens, top
<1>6. CASE line.type = "endloop"
  <2>1. /\ Innermost("loop") /\ Grown(line) /\ Linked /\ EndsKept /\ ElsesKept /\ nesting' = Front(nesting)
        /\ pieces'[New].loopback = top
        /\ pieces'[New].total = pieces[top].total /\ pieces'[New].timed = pieces[top].timed
    BY <1>6, AddEndloop DEF top
  <2>2. OnTop(top, "loop")
    BY <2>1, Innermosts DEF OnTop, top
  <2>3. Stacked
    BY <1>1, <2>1, Innermosts DEF Stacked
  <2>4. \A o : IsOpen(o)' <=> IsOpen(o) /\ o # top
    BY <1>2, <2>1, Innermosts DEF top
  <2>5. \A l, e : LoopPair(l, e)' <=> LoopPair(l, e) \/ (line.type = "endloop" /\ l = top /\ e = New)
    BY <1>6, <2>1, <2>2, LoopPairs DEF Grown, OnTop
  <2>6. \A i, f : IfPair(i, f)' <=> IfPair(i, f) \/ (line.type = "endif" /\ i = top /\ f = New)
    BY <1>6, <2>1, IfPairs DEF Grown
  <2>7. \A i, e : ElseOf(i, e)' <=> ElseOf(i, e) \/ (line.type = "else" /\ i = top /\ e = New)
    BY <1>6, <2>1, ElsesOf DEF Grown
  <2>8. Laid(line.type, top)
    BY <1>6, <2>1 DEF Laid, Linked, EndsKept, ElsesKept
  <2>9. QED
    BY <1>6, <2>1, <2>2, <2>3, <2>4, <2>5, <2>6, <2>7, <2>8 DEF Growth, Grown, Paired, Closes, Opens, top
<1>7. CASE line.type = "endif"
  <2>1. /\ Innermost("if") /\ Grown(line) /\ ElsesKept /\ nesting' = Front(nesting)
        /\ pieces'[New].else = pieces[top].else
        /\ \A i \in DOMAIN pieces : pieces'[i].end = IF i = top THEN New ELSE pieces[i].end
        /\ \A i \in DOMAIN pieces :
             pieces'[i].next = IF i = Len(pieces) \/ i + 1 = pieces[top].else THEN New ELSE pieces[i].next
    BY <1>7, AddEndif DEF top
  <2>2. OnTop(top, "if")
    BY <2>1, Innermosts DEF OnTop, top
  <2>3. Stacked
    BY <1>1, <2>1, Innermosts DEF Stacked
  <2>4. \A o : IsOpen(o)' <=> IsOpen(o) /\ o # top
    BY <1>2, <2>1, Innermosts DEF top
  <2>5. \A l, e : LoopPair(l, e)' <=> LoopPair(l, e) \/ (line.type = "endloop" /\ l = top /\ e = New)
    BY <1>7, <2>1, LoopPairs DEF Grown
  <2>6. \A i, f : IfPair(i, f)' <=> IfPair(i, f) \/ (line.type = "endif" /\ i = top /\ f = New)
    BY <1>7, <2>1, <2>2, IfPairs DEF Grown, OnTop
  <2>7. \A i, e : ElseOf(i, e)' <=> ElseOf(i, e) \/ (line.type = "else" /\ i = top /\ e = New)
    BY <1>7, <2>1, ElsesOf DEF Grown
  <2>8. Laid(line.type, top)
    BY <1>7, <2>1 DEF Laid, Linked, EndsKept, ElsesKept
  <2>9. QED
    BY <1>7, <2>1, <2>2, <2>3, <2>4, <2>5, <2>6, <2>7, <2>8 DEF Growth, Grown, Paired, Closes, Opens, top
<1>8. QED
  BY <1>1, <1>3, <1>4, <1>5, <1>6, <1>7 DEF Types

----------------------------------------------------------------------------
(* A line more keeps the invariants.                                       *)
LEMMA AddKeepsShape ==
  ASSUME SnakeInv, NEW line \in Line, AddLine(line)
  PROVE  TypeOK' /\ ShapeInv'
<1>1. TypeOK /\ ShapeInv /\ PairInv /\ ElseInv /\ NestInv /\ PlaceInv
  BY DEF SnakeInv
<1>2. Grown(line) /\ Growth(line.type)
  BY <1>1, Added
<1>3. /\ lines \in Seq(Line) /\ Len(lines) \in Nat /\ lines' = Append(lines, line)
      /\ Len(lines) < MaxLines /\ MaxLines \in Nat /\ phase = "build" /\ phase' = "build"
      /\ cut' \in BOOLEAN /\ tmout' \in BOOLEAN /\ current' = 0
  BY <1>1, <1>2, LegoAssumption DEF TypeOK, Grown, PlaceInv
<1>4. /\ lines' \in Seq(Line) /\ Len(lines') = Len(lines) + 1 /\ Len(lines') <= MaxLines
      /\ lines'[Len(lines) + 1] = line /\ \A k \in DOMAIN lines : lines'[k] = lines[k]
      /\ DOMAIN lines' = 1..Len(lines) + 1 /\ DOMAIN lines = 1..Len(lines)
  BY <1>3
<1>5. /\ New = Len(lines) + 2 /\ Len(pieces) = Len(lines) + 1 /\ Len(pieces') = New
      /\ DOMAIN pieces = 1..Len(pieces) /\ \A i \in DOMAIN pieces : pieces'[i].type = Type(i)
  BY <1>1, <1>2, <1>3, Grows DEF ShapeInv, Grown
<1>6. pieces' \in Seq(Pieces) /\ pieces'[New].type = line.type
  BY <1>2 DEF Grown, GrownBy
<1>7. ASSUME NEW k \in DOMAIN lines' PROVE pieces'[k + 1].type = lines'[k].type
  <2>1. CASE k = Len(lines) + 1
    BY <1>3, <1>4, <1>5, <1>6, <2>1
  <2>2. CASE k # Len(lines) + 1
    <3>1. k \in DOMAIN lines /\ k + 1 \in DOMAIN pieces
      BY <1>3, <1>4, <1>5, <2>2
    <3>2. Type(k + 1) = lines[k].type
      BY <1>1, <3>1 DEF ShapeInv
    <3>3. QED
      BY <1>4, <1>5, <3>1, <3>2
  <2>3. QED
    BY <2>1, <2>2
<1>8. pieces'[1].type = "start"
  <2>1. 1 \in DOMAIN pieces /\ Type(1) = "start"
    BY <1>1, <1>3, <1>5 DEF ShapeInv
  <2>2. QED
    BY <1>5, <2>1
<1>9. TypeOK'
  <2>1. current' \in 0..Len(pieces')
    BY <1>3, <1>5
  <2>2. QED
    BY <1>2, <1>3, <1>4, <1>6, <2>1 DEF TypeOK, Stacked, Growth, Grown, GrownBy
<1>10. Len(pieces') = Len(lines') + 1
  BY <1>3, <1>4, <1>5
<1>11. QED
  BY <1>3, <1>4, <1>6, <1>7, <1>8, <1>9, <1>10 DEF ShapeInv, Type

LEMMA AddKeepsPairs ==
  ASSUME SnakeInv, NEW type, Growth(type)
  PROVE  PairInv'
<1> DEFINE top == Last(nesting)
<1>1. TypeOK /\ ShapeInv /\ PairInv /\ ElseInv /\ NestInv
  BY DEF SnakeInv
<1>2. /\ GrownBy(type) /\ Paired(type, top) /\ Laid(type, top)
      /\ type = "endloop" => OnTop(top, "loop")
      /\ type \in {"else", "endif"} => OnTop(top, "if")
  BY DEF Growth, top
<1> HIDE DEF top
<1>3. /\ DOMAIN pieces' = DOMAIN pieces \cup {New} /\ New \notin DOMAIN pieces /\ 0 \notin DOMAIN pieces'
      /\ \A i \in DOMAIN pieces : pieces'[i].type = Type(i)
      /\ \A i \in DOMAIN pieces' : i \in Nat /\ i <= New /\ (i \in DOMAIN pieces => i < New)
      /\ pieces'[New].type = type
  BY <1>1, <1>2, Grows DEF GrownBy
<1>4. \A i \in DOMAIN pieces :
         /\ pieces'[i].loopback = pieces[i].loopback /\ pieces'[i].total = pieces[i].total
         /\ pieces'[i].timed = pieces[i].timed
  BY <1>2 DEF GrownBy, Alike
<1>5. \A l, e : LoopPair(l, e)' <=> LoopPair(l, e) \/ (type = "endloop" /\ l = top /\ e = New)
  BY <1>2 DEF Paired
<1>6. \A i, f : IfPair(i, f)' <=> IfPair(i, f) \/ (type = "endif" /\ i = top /\ f = New)
  BY <1>2 DEF Paired
<1>7. \A o : IsOpen(o)' <=> (IsOpen(o) /\ ~(Closes(type) /\ o = top)) \/ (Opens(type) /\ o = New)
  BY <1>2 DEF Paired
<1>8. \A l, e : LoopPair(l, e) => l \in DOMAIN pieces /\ e \in DOMAIN pieces /\ Type(l) = "loop"
  BY DEF LoopPair
<1>9. \A i, f : IfPair(i, f) => /\ i \in DOMAIN pieces /\ f \in DOMAIN pieces
                                /\ Type(i) = "if" /\ Type(f) = "endif" /\ pieces[i].end = f
  BY DEF IfPair
<1>10. ASSUME NEW e \in DOMAIN pieces', pieces'[e].type = "endloop"
       PROVE  \E l \in DOMAIN pieces' :
                /\ LoopPair(l, e)' /\ l < e /\ pieces'[e].total = pieces'[l].total
                /\ pieces'[e].timed = pieces'[l].timed
  <2>1. CASE e \in DOMAIN pieces
    <3>1. Type(e) = "endloop"
      BY <1>3, <1>10, <2>1
    <3>2. PICK l \in DOMAIN pieces : /\ LoopPair(l, e) /\ l < e /\ pieces[e].total = pieces[l].total
                                     /\ pieces[e].timed = pieces[l].timed
      BY <1>1, <2>1, <3>1 DEF PairInv
    <3>3. QED
      BY <1>3, <1>4, <1>5, <2>1, <3>2
  <2>2. CASE e = New
    <3>1. type = "endloop" /\ top \in DOMAIN pieces /\ Type(top) = "loop"
      BY <1>2, <1>3, <1>10, <2>2 DEF OnTop
    <3>2. /\ pieces'[e].loopback = top /\ pieces'[e].total = pieces'[top].total
          /\ pieces'[e].timed = pieces'[top].timed /\ top < e
      BY <1>2, <1>3, <1>4, <2>2, <3>1 DEF Laid
    <3>3. QED
      BY <1>3, <1>5, <2>2, <3>1, <3>2
  <2>3. QED
    BY <1>3, <2>1, <2>2
<1>11. ASSUME NEW l, NEW d, NEW e, LoopPair(l, d)', LoopPair(l, e)' PROVE d = e
  <2>1. ASSUME NEW c, IsOpen(top), LoopPair(top, c) PROVE FALSE
    <3>1. c \in DOMAIN pieces /\ top \in DOMAIN pieces /\ (top < top \/ c < top)
      BY <1>1, <1>8, <2>1 DEF NestInv, Block
    <3>2. PICK a \in DOMAIN pieces : LoopPair(a, c) /\ a < c
      BY <1>1, <2>1 DEF PairInv, LoopPair
    <3>3. a = top
      BY <2>1, <3>2 DEF LoopPair
    <3>4. QED
      BY <1>3, <3>1, <3>2, <3>3
  <2>2. type = "endloop" => IsOpen(top)
    BY <1>2 DEF OnTop
  <2>3. LoopPair(l, d) /\ LoopPair(l, e) => d = e
    BY <1>1, <1>8 DEF PairInv
  <2>4. QED
    BY <1>5, <1>11, <2>1, <2>2, <2>3
<1>12. ASSUME NEW l \in DOMAIN pieces', pieces'[l].type = "loop", ~IsOpen(l)'
       PROVE  \E e \in DOMAIN pieces' : LoopPair(l, e)'
  <2>1. CASE l = New
    BY <1>3, <1>7, <1>12, <2>1 DEF Opens
  <2>2. CASE l \in DOMAIN pieces /\ ~IsOpen(l)
    <3>1. PICK e \in DOMAIN pieces : LoopPair(l, e)
      BY <1>1, <1>3, <1>12, <2>2 DEF PairInv
    <3>2. QED
      BY <1>3, <1>5, <3>1
  <2>3. CASE l \in DOMAIN pieces /\ IsOpen(l)
    <3>1. Closes(type) /\ l = top /\ Type(l) = "loop"
      BY <1>3, <1>7, <1>12, <2>3
    <3>2. type = "endloop"
      BY <1>2, <3>1 DEF Closes, OnTop
    <3>3. QED
      BY <1>3, <1>5, <3>1, <3>2
  <2>4. QED
    BY <1>3, <2>1, <2>2, <2>3
<1>13. ASSUME NEW f \in DOMAIN pieces', pieces'[f].type = "endif"
       PROVE  \E i \in DOMAIN pieces' : IfPair(i, f)'
  <2>1. CASE f \in DOMAIN pieces
    <3>1. PICK i \in DOMAIN pieces : IfPair(i, f)
      BY <1>1, <1>3, <1>13, <2>1 DEF PairInv
    <3>2. QED
      BY <1>3, <1>6, <3>1
  <2>2. CASE f = New
    <3>1. type = "endif" /\ top \in DOMAIN pieces
      BY <1>2, <1>3, <1>13, <2>2 DEF OnTop
    <3>2. QED
      BY <1>3, <1>6, <2>2, <3>1
  <2>3. QED
    BY <1>3, <2>1, <2>2
<1>14. \A i \in DOMAIN pieces :
         /\ pieces'[i].end = IF type = "endif" /\ i = top THEN New ELSE pieces[i].end
         /\ pieces'[i].else = IF type = "else" /\ i = top THEN New ELSE pieces[i].else
  BY <1>2 DEF Laid
<1>15. \A i \in DOMAIN pieces : Type(i) = "if" /\ IsOpen(i) => pieces[i].end = 0
  BY <1>1 DEF PairInv
<1>16. ASSUME NEW i, NEW f, IfPair(i, f)' PROVE i < f /\ pieces'[f].else = pieces'[i].else
  <2>1. CASE IfPair(i, f)
    <3>1. i < f /\ pieces[f].else = pieces[i].else
      BY <1>1, <1>9, <2>1 DEF PairInv
    <3>2. type = "else" => i # top /\ f # top
      <4>1. ASSUME type = "else" PROVE i # top /\ f # top
        <5>1. IsOpen(top) /\ Type(top) = "if" /\ top \in DOMAIN pieces
          BY <1>2, <4>1 DEF OnTop
        <5>2. pieces[top].end = 0 /\ 0 \notin DOMAIN pieces
          BY <1>3, <1>15, <5>1
        <5>3. QED
          BY <1>9, <2>1, <5>1, <5>2
      <4>2. QED
        BY <4>1
    <3>3. QED
      BY <1>9, <1>14, <2>1, <3>1, <3>2
  <2>2. CASE type = "endif" /\ i = top /\ f = New
    <3>1. top \in DOMAIN pieces /\ pieces'[New].else = pieces[top].else
      BY <1>2, <2>2 DEF OnTop, Laid
    <3>2. QED
      BY <1>3, <1>14, <2>2, <3>1
  <2>3. QED
    BY <1>6, <1>16, <2>1, <2>2
<1>17. ASSUME NEW i, NEW j, NEW f, IfPair(i, f)', IfPair(j, f)' PROVE i = j
  <2>1. IfPair(i, f) /\ IfPair(j, f) => i = j
    BY <1>1, <1>9 DEF PairInv
  <2>2. QED
    BY <1>3, <1>6, <1>9, <1>17, <2>1
<1>18. ASSUME NEW i \in DOMAIN pieces', pieces'[i].type = "if"
       PROVE  IF IsOpen(i)' THEN pieces'[i].end = 0 ELSE \E f \in DOMAIN pieces' : IfPair(i, f)'
  <2>1. CASE i = New
    <3>1. pieces'[i].end = 0 /\ IsOpen(i)'
      BY <1>2, <1>3, <1>7, <1>18, <2>1 DEF Laid, Opens
    <3>2. QED
      BY <3>1
  <2>2. CASE i \in DOMAIN pieces /\ type = "endif" /\ i = top
    <3>1. ~IsOpen(i)' /\ pieces'[i].end = New
      BY <1>3, <1>7, <1>14, <2>2 DEF Opens, Closes
    <3>2. QED
      BY <1>3, <1>6, <2>2, <3>1
  <2>3. CASE i \in DOMAIN pieces /\ ~(type = "endif" /\ i = top)
    <3>1. Type(i) = "if" /\ pieces'[i].end = pieces[i].end
      BY <1>3, <1>14, <1>18, <2>3
    <3>2. IsOpen(i)' <=> IsOpen(i)
      <4>1. type = "endloop" => i # top
        BY <1>2, <3>1 DEF OnTop
      <4>2. QED
        BY <1>3, <1>7, <2>3, <4>1 DEF Closes
    <3>3. IF IsOpen(i) THEN pieces[i].end = 0 ELSE \E f \in DOMAIN pieces : IfPair(i, f)
      BY <1>1, <2>3, <3>1 DEF PairInv
    <3>4. QED
      BY <1>3, <1>6, <3>1, <3>2, <3>3
  <2>4. QED
    BY <1>3, <2>1, <2>2, <2>3
<1>19. \A e \in DOMAIN pieces' : pieces'[e].type # "endloop" => pieces'[e].loopback = 0
  <2>1. type # "endloop" => pieces'[New].loopback = 0
    BY <1>2 DEF GrownBy
  <2>2. QED
    BY <1>1, <1>3, <1>4, <2>1 DEF PairInv
<1>20. QED
  BY <1>10, <1>11, <1>12, <1>13, <1>16, <1>17, <1>18, <1>19 DEF PairInv, Type

(* What these proofs start from.                                           *)
LEMMA Adding ==
  ASSUME SnakeInv, NEW type, Growth(type)
  PROVE  LET top == Last(nesting) IN
         /\ TypeOK /\ ShapeInv /\ PairInv /\ ElseInv /\ NestInv /\ LinkInv /\ PlaceInv /\ BreakInv
         /\ GrownBy(type) /\ Stacked /\ Laid(type, top)
         /\ type = "endloop" => OnTop(top, "loop")
         /\ type \in {"else", "endif"} => OnTop(top, "if")
         /\ DOMAIN pieces' = DOMAIN pieces \cup {New} /\ New \notin DOMAIN pieces /\ 0 \notin DOMAIN pieces'
         /\ DOMAIN pieces' = 1..New /\ DOMAIN pieces = 1..Len(pieces) /\ Len(pieces) \in Nat
         /\ New = Len(pieces) + 1 /\ Len(pieces') = New
         /\ \A i \in DOMAIN pieces : pieces'[i].type = Type(i)
         /\ \A i \in DOMAIN pieces' : i \in Nat /\ i <= New /\ (i \in DOMAIN pieces => i < New)
         /\ pieces'[New].type = type
         /\ \A o : IsOpen(o)' <=> (IsOpen(o) /\ ~(Closes(type) /\ o = top)) \/ (Opens(type) /\ o = New)
         /\ \A l, e : LoopPair(l, e)' <=> LoopPair(l, e) \/ (type = "endloop" /\ l = top /\ e = New)
         /\ \A i, f : IfPair(i, f)' <=> IfPair(i, f) \/ (type = "endif" /\ i = top /\ f = New)
         /\ \A i, e : ElseOf(i, e)' <=> ElseOf(i, e) \/ (type = "else" /\ i = top /\ e = New)
         /\ \A l, e : LoopPair(l, e) => l \in DOMAIN pieces /\ e \in DOMAIN pieces
         /\ \A i, f : IfPair(i, f) => i \in DOMAIN pieces /\ f \in DOMAIN pieces
         /\ \A i, e : ElseOf(i, e) => i \in DOMAIN pieces /\ e \in DOMAIN pieces
         /\ \A o : IsOpen(o) => o \in DOMAIN pieces
<1>1. TypeOK /\ ShapeInv /\ PairInv /\ ElseInv /\ NestInv /\ LinkInv /\ PlaceInv /\ BreakInv
  BY DEF SnakeInv
<1>2. /\ GrownBy(type) /\ Stacked /\ Paired(type, Last(nesting)) /\ Laid(type, Last(nesting))
      /\ type = "endloop" => OnTop(Last(nesting), "loop")
      /\ type \in {"else", "endif"} => OnTop(Last(nesting), "if")
  BY DEF Growth
<1>3. /\ DOMAIN pieces' = DOMAIN pieces \cup {New} /\ New \notin DOMAIN pieces /\ 0 \notin DOMAIN pieces'
      /\ DOMAIN pieces' = 1..New /\ DOMAIN pieces = 1..Len(pieces) /\ Len(pieces) \in Nat
      /\ New = Len(pieces) + 1 /\ Len(pieces') = New
      /\ \A i \in DOMAIN pieces : pieces'[i].type = Type(i)
      /\ \A i \in DOMAIN pieces' : i \in Nat /\ i <= New /\ (i \in DOMAIN pieces => i < New)
  BY <1>1, <1>2, Grows
<1>4. pieces'[New].type = type
  BY <1>2 DEF GrownBy
<1>5. \A o : IsOpen(o) => o \in DOMAIN pieces
  BY <1>1 DEF NestInv
<1>6. \A l, e : LoopPair(l, e) => l \in DOMAIN pieces /\ e \in DOMAIN pieces
  BY DEF LoopPair
<1>7. \A i, f : IfPair(i, f) => i \in DOMAIN pieces /\ f \in DOMAIN pieces
  BY DEF IfPair
<1>8. \A i, e : ElseOf(i, e) => i \in DOMAIN pieces /\ e \in DOMAIN pieces
  BY DEF ElseOf
<1>9. QED
  BY <1>1, <1>2, <1>3, <1>4, <1>5, <1>6, <1>7, <1>8 DEF Paired

LEMMA AddKeepsElse ==
  ASSUME SnakeInv, NEW type, Growth(type)
  PROVE  ElseInv'
<1> DEFINE top == Last(nesting)
<1> HIDE DEF top
<1>1. /\ ElseInv /\ PairInv /\ Laid(type, top) /\ GrownBy(type)
      /\ type \in {"else", "endif"} => OnTop(top, "if")
      /\ type = "endloop" => OnTop(top, "loop")
  BY Adding DEF top
<1>2. /\ DOMAIN pieces' = DOMAIN pieces \cup {New} /\ New \notin DOMAIN pieces /\ 0 \notin DOMAIN pieces'
      /\ New = Len(pieces) + 1 /\ Len(pieces) \in Nat
      /\ \A i \in DOMAIN pieces : pieces'[i].type = Type(i)
      /\ \A i \in DOMAIN pieces' : i \in Nat /\ i <= New /\ (i \in DOMAIN pieces => i < New)
      /\ pieces'[New].type = type
  BY Adding
<1>3. /\ \A i, e : ElseOf(i, e)' <=> ElseOf(i, e) \/ (type = "else" /\ i = top /\ e = New)
      /\ \A o : IsOpen(o)' <=> (IsOpen(o) /\ ~(Closes(type) /\ o = top)) \/ (Opens(type) /\ o = New)
      /\ \A i, e : ElseOf(i, e) => i \in DOMAIN pieces /\ e \in DOMAIN pieces
  BY Adding DEF top
<1>4. \A i \in DOMAIN pieces :
        /\ pieces'[i].end = IF type = "endif" /\ i = top THEN New ELSE pieces[i].end
        /\ pieces'[i].else = IF type = "else" /\ i = top THEN New ELSE pieces[i].else
        /\ pieces'[i].prev = pieces[i].prev
  BY <1>1 DEF Laid, GrownBy, Alike
<1>5. ASSUME NEW i \in DOMAIN pieces', pieces'[i].type = "if", pieces'[i].else # 0
      PROVE  \E e \in DOMAIN pieces' : /\ ElseOf(i, e)' /\ i < e /\ pieces'[e].prev = e - 1
                                       /\ ~IsOpen(i)' => e < pieces'[i].end
  <2>1. CASE i = New
    BY <1>1, <1>2, <1>5, <2>1 DEF Laid
  <2>2. CASE i \in DOMAIN pieces /\ type = "else" /\ i = top
    <3>1. pieces'[New].prev = New - 1 /\ IsOpen(i)'
      BY <1>1, <1>2, <1>3, <2>2 DEF Laid, OnTop, Closes
    <3>2. QED
      BY <1>2, <1>3, <2>2, <3>1
  <2>3. CASE i \in DOMAIN pieces /\ ~(type = "else" /\ i = top)
    <3>1. PICK e \in DOMAIN pieces : /\ ElseOf(i, e) /\ i < e /\ pieces[e].prev = e - 1
                                     /\ ~IsOpen(i) => e < pieces[i].end
      BY <1>1, <1>2, <1>4, <1>5, <2>3 DEF ElseInv
    <3>2. ~IsOpen(i)' => e < pieces'[i].end
      <4>1. CASE type = "endif" /\ i = top
        BY <1>2, <1>4, <2>3, <4>1
      <4>2. CASE ~(type = "endif" /\ i = top)
        <5>1. type = "endloop" => i # top
          BY <1>1, <1>2, <1>5, <2>3 DEF OnTop
        <5>2. IsOpen(i) => IsOpen(i)'
          BY <1>3, <4>2, <5>1 DEF Closes
        <5>3. QED
          BY <1>4, <2>3, <3>1, <4>2, <5>2
      <4>3. QED
        BY <4>1, <4>2
    <3>3. QED
      BY <1>2, <1>3, <1>4, <3>1, <3>2
  <2>4. QED
    BY <1>2, <2>1, <2>2, <2>3
<1>6. ASSUME NEW e \in DOMAIN pieces', pieces'[e].type = "else"
      PROVE  \E i \in DOMAIN pieces' : ElseOf(i, e)'
  <2>1. CASE e = New
    BY <1>1, <1>2, <1>3, <1>6, <2>1 DEF OnTop
  <2>2. CASE e \in DOMAIN pieces
    <3>1. PICK i \in DOMAIN pieces : ElseOf(i, e)
      BY <1>1, <1>2, <1>6, <2>2 DEF ElseInv
    <3>2. QED
      BY <1>2, <1>3, <3>1
  <2>3. QED
    BY <1>2, <2>1, <2>2
<1>7. ASSUME NEW i, NEW j, NEW e, ElseOf(i, e)', ElseOf(j, e)' PROVE i = j
  <2>1. ElseOf(i, e) /\ ElseOf(j, e) => i = j
    BY <1>1, <1>3 DEF ElseInv
  <2>2. QED
    BY <1>2, <1>3, <1>7, <2>1
<1>8. QED
  BY <1>5, <1>6, <1>7 DEF ElseInv, Type

LEMMA AddKeepsNest ==
  ASSUME SnakeInv, NEW type, Growth(type)
  PROVE  NestInv'
<1> DEFINE top == Last(nesting)
<1> HIDE DEF top
<1>1. /\ NestInv /\ Stacked
      /\ type \in {"else", "endif"} => OnTop(top, "if")
      /\ type = "endloop" => OnTop(top, "loop")
  BY Adding DEF top
<1>2. /\ DOMAIN pieces' = DOMAIN pieces \cup {New} /\ New \notin DOMAIN pieces
      /\ \A i \in DOMAIN pieces : pieces'[i].type = Type(i)
      /\ \A i \in DOMAIN pieces' : i \in Nat /\ i <= New /\ (i \in DOMAIN pieces => i < New)
      /\ pieces'[New].type = type
  BY Adding
<1>3. /\ \A o : IsOpen(o)' <=> (IsOpen(o) /\ ~(Closes(type) /\ o = top)) \/ (Opens(type) /\ o = New)
      /\ \A o : IsOpen(o) => o \in DOMAIN pieces
      /\ \A i, e : ElseOf(i, e)' <=> ElseOf(i, e) \/ (type = "else" /\ i = top /\ e = New)
      /\ \A i, e : ElseOf(i, e) => i \in DOMAIN pieces /\ e \in DOMAIN pieces
  BY Adding DEF top
<1>4. \A a, b : Block(a, b)' <=> Block(a, b) \/ (Closes(type) /\ a = top /\ b = New)
  <2>1. \A a, b : Block(a, b)' <=> LoopPair(a, b)' \/ IfPair(a, b)'
    BY DEF Block
  <2>2. QED
    BY <2>1, Adding DEF Block, Closes, top
<1>5. \A a, b : Block(a, b) => a \in DOMAIN pieces /\ b \in DOMAIN pieces
  BY Adding DEF Block
<1>6. Closes(type) \/ type = "else" => top \in DOMAIN pieces /\ IsOpen(top) /\ \A o : IsOpen(o) => o <= top
  BY <1>1 DEF Closes, OnTop
<1>7. \A i \in DOMAIN pieces : i \in Nat /\ i < New
  BY <1>2
<1>8. ASSUME NEW o, IsOpen(o)' PROVE o \in DOMAIN pieces' /\ pieces'[o].type \in {"loop", "if"}
  <2>1. IsOpen(o) => o \in DOMAIN pieces /\ Type(o) \in {"loop", "if"}
    BY <1>1 DEF NestInv
  <2>2. QED
    BY <1>2, <1>3, <1>8, <2>1 DEF Opens
<1>9. \A a, b, o : Block(a, b) /\ IsOpen(o) => o < a \/ b < o
  BY <1>1, <1>5 DEF NestInv
<1>10. ASSUME NEW a, NEW b, NEW o, Block(a, b)', IsOpen(o)' PROVE o < a \/ b < o
  <2>1. CASE Block(a, b)
    BY <1>3, <1>5, <1>7, <1>9, <1>10, <2>1
  <2>2. CASE Closes(type) /\ a = top /\ b = New
    <3>1. IsOpen(o) /\ o # top
      BY <1>3, <1>10, <2>2 DEF Closes, Opens
    <3>2. QED
      BY <1>3, <1>6, <1>7, <2>2, <3>1
  <2>3. QED
    BY <1>4, <1>10, <2>1, <2>2
<1>11. ASSUME NEW a, NEW b, NEW c, NEW d, Block(a, b)', Block(c, d)', a < c, c < b PROVE d < b
  <2>1. CASE Block(a, b) /\ Block(c, d)
    BY <1>1, <1>5, <1>11, <2>1 DEF NestInv
  <2>2. CASE Block(a, b) /\ Closes(type) /\ c = top /\ d = New
    <3>1. top < a \/ b < top
      BY <1>6, <1>9, <2>2
    <3>2. QED
      BY <1>5, <1>6, <1>7, <1>11, <2>2, <3>1
  <2>3. CASE Closes(type) /\ a = top /\ b = New /\ Block(c, d)
    BY <1>5, <1>7, <2>3
  <2>4. CASE Closes(type) /\ a = top /\ b = New /\ c = top /\ d = New
    BY <1>6, <1>7, <1>11, <2>4
  <2>5. QED
    BY <1>4, <1>11, <2>1, <2>2, <2>3, <2>4
<1>12. \A i, e, o : ElseOf(i, e) /\ IsOpen(o) /\ i < o => e < o
  BY <1>1, <1>3 DEF NestInv
<1>13. ASSUME NEW i, NEW e, NEW c, NEW d, ElseOf(i, e)', Block(c, d)', i < c, c < e PROVE d < e
  <2>1. CASE ElseOf(i, e) /\ Block(c, d)
    BY <1>1, <1>3, <1>5, <1>13, <2>1 DEF NestInv
  <2>2. CASE ElseOf(i, e) /\ Closes(type) /\ c = top /\ d = New
    <3>1. e < top
      BY <1>6, <1>12, <1>13, <2>2
    <3>2. QED
      BY <1>3, <1>6, <1>7, <1>13, <2>2, <3>1
  <2>3. CASE type = "else" /\ i = top /\ e = New
    <3>1. Block(c, d)
      BY <1>4, <1>13, <2>3 DEF Closes
    <3>2. QED
      BY <1>5, <1>7, <2>3, <3>1
  <2>4. QED
    BY <1>3, <1>4, <1>13, <2>1, <2>2, <2>3
<1>14. ASSUME NEW i, NEW e, NEW o, ElseOf(i, e)', IsOpen(o)', i < o PROVE e < o
  <2>1. CASE ElseOf(i, e) /\ IsOpen(o)
    BY <1>12, <1>14, <2>1
  <2>2. CASE ElseOf(i, e) /\ o = New
    BY <1>3, <1>7, <2>2
  <2>3. CASE type = "else" /\ i = top /\ e = New
    <3>1. IsOpen(o)
      BY <1>3, <1>14, <2>3 DEF Opens
    <3>2. QED
      BY <1>3, <1>6, <1>7, <1>14, <2>3, <3>1
  <2>4. QED
    BY <1>3, <1>14, <2>1, <2>2, <2>3
<1>15. \A j, k \in DOMAIN nesting' : j < k => nesting'[j] < nesting'[k]
  BY <1>1 DEF Stacked
<1>16. QED
  BY <1>8, <1>10, <1>11, <1>13, <1>14, <1>15 DEF NestInv, Type

LEMMA AddKeepsLinks ==
  ASSUME SnakeInv, NEW type, Growth(type)
  PROVE  LinkInv' /\ \A e \in DOMAIN pieces' : ~LoopedBack(e)'
<1> DEFINE top == Last(nesting)
<1> HIDE DEF top
<1>1. /\ ElseInv /\ LinkInv /\ PlaceInv /\ PairInv /\ Laid(type, top) /\ GrownBy(type)
      /\ type \in {"else", "endif"} => OnTop(top, "if")
      /\ type = "endloop" => OnTop(top, "loop")
  BY Adding DEF top
<1>2. /\ DOMAIN pieces' = DOMAIN pieces \cup {New} /\ New \notin DOMAIN pieces /\ 0 \notin DOMAIN pieces'
      /\ New = Len(pieces) + 1 /\ Len(pieces) \in Nat /\ DOMAIN pieces = 1..Len(pieces)
      /\ DOMAIN pieces' = 1..New /\ Len(pieces') = New
      /\ \A i \in DOMAIN pieces : pieces'[i].type = Type(i)
      /\ \A i \in DOMAIN pieces' : i \in Nat /\ i <= New /\ (i \in DOMAIN pieces => i < New)
      /\ pieces'[New].type = type
  BY Adding
<1>3. /\ \A i, e : ElseOf(i, e)' <=> ElseOf(i, e) \/ (type = "else" /\ i = top /\ e = New)
      /\ \A o : IsOpen(o)' <=> (IsOpen(o) /\ ~(Closes(type) /\ o = top)) \/ (Opens(type) /\ o = New)
      /\ \A i, e : ElseOf(i, e) => i \in DOMAIN pieces /\ e \in DOMAIN pieces
  BY Adding DEF top
<1>4. /\ phase = "build" /\ pieces'[New].next = 0
      /\ pieces'[New].beyond = 0 /\ pieces'[New].counter = 0
      /\ \A i \in DOMAIN pieces : /\ pieces'[i].loopback = pieces[i].loopback
                                  /\ pieces'[i].beyond = pieces[i].beyond
                                  /\ pieces'[i].counter = pieces[i].counter
  BY <1>1 DEF Growth, GrownBy, Alike
<1>5. \A i \in DOMAIN pieces :
        /\ pieces'[i].end = IF type = "endif" /\ i = top THEN New ELSE pieces[i].end
        /\ pieces'[i].next = IF i = Len(pieces) \/ (type = "endif" /\ i + 1 = pieces[top].else)
                             THEN New ELSE pieces[i].next
  BY <1>1 DEF Laid
<1>6. \A e \in DOMAIN pieces : Type(e) = "endloop" => pieces[e].beyond = 0 /\ pieces[e].counter = 0
  BY <1>1, <1>4 DEF LinkInv
<1>7. \A e \in DOMAIN pieces' : pieces'[e].type = "endloop" => pieces'[e].beyond = 0 /\ pieces'[e].counter = 0
  BY <1>2, <1>4, <1>6
<1>8. \A i \in DOMAIN pieces' : Link(i)' = pieces'[i].next
  BY <1>7 DEF Link, Type
<1>9. \A i \in DOMAIN pieces : Link(i) = pieces[i].next
  BY <1>6 DEF Link, Type
<1>10. ASSUME NEW i \in DOMAIN pieces', i # New
       PROVE  IF pieces'[i + 1].type = "else"
              THEN \A j \in DOMAIN pieces' : ElseOf(j, i + 1)' =>
                     pieces'[i].next = IF IsOpen(j)' THEN i + 1 ELSE pieces'[j].end
              ELSE pieces'[i].next = i + 1
  <2>1. i \in DOMAIN pieces /\ i + 1 \in DOMAIN pieces'
    BY <1>2, <1>10
  <2>2. CASE i = Len(pieces)
    <3>1. i + 1 = New /\ pieces'[i].next = New
      BY <1>2, <1>5, <2>1, <2>2
    <3>2. ASSUME NEW j, ElseOf(j, i + 1)' PROVE IsOpen(j)'
      <4>1. type = "else" /\ j = top
        BY <1>2, <1>3, <3>1, <3>2
      <4>2. QED
        BY <1>1, <1>3, <4>1 DEF OnTop, Closes
    <3>3. QED
      BY <3>1, <3>2
  <2>3. CASE i # Len(pieces)
    <3>1. i + 1 \in DOMAIN pieces /\ i + 1 # New /\ pieces'[i + 1].type = Type(i + 1)
      BY <1>2, <2>1, <2>3
    <3>2. CASE Type(i + 1) = "else"
      <4> SUFFICES ASSUME NEW j \in DOMAIN pieces', ElseOf(j, i + 1)'
                   PROVE  pieces'[i].next = IF IsOpen(j)' THEN i + 1 ELSE pieces'[j].end
        BY <3>1, <3>2
      <4>1. ElseOf(j, i + 1) /\ j \in DOMAIN pieces
        BY <1>3, <3>1
      <4>2. pieces[i].next = IF IsOpen(j) THEN i + 1 ELSE pieces[j].end
        BY <1>1, <1>9, <2>1, <2>3, <3>2, <4>1 DEF LinkInv
      <4>3. Type(j) = "if" /\ pieces[j].else = i + 1
        BY <4>1 DEF ElseOf
      <4>4. CASE type = "endif" /\ j = top
        <5>1. ~IsOpen(j)' /\ pieces'[i].next = New /\ pieces'[j].end = New
          BY <1>2, <1>3, <1>5, <2>1, <4>1, <4>3, <4>4 DEF Closes, Opens
        <5>2. QED
          BY <5>1
      <4>5. CASE ~(type = "endif" /\ j = top)
        <5>1. IsOpen(j)' <=> IsOpen(j)
          BY <1>1, <1>2, <1>3, <4>1, <4>3, <4>5 DEF Closes, OnTop
        <5>2. ~(type = "endif" /\ i + 1 = pieces[top].else)
          <6>1. SUFFICES ASSUME type = "endif", i + 1 = pieces[top].else PROVE FALSE
            OBVIOUS
          <6>2. top \in DOMAIN pieces /\ Type(top) = "if"
            BY <1>1, <6>1 DEF OnTop
          <6>3. ElseOf(top, i + 1)
            BY <3>1, <3>2, <6>1, <6>2 DEF ElseOf
          <6>4. QED
            BY <1>1, <3>1, <4>1, <4>5, <6>1, <6>2, <6>3 DEF ElseInv
        <5>3. QED
          BY <1>5, <2>1, <2>3, <4>1, <4>2, <4>5, <5>1, <5>2
      <4>6. QED
        BY <4>4, <4>5
    <3>3. CASE Type(i + 1) # "else"
      <4>1. pieces[i].next = i + 1
        BY <1>1, <1>9, <2>1, <2>3, <3>3 DEF LinkInv
      <4>2. ~(type = "endif" /\ i + 1 = pieces[top].else)
        <5>1. SUFFICES ASSUME type = "endif", i + 1 = pieces[top].else PROVE FALSE
          OBVIOUS
        <5>2. top \in DOMAIN pieces /\ Type(top) = "if" /\ pieces[top].else # 0
          BY <1>1, <1>2, <3>1, <5>1 DEF OnTop
        <5>3. QED
          BY <1>1, <3>3, <5>1, <5>2 DEF ElseInv, ElseOf
      <4>3. QED
        BY <1>5, <2>1, <2>3, <3>1, <3>3, <4>1, <4>2
    <3>4. QED
      BY <3>2, <3>3
  <2>4. QED
    BY <2>2, <2>3
<1>11. ASSUME NEW e \in DOMAIN pieces', pieces'[e].type = "endloop"
       PROVE  pieces'[e].next # pieces'[e].loopback
  <2>1. CASE e = New
    BY <1>1, <1>2, <1>4, <1>11, <2>1 DEF Laid, OnTop
  <2>2. CASE e \in DOMAIN pieces
    <3>1. Type(e) = "endloop" /\ pieces[e].next # pieces[e].loopback
      BY <1>1, <1>2, <1>6, <1>11, <2>2 DEF LinkInv, LoopedBack
    <3>2. pieces[e].loopback \in DOMAIN pieces
      BY <1>1, <2>2, <3>1 DEF PairInv, LoopPair
    <3>3. QED
      BY <1>2, <1>4, <1>5, <2>2, <3>1, <3>2
  <2>3. QED
    BY <1>2, <2>1, <2>2
<1>12. \A e \in DOMAIN pieces' : ~LoopedBack(e)'
  BY <1>11 DEF LoopedBack, Type
<1>13. \A i \in DOMAIN pieces' : i # Len(pieces') =>
         IF pieces'[i + 1].type = "else"
         THEN \A j \in DOMAIN pieces' : ElseOf(j, i + 1)' => Link(i)' = IF IsOpen(j)' THEN i + 1 ELSE pieces'[j].end
         ELSE Link(i)' = i + 1
  BY <1>2, <1>8, <1>10
<1>14. pieces'[Len(pieces')].next = 0 /\ pieces'[Len(pieces')].beyond = 0
  BY <1>2, <1>4
<1>15. QED
  BY <1>7, <1>8, <1>12, <1>13, <1>14 DEF LinkInv, Type

LEMMA AddEncloses ==
  ASSUME SnakeInv, NEW type, Growth(type)
  PROVE  /\ \A l : \A b \in DOMAIN pieces : Encloses(l, b)' <=> Encloses(l, b)
         /\ \A l, b : b = New => (Encloses(l, b)' => l \in LoopStack)
         /\ type \in {"loop", "breakloop"} => \A l, b : b = New => (l \in LoopStack => Encloses(l, b)')
<1> DEFINE top == Last(nesting)
<1> HIDE DEF top
<1>1. /\ TypeOK /\ ShapeInv /\ NestInv
      /\ type = "endloop" => OnTop(top, "loop")
      /\ type \in {"else", "endif"} => OnTop(top, "if")
  BY Adding DEF top
<1>2. /\ DOMAIN pieces' = DOMAIN pieces \cup {New} /\ New \notin DOMAIN pieces
      /\ \A i \in DOMAIN pieces : pieces'[i].type = Type(i)
      /\ \A i \in DOMAIN pieces' : i \in Nat /\ i <= New /\ (i \in DOMAIN pieces => i < New)
      /\ pieces'[New].type = type
  BY Adding
<1>3. /\ \A o : IsOpen(o)' <=> (IsOpen(o) /\ ~(Closes(type) /\ o = top)) \/ (Opens(type) /\ o = New)
      /\ \A l, e : LoopPair(l, e)' <=> LoopPair(l, e) \/ (type = "endloop" /\ l = top /\ e = New)
      /\ \A l, e : LoopPair(l, e) => l \in DOMAIN pieces /\ e \in DOMAIN pieces
      /\ \A o : IsOpen(o) => o \in DOMAIN pieces
  BY Adding DEF top
<1>4. \A l, b : Encloses(l, b)' <=> /\ l \in DOMAIN pieces' /\ pieces'[l].type = "loop" /\ l < b
                                    /\ IsOpen(l)' \/ \E e \in DOMAIN pieces' : LoopPair(l, e)' /\ b < e
  BY DEF Encloses, Type
<1>5. LoopStack = {i \in DOMAIN pieces : IsOpen(i) /\ Type(i) = "loop"}
  BY <1>1, Opened
<1>6. ASSUME NEW l, NEW b \in DOMAIN pieces, Encloses(l, b) PROVE Encloses(l, b)'
  <2>1. l \in DOMAIN pieces' /\ pieces'[l].type = "loop" /\ l < b /\ l \in DOMAIN pieces /\ Type(l) = "loop"
    BY <1>2, <1>6 DEF Encloses
  <2>2. CASE \E e \in DOMAIN pieces : LoopPair(l, e) /\ b < e
    BY <1>2, <1>3, <1>4, <2>1, <2>2
  <2>3. CASE IsOpen(l)
    <3>1. CASE ~(Closes(type) /\ l = top)
      BY <1>3, <1>4, <2>1, <2>3, <3>1
    <3>2. CASE Closes(type) /\ l = top
      <4>1. type = "endloop"
        BY <1>1, <2>1, <3>2 DEF Closes, OnTop
      <4>2. QED
        BY <1>2, <1>3, <1>4, <2>1, <3>2, <4>1
    <3>3. QED
      BY <3>1, <3>2
  <2>4. QED
    BY <1>6, <2>2, <2>3 DEF Encloses
<1>7. ASSUME NEW l, NEW b \in DOMAIN pieces, Encloses(l, b)' PROVE Encloses(l, b)
  <2>1. l \in DOMAIN pieces' /\ pieces'[l].type = "loop" /\ l < b
    BY <1>4, <1>7
  <2>2. l \in DOMAIN pieces /\ Type(l) = "loop"
    BY <1>2, <2>1
  <2>3. CASE IsOpen(l)'
    BY <1>2, <1>3, <2>1, <2>2, <2>3 DEF Encloses
  <2>4. CASE \E e \in DOMAIN pieces' : LoopPair(l, e)' /\ b < e
    <3>1. IsOpen(l) \/ \E e \in DOMAIN pieces : LoopPair(l, e) /\ b < e
      BY <1>1, <1>3, <2>4 DEF OnTop
    <3>2. QED
      BY <2>1, <2>2, <3>1 DEF Encloses
  <2>5. QED
    BY <1>4, <1>7, <2>3, <2>4
<1>8. ASSUME NEW l, NEW b, b = New, Encloses(l, b)' PROVE l \in LoopStack
  <2>1. l \in DOMAIN pieces' /\ pieces'[l].type = "loop" /\ l < New
    BY <1>4, <1>8
  <2>2. l \in DOMAIN pieces /\ Type(l) = "loop"
    BY <1>2, <2>1
  <2>3. IsOpen(l)'
    BY <1>2, <1>4, <1>8
  <2>4. QED
    BY <1>2, <1>3, <1>5, <2>2, <2>3
<1>9. ASSUME type \in {"loop", "breakloop"}, NEW l, NEW b, b = New, l \in LoopStack PROVE Encloses(l, b)'
  BY <1>2, <1>3, <1>4, <1>5, <1>9 DEF Closes
<1>10. QED
  BY <1>6, <1>7, <1>8, <1>9

LEMMA AddKeepsBreaks ==
  ASSUME SnakeInv, NEW line \in Line, AddLine(line)
  PROVE  BreakInv'
<1>1. /\ DOMAIN pieces' = DOMAIN pieces \cup {New} /\ pieces'[New].type = line.type
      /\ \A i \in DOMAIN pieces : pieces'[i].type = Type(i)
      /\ BreakInv /\ TypeOK /\ ShapeInv /\ NestInv
  <2>1. Growth(line.type)
    BY Added DEF SnakeInv
  <2>2. QED
    BY <2>1, Adding
<1>2. \A l : \A b \in DOMAIN pieces : Encloses(l, b)' <=> Encloses(l, b)
  BY Added, AddEncloses DEF SnakeInv
<1>3. line.type = "breakloop" => \A l, b : b = New => (l \in LoopStack => Encloses(l, b)')
  <2>1. Growth(line.type)
    BY Added DEF SnakeInv
  <2>2. QED
    BY <2>1, AddEncloses
<1>4. ASSUME NEW b \in DOMAIN pieces', pieces'[b].type = "breakloop"
      PROVE  \E l \in DOMAIN pieces' : Encloses(l, b)'
  <2>1. CASE b \in DOMAIN pieces
    <3>1. PICK l \in DOMAIN pieces : Encloses(l, b)
      BY <1>1, <1>4, <2>1 DEF BreakInv
    <3>2. QED
      BY <1>1, <1>2, <2>1, <3>1
  <2>2. CASE b = New
    <3>1. line.type = "breakloop" /\ LoopStack # {}
      BY <1>1, <1>4, <2>2 DEF AddLine, Valid
    <3>2. PICK l : l \in LoopStack
      BY <3>1
    <3>3. l \in DOMAIN pieces
      BY <1>1, <3>2, Opened
    <3>4. QED
      BY <1>1, <1>3, <2>2, <3>1, <3>2, <3>3
  <2>3. QED
    BY <1>1, <2>1, <2>2
<1>5. QED
  BY <1>4 DEF BreakInv, Type

LEMMA AddKeepsRegular ==
  ASSUME SnakeInv, RegularInv, ~AnyScript, NEW line \in Line, AddLine(line)
  PROVE  RegularInv'
<1>1. Growth(line.type) /\ Grown(line)
  BY Added DEF SnakeInv
<1>2. /\ TypeOK /\ ShapeInv /\ NestInv
      /\ DOMAIN pieces' = DOMAIN pieces \cup {New} /\ New \notin DOMAIN pieces
      /\ New = Len(pieces) + 1 /\ Len(pieces) \in Nat /\ DOMAIN pieces = 1..Len(pieces)
      /\ \A i \in DOMAIN pieces : pieces'[i].type = Type(i)
      /\ \A i \in DOMAIN pieces' : i \in Nat /\ i <= New /\ (i \in DOMAIN pieces => i < New)
      /\ pieces'[New].type = line.type
  BY <1>1, Adding
<1>3. /\ phase = "build" /\ phase' = "build" /\ lines' = Append(lines, line) /\ lines \in Seq(Line)
      /\ Len(pieces) = Len(lines) + 1 /\ Len(lines) \in Nat
      /\ \A i \in DOMAIN pieces : pieces'[i].timed = pieces[i].timed /\ pieces'[i].total = pieces[i].total
  BY <1>1, <1>2 DEF Grown, GrownBy, Alike, TypeOK, ShapeInv
<1>4. line.type = "loop" =>
        pieces'[New].total = line.times /\ pieces'[New].timed = tmout' /\ tmout' = (tmout \/ line.msec)
  BY <1>2, AddPlain
<1>5. Regular(line)
  BY DEF AddLine
<1>6. LoopStack = {i \in DOMAIN pieces : IsOpen(i) /\ Type(i) = "loop"}
  BY <1>2, Opened
<1>7. TimesInv'
  <2> SUFFICES ASSUME NEW l \in DOMAIN pieces', pieces'[l].type = "loop"
               PROVE  /\ pieces'[l].timed = lines'[l - 1].msec
                      /\ ~pieces'[l].timed => pieces'[l].total = lines'[l - 1].times /\ pieces'[l].total > 1
    BY DEF TimesInv, Type
  <2>1. CASE l = New
    <3>1. lines'[l - 1] = line
      BY <1>2, <1>3, <2>1
    <3>2. line.type = "loop"
      BY <1>2, <2>1
    <3>3. ~line.msec => line.times > 1 /\ ~tmout
      BY <1>5, <3>2 DEF Regular
    <3>4. line.msec \in BOOLEAN /\ tmout \in BOOLEAN
      BY <1>2, LineType DEF TypeOK
    <3>5. pieces'[l].timed = line.msec
      BY <1>4, <2>1, <3>2, <3>3, <3>4
    <3>6. QED
      BY <1>4, <2>1, <3>1, <3>2, <3>3, <3>5
  <2>2. CASE l \in DOMAIN pieces
    <3>1. Type(l) = "loop"
      BY <1>2, <2>2
    <3>2. l # 1
      BY <1>2, <3>1 DEF ShapeInv
    <3>3. lines'[l - 1] = lines[l - 1]
      BY <1>2, <1>3, <2>2, <3>2
    <3>4. /\ pieces[l].timed = lines[l - 1].msec
          /\ ~pieces[l].timed => pieces[l].total = lines[l - 1].times /\ pieces[l].total > 1
      BY <2>2, <3>1 DEF RegularInv, TimesInv
    <3>5. QED
      BY <1>3, <2>2, <3>3, <3>4
  <2>3. QED
    BY <1>2, <2>1, <2>2
<1>8. OutmostInv'
  <2> SUFFICES ASSUME NEW b \in DOMAIN pieces', NEW l \in DOMAIN pieces', NEW k \in DOMAIN pieces',
                      pieces'[b].type = "breakloop", Encloses(l, b)'
               PROVE  /\ Encloses(k, b)' => k = l
                      /\ b < k => ~(pieces'[k].type = "loop" /\ Encloses(l, k)')
    BY DEF OutmostInv, Type
  <2>1. /\ \A c : \A d \in DOMAIN pieces : Encloses(c, d)' <=> Encloses(c, d)
        /\ \A c, d : d = New => (Encloses(c, d)' => c \in LoopStack)
    BY <1>1, AddEncloses
  <2>2. CASE b = New
    <3>1. line.type = "breakloop" /\ l \in LoopStack
      BY <1>2, <2>1, <2>2
    <3>2. Cardinality(LoopStack) = 1
      BY <1>5, <3>1 DEF Regular
    <3>3. PICK x : LoopStack = {x}
      <4>1. IsFiniteSet(LoopStack)
        <5>1. IsFiniteSet(DOMAIN pieces)
          BY <1>2, FS_Interval
        <5>2. QED
          BY <1>6, <5>1, FS_Subset
      <4>2. QED
        BY <3>2, <4>1, FS_Singleton
    <3>4. QED
      BY <1>2, <2>1, <2>2, <3>1, <3>3
  <2>3. CASE b \in DOMAIN pieces
    <3>1. Type(b) = "breakloop" /\ Encloses(l, b) /\ l \in DOMAIN pieces /\ l < b
      BY <1>2, <2>1, <2>3 DEF Encloses
    <3>2. Encloses(k, b)' => k = l
      <4>1. Encloses(k, b) => k \in DOMAIN pieces
        BY DEF Encloses
      <4>2. QED
        BY <2>1, <2>3, <3>1, <4>1 DEF RegularInv, OutmostInv
    <3>3. ASSUME b < k, pieces'[k].type = "loop", Encloses(l, k)' PROVE FALSE
      <4>1. CASE k \in DOMAIN pieces
        BY <1>2, <2>1, <2>3, <3>1, <3>3, <4>1 DEF RegularInv, OutmostInv
      <4>2. CASE k = New
        <5>1. line.type = "loop" /\ l \in LoopStack
          BY <1>2, <2>1, <3>3, <4>2
        <5>2. \A i \in Min(LoopStack)..Len(pieces) : pieces[i].type # "breakloop"
          BY <1>5, <5>1 DEF Regular
        <5>3. Min(LoopStack) \in Nat /\ Min(LoopStack) <= l
          <6>1. LoopStack \in SUBSET Nat
            BY <1>2, <1>6
          <6>2. PICK m \in LoopStack : \A r \in LoopStack : m <= r
            BY <5>1, <6>1, LeastElement
          <6>3. \E x \in LoopStack : \A y \in LoopStack : x <= y
            BY <6>2
          <6>4. Min(LoopStack) \in LoopStack /\ \A y \in LoopStack : Min(LoopStack) <= y
            BY <6>3 DEF Min
          <6>5. QED
            BY <5>1, <6>1, <6>4
        <5>4. b \in Min(LoopStack)..Len(pieces)
          BY <1>2, <2>3, <3>1, <5>3
        <5>5. QED
          BY <3>1, <5>2, <5>4 DEF Type
      <4>3. QED
        BY <1>2, <4>1, <4>2
    <3>4. QED
      BY <3>2, <3>3
  <2>4. QED
    BY <1>2, <2>2, <2>3
<1>9. CountInv'
  <2>1. \A e \in DOMAIN pieces' : ~LoopedBack(e)'
    BY <1>1, AddKeepsLinks
  <2>2. QED
    BY <1>3, <2>1 DEF CountInv
<1>10. QED
  BY <1>7, <1>8, <1>9 DEF RegularInv

LEMMA AddKeeps ==
  ASSUME SnakeInv, NEW line \in Line, AddLine(line)
  PROVE  SnakeInv'
<1>1. Growth(line.type) /\ Grown(line) /\ PlaceInv
  BY Added DEF SnakeInv
<1>2. \A e \in DOMAIN pieces' : ~LoopedBack(e)'
  BY <1>1, AddKeepsLinks
<1>3. PlaceInv'
  BY <1>1, <1>2 DEF PlaceInv, Grown
<1>4. PairInv' /\ ElseInv' /\ NestInv' /\ LinkInv'
  BY <1>1, AddKeepsPairs, AddKeepsElse, AddKeepsNest, AddKeepsLinks
<1>5. QED
  BY <1>3, <1>4, AddKeepsShape, AddKeepsBreaks DEF SnakeInv

----------------------------------------------------------------------------
(* The end piece.                                                          *)
LEMMA Finishing ==
  ASSUME SnakeInv, Finish
  PROVE  /\ Growth("end") /\ phase = "build" /\ phase' = "run" /\ current' = 1
         /\ nesting = <<>> /\ nesting' = <<>> /\ lines' = lines /\ tmout' = tmout /\ cut' = cut
<1> DEFINE n == Len(pieces)
           linked == [pieces EXCEPT ![n].next = New]
           top == Last(nesting)
<1>1. /\ TypeOK /\ ShapeInv /\ PairInv /\ ElseInv /\ NestInv
      /\ phase = "build" /\ nesting = <<>> /\ pieces' = Append(linked, Piece("end"))
      /\ phase' = "run" /\ current' = 1 /\ UNCHANGED <<lines, nesting, tmout, cut>>
  BY DEF SnakeInv, Finish
<1>2. /\ pieces \in Seq(Pieces) /\ n \in Nat /\ New = n + 1 /\ New \in Place /\ n \in DOMAIN pieces
      /\ DOMAIN pieces = 1..n
  BY <1>1, Opened, Places
<1>3. /\ linked \in Seq(Pieces) /\ Len(linked) = n
      /\ \A i \in DOMAIN pieces :
           /\ Alike(linked[i], pieces[i]) /\ linked[i].end = pieces[i].end /\ linked[i].else = pieces[i].else
           /\ linked[i].next = IF i = n THEN New ELSE pieces[i].next
  BY <1>1, Linking
<1>4. PICK p \in Pieces : /\ p = Piece("end") /\ p.type = "end" /\ p.next = 0 /\ p.beyond = 0
                          /\ p.counter = 0 /\ p.loopback = 0
  <2>1. Piece("end") \in Pieces
    BY NewPiece
  <2>2. QED
    BY <2>1 DEF Piece
<1> HIDE DEF linked
<1>5. /\ pieces' \in Seq(Pieces) /\ Len(pieces') = New /\ pieces'[New] = p
      /\ \A i \in DOMAIN pieces : pieces'[i] = linked[i]
  BY <1>1, <1>2, <1>3, <1>4
<1>6. GrownBy("end")
  BY <1>3, <1>4, <1>5 DEF GrownBy
<1>7. EndsKept /\ ElsesKept /\ Linked
  BY <1>3, <1>5 DEF EndsKept, ElsesKept, Linked
<1>8. Stacked
  BY <1>1 DEF TypeOK, NestInv, Stacked
<1>9. Paired("end", top)
  <2> HIDE DEF top
  <2>1. \A o : ~IsOpen(o) /\ ~IsOpen(o)'
    BY <1>1 DEF IsOpen
  <2>2. \A l, e : LoopPair(l, e)' <=> LoopPair(l, e) \/ ("end" = "endloop" /\ l = top /\ e = New)
    BY <1>1, <1>6, LoopPairs
  <2>3. \A i, f : IfPair(i, f)' <=> IfPair(i, f) \/ ("end" = "endif" /\ i = top /\ f = New)
    BY <1>1, <1>6, <1>7, IfPairs
  <2>4. \A i, e : ElseOf(i, e)' <=> ElseOf(i, e) \/ ("end" = "else" /\ i = top /\ e = New)
    BY <1>1, <1>6, <1>7, ElsesOf
  <2>5. QED
    BY <2>1, <2>2, <2>3, <2>4 DEF Paired, Closes, Opens
<1>10. Laid("end", top)
  BY <1>7 DEF Laid, Linked, EndsKept, ElsesKept
<1>11. QED
  BY <1>1, <1>6, <1>8, <1>9, <1>10 DEF Growth

LEMMA FinishKeeps ==
  ASSUME SnakeInv, Finish
  PROVE  /\ SnakeInv'
         /\ RegularInv => RegularInv'
<1>1. /\ Growth("end") /\ phase = "build" /\ phase' = "run" /\ current' = 1
      /\ nesting = <<>> /\ nesting' = <<>> /\ lines' = lines /\ tmout' = tmout /\ cut' = cut
  BY Finishing
<1>2. /\ TypeOK /\ ShapeInv /\ PairInv /\ LinkInv /\ BreakInv /\ GrownBy("end")
      /\ DOMAIN pieces' = DOMAIN pieces \cup {New} /\ New \notin DOMAIN pieces
      /\ New = Len(pieces) + 1 /\ Len(pieces) \in Nat /\ DOMAIN pieces = 1..Len(pieces)
      /\ DOMAIN pieces' = 1..New /\ Len(pieces') = New
      /\ \A i \in DOMAIN pieces : pieces'[i].type = Type(i)
      /\ \A i \in DOMAIN pieces' : i \in Nat /\ i <= New /\ (i \in DOMAIN pieces => i < New)
      /\ pieces'[New].type = "end"
      /\ \A l, e : LoopPair(l, e)' <=> LoopPair(l, e) \/ ("end" = "endloop" /\ l = Last(nesting) /\ e = New)
  BY <1>1, Adding
<1>3. PairInv' /\ ElseInv' /\ NestInv' /\ LinkInv' /\ \A e \in DOMAIN pieces' : ~LoopedBack(e)'
  BY <1>1, AddKeepsPairs, AddKeepsElse, AddKeepsNest, AddKeepsLinks
<1>4. /\ lines \in Seq(Line) /\ Len(lines) \in Nat /\ DOMAIN lines = 1..Len(lines)
      /\ Len(pieces) = Len(lines) + 1 /\ 1 \in DOMAIN pieces /\ Len(lines) <= MaxLines
  BY <1>1, <1>2 DEF TypeOK, ShapeInv
<1>5. pieces' \in Seq(Pieces)
  BY <1>2 DEF GrownBy
<1>6. TypeOK'
  <2>1. current' \in 0..Len(pieces')
    BY <1>1, <1>2, <1>4
  <2>2. QED
    BY <1>1, <1>2, <1>5, <2>1 DEF TypeOK
<1>7. ShapeInv'
  <2>1. \A k \in DOMAIN lines' : pieces'[k + 1].type = lines'[k].type
    BY <1>1, <1>2, <1>4 DEF ShapeInv
  <2>2. pieces'[1].type = "start"
    BY <1>2, <1>4 DEF ShapeInv
  <2>3. Len(pieces') = Len(lines') + 2 /\ pieces'[Len(pieces')].type = "end"
    BY <1>1, <1>2, <1>4
  <2>4. QED
    BY <1>1, <1>4, <1>5, <2>1, <2>2, <2>3 DEF ShapeInv, Type
<1>8. PlaceInv'
  BY <1>1, <1>2, <1>3, <1>4 DEF PlaceInv
<1>9. \A l : \A b \in DOMAIN pieces : Encloses(l, b)' <=> Encloses(l, b)
  BY <1>1, AddEncloses
<1>10. BreakInv'
  BY <1>2, <1>9 DEF BreakInv, Type
<1>11. ASSUME RegularInv PROVE RegularInv'
  <2>1. \A i \in DOMAIN pieces : pieces'[i].timed = pieces[i].timed /\ pieces'[i].total = pieces[i].total
                                 /\ pieces'[i].counter = pieces[i].counter
    BY <1>2 DEF GrownBy, Alike
  <2>2. TimesInv'
    BY <1>1, <1>2, <1>11, <2>1 DEF RegularInv, TimesInv, Type
  <2>3. OutmostInv'
    <3>1. \A b \in DOMAIN pieces' : pieces'[b].type = "breakloop" => b \in DOMAIN pieces /\ Type(b) = "breakloop"
      BY <1>2
    <3>2. \A k \in DOMAIN pieces' : pieces'[k].type = "loop" => k \in DOMAIN pieces /\ Type(k) = "loop"
      BY <1>2
    <3>3. \A l, b : Encloses(l, b) => l \in DOMAIN pieces
      BY DEF Encloses
    <3>4. QED
      BY <1>9, <1>11, <3>1, <3>2, <3>3 DEF RegularInv, OutmostInv, Type
  <2>4. CountInv'
    <3>1. \A e \in DOMAIN pieces' : pieces'[e].type = "endloop" => pieces'[e].counter = 0
      BY <1>1, <1>2, <2>1 DEF LinkInv
    <3>2. QED
      BY <1>3, <3>1 DEF CountInv, Type
  <2>5. QED
    BY <2>2, <2>3, <2>4 DEF RegularInv
<1>12. QED
  BY <1>3, <1>6, <1>7, <1>8, <1>10, <1>11 DEF SnakeInv

LEMMA InitSnake ==
  ASSUME Init
  PROVE  SnakeInv /\ RegularInv
<1>1. /\ phase = "build" /\ lines = <<>> /\ nesting = <<>> /\ tmout = FALSE
      /\ pieces = <<Piece("start")>> /\ current = 0 /\ cut = FALSE
  BY DEF Init
<1>2. Len(pieces) = 1 /\ DOMAIN pieces = {1} /\ pieces[1] = Piece("start")
  BY <1>1
<1>3. pieces[1].type = "start" /\ pieces[1].next = 0 /\ pieces[1].loopback = 0
  BY <1>2 DEF Piece
<1>4. pieces \in Seq(Pieces)
  <2>1. Piece("start") \in Pieces
    BY LegoAssumption DEF Piece, Pieces, Place
  <2>2. QED
    BY <1>1, <2>1
<1>5. /\ \A o : ~IsOpen(o)
      /\ \A l, e : ~LoopPair(l, e) /\ ~IfPair(l, e) /\ ~Block(l, e) /\ ~ElseOf(l, e)
      /\ \A l, b : ~Encloses(l, b)
  BY <1>1, <1>2, <1>3 DEF IsOpen, LoopPair, IfPair, Block, ElseOf, Encloses, Type
<1>6. TypeOK /\ ShapeInv
  <2>1. lines \in Seq(Line) /\ Len(lines) = 0 /\ DOMAIN lines = {} /\ nesting \in Seq(1..MaxLines + 2)
    BY <1>1
  <2>2. TypeOK
    <3>1. tmout \in BOOLEAN /\ cut \in BOOLEAN
      BY <1>1, Zenon
    <3>2. current \in 0..Len(pieces) /\ phase \in {"build", "run", "ended"}
      BY <1>1, <1>2
    <3>3. QED
      BY <1>4, <2>1, <3>1, <3>2 DEF TypeOK
  <2>3. ShapeInv
    BY <1>1, <1>2, <1>3, <1>4, <2>1, LegoAssumption DEF ShapeInv, Type
  <2>4. QED
    BY <2>2, <2>3
<1>7. PairInv /\ ElseInv
  BY <1>2, <1>3, <1>5 DEF PairInv, ElseInv, Type
<1>8. NestInv
  BY <1>1, <1>5 DEF NestInv
<1>9. LinkInv /\ PlaceInv /\ BreakInv
  BY <1>1, <1>2, <1>3, <1>5 DEF LinkInv, PlaceInv, BreakInv, LoopedBack, Type
<1>10. RegularInv
  BY <1>2, <1>3, <1>5 DEF RegularInv, TimesInv, OutmostInv, CountInv, Type
<1>11. QED
  BY <1>6, <1>7, <1>8, <1>9, <1>10 DEF SnakeInv

----------------------------------------------------------------------------
(* The way through the snake.                                              *)
LEMMA Running ==
  ASSUME SnakeInv, phase # "build"
  PROVE  /\ Len(pieces) \in Nat /\ DOMAIN pieces = 1..Len(pieces) /\ Len(pieces) = Len(lines) + 2
         /\ Len(pieces) \in DOMAIN pieces /\ 1 \in DOMAIN pieces /\ pieces \in Seq(Pieces)
         /\ \A i \in DOMAIN pieces : i \in Nat /\ i # 0 /\ i <= Len(pieces) /\ pieces[i] \in Pieces
         /\ \A o : ~IsOpen(o)
         /\ \A i \in DOMAIN pieces : /\ Type(i) = "end" <=> i = Len(pieces)
                                     /\ Type(i) = "start" <=> i = 1
                                     /\ i # 1 /\ i # Len(pieces) => i - 1 \in DOMAIN lines /\ lines[i - 1].type = Type(i)
         /\ \A i \in DOMAIN pieces : Type(i) \in Types \cup {"start", "end"}
         /\ \A l, e : LoopPair(l, e) => l \in DOMAIN pieces /\ e \in DOMAIN pieces /\ l < e
         /\ \A i, f : IfPair(i, f) => i \in DOMAIN pieces /\ f \in DOMAIN pieces /\ i < f
<1>1. TypeOK /\ ShapeInv /\ PairInv /\ NestInv
  BY DEF SnakeInv
<1>2. /\ pieces \in Seq(Pieces) /\ Len(pieces) \in Nat /\ DOMAIN pieces = 1..Len(pieces)
      /\ Len(pieces) = Len(lines) + 2 /\ Len(lines) \in Nat /\ lines \in Seq(Line)
  BY <1>1 DEF TypeOK, ShapeInv
<1>3. \A o : ~IsOpen(o)
  BY <1>1 DEF ShapeInv, IsOpen
<1>4. Type(1) = "start" /\ Type(Len(pieces)) = "end"
  BY <1>1 DEF ShapeInv
<1>5. \A i \in DOMAIN pieces : i # 1 /\ i # Len(pieces) => i - 1 \in DOMAIN lines /\ (i - 1) + 1 = i
  BY <1>2
<1>6. \A i \in DOMAIN pieces : i # 1 /\ i # Len(pieces) => lines[i - 1].type = Type(i) /\ Type(i) \in Types
  <2> SUFFICES ASSUME NEW i \in DOMAIN pieces, i # 1, i # Len(pieces)
               PROVE  lines[i - 1].type = Type(i) /\ Type(i) \in Types
    OBVIOUS
  <2>1. i - 1 \in DOMAIN lines /\ (i - 1) + 1 = i
    BY <1>5
  <2>2. Type((i - 1) + 1) = lines[i - 1].type
    BY <1>1, <2>1 DEF ShapeInv
  <2>3. lines[i - 1] \in Line
    BY <1>2, <2>1
  <2>4. QED
    BY <2>1, <2>2, <2>3, LineType
<1>7. "end" \notin Types /\ "start" \notin Types
  BY DEF Types
<1>8. ASSUME NEW l, NEW e, LoopPair(l, e) PROVE l \in DOMAIN pieces /\ e \in DOMAIN pieces /\ l < e
  <2>1. PICK a \in DOMAIN pieces : LoopPair(a, e) /\ a < e
    BY <1>1, <1>8 DEF PairInv, LoopPair
  <2>2. a = l
    BY <1>8, <2>1 DEF LoopPair
  <2>3. QED
    BY <1>8, <2>1, <2>2 DEF LoopPair
<1>9. \A i, f : IfPair(i, f) => i \in DOMAIN pieces /\ f \in DOMAIN pieces /\ i < f
  BY <1>1 DEF IfPair, PairInv
<1>10. \A i \in DOMAIN pieces : i \in Nat /\ i # 0 /\ i <= Len(pieces) /\ pieces[i] \in Pieces
  BY <1>2
<1>11. Len(pieces) \in DOMAIN pieces /\ 1 \in DOMAIN pieces /\ 1 # Len(pieces)
  BY <1>2
<1>12. ASSUME NEW i \in DOMAIN pieces
       PROVE  /\ Type(i) = "end" <=> i = Len(pieces)
              /\ Type(i) = "start" <=> i = 1
              /\ Type(i) \in Types \cup {"start", "end"}
  BY <1>4, <1>6, <1>7, <1>11
<1>13. QED
  BY <1>2, <1>3, <1>5, <1>6, <1>8, <1>9, <1>10, <1>11, <1>12

(* The links lead forward, and not past the end of a loop.                 *)
LEMMA Forward ==
  ASSUME SnakeInv, phase # "build", NEW i \in DOMAIN pieces, i # Len(pieces)
  PROVE  /\ Link(i) \in DOMAIN pieces /\ i < Link(i)
         /\ \A l, e : LoopPair(l, e) /\ l <= i /\ i < e => Link(i) <= e
<1>1. /\ Len(pieces) \in Nat /\ DOMAIN pieces = 1..Len(pieces) /\ \A o : ~IsOpen(o)
      /\ \A k \in DOMAIN pieces : k \in Nat /\ k # 0
  BY Running
<1>2. LinkInv /\ ElseInv /\ NestInv /\ PairInv
  BY DEF SnakeInv
<1>3. i + 1 \in DOMAIN pieces
  BY <1>1
<1>4. CASE Type(i + 1) # "else"
  <2>1. Link(i) = i + 1
    BY <1>2, <1>4 DEF LinkInv
  <2>2. \A l, e : LoopPair(l, e) => e \in DOMAIN pieces
    BY DEF LoopPair
  <2>3. QED
    BY <1>1, <1>3, <2>1, <2>2
<1>5. CASE Type(i + 1) = "else"
  <2>1. PICK j \in DOMAIN pieces : ElseOf(j, i + 1)
    BY <1>2, <1>3, <1>5 DEF ElseInv
  <2>2. Link(i) = pieces[j].end
    BY <1>1, <1>2, <1>5, <2>1 DEF LinkInv
  <2>3. Type(j) = "if" /\ pieces[j].else = i + 1
    BY <2>1 DEF ElseOf
  <2>4. j < i + 1 /\ i + 1 < pieces[j].end
    <3>1. PICK e \in DOMAIN pieces : ElseOf(j, e) /\ j < e /\ (~IsOpen(j) => e < pieces[j].end)
      BY <1>1, <1>2, <1>3, <2>3 DEF ElseInv
    <3>2. e = i + 1
      BY <2>3, <3>1 DEF ElseOf
    <3>3. QED
      BY <1>1, <3>1, <3>2
  <2>5. PICK f \in DOMAIN pieces : IfPair(j, f) /\ pieces[j].end = f
    BY <1>1, <1>2, <2>3 DEF PairInv, IfPair
  <2>6. ASSUME NEW l, NEW e, LoopPair(l, e), l <= i, i < e PROVE f <= e
    <3>1. /\ l \in DOMAIN pieces /\ e \in DOMAIN pieces /\ Type(l) = "loop" /\ Type(e) = "endloop"
          /\ Block(l, e) /\ Block(j, f)
      BY <2>5, <2>6 DEF LoopPair, Block
    <3>2. i + 1 # e /\ l # j
      BY <1>5, <2>3, <3>1
    <3>3. CASE l < j
      <4>1. j < e
        BY <1>1, <2>4, <2>6, <3>1, <3>2
      <4>2. QED
        BY <1>1, <1>2, <3>1, <3>3, <4>1 DEF NestInv
    <3>4. CASE j < l
      <4>1. l < i + 1
        BY <1>1, <2>6, <3>1
      <4>2. e < i + 1
        BY <1>2, <1>3, <2>1, <3>1, <3>4, <4>1 DEF NestInv
      <4>3. QED
        BY <1>1, <2>6, <3>1, <4>2
    <3>5. QED
      BY <1>1, <3>1, <3>2, <3>3, <3>4
  <2>7. QED
    BY <1>1, <2>2, <2>4, <2>5, <2>6
<1>6. QED
  BY <1>4, <1>5

(* A step of the interpreter leaves the snake as mli_create has built it.  *)
Kept ==
  /\ phase # "build" /\ phase' # "build" /\ lines' = lines /\ nesting' = nesting /\ tmout' = tmout
  /\ pieces' \in Seq(Pieces) /\ Len(pieces') = Len(pieces)
  /\ \A i \in DOMAIN pieces :
       /\ pieces'[i].type = pieces[i].type /\ pieces'[i].loopback = pieces[i].loopback
       /\ pieces'[i].total = pieces[i].total /\ pieces'[i].timed = pieces[i].timed
       /\ pieces'[i].else = pieces[i].else /\ pieces'[i].end = pieces[i].end
       /\ pieces'[i].prev = pieces[i].prev
       /\ Type(i) = "endloop" \/ pieces'[i].next = pieces[i].next

LEMMA KeptPairs ==
  ASSUME SnakeInv, Kept
  PROVE  /\ DOMAIN pieces' = DOMAIN pieces
         /\ \A i \in DOMAIN pieces : Type(i)' = Type(i)
         /\ \A o : IsOpen(o)' <=> IsOpen(o)
         /\ \A l, e : LoopPair(l, e)' <=> LoopPair(l, e)
         /\ \A i, f : IfPair(i, f)' <=> IfPair(i, f)
         /\ \A i, e : ElseOf(i, e)' <=> ElseOf(i, e)
         /\ \A l, b : Encloses(l, b)' <=> Encloses(l, b)
<1>1. DOMAIN pieces' = DOMAIN pieces
  BY Running DEF Kept
<1>2. \A i \in DOMAIN pieces : pieces'[i].type = pieces[i].type
  BY DEF Kept
<1>3. \A o : IsOpen(o)' <=> IsOpen(o)
  BY DEF Kept, IsOpen
<1>4. \A l, e : LoopPair(l, e)' <=> LoopPair(l, e)
  BY <1>1, <1>2 DEF LoopPair, Type, Kept
<1>5. \A i, f : IfPair(i, f)' <=> IfPair(i, f)
  BY <1>1, <1>2 DEF IfPair, Type, Kept
<1>6. \A i, e : ElseOf(i, e)' <=> ElseOf(i, e)
  BY <1>1, <1>2 DEF ElseOf, Type, Kept
<1>7. \A l, b : Encloses(l, b)' <=> Encloses(l, b)
  BY <1>1, <1>2, <1>3, <1>4 DEF Encloses, Type
<1>8. \A i \in DOMAIN pieces : Type(i)' = Type(i)
  BY <1>2 DEF Type
<1>9. QED
  BY <1>1, <1>3, <1>4, <1>5, <1>6, <1>7, <1>8

LEMMA KeptInvs ==
  ASSUME SnakeInv, Kept
  PROVE  /\ ShapeInv' /\ PairInv' /\ ElseInv' /\ NestInv' /\ BreakInv'
         /\ RegularInv => TimesInv' /\ OutmostInv'
<1>1. /\ DOMAIN pieces' = DOMAIN pieces
      /\ \A i \in DOMAIN pieces : pieces'[i].type = Type(i)
      /\ \A o : IsOpen(o)' <=> IsOpen(o)
      /\ \A l, e : LoopPair(l, e)' <=> LoopPair(l, e)
      /\ \A i, f : IfPair(i, f)' <=> IfPair(i, f)
      /\ \A i, e : ElseOf(i, e)' <=> ElseOf(i, e)
      /\ \A l, b : Encloses(l, b)' <=> Encloses(l, b)
  BY KeptPairs DEF Type
<1>2. /\ phase # "build" /\ phase' # "build" /\ lines' = lines /\ nesting' = nesting
      /\ pieces' \in Seq(Pieces) /\ Len(pieces') = Len(pieces)
      /\ \A i \in DOMAIN pieces :
           /\ pieces'[i].total = pieces[i].total /\ pieces'[i].timed = pieces[i].timed
           /\ pieces'[i].else = pieces[i].else /\ pieces'[i].end = pieces[i].end
           /\ pieces'[i].prev = pieces[i].prev /\ pieces'[i].loopback = pieces[i].loopback
  BY DEF Kept
<1>3. TypeOK /\ ShapeInv /\ PairInv /\ ElseInv /\ NestInv /\ BreakInv
  BY DEF SnakeInv
<1>4. ShapeInv'
  <2>1. \A k \in DOMAIN lines : k + 1 \in DOMAIN pieces
    BY <1>2, <1>3 DEF TypeOK, ShapeInv
  <2>2. 1 \in DOMAIN pieces /\ Len(pieces) \in DOMAIN pieces
    BY <1>2, Running
  <2>3. QED
    BY <1>1, <1>2, <1>3, <2>1, <2>2 DEF ShapeInv, Type
<1>5. PairInv'
  BY <1>1, <1>2, <1>3 DEF PairInv, Type
<1>6. ElseInv'
  BY <1>1, <1>2, <1>3 DEF ElseInv, Type
<1>7. NestInv'
  <2>1. \A a, b : Block(a, b)' <=> Block(a, b)
    BY <1>1 DEF Block
  <2>2. QED
    BY <1>1, <1>2, <1>3, <2>1 DEF NestInv, Type
<1>8. BreakInv'
  BY <1>1, <1>3 DEF BreakInv, Type
<1>9. ASSUME RegularInv PROVE TimesInv' /\ OutmostInv'
  <2>1. TimesInv'
    BY <1>1, <1>2, <1>9 DEF RegularInv, TimesInv, Type
  <2>2. OutmostInv'
    BY <1>1, <1>9 DEF RegularInv, OutmostInv, Type
  <2>3. QED
    BY <2>1, <2>2
<1>10. QED
  BY <1>4, <1>5, <1>6, <1>7, <1>8, <1>9

LEMMA KeptLinks ==
  ASSUME SnakeInv, Kept,
         \A e \in DOMAIN pieces : Type(e) = "endloop" =>
           /\ Link(e)' = Link(e) /\ pieces'[e].next \in {Link(e), pieces[e].loopback}
           /\ pieces'[e].next = pieces[e].loopback => pieces'[e].beyond # 0
  PROVE  LinkInv' /\ \A i \in DOMAIN pieces : Link(i)' = Link(i)
<1>1. /\ DOMAIN pieces' = DOMAIN pieces
      /\ \A i \in DOMAIN pieces : pieces'[i].type = Type(i)
      /\ \A o : IsOpen(o)' <=> IsOpen(o)
      /\ \A i, e : ElseOf(i, e)' <=> ElseOf(i, e)
  BY KeptPairs DEF Type
<1>2. /\ phase' # "build" /\ Len(pieces') = Len(pieces) /\ Len(pieces) \in DOMAIN pieces
      /\ Type(Len(pieces)) = "end" /\ DOMAIN pieces = 1..Len(pieces) /\ Len(pieces) \in Nat
      /\ \A i \in DOMAIN pieces : /\ pieces'[i].end = pieces[i].end /\ pieces'[i].loopback = pieces[i].loopback
                                  /\ Type(i) = "endloop" \/ pieces'[i].next = pieces[i].next
  BY Running DEF Kept
<1>3. LinkInv
  BY DEF SnakeInv
<1>4. \A i \in DOMAIN pieces : Link(i)' = Link(i)
  <2> SUFFICES ASSUME NEW i \in DOMAIN pieces, Type(i) # "endloop" PROVE Link(i)' = Link(i)
    OBVIOUS
  <2>1. Link(i) = pieces[i].next
    BY DEF Link
  <2>2. Link(i)' = pieces'[i].next
    BY <1>1 DEF Link, Type
  <2>3. QED
    BY <1>2, <2>1, <2>2
<1>5. \A i \in DOMAIN pieces' : i # Len(pieces') =>
         IF pieces'[i + 1].type = "else"
         THEN \A j \in DOMAIN pieces' : ElseOf(j, i + 1)' => Link(i)' = IF IsOpen(j)' THEN i + 1 ELSE pieces'[j].end
         ELSE Link(i)' = i + 1
  <2>1. \A i \in DOMAIN pieces : i # Len(pieces) => i + 1 \in DOMAIN pieces
    BY <1>2
  <2>2. QED
    BY <1>1, <1>2, <1>3, <1>4, <2>1 DEF LinkInv
<1>6. pieces'[Len(pieces')].next = 0 /\ pieces'[Len(pieces')].type # "endloop"
  BY <1>1, <1>2, <1>3 DEF LinkInv
<1>7. QED
  BY <1>1, <1>2, <1>4, <1>5, <1>6 DEF LinkInv, LoopedBack, Type

(* An endloop is turned.                                                   *)
LEMMA Turned ==
  ASSUME SnakeInv, phase = "run", RunUnchanged, NEW e \in DOMAIN pieces, Type(e) = "endloop",
         NEW n \in {Link(e), pieces[e].loopback}, NEW c \in Nat,
         pieces' = [pieces EXCEPT ![e] = [pieces[e] EXCEPT !.next = n, !.beyond = Link(e), !.counter = c]]
  PROVE  /\ Kept /\ LinkInv' /\ pieces'[e].next = n /\ pieces'[e].counter = c
         /\ \A i \in DOMAIN pieces : i # e => pieces'[i] = pieces[i]
         /\ \A i \in DOMAIN pieces : Link(i)' = Link(i)
         /\ \A i \in DOMAIN pieces : i # e => (LoopedBack(i)' <=> LoopedBack(i))
         /\ LoopedBack(e)' <=> n = pieces[e].loopback
<1> DEFINE q == [pieces[e] EXCEPT !.next = n, !.beyond = Link(e), !.counter = c]
<1>1. /\ pieces \in Seq(Pieces) /\ DOMAIN pieces = 1..Len(pieces) /\ Len(pieces) \in Nat
      /\ pieces[e] \in Pieces /\ e # Len(pieces) /\ 0 \notin DOMAIN pieces
  BY Running
<1>2. Link(e) \in DOMAIN pieces /\ DOMAIN pieces \subseteq Place
  BY <1>1, Forward, Places DEF SnakeInv
<1>3. q \in Pieces
  <2>1. pieces[e].loopback \in Place
    BY <1>1 DEF Pieces
  <2>2. n \in Place /\ Link(e) \in Place
    BY <1>2, <2>1
  <2> HIDE DEF Link
  <2>3. QED
    BY <1>1, <2>2 DEF Pieces
<1>4. /\ q.next = n /\ q.beyond = Link(e) /\ q.counter = c /\ q.type = pieces[e].type
      /\ q.loopback = pieces[e].loopback /\ q.total = pieces[e].total /\ q.timed = pieces[e].timed
      /\ q.else = pieces[e].else /\ q.end = pieces[e].end /\ q.prev = pieces[e].prev
  BY <1>1 DEF Pieces
<1> HIDE DEF q
<1>5. /\ pieces' \in Seq(Pieces) /\ Len(pieces') = Len(pieces) /\ DOMAIN pieces' = DOMAIN pieces
      /\ \A i \in DOMAIN pieces : pieces'[i] = IF i = e THEN q ELSE pieces[i]
  BY <1>1, <1>3, Replaced DEF q
<1>6. Kept
  BY <1>4, <1>5 DEF Kept, RunUnchanged, Type
<1>7. \A i \in DOMAIN pieces : Type(i) = "endloop" =>
        /\ pieces[i].next \in {Link(i), pieces[i].loopback}
        /\ pieces[i].next = pieces[i].loopback => pieces[i].beyond # 0
  BY DEF SnakeInv, LinkInv, LoopedBack
<1>8. \A i \in DOMAIN pieces : i # e => Link(i)' = Link(i)
  BY <1>5 DEF Link, Type
<1>9. Link(e)' = Link(e)
  <2>1. Link(e)' = IF pieces'[e].type = "endloop" /\ pieces'[e].beyond # 0 THEN pieces'[e].beyond ELSE pieces'[e].next
    BY DEF Link, Type
  <2>2. pieces'[e].type = "endloop" /\ pieces'[e].beyond = Link(e) /\ Link(e) # 0
    BY <1>1, <1>2, <1>4, <1>5 DEF Type
  <2>3. QED
    BY <2>1, <2>2
<1>10. LinkInv' /\ \A i \in DOMAIN pieces : Link(i)' = Link(i)
  <2>1. ASSUME NEW i \in DOMAIN pieces, Type(i) = "endloop"
        PROVE  /\ Link(i)' = Link(i) /\ pieces'[i].next \in {Link(i), pieces[i].loopback}
               /\ pieces'[i].next = pieces[i].loopback => pieces'[i].beyond # 0
    <3>1. CASE i = e
      BY <1>1, <1>2, <1>4, <1>5, <1>9, <3>1
    <3>2. CASE i # e
      BY <1>5, <1>7, <1>8, <2>1, <3>2
    <3>3. QED
      BY <3>1, <3>2
  <2>2. QED
    BY <1>6, <2>1, KeptLinks
<1>11. \A i \in DOMAIN pieces : i # e => (LoopedBack(i)' <=> LoopedBack(i))
  BY <1>5 DEF LoopedBack, Type
<1>12. LoopedBack(e)' <=> n = pieces[e].loopback
  BY <1>4, <1>5 DEF LoopedBack, Type
<1>13. QED
  BY <1>4, <1>5, <1>6, <1>10, <1>11, <1>12

LEMMA StepKeeps ==
  ASSUME SnakeInv, phase = "run", RunUnchanged, Kept, LinkInv', current' \in DOMAIN pieces,
         \A e \in DOMAIN pieces : LoopedBack(e)' => pieces[e].loopback <= current' /\ current' <= e
  PROVE  SnakeInv' /\ (RegularInv /\ CountInv' => RegularInv')
<1>1. TypeOK
  BY DEF SnakeInv
<1>2. DOMAIN pieces' = DOMAIN pieces /\ DOMAIN pieces = 1..Len(pieces) /\ Len(pieces) \in Nat
      /\ Len(pieces') = Len(pieces)
  BY KeptPairs, Running DEF Kept
<1>3. TypeOK'
  <2>1. current' \in 0..Len(pieces')
    BY <1>2
  <2>2. QED
    BY <1>1, <2>1 DEF TypeOK, Kept, RunUnchanged
<1>4. PlaceInv'
  <2>1. phase' = "run"
    BY DEF RunUnchanged
  <2>2. \A i \in DOMAIN pieces : pieces'[i].loopback = pieces[i].loopback
    BY DEF Kept
  <2>3. QED
    BY <1>2, <2>1, <2>2 DEF PlaceInv
<1>5. QED
  BY <1>3, <1>4, KeptInvs DEF SnakeInv, RegularInv

(* The loops that are looped back, and where they are.                     *)
LEMMA Inside ==
  ASSUME SnakeInv, phase # "build", NEW e \in DOMAIN pieces, LoopedBack(e)
  PROVE  /\ LoopPair(pieces[e].loopback, e) /\ Type(e) = "endloop"
         /\ pieces[e].loopback \in DOMAIN pieces /\ Type(pieces[e].loopback) = "loop"
         /\ pieces[e].loopback <= current /\ current <= e
<1>1. Type(e) = "endloop"
  BY DEF LoopedBack
<1>2. PICK l \in DOMAIN pieces : LoopPair(l, e)
  BY <1>1 DEF SnakeInv, PairInv
<1>3. l = pieces[e].loopback /\ Type(l) = "loop"
  BY <1>2 DEF LoopPair
<1>4. QED
  BY <1>1, <1>2, <1>3 DEF SnakeInv, PlaceInv

(* A step forward to a piece that is not past the end of a loop.           *)
LEMMA Moved ==
  ASSUME SnakeInv, phase = "run", RunUnchanged, pieces' = pieces, Type(current) # "endloop",
         current' \in DOMAIN pieces, current < current',
         \A l, e : LoopPair(l, e) /\ l <= current /\ current < e => current' <= e
  PROVE  SnakeInv' /\ (RegularInv => RegularInv')
<1>1. /\ current \in DOMAIN pieces /\ \A i \in DOMAIN pieces : i \in Nat
      /\ pieces \in Seq(Pieces)
  BY Running DEF SnakeInv, PlaceInv
<1>2. Kept
  BY <1>1 DEF Kept, RunUnchanged
<1>3. LinkInv'
  BY DEF SnakeInv, LinkInv, Link, LoopedBack, Type, ElseOf, IsOpen, RunUnchanged
<1>4. \A e \in DOMAIN pieces : LoopedBack(e)' <=> LoopedBack(e)
  BY DEF LoopedBack, Type
<1>5. ASSUME NEW e \in DOMAIN pieces, LoopedBack(e)'
      PROVE  pieces[e].loopback <= current' /\ current' <= e
  <2>1. /\ LoopPair(pieces[e].loopback, e) /\ pieces[e].loopback <= current /\ current <= e
        /\ Type(e) = "endloop" /\ pieces[e].loopback \in DOMAIN pieces
    BY <1>4, <1>5, Inside
  <2>2. current < e
    BY <1>1, <2>1
  <2>3. QED
    BY <1>1, <2>1, <2>2
<1>6. ASSUME RegularInv PROVE CountInv'
  <2>1. \A l, b : Encloses(l, b)' <=> Encloses(l, b)
    BY <1>2, KeptPairs
  <2>2. \A l, e : LoopPair(l, e)' <=> LoopPair(l, e)
    BY <1>2, KeptPairs
  <2>3. phase' = "run"
    BY DEF RunUnchanged
  <2> SUFFICES ASSUME NEW e \in DOMAIN pieces, Type(e) = "endloop", ~pieces[e].timed
               PROVE  /\ LoopedBack(e)' => 0 < pieces[e].counter /\ pieces[e].counter < pieces[e].total
                      /\ ~LoopedBack(e)' => pieces[e].counter = 0
                                            \/ (e < current' /\ \A l, k : LoopPair(k, e)' => ~Encloses(l, k)')
    BY <2>3 DEF CountInv, Type
  <2>4. /\ LoopedBack(e) => 0 < pieces[e].counter /\ pieces[e].counter < pieces[e].total
        /\ ~LoopedBack(e) => pieces[e].counter = 0 \/ (e < current /\ \A l, k : LoopPair(k, e) => ~Encloses(l, k))
    BY <1>6 DEF RegularInv, CountInv
  <2>5. e < current => e < current'
    BY <1>1
  <2>6. QED
    BY <1>4, <2>1, <2>2, <2>4, <2>5
<1>7. QED
  BY <1>2, <1>3, <1>5, <1>6, StepKeeps

LEMMA PlainGoes ==
  ASSUME SnakeInv, Plain
  PROVE  /\ phase = "run" /\ current \in DOMAIN pieces /\ Type(current) \in {"start", "do", "loop", "else", "endif"}
         /\ current' = Link(current) /\ current # Len(pieces) /\ pieces' = pieces /\ RunUnchanged
<1>1. phase = "run" /\ Type(current) \in {"start", "do", "loop", "else", "endif"} /\ current \in DOMAIN pieces
  BY DEF Plain, At, Type, SnakeInv, PlaceInv
<1>2. current # Len(pieces)
  BY <1>1, Running
<1>3. QED
  BY <1>1, <1>2 DEF Plain, Link

LEMMA PlainKeeps ==
  ASSUME SnakeInv, Plain
  PROVE  SnakeInv' /\ (RegularInv => RegularInv')
<1>1. /\ phase = "run" /\ current \in DOMAIN pieces /\ Type(current) # "endloop"
      /\ current' = Link(current) /\ current # Len(pieces) /\ pieces' = pieces /\ RunUnchanged
  BY PlainGoes
<1>2. /\ current' \in DOMAIN pieces /\ current < current'
      /\ \A l, e : LoopPair(l, e) /\ l <= current /\ current < e => current' <= e
  BY <1>1, Forward
<1>3. QED
  BY <1>1, <1>2, Moved

(* The branch an if may skip to.                                           *)
SkipTo(i) == IF pieces[i].else # 0 THEN pieces[i].else ELSE pieces[i].end

LEMMA Skips ==
  ASSUME SnakeInv, phase # "build", NEW i \in DOMAIN pieces, Type(i) = "if"
  PROVE  /\ SkipTo(i) \in DOMAIN pieces /\ Type(SkipTo(i)) \in {"else", "endif"} /\ i < SkipTo(i)
         /\ SkipTo(i) # Len(pieces)
         /\ \A l, e : LoopPair(l, e) /\ l <= i /\ i < e => SkipTo(i) < e
<1>1. /\ \A o : ~IsOpen(o)
      /\ \A k \in DOMAIN pieces : k \in Nat
      /\ Type(Len(pieces)) = "end" /\ Len(pieces) \in DOMAIN pieces
  BY Running
<1>2. ElseInv /\ PairInv /\ NestInv
  BY DEF SnakeInv
<1>3. PICK f \in DOMAIN pieces : IfPair(i, f) /\ i < f
  BY <1>1, <1>2 DEF PairInv
<1>4. Type(f) = "endif" /\ pieces[i].end = f
  BY <1>3 DEF IfPair
<1>5. ASSUME NEW l, NEW e, LoopPair(l, e), l <= i, i < e
      PROVE  l \in DOMAIN pieces /\ e \in DOMAIN pieces /\ f < e
  <2>1. l \in DOMAIN pieces /\ e \in DOMAIN pieces /\ Type(l) = "loop"
    BY <1>5 DEF LoopPair
  <2>2. l # i
    BY <2>1
  <2>3. l < i
    BY <1>1, <1>5, <2>1, <2>2
  <2>4. Block(l, e) /\ Block(i, f)
    BY <1>3, <1>5 DEF Block
  <2>5. QED
    BY <1>2, <1>5, <2>1, <2>3, <2>4 DEF NestInv
<1>6. CASE pieces[i].else = 0
  BY <1>1, <1>3, <1>4, <1>5, <1>6 DEF SkipTo
<1>7. CASE pieces[i].else # 0
  <2>1. PICK e \in DOMAIN pieces : ElseOf(i, e) /\ i < e /\ e < pieces[i].end
    BY <1>1, <1>2, <1>7 DEF ElseInv
  <2>2. SkipTo(i) = e /\ Type(e) = "else"
    BY <1>7, <2>1 DEF SkipTo, ElseOf
  <2>3. \A x \in DOMAIN pieces : f < x => e < x
    BY <1>1, <1>4, <2>1
  <2>4. QED
    BY <1>1, <1>5, <2>1, <2>2, <2>3
<1>8. QED
  BY <1>6, <1>7

LEMMA IfGoes ==
  ASSUME SnakeInv, If
  PROVE  /\ phase = "run" /\ current \in DOMAIN pieces /\ Type(current) = "if" /\ current # Len(pieces)
         /\ current' \in {Link(current), Link(SkipTo(current))} /\ pieces' = pieces /\ RunUnchanged
<1>1. phase = "run" /\ Type(current) = "if" /\ current \in DOMAIN pieces
  BY DEF If, At, Type, SnakeInv, PlaceInv
<1>2. current # Len(pieces) /\ Type(SkipTo(current)) # "endloop"
  BY <1>1, Running, Skips
<1>3. QED
  BY <1>1, <1>2 DEF If, Link, SkipTo

LEMMA IfKeeps ==
  ASSUME SnakeInv, If
  PROVE  SnakeInv' /\ (RegularInv => RegularInv')
<1>1. /\ phase = "run" /\ current \in DOMAIN pieces /\ Type(current) = "if" /\ current # Len(pieces)
      /\ current' \in {Link(current), Link(SkipTo(current))} /\ pieces' = pieces /\ RunUnchanged
  BY IfGoes
<1>2. \A i \in DOMAIN pieces : i \in Nat
  BY <1>1, Running
<1>3. CASE current' = Link(current)
  BY <1>1, <1>3, Forward, Moved
<1>4. CASE current' = Link(SkipTo(current))
  <2> DEFINE s == SkipTo(current)
  <2>1. /\ s \in DOMAIN pieces /\ current < s /\ s # Len(pieces)
        /\ \A l, e : LoopPair(l, e) /\ l <= current /\ current < e => s < e
    BY <1>1, Skips
  <2> HIDE DEF s
  <2>2. /\ Link(s) \in DOMAIN pieces /\ s < Link(s)
        /\ \A l, e : LoopPair(l, e) /\ l <= s /\ s < e => Link(s) <= e
    BY <1>1, <2>1, Forward
  <2>3. \A l, e : LoopPair(l, e) => l \in Nat
    BY <1>2 DEF LoopPair
  <2>4. /\ current < Link(s)
        /\ \A l, e : LoopPair(l, e) /\ l <= current /\ current < e => Link(s) <= e
    BY <1>1, <1>2, <2>1, <2>2, <2>3
  <2>5. current' = Link(s)
    BY <1>4 DEF s
  <2>6. QED
    BY <1>1, <2>2, <2>4, <2>5, Moved
<1>5. QED
  BY <1>1, <1>3, <1>4

LEMMA EndloopGoes ==
  ASSUME SnakeInv, Endloop
  PROVE  /\ phase = "run" /\ current \in DOMAIN pieces /\ Type(current) = "endloop" /\ RunUnchanged
         /\ \E n \in {Link(current), pieces[current].loopback}, c \in Nat :
              LET p == pieces[current] IN
              /\ pieces' = [pieces EXCEPT ![current] = [p EXCEPT !.next = n, !.beyond = Link(current), !.counter = c]]
              /\ current' = n
              /\ ~p.timed =>
                   \/ p.counter = 0 /\ n = p.loopback /\ c = 1
                   \/ /\ p.counter > 0 /\ p.counter + 1 < p.total /\ c = p.counter + 1
                      /\ n = IF p.beyond = 0 THEN p.loopback ELSE p.next
                   \/ n = Link(current) /\ c = 0 /\ p.counter > 0 /\ ~(p.counter + 1 < p.total)
<1> DEFINE p == pieces[current]
           beyond == IF p.beyond = 0 THEN p.next ELSE p.beyond
           known == [p EXCEPT !.beyond = beyond, !.next = IF p.beyond = 0 THEN p.loopback ELSE p.next]
           T(n, c) == [p EXCEPT !.next = n, !.beyond = beyond, !.counter = c]
<1>1. /\ phase = "run" /\ current \in DOMAIN pieces /\ Type(current) = "endloop" /\ RunUnchanged
      /\ pieces \in Seq(Pieces) /\ p \in Pieces
  BY Running DEF Endloop, At, Type, SnakeInv, PlaceInv
<1>2. beyond = Link(current)
  BY <1>1 DEF Link
<1>3. p.next \in {beyond, p.loopback}
  BY <1>1, <1>2 DEF SnakeInv, LinkInv
<1>4. p.counter \in Nat /\ p.total \in Nat
  BY <1>1 DEF Pieces
<1>5. PICK new \in IF p.timed THEN {[known EXCEPT !.next = n] : n \in {beyond, p.loopback}}
                   ELSE {Counted(known, beyond)} :
        pieces' = [pieces EXCEPT ![current] = new]
  BY DEF Endloop
<1>6. current' = pieces'[current].next
  BY DEF Endloop
<1> DEFINE Goal == \E n \in {beyond, p.loopback}, c \in Nat :
                     /\ new = T(n, c)
                     /\ ~p.timed =>
                          \/ p.counter = 0 /\ n = p.loopback /\ c = 1
                          \/ /\ p.counter > 0 /\ p.counter + 1 < p.total /\ c = p.counter + 1
                             /\ n = IF p.beyond = 0 THEN p.loopback ELSE p.next
                          \/ n = beyond /\ c = 0 /\ p.counter > 0 /\ ~(p.counter + 1 < p.total)
<1>7. Goal
  <2> HIDE DEF p
  <2>1. CASE p.timed
    <3>1. PICK n \in {beyond, p.loopback} : new = [known EXCEPT !.next = n]
      BY <1>5, <2>1
    <3>2. new = T(n, p.counter)
      BY <1>1, <3>1 DEF Pieces
    <3>3. QED
      BY <1>4, <2>1, <3>2
  <2>2. CASE ~p.timed
    <3>1. new = Counted(known, beyond)
      BY <1>5, <2>2
    <3>2. /\ known.counter = p.counter /\ known.total = p.total /\ known.loopback = p.loopback
          /\ known.next = IF p.beyond = 0 THEN p.loopback ELSE p.next
      BY <1>1 DEF Pieces
    <3>3. CASE p.counter = 0
      <4>1. new = [known EXCEPT !.next = p.loopback, !.counter = 1]
        BY <3>1, <3>2, <3>3 DEF Counted
      <4>2. new = T(p.loopback, 1)
        BY <1>1, <4>1 DEF Pieces
      <4>3. QED
        BY <2>2, <3>3, <4>2
    <3>4. CASE p.counter > 0 /\ p.counter + 1 < p.total
      <4>1. p.counter # 0
        BY <1>4, <3>4
      <4>2. new = [known EXCEPT !.counter = p.counter + 1]
        <5> HIDE DEF known
        <5>1. QED
          BY <3>1, <3>2, <3>4, <4>1 DEF Counted
      <4>3. new = T(IF p.beyond = 0 THEN p.loopback ELSE p.next, p.counter + 1)
        BY <1>1, <4>2 DEF Pieces
      <4>4. (IF p.beyond = 0 THEN p.loopback ELSE p.next) \in {beyond, p.loopback} /\ p.counter + 1 \in Nat
        BY <1>3, <1>4
      <4>5. QED
        BY <2>2, <3>4, <4>3, <4>4
    <3>5. CASE p.counter > 0 /\ ~(p.counter + 1 < p.total)
      <4>1. new = [known EXCEPT !.next = beyond, !.counter = 0]
        <5> HIDE DEF known, beyond
        <5>1. p.counter # 0
          BY <1>4, <3>5
        <5>2. QED
          BY <3>1, <3>2, <3>5, <5>1 DEF Counted
      <4>2. new = T(beyond, 0)
        BY <1>1, <4>1 DEF Pieces
      <4>3. QED
        BY <2>2, <3>5, <4>2
    <3>6. p.counter = 0 \/ p.counter > 0
      BY <1>4
    <3>7. QED
      BY <3>3, <3>4, <3>5, <3>6
  <2>3. QED
    BY <2>1, <2>2
<1>8. \A n, c : T(n, c).next = n
  BY <1>1 DEF Pieces
<1>9. current' = new.next
  BY <1>1, <1>5, <1>6
<1> HIDE DEF beyond, known
<1>10. QED
  BY <1>1, <1>2, <1>5, <1>7, <1>8, <1>9

LEMMA LoopsNest ==
  ASSUME SnakeInv, NEW l, NEW e, NEW k, NEW d, LoopPair(l, e), LoopPair(k, d), l < k, k < e
  PROVE  d < e
BY DEF SnakeInv, NestInv, Block, LoopPair

LEMMA EndloopKeeps ==
  ASSUME SnakeInv, Endloop
  PROVE  SnakeInv' /\ (RegularInv => RegularInv')
<1>1. PICK e \in DOMAIN pieces : e = current /\ phase = "run" /\ Type(e) = "endloop" /\ RunUnchanged
  BY EndloopGoes
<1> DEFINE l == pieces[e].loopback
<1>2. PICK n \in {Link(e), l}, c \in Nat :
        LET p == pieces[e] IN
        /\ pieces' = [pieces EXCEPT ![e] = [p EXCEPT !.next = n, !.beyond = Link(e), !.counter = c]]
        /\ current' = n
        /\ ~p.timed =>
             \/ p.counter = 0 /\ n = p.loopback /\ c = 1
             \/ /\ p.counter > 0 /\ p.counter + 1 < p.total /\ c = p.counter + 1
                /\ n = IF p.beyond = 0 THEN p.loopback ELSE p.next
             \/ n = Link(e) /\ c = 0 /\ p.counter > 0 /\ ~(p.counter + 1 < p.total)
  BY <1>1, EndloopGoes
<1>3. /\ Kept /\ LinkInv' /\ pieces'[e].next = n /\ pieces'[e].counter = c
      /\ \A i \in DOMAIN pieces : i # e => pieces'[i] = pieces[i]
      /\ \A i \in DOMAIN pieces : i # e => (LoopedBack(i)' <=> LoopedBack(i))
      /\ LoopedBack(e)' <=> n = l
  BY <1>1, <1>2, Turned
<1>4. /\ \A i \in DOMAIN pieces : i \in Nat
      /\ e # Len(pieces)
      /\ \A k, d : LoopPair(k, d) => k \in DOMAIN pieces /\ d \in DOMAIN pieces /\ k < d
  BY <1>1, Running
<1>5. LoopPair(l, e) /\ l \in DOMAIN pieces /\ l < e
  <2>1. PICK k \in DOMAIN pieces : LoopPair(k, e)
    BY <1>1 DEF SnakeInv, PairInv
  <2>2. k = l
    BY <2>1 DEF LoopPair
  <2>3. QED
    BY <1>4, <2>1, <2>2
<1>6. /\ Link(e) \in DOMAIN pieces /\ e < Link(e)
      /\ \A k, d : LoopPair(k, d) /\ k <= e /\ e < d => Link(e) <= d
  BY <1>1, <1>4, Forward
<1>7. ASSUME NEW d \in DOMAIN pieces, LoopedBack(d)'
      PROVE  pieces[d].loopback <= current' /\ current' <= d
  <2> DEFINE k == pieces[d].loopback
  <2>1. CASE d = e
    BY <1>2, <1>3, <1>4, <1>5, <1>7, <2>1
  <2>2. CASE d # e
    <3>1. LoopPair(k, d) /\ k <= e /\ e <= d /\ k \in DOMAIN pieces /\ Type(k) = "loop"
      BY <1>1, <1>3, <1>7, <2>2, Inside
    <3> HIDE DEF k
    <3>2. k < e /\ e < d
      <4>1. k # e
        BY <1>1, <3>1
      <4>2. QED
        BY <1>1, <1>4, <2>2, <3>1, <4>1
    <3>3. CASE n = Link(e)
      BY <1>2, <1>4, <1>6, <3>1, <3>2, <3>3 DEF k
    <3>4. CASE n = l
      <4>1. k # l
        BY <1>5, <2>2, <3>1 DEF SnakeInv, PairInv, LoopPair
      <4>2. ~(l < k)
        <5>1. SUFFICES ASSUME l < k PROVE FALSE
          OBVIOUS
        <5>2. d < e
          BY <1>5, <3>1, <3>2, <5>1, LoopsNest
        <5>3. QED
          BY <1>1, <1>4, <3>2, <5>2
      <4>3. QED
        BY <1>1, <1>2, <1>4, <1>5, <3>1, <3>2, <3>4, <4>1, <4>2 DEF k
    <3>5. QED
      BY <3>3, <3>4
  <2>3. QED
    BY <2>1, <2>2
<1>8. current' \in DOMAIN pieces
  BY <1>2, <1>5, <1>6
<1>9. ASSUME RegularInv PROVE CountInv'
  <2>1. /\ \A k, b : Encloses(k, b)' <=> Encloses(k, b)
        /\ \A k, d : LoopPair(k, d)' <=> LoopPair(k, d)
        /\ \A i \in DOMAIN pieces : pieces'[i].type = Type(i)
        /\ DOMAIN pieces' = DOMAIN pieces
    BY <1>3, KeptPairs DEF Type
  <2>2. phase' = "run" /\ \A i \in DOMAIN pieces : pieces'[i].timed = pieces[i].timed /\ pieces'[i].total = pieces[i].total
    BY <1>1, <1>3 DEF RunUnchanged, Kept
  <2>3. ASSUME NEW d \in DOMAIN pieces, Type(d) = "endloop", ~pieces[d].timed
        PROVE  /\ LoopedBack(d) => 0 < pieces[d].counter /\ pieces[d].counter < pieces[d].total
               /\ ~LoopedBack(d) => pieces[d].counter = 0
                                    \/ (d < e /\ \A m, k : LoopPair(k, d) => ~Encloses(m, k))
    BY <1>1, <1>9, <2>3 DEF RegularInv, CountInv
  <2>4. ASSUME NEW d \in DOMAIN pieces, Type(d) = "endloop", ~pieces[d].timed
        PROVE  /\ LoopedBack(d)' => 0 < pieces'[d].counter /\ pieces'[d].counter < pieces[d].total
               /\ ~LoopedBack(d)' => pieces'[d].counter = 0
                                     \/ (d < current' /\ \A m, k : LoopPair(k, d) => ~Encloses(m, k))
    <3>1. CASE d = e
      <4>1. pieces[e].total > 1
        <5>1. PICK k \in DOMAIN pieces : LoopPair(k, e) /\ pieces[e].total = pieces[k].total /\ pieces[e].timed = pieces[k].timed
          BY <1>1 DEF SnakeInv, PairInv
        <5>2. Type(k) = "loop"
          BY <5>1 DEF LoopPair
        <5>3. QED
          BY <1>9, <2>4, <3>1, <5>1, <5>2 DEF RegularInv, TimesInv
      <4>2. pieces[e].counter \in Nat /\ pieces[e].total \in Nat
        <5>1. pieces[e] \in Pieces
          BY <1>1, Running
        <5>2. QED
          BY <5>1 DEF Pieces
      <4>3. CASE pieces[e].counter = 0 /\ n = l /\ c = 1
        BY <1>3, <3>1, <4>1, <4>3
      <4>4. CASE /\ pieces[e].counter > 0 /\ pieces[e].counter + 1 < pieces[e].total /\ c = pieces[e].counter + 1
                 /\ n = IF pieces[e].beyond = 0 THEN l ELSE pieces[e].next
        <5>1. LoopedBack(e)
          <6>1. e \in Nat /\ ~(e < e) /\ pieces[e].counter # 0
            BY <1>1, <1>4, <4>2, <4>4
          <6>2. QED
            BY <2>3, <2>4, <3>1, <6>1
        <5>2. n = l
          BY <4>4, <5>1 DEF LoopedBack
        <5>3. QED
          BY <1>3, <3>1, <4>2, <4>4, <5>2
      <4>5. CASE n = Link(e) /\ c = 0
        <5>1. ~LoopedBack(e)'
          BY <1>3, <1>4, <1>5, <1>6, <4>5
        <5>2. QED
          BY <1>3, <3>1, <4>5, <5>1
      <4>6. QED
        BY <1>2, <2>4, <3>1, <4>3, <4>4, <4>5
    <3>2. CASE d # e
      <4>1. pieces'[d] = pieces[d] /\ (LoopedBack(d)' <=> LoopedBack(d))
        BY <1>3, <3>2
      <4>2. ASSUME ~LoopedBack(d), pieces[d].counter # 0
            PROVE  d < current' /\ \A m, k : LoopPair(k, d) => ~Encloses(m, k)
        <5>1. d < e /\ \A m, k : LoopPair(k, d) => ~Encloses(m, k)
          BY <2>3, <2>4, <4>2
        <5>2. CASE n = Link(e)
          BY <1>1, <1>2, <1>4, <1>6, <5>1, <5>2
        <5>3. CASE n = l
          <6>1. PICK k \in DOMAIN pieces : LoopPair(k, d)
            BY <2>4 DEF SnakeInv, PairInv
          <6>2. k < d /\ k # l /\ d # l
            <7>1. Type(l) = "loop"
              BY <1>5 DEF LoopPair
            <7>2. k # l
              BY <1>5, <3>2, <6>1 DEF SnakeInv, PairInv, LoopPair
            <7>3. QED
              BY <1>4, <2>4, <6>1, <7>1, <7>2
          <6>3. ~(l < k)
            <7>1. SUFFICES ASSUME l < k PROVE FALSE
              OBVIOUS
            <7>2. k < e
              BY <1>1, <1>4, <5>1, <6>2
            <7>3. Encloses(l, k)
              BY <1>1, <1>5, <7>1, <7>2 DEF Encloses, LoopPair
            <7>4. QED
              BY <5>1, <6>1, <7>3
          <6>4. k < l
            BY <1>4, <1>5, <6>2, <6>3
          <6>5. ~(l < d)
            <7>1. SUFFICES ASSUME l < d PROVE FALSE
              OBVIOUS
            <7>2. e < d
              BY <1>5, <6>1, <6>4, <7>1, LoopsNest
            <7>3. QED
              BY <1>1, <1>4, <5>1, <7>2
          <6>6. d < l
            BY <1>4, <1>5, <6>2, <6>5
          <6>7. QED
            BY <1>2, <5>1, <5>3, <6>6
        <5>4. QED
          BY <5>2, <5>3
      <4>3. QED
        BY <2>3, <2>4, <4>1, <4>2
    <3>3. QED
      BY <3>1, <3>2
  <2>5. QED
    BY <2>1, <2>2, <2>4 DEF CountInv, Type
<1>10. QED
  BY <1>1, <1>3, <1>7, <1>8, <1>9, StepKeeps

(* The fast forward of a breakloop ends at an endloop, at the latest at    *)
(* the one of the loop it is in.                                           *)
LEMMA FastForward ==
  ASSUME SnakeInv, phase = "run", current \in DOMAIN pieces, Type(current) # "endloop",
         NEW a, NEW z, LoopPair(a, z), a <= current, current < z
  PROVE  /\ NextEndloop \in DOMAIN pieces /\ Type(NextEndloop) = "endloop" /\ current < NextEndloop
         /\ \A l, e : LoopPair(l, e) /\ l <= current /\ current < e => NextEndloop <= e
<1>1. /\ Len(pieces) \in Nat /\ DOMAIN pieces = 1..Len(pieces)
      /\ \A i \in DOMAIN pieces : i \in Nat /\ i <= Len(pieces)
      /\ \A l, e : LoopPair(l, e) => /\ l \in DOMAIN pieces /\ e \in DOMAIN pieces
                                     /\ Type(e) = "endloop" /\ e # Len(pieces)
  BY Running DEF LoopPair
<1> DEFINE Steps(f) == [k \in Nat |-> IF k = 0 THEN current
                                      ELSE LET i == f[k - 1] IN
                                           IF pieces[i].type = "endloop" THEN i ELSE pieces[i].next]
           reach == CHOOSE f : f = Steps(f)
           step(S) == [i \in S |-> IF Type(i) = "endloop" THEN i ELSE pieces[i].next]
<1>2. ASSUME NEW l, NEW e, LoopPair(l, e), l <= current, current < e
      PROVE  /\ current..e \subseteq DOMAIN pieces
             /\ \A i \in current..e : /\ Type(i) = "endloop" => step(current..e)[i] = i
                                      /\ Type(i) # "endloop" =>
                                           step(current..e)[i] = Link(i) /\ i < Link(i) /\ Link(i) <= e
             /\ step(current..e) \in [current..e -> current..e]
  <2>1. current..e \subseteq DOMAIN pieces /\ e \in Nat /\ l \in Nat /\ current \in Nat
    BY <1>1, <1>2
  <2>2. ASSUME NEW i \in current..e, Type(i) # "endloop"
        PROVE  step(current..e)[i] = Link(i) /\ i < Link(i) /\ Link(i) <= e /\ Link(i) \in Nat
    <3>1. i \in DOMAIN pieces /\ i # e /\ i < e /\ l <= i /\ i # Len(pieces)
      <4>1. Type(e) = "endloop" /\ e <= Len(pieces)
        BY <1>1, <1>2
      <4>2. i # e
        BY <2>2, <4>1
      <4>3. i \in DOMAIN pieces /\ current <= i /\ i <= e /\ i \in Nat
        BY <2>1, <2>2
      <4>4. QED
        BY <1>1, <1>2, <2>1, <4>1, <4>2, <4>3
    <3>2. Link(i) \in DOMAIN pieces /\ i < Link(i) /\ Link(i) <= e
      BY <1>2, <3>1, Forward
    <3>3. QED
      BY <1>1, <2>2, <3>2 DEF Link
  <2>3. \A i \in current..e : Type(i) = "endloop" => step(current..e)[i] = i
    OBVIOUS
  <2>4. \A i \in current..e : step(current..e)[i] \in current..e
    BY <2>1, <2>2, <2>3
  <2>5. QED
    BY <2>1, <2>2, <2>3, <2>4
<1>3. /\ reach = Steps(reach)
      /\ NextEndloop = reach[Len(pieces)]
  <2>1. NextEndloop = reach[Len(pieces)]
    BY DEF NextEndloop
  <2>2. \E f : f = Steps(f)
    <3> DEFINE S == current..z
               t == step(S)
    <3>1. t \in [S -> S] /\ current \in S
      BY <1>1, <1>2
    <3>2. \A i \in S : t[i] = IF pieces[i].type = "endloop" THEN i ELSE pieces[i].next
      BY DEF Type
    <3> HIDE DEF t
    <3>3. PICK f \in [Nat -> S] : f = [k \in Nat |-> IF k = 0 THEN current ELSE t[f[k - 1]]]
      <4> HIDE DEF S
      <4>1. QED
        BY <3>1, Iterate
    <3>4. \A k \in Nat : k # 0 => k - 1 \in Nat /\ f[k - 1] \in S
      <4>1. f \in [Nat -> S]
        BY <3>3
      <4>2. \A k \in Nat : k # 0 => k - 1 \in Nat
        OBVIOUS
      <4> HIDE DEF S
      <4>3. QED
        BY <4>1, <4>2
    <3> HIDE DEF S
    <3>5. \A k \in Nat : f[k] = IF k = 0 THEN current ELSE t[f[k - 1]]
      BY <3>3
    <3>6. \A k \in Nat : f[k] = Steps(f)[k]
      BY <3>2, <3>4, <3>5
    <3>7. f = [k \in Nat |-> f[k]]
      BY <3>3
    <3>8. QED
      BY <3>6, <3>7
  <2>3. QED
    <3> HIDE DEF Steps
    <3>1. reach = Steps(reach)
      BY <2>2
    <3>2. QED
      BY <2>1, <3>1
<1> HIDE DEF reach
<1>4. /\ reach[0] = current
      /\ \A k \in Nat : reach[k + 1] = IF Type(reach[k]) = "endloop" THEN reach[k] ELSE pieces[reach[k]].next
  <2>1. \A k \in Nat : reach[k] = Steps(reach)[k]
    BY <1>3
  <2>2. \A k \in Nat : k + 1 \in Nat /\ k + 1 # 0 /\ (k + 1) - 1 = k
    OBVIOUS
  <2>3. QED
    BY <2>1, <2>2 DEF Type
<1> HIDE DEF Steps
<1>5. ASSUME NEW l, NEW e, LoopPair(l, e), l <= current, current < e
      PROVE  \A k \in Nat : /\ reach[k] \in current..e
                            /\ Type(reach[k]) = "endloop" \/ reach[k] >= current + k
  <2> DEFINE G == {k \in Nat : /\ reach[k] \in current..e
                               /\ Type(reach[k]) = "endloop" \/ reach[k] >= current + k}
  <2>1. current \in Nat /\ e \in Nat
    BY <1>1, <1>5
  <2>2. 0 \in G
    BY <1>4, <1>5, <2>1
  <2>3. ASSUME NEW k \in G PROVE k + 1 \in G
    <3>1. k \in Nat /\ reach[k] \in current..e /\ (Type(reach[k]) = "endloop" \/ reach[k] >= current + k)
      OBVIOUS
    <3>2. CASE Type(reach[k]) = "endloop"
      BY <1>4, <3>1, <3>2
    <3>3. CASE Type(reach[k]) # "endloop"
      <4>1. reach[k + 1] = Link(reach[k])
        BY <1>4, <3>1, <3>3 DEF Link
      <4>2. reach[k] < Link(reach[k]) /\ Link(reach[k]) <= e
        BY <1>2, <1>5, <3>1, <3>3
      <4>3. Link(reach[k]) \in Nat
        <5>1. reach[k] \in DOMAIN pieces /\ reach[k] # Len(pieces)
          BY <1>1, <1>2, <1>5, <2>1, <3>1, <4>2, Forward
        <5>2. QED
          BY <1>1, <5>1, Forward
      <4>4. QED
        BY <2>1, <3>1, <3>3, <4>1, <4>2, <4>3
    <3>4. QED
      BY <3>2, <3>3
  <2>4. G \in SUBSET Nat
    OBVIOUS
  <2> HIDE DEF G
  <2>5. G = Nat
    BY <2>2, <2>3, <2>4, Induction
  <2>6. QED
    BY <2>5 DEF G
<1>6. /\ NextEndloop \in current..z
      /\ Type(NextEndloop) = "endloop" \/ NextEndloop >= current + Len(pieces)
  BY <1>1, <1>3, <1>5
<1>7. NextEndloop \in DOMAIN pieces /\ NextEndloop \in Nat /\ current \in Nat /\ z <= Len(pieces)
  BY <1>1, <1>2, <1>6
<1>8. Type(NextEndloop) = "endloop"
  <2>1. current # 0
    BY <1>1
  <2>2. QED
    BY <1>1, <1>6, <1>7, <2>1
<1>9. current < NextEndloop
  <2>1. NextEndloop # current
    BY <1>8
  <2>2. QED
    BY <1>1, <1>6, <1>7, <2>1
<1>10. ASSUME NEW l, NEW e, LoopPair(l, e), l <= current, current < e PROVE NextEndloop <= e
  BY <1>1, <1>3, <1>5, <1>10
<1>11. QED
  BY <1>7, <1>8, <1>9, <1>10

LEMMA BreakloopGoes ==
  ASSUME SnakeInv, Breakloop
  PROVE  /\ phase = "run" /\ RunUnchanged /\ current \in DOMAIN pieces /\ Type(current) = "breakloop"
         /\ \E a, z : LoopPair(a, z) /\ a < current /\ current < z
         /\ \E e \in DOMAIN pieces :
              /\ Type(e) = "endloop" /\ current < e /\ e # Len(pieces) /\ current' = Link(e)
              /\ \A l, d : LoopPair(l, d) /\ l <= current /\ current < d => e <= d
              /\ Kept /\ LinkInv' /\ ~LoopedBack(e)'
              /\ \A i \in DOMAIN pieces : i # e => pieces'[i] = pieces[i] /\ (LoopedBack(i)' <=> LoopedBack(i))
              /\ \A i \in DOMAIN pieces : pieces'[i].counter = pieces[i].counter
<1>1. /\ phase = "run" /\ RunUnchanged /\ current \in DOMAIN pieces /\ Type(current) = "breakloop"
      /\ pieces' = Broken(NextEndloop) /\ current' = pieces'[NextEndloop].next
  BY DEF Breakloop, At, Type, SnakeInv, PlaceInv
<1>2. /\ \A o : ~IsOpen(o)
      /\ \A i \in DOMAIN pieces : i \in Nat /\ pieces[i] \in Pieces
      /\ Type(Len(pieces)) = "end" /\ pieces \in Seq(Pieces)
  BY <1>1, Running
<1>3. PICK a \in DOMAIN pieces, z \in DOMAIN pieces : LoopPair(a, z) /\ a < current /\ current < z
  BY <1>1, <1>2 DEF SnakeInv, BreakInv, Encloses
<1>4. a <= current
  BY <1>1, <1>2, <1>3
<1>5. PICK e \in DOMAIN pieces : /\ e = NextEndloop /\ Type(e) = "endloop" /\ current < e
                                 /\ \A l, d : LoopPair(l, d) /\ l <= current /\ current < d => e <= d
  BY <1>1, <1>3, <1>4, FastForward
<1>6. e # Len(pieces)
  BY <1>2, <1>5
<1>7. pieces[e].next \in {Link(e), pieces[e].loopback} /\ (LoopedBack(e) => pieces[e].beyond # 0)
  BY <1>5 DEF SnakeInv, LinkInv
<1>8. CASE pieces[e].beyond = 0
  <2>1. pieces' = pieces
    BY <1>1, <1>5, <1>8 DEF Broken
  <2>2. ~LoopedBack(e) /\ pieces[e].next = Link(e)
    BY <1>5, <1>7, <1>8 DEF LoopedBack
  <2>3. Kept
    BY <1>1, <1>2, <2>1 DEF Kept, RunUnchanged
  <2>4. LinkInv'
    BY <1>1, <2>1 DEF SnakeInv, LinkInv, Link, LoopedBack, Type, ElseOf, IsOpen, RunUnchanged
  <2>5. \A i \in DOMAIN pieces : LoopedBack(i)' <=> LoopedBack(i)
    BY <2>1 DEF LoopedBack, Type
  <2>6. current' = Link(e)
    BY <1>1, <1>5, <2>1, <2>2
  <2>7. QED
    BY <1>1, <1>3, <1>5, <1>6, <2>1, <2>2, <2>3, <2>4, <2>5, <2>6
<1>9. CASE pieces[e].beyond # 0
  <2>1. Link(e) = pieces[e].beyond
    BY <1>5, <1>9 DEF Link
  <2> DEFINE p == pieces[e]
             c == p.counter
  <2>2. pieces' = [pieces EXCEPT ![e] = [p EXCEPT !.next = Link(e)]]
    BY <1>1, <1>5, <1>9, <2>1 DEF Broken
  <2>3. [p EXCEPT !.next = Link(e)] = [p EXCEPT !.next = Link(e), !.beyond = Link(e), !.counter = c]
    <3>1. p \in Pieces
      BY <1>2
    <3> HIDE DEF p
    <3>2. p.beyond = Link(e)
      BY <2>1 DEF p
    <3>3. QED
      BY <3>1, <3>2 DEF Pieces
  <2>4. c \in Nat
    BY <1>2 DEF Pieces
  <2>5. pieces' = [pieces EXCEPT ![e] = [p EXCEPT !.next = Link(e), !.beyond = Link(e), !.counter = c]]
    BY <2>2, <2>3
  <2> HIDE DEF c
  <2>6. /\ Kept /\ LinkInv' /\ pieces'[e].next = Link(e) /\ pieces'[e].counter = c
        /\ \A i \in DOMAIN pieces : i # e => pieces'[i] = pieces[i]
        /\ \A i \in DOMAIN pieces : i # e => (LoopedBack(i)' <=> LoopedBack(i))
        /\ LoopedBack(e)' <=> Link(e) = pieces[e].loopback
    BY <1>1, <1>5, <2>4, <2>5, Turned
  <2>7. Link(e) # pieces[e].loopback
    <3>1. e < Link(e)
      BY <1>1, <1>5, <1>6, Forward
    <3>2. PICK k \in DOMAIN pieces : LoopPair(k, e) /\ k < e
      BY <1>5 DEF SnakeInv, PairInv
    <3>3. k = pieces[e].loopback
      BY <3>2 DEF LoopPair
    <3>4. QED
      BY <1>2, <3>1, <3>2, <3>3
  <2>8. current' = Link(e)
    BY <1>1, <1>5, <2>6
  <2>9. QED
    BY <1>1, <1>3, <1>5, <1>6, <2>6, <2>7, <2>8 DEF c
<1>10. QED
  BY <1>8, <1>9

(* In a regular script it is the endloop of the one loop the breakloop is  *)
(* in.                                                                     *)
LEMMA LeavesTheLoop ==
  ASSUME SnakeInv, OutmostInv, phase = "run", current \in DOMAIN pieces, Type(current) = "breakloop",
         NEW e \in DOMAIN pieces, Type(e) = "endloop", current < e,
         \A l, d : LoopPair(l, d) /\ l <= current /\ current < d => e <= d
  PROVE  \A l, d : LoopPair(l, d) /\ l < current /\ current < d =>
           d = e /\ \A m : ~Encloses(m, l)
<1>1. /\ \A o : ~IsOpen(o)
      /\ \A i \in DOMAIN pieces : i \in Nat
      /\ \A l, d : LoopPair(l, d) => l \in DOMAIN pieces /\ d \in DOMAIN pieces /\ l < d
  BY Running
<1>2. SUFFICES ASSUME NEW l, NEW d, LoopPair(l, d), l < current, current < d
               PROVE  d = e /\ \A m : ~Encloses(m, l)
  OBVIOUS
<1>3. /\ l \in DOMAIN pieces /\ d \in DOMAIN pieces /\ e <= d /\ Type(l) = "loop" /\ l <= current
      /\ Encloses(l, current)
  BY <1>1, <1>2 DEF Encloses, LoopPair
<1>4. PICK k \in DOMAIN pieces : LoopPair(k, e)
  BY DEF SnakeInv, PairInv
<1>5. k < e /\ Type(k) = "loop"
  BY <1>1, <1>4 DEF LoopPair
<1>6. ~(current < k)
  <2>1. SUFFICES ASSUME current < k PROVE FALSE
    OBVIOUS
  <2>2. l < k /\ k < d
    BY <1>1, <1>2, <1>3, <1>5, <2>1
  <2>3. Encloses(l, k)
    BY <1>2, <1>3, <2>2 DEF Encloses
  <2>4. QED
    BY <1>3, <1>5, <2>1, <2>3 DEF OutmostInv
<1>7. k < current
  <2>1. k # current
    BY <1>5
  <2>2. QED
    BY <1>1, <1>6, <2>1
<1>8. k = l
  <2>1. Encloses(k, current)
    BY <1>4, <1>5, <1>7 DEF Encloses
  <2>2. QED
    BY <1>3, <2>1 DEF OutmostInv
<1>9. d = e
  BY <1>2, <1>3, <1>4, <1>8 DEF SnakeInv, PairInv
<1>10. ASSUME NEW m, Encloses(m, l) PROVE FALSE
  <2>1. PICK x \in DOMAIN pieces : LoopPair(m, x) /\ l < x /\ m < l /\ m \in DOMAIN pieces /\ Type(m) = "loop"
    BY <1>1, <1>10 DEF Encloses
  <2>2. d < x
    BY <1>2, <2>1, LoopsNest
  <2>3. m < current /\ current < x
    BY <1>1, <1>2, <1>3, <2>1, <2>2
  <2>4. Encloses(m, current)
    BY <2>1, <2>3 DEF Encloses
  <2>5. m = l
    BY <1>3, <2>1, <2>4 DEF OutmostInv
  <2>6. QED
    BY <1>1, <2>1, <2>5
<1>11. QED
  BY <1>9, <1>10

LEMMA BreakloopKeeps ==
  ASSUME SnakeInv, Breakloop
  PROVE  SnakeInv' /\ (RegularInv => RegularInv')
<1>1. /\ phase = "run" /\ RunUnchanged /\ current \in DOMAIN pieces /\ Type(current) = "breakloop"
  BY BreakloopGoes
<1>2. PICK a, z : LoopPair(a, z) /\ a < current /\ current < z
  BY BreakloopGoes
<1>3. PICK e \in DOMAIN pieces :
              /\ Type(e) = "endloop" /\ current < e /\ e # Len(pieces) /\ current' = Link(e)
              /\ \A l, d : LoopPair(l, d) /\ l <= current /\ current < d => e <= d
              /\ Kept /\ LinkInv' /\ ~LoopedBack(e)'
              /\ \A i \in DOMAIN pieces : i # e => pieces'[i] = pieces[i] /\ (LoopedBack(i)' <=> LoopedBack(i))
              /\ \A i \in DOMAIN pieces : pieces'[i].counter = pieces[i].counter
  BY BreakloopGoes
<1>4. /\ \A i \in DOMAIN pieces : i \in Nat
      /\ \A k, d : LoopPair(k, d) => k \in DOMAIN pieces /\ d \in DOMAIN pieces /\ k < d
  BY <1>1, Running
<1>5. /\ Link(e) \in DOMAIN pieces /\ e < Link(e)
      /\ \A k, d : LoopPair(k, d) /\ k <= e /\ e < d => Link(e) <= d
  BY <1>1, <1>3, Forward
<1>6. ASSUME NEW d \in DOMAIN pieces, LoopedBack(d)'
      PROVE  pieces[d].loopback <= current' /\ current' <= d
  <2>1. d # e /\ LoopedBack(d)
    BY <1>3, <1>6
  <2>2. PICK k \in DOMAIN pieces : /\ k = pieces[d].loopback /\ LoopPair(k, d) /\ k <= current /\ current <= d
                                   /\ Type(d) = "endloop"
    BY <1>1, <2>1, Inside
  <2>3. current < d
    <3>1. current # d
      BY <1>1, <2>2
    <3>2. QED
      BY <1>1, <1>4, <2>2, <3>1
  <2>4. e < d
    BY <1>3, <1>4, <2>1, <2>2, <2>3
  <2>5. k <= e
    BY <1>1, <1>3, <1>4, <2>2
  <2>6. QED
    BY <1>1, <1>3, <1>4, <1>5, <2>2, <2>4, <2>5
<1>7. ASSUME RegularInv PROVE CountInv'
  <2>1. /\ \A k, b : Encloses(k, b)' <=> Encloses(k, b)
        /\ \A k, d : LoopPair(k, d)' <=> LoopPair(k, d)
        /\ \A i \in DOMAIN pieces : pieces'[i].type = Type(i)
        /\ DOMAIN pieces' = DOMAIN pieces
    BY <1>3, KeptPairs DEF Type
  <2>2. phase' = "run" /\ \A i \in DOMAIN pieces : pieces'[i].timed = pieces[i].timed /\ pieces'[i].total = pieces[i].total
    BY <1>1, <1>3 DEF RunUnchanged, Kept
  <2>3. current < current'
    BY <1>1, <1>3, <1>4, <1>5
  <2>4. ASSUME NEW d \in DOMAIN pieces, Type(d) = "endloop", ~pieces[d].timed
        PROVE  /\ LoopedBack(d)' => 0 < pieces[d].counter /\ pieces[d].counter < pieces[d].total
               /\ ~LoopedBack(d)' => pieces[d].counter = 0
                                     \/ (d < current' /\ \A m, k : LoopPair(k, d) => ~Encloses(m, k))
    <3>1. CASE d = e
      <4>1. LoopPair(a, e) /\ \A m : ~Encloses(m, a)
        BY <1>1, <1>2, <1>3, <1>7, LeavesTheLoop DEF RegularInv
      <4>2. \A k : LoopPair(k, e) => k = a
        BY <4>1 DEF LoopPair
      <4>3. QED
        BY <1>3, <1>5, <3>1, <4>1, <4>2
    <3>2. CASE d # e
      <4>1. /\ LoopedBack(d) => 0 < pieces[d].counter /\ pieces[d].counter < pieces[d].total
            /\ ~LoopedBack(d) => pieces[d].counter = 0
                                 \/ (d < current /\ \A m, k : LoopPair(k, d) => ~Encloses(m, k))
        BY <1>1, <1>7, <2>4 DEF RegularInv, CountInv
      <4>2. d < current => d < current'
        BY <1>1, <1>3, <1>4, <1>5, <2>3
      <4>3. QED
        BY <1>3, <3>2, <4>1, <4>2
    <3>3. QED
      BY <3>1, <3>2
  <2>5. QED
    BY <1>3, <2>1, <2>2, <2>4 DEF CountInv, Type
<1>8. current' \in DOMAIN pieces
  BY <1>3, <1>5
<1>9. QED
  BY <1>1, <1>3, <1>6, <1>7, <1>8, StepKeeps

LEMMA LastKeeps ==
  ASSUME SnakeInv, End \/ Cancel
  PROVE  SnakeInv' /\ (RegularInv => RegularInv')
<1>1. /\ phase = "run" /\ phase' = "ended" /\ UNCHANGED <<lines, nesting, tmout, pieces>>
      /\ \/ End /\ current' = 0 /\ cut' = cut
         \/ cut' = TRUE /\ current' = current
  BY DEF End, Cancel, At
<1>2. /\ TypeOK /\ LinkInv /\ PlaceInv
      /\ pieces \in Seq(Pieces) /\ Len(pieces) \in Nat
  BY <1>1, Running DEF SnakeInv
<1>3. Kept
  BY <1>1, <1>2 DEF Kept
<1>4. TypeOK'
  <2>1. cut' \in BOOLEAN
    BY <1>1, <1>2, Zenon DEF TypeOK
  <2>2. current' \in 0..Len(pieces)
    BY <1>1, <1>2 DEF TypeOK
  <2>3. QED
    BY <1>1, <1>2, <2>1, <2>2 DEF TypeOK
<1>5. LinkInv'
  BY <1>1, <1>2 DEF LinkInv, Link, LoopedBack, Type, ElseOf, IsOpen
<1>6. \A e \in DOMAIN pieces : LoopedBack(e)' <=> LoopedBack(e)
  BY <1>1 DEF LoopedBack, Type
<1>7. PlaceInv'
  <2>1. CASE End
    <3>1. current = Len(pieces)
      BY <1>1, <1>2, <2>1, Running DEF End, At, Type, PlaceInv
    <3>2. ASSUME NEW e \in DOMAIN pieces, LoopedBack(e) PROVE FALSE
      <4>1. Type(e) = "endloop" /\ current <= e
        BY <1>1, <3>2, Inside
      <4>2. e # Len(pieces) /\ e \in Nat /\ e <= Len(pieces)
        BY <1>1, <4>1, Running
      <4>3. QED
        BY <1>2, <3>1, <4>1, <4>2
    <3>3. current' = 0
      BY <2>1 DEF End
    <3>4. QED
      BY <1>1, <1>6, <3>2, <3>3 DEF PlaceInv
  <2>2. CASE cut' = TRUE /\ current' = current
    BY <1>1, <1>2, <1>6, <2>2 DEF PlaceInv
  <2>3. QED
    BY <1>1, <2>1, <2>2
<1>8. ASSUME RegularInv PROVE CountInv'
  BY <1>1, <1>6, <1>8 DEF RegularInv, CountInv, Type
<1>9. QED
  BY <1>3, <1>4, <1>5, <1>7, <1>8, KeptInvs DEF SnakeInv, RegularInv

----------------------------------------------------------------------------
LEMMA StutterKeeps ==
  ASSUME SnakeInv, UNCHANGED vars
  PROVE  SnakeInv' /\ (RegularInv => RegularInv')
<1>1. UNCHANGED <<phase, lines, nesting, tmout, pieces, current, cut>>
  BY DEF vars
<1>2. /\ \A i : Type(i)' = Type(i) /\ Link(i)' = Link(i)
      /\ \A i : (LoopedBack(i)' <=> LoopedBack(i)) /\ (IsOpen(i)' <=> IsOpen(i))
      /\ \A l, e : LoopPair(l, e)' <=> LoopPair(l, e)
      /\ \A i, f : IfPair(i, f)' <=> IfPair(i, f)
      /\ \A i, e : ElseOf(i, e)' <=> ElseOf(i, e)
      /\ \A l, e : Encloses(l, e)' <=> Encloses(l, e)
      /\ \A l, e : Block(l, e)' <=> Block(l, e)
  BY <1>1 DEF Type, Link, LoopedBack, IsOpen, LoopPair, IfPair, ElseOf, Encloses, Block
<1>3. TypeOK' /\ ShapeInv'
  BY <1>1, <1>2 DEF SnakeInv, TypeOK, ShapeInv
<1>4. PairInv' /\ ElseInv' /\ NestInv'
  BY <1>1, <1>2 DEF SnakeInv, PairInv, ElseInv, NestInv
<1>5. LinkInv' /\ PlaceInv' /\ BreakInv'
  BY <1>1, <1>2 DEF SnakeInv, LinkInv, PlaceInv, BreakInv
<1>6. ASSUME RegularInv PROVE TimesInv' /\ OutmostInv' /\ CountInv'
  BY <1>1, <1>2, <1>6 DEF RegularInv, TimesInv, OutmostInv, CountInv
<1>7. QED
  BY <1>3, <1>4, <1>5, <1>6 DEF SnakeInv, RegularInv

LEMMA StepSnake ==
  ASSUME SnakeInv, [Next]_vars
  PROVE  SnakeInv' /\ (RegularInv /\ ~AnyScript => RegularInv')
<1>1. ASSUME NEW line \in Line, AddLine(line) PROVE SnakeInv' /\ (RegularInv /\ ~AnyScript => RegularInv')
  BY <1>1, AddKeeps, AddKeepsRegular
<1>2. CASE Finish
  BY <1>2, FinishKeeps
<1>3. CASE Plain
  BY <1>3, PlainKeeps
<1>4. CASE Endloop
  BY <1>4, EndloopKeeps
<1>5. CASE Breakloop
  BY <1>5, BreakloopKeeps
<1>6. CASE If
  BY <1>6, IfKeeps
<1>7. CASE End \/ Cancel
  BY <1>7, LastKeeps
<1>8. CASE UNCHANGED vars
  BY <1>8, StutterKeeps
<1>9. QED
  BY <1>1, <1>2, <1>3, <1>4, <1>5, <1>6, <1>7, <1>8 DEF Next, Interpret

(* For every script that is accepted: the snake is well formed, its links  *)
(* stay inside it, and the interpreter stays on it.                        *)
THEOREM TypeCorrect == Spec => []TypeOK
<1>1. Init => SnakeInv
  BY InitSnake
<1>2. SnakeInv /\ [Next]_vars => SnakeInv'
  BY StepSnake
<1>3. SnakeInv => TypeOK
  BY DEF SnakeInv
<1>4. QED
  BY <1>1, <1>2, <1>3, PTL DEF Spec

(* Loops, ifs and elses are paired and nested, and only the link of an     *)
(* endloop around the interpreter leads back.                              *)
THEOREM WellFormed == Spec => []SnakeInv
<1>1. Init => SnakeInv
  BY InitSnake
<1>2. SnakeInv /\ [Next]_vars => SnakeInv'
  BY StepSnake
<1>3. QED
  BY <1>1, <1>2, PTL DEF Spec

LEMMA RegularSnake == ASSUME ~AnyScript PROVE Spec => [](SnakeInv /\ RegularInv)
<1>1. Init => SnakeInv /\ RegularInv
  BY InitSnake
<1>2. SnakeInv /\ RegularInv /\ [Next]_vars => SnakeInv' /\ RegularInv'
  BY StepSnake
<1>3. QED
  BY <1>1, <1>2, PTL DEF Spec

----------------------------------------------------------------------------
(* The clean-up walks the snake as mli_create has left it when no loop is  *)
(* looped back.                                                            *)
LEMMA NotLoopedBack ==
  ASSUME SnakeInv, RegularInv, phase = "ended",
         cut => \A i \in DOMAIN pieces : pieces[i].type = "loop" => Left(i) = 0
  PROVE  \A e \in DOMAIN pieces : ~LoopedBack(e)
<1> SUFFICES ASSUME NEW e \in DOMAIN pieces, LoopedBack(e) PROVE FALSE
  OBVIOUS
<1> DEFINE l == pieces[e].loopback
<1>1. /\ LoopPair(l, e) /\ Type(e) = "endloop" /\ l \in DOMAIN pieces /\ Type(l) = "loop"
      /\ l <= current /\ current <= e
  BY Inside
<1>2. /\ \A i \in DOMAIN pieces : i \in Nat /\ i # 0 /\ pieces[i] \in Pieces
      /\ current \in Nat /\ cut \in BOOLEAN
  BY Running DEF SnakeInv, TypeOK
<1>3. cut
  <2>1. SUFFICES ASSUME ~cut PROVE FALSE
    OBVIOUS
  <2>2. current = 0
    BY <2>1 DEF SnakeInv, PlaceInv
  <2>3. QED
    BY <1>1, <1>2, <2>2
<1> HIDE DEF l
<1>4. EndloopOf(l) = e
  <2>1. pieces[e].loopback = l
    BY DEF l
  <2>2. ASSUME NEW d \in DOMAIN pieces, pieces[d].loopback = l PROVE d = e
    <3>1. Type(d) = "endloop"
      BY <1>1, <1>2, <2>2 DEF SnakeInv, PairInv
    <3>2. LoopPair(l, d)
      BY <1>1, <2>2, <3>1 DEF LoopPair
    <3>3. QED
      BY <1>1, <3>2 DEF SnakeInv, PairInv
  <2>3. QED
    BY <2>1, <2>2 DEF EndloopOf
<1>5. (l < current /\ current <= e) \/ (current = l /\ pieces[e].next = l)
  <2>1. pieces[e].next = l
    BY DEF LoopedBack, l
  <2>2. QED
    BY <1>1, <1>2, <2>1
<1>6. Left(l) = IF lines[l - 1].msec THEN 1 ELSE pieces[e].total - pieces[e].counter
  BY <1>1, <1>4, <1>5 DEF Left, Type
<1>7. Left(l) # 0
  <2>1. CASE lines[l - 1].msec
    BY <1>6, <2>1
  <2>2. CASE ~lines[l - 1].msec
    <3>1. PICK k \in DOMAIN pieces : LoopPair(k, e) /\ pieces[e].timed = pieces[k].timed
      BY <1>1 DEF SnakeInv, PairInv
    <3>2. k = l
      BY <3>1 DEF LoopPair, l
    <3>3. ~pieces[e].timed
      BY <1>1, <2>2, <3>1, <3>2 DEF RegularInv, TimesInv
    <3>4. pieces[e].counter < pieces[e].total
      BY <1>1, <3>3 DEF RegularInv, CountInv
    <3>5. pieces[e].counter \in Nat /\ pieces[e].total \in Nat
      BY <1>2 DEF Pieces
    <3>6. QED
      BY <1>6, <2>2, <3>4, <3>5
  <2>3. QED
    BY <2>1, <2>2
<1>8. QED
  BY <1>1, <1>3, <1>7 DEF Type

(* The pieces before m + 1 are freed, and m + 1 is the next: in its turn,  *)
(* after the endif if it is an else.                                       *)
Upto(m) == [i \in 1..m |-> i]
Redirected(m) == {f \in DOMAIN pieces : Type(f) = "endif" /\ pieces[f].else # 0 /\ pieces[f].else <= m}

InTurn(w, m) ==
  m \in 0..Len(pieces) - 1 /\ w = [at |-> m + 1, freed |-> Upto(m), elses |-> Redirected(m + 1)]
AtEndif(w, m) ==
  /\ m \in 0..Len(pieces) - 1
  /\ \E f \in DOMAIN pieces : /\ Type(f) = "endif" /\ pieces[f].else = m + 1
                              /\ w = [at |-> f, freed |-> Upto(m), elses |-> Redirected(m)]
AllFreed(w) == \E x \in SUBSET DOMAIN pieces : w = [at |-> 0, freed |-> Upto(Len(pieces)), elses |-> x]

LEMMA EndifElse ==
  ASSUME SnakeInv, phase # "build", NEW f \in DOMAIN pieces, Type(f) = "endif", pieces[f].else # 0
  PROVE  /\ pieces[f].else \in DOMAIN pieces /\ Type(pieces[f].else) = "else" /\ pieces[f].else < f
         /\ \A g \in DOMAIN pieces : Type(g) = "endif" /\ pieces[g].else = pieces[f].else => g = f
<1>1. /\ \A o : ~IsOpen(o)
  BY Running
<1>2. ASSUME NEW g \in DOMAIN pieces, Type(g) = "endif", pieces[g].else # 0
      PROVE  \E i \in DOMAIN pieces : /\ ElseOf(i, pieces[g].else) /\ pieces[i].end = g
                                      /\ pieces[g].else < g
  <2>1. PICK i \in DOMAIN pieces : IfPair(i, g)
    BY <1>2 DEF SnakeInv, PairInv
  <2>2. Type(i) = "if" /\ pieces[i].end = g /\ pieces[g].else = pieces[i].else
    BY <2>1 DEF IfPair, SnakeInv, PairInv
  <2>3. PICK e \in DOMAIN pieces : ElseOf(i, e) /\ e < pieces[i].end
    BY <1>1, <1>2, <2>2 DEF SnakeInv, ElseInv
  <2>4. e = pieces[i].else
    BY <2>3 DEF ElseOf
  <2>5. QED
    BY <2>2, <2>3, <2>4
<1>3. PICK i \in DOMAIN pieces : ElseOf(i, pieces[f].else) /\ pieces[i].end = f /\ pieces[f].else < f
  BY <1>2
<1>4. pieces[f].else \in DOMAIN pieces /\ Type(pieces[f].else) = "else"
  BY <1>3 DEF ElseOf
<1>5. ASSUME NEW g \in DOMAIN pieces, Type(g) = "endif", pieces[g].else = pieces[f].else PROVE g = f
  <2>1. PICK j \in DOMAIN pieces : ElseOf(j, pieces[f].else) /\ pieces[j].end = g
    BY <1>2, <1>5
  <2>2. i = j
    BY <1>3, <1>4, <2>1 DEF SnakeInv, ElseInv
  <2>3. QED
    BY <1>3, <2>1, <2>2
<1>6. QED
  BY <1>3, <1>4, <1>5

(* After a piece is freed, the walk is at the next one or at an endif with *)
(* an else to go to.                                                       *)
LEMMA FreeNext ==
  ASSUME SnakeInv, phase # "build", \A e \in DOMAIN pieces : ~LoopedBack(e),
         NEW m \in 0..Len(pieces) - 1, NEW w,
         w = [at |-> pieces[m + 1].next, freed |-> Append(Upto(m), m + 1), elses |-> Redirected(m + 1)]
  PROVE  InTurn(w, m + 1) \/ AtEndif(w, m + 1) \/ AllFreed(w)
<1>1. /\ Len(pieces) \in Nat /\ DOMAIN pieces = 1..Len(pieces) /\ \A o : ~IsOpen(o)
      /\ \A i \in DOMAIN pieces : i \in Nat /\ (Type(i) = "end" <=> i = Len(pieces))
  BY Running
<1>2. m + 1 \in DOMAIN pieces /\ m \in Nat
  BY <1>1
<1>3. Append(Upto(m), m + 1) = Upto(m + 1)
  <2>1. Upto(m) \in Seq(Nat) /\ Len(Upto(m)) = m
    BY <1>2 DEF Upto
  <2>2. /\ Append(Upto(m), m + 1) \in Seq(Nat) /\ Len(Append(Upto(m), m + 1)) = m + 1
        /\ \A i \in 1..m : Append(Upto(m), m + 1)[i] = i
        /\ Append(Upto(m), m + 1)[m + 1] = m + 1
    BY <1>2, <2>1 DEF Upto
  <2>3. Upto(m + 1) \in Seq(Nat) /\ Len(Upto(m + 1)) = m + 1 /\ \A i \in 1..m + 1 : Upto(m + 1)[i] = i
    BY <1>2 DEF Upto
  <2>4. \A i \in 1..m + 1 : i \in 1..m \/ i = m + 1
    BY <1>2
  <2>5. QED
    BY <2>2, <2>3, <2>4, SeqEqual
<1>4. pieces[m + 1].next = Link(m + 1)
  <2>1. Type(m + 1) = "endloop" => pieces[m + 1].next \in {Link(m + 1), pieces[m + 1].loopback}
    BY <1>2 DEF SnakeInv, LinkInv
  <2>2. Type(m + 1) = "endloop" => pieces[m + 1].next # pieces[m + 1].loopback
    BY <1>2 DEF LoopedBack
  <2>3. QED
    BY <2>1, <2>2 DEF Link
<1>5. CASE m + 1 = Len(pieces)
  <2>1. pieces[m + 1].next = 0
    BY <1>5 DEF SnakeInv, LinkInv
  <2>2. Redirected(m + 1) \in SUBSET DOMAIN pieces
    BY DEF Redirected
  <2>3. QED
    BY <1>3, <1>5, <2>1, <2>2 DEF AllFreed
<1>6. CASE m + 1 # Len(pieces)
  <2>1. m + 1 \in 0..Len(pieces) - 1 /\ (m + 1) + 1 \in DOMAIN pieces
    <3> DEFINE n == Len(pieces)
    <3>1. n \in Nat /\ DOMAIN pieces = 1..n /\ m \in Nat /\ m + 1 \in 1..n /\ m + 1 # n
      BY <1>1, <1>2, <1>6
    <3> HIDE DEF n
    <3>2. m + 1 \in 0..n - 1 /\ (m + 1) + 1 \in 1..n
      BY <3>1
    <3>3. QED
      BY <3>1, <3>2 DEF n
  <2>2. CASE Type((m + 1) + 1) # "else"
    <3>1. Link(m + 1) = (m + 1) + 1
      BY <1>2, <1>6, <2>2 DEF SnakeInv, LinkInv
    <3>2. Redirected((m + 1) + 1) = Redirected(m + 1)
      <4>1. ASSUME NEW f \in DOMAIN pieces, Type(f) = "endif", pieces[f].else # 0
            PROVE  pieces[f].else <= (m + 1) + 1 <=> pieces[f].else <= m + 1
        <5>1. pieces[f].else \in DOMAIN pieces /\ Type(pieces[f].else) = "else"
          BY <4>1, EndifElse
        <5>2. pieces[f].else # (m + 1) + 1
          BY <2>2, <5>1
        <5>3. QED
          BY <1>1, <1>2, <5>1, <5>2
      <4>2. QED
        BY <4>1 DEF Redirected
    <3>3. QED
      BY <1>3, <1>4, <2>1, <3>1, <3>2 DEF InTurn
  <2>3. CASE Type((m + 1) + 1) = "else"
    <3>1. PICK j \in DOMAIN pieces : ElseOf(j, (m + 1) + 1)
      BY <2>1, <2>3 DEF SnakeInv, ElseInv
    <3>2. Link(m + 1) = pieces[j].end
      BY <1>1, <1>2, <1>6, <2>3, <3>1 DEF SnakeInv, LinkInv
    <3>3. Type(j) = "if" /\ pieces[j].else = (m + 1) + 1
      BY <3>1 DEF ElseOf
    <3>4. PICK f \in DOMAIN pieces : IfPair(j, f)
      BY <1>1, <3>3 DEF SnakeInv, PairInv
    <3>5. pieces[j].end = f /\ Type(f) = "endif" /\ pieces[f].else = pieces[j].else
      BY <3>4 DEF IfPair, SnakeInv, PairInv
    <3>6. QED
      BY <1>3, <1>4, <2>1, <3>2, <3>3, <3>4, <3>5 DEF AtEndif
  <2>4. QED
    BY <2>2, <2>3
<1>7. QED
  BY <1>5, <1>6

LEMMA DestroyStep ==
  ASSUME SnakeInv, phase # "build", \A e \in DOMAIN pieces : ~LoopedBack(e), NEW w
  PROVE  /\ AllFreed(w) => Destroy(w) = w
         /\ \A m : InTurn(w, m) =>
              InTurn(Destroy(w), m + 1) \/ AtEndif(Destroy(w), m + 1) \/ AllFreed(Destroy(w))
         /\ \A m : AtEndif(w, m) => InTurn(Destroy(w), m)
<1>1. /\ Len(pieces) \in Nat /\ DOMAIN pieces = 1..Len(pieces)
      /\ \A i \in DOMAIN pieces : i \in Nat /\ i # 0
  BY Running
<1>2. AllFreed(w) => Destroy(w) = w
  BY DEF AllFreed, Destroy
<1>3. \A m \in Nat : ToSet(Upto(m)) = 1..m
  BY DEF ToSet, Upto
<1>4. ASSUME NEW m, InTurn(w, m)
      PROVE  InTurn(Destroy(w), m + 1) \/ AtEndif(Destroy(w), m + 1) \/ AllFreed(Destroy(w))
  <2>1. m \in 0..Len(pieces) - 1 /\ w = [at |-> m + 1, freed |-> Upto(m), elses |-> Redirected(m + 1)]
    BY <1>4 DEF InTurn
  <2>2. m + 1 \in DOMAIN pieces /\ m \in Nat /\ m + 1 \notin 1..m /\ m + 1 # 0
    BY <1>1, <2>1
  <2>3. ~ElseIsLeft(w)
    <3>1. SUFFICES ASSUME Type(m + 1) = "endif", pieces[m + 1].else # 0 PROVE m + 1 \in Redirected(m + 1)
      BY <2>1 DEF ElseIsLeft, Type
    <3>2. pieces[m + 1].else \in DOMAIN pieces /\ pieces[m + 1].else < m + 1
      BY <2>2, <3>1, EndifElse
    <3>3. QED
      BY <1>1, <2>2, <3>1, <3>2 DEF Redirected
  <2>4. Destroy(w) = FreePiece(w)
    <3>1. w.at = m + 1 /\ w.freed = Upto(m)
      BY <2>1
    <3>2. w.at # 0 /\ w.at \notin ToSet(w.freed)
      BY <1>3, <2>2, <3>1
    <3>3. QED
      BY <2>3, <3>2 DEF Destroy
  <2>5. Destroy(w) = [at |-> pieces[m + 1].next, freed |-> Append(Upto(m), m + 1), elses |-> Redirected(m + 1)]
    BY <2>1, <2>4 DEF FreePiece
  <2>6. QED
    BY <2>1, <2>5, FreeNext
<1>5. ASSUME NEW m, AtEndif(w, m) PROVE InTurn(Destroy(w), m)
  <2>1. PICK f \in DOMAIN pieces : /\ Type(f) = "endif" /\ pieces[f].else = m + 1
                                   /\ w = [at |-> f, freed |-> Upto(m), elses |-> Redirected(m)]
    BY <1>5 DEF AtEndif
  <2>2. m \in 0..Len(pieces) - 1 /\ m \in Nat
    BY <1>1, <1>5 DEF AtEndif
  <2>3. /\ pieces[f].else # 0 /\ m + 1 < f
        /\ \A g \in DOMAIN pieces : Type(g) = "endif" /\ pieces[g].else = m + 1 => g = f
    BY <2>1, <2>2, EndifElse
  <2>4. f \notin ToSet(w.freed) /\ f # 0
    BY <1>1, <1>3, <2>1, <2>2, <2>3
  <2>5. ElseIsLeft(w)
    <3>1. f \notin Redirected(m)
      BY <2>1, <2>2 DEF Redirected
    <3>2. QED
      BY <2>1, <2>3, <3>1 DEF ElseIsLeft, Type
  <2>6. Destroy(w) = [w EXCEPT !.at = pieces[w.at].else, !.elses = @ \cup {w.at}]
    BY <2>1, <2>4, <2>5 DEF Destroy
  <2>7. Destroy(w) = [at |-> m + 1, freed |-> Upto(m), elses |-> Redirected(m) \cup {f}]
    BY <2>1, <2>6
  <2>8. Redirected(m) \cup {f} = Redirected(m + 1)
    <3>1. \A g \in DOMAIN pieces : Type(g) = "endif" /\ pieces[g].else # 0 =>
            (pieces[g].else <= m + 1 <=> pieces[g].else <= m \/ pieces[g].else = m + 1)
      BY <1>1, <2>2, EndifElse
    <3>2. QED
      BY <2>1, <2>2, <2>3, <3>1 DEF Redirected
  <2>9. QED
    BY <2>2, <2>7, <2>8 DEF InTurn
<1>6. QED
  BY <1>2, <1>4, <1>5

Walks == {w \in [at : 0..Len(pieces), freed : Seq(Nat), elses : SUBSET DOMAIN pieces] :
            AllFreed(w) \/ \E m \in Nat : InTurn(w, m) \/ AtEndif(w, m)}

LEMMA Walking ==
  ASSUME SnakeInv, phase # "build"
  PROVE  \A w : AllFreed(w) \/ (\E m : InTurn(w, m) \/ AtEndif(w, m)) => w \in Walks
<1>1. /\ Len(pieces) \in Nat /\ DOMAIN pieces = 1..Len(pieces)
  BY Running
<1>2. \A m \in Nat : Upto(m) \in Seq(Nat)
  BY DEF Upto
<1>3. \A m : Redirected(m) \in SUBSET DOMAIN pieces
  BY DEF Redirected
<1>4. ASSUME NEW w, AllFreed(w) PROVE w \in Walks
  BY <1>1, <1>2, <1>4 DEF AllFreed, Walks
<1>5. ASSUME NEW w, NEW m, InTurn(w, m) \/ AtEndif(w, m) PROVE w \in Walks
  <2>1. m \in 0..Len(pieces) - 1 /\ m \in Nat /\ m + 1 \in 0..Len(pieces)
    BY <1>1, <1>5 DEF InTurn, AtEndif
  <2>2. w \in [at : 0..Len(pieces), freed : Seq(Nat), elses : SUBSET DOMAIN pieces]
    <3>1. DOMAIN pieces \subseteq 0..Len(pieces)
      BY <1>1
    <3>2. \E x \in 0..Len(pieces) : \E y : w = [at |-> x, freed |-> Upto(m), elses |-> Redirected(y)]
      BY <1>5, <2>1, <3>1 DEF InTurn, AtEndif
    <3>3. QED
      BY <1>2, <1>3, <2>1, <3>2
  <2>3. QED
    BY <1>5, <2>1, <2>2 DEF Walks
<1>6. QED
  BY <1>4, <1>5

LEMMA FreesAll ==
  ASSUME SnakeInv, phase # "build", \A e \in DOMAIN pieces : ~LoopedBack(e)
  PROVE  Freed = Upto(Len(pieces))
<1> DEFINE start == [at |-> 1, freed |-> <<>>, elses |-> {}]
           Steps(f) == [k \in Nat |-> IF k = 0 THEN start ELSE Destroy(f[k - 1])]
           walk == CHOOSE f : f = Steps(f)
           step == [w \in Walks |-> Destroy(w)]
<1>1. /\ Len(pieces) \in Nat /\ DOMAIN pieces = 1..Len(pieces) /\ 1 \in DOMAIN pieces
      /\ \A i \in DOMAIN pieces : i \in Nat
  BY Running
<1>2. InTurn(start, 0)
  <2>1. Redirected(0 + 1) = {}
    <3>1. ASSUME NEW f \in DOMAIN pieces, Type(f) = "endif", pieces[f].else # 0 PROVE ~(pieces[f].else <= 1)
      <4>1. pieces[f].else \in DOMAIN pieces /\ Type(pieces[f].else) = "else"
        BY <3>1, EndifElse
      <4>2. pieces[f].else # 1
        BY <1>1, <4>1, Running
      <4>3. QED
        BY <1>1, <4>1, <4>2
    <3>2. QED
      BY <3>1 DEF Redirected
  <2>2. Upto(0) = <<>>
    BY DEF Upto
  <2>3. 0 \in 0..Len(pieces) - 1
    BY <1>1
  <2>4. QED
    BY <2>1, <2>2, <2>3 DEF InTurn
<1> HIDE DEF start
<1>3. start \in Walks
  BY <1>2, Walking
<1>4. \A w \in Walks : Destroy(w) \in Walks
  <2> SUFFICES ASSUME NEW w \in Walks PROVE Destroy(w) \in Walks
    OBVIOUS
  <2>1. AllFreed(w) \/ \E m : InTurn(w, m) \/ AtEndif(w, m)
    BY DEF Walks
  <2>2. CASE AllFreed(w)
    BY <2>2, DestroyStep
  <2>3. CASE \E m : InTurn(w, m) \/ AtEndif(w, m)
    <3>1. PICK m : InTurn(w, m) \/ AtEndif(w, m)
      BY <2>3
    <3>2. AllFreed(Destroy(w)) \/ \E x : InTurn(Destroy(w), x) \/ AtEndif(Destroy(w), x)
      BY <3>1, DestroyStep
    <3>3. QED
      BY <3>2, Walking
  <2>4. QED
    BY <2>1, <2>2, <2>3
<1>5. walk = Steps(walk) /\ Freed = walk[2 * Len(pieces) + 1].freed
  <2>1. Freed = walk[2 * Len(pieces) + 1].freed
    BY DEF Freed, start
  <2>2. \E f : f = Steps(f)
    <3>1. step \in [Walks -> Walks] /\ \A w \in Walks : step[w] = Destroy(w)
      BY <1>4
    <3> HIDE DEF step
    <3>2. PICK f \in [Nat -> Walks] : f = [k \in Nat |-> IF k = 0 THEN start ELSE step[f[k - 1]]]
      BY <1>3, <3>1, Iterate
    <3>3. \A k \in Nat : k # 0 => k - 1 \in Nat
      OBVIOUS
    <3>4. \A k \in Nat : k # 0 => f[k - 1] \in Walks
      BY <3>2, <3>3
    <3>5. \A k \in Nat : f[k] = IF k = 0 THEN start ELSE step[f[k - 1]]
      BY <3>2
    <3>6. \A k \in Nat : f[k] = Steps(f)[k]
      BY <3>1, <3>4, <3>5
    <3>7. f = [k \in Nat |-> f[k]]
      BY <3>2
    <3>8. QED
      BY <3>6, <3>7
  <2>3. QED
    <3> HIDE DEF Steps
    <3>1. walk = Steps(walk)
      BY <2>2
    <3>2. QED
      BY <2>1, <3>1
<1> HIDE DEF walk
<1>6. walk[0] = start /\ \A k \in Nat : walk[k + 1] = Destroy(walk[k])
  <2>1. \A k \in Nat : walk[k] = Steps(walk)[k]
    BY <1>5
  <2>2. \A k \in Nat : k + 1 \in Nat /\ k + 1 # 0 /\ (k + 1) - 1 = k
    OBVIOUS
  <2>3. QED
    BY <2>1, <2>2
<1> DEFINE There(w, k) == \/ AllFreed(w)
                          \/ \E m \in Nat : InTurn(w, m) /\ k <= 2 * m + 1
                          \/ \E m \in Nat : AtEndif(w, m) /\ k <= 2 * m
           G == {k \in Nat : There(walk[k], k)}
<1>7. G = Nat
  <2>1. 0 \in G
    BY <1>2, <1>6
  <2>2. ASSUME NEW k \in G PROVE k + 1 \in G
    <3>1. walk[k + 1] = Destroy(walk[k]) /\ k \in Nat
      BY <1>6
    <3>2. CASE AllFreed(walk[k])
      BY <3>1, <3>2, DestroyStep
    <3>3. ASSUME NEW m \in Nat, InTurn(walk[k], m), k <= 2 * m + 1 PROVE There(walk[k + 1], k + 1)
      <4>1. InTurn(walk[k + 1], m + 1) \/ AtEndif(walk[k + 1], m + 1) \/ AllFreed(walk[k + 1])
        BY <3>1, <3>3, DestroyStep
      <4>2. m + 1 \in Nat /\ k + 1 <= 2 * (m + 1) /\ k + 1 <= 2 * (m + 1) + 1
        BY <3>1, <3>3
      <4>3. QED
        BY <4>1, <4>2
    <3>4. ASSUME NEW m \in Nat, AtEndif(walk[k], m), k <= 2 * m PROVE There(walk[k + 1], k + 1)
      <4>1. InTurn(walk[k + 1], m)
        BY <3>1, <3>4, DestroyStep
      <4>2. k + 1 <= 2 * m + 1
        BY <3>1, <3>4
      <4>3. QED
        BY <4>1, <4>2
    <3>5. QED
      BY <3>2, <3>3, <3>4
  <2>3. QED
    <3> HIDE DEF G
    <3>1. G \in SUBSET Nat
      BY DEF G
    <3>2. QED
      BY <2>1, <2>2, <3>1, Induction
<1>8. 2 * Len(pieces) + 1 \in Nat
  BY <1>1
<1>9. There(walk[2 * Len(pieces) + 1], 2 * Len(pieces) + 1)
  BY <1>7, <1>8
<1>10. AllFreed(walk[2 * Len(pieces) + 1])
  <2>1. ASSUME NEW m \in Nat, InTurn(walk[2 * Len(pieces) + 1], m) \/ AtEndif(walk[2 * Len(pieces) + 1], m)
        PROVE  ~(2 * Len(pieces) + 1 <= 2 * m + 1)
    <3>1. m \in 0..Len(pieces) - 1
      BY <2>1 DEF InTurn, AtEndif
    <3>2. QED
      BY <1>1, <3>1
  <2>2. \A m \in Nat : ~(2 * Len(pieces) + 1 <= 2 * m + 1) => ~(2 * Len(pieces) + 1 <= 2 * m)
    BY <1>1
  <2>3. QED
    BY <1>9, <2>1, <2>2
<1>11. QED
  BY <1>5, <1>10 DEF AllFreed

(* At the end of a regular script, and of one that is cut outside its      *)
(* loops, each piece is freed and none twice.                              *)
THEOREM FreesEachPieceOnce == ~AnyScript /\ Spec => []FreedOnce
<1>1. SnakeInv /\ RegularInv => FreedOnce
  <2> SUFFICES ASSUME SnakeInv, RegularInv, phase = "ended",
                      cut => \A i \in DOMAIN pieces : pieces[i].type = "loop" => Left(i) = 0
               PROVE  Len(Freed) = Len(pieces) /\ ToSet(Freed) = DOMAIN pieces
    BY DEF FreedOnce
  <2>1. \A e \in DOMAIN pieces : ~LoopedBack(e)
    BY NotLoopedBack
  <2>2. Freed = Upto(Len(pieces))
    BY <2>1, FreesAll
  <2>3. Len(pieces) \in Nat /\ DOMAIN pieces = 1..Len(pieces)
    BY Running
  <2>4. QED
    BY <2>2, <2>3 DEF Upto, ToSet
<1>2. ~AnyScript /\ Spec => [](SnakeInv /\ RegularInv)
  BY RegularSnake
<1>3. QED
  BY <1>1, <1>2, PTL

----------------------------------------------------------------------------
(* Brackets that match: q is closed where open[q] is opened.  From an      *)
(* opening on, as many are opened as closed first where it is closed.      *)
LEMMA Balanced ==
  ASSUME NEW P \in SUBSET Nat, NEW Q \in SUBSET Nat, NEW open \in [Q -> P], P \cap Q = {},
         \A q \in Q : open[q] < q,
         \A p \in P : \E q \in Q : open[q] = p,
         \A q, r \in Q : open[q] = open[r] => q = r,
         \A q, r \in Q : open[q] < open[r] /\ open[r] < q => r < q,
         NEW b \in Q, NEW k \in open[b]..b
  PROVE  Cardinality(P \cap (open[b]..k)) = Cardinality(Q \cap (open[b]..k)) <=> k = b
<1> DEFINE a == open[b]
           X == P \cap (a..k)
           Y == Q \cap (a..k)
<1>1. a \in Nat /\ b \in Nat /\ k \in Nat /\ a < b /\ a <= k /\ k <= b /\ a \in P /\ a \in X
  <2>1. a \in P /\ b \in Nat /\ a < b
    OBVIOUS
  <2>2. a \in Nat
    BY <2>1
  <2>3. k \in Int /\ a <= k /\ k <= b
    BY <2>1, <2>2
  <2>4. QED
    BY <2>1, <2>2, <2>3
<1>2. IsFiniteSet(X) /\ IsFiniteSet(Y) /\ Cardinality(X) \in Nat /\ Cardinality(Y) \in Nat
  <2>1. IsFiniteSet(a..k)
    BY <1>1, FS_Interval
  <2> HIDE DEF a
  <2>2. X \in SUBSET (a..k) /\ Y \in SUBSET (a..k)
    OBVIOUS
  <2>3. QED
    BY <2>1, <2>2, FS_Subset, FS_CardinalityType
<1>3. ASSUME NEW q \in Y PROVE open[q] \in X /\ q \in Nat /\ q \in Q
  <2>1. q \in Q /\ q \in Nat /\ a <= q /\ q <= k
    <3> HIDE DEF a
    <3>1. q \in Q /\ q \in a..k
      BY <1>3
    <3>2. QED
      BY <1>1, <3>1
  <2>0. open[q] \in P /\ open[q] \in Nat /\ open[q] < q
    BY <2>1
  <2>2. a # q
    BY <1>1, <2>1
  <2>3. ~(open[q] < a)
    <3>1. open[q] < open[b] /\ open[b] < q => b < q
      BY <2>1
    <3>2. QED
      BY <1>1, <2>0, <2>1, <2>2, <3>1
  <2> HIDE DEF a
  <2>4. QED
    BY <1>1, <2>0, <2>1, <2>3
<1> DEFINE g == [q \in Y |-> open[q]]
<1>4. CASE k = b
  <2>1. ASSUME NEW p \in X PROVE \E q \in Y : open[q] = p
    <3>1. p \in P /\ p \in Nat /\ a <= p /\ p <= b
      BY <1>1, <1>4
    <3>2. PICK r \in Q : open[r] = p
      BY <3>1
    <3>3. r \in Nat /\ p < r /\ p # b
      BY <3>1, <3>2
    <3>4. r <= b
      <4>1. CASE p = a
        BY <1>1, <3>2, <4>1
      <4>2. CASE p # a
        <5>1. open[b] < open[r] /\ open[r] < b => r < b
          OBVIOUS
        <5>2. QED
          BY <1>1, <3>1, <3>2, <3>3, <4>2, <5>1
      <4>3. QED
        BY <4>1, <4>2
    <3> HIDE DEF a
    <3>5. r \in Y
      BY <1>1, <1>4, <3>1, <3>3, <3>4
    <3>6. QED
      BY <3>2, <3>5
  <2>2. g \in Bijection(Y, X)
    <3> HIDE DEF X, Y
    <3>1. g \in [Y -> X]
      BY <1>3
    <3>2. \A q, r \in Y : g[q] = g[r] => q = r
      BY <1>3
    <3>3. \A p \in X : \E q \in Y : g[q] = p
      BY <2>1
    <3> HIDE DEF g
    <3>4. QED
      BY <3>1, <3>2, <3>3, Fun_IsBij
  <2>3. Cardinality(X) = Cardinality(Y)
    <3> HIDE DEF X, Y, g
    <3>1. QED
      BY <1>2, <2>2, FS_Bijection DEF ExistsBijection
  <2>4. QED
    BY <1>4, <2>3
<1>5. CASE k # b
  <2>1. ASSUME NEW q \in Y PROVE open[q] # a
    BY <1>1, <1>5
  <2>2. g \in Injection(Y, X \ {a})
    <3> HIDE DEF X, Y, a
    <3>1. g \in [Y -> X \ {a}]
      BY <1>3, <2>1
    <3>2. \A q, r \in Y : g[q] = g[r] => q = r
      BY <1>3
    <3> HIDE DEF g
    <3>3. QED
      BY <3>1, <3>2, Fun_IsInj
  <2>3. IsFiniteSet(X \ {a}) /\ Cardinality(X \ {a}) = Cardinality(X) - 1
    <3> HIDE DEF X
    <3>1. QED
      BY <1>1, <1>2, FS_RemoveElement
  <2>4. Cardinality(Y) <= Cardinality(X \ {a})
    <3> HIDE DEF X, Y, g, a
    <3>1. QED
      BY <2>2, <2>3, FS_Injection
  <2>5. Cardinality(X) # Cardinality(Y)
    <3> HIDE DEF X, Y
    <3>1. QED
      BY <1>2, <2>3, <2>4
  <2>6. QED
    BY <1>5, <2>5
<1>6. QED
  BY <1>4, <1>5

----------------------------------------------------------------------------
(* The manual's counting of lines finds the piece that closes a block.     *)
LEMMA SameMeaning ==
  ASSUME NEW S
  PROVE  Meaning!Cardinality(S) = Cardinality(S) /\ Meaning!Min(S) = Min(S) /\ Meaning!Max(S) = Max(S)
BY DEF Meaning!Cardinality, Cardinality, Meaning!Min, Min, Meaning!Max, Max

LinesOf(type) == {l \in DOMAIN lines : lines[l].type = type}

LEMMA Script ==
  ASSUME SnakeInv
  PROVE  /\ Len(lines) \in Nat /\ DOMAIN lines = 1..Len(lines) /\ DOMAIN lines \subseteq Nat
         /\ \A l \in DOMAIN lines : lines[l] \in Line
BY DEF SnakeInv, TypeOK

LEMMA ClosedAt ==
  ASSUME SnakeInv, NEW opener, NEW closer, opener # closer,
         NEW open \in [LinesOf(closer) -> LinesOf(opener)],
         \A q \in LinesOf(closer) : open[q] < q,
         \A p \in LinesOf(opener) : \E q \in LinesOf(closer) : open[q] = p,
         \A q, r \in LinesOf(closer) : open[q] = open[r] => q = r,
         \A q, r \in LinesOf(closer) : open[q] < open[r] /\ open[r] < q => r < q,
         NEW b \in LinesOf(closer)
  PROVE  Meaning!Closing(open[b], opener, closer) = b
<1> DEFINE a == open[b]
           n == Len(lines)
           S == {k \in a..n : Meaning!Count(a, k, opener) = Meaning!Count(a, k, closer)}
<1>1. n \in Nat /\ DOMAIN lines = 1..n
  BY Script
<1>2. LinesOf(opener) \in SUBSET Nat /\ LinesOf(closer) \in SUBSET Nat /\ LinesOf(opener) \cap LinesOf(closer) = {}
  BY Script DEF LinesOf
<1>3. a \in 1..n /\ b \in 1..n /\ a < b
  BY <1>1 DEF LinesOf
<1>4. ASSUME NEW k \in a..b
      PROVE  Meaning!Count(a, k, opener) = Meaning!Count(a, k, closer) <=> k = b
  <2>2. Cardinality(LinesOf(opener) \cap (a..k)) = Cardinality(LinesOf(closer) \cap (a..k)) <=> k = b
    <3> DEFINE P == LinesOf(opener)
               Q == LinesOf(closer)
    <3>1. P \in SUBSET Nat /\ Q \in SUBSET Nat /\ P \cap Q = {} /\ open \in [Q -> P] /\ b \in Q
      BY <1>2
    <3>2. /\ \A q \in Q : open[q] < q
          /\ \A x \in P : \E q \in Q : open[q] = x
          /\ \A q, r \in Q : open[q] = open[r] => q = r
          /\ \A q, r \in Q : open[q] < open[r] /\ open[r] < q => r < q
      OBVIOUS
    <3>3. k \in open[b]..b
      OBVIOUS
    <3> HIDE DEF P, Q, a
    <3>4. Cardinality(P \cap (open[b]..k)) = Cardinality(Q \cap (open[b]..k)) <=> k = b
      BY <3>1, <3>2, <3>3, Balanced
    <3>5. QED
      BY <3>4 DEF P, Q, a
  <2>3. ASSUME NEW type PROVE Meaning!Count(a, k, type) = Cardinality(LinesOf(type) \cap (a..k))
    <3>1. \A l \in a..k : l \in 1..n
      BY <1>1, <1>3
    <3> HIDE DEF a, n
    <3>2. {l \in a..k : lines[l].type = type} = LinesOf(type) \cap (a..k)
      BY <1>1, <3>1 DEF LinesOf
    <3>3. QED
      BY <3>2, SameMeaning DEF Meaning!Count
  <2>4. QED
    BY <2>2, <2>3
<1>5. b \in S /\ \A k \in S : b <= k
  <2> HIDE DEF a, n
  <2>1. b \in a..n /\ b \in a..b
    BY <1>1, <1>3
  <2>2. ASSUME NEW k \in S PROVE b <= k
    <3>1. k \in Nat /\ a <= k
      BY <1>1, <1>3
    <3>2. k <= b => k \in a..b
      BY <1>1, <1>3, <3>1
    <3>3. QED
      BY <1>1, <1>3, <1>4, <3>1, <3>2
  <2>3. QED
    BY <1>4, <2>1, <2>2
<1>6. \A k \in S : k \in Nat
  <2> HIDE DEF a, n
  <2>1. QED
    BY <1>1, <1>3
<1>7. Meaning!Closing(a, opener, closer) = Min(S)
  BY SameMeaning DEF Meaning!Closing
<1> HIDE DEF S
<1>8. \A k \in S : (\A j \in S : k <= j) => k = b
  BY <1>5, <1>6
<1>9. Min(S) = b
  BY <1>5, <1>8 DEF Min
<1>10. QED
  BY <1>7, <1>9

LEMMA PieceLines ==
  ASSUME SnakeInv, phase # "build"
  PROVE  /\ \A i \in DOMAIN pieces : Type(i) \in Types =>
              /\ i - 1 \in LinesOf(Type(i)) /\ i - 1 \in DOMAIN lines /\ (i - 1) + 1 = i
              /\ i - 1 \in Nat /\ i # 1 /\ i # Len(pieces)
         /\ \A type : \A l \in LinesOf(type) :
              l \in Nat /\ l + 1 \in DOMAIN pieces /\ (l + 1) - 1 = l /\ Type(l + 1) = type
<1>1. /\ Len(pieces) \in Nat /\ DOMAIN pieces = 1..Len(pieces) /\ Len(pieces) = Len(lines) + 2
      /\ \A i \in DOMAIN pieces :
           /\ i \in Nat /\ (Type(i) = "end" <=> i = Len(pieces)) /\ (Type(i) = "start" <=> i = 1)
           /\ i # 1 /\ i # Len(pieces) => i - 1 \in DOMAIN lines /\ lines[i - 1].type = Type(i)
  BY Running
<1>2. Len(lines) \in Nat /\ DOMAIN lines = 1..Len(lines)
  BY Script
<1>3. ASSUME NEW i \in DOMAIN pieces, Type(i) \in Types
      PROVE  /\ i - 1 \in LinesOf(Type(i)) /\ i - 1 \in DOMAIN lines /\ (i - 1) + 1 = i
             /\ i - 1 \in Nat /\ i # 1 /\ i # Len(pieces)
  <2>1. i # 1 /\ i # Len(pieces) /\ i \in Nat
    BY <1>1, <1>3 DEF Types
  <2>2. i - 1 \in DOMAIN lines /\ lines[i - 1].type = Type(i)
    BY <1>1, <2>1
  <2>3. QED
    BY <1>2, <2>1, <2>2 DEF LinesOf
<1>4. ASSUME NEW type, NEW l \in LinesOf(type)
      PROVE  l \in Nat /\ l + 1 \in DOMAIN pieces /\ (l + 1) - 1 = l /\ Type(l + 1) = type
  <2>1. l \in DOMAIN lines /\ lines[l].type = type
    BY DEF LinesOf
  <2>2. l \in Nat /\ l + 1 \in DOMAIN pieces /\ (l + 1) - 1 = l /\ l + 1 # 1 /\ l + 1 # Len(pieces)
    BY <1>1, <1>2, <2>1
  <2>3. (l + 1) - 1 \in DOMAIN lines /\ lines[(l + 1) - 1].type = Type(l + 1)
    BY <1>1, <2>2
  <2>4. QED
    BY <2>1, <2>2, <2>3
<1>5. QED
  BY <1>3, <1>4

LEMMA ManualLoops ==
  ASSUME SnakeInv, phase # "build"
  PROVE  \A l, e : LoopPair(l, e) => Meaning!EndloopOf(l - 1) = e - 1
<1> DEFINE P == LinesOf("loop")
           Q == LinesOf("endloop")
           open == [q \in Q |-> pieces[q + 1].loopback - 1]
<1>1. \A i \in DOMAIN pieces : i \in Nat
  BY Running
<1>2. ASSUME NEW q \in Q
      PROVE  /\ open[q] \in P /\ open[q] \in Nat /\ q \in Nat /\ open[q] < q
             /\ LoopPair(open[q] + 1, q + 1)
  <2> DEFINE l == pieces[q + 1].loopback
  <2>1. q \in Nat /\ q + 1 \in DOMAIN pieces /\ Type(q + 1) = "endloop"
    BY PieceLines
  <2>2. LoopPair(l, q + 1) /\ l < q + 1
    <3>1. PICK d \in DOMAIN pieces : LoopPair(d, q + 1) /\ d < q + 1
      BY <2>1 DEF SnakeInv, PairInv
    <3>2. QED
      BY <3>1 DEF LoopPair
  <2>3. open[q] = l - 1
    OBVIOUS
  <2> HIDE DEF l, open
  <2>4. l \in DOMAIN pieces /\ Type(l) = "loop"
    BY <2>2 DEF LoopPair
  <2>5. l - 1 \in LinesOf("loop") /\ (l - 1) + 1 = l /\ l - 1 \in Nat
    BY <2>4, PieceLines DEF Types
  <2>6. QED
    BY <2>1, <2>2, <2>3, <2>5
<1>3. ASSUME NEW l, NEW e, LoopPair(l, e)
      PROVE  /\ l - 1 \in P /\ e - 1 \in Q /\ open[e - 1] = l - 1 /\ l \in Nat /\ e \in Nat
             /\ (l - 1) + 1 = l /\ (e - 1) + 1 = e
  <2>1. /\ l \in DOMAIN pieces /\ Type(l) = "loop" /\ e \in DOMAIN pieces /\ Type(e) = "endloop"
        /\ pieces[e].loopback = l
    BY <1>3 DEF LoopPair
  <2>2. l - 1 \in P /\ e - 1 \in Q /\ (l - 1) + 1 = l /\ (e - 1) + 1 = e
    BY <2>1, PieceLines DEF Types
  <2> HIDE DEF P, Q
  <2>3. QED
    BY <1>1, <2>1, <2>2
<1>4. ASSUME NEW p \in P PROVE \E q \in Q : open[q] = p
  <2>1. p \in Nat /\ p + 1 \in DOMAIN pieces /\ Type(p + 1) = "loop" /\ (p + 1) - 1 = p
    BY PieceLines
  <2>2. PICK e \in DOMAIN pieces : LoopPair(p + 1, e)
    BY <2>1, Running DEF SnakeInv, PairInv
  <2> HIDE DEF P, Q, open
  <2>3. QED
    BY <1>3, <2>1, <2>2
<1>5. \A q, r \in Q : open[q] = open[r] => q = r
  <2> SUFFICES ASSUME NEW q \in Q, NEW r \in Q, open[q] = open[r] PROVE q = r
    OBVIOUS
  <2>1. LoopPair(open[q] + 1, q + 1) /\ LoopPair(open[q] + 1, r + 1) /\ q \in Nat /\ r \in Nat
    BY <1>2
  <2>2. q + 1 = r + 1
    BY <2>1 DEF SnakeInv, PairInv, LoopPair
  <2>3. QED
    BY <2>1, <2>2
<1>6. \A q, r \in Q : open[q] < open[r] /\ open[r] < q => r < q
  <2> SUFFICES ASSUME NEW q \in Q, NEW r \in Q, open[q] < open[r], open[r] < q PROVE r < q
    OBVIOUS
  <2>1. /\ LoopPair(open[q] + 1, q + 1) /\ LoopPair(open[r] + 1, r + 1) /\ q \in Nat /\ r \in Nat
        /\ open[q] \in Nat /\ open[r] \in Nat
    BY <1>2
  <2> HIDE DEF open, P, Q
  <2>2. open[q] + 1 < open[r] + 1 /\ open[r] + 1 < q + 1
    BY <2>1
  <2>3. r + 1 < q + 1
    BY <2>1, <2>2, LoopsNest
  <2>4. QED
    BY <2>1, <2>3
<1>7. open \in [Q -> P] /\ \A q \in Q : open[q] < q
  BY <1>2
<1> HIDE DEF open
<1>8. ASSUME NEW l, NEW e, LoopPair(l, e) PROVE Meaning!EndloopOf(l - 1) = e - 1
  <2>1. e - 1 \in Q /\ open[e - 1] = l - 1
    BY <1>3, <1>8
  <2>2. Meaning!Closing(open[e - 1], "loop", "endloop") = e - 1
    BY <1>4, <1>5, <1>6, <1>7, <2>1, ClosedAt
  <2>3. QED
    BY <2>1, <2>2 DEF Meaning!EndloopOf
<1>9. QED
  BY <1>8

LEMMA ManualIfs ==
  ASSUME SnakeInv, phase # "build"
  PROVE  \A i, f : IfPair(i, f) => Meaning!EndifOf(i - 1) = f - 1
<1> DEFINE P == LinesOf("if")
           Q == LinesOf("endif")
           If_(f) == CHOOSE i : IfPair(i, f)
           open == [q \in Q |-> If_(q + 1) - 1]
<1>1. \A i \in DOMAIN pieces : i \in Nat
  BY Running
<1>2. ASSUME NEW q \in Q
      PROVE  /\ open[q] \in P /\ open[q] \in Nat /\ q \in Nat /\ open[q] < q
             /\ IfPair(open[q] + 1, q + 1)
  <2> DEFINE i == If_(q + 1)
  <2>1. q \in Nat /\ q + 1 \in DOMAIN pieces /\ Type(q + 1) = "endif"
    BY PieceLines
  <2>2. IfPair(i, q + 1)
    BY <2>1 DEF SnakeInv, PairInv
  <2>3. open[q] = i - 1
    OBVIOUS
  <2> HIDE DEF i, open
  <2>4. i \in DOMAIN pieces /\ Type(i) = "if" /\ i < q + 1
    BY <2>2, Running DEF IfPair
  <2>5. i - 1 \in LinesOf("if") /\ (i - 1) + 1 = i /\ i - 1 \in Nat
    BY <2>4, PieceLines DEF Types
  <2>6. QED
    BY <2>1, <2>2, <2>3, <2>4, <2>5
<1>3. ASSUME NEW i, NEW f, IfPair(i, f)
      PROVE  /\ i - 1 \in P /\ f - 1 \in Q /\ open[f - 1] = i - 1
             /\ (i - 1) + 1 = i /\ (f - 1) + 1 = f
  <2>1. i \in DOMAIN pieces /\ Type(i) = "if" /\ f \in DOMAIN pieces /\ Type(f) = "endif"
    BY <1>3 DEF IfPair
  <2>2. i - 1 \in P /\ f - 1 \in Q /\ (i - 1) + 1 = i /\ (f - 1) + 1 = f
    BY <2>1, PieceLines DEF Types
  <2>3. IfPair(If_(f), f)
    BY <1>3
  <2>4. If_(f) = i
    <3> HIDE DEF If_
    <3>1. QED
      BY <1>3, <2>3 DEF SnakeInv, PairInv, IfPair
  <2> HIDE DEF P, Q, If_
  <2>5. QED
    BY <2>2, <2>4
<1>4. ASSUME NEW p \in P PROVE \E q \in Q : open[q] = p
  <2>1. p \in Nat /\ p + 1 \in DOMAIN pieces /\ Type(p + 1) = "if" /\ (p + 1) - 1 = p
    BY PieceLines
  <2>2. PICK f \in DOMAIN pieces : IfPair(p + 1, f)
    BY <2>1, Running DEF SnakeInv, PairInv
  <2> HIDE DEF P, Q, open
  <2>3. QED
    BY <1>3, <2>1, <2>2
<1>5. \A q, r \in Q : open[q] = open[r] => q = r
  <2> SUFFICES ASSUME NEW q \in Q, NEW r \in Q, open[q] = open[r] PROVE q = r
    OBVIOUS
  <2>1. IfPair(open[q] + 1, q + 1) /\ IfPair(open[q] + 1, r + 1) /\ q \in Nat /\ r \in Nat
    BY <1>2
  <2>2. q + 1 = r + 1
    BY <2>1 DEF IfPair
  <2>3. QED
    BY <2>1, <2>2
<1>6. \A q, r \in Q : open[q] < open[r] /\ open[r] < q => r < q
  <2> SUFFICES ASSUME NEW q \in Q, NEW r \in Q, open[q] < open[r], open[r] < q PROVE r < q
    OBVIOUS
  <2>1. /\ IfPair(open[q] + 1, q + 1) /\ IfPair(open[r] + 1, r + 1) /\ q \in Nat /\ r \in Nat
        /\ open[q] \in Nat /\ open[r] \in Nat
    BY <1>2
  <2> HIDE DEF open, P, Q
  <2>2. open[q] + 1 < open[r] + 1 /\ open[r] + 1 < q + 1
    BY <2>1
  <2>3. r + 1 < q + 1
    BY <2>1, <2>2 DEF SnakeInv, NestInv, Block, IfPair
  <2>4. QED
    BY <2>1, <2>3
<1>7. open \in [Q -> P] /\ \A q \in Q : open[q] < q
  BY <1>2
<1> HIDE DEF open
<1>8. ASSUME NEW i, NEW f, IfPair(i, f) PROVE Meaning!EndifOf(i - 1) = f - 1
  <2>1. f - 1 \in Q /\ open[f - 1] = i - 1
    BY <1>3, <1>8
  <2>2. Meaning!Closing(open[f - 1], "if", "endif") = f - 1
    BY <1>4, <1>5, <1>6, <1>7, <2>1, ClosedAt
  <2>3. QED
    BY <2>1, <2>2 DEF Meaning!EndifOf
<1>9. QED
  BY <1>8

LEMMA ManualTypes ==
  ASSUME SnakeInv, phase # "build"
  PROVE  /\ \A i \in DOMAIN pieces : \A type \in Types : Meaning!IsType(i - 1, type) <=> Type(i) = type
         /\ \A l : \A type \in Types : Meaning!IsType(l, type) =>
              l \in DOMAIN lines /\ l \in Nat /\ l + 1 \in DOMAIN pieces /\ Type(l + 1) = type /\ (l + 1) - 1 = l
<1>1. \A l, type : Meaning!IsType(l, type) <=> l \in LinesOf(type)
  BY DEF Meaning!IsType, LinesOf
<1>2. ASSUME NEW i \in DOMAIN pieces, NEW type \in Types
      PROVE  i - 1 \in LinesOf(type) <=> Type(i) = type
  <2>1. i \in Nat
    BY Running
  <2>2. i - 1 \in LinesOf(type) => Type((i - 1) + 1) = type
    BY PieceLines
  <2>3. (i - 1) + 1 = i
    BY <2>1
  <2>4. QED
    BY <2>2, <2>3, PieceLines
<1>3. \A type : LinesOf(type) \in SUBSET DOMAIN lines
  BY DEF LinesOf
<1>4. QED
  BY <1>1, <1>2, <1>3, PieceLines

LEMMA ManualIfOf ==
  ASSUME SnakeInv, phase # "build"
  PROVE  \A j, e : ElseOf(j, e) => Meaning!IfOf(e - 1) = j - 1
<1> SUFFICES ASSUME NEW j, NEW e, ElseOf(j, e) PROVE Meaning!IfOf(e - 1) = j - 1
  OBVIOUS
<1> DEFINE S == {l \in 1..e - 1 : Meaning!IsType(l, "if") /\ Meaning!EndifOf(l) > e - 1}
<1>1. /\ \A i \in DOMAIN pieces : i \in Nat /\ (Type(i) = "start" <=> i = 1) /\ i # 0
      /\ \A o : ~IsOpen(o)
  BY Running
<1>2. j \in DOMAIN pieces /\ Type(j) = "if" /\ e \in DOMAIN pieces /\ Type(e) = "else" /\ pieces[j].else = e
  BY DEF ElseOf
<1>3. PICK f \in DOMAIN pieces : IfPair(j, f)
  BY <1>1, <1>2 DEF SnakeInv, PairInv
<1>4. e \in Nat /\ f \in Nat /\ j \in Nat /\ 1 < j /\ j < e /\ e < f
  <2>1. pieces[j].end = f
    BY <1>3 DEF IfPair
  <2>2. j < e /\ e < pieces[j].end
    BY <1>1, <1>2 DEF SnakeInv, ElseInv, ElseOf
  <2>3. QED
    BY <1>1, <1>2, <2>1, <2>2
<1>5. j - 1 \in S
  <2>1. Meaning!IsType(j - 1, "if")
    BY <1>2, ManualTypes DEF Types
  <2>2. Meaning!EndifOf(j - 1) = f - 1
    BY <1>3, ManualIfs
  <2>3. QED
    BY <1>4, <2>1, <2>2
<1>6. ASSUME NEW l \in S PROVE j - 1 >= l /\ l \in Nat
  <2>1. l \in Nat /\ l <= e - 1 /\ Meaning!IsType(l, "if") /\ Meaning!EndifOf(l) > e - 1
    BY <1>4
  <2>2. l + 1 \in DOMAIN pieces /\ Type(l + 1) = "if" /\ (l + 1) - 1 = l
    BY <2>1, ManualTypes DEF Types
  <2>3. PICK g \in DOMAIN pieces : IfPair(l + 1, g)
    BY <1>1, <2>2 DEF SnakeInv, PairInv
  <2>4. Meaning!EndifOf(l) = g - 1 /\ g \in Nat
    BY <1>1, <2>2, <2>3, ManualIfs
  <2>5. l + 1 < e /\ ~(g < e)
    BY <1>2, <1>4, <2>1, <2>2, <2>4
  <2>6. ~(j < l + 1)
    BY <1>2, <2>2, <2>3, <2>5 DEF SnakeInv, NestInv, Block
  <2>7. QED
    BY <1>4, <2>1, <2>6
<1>7. Meaning!IfOf(e - 1) = Max(S)
  BY SameMeaning DEF Meaning!IfOf
<1> HIDE DEF S
<1>8. \A x \in S : (\A y \in S : x >= y) => x = j - 1
  BY <1>4, <1>5, <1>6
<1>9. Max(S) = j - 1
  BY <1>5, <1>6, <1>8 DEF Max
<1>10. QED
  BY <1>7, <1>9

LEMMA ManualAfter ==
  ASSUME SnakeInv, phase # "build", NEW i \in DOMAIN pieces, i # Len(pieces)
  PROVE  Meaning!After(i - 1) = Link(i) - 1
<1>1. /\ Len(pieces) \in Nat /\ DOMAIN pieces = 1..Len(pieces) /\ \A o : ~IsOpen(o)
  BY Running
<1>2. i \in Nat /\ i + 1 \in DOMAIN pieces /\ (i - 1) + 1 = i /\ (i + 1) - 1 = i
  BY <1>1
<1>3. Meaning!IsType((i - 1) + 1, "else") <=> Type(i + 1) = "else"
  <2>1. Meaning!IsType((i + 1) - 1, "else") <=> Type(i + 1) = "else"
    BY <1>2, ManualTypes DEF Types
  <2>2. QED
    BY <1>2, <2>1
<1>4. CASE Type(i + 1) = "else"
  <2>1. PICK j \in DOMAIN pieces : ElseOf(j, i + 1)
    BY <1>2, <1>4 DEF SnakeInv, ElseInv
  <2>2. Link(i) = pieces[j].end
    BY <1>1, <1>4, <2>1 DEF SnakeInv, LinkInv
  <2>3. PICK f \in DOMAIN pieces : IfPair(j, f)
    BY <1>1, <2>1 DEF SnakeInv, PairInv, ElseOf
  <2>4. Meaning!IfOf((i + 1) - 1) = j - 1 /\ Meaning!EndifOf(j - 1) = f - 1
    BY <2>1, <2>3, ManualIfOf, ManualIfs
  <2>5. Meaning!EndifOf(Meaning!IfOf((i - 1) + 1)) = f - 1
    BY <1>2, <2>4
  <2>6. QED
    BY <1>3, <1>4, <2>2, <2>3, <2>5 DEF Meaning!After, IfPair
<1>5. CASE Type(i + 1) # "else"
  <2>1. Link(i) = i + 1
    BY <1>5 DEF SnakeInv, LinkInv
  <2>2. QED
    BY <1>2, <1>3, <1>5, <2>1 DEF Meaning!After
<1>6. QED
  BY <1>4, <1>5

LEMMA ManualLoopOf ==
  ASSUME SnakeInv, phase # "build", NEW l, NEW e, LoopPair(l, e)
  PROVE  Meaning!LoopOf(e - 1) = l - 1
<1>1. \A i \in DOMAIN pieces : i \in Nat /\ (Type(i) = "start" <=> i = 1) /\ i # 0
  BY Running
<1>2. l \in DOMAIN pieces /\ Type(l) = "loop" /\ e \in DOMAIN pieces /\ l < e /\ pieces[e].loopback = l
  BY Running DEF LoopPair
<1>3. l - 1 \in 1..e - 1 /\ Meaning!IsType(l - 1, "loop") /\ Meaning!EndloopOf(l - 1) = e - 1
  <2>1. Meaning!IsType(l - 1, "loop")
    BY <1>2, ManualTypes DEF Types
  <2>2. l \in Nat /\ e \in Nat /\ l # 1 /\ l # 0
    BY <1>1, <1>2
  <2>3. QED
    BY <1>2, <2>1, <2>2, ManualLoops
<1>4. ASSUME NEW x \in 1..e - 1, Meaning!IsType(x, "loop"), Meaning!EndloopOf(x) = e - 1 PROVE x = l - 1
  <2>1. x \in Nat /\ x + 1 \in DOMAIN pieces /\ Type(x + 1) = "loop" /\ (x + 1) - 1 = x
    BY <1>4, ManualTypes DEF Types
  <2>2. PICK d \in DOMAIN pieces : LoopPair(x + 1, d)
    BY <2>1, Running DEF SnakeInv, PairInv
  <2>3. Meaning!EndloopOf((x + 1) - 1) = d - 1
    BY <2>2, ManualLoops
  <2>4. d - 1 = e - 1 /\ d \in Nat /\ e \in Nat
    BY <1>1, <1>2, <1>4, <2>1, <2>3
  <2>5. d = e
    BY <2>4
  <2>6. pieces[d].loopback = x + 1
    BY <2>2 DEF LoopPair
  <2>7. QED
    BY <1>2, <2>1, <2>5, <2>6
<1>5. QED
  BY <1>3, <1>4 DEF Meaning!LoopOf

LEMMA ManualInnermost ==
  ASSUME SnakeInv, OutmostInv, phase # "build", NEW b \in DOMAIN pieces, Type(b) = "breakloop",
         NEW l, NEW e, LoopPair(l, e), l < b, b < e
  PROVE  Meaning!InnermostLoop(b - 1) = l - 1
<1> DEFINE S == {x \in 1..b - 1 : Meaning!IsType(x, "loop") /\ Meaning!EndloopOf(x) > b - 1}
<1>1. \A i \in DOMAIN pieces : i \in Nat /\ (Type(i) = "start" <=> i = 1) /\ i # 0
  BY Running
<1>2. l \in DOMAIN pieces /\ Type(l) = "loop" /\ e \in DOMAIN pieces
  BY Running DEF LoopPair
<1>3. l - 1 \in S
  <2>1. Meaning!IsType(l - 1, "loop")
    BY <1>2, ManualTypes DEF Types
  <2>2. Meaning!EndloopOf(l - 1) = e - 1
    BY ManualLoops
  <2>3. l \in Nat /\ l # 1 /\ l # 0 /\ b \in Nat /\ e \in Nat
    BY <1>1, <1>2
  <2>4. QED
    BY <2>1, <2>2, <2>3
<1>4. ASSUME NEW x \in S PROVE x = l - 1 /\ x \in Nat
  <2>1. Meaning!IsType(x, "loop") /\ Meaning!EndloopOf(x) > b - 1 /\ x \in 1..b - 1
    OBVIOUS
  <2>2. x \in Nat /\ x + 1 \in DOMAIN pieces /\ Type(x + 1) = "loop" /\ (x + 1) - 1 = x
    BY <2>1, ManualTypes DEF Types
  <2>3. PICK d \in DOMAIN pieces : LoopPair(x + 1, d)
    BY <2>2, Running DEF SnakeInv, PairInv
  <2>4. Meaning!EndloopOf((x + 1) - 1) = d - 1 /\ d \in Nat
    BY <1>1, <2>3, ManualLoops
  <2>5. b < d /\ x + 1 < b
    <3>1. b \in Nat /\ x + 1 # b
      BY <1>1, <2>2
    <3>2. QED
      BY <2>1, <2>2, <2>4, <3>1
  <2>6. Encloses(x + 1, b) /\ Encloses(l, b)
    BY <1>2, <2>2, <2>3, <2>5 DEF Encloses
  <2>7. x + 1 = l
    BY <1>2, <2>2, <2>6 DEF OutmostInv
  <2>8. QED
    BY <2>2, <2>7
<1>5. Meaning!InnermostLoop(b - 1) = Max(S)
  BY SameMeaning DEF Meaning!InnermostLoop
<1> HIDE DEF S
<1>6. Max(S) = l - 1
  BY <1>3, <1>4 DEF Max
<1>7. QED
  BY <1>5, <1>6

LEMMA ManualElse ==
  ASSUME SnakeInv, phase # "build", NEW i \in DOMAIN pieces, Type(i) = "if"
  PROVE  Meaning!ElseOf(i - 1) = IF pieces[i].else = 0 THEN {} ELSE {pieces[i].else - 1}
<1>1. /\ \A k \in DOMAIN pieces : k \in Nat
      /\ \A o : ~IsOpen(o)
  BY Running
<1>2. PICK f \in DOMAIN pieces : IfPair(i, f)
  BY <1>1 DEF SnakeInv, PairInv
<1>3. Meaning!EndifOf(i - 1) = f - 1
  BY <1>2, ManualIfs
<1>4. ASSUME NEW x \in Meaning!ElseOf(i - 1) PROVE pieces[i].else # 0 /\ x = pieces[i].else - 1
  <2>1. Meaning!IsType(x, "else") /\ Meaning!IfOf(x) = i - 1
    BY DEF Meaning!ElseOf
  <2>2. x \in Nat /\ x + 1 \in DOMAIN pieces /\ Type(x + 1) = "else" /\ (x + 1) - 1 = x
    BY <2>1, ManualTypes DEF Types
  <2>3. PICK j \in DOMAIN pieces : ElseOf(j, x + 1)
    BY <2>2 DEF SnakeInv, ElseInv
  <2>4. Meaning!IfOf((x + 1) - 1) = j - 1
    BY <2>3, ManualIfOf
  <2>5. j = i
    BY <1>1, <2>1, <2>2, <2>4
  <2>6. pieces[i].else = x + 1
    BY <2>3, <2>5 DEF ElseOf
  <2>7. QED
    BY <2>2, <2>6
<1>5. ASSUME pieces[i].else # 0 PROVE pieces[i].else - 1 \in Meaning!ElseOf(i - 1)
  <2>1. PICK e \in DOMAIN pieces : ElseOf(i, e) /\ i < e /\ e < pieces[i].end
    BY <1>1, <1>5 DEF SnakeInv, ElseInv
  <2>2. pieces[i].else = e /\ Type(e) = "else" /\ pieces[i].end = f
    BY <1>2, <2>1 DEF ElseOf, IfPair
  <2>3. Meaning!IsType(e - 1, "else") /\ Meaning!IfOf(e - 1) = i - 1
    BY <2>1, <2>2, ManualTypes, ManualIfOf DEF Types
  <2>4. e - 1 \in i - 1..f - 1
    BY <1>1, <2>1, <2>2
  <2>5. QED
    BY <1>3, <2>2, <2>3, <2>4 DEF Meaning!ElseOf
<1>6. QED
  BY <1>4, <1>5

----------------------------------------------------------------------------
(* What is left to do of a loop.                                           *)
Open(i, e) == (i < current /\ current <= e) \/ (current = i /\ LoopedBack(e))
Due(i, e) ==
  IF ~Open(i, e) THEN 0 ELSE IF lines[i - 1].msec THEN 1 ELSE pieces[e].total - pieces[e].counter

LeftInv ==
  /\ phase = "build" => \A i : Left(i) = 0
  /\ \A i \in DOMAIN pieces : Type(i) # "loop" => Left(i) = 0
  /\ phase # "build" => \A i, e : LoopPair(i, e) => Left(i) = Due(i, e)

LEMMA LeftIsDue == ASSUME SnakeInv PROVE LeftInv
<1>1. phase = "build" => \A i : Left(i) = 0
  BY DEF Left
<1>2. \A i \in DOMAIN pieces : Type(i) # "loop" => Left(i) = 0
  BY DEF Left, Type
<1>3. ASSUME phase # "build", NEW i, NEW e, LoopPair(i, e) PROVE Left(i) = Due(i, e)
  <2>1. /\ i \in DOMAIN pieces /\ Type(i) = "loop" /\ e \in DOMAIN pieces /\ Type(e) = "endloop"
        /\ pieces[e].loopback = i /\ i # 0
    BY <1>3, Running DEF LoopPair
  <2>2. EndloopOf(i) = e
    <3>1. ASSUME NEW d \in DOMAIN pieces, pieces[d].loopback = i PROVE d = e
      <4>1. Type(d) = "endloop"
        BY <2>1, <3>1 DEF SnakeInv, PairInv
      <4>2. LoopPair(i, d)
        BY <2>1, <3>1, <4>1 DEF LoopPair
      <4>3. QED
        BY <1>3, <2>1, <4>2 DEF SnakeInv, PairInv
    <3>2. QED
      BY <2>1, <3>1 DEF EndloopOf
  <2>3. LoopedBack(e) <=> pieces[e].next = i
    BY <2>1 DEF LoopedBack
  <2>4. QED
    BY <1>3, <2>1, <2>2, <2>3 DEF Left, Due, Open, Type
<1>4. QED
  BY <1>1, <1>2, <1>3 DEF LeftInv

(* The state of the specification of what scripts mean.                    *)
Pos == IF phase = "build" THEN 0 ELSE IF current = 0 THEN Len(lines) + 1 ELSE current - 1
Lefts == [l \in 1..Len(lines) |-> Left(l + 1)]

LEMMA LeftsAre ==
  ASSUME SnakeInv, LeftInv, phase # "build"
  PROVE  /\ \A l \in 1..Len(lines) : l + 1 \in DOMAIN pieces
         /\ \A i, e : LoopPair(i, e) => /\ i - 1 \in 1..Len(lines) /\ (i - 1) + 1 = i
                                        /\ Lefts[i - 1] = Due(i, e)
<1>1. /\ Len(lines) \in Nat /\ DOMAIN pieces = 1..Len(lines) + 2
  BY Running, Script
<1>2. ASSUME NEW i, NEW e, LoopPair(i, e)
      PROVE  i - 1 \in 1..Len(lines) /\ (i - 1) + 1 = i /\ Lefts[i - 1] = Due(i, e)
  <2>1. i \in DOMAIN pieces /\ Type(i) = "loop"
    BY <1>2 DEF LoopPair
  <2>2. i - 1 \in 1..Len(lines) /\ (i - 1) + 1 = i
    BY <2>1, PieceLines, Script DEF Types
  <2>3. Left(i) = Due(i, e)
    BY <1>2 DEF LeftInv
  <2>4. QED
    BY <2>2, <2>3 DEF Lefts
<1>3. QED
  BY <1>1, <1>2

LEMMA SameLeft ==
  ASSUME SnakeInv, LeftInv, LeftInv', Kept, NEW i \in DOMAIN pieces,
         \A e : LoopPair(i, e) => Due(i, e)' = Due(i, e)
  PROVE  Left(i)' = Left(i)
<1>1. DOMAIN pieces' = DOMAIN pieces /\ Type(i)' = Type(i) /\ \A e : LoopPair(i, e)' <=> LoopPair(i, e)
  BY KeptPairs
<1>2. phase # "build" /\ phase' # "build"
  BY DEF Kept
<1>3. CASE Type(i) # "loop"
  BY <1>1, <1>3 DEF LeftInv
<1>4. CASE Type(i) = "loop"
  <2>1. PICK e \in DOMAIN pieces : LoopPair(i, e)
    BY <1>2, <1>4, Running DEF SnakeInv, PairInv
  <2>2. Left(i) = Due(i, e) /\ Left(i)' = Due(i, e)'
    BY <1>1, <1>2, <2>1 DEF LeftInv
  <2>3. QED
    BY <2>1, <2>2
<1>5. QED
  BY <1>3, <1>4

LEMMA SameLefts ==
  ASSUME SnakeInv, LeftInv, LeftInv', Kept,
         \A i, e : LoopPair(i, e) => Due(i, e)' = Due(i, e)
  PROVE  Lefts' = Lefts
<1>1. lines' = lines /\ phase # "build"
  BY DEF Kept
<1>2. \A l \in 1..Len(lines) : Left(l + 1)' = Left(l + 1)
  <2>1. \A i \in DOMAIN pieces : Left(i)' = Left(i)
    BY SameLeft
  <2>2. QED
    BY <1>1, <2>1, LeftsAre
<1>3. QED
  BY <1>1, <1>2 DEF Lefts

LEMMA OneLeft ==
  ASSUME SnakeInv, LeftInv, LeftInv', Kept, NEW k, NEW z, LoopPair(k, z),
         \A i, e : LoopPair(i, e) /\ i # k => Due(i, e)' = Due(i, e)
  PROVE  Lefts' = [Lefts EXCEPT ![k - 1] = Due(k, z)']
<1>1. lines' = lines /\ phase # "build" /\ phase' # "build"
  BY DEF Kept
<1>2. \A i \in DOMAIN pieces : i # k => Left(i)' = Left(i)
  BY SameLeft
<1>3. Left(k)' = Due(k, z)'
  BY <1>1, KeptPairs DEF LeftInv
<1>4. k - 1 \in 1..Len(lines) /\ (k - 1) + 1 = k /\ Len(lines) \in Nat
  BY <1>1, LeftsAre, Script
<1>5. \A l \in 1..Len(lines) : Left(l + 1)' = IF l = k - 1 THEN Due(k, z)' ELSE Left(l + 1)
  <2>1. \A l \in 1..Len(lines) : l + 1 = k <=> l = k - 1
    BY <1>4
  <2>2. QED
    BY <1>1, <1>2, <1>3, <1>4, <2>1, LeftsAre
<1>6. QED
  BY <1>1, <1>5 DEF Lefts

----------------------------------------------------------------------------
(* A link leads neither into a loop nor out of one.                        *)
In(i, l, e) == l < i /\ i <= e

LEMMA LinkStays ==
  ASSUME SnakeInv, phase # "build", NEW i \in DOMAIN pieces, i # Len(pieces),
         NEW l, NEW e, LoopPair(l, e), i # l, i # e
  PROVE  In(i, l, e) <=> In(Link(i), l, e)
<1>1. /\ \A k \in DOMAIN pieces : k \in Nat
      /\ DOMAIN pieces = 1..Len(pieces) /\ Len(pieces) \in Nat /\ \A o : ~IsOpen(o)
      /\ l \in DOMAIN pieces /\ e \in DOMAIN pieces /\ l < e
  BY Running
<1>2. Link(i) \in DOMAIN pieces /\ i < Link(i) /\ (l <= i /\ i < e => Link(i) <= e)
  BY Forward
<1>3. ASSUME i < l, l < Link(i), Link(i) <= e PROVE FALSE
  <2>1. i + 1 \in DOMAIN pieces /\ Link(i) # i + 1
    BY <1>1, <1>2, <1>3
  <2>2. Type(i + 1) = "else"
    BY <2>1 DEF SnakeInv, LinkInv
  <2>3. PICK j \in DOMAIN pieces : ElseOf(j, i + 1)
    BY <2>1, <2>2 DEF SnakeInv, ElseInv
  <2>4. Link(i) = pieces[j].end
    BY <1>1, <2>2, <2>3 DEF SnakeInv, LinkInv
  <2>5. PICK f \in DOMAIN pieces : IfPair(j, f)
    BY <1>1, <2>3 DEF SnakeInv, PairInv, ElseOf
  <2>6. Link(i) = f /\ f # e
    BY <2>4, <2>5 DEF IfPair, LoopPair
  <2>7. j < i + 1
    BY <1>1, <2>3 DEF SnakeInv, ElseInv, ElseOf
  <2>8. j < l /\ l < f
    BY <1>1, <1>3, <2>6, <2>7
  <2>9. e < f
    BY <1>1, <2>5, <2>8 DEF SnakeInv, NestInv, Block
  <2>10. QED
    BY <1>1, <1>3, <2>6, <2>9
<1> DEFINE c == Link(i)
<1>4. c \in Nat /\ i \in Nat /\ l \in Nat /\ e \in Nat
  BY <1>1, <1>2
<1> HIDE DEF c
<1>5. i < c /\ (l <= i /\ i < e => c <= e) /\ ~(i < l /\ l < c /\ c <= e)
  BY <1>2, <1>3 DEF c
<1>6. In(i, l, e) <=> In(c, l, e)
  BY <1>4, <1>5 DEF In
<1>7. QED
  BY <1>6 DEF c

LEMMA SkipStays ==
  ASSUME SnakeInv, phase # "build", NEW i \in DOMAIN pieces, Type(i) = "if",
         NEW l, NEW e, LoopPair(l, e)
  PROVE  In(i, l, e) <=> In(Link(SkipTo(i)), l, e)
<1> DEFINE s == SkipTo(i)
<1>1. /\ \A k \in DOMAIN pieces : k \in Nat
      /\ l \in DOMAIN pieces /\ e \in DOMAIN pieces /\ l < e /\ Type(l) = "loop" /\ Type(e) = "endloop"
      /\ \A o : ~IsOpen(o)
  BY Running DEF LoopPair
<1>2. /\ s \in DOMAIN pieces /\ Type(s) \in {"else", "endif"} /\ i < s /\ s # Len(pieces)
      /\ (l <= i /\ i < e => s < e)
  BY Skips
<1>3. ASSUME i < l, l < s PROVE e < s
  <2>1. PICK f \in DOMAIN pieces : IfPair(i, f)
    BY <1>1 DEF SnakeInv, PairInv
  <2>2. CASE pieces[i].else # 0
    <3>1. ElseOf(i, s)
      BY <2>2 DEF SnakeInv, ElseInv, SkipTo, ElseOf
    <3>2. QED
      BY <1>1, <1>2, <1>3, <3>1 DEF SnakeInv, NestInv, Block
  <2>3. CASE pieces[i].else = 0
    <3>1. s = f
      BY <2>1, <2>3 DEF SkipTo, IfPair
    <3>2. QED
      BY <1>1, <1>3, <2>1, <3>1 DEF SnakeInv, NestInv, Block
  <2>4. QED
    BY <2>2, <2>3
<1> HIDE DEF s
<1>4. i # l /\ i # e /\ s # l /\ s # e
  BY <1>1, <1>2
<1>5. In(i, l, e) <=> In(s, l, e)
  BY <1>1, <1>2, <1>3, <1>4 DEF In
<1>6. In(s, l, e) <=> In(Link(s), l, e)
  BY <1>2, <1>4, LinkStays
<1>7. QED
  BY <1>5, <1>6 DEF s

LEMMA SameDue ==
  ASSUME SnakeInv, Kept, NEW l, NEW e, LoopPair(l, e),
         pieces'[e] = pieces[e],
         In(current, l, e) <=> In(current', l, e),
         current # l, LoopedBack(e) => current' # l
  PROVE  Due(l, e)' = Due(l, e)
<1>1. lines' = lines
  BY DEF Kept
<1>2. LoopedBack(e)' <=> LoopedBack(e)
  BY DEF LoopedBack, Type
<1>3. Open(l, e)' <=> Open(l, e)
  BY <1>2 DEF Open, In
<1>4. QED
  BY <1>1, <1>3 DEF Due

LEMMA KeptAsItIs ==
  ASSUME SnakeInv, phase = "run", RunUnchanged, pieces' = pieces
  PROVE  Kept
BY Running DEF Kept, RunUnchanged

LEMMA RunPlaces ==
  ASSUME SnakeInv, phase = "run", RunUnchanged, current' \in DOMAIN pieces
  PROVE  /\ Pos = current - 1 /\ Pos' = current' - 1 /\ lines' = lines
         /\ current \in DOMAIN pieces
<1>1. current \in DOMAIN pieces
  BY DEF SnakeInv, PlaceInv
<1>2. current # 0 /\ current' # 0 /\ phase' = "run" /\ lines' = lines
  BY <1>1, Running DEF RunUnchanged
<1>3. QED
  BY <1>1, <1>2 DEF Pos

----------------------------------------------------------------------------
(* Step by step, the interpreter does what the manual says.                *)
LEMMA PlainMeans ==
  ASSUME SnakeInv, RegularInv, LeftInv, LeftInv', Plain
  PROVE  Meaning!Next
<1>1. /\ phase = "run" /\ Type(current) \in {"start", "do", "loop", "else", "endif"}
      /\ current \in DOMAIN pieces /\ current # Len(pieces) /\ current' = Link(current)
      /\ pieces' = pieces /\ RunUnchanged
  BY PlainGoes
<1>2. /\ current' \in DOMAIN pieces /\ current < current'
      /\ \A l, e : LoopPair(l, e) /\ l <= current /\ current < e => current' <= e
  BY <1>1, Forward
<1>3. /\ Pos = current - 1 /\ Pos' = current' - 1 /\ lines' = lines
      /\ Pos' = Meaning!After(Pos)
  BY <1>1, <1>2, RunPlaces, ManualAfter
<1>4. Kept
  BY <1>1, KeptAsItIs
<1>5. ASSUME NEW l, NEW e, LoopPair(l, e), l # current PROVE Due(l, e)' = Due(l, e)
  <2>1. /\ e \in DOMAIN pieces /\ Type(e) = "endloop" /\ pieces[e].loopback = l
        /\ \A i \in DOMAIN pieces : i \in Nat
    BY <1>1, <1>5, Running DEF LoopPair
  <2>2. In(current, l, e) <=> In(current', l, e)
    BY <1>1, <1>5, <2>1, LinkStays
  <2>3. LoopedBack(e) => current' # l
    BY <1>1, <1>2, <2>1, Inside
  <2>4. QED
    BY <1>1, <1>4, <1>5, <2>2, <2>3, SameDue
<1>6. \A type \in Types : Meaning!IsType(Pos, type) <=> Type(current) = type
  BY <1>1, <1>3, ManualTypes
<1>7. CASE Type(current) # "loop"
  <2>1. Lefts' = Lefts
    <3>1. \A l, e : LoopPair(l, e) => l # current
      BY <1>7 DEF LoopPair
    <3>2. QED
      BY <1>4, <1>5, <3>1, SameLefts
  <2>2. CASE Type(current) = "start"
    <3>1. Pos = 0
      BY <1>1, <1>3, <2>2, Running
    <3>2. Meaning!Begin
      BY <1>3, <2>1, <3>1 DEF Meaning!Begin, Pos, Lefts
    <3>3. QED
      BY <3>2 DEF Meaning!Next
  <2>3. CASE Type(current) \in {"do", "else", "endif"}
    <3>1. Meaning!IsType(Pos, "do") \/ Meaning!IsType(Pos, "else") \/ Meaning!IsType(Pos, "endif")
      BY <1>6, <2>3 DEF Types
    <3>2. Meaning!Simple
      BY <1>3, <2>1, <3>1 DEF Meaning!Simple, Pos, Lefts
    <3>3. QED
      BY <1>3, <3>2 DEF Meaning!Next
  <2>4. QED
    BY <1>1, <1>7, <2>2, <2>3
<1>8. CASE Type(current) = "loop"
  <2>1. PICK l \in DOMAIN pieces : l = current
    BY <1>1
  <2>2. PICK e \in DOMAIN pieces : /\ LoopPair(l, e) /\ l < e
                                   /\ pieces[e].total = pieces[l].total /\ pieces[e].timed = pieces[l].timed
    <3>1. PICK e \in DOMAIN pieces : LoopPair(l, e)
      BY <1>1, <1>8, <2>1, Running DEF SnakeInv, PairInv
    <3>2. QED
      BY <3>1 DEF SnakeInv, PairInv, LoopPair
  <2> DEFINE line == lines[l - 1]
             full == IF line.msec THEN 1 ELSE line.times
  <2>3. /\ pieces[e].timed = line.msec /\ Type(e) = "endloop" /\ l \in Nat /\ e \in Nat
        /\ ~line.msec => pieces[e].total = line.times /\ line.times > 1
    BY <1>1, <1>8, <2>1, <2>2, Running DEF RegularInv, TimesInv, LoopPair
  <2>4. /\ pieces[e].counter \in Nat /\ pieces[e].total \in Nat
        /\ LoopedBack(e) /\ ~line.msec => 0 < pieces[e].counter /\ pieces[e].counter < pieces[e].total
        /\ ~LoopedBack(e) /\ ~line.msec => pieces[e].counter = 0
    <3>1. pieces[e] \in Pieces
      BY <1>1, Running
    <3>2. ~(e < current)
      BY <2>1, <2>2, <2>3
    <3>3. QED
      BY <1>1, <2>3, <3>1, <3>2 DEF RegularInv, CountInv, Pieces
  <2>5. line.msec \in BOOLEAN /\ line.times \in Nat
    <3>1. line \in Line
      BY <1>1, <1>8, <2>1, PieceLines, Script DEF Types
    <3>2. \A x \in Line : x.msec \in BOOLEAN /\ x.times \in Nat
      BY LineType
    <3> HIDE DEF line
    <3>3. QED
      BY <3>1, <3>2
  <2>6. Lefts[Pos] = Due(l, e)
    BY <1>1, <1>3, <2>1, <2>2, LeftsAre
  <2>7. Due(l, e)' = IF line.msec THEN 1 ELSE pieces[e].total - pieces[e].counter
    <3>1. l < current' /\ current' <= e
      BY <1>2, <2>1, <2>2, <2>3
    <3>2. Open(l, e)'
      BY <3>1 DEF Open
    <3>3. QED
      BY <1>1, <1>3, <3>2 DEF Due
  <2>8. Due(l, e) = IF ~LoopedBack(e) THEN 0 ELSE IF line.msec THEN 1 ELSE pieces[e].total - pieces[e].counter
    <3>1. Open(l, e) <=> LoopedBack(e)
      BY <2>1, <2>3 DEF Open
    <3>2. QED
      BY <3>1 DEF Due
  <2> HIDE DEF line
  <2>9. Lefts' = IF Lefts[Pos] # 0 THEN Lefts ELSE [Lefts EXCEPT ![Pos] = full]
    <3>1. CASE LoopedBack(e)
      <4>1. Due(l, e)' = Due(l, e) /\ Due(l, e) # 0
        BY <2>4, <2>5, <2>7, <2>8, <3>1
      <4>2. \A k, z : LoopPair(k, z) => Due(k, z)' = Due(k, z)
        <5>1. ASSUME NEW k, NEW z, LoopPair(k, z) PROVE Due(k, z)' = Due(k, z)
          <6>1. CASE k = l
            <7>1. z = e
              BY <2>2, <5>1, <6>1 DEF SnakeInv, PairInv, LoopPair
            <7>2. QED
              BY <4>1, <6>1, <7>1
          <6>2. QED
            BY <1>5, <2>1, <5>1, <6>1
        <5>2. QED
          BY <5>1
      <4>3. Lefts' = Lefts
        BY <1>4, <4>2, SameLefts
      <4>4. QED
        BY <2>6, <4>1, <4>3
    <3>2. CASE ~LoopedBack(e)
      <4>1. Due(l, e) = 0 /\ Due(l, e)' = full
        BY <2>3, <2>4, <2>5, <2>7, <2>8, <3>2
      <4>2. \A k, z : LoopPair(k, z) /\ k # l => Due(k, z)' = Due(k, z)
        BY <1>5, <2>1
      <4>3. Lefts' = [Lefts EXCEPT ![l - 1] = Due(l, e)']
        BY <1>4, <2>2, <4>2, OneLeft
      <4>4. QED
        BY <1>3, <2>1, <2>6, <4>1, <4>3
    <3>3. QED
      BY <3>1, <3>2
  <2>10. /\ Meaning!IsType(Pos, "loop") /\ line = lines[Pos]
         /\ ~(lines[Pos].times = 0 /\ ~lines[Pos].msec)
    BY <1>3, <1>6, <1>8, <2>1, <2>3, <2>5 DEF Types, line
  <2>11. Meaning!Loop
    BY <1>3, <2>9, <2>10 DEF Meaning!Loop, Pos, Lefts
  <2>12. QED
    BY <1>3, <2>11 DEF Meaning!Next
<1>9. QED
  BY <1>7, <1>8

(* The branch of an if begins on the line after the else, which is no      *)
(* other else.                                                             *)
LEMMA AfterElse ==
  ASSUME SnakeInv, phase # "build", NEW i, NEW x, ElseOf(i, x)
  PROVE  Link(x) = x + 1 /\ x # Len(pieces)
<1>1. /\ \A k \in DOMAIN pieces : k \in Nat
      /\ DOMAIN pieces = 1..Len(pieces) /\ Len(pieces) \in Nat /\ \A o : ~IsOpen(o)
      /\ \A k \in DOMAIN pieces : Type(k) = "end" <=> k = Len(pieces)
  BY Running
<1>2. x \in DOMAIN pieces /\ Type(x) = "else" /\ i \in DOMAIN pieces /\ pieces[i].else = x
  BY DEF ElseOf
<1>3. x # Len(pieces) /\ x + 1 \in DOMAIN pieces
  BY <1>1, <1>2
<1>4. ASSUME Type(x + 1) = "else" PROVE FALSE
  <2>1. PICK j \in DOMAIN pieces : ElseOf(j, x + 1)
    BY <1>3, <1>4 DEF SnakeInv, ElseInv
  <2>2. PICK f \in DOMAIN pieces : IfPair(i, f)
    BY <1>1, <1>2 DEF SnakeInv, PairInv, ElseOf
  <2>3. PICK g \in DOMAIN pieces : IfPair(j, g)
    BY <1>1, <2>1 DEF SnakeInv, PairInv, ElseOf
  <2>4. x < f /\ x + 1 < g /\ i < x /\ j < x + 1
    <3>1. \A k, e \in DOMAIN pieces : ElseOf(k, e) => k < e /\ e < pieces[k].end
      BY <1>1 DEF SnakeInv, ElseInv, ElseOf
    <3>2. QED
      BY <1>2, <1>3, <2>1, <2>2, <2>3, <3>1 DEF IfPair
  <2>5. j # x /\ j # i
    BY <1>1, <1>2, <2>1 DEF ElseOf
  <2>6. j < i => f < x + 1
    BY <1>1, <1>2, <1>3, <2>1, <2>2, <2>4 DEF SnakeInv, NestInv, Block
  <2>7. i < j => g < x
    BY <1>1, <1>2, <2>1, <2>3, <2>4, <2>5 DEF SnakeInv, NestInv, Block
  <2>8. QED
    BY <1>1, <1>2, <2>4, <2>5, <2>6, <2>7
<1>5. Link(x) = x + 1
  BY <1>2, <1>3, <1>4 DEF SnakeInv, LinkInv
<1>6. QED
  BY <1>3, <1>5

LEMMA IfMeans ==
  ASSUME SnakeInv, LeftInv, LeftInv', If
  PROVE  Meaning!Next
<1>1. /\ phase = "run" /\ Type(current) = "if" /\ current \in DOMAIN pieces /\ current # Len(pieces)
      /\ current' \in {Link(current), Link(SkipTo(current))}
      /\ pieces' = pieces /\ RunUnchanged
  BY IfGoes
<1>2. PICK i \in DOMAIN pieces : i = current
  BY <1>1
<1> DEFINE s == SkipTo(i)
<1>3. /\ s \in DOMAIN pieces /\ i < s /\ s # Len(pieces)
      /\ \A k \in DOMAIN pieces : k \in Nat
  BY <1>1, <1>2, Skips, Running
<1>4. current' \in DOMAIN pieces /\ i < current'
  <2>1. Link(i) \in DOMAIN pieces /\ i < Link(i)
    BY <1>1, <1>2, Forward
  <2>2. Link(s) \in DOMAIN pieces /\ s < Link(s)
    BY <1>1, <1>3, Forward
  <2>3. Link(s) = Link(SkipTo(current))
    BY <1>2
  <2> HIDE DEF s
  <2>4. QED
    BY <1>1, <1>2, <1>3, <2>1, <2>2, <2>3
<1>5. Pos = i - 1 /\ Pos' = current' - 1 /\ lines' = lines
  BY <1>1, <1>2, <1>4, RunPlaces
<1>6. Lefts' = Lefts
  <2>1. Kept
    BY <1>1, KeptAsItIs
  <2>2. ASSUME NEW l, NEW e, LoopPair(l, e) PROVE Due(l, e)' = Due(l, e)
    <3>1. /\ l \in DOMAIN pieces /\ e \in DOMAIN pieces /\ Type(l) = "loop" /\ Type(e) = "endloop"
          /\ pieces[e].loopback = l
      BY <2>2 DEF LoopPair
    <3>2. i # l /\ i # e
      BY <1>1, <1>2, <3>1
    <3>3. In(i, l, e) <=> In(Link(i), l, e)
      BY <1>1, <1>2, <2>2, <3>2, LinkStays
    <3>4. In(i, l, e) <=> In(Link(SkipTo(i)), l, e)
      BY <1>1, <1>2, <2>2, SkipStays
    <3>5. In(current, l, e) <=> In(current', l, e)
      BY <1>1, <1>2, <3>3, <3>4
    <3>6. LoopedBack(e) => current' # l
      BY <1>1, <1>2, <1>3, <1>4, <3>1, Inside
    <3>7. QED
      BY <1>1, <1>2, <2>1, <2>2, <3>2, <3>5, <3>6, SameDue
  <2>3. QED
    BY <2>1, <2>2, SameLefts
<1>7. Meaning!IsType(Pos, "if")
  BY <1>1, <1>2, <1>5, ManualTypes DEF Types
<1>8. Pos' \in {Meaning!After(Pos), IF Meaning!ElseOf(Pos) = {} THEN Meaning!After(Meaning!EndifOf(Pos))
                                   ELSE Meaning!Min(Meaning!ElseOf(Pos)) + 1}
  <2>1. CASE current' = Link(current)
    <3>1. Meaning!After(i - 1) = Link(i) - 1
      BY <1>1, <1>2, ManualAfter
    <3>2. QED
      BY <1>2, <1>5, <2>1, <3>1
  <2>2. CASE current' = Link(SkipTo(current)) /\ pieces[i].else = 0
    <3>1. PICK f \in DOMAIN pieces : IfPair(i, f)
      BY <1>1, <1>2, Running DEF SnakeInv, PairInv
    <3>2. s = f /\ Meaning!EndifOf(i - 1) = f - 1 /\ Meaning!ElseOf(i - 1) = {}
      BY <1>1, <1>2, <2>2, <3>1, ManualIfs, ManualElse DEF SkipTo, IfPair
    <3>3. Meaning!After(f - 1) = Link(f) - 1
      BY <1>1, <1>3, <3>2, ManualAfter
    <3>4. QED
      BY <1>2, <1>5, <2>2, <3>2, <3>3
  <2>3. CASE current' = Link(SkipTo(current)) /\ pieces[i].else # 0
    <3>1. s = pieces[i].else /\ ElseOf(i, s)
      BY <1>1, <1>2, <2>3, Running DEF SnakeInv, ElseInv, SkipTo, ElseOf
    <3>2. Link(s) = s + 1
      BY <1>1, <3>1, AfterElse
    <3> HIDE DEF s
    <3>3. Meaning!ElseOf(i - 1) = {s - 1}
      BY <1>1, <1>2, <2>3, <3>1, ManualElse
    <3>4. Min({s - 1}) = s - 1
      BY <1>3 DEF Min
    <3>5. current' = s + 1
      BY <1>2, <2>3, <3>2 DEF s
    <3>6. Meaning!Min(Meaning!ElseOf(i - 1)) + 1 = s
      BY <1>3, <3>3, <3>4, SameMeaning
    <3>7. Pos' = s
      BY <1>3, <1>5, <3>5
    <3>8. QED
      BY <1>5, <3>3, <3>6, <3>7
  <2>4. QED
    BY <1>1, <2>1, <2>2, <2>3
<1>9. Meaning!If
  BY <1>6, <1>7, <1>8 DEF Meaning!If, Pos, Lefts
<1>10. QED
  BY <1>5, <1>9 DEF Meaning!Next


LEMMA EndloopMeans ==
  ASSUME SnakeInv, RegularInv, LeftInv, LeftInv', Endloop
  PROVE  Meaning!Next
<1>1. /\ phase = "run" /\ current \in DOMAIN pieces /\ Type(current) = "endloop" /\ RunUnchanged
      /\ \A k \in DOMAIN pieces : k \in Nat /\ pieces[k] \in Pieces /\ (Type(k) = "end" <=> k = Len(pieces))
  BY EndloopGoes, Running
<1>2. PICK e \in DOMAIN pieces : e = current
  BY <1>1
<1>3. PICK l \in DOMAIN pieces : /\ LoopPair(l, e) /\ l < e /\ pieces[e].loopback = l /\ Type(l) = "loop"
                                 /\ pieces[e].total = pieces[l].total /\ pieces[e].timed = pieces[l].timed
  BY <1>1, <1>2 DEF SnakeInv, PairInv, LoopPair
<1>4. PICK n \in {Link(e), l}, c \in Nat :
        LET p == pieces[e] IN
        /\ pieces' = [pieces EXCEPT ![e] = [p EXCEPT !.next = n, !.beyond = Link(e), !.counter = c]]
        /\ current' = n
        /\ ~p.timed =>
             \/ p.counter = 0 /\ n = l /\ c = 1
             \/ /\ p.counter > 0 /\ p.counter + 1 < p.total /\ c = p.counter + 1
                /\ n = IF p.beyond = 0 THEN l ELSE p.next
             \/ n = Link(e) /\ c = 0 /\ p.counter > 0 /\ ~(p.counter + 1 < p.total)
  <2>1. \E n \in {Link(current), pieces[current].loopback}, c \in Nat :
          LET p == pieces[current] IN
          /\ pieces' = [pieces EXCEPT ![current] = [p EXCEPT !.next = n, !.beyond = Link(current), !.counter = c]]
          /\ current' = n
          /\ ~p.timed =>
               \/ p.counter = 0 /\ n = p.loopback /\ c = 1
               \/ /\ p.counter > 0 /\ p.counter + 1 < p.total /\ c = p.counter + 1
                  /\ n = IF p.beyond = 0 THEN p.loopback ELSE p.next
               \/ n = Link(current) /\ c = 0 /\ p.counter > 0 /\ ~(p.counter + 1 < p.total)
    BY EndloopGoes
  <2>2. pieces[current] = pieces[e] /\ pieces[e].loopback = l
    BY <1>2, <1>3
  <2>3. QED
    BY <1>2, <2>1, <2>2
<1>5. /\ Kept /\ pieces'[e].counter = c
      /\ \A i \in DOMAIN pieces : i # e => pieces'[i] = pieces[i]
      /\ LoopedBack(e)' <=> n = l
  BY <1>1, <1>2, <1>3, <1>4, Turned
<1>6. /\ Link(e) \in DOMAIN pieces /\ e < Link(e) /\ e # Len(pieces) /\ n \in DOMAIN pieces
      /\ n \in Nat /\ e \in Nat /\ l \in Nat
  <2>1. e # Len(pieces)
    BY <1>1, <1>2
  <2>2. Link(e) \in DOMAIN pieces /\ e < Link(e)
    BY <1>1, <2>1, Forward
  <2>3. QED
    BY <1>1, <1>3, <2>1, <2>2
<1>7. /\ Pos = e - 1 /\ Pos' = n - 1 /\ lines' = lines
      /\ Meaning!After(Pos) = Link(e) - 1
  BY <1>1, <1>2, <1>4, <1>6, RunPlaces, ManualAfter
<1>8. ASSUME NEW k, NEW z, LoopPair(k, z), k # l PROVE Due(k, z)' = Due(k, z)
  <2>1. /\ k \in DOMAIN pieces /\ z \in DOMAIN pieces /\ Type(k) = "loop" /\ pieces[z].loopback = k
        /\ k \in Nat /\ z \in Nat /\ k < z /\ Type(z) = "endloop"
    BY <1>1, <1>8, Running DEF LoopPair
  <2>2. z # e /\ k # e
    BY <1>1, <1>2, <1>3, <1>8, <2>1
  <2>3. In(e, k, z) <=> In(n, k, z)
    <3>1. CASE n = Link(e)
      BY <1>1, <1>6, <1>8, <2>2, <3>1, LinkStays
    <3>2. CASE n = l
      <4>1. l < k /\ k < e => z < e
        BY <1>3, <1>8, LoopsNest
      <4>2. k < l /\ l < z => e < z
        BY <1>3, <1>8, LoopsNest
      <4>3. l # z
        BY <1>3, <2>1
      <4>4. QED
        BY <1>3, <1>6, <1>8, <2>1, <2>2, <3>2, <4>1, <4>2, <4>3 DEF In
    <3>3. QED
      BY <3>1, <3>2
  <2>4. LoopedBack(z) => n # k
    <3>1. LoopedBack(z) => k <= e
      BY <1>1, <1>2, <2>1, Inside
    <3>2. QED
      BY <1>6, <1>8, <2>1, <3>1
  <2>5. QED
    BY <1>2, <1>4, <1>5, <1>8, <2>1, <2>2, <2>3, <2>4, SameDue
<1> DEFINE msec == lines[l - 1].msec
           total == pieces[e].total
           count == pieces[e].counter
<1>9. /\ pieces[e].timed = msec /\ msec \in BOOLEAN /\ total \in Nat /\ count \in Nat
      /\ ~msec => total > 1
      /\ ~msec /\ LoopedBack(e) => count < total /\ pieces[e].next = l /\ pieces[e].beyond # 0
      /\ ~msec /\ ~LoopedBack(e) => count = 0
  <2>1. pieces[e].timed = msec /\ (~msec => total > 1)
    BY <1>3 DEF RegularInv, TimesInv
  <2>2. pieces[e].timed \in BOOLEAN /\ total \in Nat /\ count \in Nat
    <3>1. pieces[e] \in Pieces
      BY <1>1
    <3>2. QED
      BY <3>1 DEF Pieces
  <2>3. LoopedBack(e) => pieces[e].beyond # 0 /\ pieces[e].next = l
    BY <1>1, <1>2, <1>3 DEF SnakeInv, LinkInv, LoopedBack
  <2>4. ~(e < current)
    BY <1>2, <1>6
  <2>5. ~msec => /\ LoopedBack(e) => count < total
                 /\ ~LoopedBack(e) => count = 0
    BY <1>1, <1>2, <2>1, <2>4 DEF RegularInv, CountInv
  <2> HIDE DEF msec, total, count
  <2>6. QED
    BY <2>1, <2>2, <2>3, <2>5
<1>10. Due(l, e) = IF msec THEN 1 ELSE total - count
  <2>1. Open(l, e)
    BY <1>2, <1>3, <1>6 DEF Open
  <2>2. QED
    BY <2>1 DEF Due
<1>11. Due(l, e)' = IF n = l THEN IF msec THEN 1 ELSE total - c ELSE 0
  <2>1. Open(l, e)' <=> n = l
    <3>1. n = l \/ e < n
      BY <1>6
    <3>2. Open(l, e)' <=> (l < n /\ n <= e) \/ (n = l /\ LoopedBack(e)')
      BY <1>4 DEF Open
    <3>3. QED
      BY <1>3, <1>5, <1>6, <3>1, <3>2
  <2>2. pieces'[e].total = total
    BY <1>5 DEF Kept
  <2>3. QED
    BY <1>5, <1>7, <2>1, <2>2 DEF Due, Kept
<1> HIDE DEF msec, total, count
<1>12. /\ Lefts' = [Lefts EXCEPT ![l - 1] = Due(l, e)'] /\ Lefts[l - 1] = Due(l, e)
       /\ l - 1 \in 1..Len(lines)
  <2>1. \A k, z : LoopPair(k, z) /\ k # l => Due(k, z)' = Due(k, z)
    BY <1>8
  <2>2. QED
    BY <1>1, <1>3, <1>5, <2>1, OneLeft, LeftsAre
<1>13. Meaning!IsType(Pos, "endloop") /\ Meaning!LoopOf(Pos) = l - 1
  BY <1>1, <1>2, <1>3, <1>7, ManualTypes, ManualLoopOf DEF Types
<1>14. CASE n = l
  <2>1. Pos' = l - 1
    BY <1>7, <1>14
  <2>2. CASE msec
    <3>1. Lefts' = Lefts
      BY <1>10, <1>11, <1>12, <1>14, <2>2 DEF Lefts
    <3>2. Meaning!Endloop
      BY <1>13, <2>1, <2>2, <3>1 DEF Meaning!Endloop, Pos, Lefts, msec
    <3>3. QED
      BY <1>7, <3>2 DEF Meaning!Next
  <2>3. CASE ~msec
    <3>1. c = count + 1 /\ total - count > 1
      BY <1>3, <1>4, <1>6, <1>9, <1>14, <2>3 DEF count, total
    <3>2. Lefts[l - 1] > 1 /\ Due(l, e)' = Lefts[l - 1] - 1
      BY <1>9, <1>10, <1>11, <1>12, <1>14, <2>3, <3>1
    <3>3. Lefts' = [Lefts EXCEPT ![l - 1] = @ - 1]
      BY <1>12, <3>2 DEF Lefts
    <3>4. Meaning!Endloop
      BY <1>13, <2>1, <2>3, <3>2, <3>3 DEF Meaning!Endloop, Pos, Lefts, msec
    <3>5. QED
      BY <1>7, <3>4 DEF Meaning!Next
  <2>4. QED
    BY <2>2, <2>3
<1>15. CASE n # l
  <2>1. Pos' = Meaning!After(Pos)
    BY <1>7, <1>15
  <2>2. Lefts[l - 1] = 1
    <3>1. ~msec => total - count = 1
      BY <1>3, <1>4, <1>6, <1>9, <1>15 DEF count, total
    <3>2. QED
      BY <1>9, <1>10, <1>12, <3>1
  <2>3. Lefts' = [Lefts EXCEPT ![l - 1] = 0]
    BY <1>11, <1>12, <1>15
  <2>4. Meaning!Endloop
    BY <1>13, <2>1, <2>2, <2>3 DEF Meaning!Endloop, Pos, Lefts
  <2>5. QED
    BY <1>7, <2>4 DEF Meaning!Next
<1>16. QED
  BY <1>14, <1>15

LEMMA BreakloopMeans ==
  ASSUME SnakeInv, RegularInv, LeftInv, LeftInv', Breakloop
  PROVE  Meaning!Next
<1>1. /\ phase = "run" /\ RunUnchanged /\ current \in DOMAIN pieces /\ Type(current) = "breakloop"
      /\ \A k \in DOMAIN pieces : k \in Nat
  BY BreakloopGoes, Running
<1>2. PICK b \in DOMAIN pieces : b = current
  BY <1>1
<1>3. PICK e \in DOMAIN pieces :
        /\ Type(e) = "endloop" /\ b < e /\ e # Len(pieces) /\ current' = Link(e)
        /\ \A l, d : LoopPair(l, d) /\ l <= b /\ b < d => e <= d
        /\ Kept
        /\ \A i \in DOMAIN pieces : i # e => pieces'[i] = pieces[i]
  BY <1>2, BreakloopGoes
<1>4. PICK l, z : LoopPair(l, z) /\ l < b /\ b < z
  BY <1>2, BreakloopGoes
<1>5. z = e /\ \A m : ~Encloses(m, l)
  BY <1>1, <1>2, <1>3, <1>4, LeavesTheLoop DEF RegularInv
<1>6. /\ LoopPair(l, e) /\ l \in DOMAIN pieces /\ Type(l) = "loop" /\ l \in Nat /\ b \in Nat /\ e \in Nat
      /\ Link(e) \in DOMAIN pieces /\ e < Link(e) /\ Link(e) \in Nat
  <2>1. Link(e) \in DOMAIN pieces /\ e < Link(e)
    BY <1>1, <1>3, Forward
  <2>2. QED
    BY <1>1, <1>4, <1>5, <2>1 DEF LoopPair
<1>7. /\ Pos = b - 1 /\ Pos' = Link(e) - 1 /\ lines' = lines
      /\ Meaning!After(e - 1) = Link(e) - 1
  BY <1>1, <1>2, <1>3, <1>6, RunPlaces, ManualAfter
<1>8. ASSUME NEW k, NEW d, LoopPair(k, d), k # l PROVE Due(k, d)' = Due(k, d)
  <2>1. /\ k \in DOMAIN pieces /\ d \in DOMAIN pieces /\ Type(k) = "loop" /\ pieces[d].loopback = k
        /\ k \in Nat /\ d \in Nat /\ k < d /\ Type(d) = "endloop"
    BY <1>1, <1>8, Running DEF LoopPair
  <2>2. d # e /\ k # e /\ k # b /\ d # b
    BY <1>1, <1>2, <1>3, <1>6, <1>8, <2>1 DEF LoopPair
  <2>3. ~In(b, k, d)
    <3>1. SUFFICES ASSUME k < b, b < d PROVE FALSE
      BY <1>6, <2>1, <2>2 DEF In
    <3>2. Encloses(k, b) /\ Encloses(l, b)
      BY <1>3, <1>4, <1>6, <1>8, <2>1, <3>1 DEF Encloses
    <3>3. QED
      BY <1>1, <1>2, <1>6, <1>8, <2>1, <3>2 DEF RegularInv, OutmostInv
  <2>4. ~In(e, k, d)
    <3>1. SUFFICES ASSUME k < e, e < d PROVE FALSE
      BY <1>6, <2>1, <2>2 DEF In
    <3>2. ~(k < b)
      BY <1>3, <1>6, <2>1, <2>3, <3>1 DEF In
    <3>3. l < k
      BY <1>4, <1>6, <2>1, <3>2
    <3>4. d < e
      BY <1>6, <1>8, <3>1, <3>3, LoopsNest
    <3>5. QED
      BY <1>6, <2>1, <3>1, <3>4
  <2>5. ~In(Link(e), k, d)
    BY <1>1, <1>3, <1>8, <2>2, <2>4, LinkStays
  <2>6. LoopedBack(d) => Link(e) # k
    <3>1. LoopedBack(d) => k <= b
      BY <1>1, <1>2, <2>1, Inside
    <3>2. QED
      BY <1>3, <1>6, <2>1, <3>1
  <2>7. QED
    BY <1>2, <1>3, <1>8, <2>1, <2>2, <2>3, <2>5, <2>6, SameDue
<1>9. Due(l, e)' = 0
  <2>1. ~Open(l, e)'
    <3>1. Open(l, e)' <=> (l < current' /\ current' <= e) \/ (current' = l /\ LoopedBack(e)')
      BY DEF Open
    <3>2. QED
      BY <1>3, <1>4, <1>6, <3>1
  <2>2. QED
    BY <2>1 DEF Due
<1>10. Lefts' = [Lefts EXCEPT ![l - 1] = 0]
  <2>1. \A k, d : LoopPair(k, d) /\ k # l => Due(k, d)' = Due(k, d)
    BY <1>8
  <2>2. QED
    BY <1>3, <1>6, <1>9, <2>1, OneLeft
<1>11. /\ Meaning!IsType(Pos, "breakloop") /\ Meaning!InnermostLoop(Pos) = l - 1
       /\ Meaning!EndloopOf(l - 1) = e - 1
  BY <1>1, <1>2, <1>3, <1>4, <1>6, <1>7, ManualTypes, ManualInnermost, ManualLoops DEF Types, RegularInv
<1>12. Meaning!Breakloop
  BY <1>7, <1>10, <1>11 DEF Meaning!Breakloop, Pos, Lefts
<1>13. QED
  BY <1>7, <1>12 DEF Meaning!Next


LEMMA WriteMeans ==
  ASSUME SnakeInv, LeftInv, LeftInv', NEW line \in Line, AddLine(line)
  PROVE  Meaning!Next
<1>1. phase = "build" /\ phase' = "build" /\ lines' = Append(lines, line) /\ lines \in Seq(Line)
  BY SMT DEF AddLine, SnakeInv, TypeOK
<1>2. \A i : Left(i) = 0 /\ Left(i)' = 0
  BY <1>1 DEF LeftInv
<1>3. Lefts' = Append(Lefts, 0)
  <2> DEFINE n == Len(lines)
  <2>1. Len(lines') = n + 1 /\ n \in Nat
    BY <1>1
  <2>2. Lefts = [l \in 1..n |-> 0] /\ Lefts' = [l \in 1..n + 1 |-> 0]
    BY <1>2, <2>1 DEF Lefts
  <2> HIDE DEF n
  <2>3. [l \in 1..n + 1 |-> 0] = Append([l \in 1..n |-> 0], 0)
    <3> DEFINE s == [l \in 1..n |-> 0]
               t == [l \in 1..n + 1 |-> 0]
    <3>1. s \in Seq(Nat) /\ Len(s) = n /\ t \in Seq(Nat) /\ Len(t) = n + 1
      BY <2>1
    <3>2. /\ Append(s, 0) \in Seq(Nat) /\ Len(Append(s, 0)) = n + 1
          /\ \A i \in 1..n + 1 : Append(s, 0)[i] = 0
      BY <2>1, <3>1
    <3>3. \A i \in 1..n + 1 : t[i] = 0
      OBVIOUS
    <3> HIDE DEF s, t
    <3>4. t = Append(s, 0)
      BY <3>1, <3>2, <3>3, SeqEqual
    <3>5. QED
      BY <3>4 DEF s, t
  <2>4. QED
    BY <2>2, <2>3
<1>4. Pos = 0 /\ Pos' = 0
  BY <1>1 DEF Pos
<1>5. Meaning!Write
  BY <1>1, <1>3, <1>4 DEF Meaning!Write, Pos, Lefts
<1>6. QED
  BY <1>5 DEF Meaning!Next

LEMMA FinishMeans ==
  ASSUME SnakeInv, LeftInv, Finish
  PROVE  UNCHANGED <<lines, Pos, Lefts>>
<1>1. phase = "build" /\ phase' = "run" /\ current' = 1 /\ lines' = lines
  BY DEF Finish
<1>2. Pos' = Pos
  BY <1>1 DEF Pos
<1>3. \A l \in 1..Len(lines) : Left(l + 1) = 0 /\ Left(l + 1)' = 0
  <2>1. \A l \in 1..Len(lines) : l + 1 \in Nat /\ l + 1 # 1 /\ ~(l + 1 < 1)
    BY Script
  <2>2. QED
    BY <1>1, <2>1 DEF LeftInv, Left
<1>4. QED
  BY <1>1, <1>2, <1>3 DEF Lefts

LEMMA EndMeans ==
  ASSUME SnakeInv, LeftInv, End
  PROVE  UNCHANGED <<lines, Pos, Lefts>>
<1>1. /\ phase = "run" /\ Type(current) = "end" /\ phase' = "ended" /\ current' = 0 /\ lines' = lines
  BY DEF End, At, Type
<1>2. /\ current = Len(pieces) /\ Len(pieces) = Len(lines) + 2 /\ Len(lines) \in Nat
      /\ \A k \in DOMAIN pieces : k \in Nat /\ k <= Len(pieces)
      /\ \A o : ~IsOpen(o)
  BY <1>1, Running, Script DEF SnakeInv, PlaceInv
<1>3. Pos' = Pos
  BY <1>1, <1>2 DEF Pos
<1>4. ASSUME NEW l \in 1..Len(lines) PROVE Left(l + 1) = 0 /\ Left(l + 1)' = 0
  <2>1. l + 1 \in DOMAIN pieces /\ l + 1 \in Nat /\ l + 1 # 0 /\ ~(l + 1 < 0) /\ l + 1 # current
    BY <1>1, <1>2, LeftsAre
  <2>2. Left(l + 1)' = 0
    BY <1>1, <2>1 DEF Left
  <2>3. Left(l + 1) = 0
    <3>1. CASE Type(l + 1) # "loop"
      BY <2>1, <3>1 DEF LeftInv
    <3>2. CASE Type(l + 1) = "loop"
      <4>1. PICK e \in DOMAIN pieces : LoopPair(l + 1, e)
        BY <1>2, <2>1, <3>2 DEF SnakeInv, PairInv
      <4>2. e # current /\ ~(current <= e)
        BY <1>1, <1>2, <4>1 DEF LoopPair
      <4>3. ~Open(l + 1, e)
        BY <2>1, <4>2 DEF Open
      <4>4. QED
        BY <1>1, <4>1, <4>3 DEF LeftInv, Due
    <3>3. QED
      BY <3>1, <3>2
  <2>4. QED
    BY <2>2, <2>3
<1>5. QED
  BY <1>1, <1>3, <1>4 DEF Lefts

LEMMA CancelMeans ==
  ASSUME SnakeInv, LeftInv, LeftInv', Cancel
  PROVE  UNCHANGED <<lines, Pos, Lefts>>
<1>1. /\ phase = "run" /\ phase' = "ended" /\ current' = current /\ lines' = lines
      /\ pieces' = pieces /\ nesting' = nesting /\ tmout' = tmout
  BY DEF Cancel
<1>2. Kept
  BY <1>1, Running DEF Kept
<1>3. \A i, e : LoopPair(i, e) => Due(i, e)' = Due(i, e)
  BY <1>1 DEF Due, Open, LoopedBack, Type
<1>4. Lefts' = Lefts
  BY <1>2, <1>3, SameLefts
<1>5. QED
  BY <1>1, <1>4 DEF Pos

LEMMA StutterMeans ==
  ASSUME SnakeInv, LeftInv, LeftInv', UNCHANGED vars
  PROVE  UNCHANGED <<lines, Pos, Lefts>>
<1>1. /\ phase' = phase /\ current' = current /\ lines' = lines
      /\ pieces' = pieces /\ nesting' = nesting /\ tmout' = tmout
  BY DEF vars
<1>2. CASE phase = "build"
  BY <1>1, <1>2 DEF LeftInv, Lefts, Pos
<1>3. CASE phase # "build"
  <2>1. Kept
    BY <1>1, <1>3, Running DEF Kept
  <2>2. \A i, e : LoopPair(i, e) => Due(i, e)' = Due(i, e)
    BY <1>1 DEF Due, Open, LoopedBack, Type
  <2>3. Lefts' = Lefts
    BY <2>1, <2>2, SameLefts
  <2>4. QED
    BY <1>1, <2>3 DEF Pos
<1>4. QED
  BY <1>2, <1>3

(* What a regular script does is what the manual says: as it is written,   *)
(* and as it runs, until it ends or is cut short.                          *)
THEOREM MeansWhatTheManualSays == ~AnyScript /\ Spec => ImplementsMeaning
<1>1. Init => Meaning!Init
  <2> SUFFICES ASSUME Init PROVE Meaning!Init
    OBVIOUS
  <2>1. phase = "build" /\ lines = <<>> /\ Len(lines) = 0
    BY DEF Init
  <2>2. Lefts = <<>>
    BY <2>1 DEF Lefts
  <2>3. QED
    BY <2>1, <2>2 DEF Meaning!Init, Lefts
<1>2. SnakeInv /\ RegularInv /\ LeftInv /\ LeftInv' /\ [Next]_vars => [Meaning!Next]_Meaning!vars
  <2> SUFFICES ASSUME SnakeInv, RegularInv, LeftInv, LeftInv', [Next]_vars
               PROVE  [Meaning!Next]_Meaning!vars
    OBVIOUS
  <2>1. UNCHANGED <<lines, Pos, Lefts>> => UNCHANGED Meaning!vars
    BY DEF Meaning!vars, Pos, Lefts
  <2>2. CASE \E line \in Line : AddLine(line)
    BY <2>2, WriteMeans
  <2>3. CASE Finish
    BY <2>1, <2>3, FinishMeans
  <2>4. CASE Plain
    BY <2>4, PlainMeans
  <2>5. CASE Endloop
    BY <2>5, EndloopMeans
  <2>6. CASE Breakloop
    BY <2>6, BreakloopMeans
  <2>7. CASE If
    BY <2>7, IfMeans
  <2>8. CASE End
    BY <2>1, <2>8, EndMeans
  <2>9. CASE Cancel
    BY <2>1, <2>9, CancelMeans
  <2>10. CASE UNCHANGED vars
    BY <2>1, <2>10, StutterMeans
  <2>11. QED
    BY <2>2, <2>3, <2>4, <2>5, <2>6, <2>7, <2>8, <2>9, <2>10 DEF Next, Interpret
<1>3. SnakeInv => LeftInv
  BY LeftIsDue
<1>4. ~AnyScript /\ Spec => [](SnakeInv /\ RegularInv)
  BY RegularSnake
<1>5. QED
  BY <1>1, <1>2, <1>3, <1>4, PTL DEF Spec, ImplementsMeaning, Meaning!Spec

=============================================================================
