------------------------- MODULE ClockEngine_proofs -------------------------
(***************************************************************************)
(* Proofs about the clock engine, for any number of events, any size of    *)
(* the circular buffer and any clock periods: the queues stay consistent,  *)
(* a slot of the buffer holds the events of its cycle, and the engine is   *)
(* only called when it has an event.  Then about the time at which it runs *)
(* its events when its frequency is constant (SharedSpec): no cycle is     *)
(* missed, a domain with events is planned, an event is late by one period *)
(* at most when other domains post events, and exact when they do not.     *)
(***************************************************************************)
EXTENDS ClockEngine, FiniteSetTheorems, SequenceTheorems, WellFoundedInduction, TLAPS

-----------------------------------------------------------------------------
(* Induction and recursion over natural numbers.                            *)

(* A set of natural numbers has a least element.                            *)
LEMMA Least ==
  ASSUME NEW T \in SUBSET Nat, T # {}
  PROVE  \E x \in T : \A y \in T : x <= y
<1> DEFINE R == OpToRel(<, Nat)
<1>1. IsWellFoundedOn(R, Nat)
  BY NatLessThanWellFounded
<1>2. \A x, y \in Nat : <<y, x>> \in R <=> y < x
  BY DEF OpToRel
<1> HIDE DEF R
<1>3. PICK x \in T : \A y \in T : ~(<<y, x>> \in R)
  BY <1>1, WFMin
<1>4. ASSUME NEW y \in T PROVE x <= y
  <2>1. x \in Nat /\ y \in Nat /\ ~(<<y, x>> \in R)
    BY <1>3
  <2>2. ~(y < x)
    BY <1>2, <2>1
  <2> QED BY <2>1, <2>2
<1> QED BY <1>4

(* Induction over the natural numbers, stated on sets.                      *)
LEMMA SetInduction ==
  ASSUME NEW T, 0 \in T, \A n \in Nat : n \in T => n + 1 \in T
  PROVE  Nat \subseteq T
<1> SUFFICES ASSUME Nat \ T # {} PROVE FALSE
  OBVIOUS
<1>1. PICK x \in Nat \ T : \A y \in Nat \ T : x <= y
  <2>1. Nat \ T \in SUBSET Nat
    OBVIOUS
  <2> QED BY <2>1, Least
<1>2. x # 0 /\ x - 1 \in Nat
  BY <1>1
<1>3. x - 1 \in T
  BY <1>1, <1>2
<1>4. (x - 1) + 1 = x
  BY <1>2
<1> QED BY <1>1, <1>2, <1>3, <1>4

(* The function that a recursion over the natural numbers defines, a step    *)
(* being a function g[n].                                                   *)
Iterable(S, a, g) == \E f \in [Nat -> S] : f[0] = a /\ \A n \in Nat : f[n + 1] = g[n][f[n]]

(* There is one.                                                            *)
LEMMA Iteration ==
  ASSUME NEW S, NEW a \in S, NEW g \in [Nat -> [S -> S]]
  PROVE  Iterable(S, a, g)
<1> DEFINE Upto(n) == {h \in [0..n -> S] : h[0] = a /\ \A k \in 0..(n-1) : h[k + 1] = g[k][h[k]]}
           T == {n \in Nat : \E h \in Upto(n) : TRUE}
<1>1. 0 \in T
  <2>1. [k \in 0..0 |-> a] \in Upto(0)
    OBVIOUS
  <2> QED BY <2>1
<1>2. ASSUME NEW n \in Nat, n \in T PROVE n + 1 \in T
  <2>1. PICK h \in Upto(n) : TRUE
    BY <1>2
  <2> DEFINE h2 == [k \in 0..(n + 1) |-> IF k = n + 1 THEN g[n][h[n]] ELSE h[k]]
  <2>2. h \in [0..n -> S] /\ h[0] = a /\ \A k \in 0..(n-1) : h[k + 1] = g[k][h[k]]
    BY <2>1
  <2>3. h[n] \in S /\ g[n] \in [S -> S]
    BY <2>2
  <2>4. h2 \in [0..(n + 1) -> S] /\ h2[0] = a /\ h2[n + 1] = g[n][h[n]]
    BY <2>2, <2>3
  <2>5. \A k \in 0..n : h2[k] = h[k]
    OBVIOUS
  <2>6. ASSUME NEW k \in 0..((n + 1) - 1) PROVE h2[k + 1] = g[k][h2[k]]
    <3>1. CASE k = n
      BY <2>4, <2>5, <3>1
    <3>2. CASE k # n
      <4>1. k \in 0..(n - 1) /\ k \in 0..n /\ k + 1 \in 0..n
        BY <3>2
      <4> QED BY <2>2, <2>5, <4>1
    <3> QED BY <3>1, <3>2
  <2> HIDE DEF h2
  <2>7. h2 \in Upto(n + 1)
    BY <2>4, <2>6
  <2> QED BY <2>7
<1>3. \A n \in Nat : n \in T
  <2> HIDE DEF T
  <2> QED BY <1>1, <1>2, SetInduction
<1> DEFINE H == [n \in Nat |-> CHOOSE h \in Upto(n) : TRUE]
           f == [n \in Nat |-> H[n][n]]
<1>4. \A n \in Nat : H[n] \in Upto(n)
  BY <1>3
<1> HIDE DEF H
<1>5. \A n \in Nat : /\ H[n] \in [0..n -> S] /\ H[n][0] = a
                     /\ \A k \in 0..(n-1) : H[n][k + 1] = g[k][H[n][k]]
  BY <1>4
<1> HIDE DEF Upto, T
<1>6. ASSUME NEW n \in Nat PROVE H[n + 1][n] = H[n][n]
  <2> DEFINE E == {k \in Nat : k <= n => H[n + 1][k] = H[n][k]}
  <2>1. 0 \in E
    BY <1>5
  <2>2. ASSUME NEW k \in Nat, k \in E PROVE k + 1 \in E
    <3>1. CASE k + 1 <= n
      <4>1. k \in 0..(n - 1) /\ k \in 0..((n + 1) - 1) /\ n + 1 \in Nat
        BY <3>1
      <4>2. H[n][k + 1] = g[k][H[n][k]]
        BY <1>5, <4>1
      <4>3. H[n + 1][k + 1] = g[k][H[n + 1][k]]
        BY <1>5, <4>1
      <4>4. H[n + 1][k] = H[n][k]
        BY <2>2, <4>1
      <4> QED BY <4>2, <4>3, <4>4
    <3>2. CASE ~(k + 1 <= n)
      BY <3>2
    <3> QED BY <3>1, <3>2
  <2> HIDE DEF E
  <2>3. n \in E
    BY <2>1, <2>2, SetInduction
  <2> QED BY <2>3 DEF E
<1>7. f \in [Nat -> S]
  <2>1. ASSUME NEW n \in Nat PROVE H[n][n] \in S
    <3>1. n \in 0..n
      OBVIOUS
    <3> QED BY <1>5, <3>1
  <2> QED BY <2>1
<1>8. f[0] = a
  BY <1>5
<1>9. ASSUME NEW n \in Nat PROVE f[n + 1] = g[n][f[n]]
  <2>1. n + 1 \in Nat /\ n \in 0..((n + 1) - 1)
    OBVIOUS
  <2>2. H[n + 1][n + 1] = g[n][H[n + 1][n]]
    BY <1>5, <2>1
  <2> QED BY <1>6, <2>1, <2>2
<1> HIDE DEF f
<1> QED BY <1>7, <1>8, <1>9 DEF Iterable

-----------------------------------------------------------------------------
(* Lists of events.                                                         *)

(* q holds e.                                                               *)
Holds(q, e) == \E i \in 1..Len(q) : q[i] = e

(* q holds nothing twice.                                                   *)
Distinct(q) == \A i, j \in 1..Len(q) : q[i] = q[j] => i = j

(* r is the list q with e at position p.                                    *)
Linking(r, q, p, e) ==
  /\ r \in Seq(Events) /\ Len(r) = Len(q) + 1
  /\ \A i \in 1..(Len(q) + 1) :
       \/ i < p /\ i \in 1..Len(q) /\ r[i] = q[i]
       \/ i = p /\ r[i] = e
       \/ i > p /\ i - 1 \in 1..Len(q) /\ r[i] = q[i - 1]

(* r is the list q without position p.                                      *)
Unlinking(r, q, p) ==
  /\ r \in Seq(Events) /\ Len(r) = Len(q) - 1
  /\ \A i \in 1..Len(r) :
       \/ i < p /\ i \in 1..Len(q) /\ r[i] = q[i]
       \/ i >= p /\ i + 1 \in 1..Len(q) /\ r[i] = q[i + 1]

(* An event is linked in a list that does not hold it.                      *)
LEMMA LinkingOK ==
  ASSUME NEW q \in Seq(Events), NEW e \in Events, NEW p \in 1..(Len(q) + 1), NEW r,
         Linking(r, q, p, e), Distinct(q), ~Holds(q, e)
  PROVE  /\ r \in Seq(Events) /\ Distinct(r) /\ r # <<>>
         /\ \A x \in Events : Holds(r, x) <=> Holds(q, x) \/ x = e
<1>1. /\ r \in Seq(Events) /\ Len(r) = Len(q) + 1 /\ Len(q) \in Nat /\ p \in Int
      /\ \A i \in 1..Len(q) : q[i] # e
  BY DEF Linking, Holds
<1>2. ASSUME NEW i \in 1..Len(r)
      PROVE  /\ i \in Int
             /\ \/ i < p /\ i \in 1..Len(q) /\ r[i] = q[i]
                \/ i = p /\ r[i] = e
                \/ i > p /\ i - 1 \in 1..Len(q) /\ r[i] = q[i - 1]
  <2>1. i \in 1..(Len(q) + 1)
    BY <1>1
  <2> QED BY <2>1 DEF Linking
<1>3. ASSUME NEW i \in 1..Len(r), NEW j \in 1..Len(r), r[i] = r[j]
      PROVE  i = j
  <2>1. \/ i < p /\ i \in 1..Len(q) /\ r[i] = q[i]
        \/ i = p /\ r[i] = e
        \/ i > p /\ i - 1 \in 1..Len(q) /\ r[i] = q[i - 1]
    BY <1>2
  <2>2. \/ j < p /\ j \in 1..Len(q) /\ r[j] = q[j]
        \/ j = p /\ r[j] = e
        \/ j > p /\ j - 1 \in 1..Len(q) /\ r[j] = q[j - 1]
    BY <1>2
  <2>3. CASE i = p \/ j = p
    BY <1>1, <1>3, <2>1, <2>2, <2>3
  <2>4. CASE i < p /\ j < p
    BY <1>1, <1>3, <2>1, <2>2, <2>4 DEF Distinct
  <2>5. CASE i < p /\ j > p
    <3>1. i \in 1..Len(q) /\ j - 1 \in 1..Len(q) /\ q[i] = q[j - 1]
      BY <1>1, <1>3, <2>1, <2>2, <2>5
    <3>2. i = j - 1
      BY <3>1 DEF Distinct
    <3> QED BY <1>1, <2>5, <3>2
  <2>6. CASE i > p /\ j < p
    <3>1. j \in 1..Len(q) /\ i - 1 \in 1..Len(q) /\ q[j] = q[i - 1]
      BY <1>1, <1>3, <2>1, <2>2, <2>6
    <3>2. j = i - 1
      BY <3>1 DEF Distinct
    <3> QED BY <1>1, <2>6, <3>2
  <2>7. CASE i > p /\ j > p
    <3>1. i - 1 \in 1..Len(q) /\ j - 1 \in 1..Len(q) /\ q[i - 1] = q[j - 1]
      BY <1>1, <1>3, <2>1, <2>2, <2>7
    <3>2. i - 1 = j - 1
      BY <3>1 DEF Distinct
    <3> QED BY <1>1, <3>2
  <2> QED BY <1>1, <2>1, <2>2, <2>3, <2>4, <2>5, <2>6, <2>7
<1>4. ASSUME NEW x \in Events, Holds(r, x), x # e PROVE Holds(q, x)
  <2>1. PICK i \in 1..Len(r) : r[i] = x
    BY <1>4 DEF Holds
  <2> QED BY <1>2, <1>4, <2>1 DEF Holds
<1>5. ASSUME NEW x \in Events, Holds(q, x) PROVE Holds(r, x)
  <2>1. PICK i \in 1..Len(q) : q[i] = x
    BY <1>5 DEF Holds
  <2>2. CASE i < p
    <3>1. i \in 1..Len(r) /\ ~(i = p) /\ ~(i > p)
      BY <1>1, <2>2
    <3>2. r[i] = q[i]
      BY <1>2, <3>1
    <3> QED BY <2>1, <3>1, <3>2 DEF Holds
  <2>3. CASE i >= p
    <3>1. i + 1 \in 1..Len(r) /\ ~(i + 1 = p) /\ ~(i + 1 < p) /\ (i + 1) - 1 = i
      BY <1>1, <2>3
    <3>2. r[i + 1] = q[i]
      BY <1>2, <3>1
    <3> QED BY <2>1, <3>1, <3>2 DEF Holds
  <2> QED BY <1>1, <2>2, <2>3
<1>6. Holds(r, e)
  <2>1. p \in 1..Len(r) /\ ~(p < p) /\ ~(p > p)
    BY <1>1
  <2>2. r[p] = e
    BY <1>2, <2>1
  <2> QED BY <2>1, <2>2 DEF Holds
<1>7. Distinct(r)
  BY <1>3 DEF Distinct
<1> QED BY <1>1, <1>4, <1>5, <1>6, <1>7

(* An event is unlinked from a list.                                        *)
LEMMA UnlinkingOK ==
  ASSUME NEW q \in Seq(Events), NEW p \in 1..Len(q), NEW r, Unlinking(r, q, p), Distinct(q)
  PROVE  /\ r \in Seq(Events) /\ Distinct(r)
         /\ \A x \in Events : Holds(r, x) <=> Holds(q, x) /\ x # q[p]
<1>1. r \in Seq(Events) /\ Len(r) = Len(q) - 1 /\ Len(q) \in Nat /\ p \in Int /\ Len(q) > 0
  BY DEF Unlinking
<1>2. ASSUME NEW i \in 1..Len(r)
      PROVE  \/ i < p /\ i \in 1..Len(q) /\ r[i] = q[i]
             \/ i >= p /\ i + 1 \in 1..Len(q) /\ r[i] = q[i + 1]
  BY DEF Unlinking
<1>3. ASSUME NEW i \in 1..Len(r), NEW j \in 1..Len(r), r[i] = r[j]
      PROVE  i = j
  <2>1. \/ i < p /\ i \in 1..Len(q) /\ r[i] = q[i]
        \/ i >= p /\ i + 1 \in 1..Len(q) /\ r[i] = q[i + 1]
    BY <1>2
  <2>2. \/ j < p /\ j \in 1..Len(q) /\ r[j] = q[j]
        \/ j >= p /\ j + 1 \in 1..Len(q) /\ r[j] = q[j + 1]
    BY <1>2
  <2>3. CASE i < p /\ j < p
    BY <1>1, <1>3, <2>1, <2>2, <2>3 DEF Distinct
  <2>4. CASE i < p /\ j >= p
    <3>1. i \in 1..Len(q) /\ j + 1 \in 1..Len(q) /\ q[i] = q[j + 1]
      BY <1>1, <1>3, <2>1, <2>2, <2>4
    <3>2. i = j + 1
      BY <3>1 DEF Distinct
    <3> QED BY <1>1, <2>4, <3>2
  <2>5. CASE i >= p /\ j < p
    <3>1. j \in 1..Len(q) /\ i + 1 \in 1..Len(q) /\ q[j] = q[i + 1]
      BY <1>1, <1>3, <2>1, <2>2, <2>5
    <3>2. j = i + 1
      BY <3>1 DEF Distinct
    <3> QED BY <1>1, <2>5, <3>2
  <2>6. CASE i >= p /\ j >= p
    <3>1. i + 1 \in 1..Len(q) /\ j + 1 \in 1..Len(q) /\ q[i + 1] = q[j + 1]
      BY <1>1, <1>3, <2>1, <2>2, <2>6
    <3>2. i + 1 = j + 1
      BY <3>1 DEF Distinct
    <3> QED BY <1>1, <3>2
  <2> QED BY <1>1, <2>1, <2>2, <2>3, <2>4, <2>5, <2>6
<1>4. ASSUME NEW x \in Events, Holds(r, x) PROVE Holds(q, x) /\ x # q[p]
  <2>1. PICK i \in 1..Len(r) : r[i] = x
    BY <1>4 DEF Holds
  <2>2. \E k \in 1..Len(q) : k # p /\ q[k] = x
    BY <1>1, <1>2, <2>1
  <2> QED BY <2>2 DEF Holds, Distinct
<1>5. ASSUME NEW x \in Events, Holds(q, x), x # q[p] PROVE Holds(r, x)
  <2>1. PICK i \in 1..Len(q) : q[i] = x
    BY <1>5 DEF Holds
  <2>2. CASE i < p
    <3>1. i \in 1..Len(r) /\ ~(i >= p)
      BY <1>1, <2>2
    <3>2. r[i] = q[i]
      BY <1>2, <3>1
    <3> QED BY <2>1, <3>1, <3>2 DEF Holds
  <2>3. CASE i > p
    <3>1. i - 1 \in 1..Len(r) /\ ~(i - 1 < p) /\ (i - 1) + 1 = i
      BY <1>1, <2>3
    <3>2. r[i - 1] = q[i]
      BY <1>2, <3>1
    <3> QED BY <2>1, <3>1, <3>2 DEF Holds
  <2> QED BY <1>1, <1>5, <2>1, <2>2, <2>3
<1>6. Distinct(r)
  BY <1>3 DEF Distinct
<1> QED BY <1>1, <1>4, <1>5, <1>6

(* Pushed at the head.                                                      *)
LEMMA PushOK ==
  ASSUME NEW q \in Seq(Events), NEW e \in Events, Distinct(q), ~Holds(q, e)
  PROVE  /\ <<e>> \o q \in Seq(Events) /\ Distinct(<<e>> \o q)
         /\ \A x \in Events : Holds(<<e>> \o q, x) <=> Holds(q, x) \/ x = e
<1> DEFINE r == <<e>> \o q
<1>1. r \in Seq(Events) /\ Len(r) = Len(q) + 1 /\ Len(q) \in Nat
  OBVIOUS
<1>2. ASSUME NEW i \in 1..(Len(q) + 1)
      PROVE  \/ i = 1 /\ r[i] = e
             \/ i > 1 /\ i - 1 \in 1..Len(q) /\ r[i] = q[i - 1]
  OBVIOUS
<1> HIDE DEF r
<1>3. Linking(r, q, 1, e)
  BY <1>1, <1>2 DEF Linking
<1>4. 1 \in 1..(Len(q) + 1)
  BY <1>1
<1>5. /\ r \in Seq(Events) /\ Distinct(r)
      /\ \A x \in Events : Holds(r, x) <=> Holds(q, x) \/ x = e
  BY <1>3, <1>4, LinkingOK
<1> QED BY <1>5 DEF r

(* Inserted at a position.                                                  *)
LEMMA InsertShape ==
  ASSUME NEW q \in Seq(Events), NEW e \in Events, NEW p \in 1..(Len(q) + 1)
  PROVE  Linking(InsertAt(q, p, e), q, p, e)
<1> DEFINE a == SubSeq(q, 1, p - 1)
           b == SubSeq(q, p, Len(q))
           m == a \o <<e>>
<1>1. /\ a \in Seq(Events) /\ Len(a) = p - 1 /\ Len(q) \in Nat /\ p \in Int
      /\ \A i \in 1..(p - 1) : a[i] = q[i] /\ i \in 1..Len(q)
  OBVIOUS
<1>2. /\ b \in Seq(Events) /\ Len(b) = Len(q) - p + 1
      /\ \A i \in 1..Len(b) : b[i] = q[p + i - 1]
  OBVIOUS
<1> HIDE DEF a, b
<1>3. /\ m \in Seq(Events) /\ Len(m) = p
      /\ \A i \in 1..(p - 1) : m[i] = a[i]
      /\ m[p] = e
  BY <1>1
<1> HIDE DEF m
<1> DEFINE r == m \o b
<1>4. r \in Seq(Events) /\ Len(r) = Len(q) + 1
  <2>1. r \in Seq(Events) /\ Len(r) = Len(m) + Len(b)
    BY <1>2, <1>3, ConcatProperties, ZenonT(30)
  <2> HIDE DEF r
  <2> QED BY <1>1, <1>2, <1>3, <2>1
<1>5. /\ \A i \in 1..p : r[i] = m[i]
      /\ \A i \in (p + 1)..(Len(q) + 1) : r[i] = b[i - p]
  <2>1. \A i \in 1..(Len(m) + Len(b)) : r[i] = IF i <= Len(m) THEN m[i] ELSE b[i - Len(m)]
    BY <1>2, <1>3, ConcatProperties, ZenonT(30)
  <2>2. Len(m) + Len(b) = Len(q) + 1
    BY <1>1, <1>2, <1>3
  <2> HIDE DEF r
  <2>3. ASSUME NEW i \in 1..p PROVE r[i] = m[i]
    <3>1. i \in 1..(Len(m) + Len(b)) /\ i <= Len(m)
      BY <1>1, <1>3, <2>2
    <3> QED BY <2>1, <3>1
  <2>4. ASSUME NEW i \in (p + 1)..(Len(q) + 1) PROVE r[i] = b[i - p]
    <3>1. i \in 1..(Len(m) + Len(b)) /\ ~(i <= Len(m))
      BY <1>1, <1>3, <2>2
    <3> QED BY <1>3, <2>1, <3>1
  <2> QED BY <2>3, <2>4
<1> HIDE DEF r
<1>6. ASSUME NEW i \in 1..(Len(q) + 1)
      PROVE  \/ i < p /\ i \in 1..Len(q) /\ r[i] = q[i]
             \/ i = p /\ r[i] = e
             \/ i > p /\ i - 1 \in 1..Len(q) /\ r[i] = q[i - 1]
  <2>1. CASE i < p
    <3>1. i \in 1..(p - 1) /\ i \in 1..p
      BY <1>1, <2>1
    <3> QED BY <1>1, <1>3, <1>5, <2>1, <3>1
  <2>2. CASE i = p
    <3>1. i \in 1..p
      BY <1>1, <2>2
    <3> QED BY <1>3, <1>5, <2>2, <3>1
  <2>3. CASE i > p
    <3>1. /\ i \in (p + 1)..(Len(q) + 1) /\ i - p \in 1..Len(b) /\ p + (i - p) - 1 = i - 1
          /\ i - 1 \in 1..Len(q)
      BY <1>1, <1>2, <2>3
    <3> QED BY <1>2, <1>5, <2>3, <3>1
  <2> QED BY <1>1, <2>1, <2>2, <2>3
<1> QED BY <1>4, <1>6 DEF InsertAt, Linking, r, m, a, b

(* A list that holds e is unlinked at one position.                         *)
LEMMA RemoveShape ==
  ASSUME NEW q \in Seq(Events), NEW e \in Events, Distinct(q), Holds(q, e)
  PROVE  \E p \in 1..Len(q) : Unlinking(RemoveFirst(q, e), q, p) /\ q[p] = e
<1>1. PICK p \in 1..Len(q) : q[p] = e
  BY DEF Holds
<1>2. {i \in 1..Len(q) : q[i] = e} = {p}
  BY <1>1 DEF Distinct
<1>3. Min({p}) = p
  BY DEF Min
<1>4. SelectInSeq(q, LAMBDA v : v = e) = p
  BY <1>2, <1>3 DEF SelectInSeq
<1> DEFINE a == SubSeq(q, 1, p - 1)
           b == SubSeq(q, p + 1, Len(q))
           r == a \o b
<1>5. RemoveFirst(q, e) = r
  BY <1>1, <1>4 DEF RemoveFirst, RemoveAt
<1>6. /\ a \in Seq(Events) /\ Len(a) = p - 1 /\ Len(q) \in Nat /\ p \in Int
      /\ \A i \in 1..(p - 1) : a[i] = q[i] /\ i \in 1..Len(q)
  OBVIOUS
<1>7. /\ b \in Seq(Events) /\ Len(b) = Len(q) - p
      /\ \A i \in 1..Len(b) : b[i] = q[p + i]
  OBVIOUS
<1> HIDE DEF a, b
<1>8. r \in Seq(Events) /\ Len(r) = Len(q) - 1
  <2>1. r \in Seq(Events) /\ Len(r) = Len(a) + Len(b)
    BY <1>6, <1>7, ConcatProperties, ZenonT(30)
  <2> HIDE DEF r
  <2> QED BY <1>6, <1>7, <2>1
<1>9. /\ \A i \in 1..(p - 1) : r[i] = a[i]
      /\ \A i \in p..(Len(q) - 1) : r[i] = b[i - (p - 1)]
  <2>1. \A i \in 1..(Len(a) + Len(b)) : r[i] = IF i <= Len(a) THEN a[i] ELSE b[i - Len(a)]
    BY <1>6, <1>7, ConcatProperties, ZenonT(30)
  <2>2. Len(a) + Len(b) = Len(q) - 1
    BY <1>6, <1>7
  <2> HIDE DEF r
  <2>3. ASSUME NEW i \in 1..(p - 1) PROVE r[i] = a[i]
    <3>1. i \in 1..(Len(a) + Len(b)) /\ i <= Len(a)
      BY <1>6, <2>2
    <3> QED BY <2>1, <3>1
  <2>4. ASSUME NEW i \in p..(Len(q) - 1) PROVE r[i] = b[i - (p - 1)]
    <3>1. i \in 1..(Len(a) + Len(b)) /\ ~(i <= Len(a))
      BY <1>6, <2>2
    <3> QED BY <1>6, <2>1, <3>1
  <2> QED BY <2>3, <2>4
<1> HIDE DEF r
<1>10. ASSUME NEW i \in 1..Len(r)
       PROVE  \/ i < p /\ i \in 1..Len(q) /\ r[i] = q[i]
              \/ i >= p /\ i + 1 \in 1..Len(q) /\ r[i] = q[i + 1]
  <2>1. CASE i < p
    <3>1. i \in 1..(p - 1)
      BY <1>6, <2>1
    <3> QED BY <1>6, <1>9, <2>1, <3>1
  <2>2. CASE i >= p
    <3>1. /\ i \in p..(Len(q) - 1) /\ i - (p - 1) \in 1..Len(b) /\ p + (i - (p - 1)) = i + 1
          /\ i + 1 \in 1..Len(q)
      BY <1>6, <1>7, <1>8, <2>2
    <3> QED BY <1>7, <1>9, <2>2, <3>1
  <2> QED BY <1>6, <2>1, <2>2
<1>11. Unlinking(r, q, p)
  BY <1>8, <1>10 DEF Unlinking
<1> QED BY <1>1, <1>5, <1>11

(* Removed, wherever it is.                                                 *)
LEMMA RemoveOK ==
  ASSUME NEW q \in Seq(Events), NEW e \in Events, Distinct(q)
  PROVE  /\ RemoveFirst(q, e) \in Seq(Events) /\ Distinct(RemoveFirst(q, e))
         /\ \A x \in Events : Holds(RemoveFirst(q, e), x) <=> Holds(q, x) /\ x # e
<1>1. CASE ~Holds(q, e)
  <2>1. RemoveFirst(q, e) = q
    BY <1>1 DEF RemoveFirst, Holds
  <2> QED BY <1>1, <2>1
<1>2. CASE Holds(q, e)
  <2>1. PICK p \in 1..Len(q) : Unlinking(RemoveFirst(q, e), q, p) /\ q[p] = e
    BY <1>2, RemoveShape
  <2> DEFINE r == RemoveFirst(q, e)
  <2> HIDE DEF r
  <2>2. /\ r \in Seq(Events) /\ Distinct(r)
         /\ \A x \in Events : Holds(r, x) <=> Holds(q, x) /\ x # q[p]
    BY <2>1, UnlinkingOK DEF r
  <2> QED BY <2>1, <2>2 DEF r
<1> QED BY <1>1, <1>2

(* The first event of a list.                                               *)
LEMMA TailOK ==
  ASSUME NEW q \in Seq(Events), q # <<>>, Distinct(q)
  PROVE  /\ Head(q) \in Events /\ Holds(q, Head(q)) /\ Head(q) = q[1] /\ 1 \in 1..Len(q)
         /\ Tail(q) \in Seq(Events) /\ Distinct(Tail(q))
         /\ \A x \in Events : Holds(Tail(q), x) <=> Holds(q, x) /\ x # Head(q)
<1> DEFINE r == Tail(q)
<1>1. /\ r \in Seq(Events) /\ Len(r) = Len(q) - 1 /\ Len(q) \in Nat /\ Len(q) > 0
      /\ \A i \in 1..Len(r) : r[i] = q[i + 1]
      /\ Head(q) = q[1] /\ Head(q) \in Events
  OBVIOUS
<1> HIDE DEF r
<1>2. 1 \in 1..Len(q) /\ \A i \in 1..Len(r) : i + 1 \in 1..Len(q) /\ i >= 1
  BY <1>1
<1>3. Unlinking(r, q, 1)
  BY <1>1, <1>2 DEF Unlinking
<1>4. /\ r \in Seq(Events) /\ Distinct(r)
      /\ \A x \in Events : Holds(r, x) <=> Holds(q, x) /\ x # q[1]
  BY <1>2, <1>3, UnlinkingOK
<1>5. Holds(q, Head(q))
  BY <1>1, <1>2 DEF Holds
<1> QED BY <1>1, <1>2, <1>4, <1>5 DEF r

(* The events behind position k.                                            *)
LEMMA RestOK ==
  ASSUME NEW q \in Seq(Events), NEW k \in 0..Len(q), Distinct(q)
  PROVE  /\ SubSeq(q, k + 1, Len(q)) \in Seq(Events) /\ Distinct(SubSeq(q, k + 1, Len(q)))
         /\ Len(SubSeq(q, k + 1, Len(q))) = Len(q) - k
         /\ \A i \in 1..(Len(q) - k) : SubSeq(q, k + 1, Len(q))[i] = q[k + i] /\ k + i \in 1..Len(q)
         /\ \A x \in Events : Holds(SubSeq(q, k + 1, Len(q)), x) <=>
                                Holds(q, x) /\ ~\E i \in 1..k : q[i] = x
<1> DEFINE r == SubSeq(q, k + 1, Len(q))
<1>1. /\ r \in Seq(Events) /\ Len(r) = Len(q) - k /\ Len(q) \in Nat /\ k \in Nat /\ k <= Len(q)
      /\ \A i \in 1..(Len(q) - k) : r[i] = q[k + i]
  OBVIOUS
<1> HIDE DEF r
<1>2. /\ \A i \in 1..(Len(q) - k) : k + i \in 1..Len(q) /\ i \in Int /\ ~(k + i \in 1..k)
      /\ \A i \in 1..k : i \in 1..Len(q)
  BY <1>1
<1>3. ASSUME NEW i \in 1..Len(r), NEW j \in 1..Len(r), r[i] = r[j]
      PROVE  i = j
  <2>1. q[k + i] = q[k + j] /\ k + i \in 1..Len(q) /\ k + j \in 1..Len(q)
    BY <1>1, <1>2, <1>3
  <2>2. k + i = k + j
    BY <2>1 DEF Distinct
  <2> QED BY <1>1, <1>2, <2>2
<1>4. ASSUME NEW x \in Events, Holds(r, x)
      PROVE  Holds(q, x) /\ ~\E i \in 1..k : q[i] = x
  <2>1. PICK i \in 1..Len(r) : r[i] = x
    BY <1>4 DEF Holds
  <2>2. q[k + i] = x /\ k + i \in 1..Len(q) /\ ~(k + i \in 1..k)
    BY <1>1, <1>2, <2>1
  <2> QED BY <1>2, <2>2 DEF Holds, Distinct
<1>5. ASSUME NEW x \in Events, Holds(q, x), ~\E i \in 1..k : q[i] = x
      PROVE  Holds(r, x)
  <2>1. PICK i \in 1..Len(q) : q[i] = x
    BY <1>5 DEF Holds
  <2>2. i - k \in 1..Len(r) /\ k + (i - k) = i
    BY <1>1, <1>5, <2>1
  <2>3. r[i - k] = x
    BY <1>1, <2>1, <2>2
  <2> QED BY <2>2, <2>3 DEF Holds
<1>6. Distinct(r)
  BY <1>3 DEF Distinct
<1> QED BY <1>1, <1>2, <1>4, <1>5, <1>6 DEF r

-----------------------------------------------------------------------------
(* The two queues.                                                          *)

Buffer == [Slots -> Seq(Events)]

(* An event is linked once while it is flagged, and else not.               *)
Placed(eq, dq, enq) ==
  /\ Distinct(dq) /\ \A i \in Slots : Distinct(eq[i])
  /\ \A i, j \in Slots, e \in Events : Holds(eq[i], e) /\ Holds(eq[j], e) => i = j
  /\ \A i \in Slots, e \in Events : Holds(eq[i], e) => ~Holds(dq, e)
  /\ \A e \in Events : enq[e] <=> Holds(dq, e) \/ \E i \in Slots : Holds(eq[i], e)

(* The events of the buffer, and their number.                              *)
Buffered(eq) == {e \in Events : \E i \in Slots : Holds(eq[i], e)}
Counted(eq, nb) == nb = Cardinality(Buffered(eq))

(* Flags that only differ by the one of e.                                  *)
Flagged(enq2, enq, e, b) ==
  enq2 \in [Events -> BOOLEAN] /\ enq2[e] = b /\ \A x \in Events : x # e => enq2[x] = enq[x]

(* The events that joined the slots.                                        *)
Joined(eq2, eq, i, e) ==
  \A j \in Slots, x \in Events : Holds(eq2[j], x) <=> Holds(eq[j], x) \/ (j = i /\ x = e)

(* e is pushed in slot i.                                                   *)
Pushed(eq2, eq, i, e) == eq2 = [eq EXCEPT ![i] = <<e>> \o @]

(* The slots without e.                                                     *)
Left(eq2, eq, e) ==
  \A j \in Slots, x \in Events : Holds(eq2[j], x) <=> Holds(eq[j], x) /\ x # e

(* A set of events is finite.                                               *)
LEMMA BufferedFinite ==
  ASSUME NEW eq
  PROVE  IsFiniteSet(Buffered(eq)) /\ Cardinality(Buffered(eq)) \in Nat
<1>1. Buffered(eq) \in SUBSET Events
  BY DEF Buffered
<1>2. IsFiniteSet(Buffered(eq))
  BY <1>1, FS_Subset, ClockEngineAssumption
<1> QED BY <1>2, FS_CardinalityType

(* A count of zero is an empty buffer.                                      *)
LEMMA EmptyBuffer ==
  ASSUME NEW eq \in Buffer, NEW nb, Counted(eq, nb)
  PROVE  nb \in Nat /\ (nb = 0 <=> \A i \in Slots, e \in Events : ~Holds(eq[i], e))
<1>1. nb \in Nat /\ (nb = 0 <=> Buffered(eq) = {})
  BY BufferedFinite, FS_EmptySet DEF Counted
<1> QED BY <1>1 DEF Buffered

(* A list that holds nothing is empty.                                      *)
LEMMA EmptyList ==
  ASSUME NEW q \in Seq(Events)
  PROVE  q = <<>> <=> \A e \in Events : ~Holds(q, e)
<1>1. CASE q # <<>>
  <2>1. 1 \in 1..Len(q) /\ q[1] \in Events
    BY <1>1
  <2> QED BY <1>1, <2>1 DEF Holds
<1>2. CASE q = <<>>
  BY <1>2 DEF Holds
<1> QED BY <1>1, <1>2

(* An event joins a slot.                                                   *)
LEMMA JoinSlot ==
  ASSUME NEW eq \in Buffer, NEW dq, NEW enq, NEW nb, NEW e \in Events, NEW i \in Slots,
         Placed(eq, dq, enq), Counted(eq, nb), ~enq[e],
         NEW eq2, Pushed(eq2, eq, i, e),
         NEW enq2, Flagged(enq2, enq, e, TRUE)
  PROVE  eq2 \in Buffer /\ Placed(eq2, dq, enq2) /\ Counted(eq2, nb + 1) /\ Joined(eq2, eq, i, e)
<1>1. eq[i] \in Seq(Events) /\ Distinct(eq[i]) /\ \A j \in Slots : ~Holds(eq[j], e)
  BY DEF Buffer, Placed
<1>2. /\ <<e>> \o eq[i] \in Seq(Events) /\ Distinct(<<e>> \o eq[i])
      /\ \A x \in Events : Holds(<<e>> \o eq[i], x) <=> Holds(eq[i], x) \/ x = e
  BY <1>1, PushOK
<1>3. eq2[i] = <<e>> \o eq[i] /\ \A j \in Slots : j # i => eq2[j] = eq[j]
  BY DEF Buffer, Pushed
<1>4. eq2 \in Buffer
  BY <1>2 DEF Buffer, Pushed
<1>5. ASSUME NEW j \in Slots, NEW x \in Events
      PROVE  Holds(eq2[j], x) <=> Holds(eq[j], x) \/ (j = i /\ x = e)
  <2>1. CASE j = i
    BY <1>2, <1>3, <2>1
  <2>2. CASE j # i
    BY <1>3, <2>2
  <2> QED BY <2>1, <2>2
<1>6. \A j \in Slots : Distinct(eq2[j])
  <2>1. ASSUME NEW j \in Slots PROVE Distinct(eq2[j])
    <3>1. CASE j = i
      BY <1>2, <1>3, <3>1
    <3>2. CASE j # i
      BY <1>3, <3>2 DEF Placed
    <3> QED BY <3>1, <3>2
  <2> QED BY <2>1
<1>7. ~Holds(dq, e)
  BY DEF Placed
<1>8. Placed(eq2, dq, enq2)
  <2>1. ASSUME NEW j \in Slots, NEW k \in Slots, NEW x \in Events, Holds(eq2[j], x), Holds(eq2[k], x)
        PROVE  j = k
    BY <1>1, <1>5, <2>1 DEF Placed
  <2>2. ASSUME NEW j \in Slots, NEW x \in Events, Holds(eq2[j], x) PROVE ~Holds(dq, x)
    BY <1>5, <1>7, <2>2 DEF Placed
  <2>3. ASSUME NEW x \in Events
        PROVE  enq2[x] <=> Holds(dq, x) \/ \E j \in Slots : Holds(eq2[j], x)
    <3>1. CASE x = e
      BY <1>5, <3>1 DEF Flagged
    <3>2. CASE x # e
      <4>1. \A j \in Slots : Holds(eq2[j], x) <=> Holds(eq[j], x)
        BY <1>5, <3>2
      <4>2. enq2[x] = enq[x]
        BY <3>2 DEF Flagged
      <4> QED BY <4>1, <4>2 DEF Placed
    <3> QED BY <3>1, <3>2
  <2> QED BY <1>6, <2>1, <2>2, <2>3 DEF Placed
<1>9. Buffered(eq2) = Buffered(eq) \cup {e} /\ e \notin Buffered(eq)
  BY <1>1, <1>5 DEF Buffered
<1>10. Cardinality(Buffered(eq2)) = Cardinality(Buffered(eq)) + 1
  BY <1>9, BufferedFinite, FS_AddElement
<1> QED BY <1>4, <1>5, <1>8, <1>10 DEF Counted, Joined

(* An event joins the delayed queue.                                        *)
LEMMA JoinDelayed ==
  ASSUME NEW eq \in Buffer, NEW dq \in Seq(Events), NEW enq, NEW e \in Events,
         NEW p \in 1..(Len(dq) + 1), Placed(eq, dq, enq), ~enq[e],
         NEW dq2, Linking(dq2, dq, p, e), NEW enq2, Flagged(enq2, enq, e, TRUE)
  PROVE  dq2 \in Seq(Events) /\ dq2 # <<>> /\ Placed(eq, dq2, enq2)
<1>1. Distinct(dq) /\ ~Holds(dq, e) /\ \A j \in Slots : ~Holds(eq[j], e)
  BY DEF Placed
<1>2. /\ dq2 \in Seq(Events) /\ Distinct(dq2) /\ dq2 # <<>>
      /\ \A x \in Events : Holds(dq2, x) <=> Holds(dq, x) \/ x = e
  BY <1>1, LinkingOK
<1>3. ASSUME NEW j \in Slots, NEW x \in Events, Holds(eq[j], x) PROVE ~Holds(dq2, x)
  BY <1>1, <1>2, <1>3 DEF Placed
<1>4. ASSUME NEW x \in Events
      PROVE  enq2[x] <=> Holds(dq2, x) \/ \E j \in Slots : Holds(eq[j], x)
  <2>1. CASE x = e
    BY <1>2, <2>1 DEF Flagged
  <2>2. CASE x # e
    <3>1. enq2[x] = enq[x] /\ (Holds(dq2, x) <=> Holds(dq, x))
      BY <1>2, <2>2 DEF Flagged
    <3> QED BY <3>1 DEF Placed
  <2> QED BY <2>1, <2>2
<1> QED BY <1>2, <1>3, <1>4 DEF Placed

(* An event leaves the delayed queue.                                       *)
LEMMA LeaveDelayed ==
  ASSUME NEW eq \in Buffer, NEW dq \in Seq(Events), NEW enq, NEW e \in Events,
         Placed(eq, dq, enq), Holds(dq, e),
         NEW dq2, dq2 = RemoveFirst(dq, e), NEW enq2, Flagged(enq2, enq, e, FALSE)
  PROVE  dq2 \in Seq(Events) /\ Placed(eq, dq2, enq2)
<1>1. Distinct(dq) /\ \A j \in Slots : ~Holds(eq[j], e)
  BY DEF Placed
<1>2. /\ dq2 \in Seq(Events) /\ Distinct(dq2)
      /\ \A x \in Events : Holds(dq2, x) <=> Holds(dq, x) /\ x # e
  BY <1>1, RemoveOK
<1>3. ASSUME NEW j \in Slots, NEW x \in Events, Holds(eq[j], x) PROVE ~Holds(dq2, x)
  BY <1>2, <1>3 DEF Placed
<1>4. ASSUME NEW x \in Events
      PROVE  enq2[x] <=> Holds(dq2, x) \/ \E j \in Slots : Holds(eq[j], x)
  <2>1. CASE x = e
    BY <1>1, <1>2, <2>1 DEF Flagged
  <2>2. CASE x # e
    <3>1. enq2[x] = enq[x] /\ (Holds(dq2, x) <=> Holds(dq, x))
      BY <1>2, <2>2 DEF Flagged
    <3> QED BY <3>1 DEF Placed
  <2> QED BY <2>1, <2>2
<1> QED BY <1>2, <1>3, <1>4 DEF Placed

(* An event leaves the slots.                                               *)
LEMMA LeaveSlots ==
  ASSUME NEW eq \in Buffer, NEW dq, NEW enq, NEW nb, NEW e \in Events,
         Placed(eq, dq, enq), Counted(eq, nb), NEW i \in Slots, Holds(eq[i], e),
         NEW eq2 \in Buffer, Left(eq2, eq, e), \A j \in Slots : Distinct(eq2[j]),
         NEW enq2, Flagged(enq2, enq, e, FALSE)
  PROVE  Placed(eq2, dq, enq2) /\ Counted(eq2, nb - 1) /\ nb \in Nat /\ nb > 0
<1>1. ~Holds(dq, e)
  BY DEF Placed
<1>2. ASSUME NEW j \in Slots, NEW k \in Slots, NEW x \in Events, Holds(eq2[j], x), Holds(eq2[k], x)
      PROVE  j = k
  BY <1>2 DEF Placed, Left
<1>3. ASSUME NEW j \in Slots, NEW x \in Events, Holds(eq2[j], x) PROVE ~Holds(dq, x)
  BY <1>3 DEF Placed, Left
<1>4. ASSUME NEW x \in Events
      PROVE  enq2[x] <=> Holds(dq, x) \/ \E j \in Slots : Holds(eq2[j], x)
  <2>1. CASE x = e
    BY <1>1, <2>1 DEF Flagged, Left
  <2>2. CASE x # e
    <3>1. \A j \in Slots : Holds(eq2[j], x) <=> Holds(eq[j], x)
      BY <2>2 DEF Left
    <3>2. enq2[x] = enq[x]
      BY <2>2 DEF Flagged
    <3> QED BY <3>1, <3>2 DEF Placed
  <2> QED BY <2>1, <2>2
<1>5. Placed(eq2, dq, enq2)
  BY <1>2, <1>3, <1>4 DEF Placed
<1>6. Buffered(eq2) = Buffered(eq) \ {e} /\ e \in Buffered(eq)
  BY DEF Buffered, Left
<1>7. Cardinality(Buffered(eq2)) = Cardinality(Buffered(eq)) - 1
  BY <1>6, BufferedFinite, FS_RemoveElement
<1>8. nb \in Nat /\ nb # 0
  BY EmptyBuffer
<1> QED BY <1>5, <1>7, <1>8 DEF Counted

-----------------------------------------------------------------------------
(* The flush of the delayed queue.                                          *)

(* The buffer after each of the k events moved, the j-th to the slot sl[j]. *)
Moves(queue, eq, dq, sl, k) ==
  queue = [j \in 0..k |-> IF j = 0 THEN eq
                          ELSE [queue[j - 1] EXCEPT ![sl[j]] = <<dq[j]>> \o @]]

(* There is such a function.                                                *)
LEMMA MovesExist ==
  ASSUME NEW eq \in Buffer, NEW dq \in Seq(Events), NEW k \in 0..Len(dq), NEW sl \in [1..k -> Slots]
  PROVE  \E queue : Moves(queue, eq, dq, sl, k)
<1> DEFINE Move(n, b) == [b EXCEPT ![sl[n + 1]] = <<dq[n + 1]>> \o @]
           g == [n \in Nat |-> [b \in Buffer |-> IF n + 1 \in 1..k THEN Move(n, b) ELSE b]]
<1>1. ASSUME NEW n \in Nat, NEW b \in Buffer, n + 1 \in 1..k PROVE Move(n, b) \in Buffer
  <2>1. sl[n + 1] \in Slots /\ dq[n + 1] \in Events
    BY <1>1
  <2>2. b[sl[n + 1]] \in Seq(Events)
    BY <2>1 DEF Buffer
  <2>3. <<dq[n + 1]>> \o b[sl[n + 1]] \in Seq(Events)
    BY <2>1, <2>2
  <2> QED BY <2>1, <2>3 DEF Buffer
<1>2. g \in [Nat -> [Buffer -> Buffer]]
  BY <1>1
<1>3. PICK f \in [Nat -> Buffer] : f[0] = eq /\ \A n \in Nat : f[n + 1] = g[n][f[n]]
  <2> HIDE DEF g
  <2>1. Iterable(Buffer, eq, g)
    BY <1>2, Iteration
  <2> QED BY <2>1 DEF Iterable
<1> DEFINE queue == [j \in 0..k |-> f[j]]
<1>4. ASSUME NEW j \in 0..k
      PROVE  queue[j] = IF j = 0 THEN eq ELSE [queue[j - 1] EXCEPT ![sl[j]] = <<dq[j]>> \o @]
  <2>1. CASE j = 0
    BY <1>3, <2>1
  <2>2. CASE j # 0
    <3>1. j - 1 \in Nat /\ (j - 1) + 1 = j /\ j \in 1..k /\ j - 1 \in 0..k /\ f[j - 1] \in Buffer
      BY <1>3, <2>2
    <3>2. f[j] = g[j - 1][f[j - 1]]
      BY <1>3, <3>1
    <3>3. g[j - 1][f[j - 1]] = Move(j - 1, f[j - 1])
      BY <3>1
    <3>4. queue[j] = f[j] /\ queue[j - 1] = f[j - 1]
      BY <3>1
    <3> QED BY <2>2, <3>1, <3>2, <3>3, <3>4
  <2> QED BY <2>1, <2>2
<1> HIDE DEF queue
<1>5. queue = [j \in 0..k |-> IF j = 0 THEN eq
                              ELSE [queue[j - 1] EXCEPT ![sl[j]] = <<dq[j]>> \o @]]
  <2>1. queue = [j \in 0..k |-> queue[j]]
    BY DEF queue
  <2> QED BY <1>4, <2>1
<1> QED BY <1>5 DEF Moves

(* The events moved by the first j moves.                                   *)
MovedTo(b, eq, dq, sl, j) ==
  \A i \in Slots, x \in Events :
    Holds(b[i], x) <=> Holds(eq[i], x) \/ \E m \in 1..j : dq[m] = x /\ sl[m] = i

(* Each move adds one event to one slot.                                    *)
LEMMA MovesAdd ==
  ASSUME NEW eq \in Buffer, NEW dq \in Seq(Events), NEW k \in 0..Len(dq), NEW sl \in [1..k -> Slots],
         NEW enq, Placed(eq, dq, enq), NEW queue, Moves(queue, eq, dq, sl, k)
  PROVE  /\ queue[k] \in Buffer /\ \A i \in Slots : Distinct(queue[k][i])
         /\ MovedTo(queue[k], eq, dq, sl, k)
<1> DEFINE Good(b, j) == /\ b \in Buffer /\ \A i \in Slots : Distinct(b[i])
                         /\ MovedTo(b, eq, dq, sl, j)
           T == {j \in Nat : j <= k => Good(queue[j], j)}
<1>1. k \in Nat /\ \A j \in 0..k : queue[j] = IF j = 0 THEN eq
                                              ELSE [queue[j - 1] EXCEPT ![sl[j]] = <<dq[j]>> \o @]
  <2>1. k \in Nat
    OBVIOUS
  <2>2. \A j \in 0..k : queue[j] = IF j = 0 THEN eq
                                   ELSE [queue[j - 1] EXCEPT ![sl[j]] = <<dq[j]>> \o @]
    BY ZenonT(30) DEF Moves
  <2> QED BY <2>1, <2>2, Zenon
<1>2. 0 \in T
  <2>1. queue[0] = eq
    <3>1. 0 \in 0..k
      BY <1>1
    <3> QED BY <1>1, <3>1
  <2>2. MovedTo(eq, eq, dq, sl, 0)
    BY DEF MovedTo
  <2> QED BY <2>1, <2>2 DEF Placed
<1>3. ASSUME NEW n \in Nat, n \in T PROVE n + 1 \in T
  <2> SUFFICES ASSUME n + 1 <= k PROVE Good(queue[n + 1], n + 1)
    OBVIOUS
  <2> DEFINE b == queue[n]
             e == dq[n + 1]
             s == sl[n + 1]
             b2 == queue[n + 1]
  <2>1. n <= k /\ n + 1 \in 1..k /\ n + 1 \in 0..k /\ n + 1 # 0 /\ (n + 1) - 1 = n /\ n + 1 \in 1..Len(dq)
    BY <1>1
  <2>2. Good(b, n)
    BY <1>3, <2>1
  <2>3. e \in Events /\ s \in Slots
    BY <2>1
  <2>4. b2 = [b EXCEPT ![s] = <<e>> \o @]
    BY <1>1, <2>1
  <2>5. ~Holds(b[s], e)
    <3>1. Holds(dq, e)
      BY <2>1 DEF Holds
    <3>2. ~Holds(eq[s], e)
      BY <2>3, <3>1 DEF Placed
    <3>3. \A m \in 1..n : dq[m] # e
      <4>1. ASSUME NEW m \in 1..n, dq[m] = e PROVE FALSE
        <5>1. m \in 1..Len(dq) /\ m # n + 1
          BY <2>1
        <5> QED BY <2>1, <4>1, <5>1 DEF Placed, Distinct
      <4> QED BY <4>1
    <3> QED BY <2>2, <2>3, <3>2, <3>3 DEF MovedTo
  <2> HIDE DEF b, e, s, b2
  <2>6. b[s] \in Seq(Events) /\ Distinct(b[s])
    BY <2>2, <2>3 DEF Buffer
  <2>7. /\ <<e>> \o b[s] \in Seq(Events) /\ Distinct(<<e>> \o b[s])
        /\ \A x \in Events : Holds(<<e>> \o b[s], x) <=> Holds(b[s], x) \/ x = e
    BY <2>3, <2>5, <2>6, PushOK
  <2>8. b2[s] = <<e>> \o b[s] /\ \A i \in Slots : i # s => b2[i] = b[i]
    BY <2>2, <2>3, <2>4 DEF Buffer
  <2>9. b2 \in Buffer
    BY <2>2, <2>3, <2>4, <2>7 DEF Buffer
  <2>10. \A i \in Slots : Distinct(b2[i])
    BY <2>2, <2>7, <2>8
  <2>11. ASSUME NEW i \in Slots, NEW x \in Events
         PROVE  Holds(b2[i], x) <=> Holds(eq[i], x) \/ \E m \in 1..(n + 1) : dq[m] = x /\ sl[m] = i
    <3>1. Holds(b[i], x) <=> Holds(eq[i], x) \/ \E m \in 1..n : dq[m] = x /\ sl[m] = i
      BY <2>2 DEF MovedTo
    <3>2. Holds(b2[i], x) <=> Holds(b[i], x) \/ (i = s /\ x = e)
      <4>1. CASE i = s
        BY <2>7, <2>8, <4>1
      <4>2. CASE i # s
        BY <2>8, <4>2
      <4> QED BY <4>1, <4>2
    <3>3. (\E m \in 1..(n + 1) : dq[m] = x /\ sl[m] = i) <=>
            (\E m \in 1..n : dq[m] = x /\ sl[m] = i) \/ (dq[n + 1] = x /\ sl[n + 1] = i)
      <4>1. \A m : m \in 1..(n + 1) <=> m \in 1..n \/ m = n + 1
        OBVIOUS
      <4> QED BY <4>1
    <3> QED BY <3>1, <3>2, <3>3 DEF s, e
  <2>12. MovedTo(b2, eq, dq, sl, n + 1)
    BY <2>11 DEF MovedTo
  <2> QED BY <2>9, <2>10, <2>12 DEF b2
<1>4. k \in T
  <2> HIDE DEF T
  <2> QED BY <1>1, <1>2, <1>3, SetInduction
<1> QED BY <1>1, <1>4

(* The first k events of the delayed queue are in the buffer afterwards.    *)
LEMMA FlushQueues ==
  ASSUME NEW eq \in Buffer, NEW dq \in Seq(Events), NEW k \in 0..Len(dq), NEW sl \in [1..k -> Slots],
         NEW enq, NEW nb, Placed(eq, dq, enq), Counted(eq, nb),
         NEW queue, Moves(queue, eq, dq, sl, k)
  PROVE  /\ queue[k] \in Buffer /\ Placed(queue[k], SubSeq(dq, k + 1, Len(dq)), enq)
         /\ Counted(queue[k], nb + k) /\ MovedTo(queue[k], eq, dq, sl, k)
         /\ SubSeq(dq, k + 1, Len(dq)) \in Seq(Events)
<1> DEFINE b == queue[k]
           r == SubSeq(dq, k + 1, Len(dq))
<1>1. b \in Buffer /\ (\A i \in Slots : Distinct(b[i])) /\ MovedTo(b, eq, dq, sl, k)
  BY MovesAdd
<1>2. /\ r \in Seq(Events) /\ Distinct(r)
      /\ \A x \in Events : Holds(r, x) <=> Holds(dq, x) /\ ~\E i \in 1..k : dq[i] = x
  BY RestOK DEF Placed
<1> HIDE DEF b, r
<1>3. k \in Nat /\ k <= Len(dq) /\ \A m \in 1..k : m \in 1..Len(dq) /\ dq[m] \in Events /\ Holds(dq, dq[m])
  BY DEF Holds
<1>4. \A i \in Slots, x \in Events :
        Holds(b[i], x) <=> Holds(eq[i], x) \/ \E m \in 1..k : dq[m] = x /\ sl[m] = i
  BY <1>1 DEF MovedTo
<1>5. ASSUME NEW i \in Slots, NEW j \in Slots, NEW x \in Events, Holds(b[i], x), Holds(b[j], x)
      PROVE  i = j
  <2>1. Holds(eq[i], x) \/ \E m \in 1..k : dq[m] = x /\ sl[m] = i
    BY <1>4, <1>5
  <2>2. Holds(eq[j], x) \/ \E m \in 1..k : dq[m] = x /\ sl[m] = j
    BY <1>4, <1>5
  <2>3. \A m, n \in 1..k : dq[m] = x /\ dq[n] = x => m = n
    BY <1>3 DEF Placed, Distinct
  <2>4. (\E m \in 1..k : dq[m] = x) => Holds(dq, x)
    BY <1>3
  <2>5. Holds(dq, x) => ~Holds(eq[i], x) /\ ~Holds(eq[j], x)
    BY DEF Placed
  <2>6. Holds(eq[i], x) /\ Holds(eq[j], x) => i = j
    BY DEF Placed
  <2> QED BY <2>1, <2>2, <2>3, <2>4, <2>5, <2>6
<1>6. ASSUME NEW i \in Slots, NEW x \in Events, Holds(b[i], x) PROVE ~Holds(r, x)
  <2>1. Holds(eq[i], x) => ~Holds(dq, x)
    BY DEF Placed
  <2> QED BY <1>2, <1>4, <1>6, <2>1
<1>7. ASSUME NEW x \in Events
      PROVE  enq[x] <=> Holds(r, x) \/ \E i \in Slots : Holds(b[i], x)
  <2>1. enq[x] <=> Holds(dq, x) \/ \E i \in Slots : Holds(eq[i], x)
    BY DEF Placed
  <2>2. (\E i \in Slots : Holds(b[i], x)) <=>
          (\E i \in Slots : Holds(eq[i], x)) \/ \E m \in 1..k : dq[m] = x
    <3>1. \A m \in 1..k : sl[m] \in Slots
      OBVIOUS
    <3> QED BY <1>4, <3>1
  <2>3. (\E m \in 1..k : dq[m] = x) => Holds(dq, x)
    BY <1>3
  <2> QED BY <1>2, <2>1, <2>2, <2>3
<1>8. Placed(b, r, enq)
  BY <1>1, <1>2, <1>5, <1>6, <1>7 DEF Placed
<1> DEFINE M == {x \in Events : \E m \in 1..k : dq[m] = x}
<1>9. Buffered(b) = Buffered(eq) \cup M
  <2>1. ASSUME NEW x \in Events
        PROVE  (\E i \in Slots : Holds(b[i], x)) <=>
                 (\E i \in Slots : Holds(eq[i], x)) \/ \E m \in 1..k : dq[m] = x
    <3>1. \A m \in 1..k : sl[m] \in Slots
      OBVIOUS
    <3> QED BY <1>4, <3>1
  <2> QED BY <2>1 DEF Buffered
<1>10. Buffered(eq) \cap M = {}
  <2>1. ASSUME NEW x \in Events, NEW i \in Slots, Holds(eq[i], x), NEW m \in 1..k, dq[m] = x
        PROVE  FALSE
    BY <1>3, <2>1 DEF Placed
  <2> QED BY <2>1 DEF Buffered
<1>11. Cardinality(M) = k /\ IsFiniteSet(M)
  <2> DEFINE f == [m \in 1..k |-> dq[m]]
  <2>1. f \in [1..k -> M]
    BY <1>3
  <2>2. \A m, n \in 1..k : f[m] = f[n] => m = n
    BY <1>3 DEF Placed, Distinct
  <2>3. \A x \in M : \E m \in 1..k : f[m] = x
    OBVIOUS
  <2> HIDE DEF f
  <2>4. f \in Bijection(1..k, M)
    <3>1. f \in Injection(1..k, M)
      BY <2>1, <2>2 DEF Injection, IsInjective
    <3>2. f \in Surjection(1..k, M)
      BY <2>1, <2>3 DEF Surjection
    <3> QED BY <3>1, <3>2 DEF Bijection
  <2>5. ExistsBijection(1..k, M)
    BY <2>4 DEF ExistsBijection
  <2> HIDE DEF M
  <2>6. Cardinality(M) = k
    BY <1>3, <2>5, FS_CountingElements
  <2>7. IsFiniteSet(M)
    BY <1>3, <2>5, FS_NatBijection
  <2> QED BY <2>6, <2>7
<1> HIDE DEF M
<1>12. Cardinality(Buffered(b)) = Cardinality(Buffered(eq)) + k
  <2>1. /\ Cardinality(Buffered(eq) \cup M) =
             Cardinality(Buffered(eq)) + Cardinality(M) - Cardinality(Buffered(eq) \cap M)
    BY <1>11, BufferedFinite, FS_Union
  <2>2. Cardinality(Buffered(eq) \cap M) = 0 /\ Cardinality(Buffered(eq)) \in Nat
    BY <1>10, FS_EmptySet, BufferedFinite
  <2> QED BY <1>3, <1>9, <1>11, <2>1, <2>2
<1> QED BY <1>1, <1>2, <1>8, <1>12 DEF b, r, Counted

-----------------------------------------------------------------------------
(* The cycles of the slots.                                                 *)

(* The slot n cycles ahead holds events of that cycle.                      *)
SlotsOK(eq, cur, cycles, cycle) ==
  \A n \in Slots, e \in Events : Holds(eq[(cur + n) % QueueSize], e) => cycle[e] = cycles + n

(* Only the cycle of e differs.                                             *)
Recycled(cycle2, cycle, e) == \A x \in Events : x # e => cycle2[x] = cycle[x]

(* e is not in the buffer.                                                  *)
Absent(eq, e) == \A j \in Slots : ~Holds(eq[j], e)

(* The slots are walked in a circle.                                        *)
LEMMA Circle ==
  ASSUME NEW cur \in Slots, NEW n \in Slots
  PROVE  /\ (cur + n) % QueueSize \in Slots
         /\ (cur + n) % QueueSize = IF cur + n < QueueSize THEN cur + n ELSE cur + n - QueueSize
<1>1. QueueSize \in Nat /\ QueueSize > 0 /\ cur \in 0..(QueueSize - 1) /\ n \in 0..(QueueSize - 1)
  BY ClockEngineAssumption DEF Slots
<1>2. CASE cur + n < QueueSize
  <2>1. (cur + n) % QueueSize = cur + n
    BY <1>1, <1>2
  <2> QED BY <1>1, <1>2, <2>1 DEF Slots
<1>3. CASE ~(cur + n < QueueSize)
  <2>1. (cur + n) % QueueSize = cur + n - QueueSize
    BY <1>1, <1>3
  <2> QED BY <1>1, <1>3, <2>1 DEF Slots
<1> QED BY <1>2, <1>3

(* No two distances lead to the same slot.                                  *)
LEMMA CircleOnce ==
  ASSUME NEW cur \in Slots, NEW n \in Slots, NEW m \in Slots,
         (cur + n) % QueueSize = (cur + m) % QueueSize
  PROVE  n = m
<1>1. QueueSize \in Nat /\ cur \in 0..(QueueSize - 1) /\ n \in 0..(QueueSize - 1) /\ m \in 0..(QueueSize - 1)
  BY ClockEngineAssumption DEF Slots
<1>2. (cur + n) % QueueSize = IF cur + n < QueueSize THEN cur + n ELSE cur + n - QueueSize
  BY Circle
<1>3. (cur + m) % QueueSize = IF cur + m < QueueSize THEN cur + m ELSE cur + m - QueueSize
  BY Circle
<1> QED BY <1>1, <1>2, <1>3

(* Every slot is some distance ahead.                                       *)
LEMMA CircleFull ==
  ASSUME NEW cur \in Slots, NEW i \in Slots
  PROVE  \E n \in Slots : (cur + n) % QueueSize = i
<1>1. QueueSize \in Nat /\ QueueSize > 0 /\ cur \in 0..(QueueSize - 1) /\ i \in 0..(QueueSize - 1)
  BY ClockEngineAssumption DEF Slots
<1> DEFINE n == IF i >= cur THEN i - cur ELSE i - cur + QueueSize
<1>2. n \in Slots
  BY <1>1 DEF Slots
<1>3. (cur + n) % QueueSize = IF cur + n < QueueSize THEN cur + n ELSE cur + n - QueueSize
  BY <1>2, Circle
<1>4. (cur + n) % QueueSize = i
  BY <1>1, <1>3
<1> QED BY <1>2, <1>4

(* An event is pushed in the slot of its cycle.                             *)
LEMMA JoinCycle ==
  ASSUME NEW eq, NEW eq2, NEW cur \in Slots, NEW cycles, NEW cycle, NEW cycle2, NEW n \in Slots,
         NEW e \in Events, SlotsOK(eq, cur, cycles, cycle), Absent(eq, e),
         Joined(eq2, eq, (cur + n) % QueueSize, e), cycle2[e] = cycles + n,
         Recycled(cycle2, cycle, e)
  PROVE  SlotsOK(eq2, cur, cycles, cycle2)
<1> SUFFICES ASSUME NEW m \in Slots, NEW x \in Events, Holds(eq2[(cur + m) % QueueSize], x)
             PROVE  cycle2[x] = cycles + m
  BY DEF SlotsOK
<1>1. (cur + m) % QueueSize \in Slots
  BY Circle
<1>2. \/ Holds(eq[(cur + m) % QueueSize], x)
      \/ (cur + m) % QueueSize = (cur + n) % QueueSize /\ x = e
  BY <1>1 DEF Joined
<1>3. CASE Holds(eq[(cur + m) % QueueSize], x)
  <2>1. x # e
    BY <1>1, <1>3 DEF Absent
  <2>2. cycle[x] = cycles + m
    BY <1>3 DEF SlotsOK
  <2> QED BY <2>1, <2>2 DEF Recycled
<1>4. CASE (cur + m) % QueueSize = (cur + n) % QueueSize /\ x = e
  <2>1. m = n
    BY <1>4, CircleOnce
  <2> QED BY <1>4, <2>1
<1> QED BY <1>2, <1>3, <1>4

(* The slots with an event less, whose cycle may then change.               *)
LEMMA LeaveCycle ==
  ASSUME NEW eq, NEW eq2, NEW cur \in Slots, NEW cycles, NEW cycle, NEW cycle2, NEW e \in Events,
         SlotsOK(eq, cur, cycles, cycle), Left(eq2, eq, e),
         Recycled(cycle2, cycle, e)
  PROVE  SlotsOK(eq2, cur, cycles, cycle2)
<1> SUFFICES ASSUME NEW m \in Slots, NEW x \in Events, Holds(eq2[(cur + m) % QueueSize], x)
             PROVE  cycle2[x] = cycles + m
  BY DEF SlotsOK
<1>1. (cur + m) % QueueSize \in Slots
  BY Circle
<1>2. Holds(eq[(cur + m) % QueueSize], x) /\ x # e
  BY <1>1 DEF Left
<1>3. cycle[x] = cycles + m
  BY <1>2 DEF SlotsOK
<1> QED BY <1>2, <1>3 DEF Recycled

(* An event that is not in the buffer may change its cycle.                 *)
LEMMA OtherCycle ==
  ASSUME NEW eq, NEW cur \in Slots, NEW cycles, NEW cycle, NEW cycle2, NEW e \in Events,
         SlotsOK(eq, cur, cycles, cycle), Absent(eq, e),
         Recycled(cycle2, cycle, e)
  PROVE  SlotsOK(eq, cur, cycles, cycle2)
<1>1. Left(eq, eq, e)
  BY DEF Left, Absent
<1> QED BY <1>1, LeaveCycle

(* One cycle is over, and the slot of it is empty.                          *)
LEMMA ShiftCycle ==
  ASSUME NEW eq, NEW cur \in Slots, NEW cycles \in Nat, NEW cycle,
         SlotsOK(eq, cur, cycles, cycle), \A e \in Events : ~Holds(eq[cur], e)
  PROVE  (cur + 1) % QueueSize \in Slots /\ SlotsOK(eq, (cur + 1) % QueueSize, cycles + 1, cycle)
<1> DEFINE c == (cur + 1) % QueueSize
<1>1. QueueSize \in Nat /\ QueueSize > 0 /\ cur \in 0..(QueueSize - 1)
  BY ClockEngineAssumption DEF Slots
<1>2. c = (IF cur + 1 < QueueSize THEN cur + 1 ELSE 0) /\ c \in Slots
  <2>1. CASE cur + 1 < QueueSize
    <3>1. (cur + 1) % QueueSize = cur + 1
      BY <1>1, <2>1
    <3> QED BY <1>1, <2>1, <3>1 DEF Slots
  <2>2. CASE ~(cur + 1 < QueueSize)
    <3>1. cur + 1 = QueueSize
      BY <1>1, <2>2
    <3>2. QueueSize % QueueSize = 0
      BY <1>1
    <3> QED BY <1>1, <2>2, <3>1, <3>2 DEF Slots
  <2> QED BY <2>1, <2>2
<1> HIDE DEF c
<1>3. ASSUME NEW n \in Slots, NEW e \in Events, Holds(eq[(c + n) % QueueSize], e)
      PROVE  cycle[e] = cycles + 1 + n
  <2>1. (c + n) % QueueSize = IF c + n < QueueSize THEN c + n ELSE c + n - QueueSize
    BY <1>2, Circle
  <2>2. n \in 0..(QueueSize - 1)
    BY DEF Slots
  <2>3. CASE n = QueueSize - 1
    <3>1. (c + n) % QueueSize = cur
      BY <1>1, <1>2, <2>1, <2>2, <2>3
    <3> QED BY <1>3, <3>1
  <2>4. CASE n # QueueSize - 1
    <3>1. n + 1 \in Slots
      BY <1>1, <2>2, <2>4 DEF Slots
    <3>2. (cur + (n + 1)) % QueueSize = IF cur + (n + 1) < QueueSize THEN cur + (n + 1)
                                        ELSE cur + (n + 1) - QueueSize
      BY <3>1, Circle
    <3>3. (cur + (n + 1)) % QueueSize = (c + n) % QueueSize
      BY <1>1, <1>2, <2>1, <2>2, <2>4, <3>2
    <3>4. cycle[e] = cycles + (n + 1)
      BY <1>3, <3>1, <3>3 DEF SlotsOK
    <3> QED BY <2>2, <3>4
  <2> QED BY <2>3, <2>4
<1>4. SlotsOK(eq, c, cycles + 1, cycle)
  BY <1>3 DEF SlotsOK
<1> QED BY <1>2, <1>4 DEF c

(* The slots sl are the ones of the cycles of the first k delayed events.   *)
SlotsOf(sl, dq, k, cur, cycles, cycle) ==
  \A m \in 1..k : \E n \in Slots : cycle[dq[m]] = cycles + n /\ sl[m] = (cur + n) % QueueSize

(* The delayed events of the window move to the slots of their cycles.      *)
LEMMA FlushCycle ==
  ASSUME NEW eq, NEW b, NEW cur \in Slots, NEW cycles, NEW cycle, NEW dq, NEW sl, NEW k,
         SlotsOK(eq, cur, cycles, cycle), MovedTo(b, eq, dq, sl, k),
         SlotsOf(sl, dq, k, cur, cycles, cycle)
  PROVE  SlotsOK(b, cur, cycles, cycle)
<1> SUFFICES ASSUME NEW m \in Slots, NEW x \in Events, Holds(b[(cur + m) % QueueSize], x)
             PROVE  cycle[x] = cycles + m
  BY DEF SlotsOK
<1>1. (cur + m) % QueueSize \in Slots
  BY Circle
<1>2. \/ Holds(eq[(cur + m) % QueueSize], x)
      \/ \E i \in 1..k : dq[i] = x /\ sl[i] = (cur + m) % QueueSize
  BY <1>1 DEF MovedTo
<1>3. CASE Holds(eq[(cur + m) % QueueSize], x)
  BY <1>3 DEF SlotsOK
<1>4. CASE \E i \in 1..k : dq[i] = x /\ sl[i] = (cur + m) % QueueSize
  <2>1. PICK i \in 1..k : dq[i] = x /\ sl[i] = (cur + m) % QueueSize
    BY <1>4
  <2>2. PICK n \in Slots : cycle[dq[i]] = cycles + n /\ sl[i] = (cur + n) % QueueSize
    BY <2>1 DEF SlotsOf
  <2>3. n = m
    BY <2>1, <2>2, CircleOnce
  <2> QED BY <2>1, <2>2, <2>3
<1> QED BY <1>2, <1>3, <1>4

(* An empty buffer says nothing of the cycles.                              *)
LEMMA EmptyCycle ==
  ASSUME NEW eq, NEW cur \in Slots, NEW cycles, NEW cycle,
         \A i \in Slots, e \in Events : ~Holds(eq[i], e)
  PROVE  SlotsOK(eq, cur, cycles, cycle)
BY Circle DEF SlotsOK

-----------------------------------------------------------------------------
(* States of the engine between two of its functions.                       *)

States ==
  [event_queue : Buffer, delayed_queue : Seq(Events), current_cycle : Slots,
   period : Periods, cycles : Nat, nb_enqueued_to_cycle : Nat, stop_time : Nat,
   must_flush_delayed_queue : BOOLEAN, next_event_time : Int, is_enqueued : BOOLEAN,
   running : BOOLEAN, enqueued : [Events -> BOOLEAN], cycle : [Events -> Nat]]

(* The queues and the count of a state agree with its flags.                *)
Queues(s) ==
  /\ Placed(s.event_queue, s.delayed_queue, s.enqueued)
  /\ Counted(s.event_queue, s.nb_enqueued_to_cycle)

(* The slots of a state hold the events of their cycles.                    *)
Cycles(s) == SlotsOK(s.event_queue, s.current_cycle, s.cycles, s.cycle)

(* A planned engine has an event and does not run.                          *)
Plan(s) == s.is_enqueued => has_events(s) /\ ~s.running

Good(s) == s \in States /\ Queues(s) /\ Cycles(s) /\ Plan(s)

(* The fields that the time engine does not know of.                        *)
SameQueues(t, s) ==
  /\ t.event_queue = s.event_queue /\ t.delayed_queue = s.delayed_queue
  /\ t.current_cycle = s.current_cycle /\ t.nb_enqueued_to_cycle = s.nb_enqueued_to_cycle
  /\ t.enqueued = s.enqueued /\ t.cycle = s.cycle

SameClock(t, s) == t.cycles = s.cycles /\ t.stop_time = s.stop_time

SamePlan(t, s) == t.is_enqueued = s.is_enqueued /\ t.next_event_time = s.next_event_time

SameRun(t, s) == t.running = s.running /\ t.must_flush_delayed_queue = s.must_flush_delayed_queue

(* The client is planned at w, or stays planned before.                     *)
Replanned(t, s, w) ==
  /\ t.is_enqueued
  /\ t.next_event_time = IF s.is_enqueued /\ s.next_event_time <= w THEN s.next_event_time ELSE w

(* The time engine plans a client that does not run.                        *)
LEMMA EnqueueToEngineOK ==
  ASSUME time \in Nat, NEW s \in States, NEW delay \in Int
  PROVE  /\ EnqueueToEngine(s, delay) \in States
         /\ SameQueues(EnqueueToEngine(s, delay), s) /\ SameClock(EnqueueToEngine(s, delay), s)
         /\ SameRun(EnqueueToEngine(s, delay), s) /\ EnqueueToEngine(s, delay).period = s.period
         /\ s.running => EnqueueToEngine(s, delay) = s
         /\ ~s.running => EnqueueToEngine(s, delay).is_enqueued
         /\ ~s.running => Replanned(EnqueueToEngine(s, delay), s, time + delay)
<1> DEFINE t == [s EXCEPT !.is_enqueued = TRUE, !.next_event_time = time + delay]
           u == EnqueueToEngine(s, delay)
<1>1. time + delay \in Int /\ s.next_event_time \in Int
  BY DEF States
<1>2. t \in States
  BY <1>1 DEF States
<1>3. /\ SameQueues(t, s) /\ SameClock(t, s) /\ SameRun(t, s) /\ t.period = s.period
      /\ t.is_enqueued /\ t.next_event_time = time + delay
  BY DEF States, SameQueues, SameClock, SameRun
<1> HIDE DEF t
<1>4. CASE s.running \/ (s.is_enqueued /\ s.next_event_time <= time + delay)
  <2>1. u = s
    BY <1>4 DEF EnqueueToEngine
  <2> QED BY <1>4, <2>1 DEF SameQueues, SameClock, SameRun, Replanned
<1>5. CASE ~(s.running \/ (s.is_enqueued /\ s.next_event_time <= time + delay))
  <2>1. u = t /\ ~s.running
    BY <1>5 DEF EnqueueToEngine, t
  <2> QED BY <1>1, <1>2, <1>3, <1>5, <2>1 DEF Replanned
<1> QED BY <1>4, <1>5

(* A client that does not run leaves the time engine.                       *)
LEMMA DequeueOK ==
  ASSUME NEW s \in States
  PROVE  /\ dequeue_from_engine(s) \in States
         /\ SameQueues(dequeue_from_engine(s), s) /\ SameClock(dequeue_from_engine(s), s)
         /\ SameRun(dequeue_from_engine(s), s) /\ dequeue_from_engine(s).period = s.period
         /\ dequeue_from_engine(s).next_event_time = s.next_event_time
         /\ dequeue_from_engine(s).is_enqueued => s.running /\ s.is_enqueued
BY DEF dequeue_from_engine, States, SameQueues, SameClock, SameRun

(* The number of periods since the engine stopped, rounded up.              *)
LEMMA EdgesOK ==
  ASSUME NEW diff \in Nat, diff > 0, NEW p \in Nat, p # 0
  PROVE  /\ (diff + p - 1) \div p \in Nat /\ ((diff + p - 1) \div p) * p \in Nat
         /\ diff <= ((diff + p - 1) \div p) * p /\ ((diff + p - 1) \div p) * p < diff + p
<1> DEFINE x == diff + p - 1
           n == x \div p
<1>1. x \in Nat /\ p \in Nat /\ p > 0
  OBVIOUS
<1> HIDE DEF x
<1>2. n \in Nat /\ p * n <= x /\ x < p * n + p
  BY <1>1
<1> HIDE DEF n
<1>3. n * p = p * n /\ p * n \in Nat
  BY <1>1, <1>2
<1>4. n \in Nat /\ n * p \in Nat /\ diff <= n * p /\ n * p < diff + p
  BY <1>1, <1>2, <1>3 DEF x
<1> QED BY <1>4 DEF n, x

(* The cycle count catches up with the clock edges.                         *)
LEMMA UpdateOK ==
  ASSUME time \in Nat, NEW s \in States
  PROVE  /\ update(s) \in States
         /\ SameQueues(update(s), s) /\ SamePlan(update(s), s) /\ SameRun(update(s), s)
         /\ update(s).period = s.period
<1> DEFINE diff == time - s.stop_time
           n == (diff + s.period - 1) \div s.period
           t == [s EXCEPT !.stop_time = @ + n * s.period, !.cycles = @ + n]
<1>1. s.stop_time \in Nat /\ s.period \in Nat /\ s.cycles \in Nat /\ diff \in Int
  <2>1. s.stop_time \in Nat /\ s.period \in Periods /\ s.cycles \in Nat
    BY DEF States
  <2>2. s.period \in Nat
    BY <2>1, ClockEngineAssumption
  <2> QED BY <2>1, <2>2
<1>2. CASE s.period = 0 \/ diff <= 0
  <2>1. update(s) = s
    BY <1>2 DEF update
  <2> QED BY <2>1 DEF SameQueues, SamePlan, SameRun
<1>3. CASE ~(s.period = 0 \/ diff <= 0)
  <2>1. update(s) = t
    BY <1>3 DEF update
  <2>2. diff \in Nat /\ diff > 0
    BY <1>1, <1>3
  <2> HIDE DEF diff
  <2>3. n \in Nat /\ n * s.period \in Nat
    BY <1>1, <1>3, <2>2, EdgesOK
  <2> HIDE DEF n
  <2>4. s.stop_time + n * s.period \in Nat /\ s.cycles + n \in Nat
    BY <1>1, <2>3
  <2>5. t \in States
    BY <2>4 DEF States
  <2>6. SameQueues(t, s) /\ SamePlan(t, s) /\ SameRun(t, s) /\ t.period = s.period
    BY DEF States, SameQueues, SamePlan, SameRun
  <2> QED BY <2>1, <2>5, <2>6
<1> QED BY <1>2, <1>3

(* Only an engine that stopped with an empty buffer catches up.             *)
LEMMA SyncOK ==
  ASSUME time \in Nat, NEW s \in States
  PROVE  /\ sync(s) \in States
         /\ SameQueues(sync(s), s) /\ SamePlan(sync(s), s) /\ SameRun(sync(s), s)
         /\ sync(s).period = s.period
         /\ s.running \/ s.nb_enqueued_to_cycle # 0 => sync(s) = s
<1>1. CASE ~s.running /\ s.nb_enqueued_to_cycle = 0
  BY <1>1, UpdateOK DEF sync
<1>2. CASE ~(~s.running /\ s.nb_enqueued_to_cycle = 0)
  <2>1. sync(s) = s
    BY <1>2 DEF sync
  <2> QED BY <1>2, <2>1 DEF SameQueues, SamePlan, SameRun
<1> QED BY <1>1, <1>2

(* The synchronisation keeps a good state.                                  *)
LEMMA SyncGood ==
  ASSUME time \in Nat, NEW s, Good(s)
  PROVE  Good(sync(s))
<1>1. s \in States
  BY DEF Good
<1> DEFINE t == sync(s)
<1>2. /\ t \in States /\ SameQueues(t, s) /\ SamePlan(t, s) /\ SameRun(t, s)
      /\ s.running \/ s.nb_enqueued_to_cycle # 0 => t = s
  BY <1>1, SyncOK
<1> HIDE DEF t
<1>3. Queues(t)
  BY <1>2 DEF Good, Queues, SameQueues
<1>4. Cycles(t)
  <2>1. CASE s.nb_enqueued_to_cycle # 0
    BY <1>2, <2>1 DEF Good
  <2>2. CASE s.nb_enqueued_to_cycle = 0
    <3>1. t.event_queue \in Buffer /\ t.current_cycle \in Slots /\ t.nb_enqueued_to_cycle = 0
      BY <1>2, <2>2 DEF States, SameQueues
    <3>2. \A i \in Slots, e \in Events : ~Holds(t.event_queue[i], e)
      BY <1>3, <3>1, EmptyBuffer DEF Queues
    <3> QED BY <3>1, <3>2, EmptyCycle DEF Cycles
  <2> QED BY <2>1, <2>2
<1>5. Plan(t)
  BY <1>2 DEF Good, Plan, SameQueues, SamePlan, SameRun, has_events
<1> QED BY <1>2, <1>3, <1>4, <1>5 DEF Good, t

(* The place of a cycle in the delayed queue.                               *)
Place(l, cycle, c, p) ==
  /\ \A i \in 1..(p - 1) : cycle[l[i]] < c
  /\ p <= Len(l) => cycle[l[p]] >= c

(* There is one, and the event is linked there.                             *)
LEMMA InsertDelayedOK ==
  ASSUME NEW s \in States, NEW e \in Events, NEW c \in Nat
  PROVE  \E p \in 1..(Len(s.delayed_queue) + 1) :
           /\ Place(s.delayed_queue, s.cycle, c, p)
           /\ Linking(InsertDelayed(s, e, c), s.delayed_queue, p, e)
<1> DEFINE l == s.delayed_queue
           T == {p \in 1..(Len(l) + 1) : p <= Len(l) => s.cycle[l[p]] >= c}
<1>1. l \in Seq(Events) /\ s.cycle \in [Events -> Nat] /\ Len(l) \in Nat
  BY DEF States
<1>2. Len(l) + 1 \in T /\ T \in SUBSET Nat
  BY <1>1
<1>3. PICK p \in T : \A y \in T : p <= y
  <2> HIDE DEF T
  <2> QED BY <1>2, Least
<1>4. p \in 1..(Len(l) + 1) /\ (p <= Len(l) => s.cycle[l[p]] >= c)
  OBVIOUS
<1>5. ASSUME NEW i \in 1..(p - 1) PROVE s.cycle[l[i]] < c
  <2>1. i \in 1..Len(l) /\ i \in 1..(Len(l) + 1) /\ ~(p <= i)
    BY <1>1, <1>4
  <2>2. l[i] \in Events
    BY <1>1, <2>1
  <2>3. i \notin T
    BY <1>3, <2>1
  <2>4. ~(s.cycle[l[i]] >= c)
    BY <2>1, <2>3
  <2> QED BY <1>1, <2>2, <2>4
<1> HIDE DEF l, T
<1>6. \E q \in 1..(Len(l) + 1) : /\ \A i \in 1..(q - 1) : s.cycle[l[i]] < c
                                 /\ q <= Len(l) => s.cycle[l[q]] >= c
  BY <1>4, <1>5
<1> DEFINE q == CHOOSE q \in 1..(Len(l) + 1) : /\ \A i \in 1..(q - 1) : s.cycle[l[i]] < c
                                               /\ q <= Len(l) => s.cycle[l[q]] >= c
<1>7. /\ q \in 1..(Len(l) + 1) /\ \A i \in 1..(q - 1) : s.cycle[l[i]] < c
      /\ q <= Len(l) => s.cycle[l[q]] >= c
  BY <1>6
<1>8. InsertDelayed(s, e, c) = InsertAt(l, q, e)
  BY DEF InsertDelayed, l
<1> HIDE DEF q
<1>9. Linking(InsertAt(l, q, e), l, q, e)
  BY <1>1, <1>7, InsertShape
<1>10. Place(l, s.cycle, c, q)
  BY <1>7 DEF Place
<1> QED BY <1>7, <1>8, <1>9, <1>10 DEF l

(* The slow path of enqueue, from a state where e is flagged already.       *)
LEMMA EnqueueOtherOK ==
  ASSUME time \in Nat, NEW s \in States, NEW e \in Events, NEW n \in Nat, NEW t,
         t = enqueue_other(s, e, n)
  PROVE  /\ t \in States /\ t.cycle = [s.cycle EXCEPT ![e] = n + s.cycles]
         /\ t.delayed_queue = InsertDelayed(s, e, n + s.cycles)
         /\ t.event_queue = s.event_queue /\ t.current_cycle = s.current_cycle
         /\ t.nb_enqueued_to_cycle = s.nb_enqueued_to_cycle /\ t.enqueued = s.enqueued
         /\ t.period = s.period /\ t.running = s.running /\ SameClock(t, s)
         /\ t.must_flush_delayed_queue
         /\ s.running => SamePlan(t, s)
         /\ t.is_enqueued \/ SamePlan(t, s)
         /\ ~s.running /\ s.period # 0 =>
              Replanned(t, s, time + n * s.period)
<1> DEFINE c == n + s.cycles
           dq == InsertDelayed(s, e, c)
           s1 == IF s.period # 0 THEN EnqueueToEngine(s, n * s.period) ELSE s
           cy == [s.cycle EXCEPT ![e] = c]
<1>1. s.period \in Nat /\ s.cycles \in Nat /\ s.cycle \in [Events -> Nat]
  <2>1. s.period \in Periods /\ s.cycles \in Nat /\ s.cycle \in [Events -> Nat]
    BY DEF States
  <2> QED BY <2>1, ClockEngineAssumption
<1>2. c \in Nat /\ n * s.period \in Nat
  BY <1>1
<1>3. dq \in Seq(Events)
  BY <1>2, InsertDelayedOK DEF Linking
<1>4. cy \in [Events -> Nat]
  BY <1>1, <1>2
<1>5. /\ s1 \in States /\ SameQueues(s1, s) /\ SameClock(s1, s) /\ SameRun(s1, s)
      /\ s1.period = s.period
      /\ s.running => SamePlan(s1, s)
      /\ s1.is_enqueued \/ SamePlan(s1, s)
      /\ ~s.running /\ s.period # 0 =>
           Replanned(s1, s, time + n * s.period)
  <2>1. CASE s.period = 0
    BY <2>1 DEF SameQueues, SameClock, SameRun, SamePlan
  <2>2. CASE s.period # 0
    <3> DEFINE d == n * s.period
    <3>1. d \in Int
      BY <1>2
    <3> HIDE DEF d
    <3>3. s1 = EnqueueToEngine(s, d)
      BY <2>2 DEF d
    <3>4. /\ s1 \in States /\ SameQueues(s1, s) /\ SameClock(s1, s) /\ SameRun(s1, s)
          /\ s1.period = s.period
          /\ s.running => s1 = s
          /\ ~s.running => s1.is_enqueued /\ Replanned(s1, s, time + d)
      <4> HIDE DEF s1
      <4> QED BY <3>1, <3>3, EnqueueToEngineOK
    <3> HIDE DEF s1
    <3>5. SamePlan(s, s)
      BY DEF SamePlan
    <3> QED BY <3>4, <3>5 DEF d
  <2> QED BY <2>1, <2>2
<1>6. t = [s1 EXCEPT !.must_flush_delayed_queue = TRUE, !.delayed_queue = dq, !.cycle[e] = c]
  BY DEF enqueue_other
<1> HIDE DEF s1, dq, c
<1>7. [s1.cycle EXCEPT ![e] = c] = cy
  BY <1>5 DEF SameQueues
<1> HIDE DEF cy
<1>8. t = [s1 EXCEPT !.must_flush_delayed_queue = TRUE, !.delayed_queue = dq, !.cycle = cy]
  BY <1>6, <1>7
<1>9. t \in States
  BY <1>3, <1>4, <1>5, <1>8 DEF States
<1>10. /\ t.cycle = cy /\ t.delayed_queue = dq /\ t.must_flush_delayed_queue
       /\ t.event_queue = s1.event_queue /\ t.current_cycle = s1.current_cycle
       /\ t.nb_enqueued_to_cycle = s1.nb_enqueued_to_cycle /\ t.enqueued = s1.enqueued
       /\ t.period = s1.period /\ t.running = s1.running /\ SameClock(t, s1) /\ SamePlan(t, s1)
  BY <1>5, <1>8 DEF States, SameClock, SamePlan
<1>11. /\ t.event_queue = s.event_queue /\ t.current_cycle = s.current_cycle
       /\ t.nb_enqueued_to_cycle = s.nb_enqueued_to_cycle /\ t.enqueued = s.enqueued
       /\ t.period = s.period /\ t.running = s.running /\ SameClock(t, s)
  BY <1>5, <1>10 DEF SameQueues, SameClock, SameRun
<1>12. /\ s.running => SamePlan(t, s)
       /\ t.is_enqueued \/ SamePlan(t, s)
       /\ ~s.running /\ s.period # 0 =>
            Replanned(t, s, time + n * s.period)
  BY <1>5, <1>10 DEF SamePlan, Replanned
<1> QED BY <1>9, <1>10, <1>11, <1>12 DEF cy, dq, c

(* The clock edges that update counts.                                      *)
Edges(s) == (time - s.stop_time + s.period - 1) \div s.period

(* What update does to the cycle count.                                     *)
LEMMA UpdateClock ==
  ASSUME NEW s \in States
  PROVE  /\ s.period = 0 \/ time - s.stop_time <= 0 => SameClock(update(s), s)
         /\ ~(s.period = 0 \/ time - s.stop_time <= 0) =>
              /\ update(s).cycles = s.cycles + Edges(s)
              /\ update(s).stop_time = s.stop_time + Edges(s) * s.period
<1> DEFINE n == Edges(s)
           t == [s EXCEPT !.stop_time = @ + n * s.period, !.cycles = @ + n]
<1>1. CASE s.period = 0 \/ time - s.stop_time <= 0
  <2>1. update(s) = s
    BY <1>1 DEF update
  <2> QED BY <1>1, <2>1 DEF SameClock
<1>2. CASE ~(s.period = 0 \/ time - s.stop_time <= 0)
  <2>1. update(s) = t
    BY <1>2 DEF update, Edges
  <2> HIDE DEF n
  <2>2. t.cycles = s.cycles + n /\ t.stop_time = s.stop_time + n * s.period
    BY DEF States
  <2> QED BY <1>2, <2>1, <2>2 DEF n
<1> QED BY <1>1, <1>2

(* The flag of an event does not matter to the synchronisation.             *)
LEMMA FlagSync ==
  ASSUME time \in Nat, NEW s \in States, NEW e \in Events, NEW s0, s0 = [s EXCEPT !.enqueued[e] = TRUE]
  PROVE  /\ s0 \in States /\ sync(s0) \in States /\ SameClock(sync(s0), sync(s))
         /\ SamePlan(sync(s0), s) /\ SameRun(sync(s0), s) /\ sync(s0).period = s.period
         /\ sync(s0).event_queue = s.event_queue /\ sync(s0).delayed_queue = s.delayed_queue
         /\ sync(s0).current_cycle = s.current_cycle /\ sync(s0).cycle = s.cycle
         /\ sync(s0).nb_enqueued_to_cycle = s.nb_enqueued_to_cycle
         /\ sync(s0).enqueued \in [Events -> BOOLEAN]
         /\ Flagged(sync(s0).enqueued, s.enqueued, e, TRUE)
<1> DEFINE enq == [s.enqueued EXCEPT ![e] = TRUE]
           u == sync(s0)
<1>1. enq \in [Events -> BOOLEAN] /\ enq[e] = TRUE /\ \A x \in Events : x # e => enq[x] = s.enqueued[x]
  BY DEF States
<1>2. s0 = [s EXCEPT !.enqueued = enq]
  OBVIOUS
<1> HIDE DEF enq
<1>3. s0 \in States
  BY <1>1, <1>2 DEF States
<1>4. /\ s0.enqueued = enq /\ s0.event_queue = s.event_queue /\ s0.delayed_queue = s.delayed_queue
      /\ s0.current_cycle = s.current_cycle /\ s0.cycle = s.cycle
      /\ s0.nb_enqueued_to_cycle = s.nb_enqueued_to_cycle
      /\ SameClock(s0, s) /\ SamePlan(s0, s) /\ SameRun(s0, s) /\ s0.period = s.period
  BY <1>2 DEF States, SameClock, SamePlan, SameRun
<1>5. u \in States /\ SameQueues(u, s0) /\ SamePlan(u, s0) /\ SameRun(u, s0) /\ u.period = s0.period
  BY <1>3, SyncOK
<1>6. SameClock(update(s0), update(s))
  <2>1. Edges(s0) = Edges(s)
    BY <1>4 DEF Edges, SameClock
  <2>2. s0.stop_time = s.stop_time /\ s0.cycles = s.cycles
    BY <1>4 DEF SameClock
  <2>3. CASE s.period = 0 \/ time - s.stop_time <= 0
    <3>1. SameClock(update(s), s)
      BY <2>3, UpdateClock
    <3>2. SameClock(update(s0), s0)
      BY <1>3, <1>4, <2>2, <2>3, UpdateClock
    <3> QED BY <2>2, <3>1, <3>2 DEF SameClock
  <2>4. CASE ~(s.period = 0 \/ time - s.stop_time <= 0)
    <3>1. update(s).cycles = s.cycles + Edges(s) /\ update(s).stop_time = s.stop_time + Edges(s) * s.period
      BY <2>4, UpdateClock
    <3>2. /\ update(s0).cycles = s0.cycles + Edges(s0)
          /\ update(s0).stop_time = s0.stop_time + Edges(s0) * s0.period
      BY <1>3, <1>4, <2>2, <2>4, UpdateClock
    <3> QED BY <1>4, <2>1, <2>2, <3>1, <3>2 DEF SameClock
  <2> QED BY <2>3, <2>4
<1>7. SameClock(u, sync(s))
  BY <1>4, <1>6 DEF sync, SameClock, SameRun
<1> HIDE DEF u
<1>8. Flagged(u.enqueued, s.enqueued, e, TRUE)
  BY <1>1, <1>4, <1>5 DEF Flagged, SameQueues
<1>9. /\ SamePlan(u, s) /\ SameRun(u, s) /\ u.period = s.period
      /\ u.event_queue = s.event_queue /\ u.delayed_queue = s.delayed_queue
      /\ u.current_cycle = s.current_cycle /\ u.cycle = s.cycle
      /\ u.nb_enqueued_to_cycle = s.nb_enqueued_to_cycle
  BY <1>4, <1>5 DEF SameQueues, SamePlan, SameRun
<1> QED BY <1>3, <1>5, <1>7, <1>8, <1>9 DEF u, Flagged

(* The fast path of enqueue: the event goes to its slot.                    *)
FastPath(t, s, e, n) ==
  /\ s.running /\ n \in Slots
  /\ Pushed(t.event_queue, s.event_queue, (s.current_cycle + n) % QueueSize, e)
  /\ t.nb_enqueued_to_cycle = s.nb_enqueued_to_cycle + 1
  /\ t.delayed_queue = s.delayed_queue /\ SameRun(t, s) /\ SamePlan(t, s)

(* The slow path: the event goes to the delayed queue.                      *)
SlowPath(t, s, e, n) ==
  /\ ~s.running \/ n \notin Slots
  /\ t.event_queue = s.event_queue
  /\ t.nb_enqueued_to_cycle = s.nb_enqueued_to_cycle
  /\ \E p \in 1..(Len(s.delayed_queue) + 1) :
       /\ Place(s.delayed_queue, s.cycle, n + t.cycles, p)
       /\ Linking(t.delayed_queue, s.delayed_queue, p, e)
  /\ t.must_flush_delayed_queue /\ t.running = s.running
  /\ s.running => SamePlan(t, s)
  /\ t.is_enqueued \/ SamePlan(t, s)
  /\ ~s.running /\ s.period # 0 => Replanned(t, s, time + n * s.period)

(* What both leave.                                                         *)
EnqueuedAt(t, s, e, n) ==
  /\ SameClock(t, sync(s)) /\ t.current_cycle = s.current_cycle /\ t.period = s.period
  /\ Flagged(t.enqueued, s.enqueued, e, TRUE)
  /\ t.cycle[e] = n + t.cycles /\ Recycled(t.cycle, s.cycle, e)
  /\ FastPath(t, s, e, n) \/ SlowPath(t, s, e, n)

(* enqueue takes one of the two paths.                                      *)
LEMMA EnqueueShape ==
  ASSUME time \in Nat, NEW s \in States, NEW e \in Events, NEW n \in Nat, NEW t, t = enqueue(s, e, n)
  PROVE  t \in States /\ EnqueuedAt(t, s, e, n)
<1> DEFINE s0 == [s EXCEPT !.enqueued[e] = TRUE]
           u == sync(s0)
<1>1. /\ u \in States /\ SameClock(u, sync(s)) /\ SamePlan(u, s) /\ SameRun(u, s) /\ u.period = s.period
      /\ u.event_queue = s.event_queue /\ u.delayed_queue = s.delayed_queue
      /\ u.current_cycle = s.current_cycle /\ u.cycle = s.cycle
      /\ u.nb_enqueued_to_cycle = s.nb_enqueued_to_cycle
      /\ Flagged(u.enqueued, s.enqueued, e, TRUE)
  BY FlagSync, ZenonT(60)
<1>2. t = IF u.running /\ n < QueueSize THEN enqueue_to_cycle(u, e, n) ELSE enqueue_other(u, e, n)
  BY DEF enqueue
<1> HIDE DEF u
<1>3. u.cycles \in Nat /\ u.current_cycle \in Slots /\ u.cycle \in [Events -> Nat]
      /\ u.nb_enqueued_to_cycle \in Nat /\ u.event_queue \in Buffer
  BY <1>1 DEF States
<1>4. n \in Slots <=> n < QueueSize
  BY ClockEngineAssumption DEF Slots
<1>5. CASE u.running /\ n < QueueSize
  <2> DEFINE i == (u.current_cycle + n) % QueueSize
             eq == [u.event_queue EXCEPT ![i] = <<e>> \o @]
             cy == [u.cycle EXCEPT ![e] = n + u.cycles]
             nb == u.nb_enqueued_to_cycle + 1
  <2>1. t = [u EXCEPT !.event_queue = eq, !.nb_enqueued_to_cycle = nb, !.cycle = cy]
    BY <1>2, <1>5 DEF enqueue_to_cycle, Slot
  <2>2. i \in Slots
    BY <1>3, <1>4, <1>5, Circle
  <2> HIDE DEF i
  <2>3. eq \in Buffer
    <3>1. u.event_queue[i] \in Seq(Events)
      BY <1>3, <2>2 DEF Buffer
    <3>2. <<e>> \o u.event_queue[i] \in Seq(Events)
      BY <3>1
    <3> QED BY <1>3, <2>2, <3>2 DEF Buffer
  <2>4. cy \in [Events -> Nat] /\ cy[e] = n + u.cycles /\ \A x \in Events : x # e => cy[x] = u.cycle[x]
    BY <1>3
  <2>5. nb \in Nat
    BY <1>3
  <2> HIDE DEF eq, cy, nb
  <2>6. t \in States
    BY <1>1, <2>1, <2>3, <2>4, <2>5 DEF States
  <2>7. /\ t.event_queue = eq /\ t.nb_enqueued_to_cycle = nb /\ t.cycle = cy
        /\ t.delayed_queue = u.delayed_queue /\ t.current_cycle = u.current_cycle
        /\ t.enqueued = u.enqueued /\ t.period = u.period
        /\ SameClock(t, u) /\ SameRun(t, u) /\ SamePlan(t, u)
    BY <1>1, <2>1 DEF States, SameClock, SameRun, SamePlan
  <2>8. FastPath(t, s, e, n)
    BY <1>1, <1>4, <1>5, <2>7 DEF FastPath, Pushed, SameRun, SamePlan, eq, nb, i
  <2>9. /\ SameClock(t, sync(s)) /\ t.current_cycle = s.current_cycle /\ t.period = s.period
        /\ Flagged(t.enqueued, s.enqueued, e, TRUE)
        /\ t.cycle[e] = n + t.cycles /\ Recycled(t.cycle, s.cycle, e)
    BY <1>1, <2>4, <2>7 DEF SameClock, Recycled
  <2> QED BY <2>6, <2>8, <2>9 DEF EnqueuedAt
<1>6. CASE ~(u.running /\ n < QueueSize)
  <2>1. t = enqueue_other(u, e, n)
    BY <1>2, <1>6
  <2>2. /\ t \in States /\ t.cycle = [u.cycle EXCEPT ![e] = n + u.cycles]
        /\ t.delayed_queue = InsertDelayed(u, e, n + u.cycles)
        /\ t.event_queue = u.event_queue /\ t.current_cycle = u.current_cycle
        /\ t.nb_enqueued_to_cycle = u.nb_enqueued_to_cycle /\ t.enqueued = u.enqueued
        /\ t.period = u.period /\ t.running = u.running /\ SameClock(t, u)
        /\ t.must_flush_delayed_queue
        /\ u.running => SamePlan(t, u)
        /\ t.is_enqueued \/ SamePlan(t, u)
        /\ ~u.running /\ u.period # 0 =>
             Replanned(t, u, time + n * u.period)
    BY <1>1, <2>1, EnqueueOtherOK
  <2>3. t.cycles = u.cycles /\ n + u.cycles \in Nat
    BY <1>3, <2>2 DEF SameClock
  <2>4. \E p \in 1..(Len(s.delayed_queue) + 1) :
          /\ Place(s.delayed_queue, s.cycle, n + t.cycles, p)
          /\ Linking(t.delayed_queue, s.delayed_queue, p, e)
    <3>1. \E p \in 1..(Len(u.delayed_queue) + 1) :
            /\ Place(u.delayed_queue, u.cycle, n + u.cycles, p)
            /\ Linking(InsertDelayed(u, e, n + u.cycles), u.delayed_queue, p, e)
      BY <1>1, <2>3, InsertDelayedOK
    <3> QED BY <1>1, <2>2, <2>3, <3>1
  <2>5. SlowPath(t, s, e, n)
    <3>1. /\ u.running = s.running /\ u.period = s.period
          /\ SamePlan(t, u) => SamePlan(t, s)
          /\ Replanned(t, u, time + n * s.period) => Replanned(t, s, time + n * s.period)
      BY <1>1 DEF SameRun, SamePlan, Replanned
    <3>2. ~s.running \/ n \notin Slots
      BY <1>4, <1>6, <3>1
    <3>3. /\ t.event_queue = s.event_queue /\ t.nb_enqueued_to_cycle = s.nb_enqueued_to_cycle
          /\ t.must_flush_delayed_queue /\ t.running = s.running
      BY <1>1, <2>2, <3>1
    <3>4. /\ s.running => SamePlan(t, s)
          /\ t.is_enqueued \/ SamePlan(t, s)
          /\ ~s.running /\ s.period # 0 => Replanned(t, s, time + n * s.period)
      BY <2>2, <3>1
    <3> QED BY <2>4, <3>2, <3>3, <3>4 DEF SlowPath
  <2>6. t.cycle[e] = n + t.cycles /\ Recycled(t.cycle, s.cycle, e)
    BY <1>1, <1>3, <2>2, <2>3 DEF Recycled
  <2>7. /\ SameClock(t, sync(s)) /\ t.current_cycle = s.current_cycle /\ t.period = s.period
        /\ Flagged(t.enqueued, s.enqueued, e, TRUE)
    BY <1>1, <2>2 DEF SameClock
  <2> QED BY <2>2, <2>5, <2>6, <2>7 DEF EnqueuedAt
<1> QED BY <1>5, <1>6

(* A call may only change the next event time of an engine it plans.        *)
NextKept(t, s) == t.is_enqueued \/ t.next_event_time = s.next_event_time

(* enqueue keeps a good state.                                              *)
LEMMA EnqueueGood ==
  ASSUME time \in Nat, NEW s, Good(s), NEW e \in Events, NEW n \in Nat, ~s.enqueued[e],
         NEW t, t = enqueue(s, e, n)
  PROVE  Good(t) /\ NextKept(t, s) /\ t.running = s.running
<1>1. s \in States /\ Queues(s) /\ Cycles(s) /\ Plan(s)
  BY DEF Good
<1>2. t \in States /\ EnqueuedAt(t, s, e, n)
  BY <1>1, EnqueueShape
<1>3. /\ SameClock(t, sync(s)) /\ t.current_cycle = s.current_cycle /\ t.period = s.period
      /\ Flagged(t.enqueued, s.enqueued, e, TRUE)
      /\ t.cycle[e] = n + t.cycles /\ Recycled(t.cycle, s.cycle, e)
      /\ FastPath(t, s, e, n) \/ SlowPath(t, s, e, n)
  BY <1>2 DEF EnqueuedAt
<1>4. /\ s.event_queue \in Buffer /\ s.delayed_queue \in Seq(Events) /\ s.current_cycle \in Slots
      /\ t.cycles \in Nat
  BY <1>1, <1>2 DEF States
<1>5. Absent(s.event_queue, e)
  BY <1>1 DEF Queues, Placed, Absent
<1>6. SlotsOK(s.event_queue, s.current_cycle, t.cycles, s.cycle)
  <2>1. Cycles(sync(s)) /\ SameQueues(sync(s), s)
    BY <1>1, SyncGood, SyncOK DEF Good
  <2> QED BY <1>3, <2>1 DEF Cycles, SameQueues, SameClock
<1>7. Placed(s.event_queue, s.delayed_queue, s.enqueued) /\ Counted(s.event_queue, s.nb_enqueued_to_cycle)
  BY <1>1 DEF Queues
<1>8. CASE FastPath(t, s, e, n)
  <2> DEFINE i == (s.current_cycle + n) % QueueSize
  <2>1. /\ s.running /\ n \in Slots
        /\ Pushed(t.event_queue, s.event_queue, i, e)
        /\ t.nb_enqueued_to_cycle = s.nb_enqueued_to_cycle + 1
        /\ t.delayed_queue = s.delayed_queue /\ SameRun(t, s) /\ SamePlan(t, s)
    BY <1>8 DEF FastPath
  <2>2. i \in Slots
    BY <1>4, <2>1, Circle
  <2> HIDE DEF i
  <2>3. /\ Placed(t.event_queue, s.delayed_queue, t.enqueued)
        /\ Counted(t.event_queue, s.nb_enqueued_to_cycle + 1)
        /\ Joined(t.event_queue, s.event_queue, i, e)
    BY <1>3, <1>4, <1>7, <2>1, <2>2, JoinSlot
  <2>4. Queues(t)
    BY <2>1, <2>3 DEF Queues
  <2>5. t.cycle[e] = t.cycles + n
    BY <1>3, <1>4
  <2>6. SlotsOK(t.event_queue, s.current_cycle, t.cycles, t.cycle)
    <3>1. Joined(t.event_queue, s.event_queue, (s.current_cycle + n) % QueueSize, e)
      BY <2>3 DEF i
    <3> QED BY <1>3, <1>4, <1>5, <1>6, <2>1, <2>5, <3>1, JoinCycle
  <2>7. Cycles(t)
    BY <1>3, <2>6 DEF Cycles
  <2>8. Plan(t) /\ NextKept(t, s) /\ t.running = s.running
    BY <1>1, <2>1 DEF Plan, SamePlan, SameRun, NextKept
  <2> QED BY <1>2, <2>4, <2>7, <2>8 DEF Good
<1>9. CASE SlowPath(t, s, e, n)
  <2>1. /\ t.event_queue = s.event_queue
        /\ t.nb_enqueued_to_cycle = s.nb_enqueued_to_cycle
        /\ \E p \in 1..(Len(s.delayed_queue) + 1) : Linking(t.delayed_queue, s.delayed_queue, p, e)
        /\ t.running = s.running
        /\ s.running => SamePlan(t, s)
        /\ t.is_enqueued \/ SamePlan(t, s)
    BY <1>9 DEF SlowPath
  <2>2. t.delayed_queue # <<>> /\ Placed(s.event_queue, t.delayed_queue, t.enqueued)
    <3>1. PICK p \in 1..(Len(s.delayed_queue) + 1) : Linking(t.delayed_queue, s.delayed_queue, p, e)
      BY <2>1
    <3> QED BY <1>3, <1>4, <1>7, <3>1, JoinDelayed
  <2>3. Queues(t)
    BY <1>7, <2>1, <2>2 DEF Queues
  <2>4. SlotsOK(s.event_queue, s.current_cycle, t.cycles, t.cycle)
    BY <1>3, <1>4, <1>5, <1>6, OtherCycle
  <2>5. Cycles(t)
    BY <1>3, <2>1, <2>4 DEF Cycles
  <2>6. NextKept(t, s)
    BY <2>1 DEF NextKept, SamePlan
  <2>7. Plan(t)
    BY <1>1, <2>1, <2>2 DEF Plan, SamePlan, has_events
  <2> QED BY <1>2, <2>1, <2>3, <2>5, <2>6, <2>7 DEF Good
<1> QED BY <1>3, <1>8, <1>9

(* The event is taken out of the delayed queue, or out of the buffer.       *)
CancelDelayed(t, s, e) ==
  /\ Holds(s.delayed_queue, e) /\ t.delayed_queue = RemoveFirst(s.delayed_queue, e)
  /\ t.event_queue = s.event_queue /\ t.nb_enqueued_to_cycle = s.nb_enqueued_to_cycle

CancelBuffered(t, s, e) ==
  /\ ~Holds(s.delayed_queue, e) /\ t.delayed_queue = s.delayed_queue
  /\ t.event_queue = [i \in Slots |-> RemoveFirst(s.event_queue[i], e)]
  /\ t.nb_enqueued_to_cycle = s.nb_enqueued_to_cycle - 1

Cancelled(t, s, e) ==
  /\ SameClock(t, s) /\ SameRun(t, s) /\ t.current_cycle = s.current_cycle /\ t.period = s.period
  /\ t.cycle = s.cycle /\ Flagged(t.enqueued, s.enqueued, e, FALSE)
  /\ t.next_event_time = s.next_event_time /\ (t.is_enqueued => s.is_enqueued)
  /\ has_events(t) => t.is_enqueued = s.is_enqueued
  /\ ~has_events(t) => s.running \/ ~t.is_enqueued
  /\ CancelDelayed(t, s, e) \/ CancelBuffered(t, s, e)

(* RemoveFirst in every slot.                                               *)
LEMMA RemoveEverywhere ==
  ASSUME NEW eq \in Buffer, NEW e \in Events, \A i \in Slots : Distinct(eq[i])
  PROVE  /\ [i \in Slots |-> RemoveFirst(eq[i], e)] \in Buffer
         /\ \A j \in Slots : Distinct([i \in Slots |-> RemoveFirst(eq[i], e)][j])
         /\ Left([i \in Slots |-> RemoveFirst(eq[i], e)], eq, e)
<1> DEFINE eq2 == [i \in Slots |-> RemoveFirst(eq[i], e)]
<1>1. ASSUME NEW j \in Slots
      PROVE  /\ eq2[j] \in Seq(Events) /\ Distinct(eq2[j])
             /\ \A x \in Events : Holds(eq2[j], x) <=> Holds(eq[j], x) /\ x # e
  <2>1. eq[j] \in Seq(Events) /\ Distinct(eq[j])
    BY DEF Buffer
  <2>2. eq2[j] = RemoveFirst(eq[j], e)
    OBVIOUS
  <2> HIDE DEF eq2
  <2> QED BY <2>1, <2>2, RemoveOK, ZenonT(60)
<1>2. eq2 = [j \in Slots |-> eq2[j]]
  OBVIOUS
<1> HIDE DEF eq2
<1>3. eq2 \in Buffer
  BY <1>1, <1>2 DEF Buffer
<1>4. Left(eq2, eq, e)
  BY <1>1 DEF Left
<1> QED BY <1>1, <1>3, <1>4 DEF eq2

(* cancel takes the event out of one of the queues.                         *)
LEMMA CancelShape ==
  ASSUME NEW s, Good(s), NEW e \in Events, s.enqueued[e], NEW t, t = cancel(s, e)
  PROVE  t \in States /\ Cancelled(t, s, e)
<1>1. s \in States /\ Queues(s)
  BY DEF Good
<1>2. /\ s.event_queue \in Buffer /\ s.delayed_queue \in Seq(Events) /\ s.enqueued \in [Events -> BOOLEAN]
      /\ s.nb_enqueued_to_cycle \in Nat /\ s.is_enqueued \in BOOLEAN
  BY <1>1 DEF States
<1> DEFINE dq == RemoveFirst(s.delayed_queue, e)
           eq == [i \in Slots |-> RemoveFirst(s.event_queue[i], e)]
           nb == s.nb_enqueued_to_cycle - 1
           enq == [s.enqueued EXCEPT ![e] = FALSE]
           s1 == IF Contains(s.delayed_queue, e) THEN [s EXCEPT !.delayed_queue = dq]
                 ELSE [s EXCEPT !.event_queue = eq, !.nb_enqueued_to_cycle = nb]
           u == [s1 EXCEPT !.enqueued[e] = FALSE]
<1>3. dq \in Seq(Events)
  BY <1>1, <1>2, RemoveOK DEF Queues, Placed
<1>4. eq \in Buffer
  BY <1>1, <1>2, RemoveEverywhere DEF Queues, Placed
<1>5. enq \in [Events -> BOOLEAN] /\ Flagged(enq, s.enqueued, e, FALSE)
  BY <1>2 DEF Flagged
<1>6. Contains(s.delayed_queue, e) <=> Holds(s.delayed_queue, e)
  BY DEF Contains, Holds
<1>7. ~Holds(s.delayed_queue, e) => nb \in Nat
  <2>1. ASSUME ~Holds(s.delayed_queue, e) PROVE \E i \in Slots : Holds(s.event_queue[i], e)
    BY <1>1, <2>1 DEF Queues, Placed
  <2>2. ~Holds(s.delayed_queue, e) => s.nb_enqueued_to_cycle # 0
    BY <1>1, <1>2, <2>1, EmptyBuffer DEF Queues
  <2> QED BY <1>2, <2>2
<1>8. t = IF has_events(u) THEN u ELSE dequeue_from_engine(u)
  BY DEF cancel
<1> HIDE DEF dq, eq, nb, enq
<1>9. /\ u \in States /\ SameClock(u, s) /\ SameRun(u, s) /\ u.current_cycle = s.current_cycle
      /\ u.period = s.period /\ u.cycle = s.cycle /\ u.enqueued = enq
      /\ SamePlan(u, s) /\ (CancelDelayed(u, s, e) \/ CancelBuffered(u, s, e))
  <2>1. /\ s1 \in States /\ SameClock(s1, s) /\ SameRun(s1, s) /\ s1.current_cycle = s.current_cycle
        /\ s1.period = s.period /\ s1.cycle = s.cycle /\ s1.enqueued = s.enqueued
        /\ SamePlan(s1, s) /\ (CancelDelayed(s1, s, e) \/ CancelBuffered(s1, s, e))
    <3>1. CASE Holds(s.delayed_queue, e)
      <4>1. s1 = [s EXCEPT !.delayed_queue = dq]
        BY <1>6, <3>1
      <4> HIDE DEF s1
      <4>2. s1 \in States
        BY <1>1, <1>3, <4>1 DEF States
      <4>3. /\ SameClock(s1, s) /\ SameRun(s1, s) /\ s1.current_cycle = s.current_cycle
            /\ s1.period = s.period /\ s1.cycle = s.cycle /\ s1.enqueued = s.enqueued /\ SamePlan(s1, s)
        BY <1>1, <4>1 DEF States, SameClock, SameRun, SamePlan
      <4>4. /\ s1.delayed_queue = dq /\ s1.event_queue = s.event_queue
            /\ s1.nb_enqueued_to_cycle = s.nb_enqueued_to_cycle
        BY <1>1, <4>1 DEF States
      <4>5. CancelDelayed(s1, s, e)
        BY <3>1, <4>4 DEF CancelDelayed, dq
      <4> QED BY <4>2, <4>3, <4>5
    <3>2. CASE ~Holds(s.delayed_queue, e)
      <4>1. s1 = [s EXCEPT !.event_queue = eq, !.nb_enqueued_to_cycle = nb]
        BY <1>6, <3>2
      <4> HIDE DEF s1
      <4>2. s1 \in States
        BY <1>1, <1>4, <1>7, <3>2, <4>1 DEF States
      <4>3. /\ SameClock(s1, s) /\ SameRun(s1, s) /\ s1.current_cycle = s.current_cycle
            /\ s1.period = s.period /\ s1.cycle = s.cycle /\ s1.enqueued = s.enqueued /\ SamePlan(s1, s)
        BY <1>1, <4>1 DEF States, SameClock, SameRun, SamePlan
      <4>4. /\ s1.delayed_queue = s.delayed_queue /\ s1.event_queue = eq
            /\ s1.nb_enqueued_to_cycle = nb
        BY <1>1, <4>1 DEF States
      <4>5. CancelBuffered(s1, s, e)
        BY <3>2, <4>4 DEF CancelBuffered, eq, nb
      <4> QED BY <4>2, <4>3, <4>5
    <3> QED BY <3>1, <3>2
  <2> HIDE DEF s1
  <2>2. u = [s1 EXCEPT !.enqueued = enq]
    BY <2>1 DEF enq
  <2> HIDE DEF u
  <2>3. u \in States
    BY <1>5, <2>1, <2>2 DEF States
  <2>4. /\ SameClock(u, s1) /\ SameRun(u, s1) /\ u.current_cycle = s1.current_cycle
        /\ u.period = s1.period /\ u.cycle = s1.cycle /\ u.enqueued = enq /\ SamePlan(u, s1)
        /\ u.delayed_queue = s1.delayed_queue /\ u.event_queue = s1.event_queue
        /\ u.nb_enqueued_to_cycle = s1.nb_enqueued_to_cycle
    BY <2>1, <2>2 DEF States, SameClock, SameRun, SamePlan
  <2>5. /\ SameClock(u, s) /\ SameRun(u, s) /\ SamePlan(u, s)
        /\ CancelDelayed(u, s, e) \/ CancelBuffered(u, s, e)
    BY <2>1, <2>4 DEF SameClock, SameRun, SamePlan, CancelDelayed, CancelBuffered
  <2> QED BY <2>1, <2>3, <2>4, <2>5
<1> HIDE DEF u
<1>10. CASE has_events(u)
  <2>1. t = u
    BY <1>8, <1>10
  <2> QED BY <1>5, <1>9, <1>10, <2>1 DEF Cancelled, SamePlan
<1>11. CASE ~has_events(u)
  <2>1. t = dequeue_from_engine(u)
    BY <1>8, <1>11
  <2>2. /\ t \in States /\ SameQueues(t, u) /\ SameClock(t, u) /\ SameRun(t, u)
        /\ t.period = u.period /\ t.next_event_time = u.next_event_time
        /\ t.is_enqueued => u.running /\ u.is_enqueued
    BY <1>9, <2>1, DequeueOK
  <2>3. SameClock(t, s) /\ SameRun(t, s) /\ t.current_cycle = s.current_cycle /\ t.period = s.period
        /\ t.cycle = s.cycle /\ Flagged(t.enqueued, s.enqueued, e, FALSE)
    BY <1>5, <1>9, <2>2 DEF SameClock, SameRun, SameQueues
  <2>4. ~has_events(t) /\ (CancelDelayed(t, s, e) \/ CancelBuffered(t, s, e))
    BY <1>9, <1>11, <2>2 DEF SameQueues, has_events, CancelDelayed, CancelBuffered
  <2>5. /\ t.next_event_time = s.next_event_time /\ (t.is_enqueued => s.is_enqueued)
        /\ s.running \/ ~t.is_enqueued
    BY <1>9, <2>2 DEF SamePlan, SameRun
  <2> QED BY <2>2, <2>3, <2>4, <2>5 DEF Cancelled
<1> QED BY <1>10, <1>11

(* cancel keeps a good state.                                               *)
LEMMA CancelGood ==
  ASSUME NEW s, Good(s), NEW e \in Events, NEW t, t = cancel(s, e)
  PROVE  /\ Good(t) /\ ~t.enqueued[e] /\ t.running = s.running /\ SameClock(t, s)
         /\ t.next_event_time = s.next_event_time
<1>1. s \in States /\ Queues(s) /\ Cycles(s) /\ Plan(s)
  BY DEF Good
<1>2. CASE ~s.enqueued[e]
  <2>1. t = s
    BY <1>2 DEF cancel
  <2> QED BY <1>2, <2>1 DEF SameClock
<1>3. CASE s.enqueued[e]
  <2>1. t \in States /\ Cancelled(t, s, e)
    BY <1>3, CancelShape
  <2>2. /\ SameClock(t, s) /\ SameRun(t, s) /\ t.current_cycle = s.current_cycle /\ t.cycle = s.cycle
        /\ Flagged(t.enqueued, s.enqueued, e, FALSE)
        /\ t.next_event_time = s.next_event_time /\ (t.is_enqueued => s.is_enqueued)
        /\ ~has_events(t) => s.running \/ ~t.is_enqueued
        /\ CancelDelayed(t, s, e) \/ CancelBuffered(t, s, e)
    BY <2>1 DEF Cancelled
  <2>3. /\ s.event_queue \in Buffer /\ s.delayed_queue \in Seq(Events) /\ s.current_cycle \in Slots
        /\ t.event_queue \in Buffer
    BY <1>1, <2>1 DEF States
  <2>4. Placed(s.event_queue, s.delayed_queue, s.enqueued) /\ Counted(s.event_queue, s.nb_enqueued_to_cycle)
    BY <1>1 DEF Queues
  <2>5. Queues(t) /\ Cycles(t)
    <3>1. CASE CancelDelayed(t, s, e)
      <4>1. /\ Holds(s.delayed_queue, e) /\ t.delayed_queue = RemoveFirst(s.delayed_queue, e)
            /\ t.event_queue = s.event_queue /\ t.nb_enqueued_to_cycle = s.nb_enqueued_to_cycle
        BY <3>1 DEF CancelDelayed
      <4>2. Placed(s.event_queue, t.delayed_queue, t.enqueued)
        BY <2>2, <2>3, <2>4, <4>1, LeaveDelayed
      <4>3. Queues(t)
        BY <2>4, <4>1, <4>2 DEF Queues
      <4>4. Cycles(t)
        BY <1>1, <2>2, <4>1 DEF Cycles, SameClock
      <4> QED BY <4>3, <4>4
    <3>2. CASE CancelBuffered(t, s, e)
      <4>1. /\ ~Holds(s.delayed_queue, e) /\ t.delayed_queue = s.delayed_queue
            /\ t.event_queue = [i \in Slots |-> RemoveFirst(s.event_queue[i], e)]
            /\ t.nb_enqueued_to_cycle = s.nb_enqueued_to_cycle - 1
        BY <3>2 DEF CancelBuffered
      <4>2. \A i \in Slots : Distinct(s.event_queue[i])
        BY <2>4 DEF Placed
      <4>3. Left(t.event_queue, s.event_queue, e) /\ \A j \in Slots : Distinct(t.event_queue[j])
        BY <2>3, <4>1, <4>2, RemoveEverywhere
      <4>4. PICK i \in Slots : Holds(s.event_queue[i], e)
        BY <1>3, <2>4, <4>1 DEF Placed
      <4>5. /\ Placed(t.event_queue, s.delayed_queue, t.enqueued)
            /\ Counted(t.event_queue, s.nb_enqueued_to_cycle - 1)
        BY <2>2, <2>3, <2>4, <4>3, <4>4, LeaveSlots
      <4>6. Queues(t)
        BY <4>1, <4>5 DEF Queues
      <4>7. Recycled(t.cycle, s.cycle, e)
        BY <2>2 DEF Recycled
      <4>8. SlotsOK(s.event_queue, s.current_cycle, s.cycles, s.cycle)
        BY <1>1 DEF Cycles
      <4>9. SlotsOK(t.event_queue, s.current_cycle, s.cycles, t.cycle)
        BY <2>3, <4>3, <4>7, <4>8, LeaveCycle
      <4>10. Cycles(t)
        BY <2>2, <4>9 DEF Cycles, SameClock
      <4> QED BY <4>6, <4>10
    <3> QED BY <2>2, <3>1, <3>2
  <2>6. Plan(t)
    BY <1>1, <2>2 DEF Plan, SameRun
  <2>7. ~t.enqueued[e]
    BY <2>2 DEF Flagged
  <2> QED BY <2>1, <2>2, <2>5, <2>6, <2>7 DEF Good, SameRun
<1> QED BY <1>2, <1>3

(* reenqueue keeps a good state: the cycle it computed is the one of the slot. *)
LEMMA ReenqueueGood ==
  ASSUME time \in Nat, NEW s, Good(s), NEW e \in Events, NEW n \in Nat, NEW t, t = reenqueue(s, e, n)
  PROVE  Good(t) /\ NextKept(t, s) /\ t.running = s.running
<1> DEFINE c == s.cycles + n
           u == cancel(s, e)
           v == enqueue(u, e, n)
<1>1. CASE s.enqueued[e] /\ c >= s.cycle[e]
  <2>1. t = s
    BY <1>1 DEF reenqueue
  <2> QED BY <2>1 DEF NextKept
<1>2. CASE ~(s.enqueued[e] /\ c >= s.cycle[e])
  <2>1. t = [v EXCEPT !.cycle[e] = c]
    BY <1>2 DEF reenqueue
  <2>2. /\ Good(u) /\ ~u.enqueued[e] /\ u.running = s.running /\ SameClock(u, s)
        /\ u.next_event_time = s.next_event_time
    BY CancelGood
  <2> HIDE DEF u
  <2>3. Good(v) /\ NextKept(v, u) /\ v.running = u.running
    BY <2>2, EnqueueGood
  <2>4. u \in States /\ s \in States /\ v \in States /\ Queues(v) /\ Cycles(v) /\ Plan(v)
    BY <2>2, <2>3 DEF Good
  <2>5. EnqueuedAt(v, u, e, n)
    BY <2>4, EnqueueShape
  <2> HIDE DEF v
  <2>6. c \in Nat /\ v.cycle \in [Events -> Nat]
    <3>1. s.cycles \in Nat
      BY <2>4 DEF States
    <3>2. v.cycle \in [Events -> Nat]
      BY <2>4 DEF States
    <3> QED BY <3>1, <3>2
  <2> DEFINE cy == [v.cycle EXCEPT ![e] = c]
  <2>7. cy \in [Events -> Nat] /\ t = [v EXCEPT !.cycle = cy] /\ Recycled(cy, v.cycle, e)
        /\ cy[e] = c
    BY <2>1, <2>6 DEF Recycled
  <2> HIDE DEF cy, c
  <2>8. t \in States
    BY <2>4, <2>7 DEF States
  <2>9. /\ t.event_queue = v.event_queue /\ t.delayed_queue = v.delayed_queue
        /\ t.current_cycle = v.current_cycle /\ t.nb_enqueued_to_cycle = v.nb_enqueued_to_cycle
        /\ t.enqueued = v.enqueued /\ t.cycle = cy
        /\ SameClock(t, v) /\ SamePlan(t, v) /\ SameRun(t, v)
    BY <2>4, <2>7 DEF States, SameClock, SamePlan, SameRun
  <2>10. Queues(t) /\ Plan(t) /\ NextKept(t, s) /\ t.running = s.running
    BY <2>2, <2>3, <2>4, <2>9 DEF Queues, Plan, NextKept, SamePlan, SameRun, has_events
  <2>11. SlotsOK(v.event_queue, v.current_cycle, v.cycles, v.cycle) /\ v.current_cycle \in Slots
    BY <2>4 DEF Cycles, States
  <2>12. SlotsOK(v.event_queue, v.current_cycle, v.cycles, cy)
    <3>1. CASE FastPath(v, u, e, n)
      <4>1. u.running
        BY <3>1 DEF FastPath
      <4>2. sync(u) = u
        BY <2>4, <4>1, SyncOK
      <4>3. v.cycle[e] = n + u.cycles /\ u.cycles = s.cycles
        BY <2>2, <2>5, <4>2 DEF EnqueuedAt, SameClock
      <4>4. cy[e] = v.cycle[e]
        BY <2>4, <2>7, <4>3 DEF c, States
      <4>5. \A x \in Events : cy[x] = v.cycle[x]
        BY <2>7, <4>4 DEF Recycled
      <4> QED BY <2>11, <4>5 DEF SlotsOK
    <3>2. CASE SlowPath(v, u, e, n)
      <4>1. v.event_queue = u.event_queue
        BY <3>2 DEF SlowPath
      <4>2. Absent(u.event_queue, e)
        BY <2>2 DEF Good, Queues, Placed, Absent
      <4> QED BY <2>7, <2>11, <4>1, <4>2, OtherCycle
    <3> QED BY <2>5, <3>1, <3>2 DEF EnqueuedAt
  <2>13. Cycles(t)
    BY <2>9, <2>12 DEF Cycles, SameClock
  <2> QED BY <2>8, <2>10, <2>13 DEF Good
<1> QED BY <1>1, <1>2

(* An engine with events has a next event.                                  *)
LEMMA NextEventOK ==
  ASSUME NEW s, Good(s), has_events(s)
  PROVE  get_next_event(s) \in Events
<1>1. s \in States /\ Counted(s.event_queue, s.nb_enqueued_to_cycle)
  BY DEF Good, Queues
<1>2. /\ s.event_queue \in Buffer /\ s.delayed_queue \in Seq(Events) /\ s.current_cycle \in Slots
      /\ s.nb_enqueued_to_cycle \in Nat
  BY <1>1 DEF States
<1>3. CASE s.nb_enqueued_to_cycle > 0
  <2> DEFINE T == {n \in Slots : s.event_queue[Slot(s, n)] # <<>>}
  <2>1. PICK i \in Slots, e \in Events : Holds(s.event_queue[i], e)
    BY <1>1, <1>2, <1>3, EmptyBuffer
  <2>2. PICK n \in Slots : (s.current_cycle + n) % QueueSize = i
    BY <1>2, CircleFull
  <2>3. s.event_queue[i] # <<>>
    <3>1. s.event_queue[i] \in Seq(Events)
      BY <1>2 DEF Buffer
    <3> QED BY <2>1, <3>1, EmptyList
  <2>4. n \in T
    BY <2>2, <2>3 DEF Slot
  <2>5. T \in SUBSET Nat
    BY ClockEngineAssumption DEF Slots
  <2>6. PICK m \in T : \A y \in T : m <= y
    <3> HIDE DEF T
    <3> QED BY <2>4, <2>5, Least
  <2>7. ASSUME NEW k \in 0..(m - 1) PROVE s.event_queue[Slot(s, k)] = <<>>
    <3>1. m \in Slots
      BY <2>6
    <3>2. k \in Slots /\ ~(m <= k)
      BY <3>1, ClockEngineAssumption DEF Slots
    <3> QED BY <2>6, <3>2
  <2>8. \E q \in Slots : /\ s.event_queue[Slot(s, q)] # <<>>
                         /\ \A k \in 0..(q - 1) : s.event_queue[Slot(s, k)] = <<>>
    BY <2>6, <2>7
  <2> DEFINE q == CHOOSE q \in Slots : /\ s.event_queue[Slot(s, q)] # <<>>
                                       /\ \A k \in 0..(q - 1) : s.event_queue[Slot(s, k)] = <<>>
  <2>9. q \in Slots /\ s.event_queue[Slot(s, q)] # <<>>
    BY <2>8
  <2>10. get_next_event(s) = Head(s.event_queue[Slot(s, q)])
    BY <1>3 DEF get_next_event
  <2> HIDE DEF q
  <2>11. Slot(s, q) \in Slots
    BY <1>2, <2>9, Circle DEF Slot
  <2>12. s.event_queue[Slot(s, q)] \in Seq(Events)
    BY <1>2, <2>11 DEF Buffer
  <2> QED BY <2>9, <2>10, <2>12
<1>4. CASE ~(s.nb_enqueued_to_cycle > 0)
  <2>1. s.delayed_queue # <<>> /\ get_next_event(s) = Head(s.delayed_queue)
    BY <1>4 DEF has_events, get_next_event
  <2> QED BY <1>2, <2>1
<1> QED BY <1>3, <1>4

(* A plan of the time engine keeps a good state with events.                *)
LEMMA PlanGood ==
  ASSUME time \in Nat, NEW s, Good(s), has_events(s), NEW delay \in Int,
         NEW t, t = EnqueueToEngine(s, delay)
  PROVE  Good(t) /\ t.running = s.running /\ NextKept(t, s)
<1>1. s \in States /\ Queues(s) /\ Cycles(s) /\ Plan(s)
  BY DEF Good
<1>2. /\ t \in States /\ SameQueues(t, s) /\ SameClock(t, s) /\ SameRun(t, s)
      /\ s.running => t = s
      /\ ~s.running => t.is_enqueued
  BY <1>1, EnqueueToEngineOK
<1>3. Queues(t) /\ Cycles(t)
  BY <1>1, <1>2 DEF Queues, Cycles, SameQueues, SameClock
<1>4. Plan(t)
  BY <1>1, <1>2 DEF Plan, SameQueues, SameRun, has_events
<1>5. NextKept(t, s)
  BY <1>2 DEF NextKept
<1> QED BY <1>2, <1>3, <1>4, <1>5 DEF Good, SameRun

(* A change of the frequency keeps a good state.                            *)
LEMMA FrequencyGood ==
  ASSUME time \in Nat, NEW s, Good(s), NEW period \in Periods, NEW t, t = apply_frequency(s, period)
  PROVE  Good(t) /\ t.running = s.running /\ NextKept(t, s)
<1>1. s \in States /\ Queues(s) /\ Cycles(s) /\ Plan(s)
  BY DEF Good
<1> DEFINE out == dequeue_from_engine(s)
           taken == s.is_enqueued /\ ~s.running
           new == [out EXCEPT !.period = period]
           left == Quotient(s.next_event_time - time, s.period)
           ahead == s.cycle[get_next_event(s)] - s.cycles
<1>2. /\ out \in States /\ SameQueues(out, s) /\ SameClock(out, s) /\ SameRun(out, s)
      /\ out.next_event_time = s.next_event_time
      /\ out.is_enqueued => s.running /\ s.is_enqueued
  BY <1>1, DequeueOK
<1>3. t = IF period = 0 THEN new
          ELSE IF taken /\ s.period > 0 THEN EnqueueToEngine(new, left * period)
          ELSE IF s.period = 0 /\ has_events(s) THEN EnqueueToEngine(new, ahead * period)
          ELSE new
  BY DEF apply_frequency
<1> HIDE DEF out
<1>4. new \in States
  BY <1>2 DEF States
<1>5. /\ SameQueues(new, out) /\ SameClock(new, out) /\ SameRun(new, out) /\ SamePlan(new, out)
  BY <1>2 DEF States, SameQueues, SameClock, SameRun, SamePlan
<1> HIDE DEF new
<1>6. /\ Queues(new) /\ Cycles(new) /\ new.running = s.running
      /\ new.next_event_time = s.next_event_time /\ (has_events(new) <=> has_events(s))
  BY <1>1, <1>2, <1>5 DEF Queues, Cycles, SameQueues, SameClock, SameRun, SamePlan, has_events
<1>7. Plan(new)
  BY <1>1, <1>2, <1>5 DEF Plan, SamePlan
<1>8. Good(new) /\ NextKept(new, s)
  BY <1>4, <1>6, <1>7 DEF Good, NextKept
<1>9. s.next_event_time \in Int /\ s.cycles \in Nat /\ s.cycle \in [Events -> Nat] /\ s.period \in Periods
  BY <1>1 DEF States
<1>10. s.period \in Nat /\ period \in Nat
  BY <1>9, ClockEngineAssumption
<1>11. CASE taken /\ s.period > 0 /\ period # 0
  <2>1. left \in Int
    <3> DEFINE a == s.next_event_time - time
    <3>1. a \in Int
      BY <1>9
    <3> HIDE DEF a
    <3>2. CASE a >= 0
      BY <1>10, <1>11, <3>1, <3>2 DEF Quotient, a
    <3>3. CASE ~(a >= 0)
      <4>1. (-a) \div s.period \in Int
        BY <1>10, <1>11, <3>1
      <4>2. left = -((-a) \div s.period)
        BY <3>3 DEF Quotient, a
      <4> QED BY <4>1, <4>2
    <3> QED BY <3>2, <3>3
  <2> HIDE DEF left
  <2> DEFINE d == left * period
  <2>2. d \in Int
    BY <1>10, <2>1
  <2>3. t = EnqueueToEngine(new, d)
    BY <1>3, <1>11
  <2>4. has_events(new)
    BY <1>1, <1>6, <1>11 DEF Plan
  <2> HIDE DEF d, taken
  <2>5. Good(t) /\ t.running = new.running /\ NextKept(t, new)
    BY <1>8, <2>2, <2>3, <2>4, PlanGood
  <2> QED BY <1>6, <2>5 DEF NextKept
<1>12. CASE s.period = 0 /\ has_events(s) /\ period # 0
  <2>1. ahead \in Int
    <3>1. get_next_event(s) \in Events
      BY <1>12, NextEventOK
    <3> QED BY <1>9, <3>1
  <2> HIDE DEF ahead
  <2> DEFINE d == ahead * period
  <2>2. d \in Int
    BY <1>10, <2>1
  <2>3. t = EnqueueToEngine(new, d)
    BY <1>3, <1>12
  <2>4. has_events(new)
    BY <1>6, <1>12
  <2> HIDE DEF d, taken
  <2>5. Good(t) /\ t.running = new.running /\ NextKept(t, new)
    BY <1>8, <2>2, <2>3, <2>4, PlanGood
  <2> QED BY <1>6, <2>5 DEF NextKept
<1>13. CASE t = new
  BY <1>6, <1>8, <1>13
<1> HIDE DEF taken, left, ahead
<1> QED BY <1>3, <1>10, <1>11, <1>12, <1>13

(* The window of the buffer.                                                *)
Fits(s, i) == s.cycle[s.delayed_queue[i]] - s.cycles \in Slots

(* The delayed events up to the first one outside the window.               *)
Window(s, k) ==
  /\ \A i \in 1..k : Fits(s, i)
  /\ k < Len(s.delayed_queue) => ~Fits(s, k + 1)

(* There is such a number.                                                  *)
LEMMA FlushCountOK ==
  ASSUME NEW s \in States
  PROVE  FlushCount(s) \in 0..Len(s.delayed_queue) /\ Window(s, FlushCount(s))
<1> DEFINE l == Len(s.delayed_queue)
           T == {j \in 0..l : j < l => ~Fits(s, j + 1)}
<1>1. l \in Nat
  BY DEF States
<1> HIDE DEF l
<1>2. l \in T /\ T \in SUBSET Nat
  BY <1>1
<1>3. PICK k \in T : \A y \in T : k <= y
  <2> HIDE DEF T
  <2> QED BY <1>2, Least
<1>4. ASSUME NEW i \in 1..k PROVE Fits(s, i)
  <2>1. k \in 0..l
    BY <1>3
  <2>2. i - 1 \in 0..l /\ ~(k <= i - 1) /\ (i - 1) + 1 = i
    BY <1>1, <2>1
  <2>3. i - 1 \notin T
    BY <1>3, <2>2
  <2> QED BY <2>2, <2>3
<1>5. k \in 0..l /\ Window(s, k)
  BY <1>3, <1>4 DEF Window, l
<1>6. FlushCount(s) = CHOOSE j \in 0..Len(s.delayed_queue) : Window(s, j)
  BY DEF FlushCount, Window, Fits
<1>7. \E j \in 0..Len(s.delayed_queue) : Window(s, j)
  BY <1>5 DEF l
<1> QED BY <1>6, <1>7

(* The state before the flush: an empty buffer jumps to the first delayed event. *)
Jumps(s) == s.nb_enqueued_to_cycle = 0 /\ s.delayed_queue # <<>>

(* What the flush of the delayed queue leaves.                              *)
Flushed(t, s) ==
  /\ t.stop_time = s.stop_time /\ t.current_cycle = s.current_cycle /\ t.period = s.period
  /\ t.enqueued = s.enqueued /\ t.cycle = s.cycle /\ t.running = s.running /\ SamePlan(t, s)
  /\ ~t.must_flush_delayed_queue
  /\ Jumps(s) => t.cycles = s.cycle[Head(s.delayed_queue)]
  /\ ~Jumps(s) => t.cycles = s.cycles
  /\ \E k \in 0..Len(s.delayed_queue) :
       /\ \A i \in 1..k : s.cycle[s.delayed_queue[i]] - t.cycles \in Slots
       /\ k < Len(s.delayed_queue) => s.cycle[s.delayed_queue[k + 1]] - t.cycles \notin Slots
       /\ t.delayed_queue = SubSeq(s.delayed_queue, k + 1, Len(s.delayed_queue))

(* The flush keeps a good state.                                            *)
LEMMA FlushGood ==
  ASSUME NEW s, Good(s), ~s.is_enqueued, NEW t, t = flush_delayed_queue(s)
  PROVE  Good(t) /\ Flushed(t, s)
<1>1. s \in States /\ Queues(s) /\ Cycles(s)
  BY DEF Good
<1>2. /\ s.event_queue \in Buffer /\ s.delayed_queue \in Seq(Events) /\ s.current_cycle \in Slots
      /\ s.cycle \in [Events -> Nat] /\ s.cycles \in Nat /\ s.nb_enqueued_to_cycle \in Nat
  BY <1>1 DEF States
<1> DEFINE dq == s.delayed_queue
           s0 == IF s.nb_enqueued_to_cycle = 0 /\ s.delayed_queue # <<>>
                 THEN [s EXCEPT !.cycles = s.cycle[Head(s.delayed_queue)]] ELSE s
           k == FlushCount(s0)
           sl == [m \in 1..k |-> (s.current_cycle + (s.cycle[dq[m]] - s0.cycles)) % QueueSize]
           Code(q) == [j \in 0..k |-> IF j = 0 THEN s.event_queue
                         ELSE [q[j - 1] EXCEPT ![Slot(s0, s0.cycle[s.delayed_queue[j]] - s0.cycles)] =
                                                 <<s.delayed_queue[j]>> \o @]]
           queue == CHOOSE queue : queue = Code(queue)
           rest == SubSeq(dq, k + 1, Len(dq))
           nb == s.nb_enqueued_to_cycle + k
<1>3. /\ s0 \in States /\ SameQueues(s0, s) /\ SamePlan(s0, s) /\ SameRun(s0, s)
      /\ s0.period = s.period /\ s0.stop_time = s.stop_time
      /\ Jumps(s) => s0.cycles = s.cycle[Head(s.delayed_queue)]
      /\ ~Jumps(s) => s0.cycles = s.cycles
  <2>1. CASE Jumps(s)
    <3> DEFINE c == s.cycle[Head(s.delayed_queue)]
    <3>1. Head(s.delayed_queue) \in Events
      BY <1>2, <2>1 DEF Jumps
    <3>2. c \in Nat
      BY <1>2, <3>1
    <3> HIDE DEF c
    <3>3. s0 = [s EXCEPT !.cycles = c]
      BY <2>1 DEF Jumps, c
    <3> HIDE DEF s0
    <3>4. s0 \in States
      BY <1>1, <3>2, <3>3 DEF States
    <3>5. /\ SameQueues(s0, s) /\ SamePlan(s0, s) /\ SameRun(s0, s)
          /\ s0.period = s.period /\ s0.stop_time = s.stop_time /\ s0.cycles = c
      BY <1>1, <3>3 DEF States, SameQueues, SamePlan, SameRun
    <3> QED BY <2>1, <3>4, <3>5 DEF c
  <2>2. CASE ~Jumps(s)
    <3>1. s0 = s
      BY <2>2 DEF Jumps
    <3> QED BY <1>1, <2>2, <3>1 DEF SameQueues, SamePlan, SameRun
  <2> QED BY <2>1, <2>2
<1> HIDE DEF s0
<1>4. s0.cycles \in Nat /\ s0.delayed_queue = dq /\ s0.cycle = s.cycle /\ s0.current_cycle = s.current_cycle
  BY <1>3 DEF States, SameQueues
<1>5. SlotsOK(s.event_queue, s.current_cycle, s0.cycles, s.cycle)
  <2>1. CASE Jumps(s)
    <3>1. \A i \in Slots, e \in Events : ~Holds(s.event_queue[i], e)
      BY <1>1, <1>2, <2>1, EmptyBuffer DEF Queues, Jumps
    <3> QED BY <1>2, <3>1, EmptyCycle
  <2>2. CASE ~Jumps(s)
    BY <1>1, <1>3, <2>2 DEF Cycles
  <2> QED BY <2>1, <2>2
<1>6. k \in 0..Len(dq) /\ Window(s0, k)
  BY <1>3, <1>4, FlushCountOK
<1>7. t = [s0 EXCEPT !.must_flush_delayed_queue = FALSE,
                     !.delayed_queue = SubSeq(@, k + 1, Len(@)),
                     !.nb_enqueued_to_cycle = @ + k,
                     !.event_queue = queue[k]]
  BY DEF flush_delayed_queue, s0
<1> HIDE DEF k
<1>8. /\ k \in Nat /\ \A i \in 1..k : i \in 1..Len(dq) /\ dq[i] \in Events /\ s.cycle[dq[i]] \in Nat
      /\ \A i \in 1..k : s.cycle[dq[i]] - s0.cycles \in Slots
      /\ k < Len(dq) => s.cycle[dq[k + 1]] - s0.cycles \notin Slots
  <2>1. k \in Nat /\ \A i \in 1..k : i \in 1..Len(dq)
    BY <1>2, <1>6
  <2>2. \A i \in 1..k : dq[i] \in Events
    BY <1>2, <2>1
  <2>3. \A i \in 1..k : s.cycle[dq[i]] \in Nat
    BY <1>2, <2>2
  <2>4. \A i \in 1..k : s.cycle[dq[i]] - s0.cycles \in Slots
    BY <1>4, <1>6 DEF Window, Fits
  <2>5. k < Len(dq) => s.cycle[dq[k + 1]] - s0.cycles \notin Slots
    BY <1>4, <1>6 DEF Window, Fits
  <2> QED BY <2>1, <2>2, <2>3, <2>4, <2>5
<1>9. sl \in [1..k -> Slots]
  BY <1>2, <1>8, Circle
<1>10. SlotsOf(sl, dq, k, s.current_cycle, s0.cycles, s.cycle)
  <2>1. ASSUME NEW m \in 1..k
        PROVE  \E n \in Slots : s.cycle[dq[m]] = s0.cycles + n /\ sl[m] = (s.current_cycle + n) % QueueSize
    <3> DEFINE n == s.cycle[dq[m]] - s0.cycles
    <3>1. n \in Slots /\ sl[m] = (s.current_cycle + n) % QueueSize
      BY <1>8
    <3>2. s.cycle[dq[m]] = s0.cycles + n
      BY <1>4, <1>8
    <3> QED BY <3>1, <3>2
  <2> QED BY <2>1 DEF SlotsOf
<1>11. Moves(queue, s.event_queue, dq, sl, k)
  <2> DEFINE Proof(q) == [j \in 0..k |-> IF j = 0 THEN s.event_queue
                            ELSE [q[j - 1] EXCEPT ![sl[j]] = <<dq[j]>> \o @]]
  <2>1. ASSUME NEW q PROVE Code(q) = Proof(q)
    <3>1. ASSUME NEW j \in 0..k, j # 0
          PROVE  sl[j] = Slot(s0, s0.cycle[s.delayed_queue[j]] - s0.cycles)
      <4>1. j \in 1..k
        BY <1>8, <3>1
      <4> QED BY <1>4, <4>1 DEF Slot
    <3> HIDE DEF sl
    <3> QED BY <3>1
  <2> HIDE DEF sl, Code
  <2>2. PICK q : Moves(q, s.event_queue, dq, sl, k)
    BY <1>2, <1>6, <1>9, MovesExist
  <2>3. q = Proof(q)
    BY <2>2 DEF Moves
  <2> HIDE DEF Proof
  <2>4. q = Code(q)
    BY <2>1, <2>3
  <2>5. queue = Code(queue)
    BY <2>4
  <2>6. queue = Proof(queue)
    BY <2>1, <2>5
  <2> QED BY <2>6 DEF Moves, Proof
<1> HIDE DEF sl, queue
<1>12. Placed(s.event_queue, dq, s.enqueued) /\ Counted(s.event_queue, s.nb_enqueued_to_cycle)
  BY <1>1 DEF Queues
<1>13. /\ queue[k] \in Buffer /\ Placed(queue[k], rest, s.enqueued)
       /\ Counted(queue[k], nb) /\ MovedTo(queue[k], s.event_queue, dq, sl, k)
       /\ rest \in Seq(Events)
  BY <1>2, <1>6, <1>9, <1>11, <1>12, FlushQueues
<1>14. t = [s0 EXCEPT !.must_flush_delayed_queue = FALSE, !.delayed_queue = rest,
                      !.nb_enqueued_to_cycle = nb, !.event_queue = queue[k]]
  BY <1>3, <1>4, <1>7 DEF SameQueues
<1>15. nb \in Nat
  BY <1>2, <1>8
<1> DEFINE b == queue[k]
<1> HIDE DEF rest, nb, b
<1>16. t = [s0 EXCEPT !.must_flush_delayed_queue = FALSE, !.delayed_queue = rest,
                      !.nb_enqueued_to_cycle = nb, !.event_queue = b]
  BY <1>14 DEF b
<1>17. b \in Buffer
  BY <1>13 DEF b
<1>18. t \in States
  BY <1>3, <1>13, <1>15, <1>16, <1>17 DEF States
<1>19. /\ t.event_queue = b /\ t.delayed_queue = rest /\ t.nb_enqueued_to_cycle = nb
       /\ t.current_cycle = s0.current_cycle /\ t.enqueued = s0.enqueued /\ t.cycle = s0.cycle
       /\ t.running = s0.running /\ t.period = s0.period /\ SameClock(t, s0) /\ SamePlan(t, s0)
       /\ ~t.must_flush_delayed_queue
  BY <1>3, <1>16 DEF States, SameClock, SamePlan
<1>20. Queues(t)
  BY <1>3, <1>13, <1>19 DEF Queues, SameQueues, b
<1>21. Cycles(t)
  <2>1. MovedTo(b, s.event_queue, dq, sl, k)
    BY <1>13 DEF b
  <2>2. SlotsOK(b, s.current_cycle, s0.cycles, s.cycle)
    BY <1>2, <1>5, <1>10, <2>1, FlushCycle
  <2> QED BY <1>4, <1>19, <2>2 DEF Cycles, SameClock
<1>22. Plan(t)
  BY <1>3, <1>19 DEF Plan, SamePlan
<1>23. Flushed(t, s)
  <2>1. /\ t.stop_time = s.stop_time /\ t.current_cycle = s.current_cycle /\ t.period = s.period
        /\ t.enqueued = s.enqueued /\ t.cycle = s.cycle /\ t.running = s.running /\ SamePlan(t, s)
        /\ t.cycles = s0.cycles
    BY <1>3, <1>19 DEF SameQueues, SameRun, SamePlan, SameClock
  <2>2. \E j \in 0..Len(s.delayed_queue) :
          /\ \A i \in 1..j : s.cycle[s.delayed_queue[i]] - t.cycles \in Slots
          /\ j < Len(s.delayed_queue) => s.cycle[s.delayed_queue[j + 1]] - t.cycles \notin Slots
          /\ t.delayed_queue = SubSeq(s.delayed_queue, j + 1, Len(s.delayed_queue))
    BY <1>6, <1>8, <1>19, <2>1 DEF rest
  <2> QED BY <1>3, <1>19, <2>1, <2>2 DEF Flushed
<1> QED BY <1>18, <1>20, <1>21, <1>22, <1>23 DEF Good

-----------------------------------------------------------------------------
(* exec().                                                                  *)

(* The state in which exec() starts.                                        *)
LEMMA StartGood ==
  ASSUME NEW s, Good(s), NEW t, t = [s EXCEPT !.is_enqueued = FALSE, !.running = TRUE]
  PROVE  /\ Good(t) /\ ~t.is_enqueued /\ t.running /\ SameQueues(t, s) /\ SameClock(t, s)
         /\ t.next_event_time = s.next_event_time /\ t.period = s.period
         /\ t.must_flush_delayed_queue = s.must_flush_delayed_queue
<1>1. s \in States /\ Queues(s) /\ Cycles(s)
  BY DEF Good
<1>2. t \in States
  BY <1>1 DEF States
<1>3. /\ ~t.is_enqueued /\ t.running /\ SameQueues(t, s) /\ SameClock(t, s)
      /\ t.next_event_time = s.next_event_time /\ t.period = s.period
      /\ t.must_flush_delayed_queue = s.must_flush_delayed_queue
  BY <1>1 DEF States, SameQueues, SameClock
<1>4. Queues(t) /\ Cycles(t)
  BY <1>1, <1>3 DEF Queues, Cycles, SameQueues, SameClock
<1>5. Plan(t)
  BY <1>3 DEF Plan
<1> QED BY <1>2, <1>3, <1>4, <1>5 DEF Good

(* The first event of the current slot is taken out.                        *)
Popped(t, s, e) ==
  /\ SameClock(t, s) /\ SameRun(t, s) /\ SamePlan(t, s)
  /\ t.current_cycle = s.current_cycle /\ t.period = s.period
  /\ t.cycle = s.cycle /\ Flagged(t.enqueued, s.enqueued, e, FALSE)
  /\ t.delayed_queue = s.delayed_queue /\ Left(t.event_queue, s.event_queue, e)
  /\ Holds(s.event_queue[s.current_cycle], e)

(* The execution of an event keeps a good state.                            *)
LEMMA RunGood ==
  ASSUME NEW s, Good(s), s.running, s.event_queue[s.current_cycle] # <<>>, NEW e,
         e = Head(s.event_queue[s.current_cycle]), NEW t,
         t = [s EXCEPT !.event_queue[s.current_cycle] = Tail(@), !.enqueued[e] = FALSE,
                       !.nb_enqueued_to_cycle = @ - 1]
  PROVE  Good(t) /\ Popped(t, s, e) /\ e \in Events
<1>1. s \in States /\ Queues(s) /\ Cycles(s) /\ Plan(s)
  BY DEF Good
<1>2. /\ s.event_queue \in Buffer /\ s.delayed_queue \in Seq(Events) /\ s.current_cycle \in Slots
      /\ s.nb_enqueued_to_cycle \in Nat /\ s.enqueued \in [Events -> BOOLEAN]
  BY <1>1 DEF States
<1> DEFINE i == s.current_cycle
           q == s.event_queue[i]
           eq == [s.event_queue EXCEPT ![i] = Tail(@)]
           enq == [s.enqueued EXCEPT ![e] = FALSE]
           nb == s.nb_enqueued_to_cycle - 1
<1>3. Placed(s.event_queue, s.delayed_queue, s.enqueued) /\ Counted(s.event_queue, s.nb_enqueued_to_cycle)
  BY <1>1 DEF Queues
<1>4. q \in Seq(Events) /\ Distinct(q) /\ i \in Slots /\ q # <<>> /\ e = Head(q)
  BY <1>2, <1>3 DEF Buffer, Placed
<1>5. t = [s EXCEPT !.event_queue = eq, !.enqueued = enq, !.nb_enqueued_to_cycle = nb]
  OBVIOUS
<1> HIDE DEF q
<1>6. /\ e \in Events /\ Holds(q, e)
      /\ Tail(q) \in Seq(Events) /\ Distinct(Tail(q))
      /\ \A x \in Events : Holds(Tail(q), x) <=> Holds(q, x) /\ x # e
  BY <1>4, TailOK
<1>7. eq[i] = Tail(q) /\ \A j \in Slots : j # i => eq[j] = s.event_queue[j]
  BY <1>2 DEF Buffer, q
<1>8. eq \in Buffer
  BY <1>2, <1>6 DEF Buffer, q
<1>9. enq \in [Events -> BOOLEAN] /\ Flagged(enq, s.enqueued, e, FALSE)
  BY <1>2, <1>6 DEF Flagged
<1> HIDE DEF eq, enq
<1>10. \A j \in Slots : Distinct(eq[j])
  BY <1>3, <1>6, <1>7 DEF Placed
<1>11. Left(eq, s.event_queue, e)
  <2>1. ASSUME NEW j \in Slots, NEW x \in Events
        PROVE  Holds(eq[j], x) <=> Holds(s.event_queue[j], x) /\ x # e
    <3>1. CASE j = i
      BY <1>6, <1>7, <3>1 DEF q
    <3>2. CASE j # i
      <4>1. ~Holds(s.event_queue[j], e)
        BY <1>3, <1>4, <1>6, <3>2 DEF Placed, q
      <4> QED BY <1>7, <3>2, <4>1
    <3> QED BY <3>1, <3>2
  <2> QED BY <2>1 DEF Left
<1>12. Placed(eq, s.delayed_queue, enq) /\ Counted(eq, nb) /\ nb \in Nat
  <2>1. Holds(s.event_queue[i], e)
    BY <1>6 DEF q
  <2>2. /\ Placed(eq, s.delayed_queue, enq) /\ Counted(eq, s.nb_enqueued_to_cycle - 1)
        /\ s.nb_enqueued_to_cycle > 0
    BY <1>2, <1>3, <1>4, <1>6, <1>8, <1>9, <1>10, <1>11, <2>1, LeaveSlots
  <2> QED BY <1>2, <2>2
<1> HIDE DEF nb, i
<1>13. t \in States
  BY <1>1, <1>5, <1>8, <1>9, <1>12 DEF States
<1>14. /\ t.event_queue = eq /\ t.enqueued = enq /\ t.nb_enqueued_to_cycle = nb
       /\ t.delayed_queue = s.delayed_queue /\ t.current_cycle = s.current_cycle /\ t.cycle = s.cycle
       /\ t.period = s.period /\ SameClock(t, s) /\ SameRun(t, s) /\ SamePlan(t, s)
  BY <1>1, <1>5 DEF States, SameClock, SameRun, SamePlan
<1>15. Queues(t)
  BY <1>12, <1>14 DEF Queues
<1>16. Cycles(t)
  <2>1. Recycled(t.cycle, s.cycle, e)
    BY <1>14 DEF Recycled
  <2>2. SlotsOK(s.event_queue, s.current_cycle, s.cycles, s.cycle)
    BY <1>1 DEF Cycles
  <2>3. SlotsOK(eq, s.current_cycle, s.cycles, t.cycle)
    BY <1>2, <1>6, <1>11, <2>1, <2>2, LeaveCycle
  <2> QED BY <1>14, <2>3 DEF Cycles, SameClock
<1>17. Plan(t)
  BY <1>1, <1>14 DEF Plan, SamePlan
<1>18. Popped(t, s, e)
  BY <1>6, <1>9, <1>11, <1>14 DEF Popped, q, i
<1> QED BY <1>6, <1>13, <1>15, <1>16, <1>17, <1>18 DEF Good

(* The engine goes back to the time engine.                                 *)
LEMMA LeaveGood ==
  ASSUME time \in Nat, NEW s, Good(s), s.running, NEW d \in Int, d > 0 => has_events(s),
         NEW t, t = Leave(s, d)
  PROVE  /\ Good(t) /\ ~t.running /\ (t.is_enqueued <=> d > 0) /\ NextKept(t, s)
         /\ t.is_enqueued => t.next_event_time = time + d
         /\ SameQueues(t, s) /\ SameClock(t, s) /\ t.period = s.period
         /\ t.must_flush_delayed_queue = s.must_flush_delayed_queue
<1>1. s \in States /\ Queues(s) /\ Cycles(s) /\ Plan(s) /\ ~s.is_enqueued
  BY DEF Good, Plan
<1>2. /\ t \in States /\ SameQueues(t, s) /\ SameClock(t, s) /\ t.period = s.period
      /\ ~t.running /\ (t.is_enqueued <=> d > 0)
      /\ t.must_flush_delayed_queue = s.must_flush_delayed_queue
      /\ t.is_enqueued => t.next_event_time = time + d
      /\ ~t.is_enqueued => t.next_event_time = s.next_event_time
  <2>1. CASE d > 0
    <3>1. t = [s EXCEPT !.running = FALSE, !.is_enqueued = TRUE, !.next_event_time = time + d]
      BY <2>1 DEF Leave
    <3>2. time + d \in Int
      OBVIOUS
    <3>3. t \in States
      BY <1>1, <3>1, <3>2 DEF States
    <3> QED BY <1>1, <2>1, <3>1, <3>3 DEF States, SameQueues, SameClock
  <2>2. CASE ~(d > 0)
    <3>1. t = [s EXCEPT !.running = FALSE]
      BY <2>2 DEF Leave
    <3>3. t \in States
      BY <1>1, <3>1 DEF States
    <3> QED BY <1>1, <2>2, <3>1, <3>3 DEF States, SameQueues, SameClock
  <2> QED BY <2>1, <2>2
<1>3. Queues(t) /\ Cycles(t)
  BY <1>1, <1>2 DEF Queues, Cycles, SameQueues, SameClock
<1>4. Plan(t)
  BY <1>2 DEF Plan, SameQueues, has_events
<1> QED BY <1>2, <1>3, <1>4 DEF Good, NextKept

(* One cycle is over.                                                       *)
LEMMA EndCycleGood ==
  ASSUME NEW s, Good(s), s.event_queue[s.current_cycle] = <<>>, NEW t, t = EndCycle(s)
  PROVE  /\ Good(t) /\ t.cycles = s.cycles + 1 /\ t.current_cycle = (s.current_cycle + 1) % QueueSize
         /\ t.event_queue = s.event_queue /\ t.delayed_queue = s.delayed_queue
         /\ t.nb_enqueued_to_cycle = s.nb_enqueued_to_cycle
         /\ t.enqueued = s.enqueued /\ t.cycle = s.cycle /\ t.period = s.period
         /\ t.running = s.running /\ SamePlan(t, s) /\ t.stop_time = s.stop_time
         /\ t.must_flush_delayed_queue <=> s.must_flush_delayed_queue \/ t.current_cycle = 0
<1>1. s \in States /\ Queues(s) /\ Cycles(s) /\ Plan(s)
  BY DEF Good
<1>2. /\ s.event_queue \in Buffer /\ s.current_cycle \in Slots /\ s.cycles \in Nat
      /\ s.must_flush_delayed_queue \in BOOLEAN
  BY <1>1 DEF States
<1> DEFINE c == (s.current_cycle + 1) % QueueSize
           f == s.must_flush_delayed_queue \/ c = 0
           n == s.cycles + 1
<1>3. \A e \in Events : ~Holds(s.event_queue[s.current_cycle], e)
  BY DEF Holds
<1>4. c \in Slots /\ SlotsOK(s.event_queue, c, n, s.cycle)
  BY <1>1, <1>2, <1>3, ShiftCycle DEF Cycles
<1>5. t = [s EXCEPT !.cycles = n, !.current_cycle = c, !.must_flush_delayed_queue = f]
  BY DEF EndCycle
<1>6. n \in Nat /\ f \in BOOLEAN
  BY <1>2
<1> HIDE DEF c, f, n
<1>7. t \in States
  BY <1>1, <1>4, <1>5, <1>6 DEF States
<1>8. /\ t.cycles = n /\ t.current_cycle = c
      /\ t.event_queue = s.event_queue /\ t.delayed_queue = s.delayed_queue
      /\ t.nb_enqueued_to_cycle = s.nb_enqueued_to_cycle
      /\ t.enqueued = s.enqueued /\ t.cycle = s.cycle /\ t.period = s.period
      /\ t.running = s.running /\ SamePlan(t, s) /\ t.stop_time = s.stop_time
      /\ t.must_flush_delayed_queue = f
  BY <1>1, <1>5 DEF States, SamePlan
<1>9. Queues(t) /\ Cycles(t)
  BY <1>1, <1>4, <1>8 DEF Queues, Cycles
<1>10. Plan(t)
  BY <1>1, <1>8 DEF Plan, SamePlan, has_events
<1> QED BY <1>7, <1>8, <1>9, <1>10 DEF Good, n, c, f

(* The buffer is empty.                                                     *)
LEMMA EndIdleGood ==
  ASSUME time \in Nat, NEW s, Good(s), NEW t, t = EndIdle(s)
  PROVE  /\ Good(t) /\ t.cycles = s.cycles /\ t.stop_time = time /\ SameQueues(t, s)
         /\ t.period = s.period /\ t.running = s.running /\ SamePlan(t, s) /\ t.must_flush_delayed_queue
<1>1. s \in States /\ Queues(s) /\ Cycles(s) /\ Plan(s)
  BY DEF Good
<1>2. t = [s EXCEPT !.must_flush_delayed_queue = TRUE, !.stop_time = time]
  BY DEF EndIdle
<1>3. t \in States
  BY <1>1, <1>2 DEF States
<1>4. /\ t.cycles = s.cycles /\ t.stop_time = time /\ SameQueues(t, s)
      /\ t.period = s.period /\ t.running = s.running /\ SamePlan(t, s) /\ t.must_flush_delayed_queue
  BY <1>1, <1>2 DEF States, SameQueues, SamePlan
<1>5. Queues(t) /\ Cycles(t)
  BY <1>1, <1>4 DEF Queues, Cycles, SameQueues
<1>6. Plan(t)
  BY <1>1, <1>4 DEF Plan, SamePlan, SameQueues, has_events
<1> QED BY <1>3, <1>4, <1>5, <1>6 DEF Good

(* What exec() leaves after the events of the cycle.                        *)
LEMMA ExecEndGood ==
  ASSUME time \in Nat, NEW s, Good(s), s.running, s.event_queue[s.current_cycle] = <<>>,
         NEW t, t = ExecEnd(s)
  PROVE  Good(t) /\ ~t.running /\ NextKept(t, s) /\ (t.is_enqueued => t.next_event_time > time)
<1>1. s \in States
  BY DEF Good
<1>2. /\ s.cycles \in Nat /\ s.cycle \in [Events -> Nat] /\ s.delayed_queue \in Seq(Events)
      /\ s.period \in Nat
  <2>1. /\ s.cycles \in Nat /\ s.cycle \in [Events -> Nat] /\ s.delayed_queue \in Seq(Events)
        /\ s.period \in Periods
    BY <1>1 DEF States
  <2> QED BY <2>1, ClockEngineAssumption
<1>3. CASE s.nb_enqueued_to_cycle > 0
  <2> DEFINE u == EndCycle(s)
  <2>1. t = Leave(u, s.period)
    BY <1>3 DEF ExecEnd
  <2>2. Good(u) /\ u.running /\ has_events(u) /\ u.next_event_time = s.next_event_time
    BY <1>3, EndCycleGood DEF has_events, SamePlan
  <2> HIDE DEF u
  <2>3. /\ Good(t) /\ ~t.running /\ NextKept(t, u) /\ (t.is_enqueued <=> s.period > 0)
        /\ t.is_enqueued => t.next_event_time = time + s.period
    BY <1>2, <2>1, <2>2, LeaveGood
  <2> QED BY <1>2, <2>2, <2>3 DEF NextKept
<1>4. CASE ~(s.nb_enqueued_to_cycle > 0)
  <2> DEFINE u == EndIdle(s)
             d == (s.cycle[Head(s.delayed_queue)] - s.cycles) * s.period
  <2>1. Good(u) /\ u.running /\ SameQueues(u, s) /\ u.next_event_time = s.next_event_time
    BY EndIdleGood DEF SamePlan
  <2>2. t = Leave(u, IF s.delayed_queue # <<>> THEN d ELSE -1)
    BY <1>4 DEF ExecEnd
  <2> HIDE DEF u
  <2>3. CASE s.delayed_queue # <<>>
    <3>1. t = Leave(u, d)
      BY <2>2, <2>3
    <3>2. s.cycle[Head(s.delayed_queue)] \in Nat
      BY <1>2, <2>3
    <3>3. d \in Int
      BY <1>2, <3>2
    <3> HIDE DEF d
    <3>4. has_events(u)
      BY <2>1, <2>3 DEF has_events, SameQueues
    <3>5. /\ Good(t) /\ ~t.running /\ NextKept(t, u) /\ (t.is_enqueued <=> d > 0)
          /\ t.is_enqueued => t.next_event_time = time + d
      BY <2>1, <3>1, <3>3, <3>4, LeaveGood
    <3> QED BY <2>1, <3>3, <3>5 DEF NextKept
  <2>4. CASE s.delayed_queue = <<>>
    <3>1. t = Leave(u, -1)
      BY <2>2, <2>4
    <3>2. /\ Good(t) /\ ~t.running /\ NextKept(t, u) /\ (t.is_enqueued <=> -1 > 0)
      BY <2>1, <3>1, LeaveGood
    <3> QED BY <2>1, <3>2 DEF NextKept
  <2> QED BY <2>3, <2>4
<1> QED BY <1>3, <1>4

-----------------------------------------------------------------------------
(* The invariant.                                                           *)

Inv ==
  /\ time \in 0..MaxTime /\ eng.next_event_time \in 0..MaxTime
  /\ Good(eng)
  /\ handler \in Events \cup {None} /\ due \in [Events -> Nat] /\ local \in BOOLEAN

(* The state that a call leaves satisfies it.                               *)
LEMMA CalledInv ==
  ASSUME Inv, NEW s, NEW own, Good(s), NextKept(s, eng), Called(s, own), due' \in [Events -> Nat]
  PROVE  Inv'
<1>1. /\ s.is_enqueued => s.next_event_time \in 0..MaxTime
      /\ eng' = s /\ local' = (local /\ own) /\ UNCHANGED <<time, handler>>
  BY DEF Called
<1>2. s.next_event_time \in 0..MaxTime
  BY <1>1 DEF NextKept, Inv
<1> QED BY <1>1, <1>2 DEF Inv

(* An event is posted.                                                      *)
LEMMA PostedInv ==
  ASSUME Inv, NEW e \in Events, NEW n \in Nat, Posted(e, n)
  PROVE  due' \in [Events -> Nat]
<1>1. eng.period \in Nat /\ time \in Nat
  <2>1. eng.period \in Periods
    BY DEF Inv, Good, States
  <2>2. eng.period \in Nat
    BY <2>1, ClockEngineAssumption
  <2>3. time \in Nat
    BY ClockEngineAssumption DEF Inv
  <2> QED BY <2>2, <2>3
<1>2. time + n * eng.period \in Nat
  BY <1>1
<1> QED BY <1>2 DEF Posted, Inv

(* The engine starts with it.                                               *)
LEMMA InitInv == Init => Inv
<1> SUFFICES ASSUME Init PROVE Inv
  OBVIOUS
<1>1. /\ time = 0 /\ handler = None /\ due = [e \in Events |-> 0] /\ local = TRUE
      /\ eng.event_queue = [i \in Slots |-> <<>>] /\ eng.delayed_queue = <<>>
      /\ eng.nb_enqueued_to_cycle = 0 /\ eng.enqueued = [e \in Events |-> FALSE]
      /\ eng.is_enqueued = FALSE /\ eng.next_event_time = 0 /\ eng.current_cycle = 0
  BY DEF Init
<1>2. eng \in States
  <2>1. /\ [i \in Slots |-> <<>>] \in Buffer /\ <<>> \in Seq(Events) /\ 0 \in Slots
        /\ [e \in Events |-> FALSE] \in [Events -> BOOLEAN] /\ [e \in Events |-> 0] \in [Events -> Nat]
        /\ FirstPeriod \in Periods
    BY ClockEngineAssumption DEF Buffer, Slots
  <2> QED BY <2>1 DEF Init, States
<1>3. \A i \in Slots, e \in Events : ~Holds(eng.event_queue[i], e)
  BY <1>1 DEF Holds
<1>4. Queues(eng)
  <2>1. Buffered(eng.event_queue) = {}
    BY <1>3 DEF Buffered
  <2>2. Counted(eng.event_queue, 0)
    BY <2>1, FS_EmptySet DEF Counted
  <2>3. Placed(eng.event_queue, eng.delayed_queue, eng.enqueued)
    <3>1. \A e \in Events : ~eng.enqueued[e] /\ ~Holds(eng.delayed_queue, e)
      BY <1>1 DEF Holds
    <3>2. Distinct(eng.delayed_queue) /\ \A i \in Slots : Distinct(eng.event_queue[i])
      BY <1>1 DEF Distinct
    <3> QED BY <1>3, <3>1, <3>2 DEF Placed
  <2> QED BY <1>1, <2>2, <2>3 DEF Queues
<1>5. Cycles(eng)
  <2>1. eng.current_cycle \in Slots
    BY <1>2 DEF States
  <2> QED BY <1>3, <2>1, EmptyCycle DEF Cycles
<1>6. Plan(eng)
  BY <1>1 DEF Plan
<1>7. 0 \in 0..MaxTime
  BY ClockEngineAssumption
<1> QED BY <1>1, <1>2, <1>4, <1>5, <1>6, <1>7 DEF Inv, Good

(* Every step keeps it.                                                     *)
LEMMA NextInv == Inv /\ [Next]_vars => Inv'
<1> SUFFICES ASSUME Inv, [Next]_vars PROVE Inv'
  OBVIOUS
<1>1. /\ time \in Nat /\ time \in 0..MaxTime /\ eng.next_event_time \in 0..MaxTime /\ Good(eng)
      /\ handler \in Events \cup {None} /\ due \in [Events -> Nat] /\ local \in BOOLEAN
      /\ MaxTime \in Nat
  BY ClockEngineAssumption DEF Inv
<1>2. Good(sync(eng)) /\ NextKept(sync(eng), eng) /\ sync(eng).enqueued = eng.enqueued
  <2>1. SamePlan(sync(eng), eng) /\ SameQueues(sync(eng), eng)
    BY <1>1, SyncOK DEF Good
  <2> QED BY <1>1, <2>1, SyncGood DEF NextKept, SamePlan, SameQueues
<1>3. CASE UNCHANGED vars
  BY <1>3 DEF vars, history, Inv
<1>4. CASE StartExec
  <2> DEFINE s == [eng EXCEPT !.is_enqueued = FALSE, !.running = TRUE]
  <2>1. /\ time' = eng.next_event_time /\ UNCHANGED <<handler, due, local>>
        /\ eng' = IF s.must_flush_delayed_queue THEN flush_delayed_queue(s) ELSE s
    BY <1>4 DEF StartExec, history
  <2>2. Good(s) /\ ~s.is_enqueued /\ s.next_event_time = eng.next_event_time
    BY <1>1, StartGood
  <2> HIDE DEF s
  <2>3. /\ Good(flush_delayed_queue(s))
        /\ flush_delayed_queue(s).next_event_time = eng.next_event_time
    BY <2>2, FlushGood DEF Flushed, SamePlan
  <2>4. Good(eng') /\ eng'.next_event_time = eng.next_event_time
    BY <2>1, <2>2, <2>3
  <2> QED BY <1>1, <2>1, <2>4 DEF Inv
<1>5. CASE RunEvent
  <2> DEFINE e == Head(eng.event_queue[eng.current_cycle])
  <2>1. /\ eng.running /\ eng.event_queue[eng.current_cycle] # <<>> /\ handler' = e
        /\ eng' = [eng EXCEPT !.event_queue[eng.current_cycle] = Tail(@), !.enqueued[e] = FALSE,
                              !.nb_enqueued_to_cycle = @ - 1]
        /\ due' = [due EXCEPT ![e] = 0] /\ UNCHANGED <<time, local>>
    BY <1>5 DEF RunEvent, CurrentSlot
  <2>2. Good(eng') /\ Popped(eng', eng, e) /\ e \in Events
    BY <1>1, <2>1, RunGood
  <2> HIDE DEF e
  <2>3. eng'.next_event_time = eng.next_event_time
    BY <2>2 DEF Popped, SamePlan
  <2>4. due' \in [Events -> Nat]
    BY <1>1, <2>1
  <2> QED BY <1>1, <2>1, <2>2, <2>3, <2>4 DEF Inv
<1>6. CASE MethodReturns
  BY <1>1, <1>6 DEF MethodReturns, history, Inv
<1>7. CASE FinishExec
  <2>1. /\ eng.running /\ eng.event_queue[eng.current_cycle] = <<>> /\ eng' = ExecEnd(eng)
        /\ eng'.is_enqueued => eng'.next_event_time <= MaxTime
        /\ UNCHANGED <<time, handler, due, local>>
    BY <1>7 DEF FinishExec, CurrentSlot, history
  <2>2. Good(eng') /\ NextKept(eng', eng) /\ (eng'.is_enqueued => eng'.next_event_time > time)
    BY <1>1, <2>1, ExecEndGood
  <2>3. eng'.next_event_time \in Int
    BY <2>2 DEF Good, States
  <2>4. eng'.next_event_time \in 0..MaxTime
    BY <1>1, <2>1, <2>2, <2>3 DEF NextKept
  <2> QED BY <1>1, <2>1, <2>2, <2>4 DEF Inv
<1>8. CASE TimePasses
  <2>1. UNCHANGED <<eng, handler, due, local>> /\ \E t \in (time + 1)..MaxTime : time' = t
    BY <1>8 DEF TimePasses, history
  <2>2. time' \in 0..MaxTime
    BY <1>1, <2>1
  <2> QED BY <1>1, <2>1, <2>2 DEF Inv
<1>9. ASSUME NEW e \in Events, NEW n \in 0..MaxDelay, Enqueue(e, n) PROVE Inv'
  <2>1. ~eng.enqueued[e] /\ Called(enqueue(eng, e, n), eng.running \/ Starting) /\ Posted(e, n) /\ n \in Nat
    BY <1>9 DEF Enqueue
  <2>2. Good(enqueue(eng, e, n)) /\ NextKept(enqueue(eng, e, n), eng)
    BY <1>1, <2>1, EnqueueGood
  <2> QED BY <2>1, <2>2, PostedInv, CalledInv
<1>10. ASSUME NEW e \in Events, NEW n \in 0..MaxDelay, EnqueueExt(e, n) PROVE Inv'
  <2>1. /\ ~eng.enqueued[e] /\ Called(enqueue(sync(eng), e, n), eng.running \/ Starting)
        /\ Posted(e, n) /\ n \in Nat
    BY <1>10 DEF EnqueueExt
  <2>2. Good(enqueue(sync(eng), e, n)) /\ NextKept(enqueue(sync(eng), e, n), sync(eng))
    BY <1>1, <1>2, <2>1, EnqueueGood
  <2>3. NextKept(enqueue(sync(eng), e, n), eng)
    BY <1>1, <2>2, SyncOK DEF NextKept, SamePlan, Good
  <2> QED BY <2>1, <2>2, <2>3, PostedInv, CalledInv
<1>11. ASSUME NEW s, Good(s), SamePlan(s, eng), NEW e \in Events, NEW n \in Nat, ReenqueueFrom(s, e, n)
       PROVE  Inv'
  <2>1. Called(reenqueue(s, e, n), eng.running \/ Starting) /\ (UNCHANGED due \/ Posted(e, n))
    BY <1>11 DEF ReenqueueFrom
  <2>2. Good(reenqueue(s, e, n)) /\ NextKept(reenqueue(s, e, n), s)
    BY <1>1, <1>11, ReenqueueGood
  <2>3. NextKept(reenqueue(s, e, n), eng)
    BY <1>11, <2>2 DEF NextKept, SamePlan
  <2>4. due' \in [Events -> Nat]
    BY <1>1, <2>1, PostedInv
  <2> QED BY <2>1, <2>2, <2>3, <2>4, CalledInv
<1>12. ASSUME NEW e \in Events, NEW n \in 0..MaxDelay, Reenqueue(e, n) PROVE Inv'
  <2>1. SamePlan(eng, eng) /\ ReenqueueFrom(eng, e, n) /\ n \in Nat
    BY <1>12 DEF SamePlan, Reenqueue
  <2> QED BY <1>1, <1>11, <2>1
<1>13. ASSUME NEW e \in Events, NEW n \in 0..MaxDelay, ReenqueueExt(e, n) PROVE Inv'
  <2>1. SamePlan(sync(eng), eng)
    BY <1>1, SyncOK DEF Good
  <2>2. ReenqueueFrom(sync(eng), e, n) /\ n \in Nat
    BY <1>13 DEF ReenqueueExt
  <2> QED BY <1>2, <1>11, <2>1, <2>2
<1>14. ASSUME NEW e \in Events, Cancel(e) PROVE Inv'
  <2>1. Called(cancel(eng, e), eng.running) /\ due' = [due EXCEPT ![e] = 0]
    BY <1>14 DEF Cancel
  <2>2. Good(cancel(eng, e)) /\ NextKept(cancel(eng, e), eng)
    BY <1>1, CancelGood DEF NextKept
  <2>3. due' \in [Events -> Nat]
    BY <1>1, <2>1
  <2> QED BY <2>1, <2>2, <2>3, CalledInv
<1>15. ASSUME NEW p \in Periods, SetPeriod(p) PROVE Inv'
  <2>1. Called(apply_frequency(eng, p), eng.running \/ Starting) /\ due' \in [Events -> Nat]
    BY <1>1, <1>15 DEF SetPeriod
  <2>2. Good(apply_frequency(eng, p)) /\ NextKept(apply_frequency(eng, p), eng)
    BY <1>1, FrequencyGood
  <2> QED BY <2>1, <2>2, CalledInv
<1> QED BY <1>3, <1>4, <1>5, <1>6, <1>7, <1>8, <1>9, <1>10, <1>12, <1>13, <1>14, <1>15 DEF Next, ExecNext

(* The invariant holds whatever is called.                                  *)
LEMMA InvCorrect == Spec => []Inv
BY InitInv, NextInv, PTL DEF Spec

(* The history of the count has its type.                                   *)
CountOK == counted \in {"once", "stale", "twice"}

LEMMA NextCount == CountOK /\ [Next]_vars => CountOK'
<1> SUFFICES ASSUME CountOK, [Next]_vars PROVE CountOK'
  OBVIOUS
<1>1. ASSUME NEW e, NEW moved, Recount(e, moved) PROVE CountOK'
  BY <1>1 DEF Recount, CountOK
<1>2. CASE UNCHANGED vars \/ RunEvent \/ MethodReturns \/ TimePasses \/ \E p \in Periods : SetPeriod(p)
  BY <1>2 DEF vars, history, RunEvent, MethodReturns, TimePasses, SetPeriod, CountOK
<1>3. CASE StartExec \/ FinishExec \/ \E e \in Events : Cancel(e)
  BY <1>3 DEF StartExec, FinishExec, Cancel, CountOK
<1>4. CASE \E e \in Events, n \in 0..MaxDelay :
             Enqueue(e, n) \/ EnqueueExt(e, n) \/ Reenqueue(e, n) \/ ReenqueueExt(e, n)
  BY <1>1, <1>4 DEF Enqueue, EnqueueExt, Reenqueue, ReenqueueExt, ReenqueueFrom
<1> QED BY <1>2, <1>3, <1>4 DEF Next, ExecNext

LEMMA CountCorrect == Spec => []CountOK
<1>1. Init => CountOK
  BY DEF Init, CountOK
<1> QED BY <1>1, NextCount, PTL DEF Spec

-----------------------------------------------------------------------------
(* The theorems about any use of the engine.                                *)

(* The event that a link leads to.                                          *)
At(l) == eng.event_queue[l[1]][l[2]]

(* The links are as many as the events of the buffer.                       *)
LEMMA LinksOK ==
  ASSUME Good(eng)
  PROVE  /\ eng.nb_enqueued_to_cycle = Cardinality(Links)
         /\ \A l \in Links : At(l) \in Buffered(eng.event_queue)
         /\ \A e \in Buffered(eng.event_queue) : \E l \in Links : At(l) = e
         /\ \A l, m \in Links : At(l) = At(m) => l = m
<1> DEFINE eq == eng.event_queue
           B == Buffered(eq)
<1>1. eq \in Buffer /\ Placed(eq, eng.delayed_queue, eng.enqueued) /\ Counted(eq, eng.nb_enqueued_to_cycle)
  BY DEF Good, States, Queues
<1>2. \A l : l \in Links <=> \E i \in Slots : \E k \in 1..Len(eq[i]) : l = <<i, k>>
  BY DEF Links
<1>3. ASSUME NEW i \in Slots, NEW k \in 1..Len(eq[i])
      PROVE  eq[i][k] \in Events /\ Holds(eq[i], eq[i][k]) /\ At(<<i, k>>) = eq[i][k] /\ <<i, k>> \in Links
  <2>1. eq[i] \in Seq(Events)
    BY <1>1 DEF Buffer
  <2>2. eq[i][k] \in Events /\ Holds(eq[i], eq[i][k])
    BY <2>1 DEF Holds
  <2>3. At(<<i, k>>) = eq[i][k]
    BY DEF At
  <2> QED BY <1>2, <2>2, <2>3
<1>4. ASSUME NEW l \in Links PROVE At(l) \in B
  <2>0. PICK i \in Slots : \E k \in 1..Len(eq[i]) : l = <<i, k>>
    BY <1>2
  <2>1. PICK k \in 1..Len(eq[i]) : l = <<i, k>>
    BY <2>0
  <2> QED BY <1>3, <2>1 DEF Buffered
<1>5. ASSUME NEW e \in B PROVE \E l \in Links : At(l) = e
  <2>1. PICK i \in Slots : Holds(eq[i], e)
    BY DEF Buffered
  <2>2. PICK k \in 1..Len(eq[i]) : eq[i][k] = e
    BY <2>1 DEF Holds
  <2> QED BY <1>3, <2>2
<1>6. ASSUME NEW l \in Links, NEW m \in Links, At(l) = At(m) PROVE l = m
  <2>0. PICK i \in Slots : \E k \in 1..Len(eq[i]) : l = <<i, k>>
    BY <1>2
  <2>1. PICK k \in 1..Len(eq[i]) : l = <<i, k>>
    BY <2>0
  <2>a. PICK j \in Slots : \E n \in 1..Len(eq[j]) : m = <<j, n>>
    BY <1>2
  <2>2. PICK n \in 1..Len(eq[j]) : m = <<j, n>>
    BY <2>a
  <2>3. eq[i][k] = eq[j][n] /\ eq[i][k] \in Events /\ Holds(eq[i], eq[i][k]) /\ Holds(eq[j], eq[i][k])
    BY <1>3, <1>6, <2>1, <2>2
  <2>4. i = j
    BY <1>1, <2>3 DEF Placed
  <2>5. k = n
    BY <1>1, <2>3, <2>4 DEF Placed, Distinct
  <2> QED BY <2>1, <2>2, <2>4, <2>5
<1> DEFINE f == [e \in B |-> CHOOSE l \in Links : At(l) = e]
<1> HIDE DEF eq
<1>7. \A e \in B : f[e] \in Links /\ At(f[e]) = e
  BY <1>5
<1>8. f \in [B -> Links]
  BY <1>7
<1> HIDE DEF f
<1>9. ExistsBijection(B, Links)
  <2>1. f \in Injection(B, Links)
    BY <1>7, <1>8 DEF Injection, IsInjective
  <2>2. f \in Surjection(B, Links)
    <3>1. ASSUME NEW l \in Links PROVE \E e \in B : f[e] = l
      <4>1. At(l) \in B
        BY <1>4
      <4>2. f[At(l)] \in Links /\ At(f[At(l)]) = At(l)
        BY <1>7, <4>1
      <4>3. f[At(l)] = l
        BY <1>6, <4>2
      <4> QED BY <4>1, <4>3
    <3> QED BY <1>8, <3>1 DEF Surjection
  <2> QED BY <2>1, <2>2 DEF Bijection, ExistsBijection
<1>10. Cardinality(Links) = Cardinality(B)
  BY <1>9, BufferedFinite, FS_Bijection
<1> QED BY <1>1, <1>4, <1>5, <1>6, <1>10 DEF Counted, eq

(* Whatever is called, an event is linked exactly once while it is flagged  *)
(* enqueued and else not, and the count of the buffer is right: clock_event *)
(* lists of the engine never lose, duplicate or leak an event.              *)
THEOREM QueuesConsistentCorrect == Spec => []QueuesConsistent
<1>1. Inv => QueuesConsistent
  <2> SUFFICES ASSUME Inv PROVE QueuesConsistent
    OBVIOUS
  <2>1. Good(eng)
    BY DEF Inv
  <2>2. /\ eng.nb_enqueued_to_cycle = Cardinality(Links)
        /\ \A l \in Links : At(l) \in Buffered(eng.event_queue)
        /\ \A e \in Buffered(eng.event_queue) : \E l \in Links : At(l) = e
        /\ \A l, m \in Links : At(l) = At(m) => l = m
    BY <2>1, LinksOK
  <2>3. /\ eng.delayed_queue \in Seq(Events) /\ eng.enqueued \in [Events -> BOOLEAN]
        /\ Placed(eng.event_queue, eng.delayed_queue, eng.enqueued)
    BY <2>1 DEF Good, States, Queues
  <2>4. ASSUME NEW e \in Events
        PROVE  Cardinality({i \in DOMAIN eng.delayed_queue : eng.delayed_queue[i] = e})
                 + Cardinality({l \in Links : eng.event_queue[l[1]][l[2]] = e})
               = IF eng.enqueued[e] THEN 1 ELSE 0
    <3> DEFINE D == {i \in DOMAIN eng.delayed_queue : eng.delayed_queue[i] = e}
               L == {l \in Links : At(l) = e}
    <3>1. DOMAIN eng.delayed_queue = 1..Len(eng.delayed_queue)
      BY <2>3
    <3>2. CASE Holds(eng.delayed_queue, e)
      <4>1. PICK i \in 1..Len(eng.delayed_queue) : eng.delayed_queue[i] = e
        BY <3>2 DEF Holds
      <4>2. D = {i}
        BY <2>3, <3>1, <4>1 DEF Placed, Distinct
      <4>3. e \notin Buffered(eng.event_queue) /\ eng.enqueued[e]
        BY <2>3, <3>2 DEF Placed, Buffered
      <4>4. L = {}
        BY <2>2, <4>3
      <4>5. Cardinality(D) = 1 /\ Cardinality(L) = 0
        BY <4>2, <4>4, FS_Singleton, FS_EmptySet
      <4> HIDE DEF D, L
      <4> QED BY <4>3, <4>5 DEF D, L, At
    <3>3. CASE ~Holds(eng.delayed_queue, e) /\ e \in Buffered(eng.event_queue)
      <4>1. PICK l \in Links : At(l) = e
        BY <2>2, <3>3
      <4>2. L = {l}
        BY <2>2, <4>1
      <4>3. D = {}
        BY <3>1, <3>3 DEF Holds
      <4>4. eng.enqueued[e]
        BY <2>3, <3>3 DEF Placed, Buffered
      <4>5. Cardinality(D) = 0 /\ Cardinality(L) = 1
        BY <4>2, <4>3, FS_Singleton, FS_EmptySet
      <4> HIDE DEF D, L
      <4> QED BY <4>4, <4>5 DEF D, L, At
    <3>4. CASE ~Holds(eng.delayed_queue, e) /\ e \notin Buffered(eng.event_queue)
      <4>1. L = {}
        BY <2>2, <3>4
      <4>2. D = {}
        BY <3>1, <3>4 DEF Holds
      <4>3. ~eng.enqueued[e]
        BY <2>3, <3>4 DEF Placed, Buffered
      <4>4. Cardinality(D) = 0 /\ Cardinality(L) = 0
        BY <4>1, <4>2, FS_EmptySet
      <4> HIDE DEF D, L
      <4> QED BY <4>3, <4>4 DEF D, L, At
    <3> QED BY <3>2, <3>3, <3>4
  <2> QED BY <2>2, <2>4 DEF QueuesConsistent
<1> QED BY <1>1, InvCorrect, PTL

(* Whatever is called, the slot n cycles ahead only holds events of the     *)
(* cycle n cycles ahead: exec(), which walks the buffer one slot a cycle,   *)
(* runs every event of it at its cycle.                                     *)
THEOREM SlotHoldsItsCycleCorrect == Spec => []SlotHoldsItsCycle
<1>1. Inv => SlotHoldsItsCycle
  <2> SUFFICES ASSUME Inv, NEW n \in Slots, NEW e \in ToSet(eng.event_queue[Slot(eng, n)])
               PROVE  eng.cycle[e] = eng.cycles + n
    BY DEF SlotHoldsItsCycle
  <2>1. eng \in States /\ SlotsOK(eng.event_queue, eng.current_cycle, eng.cycles, eng.cycle)
    BY DEF Inv, Good, Cycles
  <2>2. eng.event_queue \in Buffer /\ eng.current_cycle \in Slots
    BY <2>1 DEF States
  <2> DEFINE q == eng.event_queue[(eng.current_cycle + n) % QueueSize]
  <2>3. q \in Seq(Events)
    BY <2>2, Circle DEF Buffer
  <2>4. e \in ToSet(q)
    BY DEF Slot
  <2> HIDE DEF q
  <2>5. e \in Events /\ Holds(q, e)
    BY <2>3, <2>4 DEF ToSet, Holds
  <2> QED BY <2>1, <2>5 DEF SlotsOK, q
<1> QED BY <1>1, InvCorrect, PTL

(* Whatever is called, the time engine only plans a clock engine that has   *)
(* an event: the assertion of exec() on an engine without events holds.     *)
THEOREM NeverExecutedEmptyCorrect == Spec => []NeverExecutedEmpty
<1>1. Inv => NeverExecutedEmpty
  BY DEF Inv, Good, Plan, NeverExecutedEmpty
<1> QED BY <1>1, InvCorrect, PTL

(* The fields of the engine keep their types: no count, cycle or slot index *)
(* of the code, which are unsigned or array indices, leaves its range.      *)
THEOREM TypeCorrect == Spec => []TypeOK
<1>1. Inv /\ CountOK => TypeOK
  <2> SUFFICES ASSUME Inv, CountOK PROVE TypeOK
    OBVIOUS
  <2>1. eng \in States /\ eng.next_event_time \in 0..MaxTime
    BY DEF Inv, Good
  <2>2. eng \in Engines
    BY <2>1 DEF States, Engines, Buffer
  <2> QED BY <2>2 DEF Inv, CountOK, TypeOK
<1> QED BY <1>1, InvCorrect, CountCorrect, PTL

-----------------------------------------------------------------------------
(* The invariant, on a state s of the engine at time tm, with the due times d. *)

(* The time of the clock edge that the cycle count is at.                   *)
EdgeTime(s, tm) ==
  IF s.running THEN tm
  ELSE IF s.nb_enqueued_to_cycle > 0 THEN s.next_event_time ELSE s.stop_time

(* The time that the cycle of e is at, counted from there.                  *)
RunsAt(s, tm, e) == EdgeTime(s, tm) + (s.cycle[e] - s.cycles) * FirstPeriod

Sorted(dq, cycle) == \A i, j \in 1..Len(dq) : i < j => cycle[dq[i]] <= cycle[dq[j]]

Ahead(s) == \A e \in Events : s.enqueued[e] => s.cycle[e] >= s.cycles

NotLate(s, tm, d) ==
  \A e \in Events : s.enqueued[e] => RunsAt(s, tm, e) <= d[e] + FirstPeriod

(* An engine with events is planned, not in the past.                       *)
Waits(s, tm) == ~s.running /\ has_events(s) => s.is_enqueued /\ tm <= s.next_event_time

(* Between two cycles of the buffer it is planned for the next edge.        *)
Busy(s, tm) ==
  ~s.running /\ s.nb_enqueued_to_cycle > 0 => s.next_event_time <= tm + FirstPeriod

(* With an empty buffer it is not planned too late for any event.           *)
Idle(s, tm) ==
  ~s.running /\ s.nb_enqueued_to_cycle = 0 =>
    /\ (has_events(s) => s.must_flush_delayed_queue) /\ s.stop_time < tm + FirstPeriod
    /\ \A e \in Events : s.enqueued[e] => s.next_event_time <= RunsAt(s, tm, e)

(* No event of the delayed queue comes due before the next flush.           *)
Delayed(s) ==
  s.running \/ ~s.must_flush_delayed_queue =>
    \A e \in Events : Holds(s.delayed_queue, e) =>
                        s.cycle[e] >= s.cycles + QueueSize - s.current_cycle

Timed(s, tm, d) ==
  /\ s.period = FirstPeriod /\ Sorted(s.delayed_queue, s.cycle)
  /\ Ahead(s) /\ NotLate(s, tm, d) /\ Waits(s, tm) /\ Busy(s, tm) /\ Idle(s, tm) /\ Delayed(s)

-----------------------------------------------------------------------------
(* Arithmetic.                                                              *)

(* A product grows with its factor.                                         *)
LEMMA Mono ==
  ASSUME NEW a \in Int, NEW b \in Int, NEW p \in Nat, a <= b
  PROVE  a * p <= b * p
<1>1. (b - a) * p >= 0
  OBVIOUS
<1>2. (b - a) * p = b * p - a * p
  OBVIOUS
<1>3. a * p \in Int /\ b * p \in Int
  OBVIOUS
<1> QED BY <1>1, <1>2, <1>3

(* A product of a sum.                                                      *)
LEMMA Distr ==
  ASSUME NEW a \in Int, NEW b \in Int, NEW p \in Nat
  PROVE  /\ (a + b) * p = a * p + b * p /\ (a - b) * p = a * p - b * p
         /\ a * p \in Int /\ b * p \in Int /\ 1 * p = p
OBVIOUS

(* The types of the fields.                                                 *)
LEMMA Fields ==
  ASSUME NEW s \in States
  PROVE  /\ s.event_queue \in Buffer /\ s.delayed_queue \in Seq(Events) /\ s.current_cycle \in Slots
         /\ s.period \in Nat /\ s.cycles \in Nat /\ s.nb_enqueued_to_cycle \in Nat /\ s.stop_time \in Nat
         /\ s.must_flush_delayed_queue \in BOOLEAN /\ s.next_event_time \in Int
         /\ s.is_enqueued \in BOOLEAN /\ s.running \in BOOLEAN
         /\ s.enqueued \in [Events -> BOOLEAN] /\ s.cycle \in [Events -> Nat]
<1>1. /\ s.event_queue \in Buffer /\ s.delayed_queue \in Seq(Events) /\ s.current_cycle \in Slots
      /\ s.period \in Periods /\ s.cycles \in Nat /\ s.nb_enqueued_to_cycle \in Nat /\ s.stop_time \in Nat
      /\ s.must_flush_delayed_queue \in BOOLEAN /\ s.next_event_time \in Int
      /\ s.is_enqueued \in BOOLEAN /\ s.running \in BOOLEAN
      /\ s.enqueued \in [Events -> BOOLEAN] /\ s.cycle \in [Events -> Nat]
  BY DEF States
<1>2. s.period \in Nat
  BY <1>1, ClockEngineAssumption
<1> QED BY <1>1, <1>2

(* The constants.                                                           *)
LEMMA Constants ==
  FirstPeriod \in Nat /\ QueueSize \in Nat /\ QueueSize > 0 /\ Slots = 0..(QueueSize - 1)
BY ClockEngineAssumption DEF Slots

(* The types of the times.                                                  *)
LEMMA TimesOK ==
  ASSUME NEW s \in States, NEW tm \in Nat, NEW e \in Events
  PROVE  /\ EdgeTime(s, tm) \in Int /\ RunsAt(s, tm, e) \in Int
         /\ (s.cycle[e] - s.cycles) * FirstPeriod \in Int /\ s.cycle[e] - s.cycles \in Int
<1>1. /\ s.next_event_time \in Int /\ s.stop_time \in Nat /\ s.cycle[e] \in Nat /\ s.cycles \in Nat
      /\ FirstPeriod \in Nat
  BY Fields, Constants
<1>2. EdgeTime(s, tm) \in Int
  BY <1>1 DEF EdgeTime
<1>3. s.cycle[e] - s.cycles \in Int
  BY <1>1
<1>4. (s.cycle[e] - s.cycles) * FirstPeriod \in Int
  BY <1>1, <1>3
<1> QED BY <1>2, <1>3, <1>4 DEF RunsAt

-----------------------------------------------------------------------------
(* The order of the delayed queue.                                          *)

(* An event is linked at its place.                                         *)
LEMMA LinkSorted ==
  ASSUME NEW q \in Seq(Events), NEW r, NEW e \in Events, NEW p \in 1..(Len(q) + 1),
         Linking(r, q, p, e), ~Holds(q, e), NEW cycle \in [Events -> Nat], Sorted(q, cycle),
         NEW cycle2 \in [Events -> Nat], Recycled(cycle2, cycle, e), Place(q, cycle, cycle2[e], p)
  PROVE  Sorted(r, cycle2)
<1> DEFINE c == cycle2[e]
<1>1. c \in Nat /\ Len(q) \in Nat /\ p \in Int /\ Len(r) = Len(q) + 1
  BY DEF Linking
<1>2. ASSUME NEW k \in 1..Len(q) PROVE q[k] \in Events /\ cycle2[q[k]] = cycle[q[k]] /\ cycle[q[k]] \in Nat
  <2>1. q[k] \in Events /\ q[k] # e
    BY DEF Holds
  <2> QED BY <2>1 DEF Recycled
<1> SUFFICES ASSUME NEW i \in 1..(Len(q) + 1), NEW j \in 1..(Len(q) + 1), i < j
             PROVE  cycle2[r[i]] <= cycle2[r[j]]
  BY <1>1 DEF Sorted
<1>3. \/ i < p /\ i \in 1..Len(q) /\ r[i] = q[i]
      \/ i = p /\ r[i] = e
      \/ i > p /\ i - 1 \in 1..Len(q) /\ r[i] = q[i - 1]
  BY DEF Linking
<1>4. \/ j < p /\ j \in 1..Len(q) /\ r[j] = q[j]
      \/ j = p /\ r[j] = e
      \/ j > p /\ j - 1 \in 1..Len(q) /\ r[j] = q[j - 1]
  BY DEF Linking
<1>5. CASE j < p
  <2>1. j \in 1..Len(q) /\ r[j] = q[j] /\ i \in 1..Len(q) /\ r[i] = q[i]
    BY <1>1, <1>3, <1>4, <1>5
  <2>2. cycle[q[i]] <= cycle[q[j]]
    BY <2>1 DEF Sorted
  <2> QED BY <1>2, <2>1, <2>2, SMTT(30)
<1>6. CASE j = p
  <2>1. r[j] = e /\ i \in 1..Len(q) /\ r[i] = q[i] /\ i \in 1..(p - 1)
    BY <1>1, <1>3, <1>4, <1>6
  <2>2. cycle[q[i]] < c
    BY <2>1 DEF Place
  <2> QED BY <1>1, <1>2, <2>1, <2>2
<1>7. CASE j > p /\ i < p
  <2>1. j - 1 \in 1..Len(q) /\ r[j] = q[j - 1] /\ i \in 1..Len(q) /\ r[i] = q[i] /\ i < j - 1
    BY <1>1, <1>3, <1>4, <1>7
  <2>2. cycle[q[i]] <= cycle[q[j - 1]]
    BY <2>1 DEF Sorted
  <2> QED BY <1>2, <2>1, <2>2, SMTT(30)
<1>8. CASE j > p /\ i = p
  <2>1. j - 1 \in 1..Len(q) /\ r[j] = q[j - 1] /\ r[i] = e /\ p \in 1..Len(q) /\ p <= j - 1
    BY <1>1, <1>3, <1>4, <1>8
  <2>2. cycle[q[p]] >= c
    BY <1>1, <2>1 DEF Place
  <2>3. cycle[q[p]] <= cycle[q[j - 1]]
    <3>1. CASE p = j - 1
      <4>1. cycle[q[p]] \in Nat /\ q[p] = q[j - 1]
        BY <1>2, <2>1, <3>1
      <4> QED BY <4>1
    <3>2. CASE p # j - 1
      <4>1. p < j - 1
        BY <1>1, <2>1, <3>2
      <4> QED BY <2>1, <4>1 DEF Sorted
    <3> QED BY <3>1, <3>2
  <2>4. /\ cycle2[q[j - 1]] = cycle[q[j - 1]] /\ cycle[q[j - 1]] \in Nat
        /\ cycle[q[p]] \in Nat
    BY <1>2, <2>1
  <2>6. cycle2[r[i]] = c /\ cycle2[r[j]] = cycle[q[j - 1]]
    BY <2>1, <2>4
  <2> DEFINE x == cycle[q[p]]
             y == cycle[q[j - 1]]
  <2>7. x >= c /\ x <= y /\ x \in Nat /\ y \in Nat /\ c \in Nat
    BY <1>1, <2>2, <2>3, <2>4
  <2> HIDE DEF c, x, y
  <2>8. y >= c
    BY <2>7
  <2>5. cycle[q[j - 1]] >= c
    BY <2>8 DEF y
  <2> QED BY <1>1, <2>4, <2>5, <2>6
<1>9. CASE i > p
  <2>1. /\ j - 1 \in 1..Len(q) /\ r[j] = q[j - 1] /\ i - 1 \in 1..Len(q) /\ r[i] = q[i - 1]
        /\ i - 1 < j - 1
    BY <1>1, <1>3, <1>4, <1>9
  <2>2. cycle[q[i - 1]] <= cycle[q[j - 1]]
    BY <2>1 DEF Sorted
  <2>3. cycle2[q[i - 1]] = cycle[q[i - 1]] /\ cycle2[q[j - 1]] = cycle[q[j - 1]]
    BY <1>2, <2>1
  <2> QED BY <2>1, <2>2, <2>3
<1> QED BY <1>1, <1>5, <1>6, <1>7, <1>8, <1>9

(* An event is unlinked.                                                    *)
LEMMA UnlinkSorted ==
  ASSUME NEW q \in Seq(Events), NEW r, NEW p \in 1..Len(q), Unlinking(r, q, p),
         NEW cycle, Sorted(q, cycle)
  PROVE  Sorted(r, cycle)
<1>1. r \in Seq(Events) /\ Len(r) = Len(q) - 1 /\ Len(q) \in Nat /\ p \in Int
  BY DEF Unlinking
<1> SUFFICES ASSUME NEW i \in 1..Len(r), NEW j \in 1..Len(r), i < j PROVE cycle[r[i]] <= cycle[r[j]]
  BY DEF Sorted
<1>2. \/ i < p /\ i \in 1..Len(q) /\ r[i] = q[i]
      \/ i >= p /\ i + 1 \in 1..Len(q) /\ r[i] = q[i + 1]
  BY DEF Unlinking
<1>3. \/ j < p /\ j \in 1..Len(q) /\ r[j] = q[j]
      \/ j >= p /\ j + 1 \in 1..Len(q) /\ r[j] = q[j + 1]
  BY DEF Unlinking
<1>4. PICK k \in 1..Len(q), m \in 1..Len(q) : k < m /\ r[i] = q[k] /\ r[j] = q[m]
  <2>1. CASE i < p /\ j < p
    BY <1>2, <1>3, <2>1
  <2>2. CASE i < p /\ j >= p
    <3>1. i \in 1..Len(q) /\ j + 1 \in 1..Len(q) /\ i < j + 1
      BY <1>1, <1>2, <1>3, <2>2
    <3> QED BY <1>1, <1>2, <1>3, <2>2, <3>1
  <2>3. CASE i >= p
    <3>1. i + 1 \in 1..Len(q) /\ j + 1 \in 1..Len(q) /\ i + 1 < j + 1 /\ r[i] = q[i + 1] /\ r[j] = q[j + 1]
      BY <1>1, <1>2, <1>3, <2>3
    <3> QED BY <3>1
  <2> QED BY <1>1, <2>1, <2>2, <2>3
<1> QED BY <1>4 DEF Sorted

(* The first event is the earliest.                                         *)
LEMMA HeadFirst ==
  ASSUME NEW q \in Seq(Events), NEW cycle \in [Events -> Nat], Sorted(q, cycle), NEW e \in Events, Holds(q, e)
  PROVE  q # <<>> /\ Head(q) = q[1] /\ q[1] \in Events /\ cycle[q[1]] <= cycle[e]
<1>1. PICK i \in 1..Len(q) : q[i] = e
  BY DEF Holds
<1>2. q # <<>> /\ Head(q) = q[1] /\ 1 \in 1..Len(q) /\ q[1] \in Events
  BY <1>1
<1>3. CASE i = 1
  BY <1>1, <1>2, <1>3
<1>4. CASE i # 1
  <2>1. 1 < i
    BY <1>4
  <2> QED BY <1>1, <1>2, <2>1 DEF Sorted
<1> QED BY <1>2, <1>3, <1>4

(* The cycle of an event that is not linked does not matter.                *)
LEMMA OtherSorted ==
  ASSUME NEW q \in Seq(Events), NEW e \in Events, ~Holds(q, e), NEW cycle, Sorted(q, cycle),
         NEW cycle2, Recycled(cycle2, cycle, e)
  PROVE  Sorted(q, cycle2)
<1> SUFFICES ASSUME NEW i \in 1..Len(q), NEW j \in 1..Len(q), i < j PROVE cycle2[q[i]] <= cycle2[q[j]]
  BY DEF Sorted
<1>1. q[i] \in Events /\ q[i] # e /\ q[j] \in Events /\ q[j] # e
  BY DEF Holds
<1>2. cycle[q[i]] <= cycle[q[j]]
  BY DEF Sorted
<1> QED BY <1>1, <1>2 DEF Recycled

(* The events after the first ones, which are all later than the first of them. *)
LEMMA RestSorted ==
  ASSUME NEW q \in Seq(Events), Distinct(q), NEW k \in 0..Len(q), NEW cycle \in [Events -> Nat], Sorted(q, cycle)
  PROVE  /\ Sorted(SubSeq(q, k + 1, Len(q)), cycle)
         /\ \A e \in Events : Holds(SubSeq(q, k + 1, Len(q)), e) =>
                                k < Len(q) /\ cycle[q[k + 1]] <= cycle[e] /\ q[k + 1] \in Events
<1> DEFINE r == SubSeq(q, k + 1, Len(q))
<1>0. Len(q) \in Nat /\ k \in Nat
  OBVIOUS
<1>1. /\ Len(r) = Len(q) - k /\ Len(q) \in Nat /\ k \in Nat
      /\ \A i \in 1..(Len(q) - k) : r[i] = q[k + i] /\ k + i \in 1..Len(q)
  BY <1>0, RestOK, Zenon
<1> HIDE DEF r
<1>2. Sorted(r, cycle)
  <2> SUFFICES ASSUME NEW i \in 1..Len(r), NEW j \in 1..Len(r), i < j PROVE cycle[r[i]] <= cycle[r[j]]
    BY DEF Sorted
  <2>1. i \in 1..(Len(q) - k) /\ j \in 1..(Len(q) - k)
    BY <1>1
  <2>2. r[i] = q[k + i] /\ k + i \in 1..Len(q) /\ r[j] = q[k + j] /\ k + j \in 1..Len(q)
    BY <1>1, <2>1
  <2>3. k + i < k + j
    BY <1>1, <2>1
  <2> QED BY <2>2, <2>3 DEF Sorted
<1>3. ASSUME NEW e \in Events, Holds(r, e)
      PROVE  k < Len(q) /\ cycle[q[k + 1]] <= cycle[e] /\ q[k + 1] \in Events
  <2>1. PICK i \in 1..Len(r) : r[i] = e
    BY <1>3 DEF Holds
  <2>2. i \in 1..(Len(q) - k)
    BY <1>1
  <2>3. q[k + i] = e /\ k + i \in 1..Len(q)
    BY <1>1, <2>1, <2>2
  <2>4. k < Len(q) /\ k + 1 \in 1..Len(q)
    BY <1>1, <2>2
  <2>5. q[k + 1] \in Events
    BY <2>4
  <2>6. CASE i = 1
    BY <2>3, <2>4, <2>5, <2>6
  <2>7. CASE i # 1
    <3>1. k + 1 < k + i
      BY <1>1, <2>2, <2>7
    <3>2. cycle[q[k + 1]] <= cycle[q[k + i]]
      BY <2>3, <2>4, <3>1 DEF Sorted
    <3> QED BY <2>3, <2>4, <2>5, <3>2
  <2> QED BY <2>6, <2>7
<1> QED BY <1>2, <1>3 DEF r

(* A flagged event is one that the engine has.                              *)
LEMMA EnqueuedHas ==
  ASSUME NEW s, Good(s), NEW e \in Events, s.enqueued[e]
  PROVE  /\ has_events(s)
         /\ s.nb_enqueued_to_cycle = 0 => Holds(s.delayed_queue, e)
<1>1. /\ s \in States /\ Placed(s.event_queue, s.delayed_queue, s.enqueued)
      /\ Counted(s.event_queue, s.nb_enqueued_to_cycle)
  BY DEF Good, Queues
<1>2. s.event_queue \in Buffer /\ s.delayed_queue \in Seq(Events) /\ s.nb_enqueued_to_cycle \in Nat
  BY <1>1, Fields
<1>3. Holds(s.delayed_queue, e) \/ \E i \in Slots : Holds(s.event_queue[i], e)
  BY <1>1 DEF Placed
<1>4. s.nb_enqueued_to_cycle = 0 => \A i \in Slots : ~Holds(s.event_queue[i], e)
  BY <1>1, <1>2, EmptyBuffer
<1>5. Holds(s.delayed_queue, e) => s.delayed_queue # <<>>
  BY <1>2, EmptyList
<1> QED BY <1>2, <1>3, <1>4, <1>5 DEF has_events

-----------------------------------------------------------------------------
(* The calls.                                                               *)

(* The cycle count is that of the current time.                             *)
Synced(s) == s.running \/ s.nb_enqueued_to_cycle # 0 \/ s.stop_time >= time

(* Then update does nothing.                                                *)
LEMMA SyncedStays ==
  ASSUME time \in Nat, NEW s \in States, Synced(s)
  PROVE  sync(s) = s
<1>1. s.stop_time \in Nat
  BY Fields
<1>2. s.stop_time >= time => update(s) = s
  BY <1>1 DEF update
<1> QED BY <1>2 DEF sync, Synced

(* The number of edges up to now is not more than that up to a later edge.  *)
LEMMA EdgeCount ==
  ASSUME NEW n \in Int, NEW c \in Int, NEW p \in Nat, p # 0, NEW diff \in Int,
         n * p < diff + p, diff <= c * p
  PROVE  n <= c
<1> SUFFICES ASSUME n >= c + 1 PROVE FALSE
  OBVIOUS
<1>1. (c + 1) * p <= n * p
  BY Mono
<1>2. (c + 1) * p = c * p + 1 * p /\ 1 * p = p /\ c * p \in Int /\ n * p \in Int
  BY Distr
<1> QED BY <1>1, <1>2

(* The edges counted leave the times of the events where they were.         *)
LEMMA SameTime ==
  ASSUME NEW t0 \in Int, NEW c \in Int, NEW k \in Int, NEW n \in Int, NEW p \in Nat
  PROVE  (t0 + n * p) + (c - (k + n)) * p = t0 + (c - k) * p
<1>1. c - (k + n) = (c - k) - n /\ c - k \in Int
  OBVIOUS
<1>2. ((c - k) - n) * p = (c - k) * p - n * p /\ (c - k) * p \in Int /\ n * p \in Int
  BY <1>1, Distr
<1> QED BY <1>1, <1>2

(* The synchronisation leaves the times of the events, and counts no edge past one. *)
LEMMA SyncTimed ==
  ASSUME time \in Nat, FirstPeriod # 0, NEW s, Good(s), NEW d \in [Events -> Nat], Timed(s, time, d)
  PROVE  /\ Timed(sync(s), time, d) /\ Synced(sync(s))
         /\ \A e \in Events : RunsAt(sync(s), time, e) = RunsAt(s, time, e)
<1> DEFINE t == sync(s)
           P == FirstPeriod
<1>1. s \in States
  BY DEF Good
<1>2. /\ s.period = P /\ s.stop_time \in Nat /\ s.cycles \in Nat /\ s.nb_enqueued_to_cycle \in Nat
      /\ s.cycle \in [Events -> Nat] /\ P \in Nat /\ P # 0
  BY <1>1, Fields, Constants DEF Timed
<1>3. CASE Synced(s)
  BY <1>1, <1>3, SyncedStays
<1>4. CASE ~Synced(s)
  <2>1. /\ ~s.running /\ s.nb_enqueued_to_cycle = 0 /\ s.stop_time < time /\ time - s.stop_time \in Nat
        /\ time - s.stop_time > 0 /\ ~(s.period = 0 \/ time - s.stop_time <= 0)
    BY <1>2, <1>4 DEF Synced
  <2> DEFINE n == Edges(s)
  <2>2. t = update(s)
    BY <2>1 DEF sync
  <2>3. /\ t \in States /\ SameQueues(t, s) /\ SamePlan(t, s) /\ SameRun(t, s) /\ t.period = P
    BY <1>1, <1>2, SyncOK
  <2>4. t.cycles = s.cycles + n /\ t.stop_time = s.stop_time + n * P
    BY <1>1, <1>2, <2>1, <2>2, UpdateClock
  <2>5. n \in Nat /\ n * P \in Nat /\ time - s.stop_time <= n * P /\ n * P < time - s.stop_time + P
    <3> DEFINE diff == time - s.stop_time
    <3>1. diff \in Nat /\ diff > 0
      BY <2>1
    <3>2. n = (diff + P - 1) \div P
      BY <1>2 DEF Edges
    <3> HIDE DEF diff, n, P
    <3>3. n \in Nat /\ n * P \in Nat /\ diff <= n * P /\ n * P < diff + P
      BY <1>2, <3>1, <3>2, EdgesOK
    <3> QED BY <3>3 DEF diff
  <2> HIDE DEF t, n, P
  <2>6. /\ t.delayed_queue = s.delayed_queue /\ t.nb_enqueued_to_cycle = 0 /\ t.cycle = s.cycle
        /\ t.enqueued = s.enqueued /\ ~t.running /\ t.is_enqueued = s.is_enqueued
        /\ t.next_event_time = s.next_event_time
        /\ t.must_flush_delayed_queue = s.must_flush_delayed_queue
        /\ has_events(t) <=> has_events(s)
    BY <2>1, <2>3 DEF SameQueues, SamePlan, SameRun, has_events
  <2>7. EdgeTime(s, time) = s.stop_time /\ EdgeTime(t, time) = t.stop_time
    BY <2>1, <2>6 DEF EdgeTime
  <2>8. ASSUME NEW e \in Events PROVE RunsAt(t, time, e) = RunsAt(s, time, e)
    <3>1. s.cycle[e] \in Nat
      BY <1>2
    <3>2. (s.stop_time + n * P) + (s.cycle[e] - (s.cycles + n)) * P
            = s.stop_time + (s.cycle[e] - s.cycles) * P
      BY <1>2, <2>5, <3>1, SameTime
    <3> QED BY <2>4, <2>6, <2>7, <3>2 DEF RunsAt, P
  <2>9. has_events(s) => s.must_flush_delayed_queue
    BY <2>1 DEF Timed, Idle
  <2>10. ASSUME NEW e \in Events, s.enqueued[e] PROVE s.cycle[e] >= s.cycles + n
    <3>1. has_events(s)
      BY <2>10, EnqueuedHas
    <3>2. time <= s.next_event_time /\ s.next_event_time <= RunsAt(s, time, e)
      BY <2>1, <2>10, <3>1 DEF Timed, Waits, Idle
    <3> DEFINE c == s.cycle[e] - s.cycles
    <3>3. /\ RunsAt(s, time, e) = s.stop_time + c * P /\ c \in Int /\ c * P \in Int
          /\ s.next_event_time \in Int /\ s.cycle[e] \in Nat
      BY <1>1, <1>2, <2>7, TimesOK, Fields DEF RunsAt, P
    <3> HIDE DEF c
    <3>4. time - s.stop_time <= c * P
      BY <1>2, <3>2, <3>3
    <3>5. time - s.stop_time \in Int
      BY <1>2
    <3>6. n <= c
      BY <1>2, <2>5, <3>3, <3>4, <3>5, EdgeCount
    <3> QED BY <1>2, <2>5, <3>3, <3>6 DEF c
  <2>11. Ahead(t) /\ Sorted(t.delayed_queue, t.cycle)
    BY <2>4, <2>6, <2>10 DEF Ahead, Timed
  <2>12. NotLate(t, time, d)
    BY <2>6, <2>8 DEF NotLate, Timed
  <2>13. Waits(t, time) /\ Busy(t, time) /\ Delayed(t)
    <3>1. Waits(s, time)
      BY DEF Timed
    <3>2. Waits(t, time)
      BY <2>1, <2>6, <3>1 DEF Waits
    <3>3. ~(t.nb_enqueued_to_cycle > 0)
      BY <2>6
    <3>4. Busy(t, time)
      BY <3>3 DEF Busy
    <3>5. Delayed(t)
      <4>1. s.delayed_queue = <<>> => \A e \in Events : ~Holds(s.delayed_queue, e)
        BY <1>1, Fields, EmptyList
      <4>2. ~has_events(s) => s.delayed_queue = <<>>
        BY DEF has_events
      <4> QED BY <2>6, <2>9, <4>1, <4>2 DEF Delayed
    <3> QED BY <3>2, <3>4, <3>5
  <2>14. t.stop_time < time + FirstPeriod /\ t.stop_time >= time
    BY <1>2, <2>4, <2>5 DEF P
  <2>15. Idle(t, time)
    <3>1. \A e \in Events : t.enqueued[e] => t.next_event_time <= RunsAt(t, time, e)
      BY <2>1, <2>6, <2>8 DEF Timed, Idle
    <3> QED BY <2>6, <2>9, <2>14, <3>1 DEF Idle
  <2> QED BY <2>3, <2>8, <2>11, <2>12, <2>13, <2>14, <2>15 DEF Timed, Synced, t, P
<1> QED BY <1>3, <1>4

(* Due times that only differ by the one of e.                              *)
OtherDue(d2, d, e) == d2 \in [Events -> Nat] /\ \A x \in Events : x # e => d2[x] = d[x]

(* The other events keep their times.                                       *)
OtherTimes(t, s, e) == \A x \in Events : x # e => RunsAt(t, time, x) = RunsAt(s, time, x)

(* cancel leaves the order of the delayed queue.                            *)
LEMMA CancelSorted ==
  ASSUME NEW s, Good(s), NEW e \in Events, NEW t, Cancelled(t, s, e), Sorted(s.delayed_queue, s.cycle)
  PROVE  /\ Sorted(t.delayed_queue, t.cycle)
         /\ \A x \in Events : Holds(t.delayed_queue, x) => Holds(s.delayed_queue, x)
<1>1. s \in States /\ Placed(s.event_queue, s.delayed_queue, s.enqueued)
  BY DEF Good, Queues
<1>2. s.delayed_queue \in Seq(Events) /\ Distinct(s.delayed_queue)
  BY <1>1, Fields DEF Placed
<1>3. t.cycle = s.cycle /\ (CancelDelayed(t, s, e) \/ CancelBuffered(t, s, e))
  BY DEF Cancelled
<1>4. CASE CancelBuffered(t, s, e)
  BY <1>3, <1>4 DEF CancelBuffered
<1>5. CASE CancelDelayed(t, s, e)
  <2>1. Holds(s.delayed_queue, e) /\ t.delayed_queue = RemoveFirst(s.delayed_queue, e)
    BY <1>5 DEF CancelDelayed
  <2>2. PICK p \in 1..Len(s.delayed_queue) : Unlinking(t.delayed_queue, s.delayed_queue, p)
    BY <1>2, <2>1, RemoveShape
  <2>3. Sorted(t.delayed_queue, s.cycle)
    BY <1>2, <2>2, UnlinkSorted
  <2> QED BY <1>2, <1>3, <2>1, <2>3, RemoveOK
<1> QED BY <1>3, <1>4, <1>5

(* cancel does not move the clock edge the count is at, unless it empties the buffer. *)
LEMMA CancelTimed ==
  ASSUME time \in Nat, NEW s, Good(s), NEW d \in [Events -> Nat], Timed(s, time, d),
         NEW e \in Events, s.enqueued[e], NEW t, t = cancel(s, e),
         s.running \/ s.nb_enqueued_to_cycle = 0 \/ t.nb_enqueued_to_cycle # 0,
         NEW d2, OtherDue(d2, d, e)
  PROVE  /\ Timed(t, time, d2) /\ OtherTimes(t, s, e)
         /\ t.nb_enqueued_to_cycle = 0 => s.running \/ s.nb_enqueued_to_cycle = 0
         /\ s.nb_enqueued_to_cycle = 0 => t.nb_enqueued_to_cycle = 0
<1>1. s \in States /\ Placed(s.event_queue, s.delayed_queue, s.enqueued)
  BY DEF Good, Queues
<1>2. t \in States /\ Cancelled(t, s, e)
  BY CancelShape
<1>3. /\ t.nb_enqueued_to_cycle \in Nat /\ s.nb_enqueued_to_cycle \in Nat
      /\ s.delayed_queue \in Seq(Events) /\ Distinct(s.delayed_queue)
  BY <1>1, <1>2, Fields DEF Placed
<1>4. /\ t.cycles = s.cycles /\ t.stop_time = s.stop_time /\ t.running = s.running
      /\ t.must_flush_delayed_queue = s.must_flush_delayed_queue
      /\ t.current_cycle = s.current_cycle /\ t.period = s.period /\ t.cycle = s.cycle
      /\ t.next_event_time = s.next_event_time /\ (has_events(t) => t.is_enqueued = s.is_enqueued)
      /\ Flagged(t.enqueued, s.enqueued, e, FALSE) /\ (CancelDelayed(t, s, e) \/ CancelBuffered(t, s, e))
  BY <1>2 DEF Cancelled, SameClock, SameRun
<1>5. /\ s.nb_enqueued_to_cycle = 0 => t.nb_enqueued_to_cycle = 0
      /\ t.nb_enqueued_to_cycle > 0 => s.nb_enqueued_to_cycle > 0
  BY <1>3, <1>4 DEF CancelDelayed, CancelBuffered
<1>6. s.running \/ (t.nb_enqueued_to_cycle > 0 <=> s.nb_enqueued_to_cycle > 0)
  BY <1>3, <1>5
<1>7. ASSUME NEW x \in Events, t.enqueued[x] PROVE s.enqueued[x] /\ x # e /\ d2[x] = d[x]
  <2>1. x # e
    BY <1>4, <1>7 DEF Flagged
  <2> QED BY <1>4, <1>7, <2>1 DEF Flagged, OtherDue
<1>8. EdgeTime(t, time) = EdgeTime(s, time)
  BY <1>4, <1>6 DEF EdgeTime
<1>9. ASSUME NEW x \in Events PROVE RunsAt(t, time, x) = RunsAt(s, time, x)
  BY <1>4, <1>8 DEF RunsAt
<1>10. /\ Sorted(t.delayed_queue, t.cycle)
       /\ \A x \in Events : Holds(t.delayed_queue, x) => Holds(s.delayed_queue, x)
  <2>1. Sorted(s.delayed_queue, s.cycle)
    BY DEF Timed
  <2> QED BY <1>2, <2>1, CancelSorted
<1>11. Ahead(t)
  BY <1>4, <1>7 DEF Ahead, Timed
<1>12. NotLate(t, time, d2)
  BY <1>7, <1>9 DEF NotLate, Timed
<1>13. Waits(t, time)
  <2>1. has_events(s) /\ Waits(s, time)
    BY EnqueuedHas DEF Timed
  <2> QED BY <1>4, <2>1 DEF Waits
<1>14. Busy(t, time)
  <2>1. Busy(s, time)
    BY DEF Timed
  <2> QED BY <1>4, <1>5, <2>1 DEF Busy
<1>15. Idle(t, time)
  <2>1. Idle(s, time)
    BY DEF Timed
  <2>2. ~t.running /\ t.nb_enqueued_to_cycle = 0 => ~s.running /\ s.nb_enqueued_to_cycle = 0
    BY <1>3, <1>4, <1>6
  <2>3. has_events(s)
    BY EnqueuedHas
  <2> QED BY <1>4, <1>7, <1>9, <2>1, <2>2, <2>3 DEF Idle
<1>16. Delayed(t)
  <2>1. Delayed(s)
    BY DEF Timed
  <2> QED BY <1>4, <1>10, <2>1 DEF Delayed
<1>17. t.period = FirstPeriod
  BY <1>4 DEF Timed
<1>18. Timed(t, time, d2)
  BY <1>10, <1>11, <1>12, <1>13, <1>14, <1>15, <1>16, <1>17 DEF Timed
<1>19. t.nb_enqueued_to_cycle = 0 => s.running \/ s.nb_enqueued_to_cycle = 0
  OBVIOUS
<1> QED BY <1>5, <1>9, <1>18, <1>19 DEF OtherTimes

(* The time of an event n cycles ahead of the count.                        *)
LEMMA AheadTime ==
  ASSUME NEW s \in States, NEW e \in Events, NEW n \in Nat, s.cycle[e] = n + s.cycles
  PROVE  /\ RunsAt(s, time, e) = EdgeTime(s, time) + n * FirstPeriod
         /\ n * FirstPeriod \in Nat /\ s.cycle[e] >= s.cycles
<1>1. s.cycles \in Nat /\ FirstPeriod \in Nat
  BY Fields, Constants
<1>2. s.cycle[e] - s.cycles = n /\ s.cycle[e] >= s.cycles
  BY <1>1
<1>3. n * FirstPeriod \in Nat
  BY <1>1
<1> QED BY <1>2, <1>3 DEF RunsAt

(* What enqueue does to the order of the delayed queue.                     *)
LEMMA EnqueueSorted ==
  ASSUME NEW s, Good(s), NEW e \in Events, ~s.enqueued[e], NEW n \in Nat, NEW t \in States,
         EnqueuedAt(t, s, e, n), Sorted(s.delayed_queue, s.cycle)
  PROVE  /\ Sorted(t.delayed_queue, t.cycle)
         /\ \A x \in Events : Holds(t.delayed_queue, x) => Holds(s.delayed_queue, x) \/ x = e
         /\ ~Holds(s.delayed_queue, e)
<1>1. s \in States /\ Placed(s.event_queue, s.delayed_queue, s.enqueued)
  BY DEF Good, Queues
<1>2. /\ s.delayed_queue \in Seq(Events) /\ s.cycle \in [Events -> Nat] /\ t.cycle \in [Events -> Nat]
      /\ Distinct(s.delayed_queue) /\ ~Holds(s.delayed_queue, e)
  BY <1>1, Fields DEF Placed
<1>3. Recycled(t.cycle, s.cycle, e) /\ t.cycle[e] = n + t.cycles /\ (FastPath(t, s, e, n) \/ SlowPath(t, s, e, n))
  BY DEF EnqueuedAt
<1>4. CASE FastPath(t, s, e, n)
  <2>1. t.delayed_queue = s.delayed_queue
    BY <1>4 DEF FastPath
  <2> QED BY <1>2, <1>3, <2>1, OtherSorted
<1>5. CASE SlowPath(t, s, e, n)
  <2>1. PICK p \in 1..(Len(s.delayed_queue) + 1) :
          /\ Place(s.delayed_queue, s.cycle, n + t.cycles, p)
          /\ Linking(t.delayed_queue, s.delayed_queue, p, e)
    BY <1>5 DEF SlowPath
  <2>2. Place(s.delayed_queue, s.cycle, t.cycle[e], p)
    BY <1>3, <2>1
  <2>3. Sorted(t.delayed_queue, t.cycle)
    BY <1>2, <1>3, <2>1, <2>2, LinkSorted
  <2>4. \A x \in Events : Holds(t.delayed_queue, x) => Holds(s.delayed_queue, x) \/ x = e
    BY <1>2, <2>1, LinkingOK
  <2> QED BY <1>2, <2>3, <2>4
<1> QED BY <1>3, <1>4, <1>5

(* enqueue in an engine that runs: the event is exactly on time.            *)
LEMMA EnqueueRunning ==
  ASSUME time \in Nat, NEW s, Good(s), NEW d \in [Events -> Nat], Timed(s, time, d), s.running,
         NEW e \in Events, ~s.enqueued[e], NEW n \in Nat, NEW t, t = enqueue(s, e, n),
         NEW d2, OtherDue(d2, d, e), d2[e] = time + n * FirstPeriod
  PROVE  Timed(t, time, d2) /\ OtherTimes(t, s, e) /\ RunsAt(t, time, e) = time + n * FirstPeriod
<1>1. s \in States
  BY DEF Good
<1>2. t \in States /\ EnqueuedAt(t, s, e, n)
  BY <1>1, EnqueueShape
<1> HIDE DEF enqueue
<1>3. sync(s) = s
  BY <1>1, SyncOK
<1>4. /\ t.cycles = s.cycles /\ t.current_cycle = s.current_cycle /\ t.period = s.period
      /\ Flagged(t.enqueued, s.enqueued, e, TRUE) /\ t.cycle[e] = n + t.cycles
      /\ Recycled(t.cycle, s.cycle, e) /\ (FastPath(t, s, e, n) \/ SlowPath(t, s, e, n))
  BY <1>2, <1>3 DEF EnqueuedAt, SameClock
<1>5. t.running
  BY <1>4 DEF FastPath, SlowPath, SameRun
<1>6. EdgeTime(t, time) = time /\ EdgeTime(s, time) = time
  BY <1>5 DEF EdgeTime
<1>7. /\ RunsAt(t, time, e) = time + n * FirstPeriod /\ n * FirstPeriod \in Nat
      /\ t.cycle[e] >= t.cycles /\ FirstPeriod \in Nat
  BY <1>2, <1>4, <1>6, AheadTime, Constants
<1>8. ASSUME NEW x \in Events, x # e
      PROVE  t.cycle[x] = s.cycle[x] /\ RunsAt(t, time, x) = RunsAt(s, time, x) /\ d2[x] = d[x]
             /\ t.enqueued[x] = s.enqueued[x]
  <2>1. t.cycle[x] = s.cycle[x] /\ d2[x] = d[x] /\ t.enqueued[x] = s.enqueued[x]
    BY <1>4, <1>8 DEF Recycled, OtherDue, Flagged
  <2> QED BY <1>4, <1>6, <2>1 DEF RunsAt
<1>9. /\ Sorted(t.delayed_queue, t.cycle) /\ ~Holds(s.delayed_queue, e)
      /\ \A x \in Events : Holds(t.delayed_queue, x) => Holds(s.delayed_queue, x) \/ x = e
  <2>1. Sorted(s.delayed_queue, s.cycle)
    BY DEF Timed
  <2> QED BY <1>2, <2>1, EnqueueSorted
<1>10. Ahead(t)
  <2>1. Ahead(s)
    BY DEF Timed
  <2> QED BY <1>4, <1>7, <1>8, <2>1 DEF Ahead
<1>11. NotLate(t, time, d2)
  <2>1. NotLate(s, time, d)
    BY DEF Timed
  <2>2. RunsAt(t, time, e) <= d2[e] + FirstPeriod
    BY <1>7
  <2> QED BY <1>8, <2>1, <2>2 DEF NotLate
<1>12. Waits(t, time) /\ Busy(t, time) /\ Idle(t, time)
  BY <1>5 DEF Waits, Busy, Idle
<1>13. Delayed(t)
  <2>1. Delayed(s)
    BY DEF Timed
  <2>2. /\ QueueSize \in Nat /\ Slots = 0..(QueueSize - 1) /\ s.current_cycle \in Slots /\ s.cycles \in Nat
    BY <1>1, Constants, Fields
  <2>3. ASSUME NEW x \in Events, Holds(t.delayed_queue, x)
        PROVE  t.cycle[x] >= t.cycles + QueueSize - t.current_cycle
    <3>1. CASE x = e
      <4>1. ~FastPath(t, s, e, n)
        BY <1>9, <2>3, <3>1 DEF FastPath
      <4>2. n \notin Slots
        BY <1>4, <4>1 DEF SlowPath
      <4>3. n >= QueueSize
        BY <2>2, <4>2
      <4> QED BY <1>4, <2>2, <3>1, <4>3
    <3>2. CASE x # e
      <4>1. Holds(s.delayed_queue, x) /\ t.cycle[x] = s.cycle[x]
        BY <1>8, <1>9, <2>3, <3>2
      <4> QED BY <1>4, <2>1, <4>1 DEF Delayed
    <3> QED BY <3>1, <3>2
  <2> QED BY <2>3 DEF Delayed
<1>14. t.period = FirstPeriod
  BY <1>4 DEF Timed
<1>15. Timed(t, time, d2)
  BY <1>9, <1>10, <1>11, <1>12, <1>13, <1>14 DEF Timed
<1> QED BY <1>7, <1>8, <1>15 DEF OtherTimes

(* enqueue in an engine that waits: the event is late by one period at most. *)
LEMMA EnqueueWaiting ==
  ASSUME time \in Nat, FirstPeriod # 0, NEW s, Good(s), NEW d \in [Events -> Nat], Timed(s, time, d),
         ~s.running, NEW e \in Events, ~s.enqueued[e], NEW n \in Nat, NEW t, t = enqueue(s, e, n),
         s.nb_enqueued_to_cycle = 0 \/ n > 0,
         NEW d2, OtherDue(d2, d, e), d2[e] = time + n * FirstPeriod
  PROVE  /\ Timed(t, time, d2) /\ OtherTimes(t, s, e)
         /\ RunsAt(t, time, e) = EdgeTime(t, time) + n * FirstPeriod
<1> DEFINE u == sync(s)
           w == time + n * FirstPeriod
<1>1. s \in States
  BY DEF Good
<1>2. t \in States /\ EnqueuedAt(t, s, e, n)
  BY <1>1, EnqueueShape
<1>3. u \in States /\ SameQueues(u, s) /\ SamePlan(u, s) /\ SameRun(u, s) /\ u.period = s.period
  BY <1>1, SyncOK
<1>4. Timed(u, time, d) /\ Synced(u) /\ \A x \in Events : RunsAt(u, time, x) = RunsAt(s, time, x)
  BY SyncTimed
<1>5. Good(u)
  BY SyncGood
<1> HIDE DEF enqueue
<1>6. /\ t.cycles = u.cycles /\ t.stop_time = u.stop_time /\ t.current_cycle = s.current_cycle
      /\ t.period = s.period /\ Flagged(t.enqueued, s.enqueued, e, TRUE) /\ t.cycle[e] = n + t.cycles
      /\ Recycled(t.cycle, s.cycle, e) /\ SlowPath(t, s, e, n)
  BY <1>2 DEF EnqueuedAt, SameClock, FastPath
<1> HIDE DEF u, w
<1>7. /\ s.period = FirstPeriod /\ FirstPeriod \in Nat /\ n * FirstPeriod \in Nat /\ w \in Nat
      /\ w = time + n * FirstPeriod
  <2>1. s.period = FirstPeriod /\ FirstPeriod \in Nat
    BY Constants DEF Timed
  <2>2. n * FirstPeriod \in Nat
    BY <2>1
  <2> QED BY <2>1, <2>2 DEF w
<1>8. /\ ~t.running /\ t.must_flush_delayed_queue /\ t.nb_enqueued_to_cycle = s.nb_enqueued_to_cycle
      /\ Replanned(t, s, w)
  BY <1>6, <1>7 DEF SlowPath
<1>9. /\ u.nb_enqueued_to_cycle = s.nb_enqueued_to_cycle /\ u.enqueued = s.enqueued /\ u.cycle = s.cycle
      /\ u.is_enqueued = s.is_enqueued /\ u.next_event_time = s.next_event_time /\ ~u.running
      /\ u.delayed_queue = s.delayed_queue
  BY <1>3 DEF SameQueues, SamePlan, SameRun
<1>10. /\ t.is_enqueued /\ t.next_event_time \in Int /\ u.next_event_time \in Int
       /\ u.is_enqueued /\ u.next_event_time <= w => t.next_event_time = u.next_event_time
       /\ ~(u.is_enqueued /\ u.next_event_time <= w) => t.next_event_time = w
       /\ s.nb_enqueued_to_cycle \in Nat /\ u.stop_time \in Nat
  <2>1. t.next_event_time \in Int /\ u.next_event_time \in Int /\ s.nb_enqueued_to_cycle \in Nat /\ u.stop_time \in Nat
    BY <1>1, <1>2, <1>3, Fields
  <2> QED BY <1>8, <1>9, <2>1 DEF Replanned
<1>11. u.is_enqueued => time <= u.next_event_time
  <2>1. u.is_enqueued => has_events(u)
    BY <1>5 DEF Good, Plan
  <2> QED BY <1>4, <1>9, <2>1 DEF Timed, Waits
<1>12. time <= t.next_event_time /\ t.next_event_time <= w /\ (u.is_enqueued => t.next_event_time <= u.next_event_time)
  BY <1>7, <1>10, <1>11
<1>13. /\ EdgeTime(t, time) = EdgeTime(u, time) /\ EdgeTime(t, time) <= time + FirstPeriod
       /\ Busy(t, time)
       /\ s.nb_enqueued_to_cycle = 0 =>
            EdgeTime(t, time) = u.stop_time /\ u.stop_time < time + FirstPeriod /\ u.stop_time >= time
  <2>1. CASE s.nb_enqueued_to_cycle > 0
    <3>1. u.is_enqueued /\ u.next_event_time <= time + FirstPeriod
      <4>1. has_events(u)
        BY <1>9, <2>1 DEF has_events
      <4> QED BY <1>4, <1>9, <2>1, <4>1 DEF Timed, Waits, Busy
    <3>2. FirstPeriod <= n * FirstPeriod
      <4>1. 1 <= n
        BY <2>1
      <4>2. 1 * FirstPeriod <= n * FirstPeriod
        BY <1>7, <4>1, Mono
      <4> QED BY <1>7, <4>2
    <3>3. u.next_event_time <= w
      BY <1>7, <1>10, <3>1, <3>2
    <3>4. t.next_event_time = u.next_event_time
      BY <1>10, <3>1, <3>3
    <3>5. EdgeTime(t, time) = EdgeTime(u, time)
      BY <1>8, <1>9, <2>1, <3>4 DEF EdgeTime
    <3>6. EdgeTime(t, time) = t.next_event_time
      BY <1>8, <2>1 DEF EdgeTime
    <3>7. EdgeTime(t, time) <= time + FirstPeriod
      BY <3>1, <3>4, <3>6
    <3>8. Busy(t, time) /\ Idle(t, time)
      BY <1>8, <2>1, <3>1, <3>4 DEF Busy, Idle
    <3> QED BY <2>1, <3>5, <3>7, <3>8
  <2>2. CASE s.nb_enqueued_to_cycle = 0
    <3>0. ~(0 > 0)
      OBVIOUS
    <3>1. EdgeTime(t, time) = u.stop_time /\ EdgeTime(u, time) = u.stop_time
      BY <1>6, <1>8, <1>9, <2>2, <3>0 DEF EdgeTime
    <3>2. u.stop_time < time + FirstPeriod /\ u.stop_time >= time
      <4>1. u.nb_enqueued_to_cycle = 0
        BY <1>9, <2>2
      <4>2. Idle(u, time) /\ Synced(u)
        BY <1>4 DEF Timed
      <4> QED BY <1>9, <4>1, <4>2 DEF Idle, Synced
    <3>3. Busy(t, time)
      BY <1>8, <2>2, <3>0 DEF Busy
    <3>4. u.stop_time <= time + FirstPeriod
      BY <1>7, <1>10, <3>2
    <3> QED BY <3>1, <3>2, <3>3, <3>4
  <2> QED BY <1>10, <2>1, <2>2
<1>14. ASSUME NEW x \in Events, x # e
       PROVE  /\ t.cycle[x] = u.cycle[x] /\ d2[x] = d[x] /\ t.enqueued[x] = u.enqueued[x]
              /\ RunsAt(t, time, x) = RunsAt(u, time, x)
  <2>1. t.cycle[x] = u.cycle[x] /\ d2[x] = d[x] /\ t.enqueued[x] = u.enqueued[x]
    BY <1>6, <1>9, <1>14 DEF Recycled, OtherDue, Flagged
  <2> QED BY <1>6, <1>13, <2>1 DEF RunsAt
<1>15. RunsAt(t, time, e) = EdgeTime(t, time) + n * FirstPeriod /\ t.cycle[e] >= t.cycles
  BY <1>2, <1>6, AheadTime
<1>16. EdgeTime(t, time) \in Int
  BY <1>2, TimesOK
<1>17. Ahead(t)
  <2>1. Ahead(u)
    BY <1>4 DEF Timed
  <2> QED BY <1>6, <1>14, <1>15, <2>1 DEF Ahead
<1>18. NotLate(t, time, d2)
  <2>1. NotLate(u, time, d)
    BY <1>4 DEF Timed
  <2>2. RunsAt(t, time, e) <= d2[e] + FirstPeriod
    BY <1>7, <1>13, <1>15, <1>16
  <2> QED BY <1>14, <2>1, <2>2 DEF NotLate
<1>19. Idle(t, time)
  <2> SUFFICES ASSUME s.nb_enqueued_to_cycle = 0
               PROVE  /\ t.stop_time < time + FirstPeriod
                      /\ \A x \in Events : t.enqueued[x] => t.next_event_time <= RunsAt(t, time, x)
    BY <1>8 DEF Idle
  <2>1. t.stop_time < time + FirstPeriod
    BY <1>6, <1>13
  <2>2. t.next_event_time <= RunsAt(t, time, e)
    BY <1>7, <1>10, <1>12, <1>13, <1>15
  <2>3. ASSUME NEW x \in Events, x # e, t.enqueued[x] PROVE t.next_event_time <= RunsAt(t, time, x)
    <3>1. u.enqueued[x] /\ RunsAt(t, time, x) = RunsAt(u, time, x)
      BY <1>14, <2>3
    <3>2. has_events(u)
      BY <1>5, <3>1, EnqueuedHas
    <3>3. Waits(u, time) /\ Idle(u, time)
      BY <1>4 DEF Timed
    <3>4. u.is_enqueued /\ u.next_event_time <= RunsAt(u, time, x)
      BY <1>9, <3>1, <3>2, <3>3 DEF Waits, Idle
    <3>5. RunsAt(u, time, x) \in Int
      BY <1>3, TimesOK
    <3> QED BY <1>10, <1>12, <3>1, <3>4, <3>5
  <2> QED BY <2>1, <2>2, <2>3
<1>20. Waits(t, time) /\ Delayed(t)
  BY <1>8, <1>10, <1>12 DEF Waits, Delayed
<1>21. Sorted(t.delayed_queue, t.cycle)
  <2>1. Sorted(s.delayed_queue, s.cycle)
    BY DEF Timed
  <2> QED BY <1>2, <2>1, EnqueueSorted
<1>22. t.period = FirstPeriod
  BY <1>6, <1>7
<1>23. Timed(t, time, d2)
  BY <1>13, <1>17, <1>18, <1>19, <1>20, <1>21, <1>22 DEF Timed
<1> QED BY <1>4, <1>14, <1>15, <1>23 DEF OtherTimes

(* enqueue, in an engine that runs, or from outside for a later cycle.      *)
LEMMA EnqueueTimed ==
  ASSUME time \in Nat, FirstPeriod # 0, NEW s, Good(s), NEW d \in [Events -> Nat], Timed(s, time, d),
         NEW e \in Events, ~s.enqueued[e], NEW n \in Nat, NEW t, t = enqueue(s, e, n),
         s.running \/ s.nb_enqueued_to_cycle = 0 \/ n > 0,
         NEW d2, OtherDue(d2, d, e), d2[e] = time + n * FirstPeriod
  PROVE  Timed(t, time, d2)
<1>1. CASE s.running
  BY <1>1, EnqueueRunning
<1>2. CASE ~s.running
  BY <1>2, EnqueueWaiting
<1> QED BY <1>1, <1>2

(* What cancel leaves where it does not empty the buffer.                   *)
LEMMA CancelEdge ==
  ASSUME time \in Nat, NEW s, Good(s), Synced(s), NEW e \in Events, NEW u, u = cancel(s, e),
         s.running \/ s.nb_enqueued_to_cycle = 0 \/ u.nb_enqueued_to_cycle # 0
  PROVE  u \in States /\ Synced(u) /\ SameClock(u, s) /\ u.running = s.running
<1>1. Good(u) /\ SameClock(u, s) /\ u.running = s.running
  BY CancelGood
<1>2. u \in States
  BY <1>1 DEF Good
<1> QED BY <1>1, <1>2 DEF Synced, SameClock

(* In a synchronised engine reenqueue is cancel and enqueue.                *)
LEMMA ReenqueueShape ==
  ASSUME time \in Nat, NEW s, Good(s), Synced(s), NEW e \in Events, NEW n \in Nat,
         ~(s.enqueued[e] /\ s.cycles + n >= s.cycle[e]), NEW u, u = cancel(s, e),
         s.running \/ s.nb_enqueued_to_cycle = 0 \/ u.nb_enqueued_to_cycle # 0
  PROVE  reenqueue(s, e, n) = enqueue(u, e, n)
<1> DEFINE v == enqueue(u, e, n)
           c == s.cycles + n
<1>1. u \in States /\ Synced(u) /\ SameClock(u, s)
  BY CancelEdge
<1>2. v \in States /\ EnqueuedAt(v, u, e, n)
  BY <1>1, EnqueueShape
<1>3. reenqueue(s, e, n) = [v EXCEPT !.cycle[e] = c]
  BY DEF reenqueue
<1> HIDE DEF v
<1>4. sync(u) = u
  BY <1>1, SyncedStays
<1>5. v.cycle[e] = n + v.cycles /\ v.cycles = s.cycles
  BY <1>1, <1>2, <1>4 DEF EnqueuedAt, SameClock
<1>6. s.cycles \in Nat
  BY Fields DEF Good
<1>7. v.cycle[e] = c
  BY <1>5, <1>6
<1> HIDE DEF c
<1>8. v.cycle \in [Events -> Nat]
  BY <1>2, Fields
<1>9. [v.cycle EXCEPT ![e] = c] = v.cycle
  BY <1>7, <1>8
<1>10. [v EXCEPT !.cycle[e] = c] = [v EXCEPT !.cycle = [v.cycle EXCEPT ![e] = c]]
  BY <1>2 DEF States
<1>11. [v EXCEPT !.cycle = v.cycle] = v
  BY <1>2 DEF States
<1> QED BY <1>3, <1>9, <1>10, <1>11 DEF v

(* reenqueue keeps the times, but for cancelling the last event of the buffer. *)
LEMMA ReenqueueTimed ==
  ASSUME time \in Nat, FirstPeriod # 0, NEW s, Good(s), NEW d \in [Events -> Nat], Timed(s, time, d),
         Synced(s), NEW e \in Events, NEW n \in Nat, NEW t, t = reenqueue(s, e, n),
         s.running \/ s.nb_enqueued_to_cycle = 0 \/ n > 0,
         NEW u, u = cancel(s, e),
         s.running \/ s.nb_enqueued_to_cycle = 0 \/ u.nb_enqueued_to_cycle # 0,
         NEW d2,
         IF s.enqueued[e] /\ s.cycles + n >= s.cycle[e] THEN d2 = d
         ELSE OtherDue(d2, d, e) /\ d2[e] = time + n * FirstPeriod
  PROVE  Timed(t, time, d2)
<1>1. CASE s.enqueued[e] /\ s.cycles + n >= s.cycle[e]
  BY <1>1 DEF reenqueue
<1>2. CASE ~(s.enqueued[e] /\ s.cycles + n >= s.cycle[e])
  <2>1. t = enqueue(u, e, n)
    BY <1>2, ReenqueueShape
  <2>2. OtherDue(d2, d, e) /\ d2[e] = time + n * FirstPeriod
    BY <1>2
  <2>3. Good(u) /\ ~u.enqueued[e] /\ u.running = s.running
    BY CancelGood
  <2>4. OtherDue(d, d, e)
    BY DEF OtherDue
  <2>5. Timed(u, time, d) /\ (s.nb_enqueued_to_cycle = 0 => u.nb_enqueued_to_cycle = 0)
    <3>1. CASE s.enqueued[e]
      BY <2>4, <3>1, CancelTimed
    <3>2. CASE ~s.enqueued[e]
      <4>1. u = s
        BY <3>2 DEF cancel
      <4> QED BY <4>1
    <3> QED BY <3>1, <3>2
  <2> QED BY <2>1, <2>2, <2>3, <2>5, EnqueueTimed
<1> QED BY <1>1, <1>2

-----------------------------------------------------------------------------
(* The steps of exec().                                                     *)

(* The events that the flush leaves are after the window.                   *)
LEMMA FlushTimed ==
  ASSUME NEW r, Good(r), NEW t, Good(t), Flushed(t, r), Sorted(r.delayed_queue, r.cycle), Ahead(t)
  PROVE  Sorted(t.delayed_queue, t.cycle) /\ Delayed(t)
<1> DEFINE q == r.delayed_queue
<1>1. /\ r \in States /\ t \in States /\ Placed(r.event_queue, r.delayed_queue, r.enqueued)
      /\ Placed(t.event_queue, t.delayed_queue, t.enqueued)
  BY DEF Good, Queues
<1>2. /\ q \in Seq(Events) /\ Distinct(q) /\ r.cycle \in [Events -> Nat] /\ t.cycles \in Nat
      /\ t.current_cycle \in Slots /\ QueueSize \in Nat /\ Slots = 0..(QueueSize - 1)
  BY <1>1, Fields, Constants DEF Placed
<1>3. t.cycle = r.cycle /\ t.enqueued = r.enqueued
  BY DEF Flushed
<1>4. PICK k \in 0..Len(q) :
        /\ k < Len(q) => r.cycle[q[k + 1]] - t.cycles \notin Slots
        /\ t.delayed_queue = SubSeq(q, k + 1, Len(q))
  BY DEF Flushed
<1> HIDE DEF q
<1>5. /\ Sorted(t.delayed_queue, r.cycle)
      /\ \A e \in Events : Holds(t.delayed_queue, e) =>
                             k < Len(q) /\ r.cycle[q[k + 1]] <= r.cycle[e] /\ q[k + 1] \in Events
  <2>1. Sorted(q, r.cycle)
    BY DEF q
  <2> QED BY <1>2, <1>4, <2>1, RestSorted
<1>6. ASSUME NEW e \in Events, Holds(t.delayed_queue, e)
      PROVE  t.cycle[e] >= t.cycles + QueueSize - t.current_cycle
  <2> DEFINE f == q[k + 1]
  <2>1. k < Len(q) /\ r.cycle[f] <= r.cycle[e] /\ f \in Events
    BY <1>5, <1>6
  <2>2. r.cycle[f] - t.cycles \notin Slots
    BY <1>4, <2>1
  <2>3. f = q[k + 1]
    OBVIOUS
  <2> HIDE DEF f
  <2>4. t.enqueued[f]
    <3>1. k + 1 \in 1..Len(q)
      BY <1>2, <2>1
    <3>2. Holds(q, f)
      BY <2>3, <3>1 DEF Holds
    <3>3. r.enqueued[f]
      BY <1>1, <2>1, <3>2 DEF Placed, q
    <3> QED BY <1>3, <3>3
  <2>5. r.cycle[f] >= t.cycles
    BY <1>3, <2>1, <2>4 DEF Ahead
  <2>6. r.cycle[f] \in Nat /\ r.cycle[e] \in Nat
    BY <1>2, <2>1
  <2>7. r.cycle[f] - t.cycles >= QueueSize
    BY <1>2, <2>2, <2>5, <2>6
  <2>8. r.cycle[e] >= t.cycles + QueueSize - t.current_cycle
    BY <1>2, <2>1, <2>6, <2>7, SMTT(30)
  <2> QED BY <1>3, <2>8
<1>7. Delayed(t)
  BY <1>6 DEF Delayed
<1> QED BY <1>3, <1>5, <1>7

(* The state in which exec() starts: the flags first, then the flush.       *)
Started(t, s) ==
  \E r : /\ r = [s EXCEPT !.is_enqueued = FALSE, !.running = TRUE]
         /\ t = IF r.must_flush_delayed_queue THEN flush_delayed_queue(r) ELSE r

(* Events keep their times where the engine is planned for the first of them. *)
OnTheEdge(s) ==
  s.nb_enqueued_to_cycle > 0 \/ s.next_event_time = RunsAt(s, time, Head(s.delayed_queue))

(* What the start of exec() leaves.                                         *)
LEMMA StartedShape ==
  ASSUME NEW s, Good(s), s.is_enqueued, NEW t, Started(t, s)
  PROVE  /\ Good(t) /\ t.running /\ t.cycle = s.cycle /\ t.enqueued = s.enqueued
         /\ t.period = s.period /\ t.current_cycle = s.current_cycle /\ t.stop_time = s.stop_time
         /\ ~s.must_flush_delayed_queue => t.cycles = s.cycles /\ t.delayed_queue = s.delayed_queue
         /\ s.nb_enqueued_to_cycle > 0 => t.cycles = s.cycles
         /\ s.nb_enqueued_to_cycle = 0 /\ s.must_flush_delayed_queue =>
              t.cycles = s.cycle[Head(s.delayed_queue)] /\ s.delayed_queue # <<>>
         /\ s.must_flush_delayed_queue /\ Sorted(s.delayed_queue, s.cycle) /\ Ahead(t) =>
              Sorted(t.delayed_queue, t.cycle) /\ Delayed(t)
<1>1. PICK r : /\ r = [s EXCEPT !.is_enqueued = FALSE, !.running = TRUE]
               /\ t = IF r.must_flush_delayed_queue THEN flush_delayed_queue(r) ELSE r
  BY DEF Started
<1>2. /\ Good(r) /\ ~r.is_enqueued /\ r.running /\ SameQueues(r, s) /\ SameClock(r, s)
      /\ r.period = s.period /\ r.must_flush_delayed_queue = s.must_flush_delayed_queue
  BY <1>1, StartGood
<1>3. /\ r.delayed_queue = s.delayed_queue /\ r.cycle = s.cycle /\ r.enqueued = s.enqueued
      /\ r.nb_enqueued_to_cycle = s.nb_enqueued_to_cycle /\ r.cycles = s.cycles
      /\ r.stop_time = s.stop_time /\ r.current_cycle = s.current_cycle
  BY <1>2 DEF SameQueues, SameClock
<1>4. CASE ~s.must_flush_delayed_queue
  <2>1. t = r
    BY <1>1, <1>2, <1>4
  <2> QED BY <1>2, <1>3, <1>4, <2>1
<1>5. CASE s.must_flush_delayed_queue
  <2>1. t = flush_delayed_queue(r)
    BY <1>1, <1>2, <1>5
  <2>2. Good(t) /\ Flushed(t, r)
    BY <1>2, <2>1, FlushGood
  <2>3. /\ t.stop_time = r.stop_time /\ t.current_cycle = r.current_cycle /\ t.period = r.period
        /\ t.enqueued = r.enqueued /\ t.cycle = r.cycle /\ t.running = r.running
        /\ Jumps(r) => t.cycles = r.cycle[Head(r.delayed_queue)]
        /\ ~Jumps(r) => t.cycles = r.cycles
    BY <2>2 DEF Flushed
  <2>4. s.nb_enqueued_to_cycle > 0 => ~Jumps(r)
    BY <1>3 DEF Jumps
  <2>5. s.nb_enqueued_to_cycle = 0 => s.delayed_queue # <<>>
    <3>1. has_events(s)
      BY DEF Good, Plan
    <3> QED BY <3>1 DEF has_events
  <2>6. s.nb_enqueued_to_cycle = 0 => Jumps(r)
    BY <1>3, <2>5 DEF Jumps
  <2>7. Sorted(s.delayed_queue, s.cycle) /\ Ahead(t) => Sorted(t.delayed_queue, t.cycle) /\ Delayed(t)
    BY <1>2, <1>3, <2>2, FlushTimed
  <2> QED BY <1>2, <1>3, <1>5, <2>2, <2>3, <2>4, <2>5, <2>6, <2>7
<1> QED BY <1>4, <1>5

(* The start of exec() makes no event later, and jumps over no cycle of an event. *)
LEMMA StartTimed ==
  ASSUME time \in Nat, FirstPeriod # 0, NEW s, Good(s), NEW d \in [Events -> Nat], Timed(s, time, d),
         s.is_enqueued, s.next_event_time <= time, NEW t, Started(t, s)
  PROVE  /\ Timed(t, time, d) /\ s.next_event_time = time /\ t.running
         /\ OnTheEdge(s) => \A e \in Events : s.enqueued[e] => RunsAt(t, time, e) = RunsAt(s, time, e)
<1> DEFINE P == FirstPeriod
<1>1. /\ Good(t) /\ t.running /\ t.cycle = s.cycle /\ t.enqueued = s.enqueued
      /\ t.period = s.period /\ t.current_cycle = s.current_cycle
      /\ ~s.must_flush_delayed_queue => t.cycles = s.cycles /\ t.delayed_queue = s.delayed_queue
      /\ s.nb_enqueued_to_cycle > 0 => t.cycles = s.cycles
      /\ s.nb_enqueued_to_cycle = 0 /\ s.must_flush_delayed_queue =>
           t.cycles = s.cycle[Head(s.delayed_queue)] /\ s.delayed_queue # <<>>
      /\ s.must_flush_delayed_queue /\ Sorted(s.delayed_queue, s.cycle) /\ Ahead(t) =>
           Sorted(t.delayed_queue, t.cycle) /\ Delayed(t)
  BY StartedShape
<1>2. s \in States /\ t \in States
  BY <1>1 DEF Good
<1>3. /\ s.next_event_time \in Int /\ s.nb_enqueued_to_cycle \in Nat /\ s.cycles \in Nat /\ P \in Nat
      /\ s.cycle \in [Events -> Nat] /\ s.stop_time \in Nat /\ s.delayed_queue \in Seq(Events)
  BY <1>2, Fields, Constants
<1>4. /\ s.period = P /\ Sorted(s.delayed_queue, s.cycle) /\ Ahead(s) /\ NotLate(s, time, d)
      /\ Waits(s, time) /\ Idle(s, time) /\ Delayed(s)
  BY DEF Timed
<1>5. ~s.running /\ has_events(s)
  BY DEF Good, Plan
<1>6. s.next_event_time = time
  BY <1>3, <1>4, <1>5 DEF Waits
<1>7. EdgeTime(t, time) = time
  BY <1>1 DEF EdgeTime
<1>8. /\ Ahead(t)
      /\ \A e \in Events : s.enqueued[e] => RunsAt(t, time, e) <= RunsAt(s, time, e)
      /\ OnTheEdge(s) => \A e \in Events : s.enqueued[e] => RunsAt(t, time, e) = RunsAt(s, time, e)
      /\ Sorted(t.delayed_queue, t.cycle) /\ Delayed(t)
  <2>1. CASE s.nb_enqueued_to_cycle > 0
    <3>1. EdgeTime(s, time) = time /\ t.cycles = s.cycles
      BY <1>1, <1>5, <1>6, <2>1 DEF EdgeTime
    <3>2. ASSUME NEW e \in Events PROVE RunsAt(t, time, e) = RunsAt(s, time, e) /\ RunsAt(t, time, e) \in Int
      BY <1>1, <1>2, <1>7, <3>1, TimesOK DEF RunsAt
    <3>3. Ahead(t)
      BY <1>1, <1>4, <3>1 DEF Ahead
    <3>4. Sorted(t.delayed_queue, t.cycle) /\ Delayed(t)
      <4>1. CASE s.must_flush_delayed_queue
        BY <1>1, <1>4, <3>3, <4>1
      <4>2. CASE ~s.must_flush_delayed_queue
        <5>1. t.delayed_queue = s.delayed_queue
          BY <1>1, <4>2
        <5> QED BY <1>1, <1>4, <3>1, <4>2, <5>1 DEF Delayed
      <4> QED BY <4>1, <4>2
    <3>5. \A e \in Events : RunsAt(t, time, e) <= RunsAt(s, time, e)
      BY <3>2
    <3> QED BY <3>2, <3>3, <3>4, <3>5
  <2>2. CASE s.nb_enqueued_to_cycle = 0
    <3> DEFINE f == Head(s.delayed_queue)
               h == s.cycle[f]
    <3>1. s.must_flush_delayed_queue /\ ~(s.nb_enqueued_to_cycle > 0)
      BY <1>4, <1>5, <2>2 DEF Idle
    <3>2. t.cycles = h /\ s.delayed_queue # <<>>
      BY <1>1, <2>2, <3>1
    <3>3. f \in Events /\ h \in Nat
      BY <1>3, <3>2
    <3>4. s.enqueued[f]
      <4>1. Placed(s.event_queue, s.delayed_queue, s.enqueued) /\ Distinct(s.delayed_queue)
        BY DEF Good, Queues, Placed
      <4>2. Holds(s.delayed_queue, f)
        BY <1>3, <3>2, <4>1, TailOK
      <4> QED BY <3>3, <4>1, <4>2 DEF Placed
    <3> HIDE DEF f
    <3>5. ASSUME NEW e \in Events, s.enqueued[e] PROVE h <= s.cycle[e]
      <4>1. Holds(s.delayed_queue, e)
        BY <2>2, <3>5, EnqueuedHas
      <4> QED BY <1>3, <1>4, <4>1, HeadFirst DEF f
    <3>6. Ahead(t)
      BY <1>1, <3>2, <3>5, <1>3, <3>3 DEF Ahead
    <3>7. EdgeTime(s, time) = s.stop_time
      BY <1>5, <3>1 DEF EdgeTime
    <3>8. /\ time <= RunsAt(s, time, f) /\ RunsAt(s, time, f) = s.stop_time + (h - s.cycles) * P
          /\ OnTheEdge(s) => time = RunsAt(s, time, f)
      <4>1. time <= RunsAt(s, time, f)
        BY <1>4, <1>5, <1>6, <2>2, <3>3, <3>4 DEF Idle
      <4>2. OnTheEdge(s) => time = RunsAt(s, time, f)
        BY <1>6, <3>1 DEF OnTheEdge, f
      <4> QED BY <3>7, <4>1, <4>2 DEF RunsAt
    <3>9. ASSUME NEW e \in Events
          PROVE  /\ RunsAt(t, time, e) <= RunsAt(s, time, e)
                 /\ OnTheEdge(s) => RunsAt(t, time, e) = RunsAt(s, time, e)
      <4> DEFINE c == s.cycle[e]
      <4>1. c \in Nat
        BY <1>3
      <4>2. RunsAt(t, time, e) = time + (c - h) * P /\ RunsAt(s, time, e) = s.stop_time + (c - s.cycles) * P
        BY <1>1, <1>7, <3>2, <3>7 DEF RunsAt
      <4> HIDE DEF c, h, P
      <4>3. (s.stop_time + (h - s.cycles) * P) + (c - h) * P = s.stop_time + (c - s.cycles) * P
        <5>1. h - s.cycles \in Int /\ s.cycles + (h - s.cycles) = h
          BY <1>3, <3>3
        <5>2. (s.stop_time + (h - s.cycles) * P) + (c - (s.cycles + (h - s.cycles))) * P
                = s.stop_time + (c - s.cycles) * P
          BY <1>3, <4>1, <5>1, SameTime, SMTT(30)
        <5> QED BY <5>1, <5>2
      <4>4. (c - h) * P \in Int /\ (h - s.cycles) * P \in Int /\ (c - s.cycles) * P \in Int
        BY <1>3, <3>3, <4>1, SMTT(30)
      <4> QED BY <1>3, <3>8, <4>2, <4>3, <4>4
    <3>10. Sorted(t.delayed_queue, t.cycle) /\ Delayed(t)
      BY <1>1, <1>4, <3>1, <3>6
    <3> QED BY <3>6, <3>9, <3>10
  <2> QED BY <1>3, <2>1, <2>2
<1>9. NotLate(t, time, d)
  <2> SUFFICES ASSUME NEW e \in Events, t.enqueued[e] PROVE RunsAt(t, time, e) <= d[e] + P
    BY DEF NotLate
  <2>1. s.enqueued[e] /\ RunsAt(t, time, e) \in Int /\ RunsAt(s, time, e) \in Int /\ d[e] + P \in Int
    BY <1>1, <1>2, <1>3, TimesOK
  <2>2. RunsAt(s, time, e) <= d[e] + P
    BY <1>4, <2>1 DEF NotLate
  <2> QED BY <1>8, <2>1, <2>2
<1>10. Waits(t, time) /\ Busy(t, time) /\ Idle(t, time)
  BY <1>1 DEF Waits, Busy, Idle
<1>11. Timed(t, time, d)
  BY <1>1, <1>4, <1>8, <1>9, <1>10 DEF Timed
<1> QED BY <1>1, <1>6, <1>8, <1>11

(* The execution of an event leaves the others.                             *)
LEMMA RunTimed ==
  ASSUME NEW s, Good(s), s.running, NEW d \in [Events -> Nat], Timed(s, time, d),
         NEW e \in Events, NEW t, Popped(t, s, e), NEW d2, OtherDue(d2, d, e)
  PROVE  Timed(t, time, d2) /\ OtherTimes(t, s, e)
<1>1. /\ t.cycles = s.cycles /\ t.running /\ t.current_cycle = s.current_cycle /\ t.period = s.period
      /\ t.cycle = s.cycle /\ t.delayed_queue = s.delayed_queue /\ Flagged(t.enqueued, s.enqueued, e, FALSE)
  BY DEF Popped, SameClock, SameRun
<1>2. ASSUME NEW x \in Events, t.enqueued[x] PROVE s.enqueued[x] /\ x # e /\ d2[x] = d[x]
  <2>1. x # e
    BY <1>1, <1>2 DEF Flagged
  <2> QED BY <1>1, <1>2, <2>1 DEF Flagged, OtherDue
<1>3. \A x \in Events : RunsAt(t, time, x) = RunsAt(s, time, x)
  BY <1>1 DEF RunsAt, EdgeTime
<1>4. /\ s.period = FirstPeriod /\ Sorted(s.delayed_queue, s.cycle) /\ Ahead(s) /\ NotLate(s, time, d)
      /\ Delayed(s)
  BY DEF Timed
<1>5. Ahead(t)
  BY <1>1, <1>2, <1>4 DEF Ahead
<1>6. NotLate(t, time, d2)
  BY <1>2, <1>3, <1>4 DEF NotLate
<1>7. Waits(t, time) /\ Busy(t, time) /\ Idle(t, time)
  BY <1>1 DEF Waits, Busy, Idle
<1>8. Delayed(t)
  BY <1>1, <1>4 DEF Delayed
<1> QED BY <1>1, <1>3, <1>4, <1>5, <1>6, <1>7, <1>8 DEF Timed, OtherTimes

(* Time passes up to the time the engine is planned for.                    *)
LEMMA PassTimed ==
  ASSUME time \in Nat, NEW s, Good(s), NEW d, Timed(s, time, d), ~s.running,
         NEW tm \in Nat, tm > time, s.is_enqueued => tm <= s.next_event_time
  PROVE  Timed(s, tm, d) /\ \A e \in Events : RunsAt(s, tm, e) = RunsAt(s, time, e)
<1>1. s.next_event_time \in Int /\ s.stop_time \in Nat /\ FirstPeriod \in Nat
  BY Fields, Constants DEF Good
<1>2. /\ s.period = FirstPeriod /\ Sorted(s.delayed_queue, s.cycle) /\ Ahead(s) /\ NotLate(s, time, d)
      /\ Waits(s, time) /\ Busy(s, time) /\ Idle(s, time) /\ Delayed(s)
  BY DEF Timed
<1>3. \A e \in Events : RunsAt(s, tm, e) = RunsAt(s, time, e)
  BY DEF RunsAt, EdgeTime
<1>4. NotLate(s, tm, d)
  BY <1>2, <1>3 DEF NotLate
<1>5. Waits(s, tm) /\ Busy(s, tm)
  BY <1>1, <1>2 DEF Waits, Busy
<1>6. Idle(s, tm)
  <2>1. s.stop_time < time + FirstPeriod => s.stop_time < tm + FirstPeriod
    BY <1>1
  <2> QED BY <1>2, <1>3, <2>1 DEF Idle
<1> QED BY <1>2, <1>3, <1>4, <1>5, <1>6 DEF Timed

(* In an idle engine the plan is for the first event.                       *)
HeadPlan(s, tm) ==
  ~s.running /\ s.nb_enqueued_to_cycle = 0 /\ s.delayed_queue # <<>> =>
    s.next_event_time = RunsAt(s, tm, s.delayed_queue[1])

(* In an engine that runs, with an empty current slot, every event is later. *)
LEMMA NextCycle ==
  ASSUME NEW s, Good(s), s.running, Delayed(s), s.event_queue[s.current_cycle] = <<>>,
         NEW e \in Events, s.enqueued[e]
  PROVE  s.cycle[e] >= s.cycles + 1
<1>1. /\ s \in States /\ Placed(s.event_queue, s.delayed_queue, s.enqueued)
      /\ SlotsOK(s.event_queue, s.current_cycle, s.cycles, s.cycle)
  BY DEF Good, Queues, Cycles
<1>2. /\ s.current_cycle \in Slots /\ QueueSize \in Nat /\ Slots = 0..(QueueSize - 1) /\ s.cycles \in Nat
      /\ s.cycle[e] \in Nat /\ s.event_queue \in Buffer /\ QueueSize > 0
  BY <1>1, Fields, Constants
<1>3. Holds(s.delayed_queue, e) \/ \E i \in Slots : Holds(s.event_queue[i], e)
  BY <1>1 DEF Placed
<1>4. CASE Holds(s.delayed_queue, e)
  <2>1. s.cycle[e] >= s.cycles + QueueSize - s.current_cycle
    BY <1>4 DEF Delayed
  <2> QED BY <1>2, <2>1
<1>5. CASE \E i \in Slots : Holds(s.event_queue[i], e)
  <2>1. PICK i \in Slots : Holds(s.event_queue[i], e)
    BY <1>5
  <2>2. PICK n \in Slots : (s.current_cycle + n) % QueueSize = i
    BY <1>2, CircleFull
  <2>3. s.cycle[e] = s.cycles + n
    BY <1>1, <2>1, <2>2 DEF SlotsOK
  <2>4. n # 0
    <3> SUFFICES ASSUME n = 0 PROVE FALSE
      OBVIOUS
    <3>1. (s.current_cycle + n) % QueueSize = s.current_cycle
      BY <1>2, Circle
    <3>2. Holds(<<>>, e)
      BY <2>1, <2>2, <3>1
    <3> QED BY <3>2 DEF Holds
  <2> QED BY <1>2, <2>3, <2>4
<1> QED BY <1>3, <1>4, <1>5

(* The end of a cycle: the count and the plan are at the next edge.         *)
LEMMA EndCycleTimed ==
  ASSUME time \in Nat, FirstPeriod # 0, NEW s, Good(s), NEW d \in [Events -> Nat], Timed(s, time, d),
         s.running, s.event_queue[s.current_cycle] = <<>>, s.nb_enqueued_to_cycle > 0,
         NEW t, t = ExecEnd(s)
  PROVE  /\ Timed(t, time, d) /\ t.stop_time = s.stop_time
         /\ \A e \in Events : RunsAt(t, time, e) = RunsAt(s, time, e)
         /\ t.enqueued = s.enqueued /\ t.nb_enqueued_to_cycle > 0
<1> DEFINE P == FirstPeriod
           u == EndCycle(s)
<1>1. /\ s.period = P /\ Sorted(s.delayed_queue, s.cycle) /\ Ahead(s) /\ NotLate(s, time, d) /\ Delayed(s)
  BY DEF Timed
<1>2. /\ s.current_cycle \in Slots /\ s.cycles \in Nat /\ s.cycle \in [Events -> Nat]
      /\ P \in Nat /\ P > 0 /\ QueueSize \in Nat /\ QueueSize > 0 /\ Slots = 0..(QueueSize - 1)
  <2>1. s \in States
    BY DEF Good
  <2> QED BY <2>1, Fields, Constants
<1>3. t = Leave(u, P)
  BY <1>1 DEF ExecEnd
<1>4. /\ Good(u) /\ u.cycles = s.cycles + 1 /\ u.current_cycle = (s.current_cycle + 1) % QueueSize
      /\ u.delayed_queue = s.delayed_queue /\ u.nb_enqueued_to_cycle = s.nb_enqueued_to_cycle
      /\ u.enqueued = s.enqueued /\ u.cycle = s.cycle /\ u.period = P /\ u.running
      /\ u.stop_time = s.stop_time
      /\ u.must_flush_delayed_queue <=> s.must_flush_delayed_queue \/ u.current_cycle = 0
  BY <1>1, EndCycleGood
<1> HIDE DEF u, P
<1>5. has_events(u)
  BY <1>4 DEF has_events
<1>6. /\ Good(t) /\ ~t.running /\ t.is_enqueued /\ t.next_event_time = time + P
      /\ SameQueues(t, u) /\ SameClock(t, u) /\ t.period = u.period
      /\ t.must_flush_delayed_queue = u.must_flush_delayed_queue
  <2>1. P \in Int
    BY <1>2
  <2>2. /\ Good(t) /\ ~t.running /\ (t.is_enqueued <=> P > 0)
        /\ t.is_enqueued => t.next_event_time = time + P
        /\ SameQueues(t, u) /\ SameClock(t, u) /\ t.period = u.period
        /\ t.must_flush_delayed_queue = u.must_flush_delayed_queue
    BY <1>3, <1>4, <1>5, <2>1, LeaveGood
  <2> QED BY <1>2, <2>2
<1>7. /\ t.cycles = s.cycles + 1 /\ t.current_cycle = (s.current_cycle + 1) % QueueSize
      /\ t.delayed_queue = s.delayed_queue /\ t.nb_enqueued_to_cycle > 0
      /\ t.enqueued = s.enqueued /\ t.cycle = s.cycle /\ t.period = P /\ t.stop_time = s.stop_time
      /\ ~t.must_flush_delayed_queue => t.current_cycle # 0
  BY <1>4, <1>6 DEF SameQueues, SameClock
<1>8. EdgeTime(t, time) = time + P /\ EdgeTime(s, time) = time
  BY <1>6, <1>7 DEF EdgeTime
<1>9. ASSUME NEW e \in Events PROVE RunsAt(t, time, e) = RunsAt(s, time, e)
  <2>1. s.cycle[e] \in Nat
    BY <1>2
  <2>2. (time + 1 * P) + (s.cycle[e] - (s.cycles + 1)) * P = time + (s.cycle[e] - s.cycles) * P
    BY <1>2, <2>1, SameTime
  <2>3. 1 * P = P
    BY <1>2
  <2> QED BY <1>7, <1>8, <2>2, <2>3 DEF RunsAt, P
<1>10. Ahead(t)
  BY <1>1, <1>7, NextCycle DEF Ahead
<1>11. NotLate(t, time, d)
  BY <1>1, <1>7, <1>9 DEF NotLate
<1>12. Waits(t, time) /\ Busy(t, time)
  <2>1. time <= time + P
    BY <1>2
  <2>2. time + P <= time + FirstPeriod
    BY <1>2 DEF P
  <2> QED BY <1>6, <2>1, <2>2 DEF Waits, Busy
<1>13. Idle(t, time)
  BY <1>7 DEF Idle
<1>14. Delayed(t)
  <2> SUFFICES ASSUME ~t.must_flush_delayed_queue, NEW e \in Events, Holds(s.delayed_queue, e)
               PROVE  s.cycle[e] >= (s.cycles + 1) + QueueSize - t.current_cycle
    BY <1>6, <1>7 DEF Delayed
  <2>1. s.cycle[e] >= s.cycles + QueueSize - s.current_cycle /\ s.cycle[e] \in Nat
    BY <1>1, <1>2 DEF Delayed
  <2>2. t.current_cycle = s.current_cycle + 1
    <3>1. CASE s.current_cycle + 1 = QueueSize
      <4>1. QueueSize % QueueSize = 0
        BY <1>2
      <4> QED BY <1>7, <3>1, <4>1
    <3>2. CASE s.current_cycle + 1 # QueueSize
      <4>1. s.current_cycle + 1 \in 0..(QueueSize - 1)
        BY <1>2, <3>2
      <4>2. 1 \in Slots /\ s.current_cycle + 1 < QueueSize
        BY <1>2, <4>1
      <4>3. (s.current_cycle + 1) % QueueSize = s.current_cycle + 1
        BY <1>2, <4>2, Circle
      <4> QED BY <1>7, <4>3
    <3> QED BY <3>1, <3>2
  <2> QED BY <1>2, <2>1, <2>2
<1>15. t.period = FirstPeriod
  BY <1>7 DEF P
<1>16. Timed(t, time, d)
  BY <1>1, <1>7, <1>10, <1>11, <1>12, <1>13, <1>14, <1>15 DEF Timed
<1> QED BY <1>7, <1>9, <1>16

(* The end of exec() with an empty buffer: the plan is for the first delayed event. *)
LEMMA EndIdleTimed ==
  ASSUME time \in Nat, FirstPeriod # 0, NEW s, Good(s), NEW d \in [Events -> Nat], Timed(s, time, d),
         s.running, s.event_queue[s.current_cycle] = <<>>, ~(s.nb_enqueued_to_cycle > 0),
         NEW t, t = ExecEnd(s)
  PROVE  /\ Timed(t, time, d) /\ t.stop_time = time /\ t.enqueued = s.enqueued
         /\ \A e \in Events : RunsAt(t, time, e) = RunsAt(s, time, e)
         /\ HeadPlan(t, time)
<1> DEFINE P == FirstPeriod
           u == EndIdle(s)
           f == Head(s.delayed_queue)
           c == s.cycle[f] - s.cycles
           left == IF s.delayed_queue # <<>> THEN c * s.period ELSE -1
<1>1. /\ s.period = P /\ Sorted(s.delayed_queue, s.cycle) /\ Ahead(s) /\ NotLate(s, time, d) /\ Delayed(s)
  BY DEF Timed
<1>2. /\ s.current_cycle \in Slots /\ s.cycles \in Nat /\ s.cycle \in [Events -> Nat]
      /\ s.delayed_queue \in Seq(Events) /\ s.nb_enqueued_to_cycle \in Nat
      /\ P \in Nat /\ P > 0 /\ QueueSize \in Nat /\ QueueSize > 0 /\ Slots = 0..(QueueSize - 1)
  <2>1. s \in States
    BY DEF Good
  <2> QED BY <2>1, Fields, Constants
<1>3. t = Leave(u, left)
  BY DEF ExecEnd
<1>4. /\ Good(u) /\ u.cycles = s.cycles /\ u.stop_time = time /\ SameQueues(u, s)
      /\ u.period = P /\ u.running /\ u.must_flush_delayed_queue
  BY <1>1, EndIdleGood
<1> HIDE DEF u, P
<1>5. ASSUME s.delayed_queue # <<>>
      PROVE  /\ f \in Events /\ f = s.delayed_queue[1] /\ s.enqueued[f] /\ c \in Nat /\ c >= 1
             /\ left = c * P /\ left >= P /\ left \in Nat
             /\ \A e \in Events : s.enqueued[e] => s.cycle[f] <= s.cycle[e]
  <2>1. Placed(s.event_queue, s.delayed_queue, s.enqueued) /\ Distinct(s.delayed_queue)
    BY DEF Good, Queues, Placed
  <2>2. f \in Events /\ Holds(s.delayed_queue, f) /\ f = s.delayed_queue[1]
    BY <1>2, <1>5, <2>1, TailOK
  <2> HIDE DEF f
  <2>3. s.enqueued[f]
    BY <2>1, <2>2 DEF Placed
  <2>4. s.cycle[f] >= s.cycles + 1 /\ s.cycle[f] \in Nat
    BY <1>1, <1>2, <2>2, <2>3, NextCycle
  <2>5. c \in Nat /\ c >= 1
    BY <1>2, <2>4
  <2>6. left = c * P
    BY <1>1, <1>5
  <2> HIDE DEF c, left
  <2>7. 1 * P <= c * P /\ 1 * P = P /\ c * P \in Nat
    BY <1>2, <2>5, Mono
  <2>8. left >= P /\ left \in Nat
    BY <1>2, <2>6, <2>7
  <2>9. ASSUME NEW e \in Events, s.enqueued[e] PROVE s.cycle[f] <= s.cycle[e]
    <3>1. s.nb_enqueued_to_cycle = 0
      BY <1>2
    <3>2. Holds(s.delayed_queue, e)
      BY <2>9, <3>1, EnqueuedHas
    <3> QED BY <1>1, <1>2, <2>2, <3>2, HeadFirst
  <2> QED BY <2>2, <2>3, <2>5, <2>6, <2>8, <2>9
<1>6. left \in Int /\ (s.delayed_queue = <<>> => left = -1)
  BY <1>5
<1> HIDE DEF f, c, left
<1>7. has_events(u) <=> s.delayed_queue # <<>>
  BY <1>4 DEF has_events, SameQueues
<1>8. left > 0 <=> s.delayed_queue # <<>>
  BY <1>2, <1>5, <1>6
<1>9. /\ Good(t) /\ ~t.running /\ (t.is_enqueued <=> left > 0)
      /\ t.is_enqueued => t.next_event_time = time + left
      /\ SameQueues(t, u) /\ SameClock(t, u) /\ t.period = u.period
      /\ t.must_flush_delayed_queue = u.must_flush_delayed_queue
  <2>1. left > 0 => has_events(u)
    BY <1>7, <1>8
  <2>2. left \in Int /\ Good(u) /\ u.running
    BY <1>4, <1>6
  <2> QED BY <1>3, <2>1, <2>2, LeaveGood
<1>10. /\ t.cycles = s.cycles /\ t.stop_time = time /\ t.delayed_queue = s.delayed_queue
       /\ t.nb_enqueued_to_cycle = s.nb_enqueued_to_cycle /\ t.enqueued = s.enqueued /\ t.cycle = s.cycle
       /\ t.period = P /\ t.must_flush_delayed_queue /\ ~(t.nb_enqueued_to_cycle > 0)
  BY <1>4, <1>9 DEF SameQueues, SameClock
<1>11. EdgeTime(t, time) = time /\ EdgeTime(s, time) = time
  BY <1>9, <1>10 DEF EdgeTime
<1>12. ASSUME NEW e \in Events PROVE RunsAt(t, time, e) = RunsAt(s, time, e)
  BY <1>10, <1>11 DEF RunsAt
<1>13. Ahead(t) /\ NotLate(t, time, d) /\ Delayed(t) /\ Busy(t, time)
  BY <1>1, <1>9, <1>10, <1>12 DEF Ahead, NotLate, Delayed, Busy
<1>14. has_events(t) => s.delayed_queue # <<>> /\ t.is_enqueued /\ t.next_event_time = time + left
  BY <1>8, <1>9, <1>10 DEF has_events
<1>15. Waits(t, time)
  <2>1. s.delayed_queue # <<>> => time <= time + left
    BY <1>5
  <2> QED BY <1>14, <2>1 DEF Waits
<1>16. ASSUME s.delayed_queue # <<>> PROVE RunsAt(t, time, f) = time + left
  BY <1>5, <1>10, <1>11, <1>16 DEF RunsAt, c, P
<1>17. Idle(t, time)
  <2>1. t.stop_time < time + FirstPeriod
    BY <1>2, <1>10 DEF P
  <2>2. ASSUME NEW e \in Events, t.enqueued[e] PROVE t.next_event_time <= RunsAt(t, time, e)
    <3>1. has_events(t)
      BY <1>9, <2>2, EnqueuedHas
    <3>2. s.delayed_queue # <<>> /\ t.next_event_time = time + left
      BY <1>14, <3>1
    <3>3. s.enqueued[e] /\ s.cycle[f] <= s.cycle[e] /\ left = c * P /\ c \in Nat
      BY <1>5, <1>10, <2>2, <3>2
    <3>4. s.cycle[e] \in Nat /\ s.cycle[e] - s.cycles \in Int /\ s.cycle[f] \in Nat
      BY <1>2, <1>5, <3>2
    <3>5. c <= s.cycle[e] - s.cycles
      BY <1>2, <3>3, <3>4, SMTT(30) DEF c
    <3>6. c * P <= (s.cycle[e] - s.cycles) * P /\ (s.cycle[e] - s.cycles) * P \in Int
      <4> DEFINE y == s.cycle[e] - s.cycles
      <4>1. y \in Int /\ c \in Int /\ c <= y
        BY <3>3, <3>4, <3>5
      <4> HIDE DEF y
      <4>2. c * P <= y * P
        BY <1>2, <4>1, Mono
      <4>3. y * P \in Int
        BY <1>2, <4>1
      <4> QED BY <4>2, <4>3 DEF y
    <3>7. RunsAt(t, time, e) = time + (s.cycle[e] - s.cycles) * P
      BY <1>10, <1>11 DEF RunsAt, P
    <3> QED BY <1>6, <3>2, <3>3, <3>6, <3>7
  <2> QED BY <1>10, <2>1, <2>2 DEF Idle
<1>18. HeadPlan(t, time)
  <2> SUFFICES ASSUME s.delayed_queue # <<>>
               PROVE  t.next_event_time = RunsAt(t, time, s.delayed_queue[1])
    BY <1>10 DEF HeadPlan
  <2>1. t.next_event_time = time + left
    BY <1>8, <1>9
  <2> QED BY <1>5, <1>16, <2>1
<1>19. t.period = FirstPeriod
  BY <1>10 DEF P
<1>20. Timed(t, time, d)
  BY <1>1, <1>10, <1>13, <1>15, <1>17, <1>19 DEF Timed
<1> QED BY <1>10, <1>12, <1>18, <1>20

-----------------------------------------------------------------------------
(* Exact times, as long as only the domain uses its engine.                 *)

OnTime(s, tm, d) == \A e \in Events : s.enqueued[e] => RunsAt(s, tm, e) = d[e]

Punctual(s, tm, d) == OnTime(s, tm, d) /\ HeadPlan(s, tm)

(* An earlier cycle is at an earlier time.                                  *)
LEMMA RunsOrder ==
  ASSUME time \in Nat, NEW s \in States, NEW x \in Events, NEW y \in Events, s.cycle[x] <= s.cycle[y]
  PROVE  /\ RunsAt(s, time, x) <= RunsAt(s, time, y)
         /\ FirstPeriod # 0 /\ s.cycle[x] < s.cycle[y] => RunsAt(s, time, x) < RunsAt(s, time, y)
<1> DEFINE a == s.cycle[x] - s.cycles
           b == s.cycle[y] - s.cycles
           g == EdgeTime(s, time)
           P == FirstPeriod
<1>1. /\ a \in Int /\ b \in Int /\ g \in Int /\ P \in Nat /\ s.cycle[x] \in Nat /\ s.cycle[y] \in Nat
      /\ s.cycles \in Nat
  BY TimesOK, Constants, Fields
<1>2. a <= b /\ (s.cycle[x] < s.cycle[y] => a + 1 <= b)
  BY <1>1
<1>3. RunsAt(s, time, x) = g + a * P /\ RunsAt(s, time, y) = g + b * P
  BY DEF RunsAt
<1> HIDE DEF a, b, g, P
<1>4. a * P <= b * P /\ a * P \in Int /\ b * P \in Int
  BY <1>1, <1>2, Mono
<1>5. ASSUME a + 1 <= b, P # 0 PROVE a * P < b * P
  <2>1. (a + 1) * P <= b * P
    BY <1>1, <1>5, Mono
  <2>2. (a + 1) * P = a * P + 1 * P /\ 1 * P = P
    BY <1>1, Distr
  <2> QED BY <1>1, <1>4, <1>5, <2>1, <2>2
<1> QED BY <1>1, <1>2, <1>3, <1>4, <1>5 DEF P

(* An idle engine that is planned for its first event, or for a time after the new one. *)
PlannedFor(s, w) == HeadPlan(s, time) \/ (s.is_enqueued /\ w < s.next_event_time)

(* enqueue plans an idle engine for its first event.                        *)
LEMMA EnqueueHead ==
  ASSUME time \in Nat, FirstPeriod # 0, NEW s, Good(s), NEW d \in [Events -> Nat], Timed(s, time, d),
         ~s.running, s.nb_enqueued_to_cycle = 0, NEW e \in Events, ~s.enqueued[e], NEW n \in Nat,
         NEW w \in Int, w = time + n * FirstPeriod, PlannedFor(s, w),
         NEW t \in States, EnqueuedAt(t, s, e, n), OtherTimes(t, s, e), RunsAt(t, time, e) = w
  PROVE  t.next_event_time = RunsAt(t, time, t.delayed_queue[1])
<1> DEFINE q == s.delayed_queue
           x == q[1]
<1>1. s \in States /\ Placed(s.event_queue, q, s.enqueued)
  BY DEF Good, Queues
<1>2. q \in Seq(Events) /\ Len(q) \in Nat /\ s.cycle \in [Events -> Nat] /\ s.next_event_time \in Int
  BY <1>1, Fields
<1>3. SlowPath(t, s, e, n) /\ Recycled(t.cycle, s.cycle, e) /\ t.cycle[e] = n + t.cycles
  BY DEF EnqueuedAt, FastPath
<1>4. Replanned(t, s, w)
  BY <1>3 DEF SlowPath, Timed
<1>5. /\ s.is_enqueued /\ s.next_event_time <= w => t.next_event_time = s.next_event_time
      /\ ~(s.is_enqueued /\ s.next_event_time <= w) => t.next_event_time = w
  BY <1>4 DEF Replanned
<1>6. PICK p \in 1..(Len(q) + 1) : Place(q, s.cycle, t.cycle[e], p) /\ Linking(t.delayed_queue, q, p, e)
  BY <1>3 DEF SlowPath
<1>7. /\ p = 1 => t.delayed_queue[1] = e
      /\ p > 1 => t.delayed_queue[1] = x /\ Len(q) > 0
  <2>1. 1 \in 1..(Len(q) + 1) /\ p \in Int
    BY <1>2
  <2>2. \/ 1 < p /\ 1 \in 1..Len(q) /\ t.delayed_queue[1] = q[1]
        \/ 1 = p /\ t.delayed_queue[1] = e
        \/ 1 > p /\ 1 - 1 \in 1..Len(q) /\ t.delayed_queue[1] = q[1 - 1]
    BY <1>6, <2>1 DEF Linking
  <2> QED BY <1>2, <2>1, <2>2
<1>8. CASE q = <<>>
  <2>1. p = 1
    BY <1>8
  <2>2. ~s.is_enqueued
    <3>1. ~has_events(s)
      BY <1>8 DEF has_events
    <3> QED BY <3>1 DEF Good, Plan
  <2> QED BY <1>5, <1>7, <2>1, <2>2
<1>9. CASE q # <<>>
  <2>1. Len(q) > 0 /\ 1 \in 1..Len(q) /\ x \in Events
    BY <1>2, <1>9, SMTT(30)
  <2>2. Holds(q, x)
    BY <2>1 DEF Holds
  <2>3. s.enqueued[x] /\ x # e
    BY <1>1, <2>1, <2>2 DEF Placed
  <2>4. t.cycle[x] = s.cycle[x] /\ RunsAt(t, time, x) = RunsAt(s, time, x) /\ RunsAt(t, time, x) \in Int
    BY <1>3, <2>1, <2>3, TimesOK DEF Recycled, OtherTimes
  <2>5. s.is_enqueued /\ s.next_event_time <= RunsAt(s, time, x)
    <3>1. has_events(s)
      BY <1>9 DEF has_events
    <3> QED BY <2>1, <2>3, <3>1 DEF Timed, Waits, Idle
  <2>6. t.cycle[x] \in Nat /\ t.cycle[e] \in Nat
    BY <2>1, Fields
  <2>7. p = 1 => RunsAt(t, time, x) >= w
    <3> SUFFICES ASSUME p = 1 PROVE RunsAt(t, time, x) >= w
      OBVIOUS
    <3>1. s.cycle[x] >= t.cycle[e]
      BY <1>2, <1>6, <2>1 DEF Place
    <3>2. t.cycle[e] <= t.cycle[x]
      BY <2>4, <2>6, <3>1
    <3>3. w <= RunsAt(t, time, x)
      BY <2>1, <3>2, RunsOrder
    <3> QED BY <2>4, <3>3
  <2>8. p > 1 => RunsAt(t, time, x) <= w
    <3> SUFFICES ASSUME p > 1 PROVE RunsAt(t, time, x) <= w
      OBVIOUS
    <3>1. 1 \in 1..(p - 1)
      BY <1>2
    <3>2. s.cycle[x] < t.cycle[e]
      BY <1>6, <3>1 DEF Place
    <3>3. t.cycle[x] <= t.cycle[e]
      BY <2>4, <2>6, <3>2
    <3> QED BY <2>1, <3>3, RunsOrder
  <2>9. CASE HeadPlan(s, time)
    <3>1. s.next_event_time = RunsAt(s, time, x)
      BY <1>9, <2>9 DEF HeadPlan
    <3>2. p = 1 \/ p > 1
      BY <1>2
    <3> QED BY <1>2, <1>5, <1>7, <2>4, <2>5, <2>7, <2>8, <3>1, <3>2
  <2>10. CASE s.is_enqueued /\ w < s.next_event_time
    <3>1. t.next_event_time = w
      BY <1>2, <1>5, <2>10
    <3>2. ~(p > 1)
      BY <1>2, <2>4, <2>5, <2>8, <2>10
    <3>3. p = 1
      BY <1>2, <3>2
    <3> QED BY <1>7, <3>1, <3>3
  <2> QED BY <2>9, <2>10 DEF PlannedFor
<1> QED BY <1>8, <1>9

(* An engine that runs, or one that has not started: the events are posted on a clock edge. *)
Local(s) == s.running \/ (s.nb_enqueued_to_cycle = 0 /\ s.stop_time = time)

(* enqueue keeps the exact times.                                           *)
LEMMA EnqueuePunctual ==
  ASSUME time \in Nat, FirstPeriod # 0, NEW s, Good(s), NEW d \in [Events -> Nat], Timed(s, time, d),
         OnTime(s, time, d), Local(s), NEW e \in Events, ~s.enqueued[e], NEW n \in Nat,
         s.running \/ PlannedFor(s, time + n * FirstPeriod), NEW t, t = enqueue(s, e, n),
         NEW d2, OtherDue(d2, d, e), d2[e] = time + n * FirstPeriod
  PROVE  Punctual(t, time, d2)
<1> DEFINE w == time + n * FirstPeriod
<1>1. s \in States
  BY DEF Good
<1>2. t \in States /\ EnqueuedAt(t, s, e, n)
  BY <1>1, EnqueueShape
<1> HIDE DEF enqueue
<1>3. w \in Int
  <2>1. FirstPeriod \in Nat
    BY Constants
  <2> QED BY <2>1
<1>4. /\ OtherTimes(t, s, e) /\ RunsAt(t, time, e) = w
      /\ t.running \/ t.next_event_time = RunsAt(t, time, t.delayed_queue[1])
  <2>1. CASE s.running
    <3>1. OtherTimes(t, s, e) /\ RunsAt(t, time, e) = w
      BY <2>1, EnqueueRunning
    <3>2. t.running
      BY <1>2, <2>1 DEF EnqueuedAt, FastPath, SlowPath, SameRun
    <3> QED BY <3>1, <3>2
  <2>2. CASE ~s.running
    <3>1. s.nb_enqueued_to_cycle = 0 /\ s.stop_time = time /\ Synced(s)
      BY <2>2 DEF Local, Synced
    <3>2. OtherTimes(t, s, e) /\ RunsAt(t, time, e) = EdgeTime(t, time) + n * FirstPeriod
      BY <2>2, <3>1, EnqueueWaiting
    <3>3. sync(s) = s
      BY <1>1, <3>1, SyncedStays
    <3>4. t.stop_time = time /\ ~t.running /\ ~(t.nb_enqueued_to_cycle > 0)
      BY <1>2, <2>2, <3>1, <3>3 DEF EnqueuedAt, SameClock, FastPath, SlowPath
    <3>5. EdgeTime(t, time) = time
      BY <3>4 DEF EdgeTime
    <3>6. RunsAt(t, time, e) = w
      BY <3>2, <3>5
    <3>7. PlannedFor(s, w)
      BY <2>2
    <3> HIDE DEF w
    <3>8. w = time + n * FirstPeriod
      BY DEF w
    <3>9. t.next_event_time = RunsAt(t, time, t.delayed_queue[1])
      BY <1>2, <1>3, <2>2, <3>1, <3>2, <3>6, <3>7, <3>8, EnqueueHead
    <3> QED BY <3>2, <3>6, <3>9
  <2> QED BY <2>1, <2>2
<1>5. OnTime(t, time, d2)
  <2> SUFFICES ASSUME NEW x \in Events, t.enqueued[x] PROVE RunsAt(t, time, x) = d2[x]
    BY DEF OnTime
  <2>1. CASE x = e
    BY <1>4, <2>1
  <2>2. CASE x # e
    <3>1. s.enqueued[x] /\ d2[x] = d[x] /\ RunsAt(t, time, x) = RunsAt(s, time, x)
      BY <1>2, <1>4, <2>2 DEF EnqueuedAt, Flagged, OtherDue, OtherTimes
    <3> QED BY <3>1 DEF OnTime
  <2> QED BY <2>1, <2>2
<1> QED BY <1>4, <1>5 DEF Punctual, HeadPlan

(* An event that is not the first is unlinked: the first one stays.         *)
LEMMA UnlinkHead ==
  ASSUME NEW q \in Seq(Events), NEW r, NEW p \in 1..Len(q), Unlinking(r, q, p), p # 1
  PROVE  r # <<>> => r[1] = q[1]
<1> SUFFICES ASSUME r # <<>> PROVE r[1] = q[1]
  OBVIOUS
<1>1. r \in Seq(Events) /\ p > 1
  BY DEF Unlinking
<1>2. 1 \in 1..Len(r)
  BY <1>1
<1>3. \/ 1 < p /\ 1 \in 1..Len(q) /\ r[1] = q[1]
      \/ 1 >= p /\ 1 + 1 \in 1..Len(q) /\ r[1] = q[1 + 1]
  BY <1>2 DEF Unlinking
<1> QED BY <1>1, <1>3

(* cancel keeps the plan, or the event comes back before it.                *)
LEMMA CancelPlanned ==
  ASSUME time \in Nat, FirstPeriod # 0, NEW s, Good(s), NEW d \in [Events -> Nat], Timed(s, time, d),
         HeadPlan(s, time), ~s.running, s.nb_enqueued_to_cycle = 0, s.stop_time = time,
         NEW e \in Events, s.enqueued[e], NEW n \in Nat, s.cycles + n < s.cycle[e],
         NEW t, t = cancel(s, e), OtherTimes(t, s, e), ~t.running
  PROVE  PlannedFor(t, time + n * FirstPeriod)
<1> DEFINE q == s.delayed_queue
           w == time + n * FirstPeriod
<1>1. s \in States /\ Placed(s.event_queue, q, s.enqueued)
  BY DEF Good, Queues
<1>2. /\ q \in Seq(Events) /\ Distinct(q) /\ s.cycle[e] \in Nat /\ s.cycles \in Nat
      /\ FirstPeriod \in Nat /\ s.next_event_time \in Int
  BY <1>1, Fields, Constants DEF Placed
<1>3. t \in States /\ Cancelled(t, s, e)
  BY CancelShape
<1>4. Holds(q, e) /\ q # <<>>
  <2>1. Holds(q, e)
    BY EnqueuedHas
  <2> QED BY <1>2, <2>1, EmptyList
<1>5. CancelDelayed(t, s, e)
  BY <1>3, <1>4 DEF Cancelled, CancelBuffered
<1>6. t.delayed_queue = RemoveFirst(q, e) /\ t.next_event_time = s.next_event_time
  BY <1>3, <1>5 DEF CancelDelayed, Cancelled
<1>7. PICK p \in 1..Len(q) : Unlinking(RemoveFirst(q, e), q, p) /\ q[p] = e
  BY <1>2, <1>4, RemoveShape
<1>8. s.next_event_time = RunsAt(s, time, q[1]) /\ s.is_enqueued
  <2>1. has_events(s)
    BY <1>4 DEF has_events
  <2> QED BY <1>4, <2>1 DEF HeadPlan, Timed, Waits
<1>9. CASE p # 1
  <2>1. t.delayed_queue # <<>> => t.delayed_queue[1] = q[1]
    BY <1>2, <1>6, <1>7, <1>9, UnlinkHead
  <2>2. q[1] \in Events /\ q[1] # e
    <3>1. 1 \in 1..Len(q)
      BY <1>2, <1>7
    <3>2. q[1] = q[p] => 1 = p
      BY <1>2, <3>1 DEF Distinct
    <3>3. q[1] \in Events
      BY <1>2, <3>1
    <3> QED BY <1>7, <1>9, <3>2, <3>3
  <2>3. RunsAt(t, time, q[1]) = RunsAt(s, time, q[1])
    BY <2>2 DEF OtherTimes
  <2>4. HeadPlan(t, time)
    BY <1>6, <1>8, <2>1, <2>3 DEF HeadPlan
  <2> QED BY <2>4 DEF PlannedFor
<1>10. CASE p = 1
  <2>1. s.next_event_time = RunsAt(s, time, e)
    BY <1>7, <1>8, <1>10
  <2>2. EdgeTime(s, time) = time
    BY DEF EdgeTime
  <2> DEFINE c == s.cycle[e] - s.cycles
  <2>3. c \in Int /\ n + 1 <= c
    BY <1>2
  <2>4. s.next_event_time = time + c * FirstPeriod
    BY <2>1, <2>2 DEF RunsAt
  <2> HIDE DEF c
  <2>5. (n + 1) * FirstPeriod <= c * FirstPeriod /\ c * FirstPeriod \in Int
    BY <1>2, <2>3, Mono
  <2>6. (n + 1) * FirstPeriod = n * FirstPeriod + 1 * FirstPeriod /\ n * FirstPeriod \in Int /\ 1 * FirstPeriod = FirstPeriod
    BY <1>2, Distr
  <2>7. w < t.next_event_time
    BY <1>2, <1>6, <2>4, <2>5, <2>6
  <2> HIDE DEF w
  <2>8. CASE has_events(t)
    <3>1. t.is_enqueued
      BY <1>3, <1>8, <2>8 DEF Cancelled
    <3> QED BY <2>7, <3>1 DEF PlannedFor, w
  <2>9. CASE ~has_events(t)
    <3>1. t.delayed_queue = <<>>
      BY <2>9 DEF has_events
    <3> QED BY <3>1 DEF PlannedFor, HeadPlan
  <2> QED BY <2>8, <2>9
<1> QED BY <1>9, <1>10

(* reenqueue keeps the exact times.                                         *)
LEMMA ReenqueuePunctual ==
  ASSUME time \in Nat, FirstPeriod # 0, NEW s, Good(s), NEW d \in [Events -> Nat], Timed(s, time, d),
         Punctual(s, time, d), Local(s), NEW e \in Events, NEW n \in Nat, NEW t, t = reenqueue(s, e, n),
         NEW d2,
         IF s.enqueued[e] /\ s.cycles + n >= s.cycle[e] THEN d2 = d
         ELSE OtherDue(d2, d, e) /\ d2[e] = time + n * FirstPeriod
  PROVE  Punctual(t, time, d2)
<1> DEFINE u == cancel(s, e)
<1>1. CASE s.enqueued[e] /\ s.cycles + n >= s.cycle[e]
  BY <1>1 DEF reenqueue
<1>2. CASE ~(s.enqueued[e] /\ s.cycles + n >= s.cycle[e])
  <2>0. Synced(s) /\ (s.running \/ s.nb_enqueued_to_cycle = 0) /\ s \in States
    BY DEF Local, Synced, Good
  <2>1. t = enqueue(u, e, n)
    BY <1>2, <2>0, ReenqueueShape
  <2>2. OtherDue(d2, d, e) /\ d2[e] = time + n * FirstPeriod /\ OtherDue(d, d, e)
    BY <1>2 DEF OtherDue
  <2>3. Good(u) /\ ~u.enqueued[e] /\ u.running = s.running /\ SameClock(u, s)
    BY CancelGood
  <2>4. CASE ~s.enqueued[e]
    <3>1. u = s
      BY <2>4 DEF cancel
    <3>2. OnTime(s, time, d) /\ PlannedFor(s, time + n * FirstPeriod)
      BY DEF Punctual, PlannedFor
    <3> QED BY <2>1, <2>2, <2>4, <3>1, <3>2, EnqueuePunctual
  <2>5. CASE s.enqueued[e]
    <3> HIDE DEF u
    <3>1. /\ Timed(u, time, d) /\ OtherTimes(u, s, e)
          /\ s.nb_enqueued_to_cycle = 0 => u.nb_enqueued_to_cycle = 0
      BY <2>0, <2>2, <2>5, CancelTimed DEF u
    <3>2. Flagged(u.enqueued, s.enqueued, e, FALSE)
      BY <2>5, CancelShape DEF Cancelled, u
    <3>3. OnTime(u, time, d)
      <4> SUFFICES ASSUME NEW x \in Events, u.enqueued[x] PROVE RunsAt(u, time, x) = d[x]
        BY DEF OnTime
      <4>1. x # e
        BY <2>3
      <4>2. s.enqueued[x] /\ RunsAt(u, time, x) = RunsAt(s, time, x)
        BY <3>1, <3>2, <4>1 DEF Flagged, OtherTimes
      <4> QED BY <4>2 DEF Punctual, OnTime
    <3>4. Local(u)
      BY <2>3, <3>1 DEF Local, SameClock
    <3>5. u.running \/ PlannedFor(u, time + n * FirstPeriod)
      <4> SUFFICES ASSUME ~u.running PROVE PlannedFor(u, time + n * FirstPeriod)
        OBVIOUS
      <4>1. ~s.running /\ s.nb_enqueued_to_cycle = 0 /\ s.stop_time = time /\ HeadPlan(s, time)
        BY <2>3 DEF Local, Punctual
      <4>2. s.cycles + n < s.cycle[e]
        <5>1. s.cycles \in Nat /\ s.cycle[e] \in Nat
          BY <2>0, Fields
        <5> QED BY <1>2, <2>5, <5>1
      <4> QED BY <2>5, <3>1, <4>1, <4>2, CancelPlanned DEF u
    <3> QED BY <2>1, <2>2, <2>3, <3>1, <3>3, <3>4, <3>5, EnqueuePunctual
  <2> QED BY <2>4, <2>5
<1> QED BY <1>1, <1>2

-----------------------------------------------------------------------------
(* The invariant of a clock of constant frequency, while its cycles are counted once. *)

OnceInv ==
  /\ Inv /\ Timed(eng, time, due)
  /\ time = 0 => eng.stop_time = 0
  /\ local => Punctual(eng, time, due)

(* An engine that starts has it.                                            *)
LEMMA InitOnce == FirstPeriod # 0 /\ Init => OnceInv
<1> SUFFICES ASSUME FirstPeriod # 0, Init PROVE OnceInv
  OBVIOUS
<1>1. Inv
  BY InitInv
<1>2. /\ time = 0 /\ eng.delayed_queue = <<>> /\ eng.period = FirstPeriod /\ eng.cycles = 0
      /\ eng.nb_enqueued_to_cycle = 0 /\ eng.stop_time = 0 /\ eng.must_flush_delayed_queue
      /\ eng.is_enqueued = FALSE /\ eng.running = FALSE /\ eng.enqueued = [e \in Events |-> FALSE]
  BY DEF Init
<1>3. \A e \in Events : ~eng.enqueued[e]
  BY <1>2
<1>4. Sorted(eng.delayed_queue, eng.cycle) /\ ~has_events(eng)
  BY <1>2 DEF Sorted, has_events
<1>5. FirstPeriod \in Nat /\ 0 < 0 + FirstPeriod
  BY Constants
<1>6. Idle(eng, time)
  BY <1>2, <1>3, <1>5 DEF Idle
<1>7. Busy(eng, time)
  BY <1>2 DEF Busy
<1>8. Timed(eng, time, due)
  BY <1>2, <1>3, <1>4, <1>6, <1>7 DEF Timed, Ahead, NotLate, Waits, Delayed
<1>9. Punctual(eng, time, due)
  BY <1>2, <1>3 DEF Punctual, OnTime, HeadPlan
<1> QED BY <1>1, <1>2, <1>8, <1>9 DEF OnceInv

(* A state of the engine in which a function is called.                     *)
Base(s) ==
  /\ Good(s) /\ Timed(s, time, due) /\ s.running = eng.running
  /\ s.nb_enqueued_to_cycle = eng.nb_enqueued_to_cycle /\ s.enqueued = eng.enqueued
  /\ s.delayed_queue = eng.delayed_queue
  /\ time = 0 => s.stop_time = 0
  /\ local /\ (eng.running \/ Starting) => Punctual(s, time, due) /\ Local(s)

(* The engine as it is, and once it is synchronised.                        *)
LEMMA BaseStates ==
  ASSUME OnceInv, FirstPeriod # 0
  PROVE  Base(eng) /\ Base(sync(eng)) /\ Synced(sync(eng))
<1>1. /\ time \in Nat /\ Good(eng) /\ Timed(eng, time, due) /\ due \in [Events -> Nat]
      /\ (time = 0 => eng.stop_time = 0) /\ (local => Punctual(eng, time, due)) /\ eng \in States
  BY ClockEngineAssumption DEF OnceInv, Inv, Good
<1>2. eng.running \/ Starting => Local(eng) /\ Synced(eng)
  <2>1. Starting => eng.nb_enqueued_to_cycle = 0 /\ eng.stop_time = time /\ eng.stop_time >= time
    BY <1>1 DEF Starting
  <2> QED BY <2>1 DEF Local, Synced
<1>3. Base(eng)
  BY <1>1, <1>2 DEF Base
<1> DEFINE s == sync(eng)
<1>4. Timed(s, time, due) /\ Synced(s)
  BY <1>1, SyncTimed
<1>5. Good(s)
  BY <1>1, SyncGood
<1>6. Synced(eng) => s = eng
  BY <1>1, SyncedStays
<1>7. time = 0 => Synced(eng)
  BY <1>1 DEF Synced
<1>8. SameQueues(s, eng) /\ SameRun(s, eng)
  BY <1>1, SyncOK
<1> HIDE DEF s
<1>9. /\ s.running = eng.running /\ s.nb_enqueued_to_cycle = eng.nb_enqueued_to_cycle
      /\ s.enqueued = eng.enqueued /\ s.delayed_queue = eng.delayed_queue
  BY <1>8 DEF SameQueues, SameRun
<1>10. time = 0 => s.stop_time = 0
  BY <1>1, <1>6, <1>7
<1>11. local /\ (eng.running \/ Starting) => Punctual(s, time, due) /\ Local(s)
  BY <1>1, <1>2, <1>6
<1>12. Base(s)
  BY <1>4, <1>5, <1>9, <1>10, <1>11 DEF Base
<1> QED BY <1>3, <1>4, <1>12 DEF s

(* enqueue does not move the stop time at the start.                        *)
LEMMA EnqueueStop ==
  ASSUME time = 0, NEW s \in States, s.stop_time = 0, NEW e \in Events, NEW n \in Nat
  PROVE  enqueue(s, e, n).stop_time = 0
<1>1. time \in Nat /\ Synced(s)
  BY DEF Synced
<1>2. sync(s) = s
  BY <1>1, SyncedStays
<1>3. EnqueuedAt(enqueue(s, e, n), s, e, n)
  BY <1>1, EnqueueShape
<1> QED BY <1>2, <1>3 DEF EnqueuedAt, SameClock

(* The due time of an event that is posted.                                 *)
LEMMA PostedDue ==
  ASSUME OnceInv, NEW e \in Events, NEW n \in Nat, Posted(e, n)
  PROVE  OtherDue(due', due, e) /\ due'[e] = time + n * FirstPeriod
<1>1. due' \in [Events -> Nat]
  BY PostedInv DEF OnceInv
<1>2. eng.period = FirstPeriod /\ due \in [Events -> Nat]
  BY DEF OnceInv, Timed, Inv
<1> QED BY <1>1, <1>2 DEF Posted, OtherDue

(* A call of enqueue.                                                       *)
LEMMA EnqueueCall ==
  ASSUME OnceInv, FirstPeriod # 0, Inv', NEW s, Base(s), NEW e \in Events, NEW n \in Nat,
         eng.running \/ Starting \/ n > 0, ~eng.enqueued[e],
         Called(enqueue(s, e, n), eng.running \/ Starting), Posted(e, n)
  PROVE  OnceInv'
<1> DEFINE t == enqueue(s, e, n)
<1>1. time \in Nat /\ due \in [Events -> Nat]
  BY ClockEngineAssumption DEF OnceInv, Inv
<1>2. /\ Good(s) /\ Timed(s, time, due) /\ ~s.enqueued[e] /\ s \in States
      /\ s.running \/ s.nb_enqueued_to_cycle = 0 \/ n > 0
  BY DEF Base, Starting, Good
<1>3. OtherDue(due', due, e) /\ due'[e] = time + n * FirstPeriod
  BY PostedDue
<1>4. eng' = t /\ time' = time /\ local' = (local /\ (eng.running \/ Starting))
  BY DEF Called
<1>5. Timed(t, time, due')
  BY <1>1, <1>2, <1>3, EnqueueTimed
<1>6. time = 0 => t.stop_time = 0
  BY <1>2, EnqueueStop DEF Base
<1>7. local' => Punctual(t, time, due')
  <2> SUFFICES ASSUME local' PROVE Punctual(t, time, due')
    OBVIOUS
  <2>1. Punctual(s, time, due) /\ Local(s)
    BY <1>4 DEF Base
  <2>2. OnTime(s, time, due) /\ PlannedFor(s, time + n * FirstPeriod)
    BY <2>1 DEF Punctual, PlannedFor
  <2> QED BY <1>1, <1>2, <1>3, <2>1, <2>2, EnqueuePunctual
<1> HIDE DEF t
<1> QED BY <1>4, <1>5, <1>6, <1>7 DEF OnceInv

(* A call of reenqueue.                                                     *)
LEMMA ReenqueueCall ==
  ASSUME OnceInv, FirstPeriod # 0, Inv', NEW s, Base(s), Synced(s), NEW e \in Events, NEW n \in Nat,
         eng.running \/ Starting \/ n > 0, ReenqueueFrom(s, e, n), counted' # "twice"
  PROVE  OnceInv'
<1> DEFINE t == reenqueue(s, e, n)
           u == cancel(s, e)
           kept == s.enqueued[e] /\ s.cycles + n >= s.cycle[e]
<1>1. time \in Nat /\ due \in [Events -> Nat]
  BY ClockEngineAssumption DEF OnceInv, Inv
<1>2. /\ Good(s) /\ Timed(s, time, due) /\ s \in States
      /\ s.running \/ s.nb_enqueued_to_cycle = 0 \/ n > 0
  BY DEF Base, Starting, Good
<1>3. /\ Called(t, eng.running \/ Starting) /\ IF kept THEN UNCHANGED due ELSE Posted(e, n)
      /\ kept \/ ~EmptiesBuffer(e)
  BY DEF ReenqueueFrom, Recount
<1>4. IF kept THEN due' = due ELSE OtherDue(due', due, e) /\ due'[e] = time + n * FirstPeriod
  BY <1>3, PostedDue
<1>5. eng' = t /\ time' = time /\ local' = (local /\ (eng.running \/ Starting))
  BY <1>3 DEF Called
<1>6. kept \/ s.running \/ s.nb_enqueued_to_cycle = 0 \/ u.nb_enqueued_to_cycle # 0
  <2> SUFFICES ASSUME ~kept, ~s.running, s.nb_enqueued_to_cycle # 0 PROVE u.nb_enqueued_to_cycle # 0
    OBVIOUS
  <2>1. CASE ~s.enqueued[e]
    <3>1. u = s
      BY <2>1 DEF cancel
    <3> QED BY <3>1
  <2>2. CASE s.enqueued[e]
    <3>1. Cancelled(u, s, e)
      BY <1>2, <2>2, CancelShape
    <3>2. s.nb_enqueued_to_cycle \in Nat
      BY <1>2, Fields
    <3>3. Contains(s.delayed_queue, e) <=> Holds(s.delayed_queue, e)
      BY DEF Contains, Holds
    <3>4. s.nb_enqueued_to_cycle # 1 \/ Holds(s.delayed_queue, e)
      <4>1. ~EmptiesBuffer(e)
        BY <1>3
      <4> QED BY <2>2, <3>3, <4>1 DEF EmptiesBuffer, Base
    <3> HIDE DEF u
    <3> QED BY <3>1, <3>2, <3>4 DEF Cancelled, CancelDelayed, CancelBuffered
  <2> QED BY <2>1, <2>2
<1>7. Timed(t, time, due')
  <2>1. CASE kept
    <3>1. t = s
      BY <2>1 DEF reenqueue
    <3> QED BY <1>2, <1>4, <2>1, <3>1
  <2>2. CASE ~kept
    BY <1>1, <1>2, <1>4, <1>6, <2>2, ReenqueueTimed
  <2> QED BY <2>1, <2>2
<1>8. time = 0 => t.stop_time = 0
  <2> SUFFICES ASSUME time = 0 PROVE t.stop_time = 0
    OBVIOUS
  <2>1. s.stop_time = 0
    BY DEF Base
  <2>2. CASE kept
    <3>1. t = s
      BY <2>2 DEF reenqueue
    <3> QED BY <2>1, <3>1
  <2>3. CASE ~kept
    <3>1. t = enqueue(u, e, n)
      BY <1>1, <1>2, <1>6, <2>3, ReenqueueShape
    <3>2. u \in States /\ SameClock(u, s)
      BY <1>1, <1>2, <1>6, <2>3, CancelEdge
    <3>3. u.stop_time = 0
      BY <2>1, <3>2 DEF SameClock
    <3> HIDE DEF u
    <3> QED BY <3>1, <3>2, <3>3, EnqueueStop
  <2> QED BY <2>2, <2>3
<1>9. local' => Punctual(t, time, due')
  <2> SUFFICES ASSUME local' PROVE Punctual(t, time, due')
    OBVIOUS
  <2>1. Punctual(s, time, due) /\ Local(s)
    BY <1>5 DEF Base
  <2> QED BY <1>1, <1>2, <1>4, <2>1, ReenqueuePunctual
<1> HIDE DEF t
<1> QED BY <1>5, <1>7, <1>8, <1>9 DEF OnceInv

(* An engine without events is as it should be.                             *)
LEMMA EmptyTimed ==
  ASSUME NEW s, Good(s), ~has_events(s), s.period = FirstPeriod, NEW tm, s.stop_time < tm + FirstPeriod, NEW d
  PROVE  Timed(s, tm, d)
<1>1. /\ s \in States /\ s.delayed_queue = <<>> /\ ~(s.nb_enqueued_to_cycle > 0)
      /\ \A e \in Events : ~s.enqueued[e]
  BY EnqueuedHas DEF Good, has_events
<1>2. \A e \in Events : ~Holds(s.delayed_queue, e)
  BY <1>1, Fields, EmptyList
<1>3. Sorted(s.delayed_queue, s.cycle)
  BY <1>1 DEF Sorted
<1> QED BY <1>1, <1>2, <1>3 DEF Timed, Ahead, NotLate, Waits, Busy, Idle, Delayed

(* A call of cancel that leaves the buffer in use, or nothing.              *)
LEMMA CancelOnce ==
  ASSUME OnceInv, Inv', NEW e \in Events, Cancel(e), counted = "once", counted' = "once",
         eng.stop_time < time + FirstPeriod
  PROVE  OnceInv'
<1> DEFINE t == cancel(eng, e)
<1>1. /\ time \in Nat /\ Good(eng) /\ Timed(eng, time, due) /\ due \in [Events -> Nat]
      /\ (time = 0 => eng.stop_time = 0) /\ (local => Punctual(eng, time, due)) /\ eng \in States
  BY ClockEngineAssumption DEF OnceInv, Inv, Good
<1>2. /\ eng.enqueued[e] /\ eng' = t /\ time' = time /\ local' = (local /\ eng.running)
      /\ due' = [due EXCEPT ![e] = 0] /\ (~has_events(t) \/ ~EmptiesBuffer(e))
  BY DEF Cancel, Called
<1>3. OtherDue(due', due, e)
  BY <1>1, <1>2 DEF OtherDue
<1>4. t \in States /\ Cancelled(t, eng, e) /\ Good(t)
  BY <1>1, <1>2, CancelShape, CancelGood
<1> HIDE DEF t
<1>5. /\ t.period = FirstPeriod /\ t.stop_time = eng.stop_time /\ t.running = eng.running
      /\ Flagged(t.enqueued, eng.enqueued, e, FALSE)
  BY <1>1, <1>4 DEF Cancelled, SameClock, SameRun, Timed
<1>6. /\ Timed(t, time, due')
      /\ eng.running => OtherTimes(t, eng, e)
  <2>1. CASE eng.running \/ eng.nb_enqueued_to_cycle = 0 \/ t.nb_enqueued_to_cycle # 0
    BY <1>1, <1>2, <1>3, <2>1, CancelTimed DEF t
  <2>2. CASE ~(eng.running \/ eng.nb_enqueued_to_cycle = 0 \/ t.nb_enqueued_to_cycle # 0)
    <3>1. eng.nb_enqueued_to_cycle \in Nat /\ (CancelDelayed(t, eng, e) \/ CancelBuffered(t, eng, e))
      BY <1>1, <1>4, Fields DEF Cancelled
    <3>2. CancelBuffered(t, eng, e) /\ eng.nb_enqueued_to_cycle = 1
      BY <2>2, <3>1 DEF CancelDelayed, CancelBuffered
    <3>3. Contains(eng.delayed_queue, e) <=> Holds(eng.delayed_queue, e)
      BY DEF Contains, Holds
    <3>4. EmptiesBuffer(e)
      BY <1>2, <2>2, <3>2, <3>3 DEF EmptiesBuffer, CancelBuffered
    <3>5. Timed(t, time, due')
      BY <1>2, <1>4, <1>5, <3>4, EmptyTimed
    <3> QED BY <2>2, <3>5
  <2> QED BY <2>1, <2>2
<1>7. ASSUME local' PROVE Punctual(t, time, due')
  <2>1. Punctual(eng, time, due) /\ eng.running /\ OtherTimes(t, eng, e)
    BY <1>1, <1>2, <1>6, <1>7
  <2>2. ASSUME NEW x \in Events, t.enqueued[x] PROVE RunsAt(t, time, x) = due'[x]
    <3>1. x # e
      BY <1>5, <2>2 DEF Flagged
    <3>2. eng.enqueued[x] /\ RunsAt(t, time, x) = RunsAt(eng, time, x) /\ due'[x] = due[x]
      BY <1>3, <1>5, <2>1, <2>2, <3>1 DEF Flagged, OtherTimes, OtherDue
    <3> QED BY <2>1, <3>2 DEF Punctual, OnTime
  <2> QED BY <1>5, <2>1, <2>2 DEF Punctual, OnTime, HeadPlan
<1> QED BY <1>1, <1>2, <1>5, <1>6, <1>7 DEF OnceInv

(* The use of a clock of constant frequency is one of the uses of the engine. *)
LEMMA SharedIsNext == [SharedNext]_vars => [Next]_vars
BY DEF SharedNext, Next

(* Every step keeps the invariant.                                          *)
LEMMA NextOnce ==
  ASSUME FirstPeriod # 0, OnceInv, [SharedNext]_vars, counted = "once", counted' = "once",
         eng.stop_time < time + FirstPeriod
  PROVE  OnceInv'
<1>1. /\ time \in Nat /\ Good(eng) /\ Timed(eng, time, due) /\ due \in [Events -> Nat]
      /\ (time = 0 => eng.stop_time = 0) /\ (local => Punctual(eng, time, due)) /\ eng \in States
  BY ClockEngineAssumption DEF OnceInv, Inv, Good
<1>2. Inv'
  BY SharedIsNext, NextInv DEF OnceInv
<1>3. CASE UNCHANGED vars
  BY <1>1, <1>2, <1>3 DEF vars, history, OnceInv
<1>4. CASE StartExec
  <2>1. /\ eng.is_enqueued /\ eng.next_event_time <= time /\ time' = eng.next_event_time
        /\ Started(eng', eng) /\ UNCHANGED <<due, local>>
    BY <1>4 DEF StartExec, history, Started
  <2>2. /\ Timed(eng', time, due) /\ time' = time /\ eng'.running
        /\ OnTheEdge(eng) => \A e \in Events : eng.enqueued[e] => RunsAt(eng', time, e) = RunsAt(eng, time, e)
    BY <1>1, <2>1, StartTimed
  <2>3. eng'.enqueued = eng.enqueued /\ eng'.stop_time = eng.stop_time
    BY <1>1, <2>1, StartedShape
  <2>4. ASSUME local PROVE Punctual(eng', time, due)
    <3>1. OnTheEdge(eng)
      <4>1. CASE eng.nb_enqueued_to_cycle > 0
        BY <4>1 DEF OnTheEdge
      <4>2. CASE ~(eng.nb_enqueued_to_cycle > 0)
        <5>1. eng.nb_enqueued_to_cycle = 0 /\ ~eng.running /\ eng.delayed_queue # <<>>
          <6>1. eng.nb_enqueued_to_cycle \in Nat /\ has_events(eng) /\ ~eng.running
            BY <1>1, <2>1, Fields DEF Good, Plan
          <6> QED BY <4>2, <6>1 DEF has_events
        <5>2. eng.next_event_time = RunsAt(eng, time, eng.delayed_queue[1])
          BY <1>1, <2>4, <5>1 DEF Punctual, HeadPlan
        <5>3. Head(eng.delayed_queue) = eng.delayed_queue[1]
          BY <5>1
        <5> QED BY <5>2, <5>3 DEF OnTheEdge
      <4> QED BY <4>1, <4>2
    <3>2. OnTime(eng', time, due)
      BY <1>1, <2>2, <2>3, <2>4, <3>1 DEF Punctual, OnTime
    <3>3. HeadPlan(eng', time)
      BY <2>2 DEF HeadPlan
    <3> QED BY <3>2, <3>3 DEF Punctual
  <2> QED BY <1>1, <1>2, <2>1, <2>2, <2>3, <2>4 DEF OnceInv
<1>5. CASE RunEvent
  <2> DEFINE e == Head(eng.event_queue[eng.current_cycle])
  <2>1. /\ eng.running /\ eng.event_queue[eng.current_cycle] # <<>>
        /\ eng' = [eng EXCEPT !.event_queue[eng.current_cycle] = Tail(@), !.enqueued[e] = FALSE,
                              !.nb_enqueued_to_cycle = @ - 1]
        /\ due' = [due EXCEPT ![e] = 0] /\ UNCHANGED <<time, local>>
    BY <1>5 DEF RunEvent, CurrentSlot
  <2>2. Popped(eng', eng, e) /\ e \in Events
    BY <1>1, <2>1, RunGood
  <2> HIDE DEF e
  <2>3. OtherDue(due', due, e)
    BY <1>1, <2>1 DEF OtherDue
  <2>4. Timed(eng', time, due') /\ OtherTimes(eng', eng, e)
    BY <1>1, <2>1, <2>2, <2>3, RunTimed
  <2>5. eng'.running /\ eng'.stop_time = eng.stop_time /\ Flagged(eng'.enqueued, eng.enqueued, e, FALSE)
    BY <2>1, <2>2 DEF Popped, SameRun, SameClock
  <2>6. ASSUME local PROVE Punctual(eng', time, due')
    <3>1. ASSUME NEW x \in Events, eng'.enqueued[x] PROVE RunsAt(eng', time, x) = due'[x]
      <4>1. x # e
        BY <2>5, <3>1 DEF Flagged
      <4>2. eng.enqueued[x] /\ RunsAt(eng', time, x) = RunsAt(eng, time, x) /\ due'[x] = due[x]
        BY <2>3, <2>4, <2>5, <3>1, <4>1 DEF Flagged, OtherTimes, OtherDue
      <4> QED BY <1>1, <2>6, <4>2 DEF Punctual, OnTime
    <3> QED BY <2>5, <3>1 DEF Punctual, OnTime, HeadPlan
  <2> QED BY <1>1, <1>2, <2>1, <2>4, <2>5, <2>6 DEF OnceInv
<1>6. CASE MethodReturns
  BY <1>1, <1>2, <1>6 DEF MethodReturns, history, OnceInv
<1>7. CASE FinishExec
  <2>1. /\ eng.running /\ eng.event_queue[eng.current_cycle] = <<>> /\ eng' = ExecEnd(eng)
        /\ UNCHANGED <<time, due, local>>
    BY <1>7 DEF FinishExec, CurrentSlot, history
  <2>2. /\ Timed(eng', time, due) /\ (time = 0 => eng'.stop_time = 0) /\ eng'.enqueued = eng.enqueued
        /\ (\A x \in Events : RunsAt(eng', time, x) = RunsAt(eng, time, x)) /\ HeadPlan(eng', time)
    <3>1. CASE eng.nb_enqueued_to_cycle > 0
      <4>1. /\ Timed(eng', time, due) /\ eng'.stop_time = eng.stop_time /\ eng'.enqueued = eng.enqueued
            /\ \A x \in Events : RunsAt(eng', time, x) = RunsAt(eng, time, x)
            /\ eng'.nb_enqueued_to_cycle > 0
        BY <1>1, <2>1, <3>1, EndCycleTimed
      <4>2. HeadPlan(eng', time)
        BY <4>1 DEF HeadPlan
      <4> QED BY <1>1, <4>1, <4>2
    <3>2. CASE ~(eng.nb_enqueued_to_cycle > 0)
      <4>1. /\ Timed(eng', time, due) /\ eng'.stop_time = time /\ eng'.enqueued = eng.enqueued
            /\ \A x \in Events : RunsAt(eng', time, x) = RunsAt(eng, time, x)
            /\ HeadPlan(eng', time)
        BY <1>1, <2>1, <3>2, EndIdleTimed
      <4> QED BY <4>1
    <3> QED BY <3>1, <3>2
  <2>3. local => Punctual(eng', time, due)
    BY <1>1, <2>2 DEF Punctual, OnTime
  <2> QED BY <1>2, <2>1, <2>2, <2>3 DEF OnceInv
<1>8. CASE TimePasses
  <2>1. /\ ~eng.running /\ time' \in (time + 1)..MaxTime /\ (eng.is_enqueued => time' <= eng.next_event_time)
        /\ UNCHANGED <<eng, due, local>>
    BY <1>8 DEF TimePasses, history
  <2>2. time' \in Nat /\ time' > time /\ time' # 0
    BY <1>1, <2>1, ClockEngineAssumption
  <2>3. Timed(eng, time', due) /\ \A x \in Events : RunsAt(eng, time', x) = RunsAt(eng, time, x)
    BY <1>1, <2>1, <2>2, PassTimed
  <2>4. local => Punctual(eng, time', due)
    <3>1. eng.delayed_queue # <<>> => eng.delayed_queue[1] \in Events
      <4>1. eng.delayed_queue \in Seq(Events)
        BY <1>1, Fields
      <4> QED BY <4>1
    <3> QED BY <1>1, <2>3, <3>1 DEF Punctual, OnTime, HeadPlan
  <2> QED BY <1>2, <2>1, <2>2, <2>3, <2>4 DEF OnceInv
<1>9. ASSUME NEW e \in Events, NEW n \in 0..MaxDelay, eng.running \/ Starting \/ n > 0,
             Enqueue(e, n) \/ EnqueueExt(e, n) \/ ReenqueueExt(e, n) \/ (eng.running /\ Reenqueue(e, n))
      PROVE  OnceInv'
  <2>0. Base(eng) /\ Base(sync(eng)) /\ Synced(sync(eng)) /\ n \in Nat /\ (eng.running => Synced(eng))
    BY BaseStates DEF Synced
  <2>1. CASE Enqueue(e, n)
    <3>1. ~eng.enqueued[e] /\ Called(enqueue(eng, e, n), eng.running \/ Starting) /\ Posted(e, n)
      BY <2>1 DEF Enqueue
    <3> QED BY <1>2, <1>9, <2>0, <3>1, EnqueueCall
  <2>2. CASE EnqueueExt(e, n)
    <3>1. ~eng.enqueued[e] /\ Called(enqueue(sync(eng), e, n), eng.running \/ Starting) /\ Posted(e, n)
      BY <2>2 DEF EnqueueExt
    <3> QED BY <1>2, <1>9, <2>0, <3>1, EnqueueCall
  <2>3. CASE ReenqueueExt(e, n)
    <3>1. ReenqueueFrom(sync(eng), e, n)
      BY <2>3 DEF ReenqueueExt
    <3> QED BY <1>2, <1>9, <2>0, <2>3, <3>1, ReenqueueCall
  <2>4. CASE eng.running /\ Reenqueue(e, n)
    <3>1. ReenqueueFrom(eng, e, n)
      BY <2>4 DEF Reenqueue
    <3> QED BY <1>2, <1>9, <2>0, <2>4, <3>1, ReenqueueCall
  <2> QED BY <1>9, <2>1, <2>2, <2>3, <2>4
<1>10. ASSUME NEW e \in Events, Cancel(e) PROVE OnceInv'
  BY <1>2, <1>10, CancelOnce
<1> QED BY <1>3, <1>4, <1>5, <1>6, <1>7, <1>8, <1>9, <1>10 DEF SharedNext, ExecNext

-----------------------------------------------------------------------------
(* The clock, whatever the count: the engine never stopped later than the next edge, *)
(* and is not planned in the past.                                          *)
Clocked(s, tm) ==
  /\ s.period = FirstPeriod /\ s.stop_time < tm + FirstPeriod
  /\ s.is_enqueued => tm <= s.next_event_time
  /\ tm = 0 => s.stop_time = 0

(* update stops at the next edge.                                           *)
LEMMA SyncClocked ==
  ASSUME time \in Nat, FirstPeriod # 0, NEW s \in States, Clocked(s, time)
  PROVE  Clocked(sync(s), time)
<1> DEFINE t == sync(s)
           P == FirstPeriod
<1>1. /\ s.period = P /\ s.stop_time \in Nat /\ s.cycles \in Nat /\ s.nb_enqueued_to_cycle \in Nat
      /\ P \in Nat /\ P # 0
  BY Fields, Constants DEF Clocked
<1>2. CASE Synced(s)
  BY <1>2, SyncedStays
<1>3. CASE ~Synced(s)
  <2>1. /\ ~s.running /\ s.nb_enqueued_to_cycle = 0 /\ s.stop_time < time /\ time - s.stop_time \in Nat
        /\ time - s.stop_time > 0 /\ ~(s.period = 0 \/ time - s.stop_time <= 0)
    BY <1>1, <1>3 DEF Synced
  <2> DEFINE n == Edges(s)
             diff == time - s.stop_time
  <2>2. t = update(s)
    BY <2>1 DEF sync
  <2>3. SamePlan(t, s) /\ t.period = P
    BY <1>1, SyncOK
  <2>4. t.stop_time = s.stop_time + n * P
    BY <1>1, <2>1, <2>2, UpdateClock
  <2>5. n = (diff + P - 1) \div P /\ diff \in Nat /\ diff > 0
    BY <1>1, <2>1 DEF Edges
  <2>6. diff = time - s.stop_time
    OBVIOUS
  <2> HIDE DEF t, n, P, diff
  <2>7. n * P \in Nat /\ n * P < diff + P
    BY <1>1, <2>5, EdgesOK
  <2>8. t.stop_time < time + P /\ time # 0
    BY <1>1, <2>1, <2>4, <2>6, <2>7
  <2> QED BY <2>3, <2>8 DEF Clocked, SamePlan, t, P
<1> QED BY <1>2, <1>3

(* enqueue plans the engine for a later time.                               *)
LEMMA EnqueueClocked ==
  ASSUME time \in Nat, FirstPeriod # 0, NEW s, Good(s), Clocked(s, time), NEW e \in Events, NEW n \in Nat,
         NEW t, t = enqueue(s, e, n)
  PROVE  Clocked(t, time)
<1> DEFINE u == sync(s)
           w == time + n * FirstPeriod
<1>1. s \in States
  BY DEF Good
<1>2. t \in States /\ EnqueuedAt(t, s, e, n)
  BY <1>1, EnqueueShape
<1>3. Clocked(u, time)
  BY <1>1, SyncClocked
<1> HIDE DEF enqueue
<1>4. /\ t.stop_time = u.stop_time /\ t.period = s.period
      /\ FastPath(t, s, e, n) \/ SlowPath(t, s, e, n)
  BY <1>2 DEF EnqueuedAt, SameClock
<1>5. w \in Nat /\ w >= time /\ s.period = FirstPeriod
  <2>1. FirstPeriod \in Nat
    BY Constants
  <2>2. n * FirstPeriod \in Nat
    BY <2>1
  <2> QED BY <2>2 DEF Clocked
<1>6. w = time + n * FirstPeriod
  OBVIOUS
<1> HIDE DEF u, w
<1>7. t.is_enqueued => time <= t.next_event_time
  <2>1. CASE SamePlan(t, s)
    BY <2>1 DEF SamePlan, Clocked
  <2>2. CASE ~SamePlan(t, s)
    <3>1. ~s.running /\ Replanned(t, s, w)
      BY <1>4, <1>5, <1>6, <2>2 DEF FastPath, SlowPath
    <3> QED BY <1>5, <3>1 DEF Replanned, Clocked
  <2> QED BY <2>1, <2>2
<1> QED BY <1>3, <1>4, <1>5, <1>7 DEF Clocked

(* cancel at most takes the engine out.                                     *)
LEMMA CancelClocked ==
  ASSUME NEW s, Good(s), Clocked(s, time), NEW e \in Events, NEW t, t = cancel(s, e)
  PROVE  Clocked(t, time)
<1>1. CASE s.enqueued[e]
  <2>1. Cancelled(t, s, e)
    BY <1>1, CancelShape
  <2> QED BY <2>1 DEF Cancelled, SameClock, Clocked
<1>2. CASE ~s.enqueued[e]
  <2>1. t = s
    BY <1>2 DEF cancel
  <2> QED BY <2>1
<1> QED BY <1>1, <1>2

(* reenqueue is both.                                                       *)
LEMMA ReenqueueClocked ==
  ASSUME time \in Nat, FirstPeriod # 0, NEW s, Good(s), Clocked(s, time), NEW e \in Events, NEW n \in Nat,
         NEW t, t = reenqueue(s, e, n)
  PROVE  Clocked(t, time)
<1> DEFINE u == cancel(s, e)
           v == enqueue(u, e, n)
<1>1. CASE s.enqueued[e] /\ s.cycles + n >= s.cycle[e]
  BY <1>1 DEF reenqueue
<1>2. CASE ~(s.enqueued[e] /\ s.cycles + n >= s.cycle[e])
  <2>1. t = [v EXCEPT !.cycle[e] = s.cycles + n]
    BY <1>2 DEF reenqueue
  <2>2. Good(u) /\ Clocked(u, time)
    BY CancelGood, CancelClocked
  <2> HIDE DEF u
  <2>3. u \in States
    BY <2>2 DEF Good
  <2>4. Clocked(v, time) /\ v \in States
    BY <2>2, <2>3, EnqueueClocked, EnqueueShape
  <2> HIDE DEF v
  <2>5. /\ t.period = v.period /\ t.stop_time = v.stop_time /\ t.is_enqueued = v.is_enqueued
        /\ t.next_event_time = v.next_event_time
    BY <2>1, <2>4 DEF States
  <2> QED BY <2>4, <2>5 DEF Clocked
<1> QED BY <1>1, <1>2

(* The end of exec() keeps the stop time, or takes the current time.        *)
LEMMA ExecEndClock ==
  ASSUME NEW s \in States, NEW t, t = ExecEnd(s)
  PROVE  t.period = s.period /\ (t.stop_time = s.stop_time \/ t.stop_time = time)
<1>1. ASSUME NEW u \in States, NEW d
      PROVE  Leave(u, d).period = u.period /\ Leave(u, d).stop_time = u.stop_time
  BY DEF Leave, States
<1>2. /\ EndIdle(s).period = s.period /\ EndIdle(s).stop_time = time
      /\ EndCycle(s).period = s.period /\ EndCycle(s).stop_time = s.stop_time
  BY DEF EndIdle, EndCycle, States
<1>3. ASSUME NEW d
      PROVE  /\ Leave(EndIdle(s), d).period = s.period /\ Leave(EndIdle(s), d).stop_time = time
             /\ Leave(EndCycle(s), d).period = s.period /\ Leave(EndCycle(s), d).stop_time = s.stop_time
  BY DEF Leave, EndIdle, EndCycle, States
<1> QED BY <1>3 DEF ExecEnd

(* Every step keeps the clock.                                              *)
LEMMA NextClocked ==
  ASSUME FirstPeriod # 0, Inv, Clocked(eng, time), [SharedNext]_vars
  PROVE  Clocked(eng', time')
<1>1. /\ time \in Nat /\ Good(eng) /\ eng \in States /\ FirstPeriod \in Nat /\ eng.stop_time \in Nat
      /\ eng.next_event_time \in Int
  BY ClockEngineAssumption, Constants, Fields DEF Inv, Good
<1>2. Good(sync(eng)) /\ Clocked(sync(eng), time)
  BY <1>1, SyncGood, SyncClocked
<1>3. CASE UNCHANGED vars \/ MethodReturns
  BY <1>3 DEF vars, history, MethodReturns
<1>4. CASE StartExec
  <2>1. /\ eng.is_enqueued /\ eng.next_event_time <= time /\ time' = eng.next_event_time
        /\ Started(eng', eng)
    BY <1>4 DEF StartExec, Started
  <2>2. time' = time
    BY <1>1, <2>1 DEF Clocked
  <2>3. Good(eng') /\ eng'.running /\ eng'.period = eng.period /\ eng'.stop_time = eng.stop_time
    BY <1>1, <2>1, StartedShape
  <2>4. ~eng'.is_enqueued
    BY <2>3 DEF Good, Plan
  <2> QED BY <2>2, <2>3, <2>4 DEF Clocked
<1>5. CASE RunEvent
  <2> DEFINE e == Head(eng.event_queue[eng.current_cycle])
  <2>1. /\ eng.running /\ eng.event_queue[eng.current_cycle] # <<>>
        /\ eng' = [eng EXCEPT !.event_queue[eng.current_cycle] = Tail(@), !.enqueued[e] = FALSE,
                              !.nb_enqueued_to_cycle = @ - 1]
        /\ UNCHANGED time
    BY <1>5 DEF RunEvent, CurrentSlot
  <2>2. Popped(eng', eng, e)
    BY <1>1, <2>1, RunGood
  <2> QED BY <2>1, <2>2 DEF Popped, SameClock, SamePlan, Clocked
<1>6. CASE FinishExec
  <2>1. /\ eng.running /\ eng.event_queue[eng.current_cycle] = <<>> /\ eng' = ExecEnd(eng)
        /\ UNCHANGED time
    BY <1>6 DEF FinishExec, CurrentSlot
  <2>2. Good(eng') /\ (eng'.is_enqueued => eng'.next_event_time > time)
    BY <1>1, <2>1, ExecEndGood
  <2>3. eng'.next_event_time \in Int
    BY <2>2, Fields DEF Good
  <2>4. eng'.period = eng.period /\ (eng'.stop_time = eng.stop_time \/ eng'.stop_time = time)
    BY <1>1, <2>1, ExecEndClock
  <2>5. eng'.stop_time < time + FirstPeriod /\ (time = 0 => eng'.stop_time = 0)
    BY <1>1, <2>4 DEF Clocked
  <2>6. eng'.is_enqueued => time <= eng'.next_event_time
    BY <1>1, <2>2, <2>3
  <2> QED BY <2>1, <2>4, <2>5, <2>6 DEF Clocked
<1>7. CASE TimePasses
  <2>1. /\ time' \in (time + 1)..MaxTime /\ (eng.is_enqueued => time' <= eng.next_event_time)
        /\ UNCHANGED eng
    BY <1>7 DEF TimePasses
  <2>2. time' \in Nat /\ time' > time /\ time' # 0
    BY <1>1, <2>1, ClockEngineAssumption
  <2>3. eng.stop_time < time' + FirstPeriod
    BY <1>1, <2>2 DEF Clocked
  <2> QED BY <2>1, <2>2, <2>3 DEF Clocked
<1>8. ASSUME NEW e \in Events, NEW n \in 0..MaxDelay,
             Enqueue(e, n) \/ EnqueueExt(e, n) \/ ReenqueueExt(e, n) \/ (eng.running /\ Reenqueue(e, n))
      PROVE  Clocked(eng', time')
  <2>0. n \in Nat
    BY ClockEngineAssumption
  <2>1. CASE Enqueue(e, n)
    <3>1. eng' = enqueue(eng, e, n) /\ time' = time
      BY <2>1 DEF Enqueue, Called
    <3> QED BY <1>1, <2>0, <3>1, EnqueueClocked
  <2>2. CASE EnqueueExt(e, n)
    <3>1. eng' = enqueue(sync(eng), e, n) /\ time' = time
      BY <2>2 DEF EnqueueExt, Called
    <3> QED BY <1>1, <1>2, <2>0, <3>1, EnqueueClocked
  <2>3. CASE ReenqueueExt(e, n)
    <3>1. eng' = reenqueue(sync(eng), e, n) /\ time' = time
      BY <2>3 DEF ReenqueueExt, ReenqueueFrom, Called
    <3> QED BY <1>1, <1>2, <2>0, <3>1, ReenqueueClocked
  <2>4. CASE Reenqueue(e, n)
    <3>1. eng' = reenqueue(eng, e, n) /\ time' = time
      BY <2>4 DEF Reenqueue, ReenqueueFrom, Called
    <3> QED BY <1>1, <2>0, <3>1, ReenqueueClocked
  <2> QED BY <1>8, <2>1, <2>2, <2>3, <2>4
<1>9. ASSUME NEW e \in Events, Cancel(e) PROVE Clocked(eng', time')
  <2>1. eng' = cancel(eng, e) /\ time' = time
    BY <1>9 DEF Cancel, Called
  <2> QED BY <1>1, <2>1, CancelClocked
<1> QED BY <1>3, <1>4, <1>5, <1>6, <1>7, <1>8, <1>9 DEF SharedNext, ExecNext

-----------------------------------------------------------------------------
(* The buffer was emptied by cancel: the count is at the edge the engine is planned for, *)
(* not at its stop time.                                                    *)

PlannedAt(s, e) == s.next_event_time + (s.cycle[e] - s.cycles) * FirstPeriod

Stale(s, d) ==
  /\ ~s.running /\ s.nb_enqueued_to_cycle = 0 /\ s.is_enqueued
  /\ Sorted(s.delayed_queue, s.cycle) /\ Ahead(s) /\ Delayed(s)
  /\ \A e \in Events : s.enqueued[e] => PlannedAt(s, e) <= d[e] + FirstPeriod

(* cancel of the last event of the buffer, with delayed events left.        *)
LEMMA CancelStale ==
  ASSUME time \in Nat, NEW s, Good(s), NEW d \in [Events -> Nat], Timed(s, time, d) \/ Stale(s, d),
         NEW e \in Events, s.enqueued[e], NEW t, t = cancel(s, e), ~s.running, has_events(t),
         s.nb_enqueued_to_cycle # 0 \/ Stale(s, d), t.nb_enqueued_to_cycle = 0,
         NEW d2, OtherDue(d2, d, e)
  PROVE  Stale(t, d2)
<1>1. s \in States
  BY DEF Good
<1>2. t \in States /\ Cancelled(t, s, e)
  BY CancelShape
<1>3. /\ t.cycles = s.cycles /\ ~t.running /\ t.must_flush_delayed_queue = s.must_flush_delayed_queue
      /\ t.current_cycle = s.current_cycle /\ t.cycle = s.cycle /\ t.next_event_time = s.next_event_time
      /\ t.is_enqueued = s.is_enqueued /\ Flagged(t.enqueued, s.enqueued, e, FALSE)
  BY <1>2 DEF Cancelled, SameClock, SameRun
<1>4. Sorted(s.delayed_queue, s.cycle) /\ Ahead(s) /\ Delayed(s)
  BY DEF Timed, Stale
<1>5. s.is_enqueued
  <2>1. has_events(s)
    BY EnqueuedHas
  <2> QED BY <2>1 DEF Timed, Waits, Stale
<1>6. ASSUME NEW x \in Events, t.enqueued[x] PROVE s.enqueued[x] /\ x # e /\ d2[x] = d[x]
  <2>1. x # e
    BY <1>3, <1>6 DEF Flagged
  <2> QED BY <1>3, <1>6, <2>1 DEF Flagged, OtherDue
<1>7. \A x \in Events : s.enqueued[x] => PlannedAt(s, x) <= d[x] + FirstPeriod
  <2>1. CASE Stale(s, d)
    BY <2>1 DEF Stale
  <2>2. CASE ~Stale(s, d)
    <3>1. NotLate(s, time, d) /\ s.nb_enqueued_to_cycle \in Nat
      BY <1>1, <2>2, Fields DEF Timed
    <3>2. s.nb_enqueued_to_cycle > 0
      BY <2>2, <3>1
    <3>3. EdgeTime(s, time) = s.next_event_time
      BY <3>2 DEF EdgeTime
    <3>4. \A x \in Events : PlannedAt(s, x) = RunsAt(s, time, x)
      BY <3>3 DEF PlannedAt, RunsAt
    <3> QED BY <3>1, <3>4 DEF NotLate
  <2> QED BY <2>1, <2>2
<1>8. /\ Sorted(t.delayed_queue, t.cycle)
      /\ \A x \in Events : Holds(t.delayed_queue, x) => Holds(s.delayed_queue, x)
  BY <1>2, <1>4, CancelSorted
<1>9. Ahead(t)
  BY <1>3, <1>4, <1>6 DEF Ahead
<1>10. Delayed(t)
  BY <1>3, <1>4, <1>8 DEF Delayed
<1>11. ASSUME NEW x \in Events, t.enqueued[x] PROVE PlannedAt(t, x) <= d2[x] + FirstPeriod
  <2>1. PlannedAt(t, x) = PlannedAt(s, x)
    BY <1>3 DEF PlannedAt
  <2> QED BY <1>6, <1>7, <1>11, <2>1
<1> QED BY <1>3, <1>5, <1>8, <1>9, <1>10, <1>11 DEF Stale

(* exec() starts: nothing of the delayed queue is due, or it jumps to its first event. *)
LEMMA StartStale ==
  ASSUME time \in Nat, FirstPeriod # 0, NEW s, Good(s), NEW d \in [Events -> Nat], Stale(s, d), Clocked(s, time),
         s.next_event_time <= time, NEW t, Started(t, s)
  PROVE  Timed(t, time, d)
<1> DEFINE P == FirstPeriod
<1>0. s.is_enqueued
  BY DEF Stale
<1>1. /\ Good(t) /\ t.running /\ t.cycle = s.cycle /\ t.enqueued = s.enqueued
      /\ t.period = s.period /\ t.current_cycle = s.current_cycle
      /\ ~s.must_flush_delayed_queue => t.cycles = s.cycles /\ t.delayed_queue = s.delayed_queue
      /\ s.nb_enqueued_to_cycle = 0 /\ s.must_flush_delayed_queue =>
           t.cycles = s.cycle[Head(s.delayed_queue)] /\ s.delayed_queue # <<>>
      /\ s.must_flush_delayed_queue /\ Sorted(s.delayed_queue, s.cycle) /\ Ahead(t) =>
           Sorted(t.delayed_queue, t.cycle) /\ Delayed(t)
  BY <1>0, StartedShape
<1>2. s \in States /\ t \in States
  BY <1>1 DEF Good
<1>3. /\ s.next_event_time \in Int /\ s.cycles \in Nat /\ t.cycles \in Nat /\ P \in Nat
      /\ s.cycle \in [Events -> Nat] /\ s.delayed_queue \in Seq(Events)
  BY <1>2, Fields, Constants
<1>4. /\ s.nb_enqueued_to_cycle = 0 /\ Sorted(s.delayed_queue, s.cycle) /\ Ahead(s) /\ Delayed(s)
      /\ s.period = P /\ s.next_event_time = time
  BY <1>0, <1>3 DEF Stale, Clocked
<1>5. EdgeTime(t, time) = time
  BY <1>1 DEF EdgeTime
<1>6. Ahead(t) /\ Sorted(t.delayed_queue, t.cycle) /\ Delayed(t) /\ s.cycles <= t.cycles
  <2>1. CASE ~s.must_flush_delayed_queue
    <3>1. t.cycles = s.cycles /\ t.delayed_queue = s.delayed_queue
      BY <1>1, <2>1
    <3> QED BY <1>1, <1>3, <1>4, <2>1, <3>1 DEF Ahead, Delayed
  <2>2. CASE s.must_flush_delayed_queue
    <3> DEFINE f == Head(s.delayed_queue)
    <3>1. t.cycles = s.cycle[f] /\ s.delayed_queue # <<>>
      BY <1>1, <1>4, <2>2
    <3>2. f \in Events /\ s.cycle[f] \in Nat
      BY <1>3, <3>1
    <3>3. s.enqueued[f]
      <4>1. Placed(s.event_queue, s.delayed_queue, s.enqueued) /\ Distinct(s.delayed_queue)
        BY DEF Good, Queues, Placed
      <4>2. Holds(s.delayed_queue, f)
        BY <1>3, <3>1, <4>1, TailOK
      <4> QED BY <3>2, <4>1, <4>2 DEF Placed
    <3>4. ASSUME NEW e \in Events, s.enqueued[e] PROVE s.cycle[f] <= s.cycle[e]
      <4>1. Holds(s.delayed_queue, e)
        BY <1>4, <3>4, EnqueuedHas
      <4> QED BY <1>3, <1>4, <4>1, HeadFirst
    <3> HIDE DEF f
    <3>5. Ahead(t)
      BY <1>1, <1>3, <3>1, <3>2, <3>4 DEF Ahead
    <3>6. s.cycles <= t.cycles
      BY <1>3, <1>4, <3>1, <3>2, <3>3 DEF Ahead
    <3> QED BY <1>1, <1>4, <2>2, <3>5, <3>6
  <2> QED BY <2>1, <2>2
<1>7. NotLate(t, time, d)
  <2> SUFFICES ASSUME NEW e \in Events, t.enqueued[e] PROVE RunsAt(t, time, e) <= d[e] + P
    BY DEF NotLate
  <2> DEFINE a == s.cycle[e] - t.cycles
             b == s.cycle[e] - s.cycles
             x == a * P
             y == b * P
  <2>1. a \in Int /\ b \in Int /\ a <= b /\ d[e] \in Nat
    BY <1>3, <1>6
  <2>2. PlannedAt(s, e) <= d[e] + P /\ PlannedAt(s, e) = time + y
    BY <1>1, <1>4 DEF Stale, PlannedAt
  <2>3. RunsAt(t, time, e) = time + x
    BY <1>1, <1>5 DEF RunsAt
  <2>4. x \in Int /\ y \in Int
    BY <1>1, <1>2, TimesOK
  <2> HIDE DEF a, b
  <2>5. x <= y
    BY <1>3, <2>1, Mono
  <2> HIDE DEF x, y, P
  <2>6. time + y <= d[e] + P
    BY <2>2
  <2>7. time + x <= d[e] + P
    BY <1>3, <2>1, <2>4, <2>5, <2>6
  <2> QED BY <2>3, <2>7
<1>8. Waits(t, time) /\ Busy(t, time) /\ Idle(t, time)
  BY <1>1 DEF Waits, Busy, Idle
<1> QED BY <1>1, <1>4, <1>6, <1>7, <1>8 DEF Timed

-----------------------------------------------------------------------------
(* The invariant of a clock of constant frequency.                          *)

TimingInv ==
  /\ Inv /\ CountOK /\ Clocked(eng, time)
  /\ counted = "once" => OnceInv
  /\ counted = "stale" => Stale(eng, due)
  /\ local => counted = "once"

(* An engine that starts has it.                                            *)
LEMMA InitTiming == FirstPeriod # 0 /\ Init => TimingInv
<1> SUFFICES ASSUME FirstPeriod # 0, Init PROVE TimingInv
  OBVIOUS
<1>1. OnceInv /\ Inv
  BY InitOnce, InitInv
<1>2. counted = "once" /\ time = 0 /\ eng.stop_time = 0 /\ eng.period = FirstPeriod /\ ~eng.is_enqueued
  BY DEF Init
<1>3. Clocked(eng, time)
  BY <1>2, Constants DEF Clocked
<1> QED BY <1>1, <1>2, <1>3 DEF TimingInv, CountOK

(* A step that leaves the engine without events.                            *)
LEMMA EmptyOnce ==
  ASSUME NEW s, Good(s), ~has_events(s), NEW tm, Clocked(s, tm), NEW d
  PROVE  Timed(s, tm, d)
BY EmptyTimed DEF Clocked

(* Where the cycles are not counted once, the steps that say they are again. *)
LEMMA NextAgain ==
  ASSUME FirstPeriod # 0, TimingInv, [SharedNext]_vars, Inv', Clocked(eng', time'),
         counted # "once", counted' = "once"
  PROVE  OnceInv'
<1>1. /\ time \in Nat /\ Good(eng) /\ due \in [Events -> Nat] /\ Clocked(eng, time) /\ ~local /\ CountOK
      /\ Good(eng') /\ counted \in {"stale", "twice"}
  BY ClockEngineAssumption DEF TimingInv, Inv, CountOK
<1>2. ~local' /\ Timed(eng', time', due')
  <2>1. CASE StartExec
    <3>1. /\ eng.next_event_time <= time /\ time' = eng.next_event_time /\ Started(eng', eng)
          /\ UNCHANGED <<due, local>> /\ eng.is_enqueued /\ counted = "stale"
      BY <1>1, <2>1 DEF StartExec, Started
    <3>2. time' = time /\ Stale(eng, due)
      <4>1. eng.next_event_time \in Int
        BY <1>1, Fields DEF Good
      <4> QED BY <1>1, <3>1, <4>1 DEF Clocked, TimingInv
    <3>3. Timed(eng', time, due)
      BY <1>1, <3>1, <3>2, StartStale
    <3> QED BY <1>1, <3>1, <3>2, <3>3
  <2>2. CASE FinishExec
    <3>1. ~has_events(eng') /\ UNCHANGED local
      BY <2>2 DEF FinishExec
    <3> QED BY <1>1, <3>1, EmptyOnce
  <2>3. ASSUME NEW e \in Events, Cancel(e) PROVE ~local' /\ Timed(eng', time', due')
    <3>1. ~has_events(eng') /\ local' = (local /\ eng.running)
      BY <2>3 DEF Cancel, Called
    <3> QED BY <1>1, <3>1, EmptyOnce
  <2>4. CASE UNCHANGED vars \/ RunEvent \/ MethodReturns \/ TimePasses
    BY <2>4 DEF vars, history, RunEvent, MethodReturns, TimePasses
  <2>5. CASE \E e \in Events, n \in 0..MaxDelay :
               Enqueue(e, n) \/ EnqueueExt(e, n) \/ ReenqueueExt(e, n) \/ (eng.running /\ Reenqueue(e, n))
    BY <2>5 DEF Enqueue, EnqueueExt, ReenqueueExt, Reenqueue, ReenqueueFrom, Recount
  <2> QED BY <2>1, <2>2, <2>3, <2>4, <2>5 DEF SharedNext, ExecNext
<1> QED BY <1>2 DEF OnceInv, Clocked

(* The steps that empty the buffer, and those until exec() runs again.      *)
LEMMA NextStale ==
  ASSUME FirstPeriod # 0, TimingInv, [SharedNext]_vars, counted' = "stale"
  PROVE  Stale(eng', due') /\ ~local'
<1>1. /\ time \in Nat /\ Good(eng) /\ eng \in States /\ due \in [Events -> Nat] /\ Clocked(eng, time)
      /\ (counted = "stale" => Stale(eng, due) /\ ~local) /\ (counted = "once" => Timed(eng, time, due))
  BY ClockEngineAssumption DEF TimingInv, OnceInv, Inv, Good
<1>2. CASE UNCHANGED vars \/ MethodReturns \/ TimePasses
  BY <1>1, <1>2 DEF vars, history, MethodReturns, TimePasses
<1>3. CASE StartExec
  BY <1>3 DEF StartExec
<1>4. CASE RunEvent
  BY <1>1, <1>4 DEF RunEvent, Stale
<1>5. CASE FinishExec
  BY <1>1, <1>5 DEF FinishExec, Stale
<1>6. ASSUME NEW e \in Events, Cancel(e) PROVE Stale(eng', due') /\ ~local'
  <2> DEFINE t == cancel(eng, e)
  <2>1. /\ eng.enqueued[e] /\ eng' = t /\ local' = (local /\ eng.running) /\ has_events(t)
        /\ due' = [due EXCEPT ![e] = 0]
        /\ counted = "stale" \/ (counted = "once" /\ EmptiesBuffer(e))
    BY <1>6 DEF Cancel, Called
  <2>2. OtherDue(due', due, e)
    BY <1>1, <2>1 DEF OtherDue
  <2>3. t \in States /\ Cancelled(t, eng, e)
    BY <1>1, <2>1, CancelShape
  <2>4. t.nb_enqueued_to_cycle \in Nat /\ (CancelDelayed(t, eng, e) \/ CancelBuffered(t, eng, e))
    BY <2>3, Fields DEF Cancelled
  <2>5. CASE counted = "stale"
    <3>1. Stale(eng, due) /\ ~eng.running /\ eng.nb_enqueued_to_cycle = 0
      BY <1>1, <2>5 DEF Stale
    <3>2. t.nb_enqueued_to_cycle = 0
      BY <2>4, <3>1 DEF CancelDelayed, CancelBuffered
    <3> HIDE DEF t
    <3>3. Stale(t, due')
      BY <1>1, <2>1, <2>2, <3>1, <3>2, CancelStale DEF t
    <3> QED BY <2>1, <3>1, <3>3
  <2>6. CASE counted = "once" /\ EmptiesBuffer(e)
    <3>1. /\ Timed(eng, time, due) /\ ~eng.running /\ eng.nb_enqueued_to_cycle = 1
          /\ ~Contains(eng.delayed_queue, e)
      BY <1>1, <2>6 DEF EmptiesBuffer
    <3>2. Contains(eng.delayed_queue, e) <=> Holds(eng.delayed_queue, e)
      BY DEF Contains, Holds
    <3>3. t.nb_enqueued_to_cycle = 0 /\ eng.nb_enqueued_to_cycle # 0
      BY <2>4, <3>1, <3>2 DEF CancelDelayed, CancelBuffered
    <3> HIDE DEF t
    <3>4. Stale(t, due')
      BY <1>1, <2>1, <2>2, <3>1, <3>3, CancelStale DEF t
    <3> QED BY <2>1, <3>1, <3>4
  <2> QED BY <2>1, <2>5, <2>6
<1>7. CASE \E e \in Events, n \in 0..MaxDelay :
             Enqueue(e, n) \/ EnqueueExt(e, n) \/ ReenqueueExt(e, n) \/ (eng.running /\ Reenqueue(e, n))
  BY <1>7 DEF Enqueue, EnqueueExt, ReenqueueExt, Reenqueue, ReenqueueFrom, Recount
<1> QED BY <1>2, <1>3, <1>4, <1>5, <1>6, <1>7 DEF SharedNext, ExecNext

(* Cycles are only counted twice after a call from outside.                 *)
LEMMA NextTwice ==
  ASSUME TimingInv, [SharedNext]_vars, counted' = "twice"
  PROVE  ~local'
<1>1. /\ Good(eng) /\ CountOK /\ (local => counted = "once")
      /\ time = 0 => eng.stop_time = 0
  BY DEF TimingInv, Inv, Clocked
<1>2. CASE UNCHANGED vars \/ RunEvent \/ MethodReturns \/ TimePasses \/ StartExec \/ FinishExec
  BY <1>1, <1>2 DEF vars, history, RunEvent, MethodReturns, TimePasses, StartExec, FinishExec
<1>3. CASE \E e \in Events : Cancel(e)
  BY <1>1, <1>3 DEF Cancel, Called
<1>4. CASE \E e \in Events, n \in 0..MaxDelay :
             Enqueue(e, n) \/ EnqueueExt(e, n) \/ ReenqueueExt(e, n) \/ (eng.running /\ Reenqueue(e, n))
  <2>1. PICK e \in Events : \E moved :
          local' = (local /\ (eng.running \/ Starting)) /\ Recount(e, moved)
    BY <1>4 DEF Enqueue, EnqueueExt, ReenqueueExt, Reenqueue, ReenqueueFrom, Called
  <2>2. eng.running \/ Starting => ~EmptiesBuffer(e)
    BY DEF EmptiesBuffer, Starting
  <2> QED BY <1>1, <2>1, <2>2 DEF Recount
<1> QED BY <1>2, <1>3, <1>4 DEF SharedNext, ExecNext

(* Every step keeps the invariant.                                          *)
LEMMA NextTiming == FirstPeriod # 0 /\ TimingInv /\ [SharedNext]_vars => TimingInv'
<1> SUFFICES ASSUME FirstPeriod # 0, TimingInv, [SharedNext]_vars PROVE TimingInv'
  OBVIOUS
<1>1. Inv' /\ CountOK'
  BY SharedIsNext, NextInv, NextCount DEF TimingInv
<1>2. Clocked(eng', time')
  BY NextClocked DEF TimingInv
<1>3. counted' = "once" => OnceInv'
  <2>1. CASE counted = "once"
    BY <2>1, NextOnce DEF TimingInv, Clocked
  <2>2. CASE counted # "once"
    BY <1>1, <1>2, <2>2, NextAgain
  <2> QED BY <2>1, <2>2
<1>4. counted' = "stale" => Stale(eng', due') /\ ~local'
  BY NextStale
<1>5. counted' = "twice" => ~local'
  BY NextTwice
<1> QED BY <1>1, <1>2, <1>3, <1>4, <1>5 DEF TimingInv, CountOK

(* The invariant holds for a clock of constant frequency.                   *)
LEMMA TimingCorrect ==
  ASSUME FirstPeriod # 0
  PROVE  SharedSpec => []TimingInv
<1>1. Init => TimingInv
  BY InitTiming
<1>2. TimingInv /\ [SharedNext]_vars => TimingInv'
  BY NextTiming
<1> QED BY <1>1, <1>2, PTL DEF SharedSpec
-----------------------------------------------------------------------------
(* What follows from it.                                                    *)

(* No event is in the past, nor before the time the engine is planned for.  *)
LEMMA NotPast ==
  ASSUME time \in Nat, NEW s, Good(s), NEW d, Timed(s, time, d), NEW e \in Events, s.enqueued[e]
  PROVE  /\ time <= RunsAt(s, time, e)
         /\ ~s.running => s.is_enqueued /\ s.next_event_time <= RunsAt(s, time, e)
<1> DEFINE m == (s.cycle[e] - s.cycles) * FirstPeriod
<1>1. s \in States /\ has_events(s)
  BY EnqueuedHas DEF Good
<1>2. /\ s.next_event_time \in Int /\ s.cycles \in Nat /\ s.cycle[e] \in Nat /\ FirstPeriod \in Nat
      /\ s.nb_enqueued_to_cycle \in Nat /\ RunsAt(s, time, e) \in Int /\ m \in Int
  BY <1>1, Fields, Constants, TimesOK
<1>3. m >= 0
  <2>1. s.cycle[e] >= s.cycles
    BY DEF Timed, Ahead
  <2>2. s.cycle[e] - s.cycles \in Nat
    BY <1>2, <2>1
  <2> QED BY <1>2, <2>2
<1>4. RunsAt(s, time, e) = EdgeTime(s, time) + m
  BY DEF RunsAt
<1> HIDE DEF m
<1>5. CASE s.running
  <2>1. EdgeTime(s, time) = time
    BY <1>5 DEF EdgeTime
  <2> QED BY <1>2, <1>3, <1>4, <1>5, <2>1
<1>6. CASE ~s.running
  <2>1. s.is_enqueued /\ time <= s.next_event_time
    BY <1>1, <1>6 DEF Timed, Waits
  <2>2. s.next_event_time <= RunsAt(s, time, e)
    <3>1. CASE s.nb_enqueued_to_cycle > 0
      <4>1. EdgeTime(s, time) = s.next_event_time
        BY <1>6, <3>1 DEF EdgeTime
      <4> QED BY <1>2, <1>3, <1>4, <4>1
    <3>2. CASE s.nb_enqueued_to_cycle = 0
      BY <1>6, <3>2 DEF Timed, Idle
    <3> QED BY <1>2, <3>1, <3>2
  <2> QED BY <1>2, <1>6, <2>1, <2>2
<1> QED BY <1>5, <1>6

(* A domain with events and a clock is planned in the time engine: enqueue, cancel,  *)
(* reenqueue and the end of exec() never leave an event without a plan.     *)
THEOREM NeverForgottenCorrect ==
  ASSUME FirstPeriod # 0
  PROVE  SharedSpec => []NeverForgotten
<1>1. TimingInv => NeverForgotten
  BY DEF TimingInv, CountOK, OnceInv, Stale, Timed, Waits, NeverForgotten
<1> QED BY <1>1, TimingCorrect, PTL

(* The cycle count never runs past the cycle of an event that waits: neither update, *)
(* nor the jump of the flush, nor the end of a cycle skips one.             *)
THEOREM NoCycleMissedCorrect ==
  ASSUME FirstPeriod # 0
  PROVE  SharedSpec => []NoCycleMissed
<1>1. TimingInv => NoCycleMissed
  BY DEF TimingInv, CountOK, OnceInv, Stale, Timed, Ahead, NoCycleMissed
<1> QED BY <1>1, TimingCorrect, PTL

(* With events posted from other domains too, at any time between two clock edges, an *)
(* event is late by one period at most.                                     *)
THEOREM NeverLateCorrect ==
  ASSUME FirstPeriod # 0
  PROVE  SharedSpec => []NeverLate
<1>1. TimingInv => NeverLate
  <2> SUFFICES ASSUME TimingInv, counted # "twice", NEW e \in Events, eng.enqueued[e]
               PROVE  time <= due[e] + eng.period
    BY DEF NeverLate
  <2>1. /\ time \in Nat /\ Good(eng) /\ due \in [Events -> Nat] /\ eng \in States
        /\ eng.period = FirstPeriod /\ counted \in {"once", "stale"} /\ Clocked(eng, time)
    BY ClockEngineAssumption DEF TimingInv, Inv, CountOK, Good, Clocked
  <2>2. due[e] \in Nat /\ FirstPeriod \in Nat
    BY <2>1, Constants
  <2>3. CASE counted = "once"
    <3>1. Timed(eng, time, due)
      BY <2>3 DEF TimingInv, OnceInv
    <3>2. time <= RunsAt(eng, time, e)
      BY <2>1, <3>1, NotPast
    <3>3. RunsAt(eng, time, e) <= due[e] + FirstPeriod
      BY <3>1 DEF Timed, NotLate
    <3>4. RunsAt(eng, time, e) \in Int
      BY <2>1, TimesOK
    <3> QED BY <2>1, <2>2, <3>2, <3>3, <3>4
  <2>4. CASE counted = "stale"
    <3> DEFINE m == eng.cycle[e] - eng.cycles
    <3>1. /\ time <= eng.next_event_time /\ eng.next_event_time + m * FirstPeriod <= due[e] + FirstPeriod
          /\ eng.cycle[e] >= eng.cycles
      BY <2>1, <2>4 DEF TimingInv, Stale, Clocked, PlannedAt, Ahead
    <3>2. eng.cycle[e] \in Nat /\ eng.cycles \in Nat /\ eng.next_event_time \in Int
      BY <2>1, Fields
    <3>3. m \in Nat
      BY <3>1, <3>2
    <3> HIDE DEF m
    <3>4. m * FirstPeriod \in Nat
      BY <2>2, <3>3
    <3> QED BY <2>1, <2>2, <3>1, <3>2, <3>4
  <2> QED BY <2>1, <2>3, <2>4
<1> QED BY <1>1, TimingCorrect, PTL

(* What a step of an engine that only its domain uses does.                 *)
ExactStep ==
  local => /\ RunEvent => time = due[handler']
           /\ \A e \in Events : eng.enqueued[e] => time' <= due[e]

(* It runs an event at its time, and time does not pass an event.           *)
LEMMA StepIsExact ==
  ASSUME FirstPeriod # 0, TimingInv, SharedNext
  PROVE  ExactStep
<1> SUFFICES ASSUME local
             PROVE  /\ RunEvent => time = due[handler']
                    /\ \A e \in Events : eng.enqueued[e] => time' <= due[e]
  BY DEF ExactStep
<1>1. /\ time \in Nat /\ Good(eng) /\ Timed(eng, time, due) /\ due \in [Events -> Nat] /\ eng \in States
      /\ Punctual(eng, time, due)
  BY ClockEngineAssumption DEF TimingInv, OnceInv, Inv, Good
<1>2. ASSUME RunEvent PROVE time = due[handler']
  <2> DEFINE e == Head(eng.event_queue[eng.current_cycle])
             i == eng.current_cycle
  <2>1. eng.running /\ eng.event_queue[i] # <<>> /\ handler' = e
    BY <1>2 DEF RunEvent, CurrentSlot
  <2>2. /\ Placed(eng.event_queue, eng.delayed_queue, eng.enqueued) /\ i \in Slots
        /\ eng.event_queue \in Buffer /\ SlotsOK(eng.event_queue, i, eng.cycles, eng.cycle)
        /\ eng.cycles \in Nat /\ FirstPeriod \in Nat
    BY <1>1, Fields, Constants DEF Good, Queues, Cycles
  <2>3. Distinct(eng.event_queue[i]) /\ eng.event_queue[i] \in Seq(Events)
    BY <2>2 DEF Placed, Buffer
  <2>4. e \in Events /\ Holds(eng.event_queue[i], e)
    BY <2>1, <2>3, TailOK
  <2> HIDE DEF e
  <2>5. eng.enqueued[e]
    BY <2>2, <2>4 DEF Placed
  <2>6. eng.cycle[e] = eng.cycles + 0
    <3>1. 0 \in Slots /\ i \in 0..(QueueSize - 1) /\ QueueSize \in Nat
      BY <2>2, Constants
    <3>2. (i + 0) % QueueSize = i
      BY <2>2, <3>1, Circle
    <3> QED BY <2>2, <2>4, <3>1, <3>2 DEF SlotsOK
  <2>7. RunsAt(eng, time, e) = time
    <3>1. EdgeTime(eng, time) = time
      BY <2>1 DEF EdgeTime
    <3>2. eng.cycle[e] - eng.cycles = 0
      BY <2>2, <2>6
    <3>3. 0 * FirstPeriod = 0
      BY <2>2
    <3> QED BY <1>1, <3>1, <3>2, <3>3 DEF RunsAt
  <2> QED BY <1>1, <2>1, <2>4, <2>5, <2>7 DEF Punctual, OnTime
<1>3. ASSUME NEW e \in Events, eng.enqueued[e] PROVE time' <= due[e]
  <2>1. /\ time <= RunsAt(eng, time, e)
        /\ ~eng.running => eng.is_enqueued /\ eng.next_event_time <= RunsAt(eng, time, e)
    BY <1>1, <1>3, NotPast
  <2>2. RunsAt(eng, time, e) = due[e]
    BY <1>1, <1>3 DEF Punctual, OnTime
  <2>3. due[e] \in Nat /\ eng.next_event_time \in Int
    BY <1>1, Fields
  <2>4. CASE StartExec
    <3>1. ~eng.running /\ time' = eng.next_event_time
      BY <1>1, <2>4 DEF StartExec, Good, Plan
    <3> QED BY <2>1, <2>2, <3>1
  <2>5. CASE TimePasses
    <3>1. ~eng.running /\ time' \in (time + 1)..MaxTime /\ (eng.is_enqueued => time' <= eng.next_event_time)
      BY <2>5 DEF TimePasses
    <3>2. time' \in Int
      BY <1>1, <3>1
    <3> QED BY <2>1, <2>2, <2>3, <3>1, <3>2
  <2>6. CASE ~StartExec /\ ~TimePasses
    <3>1. time' = time
      BY <2>6 DEF SharedNext, ExecNext, RunEvent, MethodReturns, FinishExec, Enqueue, EnqueueExt, Reenqueue,
                  ReenqueueExt, ReenqueueFrom, Cancel, Called
    <3> QED BY <2>1, <2>2, <3>1
  <2> QED BY <2>4, <2>5, <2>6
<1> QED BY <1>2, <1>3

(* As long as a domain is used by its own components only, an event posted for n cycles *)
(* runs exactly n periods later, through the buffer or through the delayed queue. *)
THEOREM RunsExactlyOnTimeCorrect ==
  ASSUME FirstPeriod # 0
  PROVE  SharedSpec => RunsExactlyOnTime
<1>1. TimingInv /\ [SharedNext]_vars => [ExactStep]_vars
  BY StepIsExact
<1>2. SharedSpec => [][ExactStep]_vars
  BY <1>1, TimingCorrect, PTL DEF SharedSpec
<1> QED BY <1>2 DEF RunsExactlyOnTime, ExactStep
=============================================================================
