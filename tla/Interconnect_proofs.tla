------------------------ MODULE Interconnect_proofs -------------------------
(***************************************************************************)
(* Proofs about the router, the interleaver and the converter, for any     *)
(* well-formed tables, accesses, widths and masters: the tree of the       *)
(* router finds the mapping an address belongs to; the parts that router,  *)
(* interleaver and converter make of a request cover it without overlap;   *)
(* a request that is answered without error has each byte copied once with *)
(* the cell of its address; grants and responses come in turn.             *)
(***************************************************************************)
EXTENDS Interconnect, SequenceTheorems, WellFoundedInduction, TLAPS

-----------------------------------------------------------------------------
(* Induction and recursion over natural numbers.                            *)

(* A set of natural numbers has a least element.                            *)
LEMMA Least ==
  ASSUME NEW T \in SUBSET Nat, T # {}
  PROVE  \E x \in T : \A y \in T : x <= y
<1> DEFINE R == OpToRel(<, Nat)
<1>1. IsWellFoundedOn(R, Nat)
  BY NatLessThanWellFounded
<1>2. \A x, y \in Nat : <<y, x>> \in R <=> y < x
  BY DEF OpToRel
<1> HIDE DEF R
<1>3. PICK x \in T : \A y \in T : ~(<<y, x>> \in R)
  BY <1>1, WFMin
<1>4. ASSUME NEW y \in T PROVE x <= y
  <2>1. x \in Nat /\ y \in Nat /\ ~(<<y, x>> \in R)
    BY <1>3
  <2>2. ~(y < x)
    BY <1>2, <2>1
  <2> QED BY <2>1, <2>2
<1> QED BY <1>4

(* Induction over the natural numbers, stated on sets.                      *)
LEMMA SetInduction ==
  ASSUME NEW T, 0 \in T, \A n \in Nat : n \in T => n + 1 \in T
  PROVE  Nat \subseteq T
<1> SUFFICES ASSUME Nat \ T # {} PROVE FALSE
  OBVIOUS
<1>1. PICK x \in Nat \ T : \A y \in Nat \ T : x <= y
  <2>1. Nat \ T \in SUBSET Nat
    OBVIOUS
  <2> QED BY <2>1, Least
<1>2. x # 0 /\ x - 1 \in Nat
  BY <1>1
<1>3. x - 1 \in T
  BY <1>1, <1>2
<1>4. (x - 1) + 1 = x
  BY <1>2
<1> QED BY <1>1, <1>2, <1>3, <1>4

(* The function that a recursion over the natural numbers defines, a step    *)
(* being a function g[n].                                                   *)
Iterable(S, a, g) == \E f \in [Nat -> S] : f[0] = a /\ \A n \in Nat : f[n + 1] = g[n][f[n]]

(* There is one.                                                            *)
LEMMA Iteration ==
  ASSUME NEW S, NEW a \in S, NEW g \in [Nat -> [S -> S]]
  PROVE  Iterable(S, a, g)
<1> DEFINE Upto(n) == {h \in [0..n -> S] : h[0] = a /\ \A k \in 0..(n-1) : h[k + 1] = g[k][h[k]]}
           T == {n \in Nat : \E h \in Upto(n) : TRUE}
<1>1. 0 \in T
  <2>1. [k \in 0..0 |-> a] \in Upto(0)
    OBVIOUS
  <2> QED BY <2>1
<1>2. ASSUME NEW n \in Nat, n \in T PROVE n + 1 \in T
  <2>1. PICK h \in Upto(n) : TRUE
    BY <1>2
  <2> DEFINE h2 == [k \in 0..(n + 1) |-> IF k = n + 1 THEN g[n][h[n]] ELSE h[k]]
  <2>2. h \in [0..n -> S] /\ h[0] = a /\ \A k \in 0..(n-1) : h[k + 1] = g[k][h[k]]
    BY <2>1
  <2>3. h[n] \in S /\ g[n] \in [S -> S]
    BY <2>2
  <2>4. h2 \in [0..(n + 1) -> S] /\ h2[0] = a /\ h2[n + 1] = g[n][h[n]]
    BY <2>2, <2>3
  <2>5. \A k \in 0..n : h2[k] = h[k]
    OBVIOUS
  <2>6. ASSUME NEW k \in 0..((n + 1) - 1) PROVE h2[k + 1] = g[k][h2[k]]
    <3>1. CASE k = n
      BY <2>4, <2>5, <3>1
    <3>2. CASE k # n
      <4>1. k \in 0..(n - 1) /\ k \in 0..n /\ k + 1 \in 0..n
        BY <3>2
      <4> QED BY <2>2, <2>5, <4>1
    <3> QED BY <3>1, <3>2
  <2> HIDE DEF h2
  <2>7. h2 \in Upto(n + 1)
    BY <2>4, <2>6
  <2> QED BY <2>7
<1>3. \A n \in Nat : n \in T
  <2> HIDE DEF T
  <2> QED BY <1>1, <1>2, SetInduction
<1> DEFINE H == [n \in Nat |-> CHOOSE h \in Upto(n) : TRUE]
           f == [n \in Nat |-> H[n][n]]
<1>4. \A n \in Nat : H[n] \in Upto(n)
  BY <1>3
<1> HIDE DEF H
<1>5. \A n \in Nat : /\ H[n] \in [0..n -> S] /\ H[n][0] = a
                     /\ \A k \in 0..(n-1) : H[n][k + 1] = g[k][H[n][k]]
  BY <1>4
<1> HIDE DEF Upto, T
<1>6. ASSUME NEW n \in Nat PROVE H[n + 1][n] = H[n][n]
  <2> DEFINE E == {k \in Nat : k <= n => H[n + 1][k] = H[n][k]}
  <2>1. 0 \in E
    BY <1>5
  <2>2. ASSUME NEW k \in Nat, k \in E PROVE k + 1 \in E
    <3>1. CASE k + 1 <= n
      <4>1. k \in 0..(n - 1) /\ k \in 0..((n + 1) - 1) /\ n + 1 \in Nat
        BY <3>1
      <4>2. H[n][k + 1] = g[k][H[n][k]]
        BY <1>5, <4>1
      <4>3. H[n + 1][k + 1] = g[k][H[n + 1][k]]
        BY <1>5, <4>1
      <4>4. H[n + 1][k] = H[n][k]
        BY <2>2, <4>1
      <4> QED BY <4>2, <4>3, <4>4
    <3>2. CASE ~(k + 1 <= n)
      BY <3>2
    <3> QED BY <3>1, <3>2
  <2> HIDE DEF E
  <2>3. n \in E
    BY <2>1, <2>2, SetInduction
  <2> QED BY <2>3 DEF E
<1>7. f \in [Nat -> S]
  <2>1. ASSUME NEW n \in Nat PROVE H[n][n] \in S
    <3>1. n \in 0..n
      OBVIOUS
    <3> QED BY <1>5, <3>1
  <2> QED BY <2>1
<1>8. f[0] = a
  BY <1>5
<1>9. ASSUME NEW n \in Nat PROVE f[n + 1] = g[n][f[n]]
  <2>1. n + 1 \in Nat /\ n \in 0..((n + 1) - 1)
    OBVIOUS
  <2>2. H[n + 1][n + 1] = g[n][H[n + 1][n]]
    BY <1>5, <2>1
  <2> QED BY <1>6, <2>1, <2>2
<1> HIDE DEF f
<1> QED BY <1>7, <1>8, <1>9 DEF Iterable

-----------------------------------------------------------------------------
(* The list of mappings.                                                    *)

LEMMA MappingOK ==
  ASSUME NEW e \in Mappings
  PROVE  e.base \in Nat /\ e.size \in Nat /\ e.remove_offset \in Nat /\ e.add_offset \in Nat
BY DEF Mappings

(* list holds e.                                                            *)
Holds(list, e) == \E i \in 1..Len(list) : list[i] = e

SortedByBase(list) == \A i, j \in 1..Len(list) : i <= j => list[i].base <= list[j].base

(* The place where a mapping is inserted.                                   *)
Position(list, e) ==
  CHOOSE k \in 0..Len(list) :
    /\ \A i \in 1..k : list[i].base < e.base
    /\ k < Len(list) => list[k + 1].base >= e.base

LEMMA PositionOK ==
  ASSUME NEW list \in Seq(Mappings), NEW e \in Mappings
  PROVE  /\ Position(list, e) \in 0..Len(list)
         /\ \A i \in 1..Position(list, e) : list[i].base < e.base
         /\ Position(list, e) < Len(list) => list[Position(list, e) + 1].base >= e.base
<1> DEFINE N == Len(list)
           T == {i \in Nat : i = N \/ (i < N /\ list[i + 1].base >= e.base)}
<1>1. N \in Nat /\ e.base \in Nat /\ \A i \in 1..N : list[i].base \in Nat
  <2>1. \A i \in 1..N : list[i] \in Mappings
    OBVIOUS
  <2> QED BY <2>1, MappingOK
<1>2. PICK k \in T : \A y \in T : k <= y
  <2>1. T \in SUBSET Nat /\ N \in T
    BY <1>1
  <2> HIDE DEF T
  <2> QED BY <2>1, Least
<1>3. k \in Nat /\ N \in T
  BY <1>1
<1>4. k \in 0..N /\ (k < N => list[k + 1].base >= e.base)
  BY <1>1, <1>2, <1>3
<1>5. ASSUME NEW i \in 1..k PROVE list[i].base < e.base
  <2>1. i - 1 \in Nat /\ ~(k <= i - 1) /\ i \in 1..N /\ i - 1 < N /\ (i - 1) + 1 = i
    BY <1>1, <1>3, <1>4
  <2>2. i - 1 \notin T
    BY <1>2, <2>1
  <2> QED BY <1>1, <2>1, <2>2
<1> QED BY <1>4, <1>5 DEF Position

LEMMA InsertOK ==
  ASSUME NEW list \in Seq(Mappings), NEW e \in Mappings, SortedByBase(list)
  PROVE  /\ insert(list, e) \in Seq(Mappings) /\ SortedByBase(insert(list, e))
         /\ \A x : Holds(insert(list, e), x) <=> Holds(list, x) \/ x = e
<1> DEFINE N == Len(list)
           k == Position(list, e)
           r == SubSeq(list, 1, k) \o <<e>> \o SubSeq(list, k + 1, N)
<1>1. /\ k \in 0..N /\ N \in Nat /\ k \in Nat
      /\ \A i \in 1..k : list[i].base < e.base
      /\ k < N => list[k + 1].base >= e.base
  BY PositionOK
<1>2. insert(list, e) = r
  BY DEF insert, Position
<1>3. e.base \in Nat /\ \A i \in 1..N : list[i] \in Mappings /\ list[i].base \in Nat
  <2>1. \A i \in 1..N : list[i] \in Mappings
    OBVIOUS
  <2> QED BY <2>1, MappingOK
<1> HIDE DEF k
<1>4. /\ SubSeq(list, 1, k) \in Seq(Mappings) /\ Len(SubSeq(list, 1, k)) = k
      /\ \A i \in 1..k : SubSeq(list, 1, k)[i] = list[i]
  BY <1>1
<1>5. /\ SubSeq(list, k + 1, N) \in Seq(Mappings) /\ Len(SubSeq(list, k + 1, N)) = N - k
      /\ \A i \in 1..(N - k) : SubSeq(list, k + 1, N)[i] = list[k + i]
  BY <1>1
<1> DEFINE p == SubSeq(list, 1, k)
           q == SubSeq(list, k + 1, N)
<1> HIDE DEF p, q
<1>6. r = p \o <<e>> \o q
  BY DEF p, q
<1>7. /\ r \in Seq(Mappings) /\ Len(r) = N + 1
      /\ \A i \in 1..(N + 1) : r[i] = IF i <= k THEN p[i] ELSE IF i = k + 1 THEN e ELSE q[i - k - 1]
  <2>1. /\ p \in Seq(Mappings) /\ Len(p) = k /\ q \in Seq(Mappings) /\ Len(q) = N - k
    BY <1>4, <1>5 DEF p, q
  <2> HIDE DEF r
  <2> DEFINE u == p \o <<e>>
  <2>2. /\ u \in Seq(Mappings) /\ Len(u) = k + 1
        /\ \A i \in 1..(k + 1) : u[i] = IF i <= k THEN p[i] ELSE e
    <3>1. <<e>> \in Seq(Mappings) /\ Len(<<e>>) = 1 /\ <<e>>[1] = e
      OBVIOUS
    <3>2. /\ u \in Seq(Mappings) /\ Len(u) = k + 1
          /\ \A i \in 1..(k + 1) : u[i] = IF i <= k THEN p[i] ELSE <<e>>[i - k]
      BY <2>1, <3>1, ConcatProperties
    <3> HIDE DEF u
    <3> QED BY <1>1, <3>1, <3>2
  <2>3. r = u \o q
    BY <1>6
  <2> HIDE DEF u
  <2>4. /\ r \in Seq(Mappings) /\ Len(r) = N + 1
        /\ \A i \in 1..(N + 1) : r[i] = IF i <= k + 1 THEN u[i] ELSE q[i - (k + 1)]
    <3>1. /\ u \o q \in Seq(Mappings) /\ Len(u \o q) = Len(u) + Len(q)
          /\ \A i \in 1..(Len(u) + Len(q)) : (u \o q)[i] = IF i <= Len(u) THEN u[i] ELSE q[i - Len(u)]
      BY <2>1, <2>2, ConcatProperties, Zenon
    <3>2. Len(u) = k + 1 /\ Len(u) + Len(q) = N + 1
      BY <1>1, <2>1, <2>2
    <3> QED BY <2>3, <3>1, <3>2, Zenon
  <2> QED BY <1>1, <2>2, <2>4
<1> HIDE DEF r
<1>8. ASSUME NEW i \in 1..(N + 1)
      PROVE  /\ i <= k => i \in 1..N /\ r[i] = list[i] /\ list[i].base < e.base
             /\ i = k + 1 => r[i] = e
             /\ i > k + 1 => i - 1 \in 1..N /\ r[i] = list[i - 1] /\ k + 1 \in 1..N /\ k + 1 <= i - 1
  <2>1. CASE i <= k
    <3>1. i \in 1..k /\ i \in 1..N
      BY <1>1, <2>1
    <3>2. p[i] = list[i]
      BY <1>4, <3>1 DEF p
    <3> QED BY <1>1, <1>7, <2>1, <3>1, <3>2
  <2>2. CASE i = k + 1
    BY <1>1, <1>7, <2>2
  <2>3. CASE i > k + 1
    <3>1. i - k - 1 \in 1..(N - k) /\ k + (i - k - 1) = i - 1 /\ i - 1 \in 1..N /\ k + 1 \in 1..N /\ k + 1 <= i - 1
      BY <1>1, <2>3
    <3>2. q[i - k - 1] = list[i - 1]
      BY <1>5, <3>1 DEF q
    <3> QED BY <1>1, <1>7, <2>3, <3>1, <3>2
  <2> QED BY <1>1, <2>1, <2>2, <2>3
<1>9. ASSUME NEW i \in 1..(N + 1), NEW j \in 1..(N + 1), i <= j
      PROVE  r[i].base <= r[j].base
  <2>1. \A x, y \in 1..N : x <= y => list[x].base <= list[y].base
    BY DEF SortedByBase
  <2>2. \A y \in 1..N : y > k => list[y].base >= e.base
    <3> SUFFICES ASSUME NEW y \in 1..N, y > k PROVE list[y].base >= e.base
      OBVIOUS
    <3>1. k < N /\ k + 1 \in 1..N /\ k + 1 <= y
      BY <1>1
    <3>2. list[k + 1].base <= list[y].base
      BY <2>1, <3>1
    <3> QED BY <1>1, <1>3, <3>1, <3>2
  <2>3. CASE i <= k /\ j <= k
    BY <1>1, <1>8, <1>9, <2>1, <2>3
  <2>4. CASE i <= k /\ j = k + 1
    BY <1>1, <1>3, <1>8, <2>4
  <2>5. CASE i <= k /\ j > k + 1
    <3>1. r[i].base < e.base /\ r[i] = list[i] /\ i \in 1..N
      BY <1>8, <2>5
    <3>2. r[j] = list[j - 1] /\ j - 1 \in 1..N /\ j - 1 > k
      BY <1>1, <1>8, <2>5
    <3>3. list[j - 1].base >= e.base
      BY <2>2, <3>2
    <3> QED BY <1>3, <3>1, <3>2, <3>3
  <2>6. CASE i = k + 1 /\ j = k + 1
    BY <1>3, <1>8, <2>6
  <2>7. CASE i = k + 1 /\ j > k + 1
    BY <1>1, <1>8, <2>2, <2>7, SMTT(30)
  <2>8. CASE i > k + 1 /\ j > k + 1
    BY <1>1, <1>8, <1>9, <2>1, <2>8
  <2> QED BY <1>1, <1>9, <2>3, <2>4, <2>5, <2>6, <2>7, <2>8
<1>10. ASSUME NEW x PROVE Holds(r, x) <=> Holds(list, x) \/ x = e
  <2>1. ASSUME NEW i \in 1..(N + 1), r[i] = x PROVE Holds(list, x) \/ x = e
    <3>1. CASE i <= k
      BY <1>8, <2>1, <3>1 DEF Holds
    <3>2. CASE i = k + 1
      BY <1>8, <2>1, <3>2
    <3>3. CASE i > k + 1
      BY <1>8, <2>1, <3>3 DEF Holds
    <3> QED BY <1>1, <3>1, <3>2, <3>3
  <2>2. ASSUME NEW i \in 1..N, list[i] = x PROVE \E j \in 1..(N + 1) : r[j] = x
    <3>1. CASE i <= k
      <4>1. i \in 1..(N + 1)
        BY <1>1
      <4> QED BY <1>8, <2>2, <3>1, <4>1
    <3>2. CASE i > k
      <4>1. i + 1 \in 1..(N + 1) /\ i + 1 > k + 1 /\ (i + 1) - 1 = i
        BY <1>1, <3>2
      <4>2. r[i + 1] = list[i]
        BY <1>8, <4>1
      <4> QED BY <2>2, <4>1, <4>2
    <3> QED BY <1>1, <3>1, <3>2
  <2>3. k + 1 \in 1..(N + 1) /\ r[k + 1] = e
    BY <1>1, <1>8
  <2> QED BY <1>7, <2>1, <2>2, <2>3 DEF Holds
<1>11. SortedByBase(r)
  BY <1>7, <1>9 DEF SortedByBase
<1> QED BY <1>2, <1>7, <1>10, <1>11

-----------------------------------------------------------------------------
(* The tree.                                                                *)

(* Each level is merged from the one below.                                   *)
LEMMA LevelsDef ==
  ASSUME NEW list
  PROVE  /\ Levels(list)[0] = [i \in 1..Len(list) |-> Leaf(list[i])]
         /\ \A n \in Nat : Levels(list)[n + 1] = MergeLevel(Levels(list)[n])
<1> DEFINE a == [i \in 1..Len(list) |-> Leaf(list[i])]
           Upto(n, h) == h[0] = a /\ \A k \in 0..(n - 1) : h[k + 1] = MergeLevel(h[k])
           T == {n \in Nat : \E h : Upto(n, h)}
<1> HIDE DEF a
<1>1. 0 \in T
  <2> DEFINE h == [k \in 0..0 |-> a]
  <2>1. Upto(0, h)
    OBVIOUS
  <2> QED BY <2>1
<1>2. ASSUME NEW n \in Nat, n \in T PROVE n + 1 \in T
  <2>1. PICK h : Upto(n, h)
    BY <1>2
  <2> DEFINE h2 == [k \in 0..(n + 1) |-> IF k = n + 1 THEN MergeLevel(h[n]) ELSE h[k]]
  <2>2. \A k \in 0..n : h2[k] = h[k]
    OBVIOUS
  <2>3. h2[n + 1] = MergeLevel(h[n])
    OBVIOUS
  <2> HIDE DEF h2
  <2>4. ASSUME NEW k \in 0..((n + 1) - 1) PROVE h2[k + 1] = MergeLevel(h2[k])
    <3>1. CASE k = n
      BY <2>2, <2>3, <3>1
    <3>2. CASE k # n
      <4>1. k \in 0..(n - 1) /\ k \in 0..n /\ k + 1 \in 0..n
        BY <3>2
      <4> QED BY <2>1, <2>2, <4>1
    <3> QED BY <3>1, <3>2
  <2>5. h2[0] = a
    BY <2>1, <2>2
  <2>6. Upto(n + 1, h2)
    BY <2>4, <2>5
  <2> QED BY <2>6
<1>3. \A n \in Nat : n \in T
  <2> HIDE DEF T
  <2> QED BY <1>1, <1>2, SetInduction
<1> DEFINE H == [n \in Nat |-> CHOOSE h : Upto(n, h)]
           f == [n \in Nat |-> H[n][n]]
<1>4. \A n \in Nat : Upto(n, H[n])
  BY <1>3
<1> HIDE DEF H, T
<1>5. ASSUME NEW n \in Nat PROVE H[n + 1][n] = H[n][n]
  <2> DEFINE E == {k \in Nat : k <= n => H[n + 1][k] = H[n][k]}
  <2>1. 0 \in E
    BY <1>4
  <2>2. ASSUME NEW k \in Nat, k \in E PROVE k + 1 \in E
    <3>1. CASE k + 1 <= n
      <4>1. k \in 0..(n - 1) /\ k \in 0..((n + 1) - 1) /\ n + 1 \in Nat
        BY <3>1
      <4>2. H[n][k + 1] = MergeLevel(H[n][k]) /\ H[n + 1][k + 1] = MergeLevel(H[n + 1][k])
        BY <1>4, <4>1
      <4>3. H[n + 1][k] = H[n][k]
        BY <2>2, <4>1
      <4> QED BY <4>2, <4>3
    <3>2. CASE ~(k + 1 <= n)
      BY <3>2
    <3> QED BY <3>1, <3>2
  <2> HIDE DEF E
  <2>3. n \in E
    BY <2>1, <2>2, SetInduction
  <2> QED BY <2>3 DEF E
<1>6. ASSUME NEW n \in Nat PROVE f[n + 1] = MergeLevel(f[n])
  <2>1. n + 1 \in Nat /\ n \in 0..((n + 1) - 1)
    OBVIOUS
  <2>2. H[n + 1][n + 1] = MergeLevel(H[n + 1][n])
    BY <1>4, <2>1
  <2> QED BY <1>5, <2>1, <2>2
<1>7. f[0] = a /\ f = [n \in Nat |-> f[n]]
  BY <1>4
<1> HIDE DEF f, Upto
<1>8. ASSUME NEW n \in Nat PROVE f[n] = IF n = 0 THEN a ELSE MergeLevel(f[n - 1])
  <2>1. CASE n = 0
    BY <1>7, <2>1
  <2>2. CASE n # 0
    <3>1. n - 1 \in Nat /\ (n - 1) + 1 = n
      BY <2>2
    <3>2. f[(n - 1) + 1] = MergeLevel(f[n - 1])
      BY <1>6, <3>1
    <3> QED BY <2>2, <3>1, <3>2
  <2> QED BY <2>1, <2>2
<1> DEFINE Eq(g) == g = [n \in Nat |-> IF n = 0 THEN a ELSE MergeLevel(g[n - 1])]
<1>9. Eq(f)
  BY <1>7, <1>8
<1>10. Levels(list) = CHOOSE g : Eq(g)
  BY DEF Levels, a
<1>11. Eq(Levels(list))
  <2> HIDE DEF Eq
  <2> QED BY <1>9, <1>10
<1> DEFINE L == Levels(list)
<1> HIDE DEF L
<1>12. Eq(L)
  BY <1>11 DEF L
<1>13. \A n \in Nat : L[n] = IF n = 0 THEN a ELSE MergeLevel(L[n - 1])
  BY <1>12, ZenonT(30)
<1>14. L[0] = a
  BY <1>13
<1>15. ASSUME NEW n \in Nat PROVE L[n + 1] = MergeLevel(L[n])
  <2>1. n + 1 \in Nat /\ n + 1 # 0 /\ (n + 1) - 1 = n
    OBVIOUS
  <2>2. L[n + 1] = MergeLevel(L[(n + 1) - 1])
    BY <1>13, <2>1
  <2> QED BY <2>1, <2>2
<1> QED BY <1>14, <1>15 DEF L, a

(* The path goes down one node at a time.                                    *)
LEMMA PathDef ==
  ASSUME NEW top, NEW offset
  PROVE  /\ Path(top, offset)[0] = top
         /\ \A n \in Nat : Path(top, offset)[n + 1] = Below(Path(top, offset)[n], offset)
<1> DEFINE a == top
           Upto(n, h) == h[0] = a /\ \A k \in 0..(n - 1) : h[k + 1] = Below(h[k], offset)
           T == {n \in Nat : \E h : Upto(n, h)}
<1> HIDE DEF a
<1>1. 0 \in T
  <2> DEFINE h == [k \in 0..0 |-> a]
  <2>1. Upto(0, h)
    OBVIOUS
  <2> QED BY <2>1
<1>2. ASSUME NEW n \in Nat, n \in T PROVE n + 1 \in T
  <2>1. PICK h : Upto(n, h)
    BY <1>2
  <2> DEFINE h2 == [k \in 0..(n + 1) |-> IF k = n + 1 THEN Below(h[n], offset) ELSE h[k]]
  <2>2. \A k \in 0..n : h2[k] = h[k]
    OBVIOUS
  <2>3. h2[n + 1] = Below(h[n], offset)
    OBVIOUS
  <2> HIDE DEF h2
  <2>4. ASSUME NEW k \in 0..((n + 1) - 1) PROVE h2[k + 1] = Below(h2[k], offset)
    <3>1. CASE k = n
      BY <2>2, <2>3, <3>1
    <3>2. CASE k # n
      <4>1. k \in 0..(n - 1) /\ k \in 0..n /\ k + 1 \in 0..n
        BY <3>2
      <4> QED BY <2>1, <2>2, <4>1
    <3> QED BY <3>1, <3>2
  <2>5. h2[0] = a
    BY <2>1, <2>2
  <2>6. Upto(n + 1, h2)
    BY <2>4, <2>5
  <2> QED BY <2>6
<1>3. \A n \in Nat : n \in T
  <2> HIDE DEF T
  <2> QED BY <1>1, <1>2, SetInduction
<1> DEFINE H == [n \in Nat |-> CHOOSE h : Upto(n, h)]
           f == [n \in Nat |-> H[n][n]]
<1>4. \A n \in Nat : Upto(n, H[n])
  BY <1>3
<1> HIDE DEF H, T
<1>5. ASSUME NEW n \in Nat PROVE H[n + 1][n] = H[n][n]
  <2> DEFINE E == {k \in Nat : k <= n => H[n + 1][k] = H[n][k]}
  <2>1. 0 \in E
    BY <1>4
  <2>2. ASSUME NEW k \in Nat, k \in E PROVE k + 1 \in E
    <3>1. CASE k + 1 <= n
      <4>1. k \in 0..(n - 1) /\ k \in 0..((n + 1) - 1) /\ n + 1 \in Nat
        BY <3>1
      <4>2. H[n][k + 1] = Below(H[n][k], offset) /\ H[n + 1][k + 1] = Below(H[n + 1][k], offset)
        BY <1>4, <4>1
      <4>3. H[n + 1][k] = H[n][k]
        BY <2>2, <4>1
      <4> QED BY <4>2, <4>3
    <3>2. CASE ~(k + 1 <= n)
      BY <3>2
    <3> QED BY <3>1, <3>2
  <2> HIDE DEF E
  <2>3. n \in E
    BY <2>1, <2>2, SetInduction
  <2> QED BY <2>3 DEF E
<1>6. ASSUME NEW n \in Nat PROVE f[n + 1] = Below(f[n], offset)
  <2>1. n + 1 \in Nat /\ n \in 0..((n + 1) - 1)
    OBVIOUS
  <2>2. H[n + 1][n + 1] = Below(H[n + 1][n], offset)
    BY <1>4, <2>1
  <2> QED BY <1>5, <2>1, <2>2
<1>7. f[0] = a /\ f = [n \in Nat |-> f[n]]
  BY <1>4
<1> HIDE DEF f, Upto
<1>8. ASSUME NEW n \in Nat PROVE f[n] = IF n = 0 THEN a ELSE Below(f[n - 1], offset)
  <2>1. CASE n = 0
    BY <1>7, <2>1
  <2>2. CASE n # 0
    <3>1. n - 1 \in Nat /\ (n - 1) + 1 = n
      BY <2>2
    <3>2. f[(n - 1) + 1] = Below(f[n - 1], offset)
      BY <1>6, <3>1
    <3> QED BY <2>2, <3>1, <3>2
  <2> QED BY <2>1, <2>2
<1> DEFINE Eq(g) == g = [n \in Nat |-> IF n = 0 THEN a ELSE Below(g[n - 1], offset)]
<1>9. Eq(f)
  BY <1>7, <1>8
<1>10. Path(top, offset) = CHOOSE g : Eq(g)
  BY DEF Path, a
<1>11. Eq(Path(top, offset))
  <2> HIDE DEF Eq
  <2> QED BY <1>9, <1>10
<1> DEFINE L == Path(top, offset)
<1> HIDE DEF L
<1>12. Eq(L)
  BY <1>11 DEF L
<1>13. \A n \in Nat : L[n] = IF n = 0 THEN a ELSE Below(L[n - 1], offset)
  BY <1>12, ZenonT(30)
<1>14. L[0] = a
  BY <1>13
<1>15. ASSUME NEW n \in Nat PROVE L[n + 1] = Below(L[n], offset)
  <2>1. n + 1 \in Nat /\ n + 1 # 0 /\ (n + 1) - 1 = n
    OBVIOUS
  <2>2. L[n + 1] = Below(L[(n + 1) - 1], offset)
    BY <1>13, <2>1
  <2> QED BY <2>1, <2>2
<1> QED BY <1>14, <1>15 DEF L, a

(* The path of a node goes on as the path of the node below.                *)
LEMMA PathShift ==
  ASSUME NEW node, NEW o
  PROVE  \A n \in Nat : Path(node, o)[n + 1] = Path(Below(node, o), o)[n]
<1> DEFINE p == Path(node, o)
           q == Path(Below(node, o), o)
           T == {n \in Nat : p[n + 1] = q[n]}
<1>1. p[0] = node /\ (\A n \in Nat : p[n + 1] = Below(p[n], o))
  BY PathDef
<1>2. q[0] = Below(node, o) /\ (\A n \in Nat : q[n + 1] = Below(q[n], o))
  BY PathDef
<1> HIDE DEF p, q
<1>3. 0 \in T
  BY <1>1, <1>2
<1>4. ASSUME NEW n \in Nat, n \in T PROVE n + 1 \in T
  <2>1. n + 1 \in Nat
    OBVIOUS
  <2> QED BY <1>1, <1>2, <1>4, <2>1
<1>5. \A n \in Nat : n \in T
  <2> HIDE DEF T
  <2> QED BY <1>3, <1>4, SetInduction
<1> QED BY <1>5 DEF p, q

LEMMA LeafBelow ==
  ASSUME NEW e, NEW o
  PROVE  Below(Leaf(e), o) = Leaf(e) /\ Leaf(e).lowestBase = e.base /\ Leaf(e).entry = e
BY DEF Below, Leaf

LEMMA NodeBelow ==
  ASSUME NEW l, NEW r, NEW o
  PROVE  /\ Below(Node(l, r), o) = IF o >= r.lowestBase THEN r ELSE l
         /\ Node(l, r).lowestBase = l.lowestBase
<1>1. Node(l, r).kids = <<l, r>> /\ Node(l, r).base = r.lowestBase /\ Node(l, r).lowestBase = l.lowestBase
  BY DEF Node
<1>2. <<l, r>> # <<>> /\ <<l, r>>[1] = l /\ <<l, r>>[2] = r
  OBVIOUS
<1> QED BY <1>1, <1>2 DEF Below

LEMMA MergeShape ==
  ASSUME NEW level, Len(level) \in Nat, Len(level) > 0
  PROVE  LET K == (Len(level) + 1) \div 2
         IN  /\ Len(MergeLevel(level)) = K /\ K \in Nat /\ K > 0
             /\ 2 * K = Len(level) \/ 2 * K = Len(level) + 1
             /\ \A i \in 1..K :
                  /\ 2 * i <= Len(level) => MergeLevel(level)[i] = Node(level[2 * i - 1], level[2 * i])
                  /\ 2 * i > Len(level) => MergeLevel(level)[i] = level[Len(level)]
<1> DEFINE M == Len(level)
           K == (M + 1) \div 2
           F(i) == IF 2 * i <= M THEN Node(level[2 * i - 1], level[2 * i]) ELSE level[M]
<1> HIDE DEF M
<1>1. M \in Nat /\ M > 0
  BY DEF M
<1>2. K \in Nat /\ K > 0 /\ (2 * K = M \/ 2 * K = M + 1)
  BY <1>1
<1>3. MergeLevel(level) = [i \in 1..K |-> F(i)]
  BY DEF MergeLevel, M
<1> HIDE DEF K, F
<1>4. Len(MergeLevel(level)) = K
  BY <1>2, <1>3
<1>5. \A i \in 1..K : MergeLevel(level)[i] = F(i)
  BY <1>3
<1>6. ASSUME NEW i \in 1..K
      PROVE  /\ 2 * i <= M => MergeLevel(level)[i] = Node(level[2 * i - 1], level[2 * i])
             /\ 2 * i > M => MergeLevel(level)[i] = level[M]
  BY <1>1, <1>2, <1>5 DEF F
<1> QED BY <1>2, <1>4, <1>6 DEF M, K

(* j is the last of the mappings lo to hi whose base is not after o, or lo. *)
Nearest(list, j, lo, hi, o) ==
  /\ j \in lo..hi
  /\ \A k \in lo..hi : list[k].base <= o => k <= j
  /\ list[j].base <= o \/ j = lo

(* Node number i of a level n stands for the mappings from c[i] to before   *)
(* c[i + 1]: n steps down from it lead to the nearest of them.              *)
Stands(list, node, lo, hi, n) ==
  /\ lo < hi
  /\ node.lowestBase = list[lo].base
  /\ \A o \in Nat : \E j \in 1..Len(list) : Nearest(list, j, lo, hi - 1, o) /\ Path(node, o)[n] = Leaf(list[j])

LevelOK(list, level, n) ==
  \E c \in [1..(Len(level) + 1) -> 1..(Len(list) + 1)] :
    /\ c[1] = 1 /\ c[Len(level) + 1] = Len(list) + 1
    /\ \A i \in 1..Len(level) : Stands(list, level[i], c[i], c[i + 1], n)

(* A node that moves up.                                                    *)
LEMMA StandsUp ==
  ASSUME NEW list, NEW node, NEW lo, NEW hi, NEW n \in Nat, Stands(list, node, lo, hi, n)
  PROVE  Stands(list, node, lo, hi, n + 1)
<1> SUFFICES ASSUME NEW o \in Nat
             PROVE  \E j \in 1..Len(list) : Nearest(list, j, lo, hi - 1, o) /\ Path(node, o)[n + 1] = Leaf(list[j])
  BY DEF Stands
<1>1. PICK j \in 1..Len(list) : Nearest(list, j, lo, hi - 1, o) /\ Path(node, o)[n] = Leaf(list[j])
  BY DEF Stands
<1>2. Path(node, o)[n + 1] = Below(Path(node, o)[n], o)
  BY PathDef
<1> QED BY <1>1, <1>2, LeafBelow

(* Two nodes that are merged.                                               *)
LEMMA StandsNode ==
  ASSUME NEW list \in Seq(Mappings), SortedByBase(list), NEW l, NEW r, NEW n \in Nat,
         NEW lo \in 1..(Len(list) + 1), NEW mid \in 1..(Len(list) + 1), NEW hi \in 1..(Len(list) + 1),
         Stands(list, l, lo, mid, n), Stands(list, r, mid, hi, n)
  PROVE  Stands(list, Node(l, r), lo, hi, n + 1)
<1>1. /\ Len(list) \in Nat /\ lo < mid /\ mid < hi /\ l.lowestBase = list[lo].base /\ r.lowestBase = list[mid].base
      /\ lo \in Int /\ mid \in Int /\ hi \in Int /\ lo < hi
  <2>1. lo < mid /\ mid < hi /\ l.lowestBase = list[lo].base /\ r.lowestBase = list[mid].base
    BY DEF Stands
  <2>2. Len(list) \in Nat
    OBVIOUS
  <2> QED BY <2>1, <2>2
<1>2. \A k \in 1..Len(list) : list[k].base \in Nat
  <2>1. \A k \in 1..Len(list) : list[k] \in Mappings
    OBVIOUS
  <2> QED BY <2>1, MappingOK
<1>3. ASSUME NEW o \in Nat
      PROVE  \E j \in 1..Len(list) : Nearest(list, j, lo, hi - 1, o) /\ Path(Node(l, r), o)[n + 1] = Leaf(list[j])
  <2>1. Path(Node(l, r), o)[n + 1] = Path(Below(Node(l, r), o), o)[n]
    BY PathShift
  <2>2. CASE o >= list[mid].base
    <3>1. PICK j \in 1..Len(list) : Nearest(list, j, mid, hi - 1, o) /\ Path(r, o)[n] = Leaf(list[j])
      BY DEF Stands
    <3>2. Below(Node(l, r), o) = r
      BY <1>1, <2>2, NodeBelow
    <3>3. mid \in 1..Len(list) /\ list[mid].base <= o
      BY <1>1, <1>2, <2>2
    <3>4. Nearest(list, j, lo, hi - 1, o)
      <4>1. j \in mid..(hi - 1) /\ (list[j].base <= o \/ j = mid)
        BY <3>1 DEF Nearest
      <4>2. j \in lo..(hi - 1) /\ list[j].base <= o
        BY <1>1, <3>3, <4>1
      <4>3. ASSUME NEW k \in lo..(hi - 1), list[k].base <= o PROVE k <= j
        <5>1. CASE k < mid
          BY <1>1, <4>1, <5>1
        <5>2. CASE k >= mid
          <6>1. k \in mid..(hi - 1)
            BY <1>1, <5>2
          <6> QED BY <3>1, <4>3, <6>1 DEF Nearest
        <5> QED BY <1>1, <5>1, <5>2
      <4> QED BY <4>2, <4>3 DEF Nearest
    <3> QED BY <2>1, <3>1, <3>2, <3>4
  <2>3. CASE ~(o >= list[mid].base)
    <3>1. PICK j \in 1..Len(list) : Nearest(list, j, lo, mid - 1, o) /\ Path(l, o)[n] = Leaf(list[j])
      BY DEF Stands
    <3>2. Below(Node(l, r), o) = l
      BY <1>1, <2>3, NodeBelow
    <3>3. mid \in 1..Len(list) /\ o < list[mid].base
      BY <1>1, <1>2, <2>3
    <3>4. Nearest(list, j, lo, hi - 1, o)
      <4>1. j \in lo..(mid - 1) /\ (list[j].base <= o \/ j = lo)
        BY <3>1 DEF Nearest
      <4>2. j \in lo..(hi - 1)
        BY <1>1, <4>1
      <4>3. ASSUME NEW k \in lo..(hi - 1), list[k].base <= o PROVE k <= j
        <5>1. CASE k < mid
          <6>1. k \in lo..(mid - 1)
            BY <1>1, <5>1
          <6> QED BY <3>1, <4>3, <6>1 DEF Nearest
        <5>2. CASE k >= mid
          <6>1. k \in 1..Len(list) /\ mid <= k
            BY <1>1, <5>2
          <6>2. list[mid].base <= list[k].base
            BY <3>3, <6>1 DEF SortedByBase
          <6> QED BY <1>2, <3>3, <4>3, <6>1, <6>2
        <5> QED BY <1>1, <5>1, <5>2
      <4> QED BY <4>1, <4>2, <4>3 DEF Nearest
    <3> QED BY <2>1, <3>1, <3>2, <3>4
  <2> QED BY <2>2, <2>3
<1>4. Node(l, r).lowestBase = list[lo].base
  BY <1>1, NodeBelow
<1> QED BY <1>1, <1>3, <1>4 DEF Stands

(* The first level.                                                         *)
LEMMA LeavesOK ==
  ASSUME NEW list \in Seq(Mappings)
  PROVE  LET level == Levels(list)[0] IN Len(level) = Len(list) /\ LevelOK(list, level, 0)
<1> DEFINE N == Len(list)
           level == Levels(list)[0]
           c == [i \in 1..(N + 1) |-> i]
<1>1. N \in Nat
  OBVIOUS
<1>2. level = [i \in 1..N |-> Leaf(list[i])]
  BY LevelsDef
<1> HIDE DEF level
<1>3. Len(level) = N /\ \A i \in 1..N : level[i] = Leaf(list[i])
  BY <1>1, <1>2
<1>4. ASSUME NEW i \in 1..N PROVE Stands(list, level[i], i, i + 1, 0)
  <2>1. i < i + 1 /\ i \in Int /\ (i + 1) - 1 = i
    OBVIOUS
  <2>2. level[i].lowestBase = list[i].base
    BY <1>3, LeafBelow
  <2>3. ASSUME NEW o \in Nat PROVE Nearest(list, i, i, (i + 1) - 1, o) /\ Path(level[i], o)[0] = Leaf(list[i])
    <3>1. Path(level[i], o)[0] = level[i]
      BY PathDef
    <3>2. Nearest(list, i, i, i, o)
      BY <2>1 DEF Nearest
    <3> QED BY <1>3, <2>1, <3>1, <3>2
  <2> QED BY <2>1, <2>2, <2>3 DEF Stands
<1>5. c \in [1..(N + 1) -> 1..(N + 1)] /\ c[1] = 1 /\ c[N + 1] = N + 1
  BY <1>1
<1>6. ASSUME NEW i \in 1..N PROVE c[i] = i /\ c[i + 1] = i + 1
  BY <1>1
<1> HIDE DEF c
<1>7. \A i \in 1..N : Stands(list, level[i], c[i], c[i + 1], 0)
  BY <1>4, <1>6
<1>8. LevelOK(list, level, 0)
  BY <1>3, <1>5, <1>7 DEF LevelOK
<1> QED BY <1>3, <1>8 DEF level

(* The next one.                                                            *)
LEMMA MergeOK ==
  ASSUME NEW list \in Seq(Mappings), SortedByBase(list), NEW level, NEW n \in Nat,
         Len(level) \in Nat, Len(level) > 0, LevelOK(list, level, n)
  PROVE  LevelOK(list, MergeLevel(level), n + 1)
<1> DEFINE M == Len(level)
           N == Len(list)
           K == (M + 1) \div 2
           up == MergeLevel(level)
<1>1. PICK c \in [1..(M + 1) -> 1..(N + 1)] :
        /\ c[1] = 1 /\ c[M + 1] = N + 1
        /\ \A i \in 1..M : Stands(list, level[i], c[i], c[i + 1], n)
  BY DEF LevelOK
<1>2. /\ Len(up) = K /\ K \in Nat /\ K > 0
      /\ 2 * K = M \/ 2 * K = M + 1
      /\ \A i \in 1..K :
           /\ 2 * i <= M => up[i] = Node(level[2 * i - 1], level[2 * i])
           /\ 2 * i > M => up[i] = level[M]
  BY MergeShape
<1> DEFINE d == [i \in 1..(K + 1) |-> IF i = K + 1 THEN N + 1 ELSE c[2 * i - 1]]
<1>3. N \in Nat /\ M \in Nat /\ M > 0
  OBVIOUS
<1> HIDE DEF K, up, M, N
<1>4. ASSUME NEW i \in 1..K
      PROVE  /\ 2 * i - 1 \in 1..M /\ i \in 1..(K + 1) /\ i # K + 1
             /\ d[i] = c[2 * i - 1] /\ d[i] \in 1..(N + 1)
  <2>1. 2 * i - 1 \in 1..M /\ 2 * i - 1 \in 1..(M + 1) /\ i \in 1..(K + 1) /\ i # K + 1
    BY <1>2, <1>3
  <2>2. c[2 * i - 1] \in 1..(N + 1)
    BY <1>1, <2>1
  <2> QED BY <2>1, <2>2
<1>5. d[K + 1] = N + 1 /\ N + 1 \in 1..(N + 1) /\ K + 1 \in 1..(K + 1)
  BY <1>2, <1>3
<1>6. d \in [1..(K + 1) -> 1..(N + 1)]
  <2>1. ASSUME NEW i \in 1..(K + 1) PROVE d[i] \in 1..(N + 1)
    <3>1. CASE i = K + 1
      BY <1>5, <3>1
    <3>2. CASE i # K + 1
      <4>1. i \in 1..K
        BY <1>2, <3>2
      <4> QED BY <1>4, <4>1
    <3> QED BY <3>1, <3>2
  <2>2. d = [i \in 1..(K + 1) |-> d[i]]
    OBVIOUS
  <2> HIDE DEF d
  <2> QED BY <2>1, <2>2
<1>7. d[1] = 1
  <2>1. 1 \in 1..K /\ 2 * 1 - 1 = 1
    BY <1>2
  <2> QED BY <1>1, <1>4, <2>1
<1>8. ASSUME NEW i \in 1..K PROVE Stands(list, up[i], d[i], d[i + 1], n + 1)
  <2>1. CASE 2 * i <= M
    <3>1. 2 * i \in 1..M /\ 2 * i + 1 \in 1..(M + 1) /\ (2 * i - 1) + 1 = 2 * i /\ 2 * i \in 1..(M + 1) /\ 2 * i - 1 \in 1..(M + 1)
      BY <1>2, <1>3, <2>1
    <3>2. d[i + 1] = c[2 * i + 1]
      <4>1. CASE i = K
        <5>1. 2 * i + 1 = M + 1
          BY <1>2, <1>3, <2>1, <4>1
        <5> QED BY <1>1, <1>5, <4>1, <5>1
      <4>2. CASE i # K
        <5>1. i + 1 \in 1..K /\ 2 * (i + 1) - 1 = 2 * i + 1
          BY <1>2, <4>2
        <5> QED BY <1>4, <5>1
      <4> QED BY <4>1, <4>2
    <3>3. Stands(list, level[2 * i - 1], c[2 * i - 1], c[2 * i], n)
      BY <1>1, <1>4, <3>1
    <3>4. Stands(list, level[2 * i], c[2 * i], c[2 * i + 1], n)
      BY <1>1, <3>1
    <3>5. c[2 * i - 1] \in 1..(N + 1) /\ c[2 * i] \in 1..(N + 1) /\ c[2 * i + 1] \in 1..(N + 1)
      BY <1>1, <3>1
    <3>6. Stands(list, Node(level[2 * i - 1], level[2 * i]), c[2 * i - 1], c[2 * i + 1], n + 1)
      BY <3>3, <3>4, <3>5, StandsNode DEF N
    <3> QED BY <1>2, <1>4, <2>1, <3>2, <3>6
  <2>2. CASE ~(2 * i <= M)
    <3>1. i = K /\ 2 * i - 1 = M /\ 2 * i > M /\ M \in 1..M
      BY <1>2, <1>3, <2>2
    <3>2. up[i] = level[M] /\ d[i] = c[M] /\ d[i + 1] = c[M + 1]
      BY <1>1, <1>2, <1>4, <1>5, <3>1
    <3>3. Stands(list, level[M], c[M], c[M + 1], n)
      BY <1>1, <3>1
    <3>4. Stands(list, level[M], c[M], c[M + 1], n + 1)
      BY <3>3, StandsUp
    <3> QED BY <3>2, <3>4
  <2> QED BY <2>1, <2>2
<1> HIDE DEF d
<1> QED BY <1>2, <1>5, <1>6, <1>7, <1>8 DEF LevelOK, up, N

(* Every level.                                                             *)
LEMMA LevelsOK ==
  ASSUME NEW list \in Seq(Mappings), SortedByBase(list), list # <<>>
  PROVE  \A n \in Nat : LET level == Levels(list)[n]
                        IN  /\ Len(level) \in Nat /\ Len(level) > 0
                            /\ Len(level) = 1 \/ Len(level) + n <= Len(list)
                            /\ LevelOK(list, level, n)
<1> DEFINE Good(level, n) == /\ Len(level) \in Nat /\ Len(level) > 0
                             /\ Len(level) = 1 \/ Len(level) + n <= Len(list)
                             /\ LevelOK(list, level, n)
           T == {n \in Nat : Good(Levels(list)[n], n)}
<1>1. Len(list) \in Nat /\ Len(list) > 0
  OBVIOUS
<1>2. 0 \in T
  <2>1. Len(Levels(list)[0]) = Len(list) /\ LevelOK(list, Levels(list)[0], 0)
    BY LeavesOK
  <2> QED BY <1>1, <2>1
<1>3. ASSUME NEW n \in Nat, n \in T PROVE n + 1 \in T
  <2> DEFINE level == Levels(list)[n]
             up == Levels(list)[n + 1]
             M == Len(level)
             K == (M + 1) \div 2
  <2>1. up = MergeLevel(level)
    BY LevelsDef
  <2>2. Good(level, n)
    BY <1>3
  <2> HIDE DEF level, up
  <2>3. /\ Len(up) = K /\ K \in Nat /\ K > 0
        /\ 2 * K = M \/ 2 * K = M + 1
    BY <2>1, <2>2, MergeShape
  <2>4. LevelOK(list, up, n + 1)
    BY <2>1, <2>2, MergeOK
  <2>5. K = 1 \/ K + (n + 1) <= Len(list)
    <3>1. M \in Nat /\ M > 0 /\ (M = 1 \/ M + n <= Len(list))
      BY <2>2
    <3> HIDE DEF K, M
    <3> QED BY <1>1, <2>3, <3>1
  <2> HIDE DEF K
  <2>6. Good(up, n + 1)
    BY <2>3, <2>4, <2>5
  <2>7. n + 1 \in Nat
    OBVIOUS
  <2> HIDE DEF Good
  <2> QED BY <2>6, <2>7 DEF up
<1>4. \A n \in Nat : n \in T
  <2> HIDE DEF T
  <2> QED BY <1>2, <1>3, SetInduction
<1> QED BY <1>4

(* The walk ends in the nearest of all mappings.                            *)
LEMMA WalkOK ==
  ASSUME NEW list \in Seq(Mappings), SortedByBase(list), list # <<>>, NEW o \in Nat
  PROVE  \E j \in 1..Len(list) : Nearest(list, j, 1, Len(list), o) /\ Walk(list, o) = list[j]
<1> DEFINE N == Len(list)
           level == Levels(list)[N]
<1>1. N \in Nat /\ N > 0
  OBVIOUS
<1>2. Len(level) \in Nat /\ Len(level) > 0 /\ (Len(level) = 1 \/ Len(level) + N <= N) /\ LevelOK(list, level, N)
  BY <1>1, LevelsOK
<1>3. Len(level) = 1
  BY <1>1, <1>2
<1>4. init_entries(list) = level[1]
  BY DEF init_entries
<1> HIDE DEF level
<1>5. PICK c \in [1..(1 + 1) -> 1..(N + 1)] :
        c[1] = 1 /\ c[1 + 1] = N + 1 /\ \A i \in 1..1 : Stands(list, level[i], c[i], c[i + 1], N)
  BY <1>2, <1>3 DEF LevelOK
<1>6. Stands(list, level[1], 1, N + 1, N)
  BY <1>5
<1>7. PICK j \in 1..N : Nearest(list, j, 1, (N + 1) - 1, o) /\ Path(level[1], o)[N] = Leaf(list[j])
  BY <1>6 DEF Stands
<1>8. (N + 1) - 1 = N
  BY <1>1
<1>9. Walk(list, o) = list[j]
  BY <1>4, <1>7, LeafBelow DEF Walk
<1> QED BY <1>7, <1>8, <1>9

(* The list holds the listed mappings of the table in the order of their bases. *)
LEMMA ListOK ==
  ASSUME NEW t \in Seq(Mappings)
  PROVE  LET list == firstMapEntry(t)
         IN  /\ list \in Seq(Mappings) /\ SortedByBase(list)
             /\ \A x : Holds(list, x) <=> \E i \in 1..Len(t) : Listed(t[i]) /\ t[i] = x
<1> DEFINE N == Len(t)
           S == {l \in Seq(Mappings) : SortedByBase(l)}
           Step(l, n) == IF Listed(t[n]) THEN insert(l, t[n]) ELSE l
           g == [n \in Nat |-> [l \in S |-> IF n + 1 \in 1..N THEN Step(l, n + 1) ELSE l]]
           Eq(f) == f = [n \in 0..N |-> IF n = 0 THEN <<>> ELSE Step(f[n - 1], n)]
<1>1. N \in Nat /\ \A i \in 1..N : t[i] \in Mappings
  OBVIOUS
<1>2. ASSUME NEW l \in S, NEW n \in 1..N
      PROVE  /\ Step(l, n) \in S
             /\ \A x : Holds(Step(l, n), x) <=> Holds(l, x) \/ (Listed(t[n]) /\ t[n] = x)
  <2>1. l \in Seq(Mappings) /\ SortedByBase(l) /\ t[n] \in Mappings
    BY <1>1
  <2>2. CASE Listed(t[n])
    BY <2>1, <2>2, InsertOK
  <2>3. CASE ~Listed(t[n])
    BY <2>3
  <2> QED BY <2>2, <2>3
<1>3. <<>> \in S
  BY DEF SortedByBase
<1> HIDE DEF S, Step
<1>4. g \in [Nat -> [S -> S]]
  BY <1>2
<1>5. PICK f \in [Nat -> S] : f[0] = <<>> /\ \A n \in Nat : f[n + 1] = g[n][f[n]]
  <2> HIDE DEF g
  <2>1. Iterable(S, <<>>, g)
    BY <1>3, <1>4, Iteration
  <2> QED BY <2>1 DEF Iterable
<1> DEFINE h == [n \in 0..N |-> f[n]]
<1>6. ASSUME NEW n \in 0..N PROVE h[n] = IF n = 0 THEN <<>> ELSE Step(h[n - 1], n)
  <2>1. CASE n = 0
    BY <1>1, <1>5, <2>1
  <2>2. CASE n # 0
    <3>1. n - 1 \in Nat /\ (n - 1) + 1 = n /\ n \in 1..N /\ n - 1 \in 0..N /\ f[n - 1] \in S
      BY <1>1, <1>5, <2>2
    <3>2. f[n] = g[n - 1][f[n - 1]]
      BY <1>5, <3>1
    <3>3. g[n - 1][f[n - 1]] = Step(f[n - 1], n)
      BY <3>1
    <3>4. h[n] = f[n] /\ h[n - 1] = f[n - 1]
      BY <3>1
    <3> QED BY <2>2, <3>1, <3>2, <3>3, <3>4
  <2> QED BY <2>1, <2>2
<1>7. h = [n \in 0..N |-> h[n]]
  OBVIOUS
<1> HIDE DEF h, g
<1>8. Eq(h)
  BY <1>6, <1>7
<1> DEFINE L == CHOOSE e : Eq(e)
<1>9. firstMapEntry(t) = L[N]
  BY DEF firstMapEntry, Step
<1>10. Eq(L)
  <2> HIDE DEF Eq
  <2> QED BY <1>8
<1> HIDE DEF L
<1>11. \A n \in 0..N : L[n] = IF n = 0 THEN <<>> ELSE Step(L[n - 1], n)
  BY <1>10, ZenonT(30)
<1> HIDE DEF Eq
<1> DEFINE Good(l, n) == l \in S /\ \A x : Holds(l, x) <=> \E i \in 1..n : Listed(t[i]) /\ t[i] = x
           T == {n \in Nat : n <= N => Good(L[n], n)}
<1>12. 0 \in T
  <2>1. L[0] = <<>>
    BY <1>1, <1>11
  <2>2. \A x : ~Holds(<<>>, x)
    BY DEF Holds
  <2> QED BY <1>3, <2>1, <2>2
<1>13. ASSUME NEW n \in Nat, n \in T PROVE n + 1 \in T
  <2> SUFFICES ASSUME n + 1 <= N PROVE Good(L[n + 1], n + 1)
    OBVIOUS
  <2>1. n + 1 \in 1..N /\ n + 1 \in 0..N /\ n + 1 # 0 /\ (n + 1) - 1 = n /\ n <= N
    BY <1>1
  <2>2. L[n + 1] = Step(L[n], n + 1) /\ Good(L[n], n)
    BY <1>11, <1>13, <2>1
  <2>3. /\ L[n + 1] \in S
        /\ \A x : Holds(L[n + 1], x) <=> Holds(L[n], x) \/ (Listed(t[n + 1]) /\ t[n + 1] = x)
    BY <1>2, <2>1, <2>2
  <2>4. ASSUME NEW x PROVE Holds(L[n + 1], x) <=> \E i \in 1..(n + 1) : Listed(t[i]) /\ t[i] = x
    <3>1. \A i \in 1..(n + 1) : i \in 1..n \/ i = n + 1
      OBVIOUS
    <3>2. \A i \in 1..n : i \in 1..(n + 1)
      OBVIOUS
    <3>3. n + 1 \in 1..(n + 1)
      OBVIOUS
    <3> QED BY <2>2, <2>3, <3>1, <3>2, <3>3, Zenon
  <2> QED BY <2>3, <2>4
<1>14. Good(L[N], N)
  <2>1. N \in T
    <3> HIDE DEF T
    <3> QED BY <1>1, <1>12, <1>13, SetInduction
  <2> QED BY <1>1, <2>1
<1> QED BY <1>9, <1>14 DEF S

-----------------------------------------------------------------------------
(* The mapping an access is sent to.                                        *)

(* A set of numbers up to N has a greatest one.                             *)
LEMMA Greatest ==
  ASSUME NEW N \in Nat, NEW I \in SUBSET (1..N), I # {}
  PROVE  \E x \in I : \A y \in I : y <= x
<1> DEFINE T == {n \in Nat : \E x \in I : n = N - x}
<1>1. PICK x \in I : TRUE
  OBVIOUS
<1>2. T \in SUBSET Nat /\ N - x \in T
  BY <1>1
<1>3. PICK n \in T : \A y \in T : n <= y
  <2> HIDE DEF T
  <2> QED BY <1>2, Least
<1>4. PICK z \in I : n = N - z
  BY <1>3
<1>5. ASSUME NEW y \in I PROVE y <= z
  <2>1. N - y \in T /\ y \in Int /\ z \in Int
    OBVIOUS
  <2>2. n <= N - y
    BY <1>3, <2>1
  <2> QED BY <1>4, <2>1, <2>2
<1> QED BY <1>5

LEMMA LastOfOK ==
  ASSUME NEW t \in Seq(Mappings), NEW I \in SUBSET (1..Len(t))
  PROVE  \/ I = {} /\ LastOf(t, I) = NoEntry
         \/ \E i \in I : LastOf(t, I) = t[i]
<1>1. CASE I = {}
  BY <1>1 DEF LastOf
<1>2. CASE I # {}
  <2>1. Len(t) \in Nat
    OBVIOUS
  <2>2. \E x \in I : \A y \in I : y <= x
    BY <1>2, <2>1, Greatest
  <2>3. (CHOOSE i \in I : \A j \in I : j <= i) \in I
    BY <2>2
  <2> QED BY <1>2, <2>3 DEF LastOf
<1> QED BY <1>1, <1>2

LEMMA NoEntryOK ==
  NoEntry \in Mappings /\ NoEntry.base = 0 /\ NoEntry.size = 0 /\ NoEntry.target = "none"
BY DEF NoEntry, Mappings, Targets

(* The entries of a table that are not in the list.                         *)
LEMMA SpecialEntries ==
  ASSUME NEW t, WellFormed(t)
  PROVE  /\ errorMapEntry(t) \in Mappings /\ defaultMapEntry(t) \in Mappings
         /\ defaultMapEntry(t).size = 0
         /\ defaultMapEntry(t) # NoEntry => defaultMapEntry(t).target # "none"
<1>1. t \in Seq(Mappings) /\ (\A i \in 1..Len(t) : t[i] \in Mappings)
  BY DEF WellFormed
<1>2. errorMapEntry(t) \in Mappings
  <2> DEFINE I == {i \in 1..Len(t) : t[i].size # 0 /\ t[i].target = "none"}
  <2>1. I \in SUBSET (1..Len(t)) /\ errorMapEntry(t) = LastOf(t, I)
    BY DEF errorMapEntry
  <2> HIDE DEF I
  <2> QED BY <1>1, <2>1, LastOfOK, NoEntryOK
<1>3. /\ defaultMapEntry(t) \in Mappings /\ defaultMapEntry(t).size = 0
      /\ defaultMapEntry(t) # NoEntry => defaultMapEntry(t).target # "none"
  <2> DEFINE I == {i \in 1..Len(t) : t[i].size = 0}
  <2>1. I \in SUBSET (1..Len(t)) /\ defaultMapEntry(t) = LastOf(t, I)
    BY DEF defaultMapEntry
  <2>2. \A i \in I : i \in 1..Len(t) /\ t[i].size = 0
    OBVIOUS
  <2> HIDE DEF I
  <2>3. CASE defaultMapEntry(t) = NoEntry
    BY <2>3, NoEntryOK
  <2>4. CASE defaultMapEntry(t) # NoEntry
    <3>1. PICK i \in I : defaultMapEntry(t) = t[i]
      BY <1>1, <2>1, <2>4, LastOfOK
    <3> QED BY <1>1, <2>2, <3>1 DEF WellFormed
  <2> QED BY <2>3, <2>4
<1> QED BY <1>2, <1>3

(* The mapping of an address that is inside one: nobody else has it.        *)
LEMMA OwnerInside ==
  ASSUME NEW t, WellFormed(t), NEW a \in Nat, NEW i \in 1..Len(t), Listed(t[i]), Inside(t[i], a)
  PROVE  Owner(t, a) = t[i]
<1> DEFINE mine == {k \in 1..Len(t) : Listed(t[k]) /\ Inside(t[k], a)}
           k == CHOOSE x \in mine : TRUE
<1>1. i \in mine
  OBVIOUS
<1>2. k \in mine
  BY <1>1
<1>3. Owner(t, a) = t[k]
  BY <1>1 DEF Owner
<1> HIDE DEF k
<1>4. k \in 1..Len(t) /\ Listed(t[k]) /\ Inside(t[k], a)
  BY <1>2
<1>5. k = i
  <2> SUFFICES ASSUME k # i PROVE FALSE
    OBVIOUS
  <2>1. t[k] \in Mappings /\ t[i] \in Mappings
    BY <1>4 DEF WellFormed
  <2>2. t[k].base \in Nat /\ t[k].size \in Nat /\ t[i].base \in Nat /\ t[i].size \in Nat
    BY <2>1, MappingOK
  <2>3. t[k].base + t[k].size <= t[i].base \/ t[i].base + t[i].size <= t[k].base
    BY <1>4 DEF WellFormed
  <2>4. t[k].base <= a /\ a < t[k].base + t[k].size /\ t[i].base <= a /\ a < t[i].base + t[i].size
    BY <1>4 DEF Inside
  <2> QED BY <2>2, <2>3, <2>4, SMTT(30)
<1> QED BY <1>3, <1>5

(* The mapping of an address that is inside none.                           *)
LEMMA OwnerOutside ==
  ASSUME NEW t, NEW a, ~\E i \in 1..Len(t) : Listed(t[i]) /\ Inside(t[i], a)
  PROVE  Owner(t, a) = IF Inside(errorMapEntry(t), a) THEN NoEntry ELSE defaultMapEntry(t)
<1> DEFINE mine == {i \in 1..Len(t) : Listed(t[i]) /\ Inside(t[i], a)}
<1>1. mine = {}
  OBVIOUS
<1> QED BY <1>1 DEF Owner

(* The tree finds the mapping an address is inside, and only that.          *)
LEMMA FoundOK ==
  ASSUME NEW t, WellFormed(t), NEW a \in Nat
  PROVE  LET list == firstMapEntry(t)
         IN  IF \E i \in 1..Len(t) : Listed(t[i]) /\ Inside(t[i], a)
             THEN list # <<>> /\ Inside(Walk(list, a), a) /\ Walk(list, a) = Owner(t, a)
             ELSE ~(list # <<>> /\ Inside(Walk(list, a), a))
<1> DEFINE list == firstMapEntry(t)
           N == Len(list)
<1>1. t \in Seq(Mappings)
  BY DEF WellFormed
<1>2. /\ list \in Seq(Mappings) /\ SortedByBase(list)
      /\ \A x : Holds(list, x) <=> \E i \in 1..Len(t) : Listed(t[i]) /\ t[i] = x
  BY <1>1, ListOK
<1> HIDE DEF list
<1>3. N \in Nat /\ \A k \in 1..N : list[k] \in Mappings /\ list[k].base \in Nat /\ list[k].size \in Nat
  <2>1. N \in Nat /\ \A k \in 1..N : list[k] \in Mappings
    BY <1>2
  <2> QED BY <2>1, MappingOK
<1>4. ASSUME NEW j \in 1..N
      PROVE  \E i \in 1..Len(t) : Listed(t[i]) /\ t[i] = list[j]
  BY <1>2 DEF Holds
<1>5. ASSUME NEW i \in 1..Len(t), Listed(t[i]), Inside(t[i], a)
      PROVE  list # <<>> /\ Inside(Walk(list, a), a) /\ Walk(list, a) = Owner(t, a)
  <2>1. PICK k \in 1..N : list[k] = t[i]
    BY <1>2, <1>5 DEF Holds
  <2>2. list # <<>>
    BY <1>2, <1>3
  <2>3. PICK j \in 1..N : Nearest(list, j, 1, N, a) /\ Walk(list, a) = list[j]
    BY <1>2, <2>2, WalkOK
  <2>4. list[k].base <= a /\ a < list[k].base + list[k].size
    BY <1>5, <2>1 DEF Inside
  <2>5. k <= j
    BY <2>3, <2>4 DEF Nearest
  <2>6. list[k].base <= list[j].base
    BY <1>2, <2>5 DEF SortedByBase
  <2>7. list[j].base <= a
    BY <2>3, <2>4, <2>5 DEF Nearest
  <2>8. PICK x \in 1..Len(t) : Listed(t[x]) /\ t[x] = list[j]
    BY <1>4
  <2>9. list[j].size # 0
    BY <2>8 DEF Listed
  <2>10. list[j] = t[i]
    <3>1. Inside(list[k], list[j].base) /\ Inside(list[j], list[j].base) /\ list[j].base \in Nat
      BY <1>3, <2>4, <2>6, <2>7, <2>9, SMTT(30) DEF Inside
    <3>2. Owner(t, list[j].base) = t[i]
      BY <1>5, <2>1, <3>1, OwnerInside
    <3>3. Owner(t, list[j].base) = t[x]
      BY <2>8, <3>1, OwnerInside
    <3> QED BY <2>8, <3>2, <3>3
  <2>11. Owner(t, a) = t[i]
    BY <1>5, OwnerInside
  <2> QED BY <1>5, <2>2, <2>3, <2>10, <2>11
<1>6. ASSUME list # <<>>, Inside(Walk(list, a), a)
      PROVE  \E i \in 1..Len(t) : Listed(t[i]) /\ Inside(t[i], a)
  <2>1. PICK j \in 1..N : Walk(list, a) = list[j]
    BY <1>2, <1>6, WalkOK
  <2> QED BY <1>4, <1>6, <2>1
<1> QED BY <1>5, <1>6 DEF list

(* The router looks an address up to find the mapping it belongs to, for any *)
(* table whose mappings do not overlap, in whatever order they were inserted. *)
THEOREM LookupIsOwner ==
  ASSUME NEW t, WellFormed(t), NEW a \in Nat
  PROVE  Lookup(t, a, 1) = Owner(t, a)
<1> DEFINE error == errorMapEntry(t)
           list == firstMapEntry(t)
           found == list # <<>> /\ Inside(Walk(list, a), a)
<1>1. error.base \in Nat /\ error.size \in Nat
  BY SpecialEntries, MappingOK
<1>2. Lookup(t, a, 1) =
        IF found THEN Walk(list, a)
        ELSE IF Inside(error, a) /\ a + 1 <= error.base + error.size THEN NoEntry ELSE defaultMapEntry(t)
  BY DEF Lookup
<1>3. Inside(error, a) /\ a + 1 <= error.base + error.size <=> Inside(error, a)
  BY <1>1 DEF Inside
<1>4. CASE \E i \in 1..Len(t) : Listed(t[i]) /\ Inside(t[i], a)
  <2>1. found /\ Walk(list, a) = Owner(t, a)
    BY <1>4, FoundOK
  <2> HIDE DEF found, list, error
  <2> QED BY <1>2, <2>1
<1>5. CASE ~\E i \in 1..Len(t) : Listed(t[i]) /\ Inside(t[i], a)
  <2>1. ~found
    BY <1>5, FoundOK
  <2>2. Owner(t, a) = IF Inside(error, a) THEN NoEntry ELSE defaultMapEntry(t)
    BY <1>5, OwnerOutside
  <2> HIDE DEF found, list, error
  <2> QED BY <1>2, <1>3, <2>1, <2>2
<1> QED BY <1>4, <1>5

-----------------------------------------------------------------------------
(* The parts of a request.                                                  *)

LEMMA StartsDef ==
  ASSUME NEW size \in Nat, NEW length, \A n \in 0..(size - 1) : length[n] \in 1..(size - n)
  PROVE  LET start == Starts(size, length)
         IN  /\ start[0] = 0
             /\ \A k \in Nat : /\ start[k] \in 0..size
                               /\ start[k + 1] = IF start[k] = size THEN size ELSE start[k] + length[start[k]]
<1> DEFINE next == [n \in 0..size |-> IF n = size THEN size ELSE n + length[n]]
           S == 0..size
           g == [k \in Nat |-> next]
           Eq(f) == f = [k \in Nat |-> IF k = 0 THEN 0 ELSE next[f[k - 1]]]
<1>1. next \in [S -> S]
  <2>1. ASSUME NEW n \in S PROVE (IF n = size THEN size ELSE n + length[n]) \in S
    <3>1. CASE n = size
      BY <3>1
    <3>2. CASE n # size
      <4>1. n \in 0..(size - 1)
        BY <3>2
      <4>2. length[n] \in 1..(size - n)
        BY <4>1
      <4> QED BY <3>2, <4>1, <4>2
    <3> QED BY <3>1, <3>2
  <2> QED BY <2>1
<1>2. \A n \in S : next[n] = IF n = size THEN size ELSE n + length[n]
  OBVIOUS
<1> HIDE DEF next
<1>3. 0 \in S /\ g \in [Nat -> [S -> S]]
  BY <1>1
<1>4. PICK f \in [Nat -> S] : f[0] = 0 /\ \A k \in Nat : f[k + 1] = g[k][f[k]]
  <2> HIDE DEF g, S
  <2>1. Iterable(S, 0, g)
    BY <1>3, Iteration
  <2> QED BY <2>1 DEF Iterable
<1>5. \A k \in Nat : f[k + 1] = next[f[k]]
  BY <1>4
<1> HIDE DEF g
<1>6. ASSUME NEW k \in Nat PROVE f[k] = IF k = 0 THEN 0 ELSE next[f[k - 1]]
  <2>1. CASE k = 0
    BY <1>4, <2>1
  <2>2. CASE k # 0
    <3>1. k - 1 \in Nat /\ (k - 1) + 1 = k
      BY <2>2
    <3>2. f[(k - 1) + 1] = next[f[k - 1]]
      BY <1>5, <3>1
    <3> QED BY <2>2, <3>1, <3>2
  <2> QED BY <2>1, <2>2
<1>7. Eq(f)
  <2>1. f = [k \in Nat |-> f[k]]
    BY <1>4
  <2> QED BY <1>6, <2>1
<1> DEFINE L == CHOOSE e : Eq(e)
<1>8. Starts(size, length) = L
  BY DEF Starts, next
<1>9. Eq(L)
  <2> HIDE DEF Eq
  <2> QED BY <1>7
<1> HIDE DEF L
<1>10. \A k \in Nat : L[k] = IF k = 0 THEN 0 ELSE next[L[k - 1]]
  BY <1>9, ZenonT(30)
<1> HIDE DEF Eq
<1>11. L[0] = 0
  BY <1>10
<1>12. ASSUME NEW k \in Nat PROVE L[k + 1] = next[L[k]]
  <2>1. k + 1 \in Nat /\ k + 1 # 0 /\ (k + 1) - 1 = k
    OBVIOUS
  <2>2. L[k + 1] = next[L[(k + 1) - 1]]
    BY <1>10, <2>1
  <2> QED BY <2>1, <2>2
<1> DEFINE T == {k \in Nat : L[k] \in S}
<1>13. 0 \in T
  BY <1>3, <1>11
<1>14. ASSUME NEW k \in Nat, k \in T PROVE k + 1 \in T
  <2>1. L[k] \in S
    BY <1>14
  <2> HIDE DEF S
  <2>2. L[k + 1] \in S
    BY <1>1, <1>12, <2>1
  <2> QED BY <2>2
<1>15. \A k \in Nat : k \in T
  <2> HIDE DEF T
  <2> QED BY <1>13, <1>14, SetInduction
<1>16. ASSUME NEW k \in Nat
       PROVE  L[k] \in S /\ L[k + 1] = IF L[k] = size THEN size ELSE L[k] + length[L[k]]
  <2>1. L[k] \in S
    BY <1>15
  <2> HIDE DEF S
  <2> QED BY <1>2, <1>12, <2>1
<1> QED BY <1>8, <1>11, <1>16

(* A sequence of parts of a request of size bytes, one after the other.     *)
Tiles(cut, size) ==
  /\ Len(cut) \in Nat /\ Len(cut) > 0
  /\ \A i \in 1..Len(cut) : cut[i].at \in Nat /\ cut[i].size \in Nat \ {0} /\ cut[i].at + cut[i].size <= size
  /\ cut[1].at = 0
  /\ \A i \in 1..Len(cut) : cut[i].at + cut[i].size = IF i = Len(cut) THEN size ELSE cut[i + 1].at

LEMMA SplitOK ==
  ASSUME NEW size \in Nat, size # 0, NEW length, \A n \in 0..(size - 1) : length[n] \in 1..(size - n)
  PROVE  LET cut == Split(size, length)
         IN  /\ Tiles(cut, size) /\ cut \in Seq([at : Nat, size : Nat])
             /\ \A i \in 1..Len(cut) : cut[i].at \in 0..(size - 1) /\ cut[i].size = length[cut[i].at]
<1> DEFINE start == Starts(size, length)
           Ends(k) == start[k] = size /\ \A j \in 0..(k - 1) : start[j] # size
           count == CHOOSE k \in 0..size : Ends(k)
           cut == [i \in 1..count |-> [at |-> start[i - 1], size |-> length[start[i - 1]]]]
<1>1. /\ start[0] = 0
      /\ \A k \in Nat : /\ start[k] \in 0..size
                        /\ start[k + 1] = IF start[k] = size THEN size ELSE start[k] + length[start[k]]
  BY StartsDef
<1>2. Split(size, length) = cut
  BY DEF Split
<1> HIDE DEF start
<1>3. \E k \in 0..size : Ends(k)
  <2> DEFINE T == {k \in Nat : start[k] = size \/ start[k] >= k}
             E == {k \in Nat : start[k] = size}
  <2>1. 0 \in T
    BY <1>1
  <2>2. ASSUME NEW k \in Nat, k \in T PROVE k + 1 \in T
    <3>1. CASE start[k] = size
      BY <1>1, <3>1
    <3>2. CASE start[k] # size
      <4>1. start[k] \in 0..(size - 1) /\ start[k] >= k
        BY <1>1, <2>2, <3>2
      <4>2. length[start[k]] \in 1..(size - start[k])
        BY <4>1
      <4>3. start[k + 1] = start[k] + length[start[k]]
        BY <1>1, <3>2
      <4>4. start[k + 1] >= k + 1
        BY <4>1, <4>2, <4>3
      <4> QED BY <4>4
    <3> QED BY <3>1, <3>2
  <2>3. size \in T
    <3> HIDE DEF T
    <3> QED BY <2>1, <2>2, SetInduction
  <2>4. size \in E /\ E \in SUBSET Nat
    BY <1>1, <2>3
  <2> HIDE DEF T
  <2>5. PICK k \in E : \A y \in E : k <= y
    <3> HIDE DEF E
    <3> QED BY <2>4, Least
  <2>6. k \in Nat /\ k <= size /\ start[k] = size
    BY <2>4, <2>5
  <2>7. ASSUME NEW j \in 0..(k - 1) PROVE start[j] # size
    <3>1. j \in Nat /\ ~(k <= j)
      BY <2>6
    <3> QED BY <2>5, <3>1
  <2> QED BY <2>6, <2>7
<1>4. count \in 0..size /\ Ends(count)
  BY <1>3
<1> HIDE DEF count
<1>5. count \in Nat /\ count > 0
  BY <1>1, <1>4
<1>6. Len(cut) = count /\ \A i \in 1..count : cut[i] = [at |-> start[i - 1], size |-> length[start[i - 1]]]
  BY <1>5
<1>7. ASSUME NEW i \in 1..count
      PROVE  /\ i - 1 \in Nat /\ i \in Nat /\ cut[i].at = start[i - 1] /\ cut[i].size = length[start[i - 1]]
             /\ start[i - 1] \in 0..(size - 1) /\ length[start[i - 1]] \in 1..(size - start[i - 1])
             /\ start[i] = start[i - 1] + length[start[i - 1]]
  <2>1. i - 1 \in Nat /\ i \in Nat /\ i - 1 \in 0..(count - 1) /\ (i - 1) + 1 = i
    BY <1>5
  <2>2. cut[i].at = start[i - 1] /\ cut[i].size = length[start[i - 1]]
    BY <1>6
  <2>3. start[i - 1] # size /\ start[i - 1] \in 0..size
    BY <1>1, <1>4, <2>1
  <2>4. start[i - 1] \in 0..(size - 1)
    BY <2>3
  <2>5. start[(i - 1) + 1] = start[i - 1] + length[start[i - 1]]
    BY <1>1, <2>1, <2>3
  <2> QED BY <2>1, <2>2, <2>4, <2>5
<1> HIDE DEF cut
<1>8. ASSUME NEW i \in 1..count
      PROVE  /\ cut[i].at \in Nat /\ cut[i].size \in Nat \ {0} /\ cut[i].at + cut[i].size <= size
             /\ cut[i].at \in 0..(size - 1) /\ cut[i].size = length[cut[i].at]
             /\ cut[i].at + cut[i].size = start[i]
  BY <1>7
<1>9. ASSUME NEW i \in 1..count
      PROVE  cut[i].at + cut[i].size = IF i = count THEN size ELSE cut[i + 1].at
  <2>1. CASE i = count
    BY <1>4, <1>8, <2>1
  <2>2. CASE i # count
    <3>1. i + 1 \in 1..count /\ (i + 1) - 1 = i
      BY <1>5, <2>2
    <3>2. cut[i + 1].at = start[i]
      BY <1>7, <3>1
    <3> QED BY <1>8, <2>2, <3>2
  <2> QED BY <2>1, <2>2
<1>10. cut[1].at = 0
  <2>1. 1 \in 1..count /\ 1 - 1 = 0
    BY <1>5
  <2> QED BY <1>1, <1>7, <2>1
<1>11. Tiles(cut, size)
  BY <1>5, <1>6, <1>8, <1>9, <1>10 DEF Tiles
<1>12. cut \in Seq([at : Nat, size : Nat])
  <2> DEFINE part(i) == [at |-> start[i - 1], size |-> length[start[i - 1]]]
  <2>1. ASSUME NEW i \in 1..count PROVE part(i) \in [at : Nat, size : Nat]
    BY <1>7
  <2>2. cut = [i \in 1..count |-> part(i)]
    BY DEF cut
  <2> HIDE DEF part
  <2> QED BY <1>5, <2>1, <2>2
<1> QED BY <1>2, <1>6, <1>8, <1>11, <1>12

(* What the proofs use of the assumptions about tables and accesses.        *)
LEMMA AccessAssumption ==
  ASSUME NEW t \in Tables, NEW a \in Accesses
  PROVE  /\ WellFormed(t) /\ a.addr \in Nat /\ a.size \in Nat /\ a.size # 0
         /\ \A n, k \in 0..(a.size - 1) :
              (Owner(t, a.addr + n).size = 0 /\ n <= k) \/ Owner(t, a.addr + n).target = "converter"
              => Owner(t, a.addr + k) = Owner(t, a.addr + n)
<1>1. WellFormed(t)
  BY InterconnectAssumption, Zenon
<1>2. a.addr \in Nat /\ a.size \in Nat \ {0}
  BY InterconnectAssumption, Zenon
<1>3. \A n, k \in 0..(a.size - 1) :
        (Owner(t, a.addr + n).size = 0 /\ n <= k) \/ Owner(t, a.addr + n).target = "converter"
        => Owner(t, a.addr + k) = Owner(t, a.addr + n)
  BY InterconnectAssumption, Zenon
<1> QED BY <1>1, <1>2, <1>3

(* The mapping an address belongs to: one it is inside, or an empty one.    *)
LEMMA OwnerKind ==
  ASSUME NEW t, WellFormed(t), NEW a \in Nat
  PROVE  /\ Owner(t, a) \in Mappings
         /\ Owner(t, a).size # 0 => Inside(Owner(t, a), a) /\ \E i \in 1..Len(t) : Listed(t[i]) /\ Inside(t[i], a)
         /\ Owner(t, a).size = 0 => ~\E i \in 1..Len(t) : Listed(t[i]) /\ Inside(t[i], a)
         /\ Owner(t, a) # NoEntry => Owner(t, a).target \in {"memory", "interleaver", "converter"}
<1>1. CASE \E i \in 1..Len(t) : Listed(t[i]) /\ Inside(t[i], a)
  <2>1. PICK i \in 1..Len(t) : Listed(t[i]) /\ Inside(t[i], a)
    BY <1>1
  <2>2. Owner(t, a) = t[i]
    BY <2>1, OwnerInside
  <2>3. t[i] \in Mappings
    BY DEF WellFormed
  <2>4. t[i].size # 0 /\ t[i].target # "none" /\ t[i].target \in Targets
    BY <2>1, <2>3 DEF Listed, Mappings
  <2> QED BY <2>1, <2>2, <2>3, <2>4 DEF Targets
<1>2. CASE ~\E i \in 1..Len(t) : Listed(t[i]) /\ Inside(t[i], a)
  <2>1. Owner(t, a) = NoEntry \/ Owner(t, a) = defaultMapEntry(t)
    BY <1>2, OwnerOutside
  <2>2. defaultMapEntry(t) \in Mappings => defaultMapEntry(t).target \in Targets
    BY DEF Mappings
  <2>3. Owner(t, a) \in Mappings /\ Owner(t, a).size = 0
    BY <2>1, NoEntryOK, SpecialEntries
  <2>4. Owner(t, a) # NoEntry => Owner(t, a).target \in {"memory", "interleaver", "converter"}
    BY <2>1, <2>2, SpecialEntries DEF Targets
  <2> QED BY <1>2, <2>3, <2>4
<1> QED BY <1>1, <1>2

(* Each byte of an access is sent where it belongs, with bytes that belong  *)
(* there too.                                                               *)
LEMMA LookupOK ==
  ASSUME NEW t \in Tables, NEW a \in Accesses, NEW n \in 0..(a.size - 1)
  PROVE  LET e == Lookup(t, a.addr + n, a.size - n)
             s == iter_size(e, a.addr + n, a.size - n)
         IN  /\ e = Owner(t, a.addr + n) /\ e \in Mappings
             /\ s \in 1..(a.size - n)
             /\ \A k \in n..(n + s - 1) : Owner(t, a.addr + k) = e
             /\ s = a.size - n \/ (s < a.size - n /\ Owner(t, a.addr + (n + s)) # e)
<1> DEFINE o == a.addr + n
           z == a.size - n
           own == Owner(t, o)
           error == errorMapEntry(t)
           list == firstMapEntry(t)
           found == list # <<>> /\ Inside(Walk(list, o), o)
           e == Lookup(t, o, z)
           s == iter_size(e, o, z)
<1>1. WellFormed(t) /\ a.addr \in Nat /\ a.size \in Nat /\ a.size # 0
  BY AccessAssumption
<1>2. /\ o \in Nat /\ z \in Nat /\ z > 0 /\ n \in Nat
  BY <1>1
<1>3. error.base \in Nat /\ error.size \in Nat
  BY <1>1, SpecialEntries, MappingOK
<1>4. e = IF found THEN Walk(list, o)
          ELSE IF Inside(error, o) /\ o + z <= error.base + error.size THEN NoEntry ELSE defaultMapEntry(t)
  BY DEF Lookup
<1>5. \A k \in n..(a.size - 1) : own.size = 0 => Owner(t, a.addr + k) = own
  <2>1. \A k \in n..(a.size - 1) : k \in 0..(a.size - 1) /\ n <= k
    BY <1>1, <1>2
  <2> QED BY <2>1, AccessAssumption
<1>6. own \in Mappings /\ own.base \in Nat /\ own.size \in Nat
  BY <1>1, <1>2, OwnerKind, MappingOK
<1>7. e = own
  <2>1. CASE own.size # 0
    <3>1. \E i \in 1..Len(t) : Listed(t[i]) /\ Inside(t[i], o)
      BY <1>1, <1>2, <2>1, OwnerKind
    <3>2. found /\ Walk(list, o) = own
      BY <1>1, <1>2, <3>1, FoundOK
    <3> HIDE DEF found, list, own, o, z
    <3> QED BY <1>4, <3>2
  <2>2. CASE own.size = 0
    <3>1. ~\E i \in 1..Len(t) : Listed(t[i]) /\ Inside(t[i], o)
      BY <1>1, <1>2, <2>2, OwnerKind
    <3>2. ~found
      BY <1>1, <1>2, <3>1, FoundOK
    <3>3. own = IF Inside(error, o) THEN NoEntry ELSE defaultMapEntry(t)
      BY <3>1, OwnerOutside
    <3>4. CASE own = NoEntry /\ defaultMapEntry(t) # NoEntry
      <4>1. Inside(error, o)
        BY <3>3, <3>4
      <4> DEFINE x == a.addr + (a.size - 1)
      <4>2. x \in Nat /\ x + 1 = o + z /\ a.size - 1 \in n..(a.size - 1)
        BY <1>1, <1>2
      <4>3. Owner(t, x) = own
        BY <1>5, <2>2, <4>2
      <4>4. ~\E i \in 1..Len(t) : Listed(t[i]) /\ Inside(t[i], x)
        BY <1>1, <2>2, <4>2, <4>3, OwnerKind
      <4>5. Owner(t, x) = IF Inside(error, x) THEN NoEntry ELSE defaultMapEntry(t)
        BY <4>4, OwnerOutside
      <4>6. Inside(error, x)
        BY <3>4, <4>3, <4>5
      <4>7. o + z <= error.base + error.size
        <5> HIDE DEF x, o, z, error
        <5> QED BY <1>2, <1>3, <4>2, <4>6 DEF Inside
      <4> HIDE DEF found, own, o, z, error
      <4> QED BY <1>4, <3>2, <3>4, <4>1, <4>7
    <3>5. CASE own # NoEntry
      <4>1. ~Inside(error, o)
        BY <3>3, <3>5
      <4> HIDE DEF found, own, o, z, error
      <4> QED BY <1>4, <3>2, <3>3, <4>1
    <3>6. CASE own = NoEntry /\ defaultMapEntry(t) = NoEntry
      <4> HIDE DEF found, own, o, z, error
      <4> QED BY <1>4, <3>2, <3>6
    <3> QED BY <3>4, <3>5, <3>6
  <2> QED BY <2>1, <2>2
<1> HIDE DEF e, found, list, error
<1>8. s = IF own.size = 0 \/ own.base + own.size - o > z THEN z ELSE own.base + own.size - o
  BY <1>7 DEF iter_size
<1>9. CASE own.size = 0
  <2>1. s = z
    BY <1>8, <1>9
  <2>2. \A k \in n..(n + z - 1) : k \in n..(a.size - 1)
    BY <1>1, <1>2
  <2>3. \A k \in n..(n + z - 1) : Owner(t, a.addr + k) = own
    BY <1>5, <1>9, <2>2
  <2> HIDE DEF own, s
  <2>4. z \in 1..(a.size - n)
    BY <1>2
  <2> HIDE DEF z
  <2> QED BY <1>6, <1>7, <2>1, <2>3, <2>4 DEF e, s, z, o
<1>10. CASE own.size # 0
  <2>1. PICK i \in 1..Len(t) : Listed(t[i]) /\ Inside(t[i], o)
    BY <1>1, <1>2, <1>10, OwnerKind
  <2>2. own = t[i]
    BY <1>1, <1>2, <2>1, OwnerInside
  <2> HIDE DEF own
  <2>3. own.base <= o /\ o < own.base + own.size
    BY <2>1, <2>2 DEF Inside
  <2>4. s \in 1..z /\ o + s <= own.base + own.size /\ (s = z \/ (s < z /\ o + s = own.base + own.size))
    <3> HIDE DEF o, z, s
    <3> QED BY <1>2, <1>6, <1>8, <1>10, <2>3, SMTT(30)
  <2>5. ASSUME NEW k \in n..(n + s - 1) PROVE Owner(t, a.addr + k) = own
    <3>1. a.addr + k \in Nat /\ own.base <= a.addr + k /\ a.addr + k < own.base + own.size
      <4> HIDE DEF s
      <4>1. s \in Nat /\ k \in Int /\ n <= k /\ k < n + s
        BY <1>2, <2>4
      <4>2. a.addr + k \in Nat /\ o <= a.addr + k /\ a.addr + k < o + s
        <5> DEFINE A == a.addr
        <5>1. A \in Nat /\ o = A + n
          BY <1>1
        <5> HIDE DEF A, o
        <5>2. A + k \in Nat /\ o <= A + k /\ A + k < o + s
          BY <1>2, <4>1, <5>1
        <5> QED BY <5>2 DEF A
      <4> HIDE DEF o
      <4> QED BY <1>2, <1>6, <2>3, <2>4, <4>1, <4>2
    <3>2. Inside(t[i], a.addr + k)
      BY <2>2, <3>1 DEF Inside
    <3> QED BY <1>1, <2>1, <2>2, <3>1, <3>2, OwnerInside
  <2>6. ASSUME s < z PROVE Owner(t, a.addr + (n + s)) # own
    <3> DEFINE x == a.addr + (n + s)
    <3>1. x \in Nat /\ x = own.base + own.size
      <4> HIDE DEF s
      <4> QED BY <1>1, <1>2, <1>6, <2>4, <2>6, SMTT(30)
    <3>2. ~Inside(own, x)
      <4> HIDE DEF x
      <4> QED BY <1>6, <3>1 DEF Inside
    <3>3. Owner(t, x).size # 0 => Inside(Owner(t, x), x)
      BY <1>1, <3>1, OwnerKind
    <3> HIDE DEF x
    <3>4. Owner(t, x) # own
      BY <1>10, <3>2, <3>3
    <3> QED BY <3>4 DEF x
  <2> HIDE DEF s
  <2> QED BY <1>6, <1>7, <2>4, <2>5, <2>6 DEF e, s, z, o
<1> QED BY <1>9, <1>10

(* The parts p of access a in the router.                                   *)
PartsOK(t, a, p) ==
  /\ Tiles(p, a.size)
  /\ \A i \in 1..Len(p) :
       /\ p[i].entry \in Mappings
       /\ \A k \in p[i].at..(p[i].at + p[i].size - 1) : Owner(t, a.addr + k) = p[i].entry
       /\ p[i].entry.target = "converter" => Len(p) = 1
  /\ Len(p) > 1 => \E k \in 1..(a.size - 1) : Owner(t, a.addr) # Owner(t, a.addr + k)

LEMMA PartsOfOK ==
  ASSUME NEW t \in Tables, NEW a \in Accesses
  PROVE  PartsOK(t, a, PartsOf(t, a))
<1> DEFINE entry == [n \in 0..(a.size - 1) |-> Lookup(t, a.addr + n, a.size - n)]
           length == [n \in 0..(a.size - 1) |-> iter_size(entry[n], a.addr + n, a.size - n)]
           cut == Split(a.size, length)
           p == [i \in 1..Len(cut) |-> [at |-> cut[i].at, size |-> cut[i].size, entry |-> entry[cut[i].at]]]
<1>1. a.addr \in Nat /\ a.size \in Nat /\ a.size # 0
  BY AccessAssumption
<1>2. PartsOf(t, a) = p
  BY DEF PartsOf
<1>3. ASSUME NEW n \in 0..(a.size - 1)
      PROVE  /\ entry[n] = Owner(t, a.addr + n) /\ entry[n] \in Mappings
             /\ length[n] \in 1..(a.size - n)
             /\ \A k \in n..(n + length[n] - 1) : Owner(t, a.addr + k) = entry[n]
             /\ length[n] = a.size - n \/ (length[n] < a.size - n /\ Owner(t, a.addr + (n + length[n])) # entry[n])
  <2>1. entry[n] = Lookup(t, a.addr + n, a.size - n) /\ length[n] = iter_size(entry[n], a.addr + n, a.size - n)
    OBVIOUS
  <2> HIDE DEF entry, length
  <2> QED BY <2>1, LookupOK
<1> HIDE DEF entry, length
<1>4. /\ Tiles(cut, a.size)
      /\ \A i \in 1..Len(cut) : cut[i].at \in 0..(a.size - 1) /\ cut[i].size = length[cut[i].at]
  <2>1. \A n \in 0..(a.size - 1) : length[n] \in 1..(a.size - n)
    BY <1>3
  <2>2. ASSUME NEW z \in Nat, z # 0, \A n \in 0..(z - 1) : length[n] \in 1..(z - n)
        PROVE  /\ Tiles(Split(z, length), z)
               /\ \A i \in 1..Len(Split(z, length)) :
                    Split(z, length)[i].at \in 0..(z - 1) /\ Split(z, length)[i].size = length[Split(z, length)[i].at]
    BY <2>2, SplitOK
  <2> QED BY <1>1, <2>1, <2>2
<1> HIDE DEF cut
<1>5. Len(cut) \in Nat /\ Len(cut) > 0
  BY <1>4 DEF Tiles
<1>6. Len(p) = Len(cut) /\ \A i \in 1..Len(cut) :
        p[i].at = cut[i].at /\ p[i].size = cut[i].size /\ p[i].entry = entry[cut[i].at]
  BY <1>5
<1> HIDE DEF p
<1>7. Tiles(p, a.size)
  <2>1. p[1].at = 0
    <3>1. 1 \in 1..Len(cut)
      BY <1>5
    <3> QED BY <1>4, <1>6, <3>1 DEF Tiles
  <2>2. ASSUME NEW i \in 1..Len(cut)
        PROVE  /\ p[i].at \in Nat /\ p[i].size \in Nat \ {0} /\ p[i].at + p[i].size <= a.size
               /\ p[i].at + p[i].size = IF i = Len(cut) THEN a.size ELSE p[i + 1].at
    <3>1. i # Len(cut) => i + 1 \in 1..Len(cut)
      BY <1>5
    <3>2. i # Len(cut) => p[i + 1].at = cut[i + 1].at
      BY <1>6, <3>1
    <3> QED BY <1>4, <1>6, <3>2 DEF Tiles
  <2> QED BY <1>5, <1>6, <2>1, <2>2 DEF Tiles
<1>8. ASSUME NEW i \in 1..Len(p)
      PROVE  /\ p[i].entry \in Mappings
             /\ \A k \in p[i].at..(p[i].at + p[i].size - 1) : Owner(t, a.addr + k) = p[i].entry
  <2>1. i \in 1..Len(cut) /\ cut[i].at \in 0..(a.size - 1)
    BY <1>4, <1>6
  <2>2. p[i].at = cut[i].at /\ p[i].size = length[cut[i].at] /\ p[i].entry = entry[cut[i].at]
    BY <1>4, <1>6, <2>1
  <2> QED BY <1>3, <2>1, <2>2
<1>9. /\ 1 \in 1..Len(p) /\ p[1].at = 0 /\ p[1].entry = entry[0] /\ p[1].size = length[0] /\ 0 \in 0..(a.size - 1)
  <2>1. 1 \in 1..Len(cut) /\ 0 \in 0..(a.size - 1)
    BY <1>1, <1>5
  <2>2. p[1].at = 0
    BY <1>7 DEF Tiles
  <2> QED BY <1>4, <1>6, <2>1, <2>2
<1>10. Len(p) # 1 => p[1].size < a.size
  <2>1. Len(p) # 1 => 2 \in 1..Len(p)
    BY <1>5, <1>6
  <2>2. Len(p) # 1 => p[1].at + p[1].size = p[1 + 1].at
    BY <1>7, <1>9 DEF Tiles
  <2>3. Len(p) # 1 => p[2].at \in Nat /\ p[2].size \in Nat \ {0} /\ p[2].at + p[2].size <= a.size
    BY <1>7, <2>1 DEF Tiles
  <2>4. p[1].size \in Nat
    BY <1>7, <1>9 DEF Tiles
  <2> QED BY <1>1, <1>9, <2>2, <2>3, <2>4
<1>11. Len(p) # 1 => \E k \in 1..(a.size - 1) : Owner(t, a.addr) # Owner(t, a.addr + k)
  <2> SUFFICES ASSUME Len(p) # 1 PROVE \E k \in 1..(a.size - 1) : Owner(t, a.addr) # Owner(t, a.addr + k)
    OBVIOUS
  <2> DEFINE k == length[0]
  <2>1. k \in 1..(a.size - 1)
    BY <1>1, <1>3, <1>9, <1>10
  <2>2. 0 + k = k /\ a.size - 0 = a.size /\ a.addr + 0 = a.addr
    BY <1>1, <2>1
  <2>3. Owner(t, a.addr + k) # entry[0] /\ Owner(t, a.addr) = entry[0]
    BY <1>1, <1>3, <1>9, <2>1, <2>2, SMTT(30)
  <2> QED BY <2>1, <2>3
<1>12. ASSUME NEW i \in 1..Len(p), p[i].entry.target = "converter" PROVE Len(p) = 1
  <2> SUFFICES ASSUME Len(p) # 1 PROVE FALSE
    OBVIOUS
  <2>1. PICK k \in 1..(a.size - 1) : Owner(t, a.addr) # Owner(t, a.addr + k)
    BY <1>11
  <2>2. p[i].at \in 0..(a.size - 1) /\ Owner(t, a.addr + p[i].at) = p[i].entry
    BY <1>3, <1>4, <1>6
  <2>3. k \in 0..(a.size - 1) /\ 0 \in 0..(a.size - 1) /\ a.addr + 0 = a.addr
    BY <1>1
  <2>4. \A n, m \in 0..(a.size - 1) :
          Owner(t, a.addr + n).target = "converter" => Owner(t, a.addr + m) = Owner(t, a.addr + n)
    BY AccessAssumption, Zenon
  <2>5. Owner(t, a.addr + k) = p[i].entry /\ Owner(t, a.addr + 0) = p[i].entry
    BY <1>12, <2>2, <2>3, <2>4, Zenon
  <2> QED BY <2>1, <2>3, <2>5
<1> QED BY <1>2, <1>7, <1>8, <1>11, <1>12 DEF PartsOK

-----------------------------------------------------------------------------
(* The inductive invariant.                                                 *)

Ports == Masters \cup {"router", None}
Reqs == [addr : Int, size : Nat, data : Nat, args : Seq(Ports), resp_port : Ports]
Chunks == [addr : Int, data : Nat, size : Nat]
Converters ==
  [pending_req : Seq(Chunks), ongoing_req : Masters \cup {None}, ongoing_size : Int,
   stalled_req : Seq(Masters), event : BOOLEAN]
Statuses == {"done", "ok", "invalid", "denied", "granted", "pending"}

(* The bytes lo + 1 to hi of access a were copied where they belong, once.  *)
Filled(t, a, lo, hi) ==
  [k \in 1..a.size |-> IF lo < k /\ k <= hi THEN <<Place(t, a.addr + k - 1)>> ELSE <<>>]

(* Request r of master m for access a as the router sent it to the converter. *)
Forwarded(t, a, r, m) ==
  /\ a \in Accesses /\ r.size = a.size /\ r.data = 0 /\ r.args = <<m>>
  /\ \A k \in 1..a.size : Place(t, a.addr + k - 1) = <<"slave", r.addr + (k - 1)>>

(* The number of bytes in a stack of chunks, of request r.                  *)
Left(q) == IF q = <<>> THEN 0 ELSE q[1].data + q[1].size

Stack(q, r) ==
  /\ \A i \in 1..Len(q) :
       /\ q[i].size # 0 /\ q[i].addr = r.addr + q[i].data
       /\ q[i].data = IF i = Len(q) THEN 0 ELSE q[i + 1].data + q[i + 1].size
  /\ Left(q) <= r.size

Types ==
  /\ table \in Tables /\ parts = [a \in Accesses |-> PartsOf(table, a)]
  /\ req \in [Masters -> Reqs] /\ status \in [Masters -> Statuses] /\ failed \in [Masters -> BOOLEAN]
  /\ asked = [m \in Masters |-> asked[m]] /\ moved = [m \in Masters |-> moved[m]]
  /\ converter \in Converters /\ held \in SUBSET Masters /\ refused \in SUBSET held

(* A master that was answered got what it asked for.                        *)
Answered(m) ==
  /\ InFull(m) \/ (failed[m] /\ SpansMappings(asked[m]))
  /\ status[m] = "done" \/ ~failed[m] => req[m].args = <<>>
  /\ status[m] = "ok" => req[m].addr = asked[m].addr /\ req[m].size = asked[m].size /\ req[m].data = 0

(* A master that waits has a request in the converter.                      *)
MasterOK(m) ==
  /\ status[m] \in {"ok", "done"} => Answered(m)
  /\ status[m] \in Waiting => Forwarded(table, asked[m], req[m], m)
  /\ status[m] = "denied" => ~failed[m] /\ moved[m] = Filled(table, asked[m], 0, 0)

MasterInv == \A m \in Masters : MasterOK(m)

HeldInv ==
  \A m \in held : /\ status[m] \in {"pending", "granted"} /\ ~failed[m] /\ moved[m] = Filled(table, asked[m], 0, 0)
                  /\ converter.ongoing_req # m

StallInv ==
  /\ \A i, j \in 1..Len(converter.stalled_req) : converter.stalled_req[i] = converter.stalled_req[j] => i = j
  /\ \A i \in 1..Len(converter.stalled_req) : status[converter.stalled_req[i]] = "denied"

(* The chunks that are left are the first bytes of the request; what the    *)
(* others copied is in place, unless one of them failed.                    *)
OngoingInv ==
  LET m == converter.ongoing_req  q == converter.pending_req
  IN  /\ converter.event => q # <<>>
      /\ m = None => q = <<>>
      /\ m # None => /\ status[m] \in {"granted", "pending"} /\ Stack(q, req[m])
                     /\ failed[m] => converter.ongoing_size > Left(q)
                     /\ ~failed[m] => /\ converter.ongoing_size = Left(q)
                                      /\ moved[m] = Filled(table, asked[m], Left(q), asked[m].size)

Inv == Types /\ MasterInv /\ HeldInv /\ StallInv /\ OngoingInv

-----------------------------------------------------------------------------
(* The lines of the interleaver.                                            *)

LEMMA Euclid ==
  ASSUME NEW a \in Int, NEW b \in Nat, b # 0
  PROVE  /\ a \div b \in Int /\ a % b \in Int /\ 0 <= a % b /\ a % b < b
         /\ a = b * (a \div b) + (a % b)
OBVIOUS

LEMMA MulMono ==
  ASSUME NEW b \in Nat, NEW x \in Int, NEW y \in Int, x < y
  PROVE  b * x + b <= b * y
<1>1. b * (y - x) = b * y - b * x /\ b * x \in Int /\ b * y \in Int
  OBVIOUS
<1>2. \A d \in Int : d >= 1 => b * d >= b
  OBVIOUS
<1>3. y - x \in Int /\ y - x >= 1
  OBVIOUS
<1> QED BY <1>1, <1>2, <1>3

LEMMA DivUnique ==
  ASSUME NEW a \in Int, NEW b \in Nat, b # 0, NEW q \in Int, NEW r \in Int,
         a = b * q + r, 0 <= r, r < b
  PROVE  a \div b = q /\ a % b = r
<1> DEFINE d == a \div b
           m == a % b
<1>1. d \in Int /\ m \in Int /\ 0 <= m /\ m < b /\ a = b * d + m
  BY Euclid
<1> HIDE DEF d, m
<1>2. b * d \in Int /\ b * q \in Int
  BY <1>1
<1>3. CASE d < q
  <2>1. b * d + b <= b * q
    BY <1>1, <1>3, MulMono
  <2> QED BY <1>1, <1>2, <2>1
<1>4. CASE q < d
  <2>1. b * q + b <= b * d
    BY <1>1, <1>4, MulMono
  <2> QED BY <1>1, <1>2, <2>1
<1>5. CASE d = q
  BY <1>1, <1>2, <1>5 DEF d, m
<1> QED BY <1>1, <1>3, <1>4, <1>5

LEMMA SameLine ==
  ASSUME NEW o \in Int, NEW P \in Nat, P # 0, NEW x \in Int, o <= x, x < o + (P - (o % P))
  PROVE  x \div P = o \div P /\ x % P = (o % P) + (x - o)
<1> DEFINE q == o \div P
           r == o % P
<1>1. q \in Int /\ r \in Int /\ 0 <= r /\ r < P /\ o = P * q + r
  BY Euclid
<1>2. x < o + (P - r)
  OBVIOUS
<1> HIDE DEF q, r
<1>3. P * q \in Int
  BY <1>1
<1>4. x = P * q + (r + (x - o)) /\ 0 <= r + (x - o) /\ r + (x - o) < P /\ r + (x - o) \in Int
  BY <1>1, <1>2, <1>3
<1>5. x \div P = q /\ x % P = r + (x - o)
  <2> DEFINE y == r + (x - o)
  <2>1. x = P * q + y /\ 0 <= y /\ y < P /\ y \in Int
    BY <1>4
  <2> HIDE DEF y
  <2>2. x \div P = q /\ x % P = y
    BY <1>1, <2>1, DivUnique
  <2> QED BY <2>2 DEF y
<1> QED BY <1>5 DEF q, r

LEMMA LineOfBank ==
  ASSUME NEW o \in Int, NEW P \in Nat, P # 0, NEW S \in Nat, S # 0
  PROVE  ((o \div (P * S)) * (P * S)) \div S = ((o \div P) \div S) * P
<1> DEFINE q == o \div P
           r == o % P
           u == q \div S
           v == q % S
<1>1. q \in Int /\ r \in Int /\ 0 <= r /\ r < P /\ o = P * q + r
  BY Euclid
<1> HIDE DEF q, r
<1>2. u \in Int /\ v \in Int /\ 0 <= v /\ v < S /\ q = S * u + v
  BY <1>1, Euclid
<1> HIDE DEF u, v
<1> DEFINE B == P * S
           rest == P * v + r
<1>3. B \in Nat /\ B # 0
  OBVIOUS
<1>4. P * v \in Int /\ 0 <= P * v /\ P * v + P <= B
  <2>1. P * v + P <= P * S
    BY <1>2, MulMono
  <2>2. P * v \in Int /\ 0 <= P * v
    BY <1>2
  <2> QED BY <2>1, <2>2
<1>5. rest \in Int /\ 0 <= rest /\ rest < B
  <2> HIDE DEF B
  <2> QED BY <1>1, <1>3, <1>4
<1>6. o = B * u + rest
  <2>1. P * q = P * (S * u) + P * v
    BY <1>2
  <2>2. P * (S * u) = B * u
    BY <1>2
  <2>3. P * (S * u) \in Int /\ P * v \in Int
    BY <1>2
  <2> QED BY <1>1, <2>1, <2>2, <2>3
<1>7. o \div B = u
  <2> HIDE DEF B, rest
  <2> QED BY <1>2, <1>3, <1>5, <1>6, DivUnique
<1>8. u * B = S * (u * P) + 0 /\ u * P \in Int /\ u * B \in Int
  BY <1>2
<1>9. (u * B) \div S = u * P
  <2> HIDE DEF B
  <2> DEFINE x == u * B
             y == u * P
  <2>1. x \in Int /\ y \in Int /\ x = S * y + 0 /\ 0 \in Int /\ 0 <= 0 /\ 0 < S
    BY <1>8
  <2> HIDE DEF x, y
  <2>2. x \div S = y
    BY <2>1, DivUnique
  <2> QED BY <2>2 DEF x, y
<1> QED BY <1>7, <1>9 DEF q, u

-----------------------------------------------------------------------------
(* The bytes that are copied.                                               *)

LEMMA CopyFills ==
  ASSUME NEW t, NEW a, NEW lo, NEW hi, NEW lo2, NEW hi2, NEW data \in Nat, NEW size \in Nat,
         NEW target, NEW addr,
         \A k \in 1..a.size : (lo2 < k /\ k <= hi2) <=> ((lo < k /\ k <= hi) \/ (data < k /\ k <= data + size)),
         \A k \in 1..a.size : ~((lo < k /\ k <= hi) /\ (data < k /\ k <= data + size)),
         \A k \in 1..a.size : data < k /\ k <= data + size => Place(t, a.addr + k - 1) = <<target, addr + k - 1 - data>>
  PROVE  Copy(Filled(t, a, lo, hi), target, addr, data, size) = Filled(t, a, lo2, hi2)
<1> DEFINE f == Filled(t, a, lo, hi)
           D == 1..a.size
           In(k) == k - 1 \in data..(data + size - 1)
           Cell(k) == IF In(k) THEN Append(f[k], <<target, addr + k - 1 - data>>) ELSE f[k]
           Want(k) == IF lo2 < k /\ k <= hi2 THEN <<Place(t, a.addr + k - 1)>> ELSE <<>>
<1>1. DOMAIN f = D /\ \A k \in D : f[k] = IF lo < k /\ k <= hi THEN <<Place(t, a.addr + k - 1)>> ELSE <<>>
  BY DEF Filled
<1> HIDE DEF f
<1>2. Copy(f, target, addr, data, size) = [k \in D |-> Cell(k)]
  BY <1>1 DEF Copy
<1>3. ASSUME NEW k \in D PROVE Cell(k) = Want(k)
  <2>1. In(k) <=> data < k /\ k <= data + size
    <3>1. k \in Int
      OBVIOUS
    <3> QED BY <3>1
  <2>2. CASE In(k)
    <3>1. /\ data < k /\ k <= data + size /\ lo2 < k /\ k <= hi2 /\ ~(lo < k /\ k <= hi)
          /\ Place(t, a.addr + k - 1) = <<target, addr + k - 1 - data>>
      BY <2>1, <2>2
    <3>2. f[k] = <<>>
      BY <1>1, <3>1
    <3>3. \A c : Append(<<>>, c) = <<c>>
      OBVIOUS
    <3> HIDE DEF In
    <3> QED BY <2>2, <3>1, <3>2, <3>3
  <2>3. CASE ~In(k)
    <3>1. (lo2 < k /\ k <= hi2) <=> (lo < k /\ k <= hi)
      BY <2>1, <2>3
    <3> HIDE DEF In
    <3> QED BY <1>1, <2>3, <3>1
  <2> QED BY <2>2, <2>3
<1> HIDE DEF Cell, Want, D
<1>4. [k \in D |-> Cell(k)] = [k \in D |-> Want(k)]
  BY <1>3
<1> QED BY <1>2, <1>4 DEF f, D, Want, Filled

(* The next bytes of the access.                                            *)
LEMMA CopyNext ==
  ASSUME NEW t, NEW a, a.size \in Nat, NEW data \in Nat, NEW size \in Nat, NEW target, NEW addr, data + size <= a.size,
         \A k \in 1..a.size : data < k /\ k <= data + size => Place(t, a.addr + k - 1) = <<target, addr + k - 1 - data>>
  PROVE  Copy(Filled(t, a, 0, data), target, addr, data, size) = Filled(t, a, 0, data + size)
<1>1. \A k \in 1..a.size : (0 < k /\ k <= data + size) <=> ((0 < k /\ k <= data) \/ (data < k /\ k <= data + size))
  OBVIOUS
<1>2. \A k \in 1..a.size : ~((0 < k /\ k <= data) /\ (data < k /\ k <= data + size))
  OBVIOUS
<1> QED BY <1>1, <1>2, CopyFills

(* The bytes before.                                                        *)
LEMMA CopyBefore ==
  ASSUME NEW t, NEW a, a.size \in Nat, NEW data \in Nat, NEW size \in Nat, NEW target, NEW addr, data + size <= a.size,
         \A k \in 1..a.size : data < k /\ k <= data + size => Place(t, a.addr + k - 1) = <<target, addr + k - 1 - data>>
  PROVE  Copy(Filled(t, a, data + size, a.size), target, addr, data, size) = Filled(t, a, data, a.size)
<1>1. \A k \in 1..a.size : (data < k /\ k <= a.size) <=> ((data + size < k /\ k <= a.size) \/ (data < k /\ k <= data + size))
  OBVIOUS
<1>2. \A k \in 1..a.size : ~((data + size < k /\ k <= a.size) /\ (data < k /\ k <= data + size))
  OBVIOUS
<1> QED BY <1>1, <1>2, CopyFills

LEMMA FilledNone ==
  ASSUME NEW t, NEW a, a.size \in Nat
  PROVE  /\ Filled(t, a, a.size, a.size) = Filled(t, a, 0, 0)
         /\ Filled(t, a, 0, 0) = [k \in 1..a.size |-> <<>>]
<1> DEFINE F(lo, hi, k) == IF lo < k /\ k <= hi THEN <<Place(t, a.addr + k - 1)>> ELSE <<>>
<1>1. ASSUME NEW k \in 1..a.size PROVE F(a.size, a.size, k) = <<>> /\ F(0, 0, k) = <<>>
  OBVIOUS
<1>2. Filled(t, a, a.size, a.size) = [k \in 1..a.size |-> F(a.size, a.size, k)] /\ Filled(t, a, 0, 0) = [k \in 1..a.size |-> F(0, 0, k)]
  BY DEF Filled
<1> HIDE DEF F
<1> QED BY <1>1, <1>2

LEMMA FilledAll ==
  ASSUME NEW t \in Tables, NEW a \in Accesses
  PROVE  Filled(t, a, 0, a.size) = Places[t][a]
<1> DEFINE F(k) == IF 0 < k /\ k <= a.size THEN <<Place(t, a.addr + k - 1)>> ELSE <<>>
<1>1. a.size \in Nat
  BY AccessAssumption
<1>2. ASSUME NEW k \in 1..a.size PROVE F(k) = <<Place(t, a.addr + k - 1)>>
  BY <1>1
<1>3. Filled(t, a, 0, a.size) = [k \in 1..a.size |-> F(k)]
  BY DEF Filled
<1>4. Places[t][a] = [k \in 1..a.size |-> <<Place(t, a.addr + k - 1)>>]
  BY DEF Places
<1> HIDE DEF F
<1> QED BY <1>2, <1>3, <1>4

(* Where a byte belongs.                                                    *)
LEMMA PlaceOf ==
  ASSUME NEW t, NEW x, NEW e, Owner(t, x) = e
  PROVE  /\ e.target = "memory" => Place(t, x) = <<"memory", Translate(e, x)>>
         /\ e.target = "converter" => Place(t, x) = <<"slave", Translate(e, x)>>
         /\ e.target = "interleaver" =>
              LET o == Translate(e, x)  line == o \div port_size
              IN  Place(t, x) = <<<<"bank", line % 2^stage_bits>>, (line \div 2^stage_bits) * port_size + (o % port_size)>>
<1> HIDE DEF port_size
<1>1. ASSUME e.target = "memory" PROVE Place(t, x) = <<"memory", Translate(e, x)>>
  BY <1>1 DEF Place
<1>2. ASSUME e.target = "converter" PROVE Place(t, x) = <<"slave", Translate(e, x)>>
  BY <1>2 DEF Place
<1>3. ASSUME e.target = "interleaver"
      PROVE  LET o == Translate(e, x)  line == o \div port_size
             IN  Place(t, x) = <<<<"bank", line % 2^stage_bits>>, (line \div 2^stage_bits) * port_size + (o % port_size)>>
  BY <1>3 DEF Place
<1> QED BY <1>1, <1>2, <1>3

LEMMA TranslateOK ==
  ASSUME NEW e \in Mappings, NEW x \in Int, NEW d \in Int
  PROVE  Translate(e, x) \in Int /\ Translate(e, x + d) = Translate(e, x) + d
<1>1. e.add_offset \in Nat /\ e.remove_offset \in Nat
  BY MappingOK
<1> QED BY <1>1 DEF Translate

(* A packet of the interleaver stays in a line of a bank.                   *)
LEMMA BankPlace ==
  ASSUME NEW t, NEW x, NEW e, Owner(t, x) = e, e.target = "interleaver", Translate(e, x) \in Int,
         NEW o \in Int, NEW size \in Nat, size # 0,
         o <= Translate(e, x), Translate(e, x) < o + loop_size(o, size)
  PROVE  Place(t, x) = <<<<"bank", Bank(o)>>, BankOffset(o) + (Translate(e, x) - o)>>
<1> DEFINE P == port_size
           S == 2^stage_bits
           y == Translate(e, x)
           line == y \div P
<1>1. P \in Nat /\ P # 0 /\ S \in Nat /\ S # 0
  <2>1. 2^interleaving_bits \in Nat \ {0} /\ 2^stage_bits \in Nat \ {0}
    BY InterconnectAssumption, Zenon
  <2> QED BY <2>1 DEF port_size
<1>2. Place(t, x) = <<<<"bank", line % S>>, (line \div S) * P + (y % P)>>
  BY PlaceOf
<1>3. Bank(o) = (o \div P) % S /\ BankOffset(o) = ((o \div (P * S)) * (P * S)) \div S + (o % P)
  BY DEF Bank, BankOffset
<1>4. loop_size(o, size) = IF P - (o % P) > size THEN size ELSE P - (o % P)
  BY DEF loop_size
<1>5. y \in Int /\ o <= y /\ y < o + loop_size(o, size)
  OBVIOUS
<1> HIDE DEF P, S, y
<1>6. o % P \in Int /\ o \div P \in Int /\ y % P \in Int
  BY <1>1, <1>5, Euclid
<1>7. y < o + (P - (o % P))
  BY <1>1, <1>4, <1>5, <1>6
<1>8. line = o \div P /\ y % P = (o % P) + (y - o)
  BY <1>1, <1>5, <1>7, SameLine
<1>9. ((o \div (P * S)) * (P * S)) \div S = (line \div S) * P
  BY <1>1, <1>8, LineOfBank
<1> DEFINE z == (line \div S) * P
<1>10. z \in Int
  <2>1. (o \div P) \div S \in Int
    BY <1>1, <1>6, Euclid
  <2> QED BY <1>1, <1>8, <2>1
<1> HIDE DEF z, line
<1>11. z + (y % P) = BankOffset(o) + (y - o)
  <2>1. BankOffset(o) = z + (o % P)
    BY <1>3, <1>9 DEF z
  <2> QED BY <1>5, <1>6, <1>8, <1>10, <2>1
<1>12. Place(t, x) = <<<<"bank", Bank(o)>>, z + (y % P)>>
  BY <1>2, <1>3, <1>8 DEF z
<1> QED BY <1>11, <1>12 DEF y

LEMMA LoopSizeOK ==
  ASSUME NEW o \in Int, NEW size \in Nat, size # 0
  PROVE  loop_size(o, size) \in 1..size
<1>1. port_size \in Nat /\ port_size # 0
  <2>1. 2^interleaving_bits \in Nat \ {0}
    BY InterconnectAssumption, Zenon
  <2> QED BY <2>1 DEF port_size
<1>2. o % port_size \in Int /\ 0 <= o % port_size /\ o % port_size < port_size
  BY <1>1, Euclid
<1> QED BY <1>1, <1>2 DEF loop_size

(* Request r is a part of access a whose bytes belong to mapping e.         *)
PartOf(t, a, r, e) ==
  /\ r.data + r.size <= a.size /\ r.size # 0 /\ r.addr = Translate(e, a.addr + r.data)
  /\ \A k \in r.data..(r.data + r.size - 1) : Owner(t, a.addr + k) = e

(* A byte of a part.                                                        *)
LEMMA PartByte ==
  ASSUME NEW t, NEW a \in Accesses, NEW r \in Reqs, NEW e \in Mappings, t \in Tables, PartOf(t, a, r, e),
         NEW k \in 1..a.size, r.data < k, k <= r.data + r.size
  PROVE  /\ Owner(t, a.addr + k - 1) = e
         /\ Translate(e, a.addr + k - 1) = r.addr + (k - 1 - r.data)
<1>1. a.addr \in Nat /\ a.size \in Nat
  BY AccessAssumption
<1>2. r.data \in Nat /\ r.size \in Nat /\ r.addr \in Int
  BY DEF Reqs
<1> DEFINE A == a.addr
           d == r.data
           s == r.size
<1>3. k - 1 \in d..(d + s - 1) /\ a.addr + (k - 1) = a.addr + k - 1
  <2>1. A \in Nat /\ d \in Nat /\ s \in Nat /\ k \in Int /\ d < k /\ k <= d + s
    BY <1>1, <1>2
  <2> HIDE DEF A, d, s
  <2>2. k - 1 \in d..(d + s - 1) /\ A + (k - 1) = A + k - 1
    BY <2>1
  <2> QED BY <2>2 DEF A
<1>4. Owner(t, a.addr + (k - 1)) = e
  BY <1>3 DEF PartOf
<1>5. Translate(e, (A + d) + (k - 1 - d)) = Translate(e, A + d) + (k - 1 - d)
  BY <1>1, <1>2, TranslateOK
<1>6. (A + d) + (k - 1 - d) = A + k - 1
  BY <1>1, <1>2
<1>7. r.addr = Translate(e, A + d)
  BY DEF PartOf
<1> QED BY <1>3, <1>4, <1>5, <1>6, <1>7

LEMMA PacketsOK ==
  ASSUME NEW t \in Tables, NEW a \in Accesses, NEW r \in Reqs, NEW e \in Mappings, PartOf(t, a, r, e),
         e.target = "interleaver"
  PROVE  Packets(Filled(t, a, 0, r.data), r) = Filled(t, a, 0, r.data + r.size)
<1> DEFINE length == [n \in 0..(r.size - 1) |-> loop_size(r.addr + n, r.size - n)]
           packets == Split(r.size, length)
           N == Len(packets)
           bytes == Filled(t, a, 0, r.data)
           Step(v, i) == Copy(v, <<"bank", Bank(r.addr + packets[i].at)>>, BankOffset(r.addr + packets[i].at),
                              r.data + packets[i].at, packets[i].size)
           Eq(f) == f = [i \in 0..N |-> IF i = 0 THEN bytes ELSE Step(f[i - 1], i)]
           End(i) == IF i = 0 THEN 0 ELSE packets[i].at + packets[i].size
           Want(i) == Filled(t, a, 0, r.data + End(i))
<1>1. a.addr \in Nat /\ a.size \in Nat /\ a.size # 0
  BY AccessAssumption
<1>2. r.data \in Nat /\ r.size \in Nat /\ r.addr \in Int /\ r.size # 0 /\ r.data + r.size <= a.size
  BY DEF Reqs, PartOf
<1>3. ASSUME NEW n \in 0..(r.size - 1)
      PROVE  length[n] = loop_size(r.addr + n, r.size - n) /\ length[n] \in 1..(r.size - n)
  <2>1. length[n] = loop_size(r.addr + n, r.size - n)
    OBVIOUS
  <2>2. r.addr + n \in Int /\ r.size - n \in Nat /\ r.size - n # 0
    BY <1>2
  <2> HIDE DEF length
  <2> QED BY <2>1, <2>2, LoopSizeOK
<1> HIDE DEF length
<1>4. /\ Tiles(packets, r.size)
      /\ \A i \in 1..N : packets[i].at \in 0..(r.size - 1) /\ packets[i].size = length[packets[i].at]
  <2>1. \A n \in 0..(r.size - 1) : length[n] \in 1..(r.size - n)
    BY <1>3
  <2>2. ASSUME NEW z \in Nat, z # 0, \A n \in 0..(z - 1) : length[n] \in 1..(z - n)
        PROVE  /\ Tiles(Split(z, length), z)
               /\ \A i \in 1..Len(Split(z, length)) :
                    Split(z, length)[i].at \in 0..(z - 1) /\ Split(z, length)[i].size = length[Split(z, length)[i].at]
    BY <2>2, SplitOK
  <2> QED BY <1>2, <2>1, <2>2
<1> HIDE DEF packets
<1>5. N \in Nat /\ N > 0 /\ packets[1].at = 0
  BY <1>4 DEF Tiles
<1>6. ASSUME NEW i \in 1..N
      PROVE  /\ packets[i].at \in Nat /\ packets[i].size \in Nat /\ packets[i].size # 0
             /\ packets[i].at + packets[i].size <= r.size
             /\ packets[i].at = End(i - 1) /\ End(i) = packets[i].at + packets[i].size
             /\ packets[i].size = loop_size(r.addr + packets[i].at, r.size - packets[i].at)
             /\ packets[i].at \in 0..(r.size - 1)
  <2>1. packets[i].at \in Nat /\ packets[i].size \in Nat /\ packets[i].size # 0 /\ packets[i].at + packets[i].size <= r.size
    BY <1>4 DEF Tiles
  <2>2. packets[i].size = loop_size(r.addr + packets[i].at, r.size - packets[i].at) /\ packets[i].at \in 0..(r.size - 1)
    BY <1>3, <1>4
  <2>3. packets[i].at = End(i - 1)
    <3>1. CASE i = 1
      BY <1>5, <3>1
    <3>2. CASE i # 1
      <4>1. i - 1 \in 1..N /\ i - 1 # N /\ (i - 1) + 1 = i /\ i - 1 # 0
        BY <1>5, <3>2
      <4>2. packets[i - 1].at + packets[i - 1].size = packets[(i - 1) + 1].at
        BY <1>4, <4>1 DEF Tiles
      <4> QED BY <4>1, <4>2
    <3> QED BY <3>1, <3>2
  <2> QED BY <2>1, <2>2, <2>3
<1>7. ASSUME NEW i \in 1..N PROVE Step(Want(i - 1), i) = Want(i)
  <2> DEFINE o == r.addr + packets[i].at
             d == r.data + packets[i].at
             s == packets[i].size
             tg == <<"bank", Bank(o)>>
             ad == BankOffset(o)
  <2>1. d \in Nat /\ s \in Nat /\ d + s <= a.size /\ o \in Int /\ s # 0 /\ d + s <= r.data + r.size /\ d >= r.data
    <3> DEFINE at == packets[i].at
               rd == r.data
               rs == r.size
               ra == r.addr
               z == a.size
    <3>1. /\ at \in Nat /\ s \in Nat /\ s # 0 /\ at + s <= rs /\ rd \in Nat /\ rs \in Nat /\ ra \in Int
          /\ rd + rs <= z /\ z \in Nat /\ d = rd + at /\ o = ra + at
      BY <1>1, <1>2, <1>6
    <3> HIDE DEF at, rd, rs, ra, z, d, o, s
    <3>2. d \in Nat /\ s \in Nat /\ d + s <= z /\ o \in Int /\ s # 0 /\ d + s <= rd + rs /\ d >= rd
      BY <3>1
    <3> QED BY <3>2 DEF rd, rs, z
  <2>2. Want(i - 1) = Filled(t, a, 0, d)
    BY <1>6
  <2>3. ASSUME NEW k \in 1..a.size, d < k, k <= d + s
        PROVE  Place(t, a.addr + k - 1) = <<tg, ad + k - 1 - d>>
    <3> DEFINE x == a.addr + k - 1
               y == Translate(e, x)
    <3>1. r.data < k /\ k <= r.data + r.size
      <4> HIDE DEF d, s
      <4> QED BY <1>2, <2>1, <2>3
    <3>2. Owner(t, x) = e /\ y = r.addr + (k - 1 - r.data)
      BY <3>1, PartByte
    <3>3. y \in Int /\ y - o = k - 1 - d
      BY <1>2, <1>6, <3>2, SMTT(30)
    <3>4. o <= y /\ y < o + s
      <4> HIDE DEF o, y, d, s
      <4> QED BY <2>1, <2>3, <3>3
    <3>5. s = loop_size(o, r.size - packets[i].at) /\ r.size - packets[i].at \in Nat /\ r.size - packets[i].at # 0
      BY <1>2, <1>6, SMTT(30)
    <3> HIDE DEF x, o, s, d
    <3>6. Place(t, x) = <<<<"bank", Bank(o)>>, BankOffset(o) + (y - o)>>
      BY <2>1, <3>2, <3>3, <3>4, <3>5, BankPlace
    <3>7. ad \in Int
      <4>1. port_size \in Nat /\ port_size # 0 /\ 2^stage_bits \in Nat /\ 2^stage_bits # 0
        <5>1. 2^interleaving_bits \in Nat \ {0} /\ 2^stage_bits \in Nat \ {0}
          BY InterconnectAssumption, Zenon
        <5> QED BY <5>1 DEF port_size
      <4> DEFINE S == 2^stage_bits
                 B == port_size * S
      <4>2. B \in Nat /\ B # 0
        <5> HIDE DEF S
        <5> QED BY <4>1 DEF S
      <4> HIDE DEF S, B
      <4>3. o \div B \in Int /\ o % port_size \in Int
        BY <2>1, <4>1, <4>2, Euclid
      <4>4. (o \div B) * B \in Int
        BY <4>2, <4>3
      <4>5. ((o \div B) * B) \div S \in Int
        BY <4>1, <4>4, Euclid DEF S
      <4>6. ad = ((o \div B) * B) \div S + (o % port_size)
        BY DEF BankOffset, B, S
      <4> QED BY <4>3, <4>5, <4>6
    <3>8. ad + (y - o) = ad + k - 1 - d
      <4> HIDE DEF ad
      <4> QED BY <2>1, <3>3, <3>7
    <3> QED BY <3>6, <3>8 DEF x
  <2> HIDE DEF d, s, o, tg, ad
  <2>4. Copy(Filled(t, a, 0, d), tg, ad, d, s) = Filled(t, a, 0, d + s)
    BY <1>1, <2>1, <2>3, CopyNext
  <2>5. d + s = r.data + End(i)
    BY <1>2, <1>6 DEF d, s
  <2>6. Step(Want(i - 1), i) = Copy(Filled(t, a, 0, d), tg, ad, d, s)
    BY <2>2 DEF d, s, o, tg, ad
  <2> QED BY <2>4, <2>5, <2>6
<1>8. Want(0) = bytes /\ Want(N) = Filled(t, a, 0, r.data + r.size)
  <2>1. End(0) = 0 /\ r.data + 0 = r.data
    BY <1>2
  <2>2. N \in 1..N
    BY <1>5
  <2>3. End(N) = r.size
    BY <1>4, <1>5, <1>6, <2>2 DEF Tiles
  <2> QED BY <2>1, <2>3
<1> HIDE DEF Step, Want, End
<1>9. \E f : Eq(f)
  <2> DEFINE f == [i \in 0..N |-> Want(i)]
  <2>1. ASSUME NEW i \in 0..N PROVE Want(i) = IF i = 0 THEN bytes ELSE Step(f[i - 1], i)
    <3>1. CASE i = 0
      BY <1>8, <3>1
    <3>2. CASE i # 0
      <4>1. i \in 1..N /\ i - 1 \in 0..N
        BY <1>5, <3>2
      <4>2. f[i - 1] = Want(i - 1)
        BY <4>1
      <4> HIDE DEF f
      <4> QED BY <1>7, <3>2, <4>1, <4>2
    <3> QED BY <3>1, <3>2
  <2>2. Eq(f)
    BY <2>1
  <2> QED BY <2>2
<1> DEFINE L == CHOOSE f : Eq(f)
<1>10. Packets(bytes, r) = L[N]
  BY DEF Packets, Step, packets, length
<1>11. Eq(L)
  <2> HIDE DEF Eq
  <2> QED BY <1>9
<1> HIDE DEF L, bytes
<1>12. \A i \in 0..N : L[i] = IF i = 0 THEN bytes ELSE Step(L[i - 1], i)
  BY <1>11, ZenonT(30)
<1> HIDE DEF Eq
<1> DEFINE T == {i \in Nat : i <= N => L[i] = Want(i)}
<1>13. 0 \in T
  BY <1>5, <1>8, <1>12
<1>14. ASSUME NEW i \in Nat, i \in T PROVE i + 1 \in T
  <2> SUFFICES ASSUME i + 1 <= N PROVE L[i + 1] = Want(i + 1)
    OBVIOUS
  <2>1. i + 1 \in 1..N /\ i + 1 \in 0..N /\ i + 1 # 0 /\ (i + 1) - 1 = i /\ i <= N
    BY <1>5
  <2>2. L[i + 1] = Step(L[i], i + 1) /\ L[i] = Want(i)
    BY <1>12, <1>14, <2>1
  <2>3. Step(Want((i + 1) - 1), i + 1) = Want(i + 1)
    BY <1>7, <2>1
  <2> QED BY <2>1, <2>2, <2>3
<1>15. N \in T
  <2> HIDE DEF T
  <2> QED BY <1>5, <1>13, <1>14, SetInduction
<1> QED BY <1>5, <1>8, <1>10, <1>15 DEF bytes

-----------------------------------------------------------------------------
(* A request on its way through the router.                                 *)

Way(q, v, f, c, h, s) ==
  [req |-> q, moved |-> v, failed |-> f, converter |-> c, held |-> h, result |-> s]

LEMMA WayFields ==
  ASSUME NEW q, NEW v, NEW f, NEW c, NEW h, NEW s
  PROVE  LET w == Way(q, v, f, c, h, s)
         IN  w.req = q /\ w.moved = v /\ w.failed = f /\ w.converter = c /\ w.held = h /\ w.result = s
BY DEF Way

LEMMA WayInvalid ==
  ASSUME NEW q, NEW v, NEW f, NEW c, NEW h, NEW s
  PROVE  \E yes \in BOOLEAN : yes /\ Invalid(Way(q, v, f, c, h, s)) = Way(q, v, yes, c, h, "INVALID")
<1> DEFINE w == Way(q, v, f, c, h, s)
           yes == TRUE
<1>1. Invalid(w) = [[w EXCEPT !.result = "INVALID"] EXCEPT !.failed = yes]
  BY DEF Invalid
<1>2. yes \in BOOLEAN /\ yes
  OBVIOUS
<1> HIDE DEF yes
<1>3. [w EXCEPT !.result = "INVALID"] = Way(q, v, f, c, h, "INVALID")
  BY DEF Way
<1>4. [Way(q, v, f, c, h, "INVALID") EXCEPT !.failed = yes] = Way(q, v, yes, c, h, "INVALID")
  BY DEF Way
<1>5. Invalid(w) = Way(q, v, yes, c, h, "INVALID")
  BY <1>1, <1>3, <1>4, Zenon
<1> QED BY <1>2, <1>5

LEMMA WayCopied ==
  ASSUME NEW q, NEW v, NEW f, NEW c, NEW h, NEW s, NEW target
  PROVE  Copied(Way(q, v, f, c, h, s), target) = Way(q, Copy(v, target, q.addr, q.data, q.size), f, c, h, "OK")
<1> DEFINE y == Copy(v, target, q.addr, q.data, q.size)
           w == Way(q, v, f, c, h, s)
<1>1. w.req = q /\ w.moved = v
  BY WayFields
<1>2. Copied(w, target) = [w EXCEPT !.result = "OK", !.moved = Copy(w.moved, target, w.req.addr, w.req.data, w.req.size)]
  BY DEF Copied
<1>3. Copied(w, target) = [w EXCEPT !.result = "OK", !.moved = y]
  BY <1>1, <1>2
<1> HIDE DEF y
<1>4. [w EXCEPT !.result = "OK", !.moved = y] = [[w EXCEPT !.result = "OK"] EXCEPT !.moved = y]
  OBVIOUS
<1>5. [w EXCEPT !.result = "OK", !.moved = y] = Way(q, y, f, c, h, "OK")
  <2>1. [w EXCEPT !.result = "OK"] = Way(q, v, f, c, h, "OK")
    BY DEF Way
  <2>2. [Way(q, v, f, c, h, "OK") EXCEPT !.moved = y] = Way(q, y, f, c, h, "OK")
    BY DEF Way
  <2> QED BY <1>4, <2>1, <2>2, Zenon
<1> QED BY <1>3, <1>5 DEF y

LEMMA WayPackets ==
  ASSUME NEW q, NEW v, NEW f, NEW c, NEW h, NEW s
  PROVE  interleaver_req(Way(q, v, f, c, h, s)) = Way(q, Packets(v, q), f, c, h, "OK")
<1> DEFINE y == Packets(v, q)
           w == Way(q, v, f, c, h, s)
<1>1. w.req = q /\ w.moved = v
  BY WayFields
<1>2. interleaver_req(w) = [w EXCEPT !.result = "OK", !.moved = Packets(w.moved, w.req)]
  BY DEF interleaver_req
<1>3. interleaver_req(w) = [w EXCEPT !.result = "OK", !.moved = y]
  BY <1>1, <1>2
<1> HIDE DEF y
<1>4. [w EXCEPT !.result = "OK", !.moved = y] = [[w EXCEPT !.result = "OK"] EXCEPT !.moved = y]
  OBVIOUS
<1>5. [w EXCEPT !.result = "OK", !.moved = y] = Way(q, y, f, c, h, "OK")
  <2>1. [w EXCEPT !.result = "OK"] = Way(q, v, f, c, h, "OK")
    BY DEF Way
  <2>2. [Way(q, v, f, c, h, "OK") EXCEPT !.moved = y] = Way(q, y, f, c, h, "OK")
    BY DEF Way
  <2> QED BY <1>4, <2>1, <2>2, Zenon
<1> QED BY <1>3, <1>5 DEF y

(* The stack of arguments.                                                  *)
LEMMA PopPush ==
  ASSUME NEW S, NEW q \in Seq(S), NEW x \in S
  PROVE  Append(q, x) \in Seq(S) /\ Front(Append(q, x)) = q /\ Last(Append(q, x)) = x
<1>1. Append(q, x) \in Seq(S) /\ Len(Append(q, x)) = Len(q) + 1 /\ Len(q) \in Nat
  OBVIOUS
<1>2. Front(Append(q, x)) = SubSeq(Append(q, x), 1, Len(q))
  BY <1>1 DEF Front
<1>3. SubSeq(Append(q, x), 1, Len(q)) = q
  <2> DEFINE u == SubSeq(Append(q, x), 1, Len(q))
  <2>1. u \in Seq(S) /\ Len(u) = Len(q) /\ \A i \in 1..Len(q) : u[i] = Append(q, x)[i]
    BY <1>1
  <2>2. \A i \in 1..Len(q) : Append(q, x)[i] = q[i]
    OBVIOUS
  <2> HIDE DEF u
  <2> QED BY <2>1, <2>2, SeqEqual DEF u
<1>4. Last(Append(q, x)) = x
  BY <1>1 DEF Last
<1> QED BY <1>1, <1>2, <1>3, <1>4

LEMMA ForwardOK ==
  ASSUME NEW q \in Reqs, NEW e \in Mappings, NEW offset \in Int, NEW data \in Nat, NEW size \in Nat
  PROVE  LET r == Forward(q, e, offset, data, size)
         IN  /\ r \in Reqs /\ r.addr = Translate(e, offset) /\ r.size = size /\ r.data = data
             /\ r.args = Append(q.args, q.resp_port) /\ q.args \in Seq(Ports)
             /\ [r EXCEPT !.args = Front(@)] \in Reqs /\ [r EXCEPT !.args = Front(@)].args = q.args
<1> DEFINE z == Translate(e, offset)
           g == Append(q.args, q.resp_port)
           r == Forward(q, e, offset, data, size)
<1>1. z \in Int
  BY TranslateOK
<1>2. q.args \in Seq(Ports) /\ q.resp_port \in Ports /\ "router" \in Ports
  BY DEF Reqs, Ports
<1>3. g \in Seq(Ports) /\ Front(g) = q.args
  BY <1>2, PopPush
<1>4. r = [q EXCEPT !.addr = z, !.size = size, !.data = data, !.args = g, !.resp_port = "router"]
  BY DEF Forward
<1> HIDE DEF z, g, r
<1>5. r = [addr |-> z, size |-> size, data |-> data, args |-> g, resp_port |-> "router"]
  BY <1>4 DEF Reqs
<1>6. r \in Reqs /\ r.addr = z /\ r.size = size /\ r.data = data /\ r.args = g
  BY <1>1, <1>2, <1>3, <1>5 DEF Reqs
<1> DEFINE u == [r EXCEPT !.args = q.args]
<1>7. [r EXCEPT !.args = Front(@)] = u
  BY <1>3, <1>6
<1>8. u \in Reqs /\ u.args = q.args
  BY <1>2, <1>6 DEF Reqs
<1> QED BY <1>2, <1>6, <1>7, <1>8 DEF z, g, r

(* One part of access a in the router.                                      *)
RouterStep(w, m, a, answer, i) ==
  IF parts[a][i].entry = NoEntry THEN Invalid(w)
  ELSE router_part(w, m, parts[a][i].entry, a.addr + parts[a][i].at, parts[a][i].at, parts[a][i].size, answer)

LEMMA RouterLoop ==
  ASSUME NEW w, NEW m, NEW a, NEW answer, Len(parts[a]) \in Nat
  PROVE  \E L : /\ L[0] = w
                /\ \A i \in 1..Len(parts[a]) : L[i] = RouterStep(L[i - 1], m, a, answer, i)
                /\ router_req(w, m, a, answer) = router_end(L[Len(parts[a])], a)
<1> DEFINE N == Len(parts[a])
           Step(x, i) == RouterStep(x, m, a, answer, i)
           Upto(n, h) == h[0] = w /\ \A k \in 0..(n - 1) : h[k + 1] = Step(h[k], k + 1)
           T == {n \in Nat : \E h : Upto(n, h)}
           Eq(f) == f = [i \in 0..N |-> IF i = 0 THEN w ELSE Step(f[i - 1], i)]
<1> HIDE DEF Step, N
<1>1. 0 \in T
  <2> DEFINE h == [k \in 0..0 |-> w]
  <2>1. h[0] = w
    OBVIOUS
  <2> HIDE DEF h
  <2>2. Upto(0, h)
    BY <2>1
  <2> QED BY <2>2
<1>2. ASSUME NEW n \in Nat, n \in T PROVE n + 1 \in T
  <2>1. PICK h : Upto(n, h)
    BY <1>2
  <2> DEFINE h2 == [k \in 0..(n + 1) |-> IF k = n + 1 THEN Step(h[n], n + 1) ELSE h[k]]
  <2>2. h2[n + 1] = Step(h[n], n + 1) /\ \A k \in 0..n : h2[k] = h[k]
    OBVIOUS
  <2> HIDE DEF h2
  <2>3. h2[0] = w
    BY <2>1, <2>2
  <2>4. ASSUME NEW k \in 0..((n + 1) - 1) PROVE h2[k + 1] = Step(h2[k], k + 1)
    <3>1. CASE k = n
      BY <2>2, <3>1
    <3>2. CASE k # n
      <4>1. k \in 0..(n - 1) /\ k \in 0..n /\ k + 1 \in 0..n
        BY <3>2
      <4> QED BY <2>1, <2>2, <4>1
    <3> QED BY <3>1, <3>2
  <2>5. Upto(n + 1, h2)
    BY <2>3, <2>4
  <2> HIDE DEF Upto
  <2> QED BY <2>5
<1>3. N \in T
  <2> HIDE DEF T
  <2> QED BY <1>1, <1>2, SetInduction DEF N
<1>4. PICK h : Upto(N, h)
  BY <1>3
<1>5. N \in Nat
  BY DEF N
<1>6. \E f : Eq(f)
  <2> DEFINE f == [i \in 0..N |-> h[i]]
  <2>1. ASSUME NEW i \in 0..N PROVE h[i] = IF i = 0 THEN w ELSE Step(f[i - 1], i)
    <3>1. CASE i = 0
      BY <1>4, <3>1
    <3>2. CASE i # 0
      <4>1. i - 1 \in 0..(N - 1) /\ i - 1 \in 0..N /\ (i - 1) + 1 = i
        BY <1>5, <3>2
      <4>2. f[i - 1] = h[i - 1]
        BY <4>1
      <4> HIDE DEF f
      <4> QED BY <1>4, <3>2, <4>1, <4>2
    <3> QED BY <3>1, <3>2
  <2>2. Eq(f)
    BY <2>1
  <2> QED BY <2>2
<1> DEFINE L == CHOOSE f : Eq(f)
<1>7. router_req(w, m, a, answer) = router_end(L[N], a)
  BY DEF router_req, Step, N, RouterStep
<1>8. Eq(L)
  <2> HIDE DEF Eq
  <2> QED BY <1>6
<1> HIDE DEF L
<1>9. \A i \in 0..N : L[i] = IF i = 0 THEN w ELSE Step(L[i - 1], i)
  BY <1>8, ZenonT(30)
<1> HIDE DEF Eq
<1>10. L[0] = w
  BY <1>5, <1>9
<1>11. \A i \in 1..N : i \in 0..N /\ i # 0
  BY <1>5
<1>12. \A i \in 1..N : L[i] = Step(L[i - 1], i)
  BY <1>9, <1>11
<1> QED BY <1>7, <1>10, <1>12 DEF N, Step

LEMMA PartEnd ==
  ASSUME NEW q, NEW v, NEW f, NEW c, NEW h, NEW s, NEW m, NEW e, NEW o, NEW d, NEW z, NEW answer, NEW y,
         target_req(Way(Forward(q, e, o, d, z), v, f, c, h, s), m, e.target, answer) = y
  PROVE  router_part(Way(q, v, f, c, h, s), m, e, o, d, z, answer)
           = IF y.result = "OK" THEN [y EXCEPT !.req.args = Front(@)] ELSE y
<1> DEFINE w == Way(q, v, f, c, h, s)
           r == Forward(q, e, o, d, z)
<1>1. [w EXCEPT !.req = Forward(@, e, o, d, z)] = Way(r, v, f, c, h, s)
  <2>1. w.req = q
    BY WayFields
  <2>2. [w EXCEPT !.req = Forward(@, e, o, d, z)] = [w EXCEPT !.req = r]
    BY <2>1
  <2> HIDE DEF r
  <2>3. [w EXCEPT !.req = r] = Way(r, v, f, c, h, s)
    BY DEF Way
  <2> QED BY <2>2, <2>3
<1> HIDE DEF w, r
<1>2. target_req([w EXCEPT !.req = Forward(@, e, o, d, z)], m, e.target, answer) = y
  BY <1>1, Zenon DEF r
<1>3. router_part(w, m, e, o, d, z, answer) = IF y.result = "OK" THEN [y EXCEPT !.req.args = Front(@)] ELSE y
  BY <1>2, Zenon DEF router_part
<1> QED BY <1>3 DEF w

LEMMA WayPop ==
  ASSUME NEW q, NEW v, NEW f, NEW c, NEW h, NEW s
  PROVE  [Way(q, v, f, c, h, s) EXCEPT !.req.args = Front(@)] = Way([q EXCEPT !.args = Front(@)], v, f, c, h, s)
<1> DEFINE u == [q EXCEPT !.args = Front(@)]
           y == Way(q, v, f, c, h, s)
<1>1. y.req = q
  BY WayFields
<1>2. [y EXCEPT !.req.args = Front(@)] = [y EXCEPT !.req = [y.req EXCEPT !.args = Front(@)]]
  OBVIOUS
<1>3. [y EXCEPT !.req.args = Front(@)] = [y EXCEPT !.req = u]
  BY <1>1, <1>2
<1> HIDE DEF u
<1>4. [y EXCEPT !.req = u] = Way(u, v, f, c, h, s)
  BY DEF Way
<1> QED BY <1>3, <1>4 DEF u

(* A request y that was answered at once; unless it failed, the first d     *)
(* bytes are done.                                                          *)
Direct(y, t, a, d, f, c, h) ==
  \E q2 \in Reqs, f2 \in BOOLEAN, s2 \in {"OK", "INVALID"} : \E v2 :
    /\ y = Way(q2, v2, f2, c, h, s2)
    /\ ~f2 => v2 = Filled(t, a, 0, d) /\ q2.args = <<>> /\ s2 = "OK"
    /\ s2 = "OK" => f2 = f

(* A part of an access that goes to the memory or to the interleaver is     *)
(* answered at once.                                                        *)
LEMMA PartDirect ==
  ASSUME NEW t \in Tables, NEW a \in Accesses, NEW m, NEW answer,
         NEW q \in Reqs, NEW v, NEW f \in BOOLEAN, NEW c, NEW h, NEW s,
         NEW e \in Mappings, e.target \in {"memory", "interleaver"},
         NEW d \in Nat, NEW z \in Nat, z # 0, d + z <= a.size, NEW o, o = a.addr + d, NEW g, g = d + z,
         \A k \in d..(d + z - 1) : Owner(t, a.addr + k) = e,
         ~f => v = Filled(t, a, 0, d) /\ q.args = <<>>
  PROVE  Direct(router_part(Way(q, v, f, c, h, s), m, e, o, d, z, answer), t, a, g, f, c, h)
<1> DEFINE r == Forward(q, e, o, d, z)
           r2 == [r EXCEPT !.args = Front(@)]
           w == Way(r, v, f, c, h, s)
<1>1. a.addr \in Nat /\ a.size \in Nat
  BY AccessAssumption
<1>2. o \in Int
  BY <1>1
<1>3. /\ r \in Reqs /\ r.addr = Translate(e, o) /\ r.size = z /\ r.data = d
      /\ r2 \in Reqs /\ r2.args = q.args
  BY <1>2, ForwardOK
<1> HIDE DEF r2, r
<1>4. PartOf(t, a, r, e)
  BY <1>3 DEF PartOf
<1>5. w.req = r
  BY WayFields
<1>6. CASE e.target = "memory"
  <2>1. target_req(w, m, e.target, answer) = memory_req(w)
    BY <1>6 DEF target_req
  <2>2. memory_req(w) = Invalid(w) \/ memory_req(w) = Copied(w, "memory")
    BY DEF memory_req
  <2>3. CASE memory_req(w) = Invalid(w)
    <3>1. PICK yes \in BOOLEAN : yes /\ Invalid(w) = Way(r, v, yes, c, h, "INVALID")
      BY WayInvalid
    <3>2. target_req(w, m, e.target, answer) = Way(r, v, yes, c, h, "INVALID")
      BY <2>1, <2>3, <3>1
    <3>3. router_part(Way(q, v, f, c, h, s), m, e, o, d, z, answer) = Way(r, v, yes, c, h, "INVALID")
      <4> DEFINE y == Way(r, v, yes, c, h, "INVALID")
      <4>1. y.result # "OK"
        BY WayFields
      <4> HIDE DEF y
      <4>2. target_req(w, m, e.target, answer) = y
        BY <3>2 DEF y
      <4>3. router_part(Way(q, v, f, c, h, s), m, e, o, d, z, answer) = y
        BY <4>1, <4>2, PartEnd DEF r
      <4> QED BY <4>3 DEF y
    <3> QED BY <1>3, <3>1, <3>3 DEF Direct
  <2>4. CASE memory_req(w) = Copied(w, "memory")
    <3> DEFINE v2 == Copy(v, "memory", r.addr, r.data, r.size)
    <3>1. target_req(w, m, e.target, answer) = Way(r, v2, f, c, h, "OK")
      BY <2>1, <2>4, WayCopied
    <3> HIDE DEF v2
    <3>3. router_part(Way(q, v, f, c, h, s), m, e, o, d, z, answer) = Way(r2, v2, f, c, h, "OK")
      <4> DEFINE y == Way(r, v2, f, c, h, "OK")
      <4>1. y.result = "OK" /\ [y EXCEPT !.req.args = Front(@)] = Way(r2, v2, f, c, h, "OK")
        BY WayFields, WayPop DEF r2
      <4> HIDE DEF y
      <4>2. target_req(w, m, e.target, answer) = y
        BY <3>1 DEF y
      <4>3. router_part(Way(q, v, f, c, h, s), m, e, o, d, z, answer) = [y EXCEPT !.req.args = Front(@)]
        BY <4>1, <4>2, PartEnd DEF r
      <4> QED BY <4>1, <4>3
    <3>4. ~f => v2 = Filled(t, a, 0, d + z)
      <4>1. ASSUME NEW k \in 1..a.size, d < k, k <= d + z
            PROVE  Place(t, a.addr + k - 1) = <<"memory", r.addr + k - 1 - d>>
        <5>1. r.data < k /\ k <= r.data + r.size
          BY <1>3, <4>1
        <5>2. Owner(t, a.addr + k - 1) = e /\ Translate(e, a.addr + k - 1) = r.addr + (k - 1 - r.data)
          BY <1>3, <1>4, <5>1, PartByte
        <5>3. r.addr \in Int /\ k \in Int
          BY <1>3 DEF Reqs
        <5> DEFINE ra == r.addr
        <5>4. r.addr + (k - 1 - d) = r.addr + k - 1 - d
          <6>1. ra \in Int
            BY <5>3
          <6> HIDE DEF ra
          <6>2. ra + (k - 1 - d) = ra + k - 1 - d
            BY <5>3, <6>1
          <6> QED BY <6>2 DEF ra
        <5> QED BY <1>3, <1>6, <5>2, <5>4, PlaceOf
      <4>2. Copy(Filled(t, a, 0, d), "memory", r.addr, d, z) = Filled(t, a, 0, d + z)
        BY <1>1, <4>1, CopyNext
      <4> QED BY <1>3, <4>2 DEF v2
    <3> QED BY <1>3, <3>3, <3>4 DEF Direct
  <2> QED BY <2>2, <2>3, <2>4
<1>7. CASE e.target = "interleaver"
  <2> DEFINE v2 == Packets(v, r)
  <2>1. target_req(w, m, e.target, answer) = interleaver_req(w)
    BY <1>7 DEF target_req
  <2>2. target_req(w, m, e.target, answer) = Way(r, v2, f, c, h, "OK")
    BY <2>1, WayPackets
  <2>3. ~f => v2 = Filled(t, a, 0, d + z)
    <3>1. Packets(Filled(t, a, 0, d), r) = Filled(t, a, 0, d + z)
      BY <1>3, <1>4, <1>7, PacketsOK
    <3> QED BY <3>1
  <2> HIDE DEF v2
  <2>5. router_part(Way(q, v, f, c, h, s), m, e, o, d, z, answer) = Way(r2, v2, f, c, h, "OK")
    <3> DEFINE y == Way(r, v2, f, c, h, "OK")
    <3>1. y.result = "OK" /\ [y EXCEPT !.req.args = Front(@)] = Way(r2, v2, f, c, h, "OK")
      BY WayFields, WayPop DEF r2
    <3> HIDE DEF y
    <3>2. target_req(w, m, e.target, answer) = y
      BY <2>2 DEF y
    <3>3. router_part(Way(q, v, f, c, h, s), m, e, o, d, z, answer) = [y EXCEPT !.req.args = Front(@)]
      BY <3>1, <3>2, PartEnd DEF r
    <3> QED BY <3>1, <3>3
  <2> QED BY <1>3, <2>3, <2>5 DEF Direct
<1> QED BY <1>6, <1>7

LEMMA WayEnd ==
  ASSUME NEW q \in Reqs, NEW v, NEW f, NEW c, NEW h, NEW s, NEW a, a.addr \in Nat, a.size \in Nat
  PROVE  LET w == Way(q, v, f, c, h, s)
         IN  /\ s # "OK" => router_end(w, a) = w
             /\ s = "OK" => \E r \in Reqs : /\ router_end(w, a) = Way(r, v, f, c, h, s)
                                            /\ r.addr = a.addr /\ r.size = a.size /\ r.data = 0 /\ r.args = q.args
<1> DEFINE w == Way(q, v, f, c, h, s)
           r1 == [q EXCEPT !.addr = a.addr]
           r2 == [r1 EXCEPT !.size = a.size]
           r3 == [r2 EXCEPT !.data = 0]
<1>1. w.result = s /\ w.req = q
  BY WayFields
<1>2. ASSUME s # "OK" PROVE router_end(w, a) = w
  BY <1>1, <1>2 DEF router_end
<1>3. ASSUME s = "OK" PROVE router_end(w, a) = Way(r3, v, f, c, h, s)
  <2> DEFINE w1 == [w EXCEPT !.req.addr = a.addr]
             w2 == [w1 EXCEPT !.req.size = a.size]
             w3 == [w2 EXCEPT !.req.data = 0]
  <2>1. router_end(w, a) = w3
    BY <1>1, <1>3 DEF router_end
  <2>2. w1 = Way(r1, v, f, c, h, s)
    <3>1. w1 = [w EXCEPT !.req = [w.req EXCEPT !.addr = a.addr]]
      OBVIOUS
    <3>2. w1 = [w EXCEPT !.req = r1]
      BY <1>1, <3>1
    <3> HIDE DEF r1, w1
    <3>3. [w EXCEPT !.req = r1] = Way(r1, v, f, c, h, s)
      BY DEF Way
    <3> QED BY <3>2, <3>3
  <2> HIDE DEF w1, r1
  <2>3. w2 = Way(r2, v, f, c, h, s)
    <3>0. w1.req = r1
      BY <2>2, WayFields
    <3>1. w2 = [w1 EXCEPT !.req = [w1.req EXCEPT !.size = a.size]]
      OBVIOUS
    <3>2. w2 = [w1 EXCEPT !.req = r2]
      BY <3>0, <3>1
    <3> HIDE DEF r2, w2
    <3>3. [Way(r1, v, f, c, h, s) EXCEPT !.req = r2] = Way(r2, v, f, c, h, s)
      BY DEF Way
    <3> QED BY <2>2, <3>2, <3>3
  <2> HIDE DEF w2, r2
  <2>4. w3 = Way(r3, v, f, c, h, s)
    <3>0. w2.req = r2
      BY <2>3, WayFields
    <3>1. w3 = [w2 EXCEPT !.req = [w2.req EXCEPT !.data = 0]]
      OBVIOUS
    <3>2. w3 = [w2 EXCEPT !.req = r3]
      BY <3>0, <3>1
    <3> HIDE DEF r3, w3
    <3>3. [Way(r2, v, f, c, h, s) EXCEPT !.req = r3] = Way(r3, v, f, c, h, s)
      BY DEF Way
    <3> QED BY <2>3, <3>2, <3>3
  <2> QED BY <2>1, <2>4
<1>4. r1 \in Reqs /\ r1.addr = a.addr /\ r1.args = q.args
  BY DEF Reqs
<1> HIDE DEF r1
<1>5. r2 \in Reqs /\ r2.addr = a.addr /\ r2.size = a.size /\ r2.args = q.args
  BY <1>4 DEF Reqs
<1> HIDE DEF r2
<1>6. r3 \in Reqs /\ r3.addr = a.addr /\ r3.size = a.size /\ r3.data = 0 /\ r3.args = q.args
  BY <1>5 DEF Reqs
<1> HIDE DEF r3
<1> QED BY <1>2, <1>3, <1>6

(* An access that does not reach the converter is answered at once.  It is  *)
(* done in full, or told so, unless a part of it failed.                    *)
LEMMA RouterDirect ==
  ASSUME NEW t \in Tables, NEW a \in Accesses, NEW m, NEW answer,
         PartsOK(t, a, parts[a]), \A i \in 1..Len(parts[a]) : parts[a][i].entry.target # "converter",
         NEW q \in Reqs, q.args = <<>>, NEW f \in BOOLEAN, ~f, NEW c, NEW h
  PROVE  \E q2 \in Reqs, f2 \in BOOLEAN, s2 \in {"OK", "INVALID"} : \E v2 :
           /\ router_req(Way(q, Filled(t, a, 0, 0), f, c, h, "OK"), m, a, answer) = Way(q2, v2, f2, c, h, s2)
           /\ s2 = "OK" => /\ q2.addr = a.addr /\ q2.size = a.size /\ q2.data = 0
                           /\ ~f2 => q2.args = <<>> /\ v2 = Filled(t, a, 0, a.size)
                           /\ f2 => Len(parts[a]) > 1
<1> DEFINE p == parts[a]
           N == Len(p)
           w == Way(q, Filled(t, a, 0, 0), f, c, h, "OK")
           End(i) == IF i = 0 THEN 0 ELSE p[i].at + p[i].size
           Good(x, i) == \E q2 \in Reqs, f2 \in BOOLEAN, s2 \in {"OK", "INVALID"} : \E v2 :
                           /\ x = Way(q2, v2, f2, c, h, s2)
                           /\ ~f2 => v2 = Filled(t, a, 0, End(i)) /\ q2.args = <<>> /\ s2 = "OK"
                           /\ f2 => i >= 1
                           /\ f2 /\ s2 = "OK" => i >= 2
<1>1. a.addr \in Nat /\ a.size \in Nat /\ WellFormed(t)
  BY AccessAssumption
<1>2. N \in Nat /\ N > 0 /\ p[1].at = 0 /\ Tiles(p, a.size)
  BY DEF PartsOK, Tiles
<1>3. ASSUME NEW i \in 1..N
      PROVE  /\ p[i].at \in Nat /\ p[i].size \in Nat /\ p[i].size # 0 /\ p[i].at + p[i].size <= a.size
             /\ p[i].at = End(i - 1) /\ End(i) = p[i].at + p[i].size
             /\ p[i].entry \in Mappings
             /\ \A k \in p[i].at..(p[i].at + p[i].size - 1) : Owner(t, a.addr + k) = p[i].entry
             /\ p[i].entry # NoEntry => p[i].entry.target \in {"memory", "interleaver"}
  <2>1. p[i].at \in Nat /\ p[i].size \in Nat /\ p[i].size # 0 /\ p[i].at + p[i].size <= a.size
    BY <1>2 DEF Tiles
  <2>2. /\ p[i].entry \in Mappings
        /\ \A k \in p[i].at..(p[i].at + p[i].size - 1) : Owner(t, a.addr + k) = p[i].entry
    BY DEF PartsOK
  <2>3. p[i].at = End(i - 1)
    <3>1. CASE i = 1
      BY <1>2, <3>1
    <3>2. CASE i # 1
      <4>1. i - 1 \in 1..N /\ i - 1 # N /\ (i - 1) + 1 = i /\ i - 1 # 0
        BY <1>2, <3>2
      <4>2. p[i - 1].at + p[i - 1].size = p[(i - 1) + 1].at
        BY <1>2, <4>1 DEF Tiles
      <4> QED BY <4>1, <4>2
    <3> QED BY <3>1, <3>2
  <2>4. p[i].entry = Owner(t, a.addr + p[i].at) /\ a.addr + p[i].at \in Nat
    <3>1. p[i].at \in p[i].at..(p[i].at + p[i].size - 1)
      BY <2>1
    <3> QED BY <1>1, <2>1, <2>2, <3>1, SMTT(30)
  <2>5. p[i].entry # NoEntry => p[i].entry.target \in {"memory", "interleaver"}
    BY <1>1, <2>4, OwnerKind
  <2> QED BY <2>1, <2>2, <2>3, <2>5
<1>4. PICK L : /\ L[0] = w /\ \A i \in 1..N : L[i] = RouterStep(L[i - 1], m, a, answer, i)
               /\ router_req(w, m, a, answer) = router_end(L[N], a)
  BY <1>2, RouterLoop
<1> DEFINE T == {i \in Nat : i <= N => Good(L[i], i)}
<1>5. 0 \in T
  <2>1. Good(w, 0)
    <3>1. End(0) = 0
      OBVIOUS
    <3> HIDE DEF End
    <3> QED BY <3>1
  <2> HIDE DEF Good, w
  <2> QED BY <1>4, <2>1
<1>6. ASSUME NEW i \in Nat, i \in T PROVE i + 1 \in T
  <2> SUFFICES ASSUME i + 1 <= N PROVE Good(L[i + 1], i + 1)
    BY <1>6
  <2>1. i + 1 \in 1..N /\ (i + 1) - 1 = i /\ i <= N
    BY <1>2
  <2>2. Good(L[i], i)
    BY <1>6, <2>1
  <2> DEFINE n == i + 1
             e == p[n].entry
             d == p[n].at
             z == p[n].size
  <2>3. L[n] = RouterStep(L[i], m, a, answer, n)
    BY <1>4, <2>1
  <2>4. PICK q2 \in Reqs, f2 \in BOOLEAN, s2 \in {"OK", "INVALID"} : \E v2 :
           /\ L[i] = Way(q2, v2, f2, c, h, s2)
           /\ ~f2 => v2 = Filled(t, a, 0, End(i)) /\ q2.args = <<>> /\ s2 = "OK"
           /\ f2 => i >= 1
           /\ f2 /\ s2 = "OK" => i >= 2
    BY <2>2
  <2>5. PICK v2 : /\ L[i] = Way(q2, v2, f2, c, h, s2)
                  /\ ~f2 => v2 = Filled(t, a, 0, End(i)) /\ q2.args = <<>> /\ s2 = "OK"
                  /\ f2 => i >= 1
                  /\ f2 /\ s2 = "OK" => i >= 2
    BY <2>4
  <2>6. CASE e = NoEntry
    <3>1. L[n] = Invalid(L[i])
      BY <2>3, <2>6 DEF RouterStep
    <3>2. PICK yes \in BOOLEAN : yes /\ Invalid(Way(q2, v2, f2, c, h, s2)) = Way(q2, v2, yes, c, h, "INVALID")
      BY WayInvalid
    <3>3. L[n] = Way(q2, v2, yes, c, h, "INVALID")
      BY <2>5, <3>1, <3>2
    <3>4. yes /\ n >= 1
      BY <3>2
    <3> HIDE DEF n
    <3>5. Good(L[n], n)
      BY <3>3, <3>4
    <3> QED BY <3>5 DEF n
  <2>7. CASE e # NoEntry
    <3>1. L[n] = router_part(L[i], m, e, a.addr + d, d, z, answer)
      BY <2>3, <2>7 DEF RouterStep
    <3>2. /\ d \in Nat /\ z \in Nat /\ z # 0 /\ d + z <= a.size /\ d = End(i) /\ End(n) = d + z
          /\ e \in Mappings /\ e.target \in {"memory", "interleaver"}
          /\ \A k \in d..(d + z - 1) : Owner(t, a.addr + k) = e
      BY <1>3, <2>1, <2>7
    <3> HIDE DEF e, d, z, End, n
    <3>3. ~f2 => v2 = Filled(t, a, 0, d) /\ q2.args = <<>>
      BY <2>5, <3>2
    <3>4. PICK q3 \in Reqs, f3 \in BOOLEAN, s3 \in {"OK", "INVALID"} : \E v3 :
           /\ router_part(Way(q2, v2, f2, c, h, s2), m, e, a.addr + d, d, z, answer) = Way(q3, v3, f3, c, h, s3)
           /\ ~f3 => v3 = Filled(t, a, 0, d + z) /\ q3.args = <<>> /\ s3 = "OK"
           /\ s3 = "OK" => f3 = f2
      <4> DEFINE o == a.addr + d
                 g == d + z
      <4>1. o = a.addr + d /\ g = d + z
        OBVIOUS
      <4> HIDE DEF p, N, Good, w, T, o, g
      <4>2. Direct(router_part(Way(q2, v2, f2, c, h, s2), m, e, o, d, z, answer), t, a, g, f2, c, h)
        BY <3>2, <3>3, <4>1, PartDirect, ZenonT(120)
      <4> QED BY <4>2 DEF Direct, o, g
    <3>5. PICK v3 :
           /\ router_part(Way(q2, v2, f2, c, h, s2), m, e, a.addr + d, d, z, answer) = Way(q3, v3, f3, c, h, s3)
           /\ ~f3 => v3 = Filled(t, a, 0, d + z) /\ q3.args = <<>> /\ s3 = "OK"
           /\ s3 = "OK" => f3 = f2
      BY <3>4
    <3>6. L[n] = Way(q3, v3, f3, c, h, s3)
      BY <2>5, <3>1, <3>5
    <3>7. n >= 1 /\ (f2 => n >= 2) /\ n = i + 1
      BY <2>5 DEF n
    <3>8. Good(L[n], n)
      BY <3>2, <3>5, <3>6, <3>7
    <3> HIDE DEF Good
    <3> QED BY <3>7, <3>8
  <2> QED BY <2>6, <2>7
<1>7. Good(L[N], N)
  <2> HIDE DEF T
  <2>1. N \in T
    BY <1>2, <1>5, <1>6, SetInduction
  <2> QED BY <1>2, <2>1 DEF T
<1>8. End(N) = a.size
  <2>1. N \in 1..N /\ N # 0
    BY <1>2
  <2> QED BY <1>2, <2>1 DEF Tiles
<1> HIDE DEF End
<1>9. PICK q2 \in Reqs, f2 \in BOOLEAN, s2 \in {"OK", "INVALID"} : \E v2 :
           /\ L[N] = Way(q2, v2, f2, c, h, s2)
           /\ ~f2 => v2 = Filled(t, a, 0, End(N)) /\ q2.args = <<>> /\ s2 = "OK"
           /\ f2 => N >= 1
           /\ f2 /\ s2 = "OK" => N >= 2
  BY <1>7
<1>10. PICK v2 : /\ L[N] = Way(q2, v2, f2, c, h, s2)
                 /\ ~f2 => v2 = Filled(t, a, 0, End(N)) /\ q2.args = <<>> /\ s2 = "OK"
                 /\ f2 => N >= 1
                 /\ f2 /\ s2 = "OK" => N >= 2
  BY <1>9
<1> HIDE DEF Good, w
<1>11. CASE s2 # "OK"
  <2>1. router_end(L[N], a) = Way(q2, v2, f2, c, h, s2)
    BY <1>1, <1>10, <1>11, WayEnd
  <2>2. router_req(w, m, a, answer) = Way(q2, v2, f2, c, h, s2)
    BY <1>4, <2>1
  <2> QED BY <1>11, <2>2 DEF w
<1>12. CASE s2 = "OK"
  <2>1. PICK r \in Reqs : /\ router_end(Way(q2, v2, f2, c, h, s2), a) = Way(r, v2, f2, c, h, s2)
                          /\ r.addr = a.addr /\ r.size = a.size /\ r.data = 0 /\ r.args = q2.args
    BY <1>1, <1>12, WayEnd
  <2>2. router_req(w, m, a, answer) = Way(r, v2, f2, c, h, s2)
    BY <1>4, <1>10, <2>1
  <2>3. f2 => N > 1
    BY <1>2, <1>10, <1>12
  <2>4. ~f2 => r.args = <<>> /\ v2 = Filled(t, a, 0, a.size)
    BY <1>8, <1>10, <2>1
  <2> QED BY <2>1, <2>2, <2>3, <2>4 DEF w
<1> QED BY <1>11, <1>12

-----------------------------------------------------------------------------
(* The chunks of the converter.                                             *)

LEMMA ChunkSizeOK ==
  ASSUME NEW o \in Int, NEW size \in Nat, size # 0
  PROVE  chunk_size(o, size) \in 1..size
<1>1. output_width \in Nat /\ output_width # 0
  <2>1. output_width \in Nat \ {0}
    BY InterconnectAssumption, Zenon
  <2> QED BY <2>1
<1>2. o % output_width \in Int /\ 0 <= o % output_width /\ o % output_width < output_width
  BY <1>1, Euclid
<1> QED BY <1>1, <1>2 DEF chunk_size

LEMMA ConverterFields ==
  ASSUME NEW c \in Converters
  PROVE  /\ c.pending_req \in Seq(Chunks) /\ c.ongoing_req \in Masters \cup {None} /\ c.ongoing_size \in Int
         /\ c.stalled_req \in Seq(Masters) /\ c.event \in BOOLEAN
BY DEF Converters

LEMMA CheckOK ==
  ASSUME NEW c \in Converters
  PROVE  LET d == check_state(c)
         IN  /\ d \in Converters /\ d.pending_req = c.pending_req /\ d.ongoing_req = c.ongoing_req
             /\ d.ongoing_size = c.ongoing_size /\ d.stalled_req = c.stalled_req
             /\ d.event => c.event \/ c.pending_req # <<>>
<1> DEFINE b == c.event \/ c.pending_req # <<>>
<1>1. b \in BOOLEAN
  OBVIOUS
<1>2. check_state(c) = [c EXCEPT !.event = b]
  BY DEF check_state
<1>3. b => c.event \/ c.pending_req # <<>>
  OBVIOUS
<1> HIDE DEF b
<1> DEFINE d == [c EXCEPT !.event = b]
<1>4. /\ d \in Converters /\ d.pending_req = c.pending_req /\ d.ongoing_req = c.ongoing_req
      /\ d.ongoing_size = c.ongoing_size /\ d.stalled_req = c.stalled_req /\ d.event = b
  BY <1>1 DEF Converters
<1> HIDE DEF d
<1> QED BY <1>2, <1>3, <1>4 DEF d

(* The chunks of a request: the last ones are on top.                       *)
LEMMA ChunksOK ==
  ASSUME NEW r \in Reqs, r.size # 0, r.data = 0
  PROVE  LET cut == Split(r.size, [n \in 0..(r.size - 1) |-> chunk_size(r.addr + n, r.size - n)])
             chunks == [i \in 1..Len(cut) |->
                          [addr |-> r.addr + cut[i].at, data |-> r.data + cut[i].at, size |-> cut[i].size]]
             q == Reverse(chunks)
         IN  q \in Seq(Chunks) /\ q # <<>> /\ Stack(q, r) /\ Left(q) = r.size
<1> DEFINE length == [n \in 0..(r.size - 1) |-> chunk_size(r.addr + n, r.size - n)]
           cut == Split(r.size, length)
           N == Len(cut)
           chunk(i) == [addr |-> r.addr + cut[i].at, data |-> r.data + cut[i].at, size |-> cut[i].size]
           chunks == [i \in 1..N |-> chunk(i)]
           q == Reverse(chunks)
<1>1. r.size \in Nat /\ r.addr \in Int
  BY DEF Reqs
<1>2. ASSUME NEW n \in 0..(r.size - 1)
      PROVE  length[n] \in 1..(r.size - n)
  <2>1. length[n] = chunk_size(r.addr + n, r.size - n)
    OBVIOUS
  <2>2. r.addr + n \in Int /\ r.size - n \in Nat /\ r.size - n # 0
    BY <1>1
  <2> HIDE DEF length
  <2> QED BY <2>1, <2>2, ChunkSizeOK
<1> HIDE DEF length
<1>3. Tiles(cut, r.size)
  <2>1. \A n \in 0..(r.size - 1) : length[n] \in 1..(r.size - n)
    BY <1>2
  <2>2. ASSUME NEW z \in Nat, z # 0, \A n \in 0..(z - 1) : length[n] \in 1..(z - n)
        PROVE  Tiles(Split(z, length), z)
    BY <2>2, SplitOK
  <2> QED BY <1>1, <2>1, <2>2
<1> HIDE DEF cut
<1>4. N \in Nat /\ N > 0 /\ cut[1].at = 0
  BY <1>3 DEF Tiles
<1> HIDE DEF N
<1>5. ASSUME NEW i \in 1..N
      PROVE  /\ chunk(i) \in Chunks /\ chunk(i).addr = r.addr + cut[i].at /\ chunk(i).data = cut[i].at
             /\ chunk(i).size = cut[i].size /\ cut[i].size # 0 /\ cut[i].size \in Nat /\ cut[i].at \in Nat
  <2> DEFINE x == cut[i].at
             y == cut[i].size
             ra == r.addr
  <2>1. x \in Nat /\ y \in Nat /\ y # 0 /\ ra \in Int
    BY <1>1, <1>3 DEF Tiles, N
  <2>2. chunk(i) = [addr |-> ra + x, data |-> r.data + x, size |-> y]
    OBVIOUS
  <2> HIDE DEF x, y, ra, chunk
  <2>3. ra + x \in Int /\ r.data + x = x
    BY <2>1
  <2>4. chunk(i) \in Chunks /\ chunk(i).addr = ra + x /\ chunk(i).data = x /\ chunk(i).size = y
    BY <2>1, <2>2, <2>3 DEF Chunks
  <2> QED BY <2>1, <2>4 DEF x, y, ra
<1> HIDE DEF chunk
<1>6. Len(chunks) = N /\ \A i \in 1..N : chunks[i] = chunk(i)
  BY <1>4, <1>5
<1> HIDE DEF chunks
<1>7. q = [i \in 1..N |-> chunks[(N - i) + 1]]
  BY <1>6 DEF Reverse
<1> HIDE DEF q
<1>8. \A i \in 1..N : (N - i) + 1 \in 1..N
  BY <1>4
<1>9. q = [i \in 1..N |-> chunk((N - i) + 1)]
  BY <1>6, <1>7, <1>8
<1>10. q \in Seq(Chunks) /\ Len(q) = N /\ \A i \in 1..N : q[i] = chunk((N - i) + 1)
  BY <1>4, <1>5, <1>8, <1>9
<1>11. q # <<>>
  BY <1>4, <1>10
<1>12. ASSUME NEW i \in 1..N
       PROVE  /\ q[i].size # 0 /\ q[i].addr = r.addr + q[i].data
              /\ q[i].data = IF i = N THEN 0 ELSE q[i + 1].data + q[i + 1].size
  <2> DEFINE j == (N - i) + 1
  <2>1. j \in 1..N /\ q[i] = chunk(j)
    BY <1>8, <1>10
  <2>2. q[i].size # 0 /\ q[i].addr = r.addr + q[i].data /\ q[i].data = cut[j].at
    BY <1>5, <2>1
  <2>3. CASE i = N
    BY <1>4, <2>2, <2>3
  <2>4. CASE i # N
    <3>1. i + 1 \in 1..N /\ (N - (i + 1)) + 1 = j - 1 /\ j - 1 \in 1..N /\ j - 1 # N /\ (j - 1) + 1 = j
      BY <1>4, <2>4
    <3>2. q[i + 1] = chunk(j - 1)
      BY <1>10, <3>1
    <3>3. q[i + 1].data = cut[j - 1].at /\ q[i + 1].size = cut[j - 1].size
      BY <1>5, <3>1, <3>2
    <3>4. cut[j - 1].at + cut[j - 1].size = cut[(j - 1) + 1].at
      <4> HIDE DEF j
      <4> QED BY <1>3, <3>1 DEF Tiles, N
    <3> QED BY <2>2, <2>4, <3>1, <3>3, <3>4
  <2> QED BY <2>2, <2>3, <2>4
<1>13. Left(q) = r.size
  <2>1. 1 \in 1..N /\ (N - 1) + 1 = N /\ N \in 1..N
    BY <1>4
  <2>2. q[1] = chunk(N)
    BY <1>10, <2>1
  <2>3. q[1].data = cut[N].at /\ q[1].size = cut[N].size
    BY <1>5, <2>1, <2>2
  <2>4. cut[N].at + cut[N].size = r.size
    BY <1>3, <2>1 DEF Tiles, N
  <2> QED BY <1>11, <2>3, <2>4 DEF Left
<1>14. Stack(q, r)
  BY <1>1, <1>10, <1>12, <1>13 DEF Stack
<1> QED BY <1>10, <1>11, <1>13, <1>14 DEF q, chunks, chunk, N, cut, length

LEMMA ProcessOK ==
  ASSUME NEW c \in Converters, NEW m \in Masters, NEW r \in Reqs, r.size # 0, r.data = 0, c.pending_req = <<>>
  PROVE  LET d == process_pending_req(c, m, r)
         IN  /\ d \in Converters /\ d.ongoing_req = m /\ d.ongoing_size = r.size /\ d.stalled_req = c.stalled_req
             /\ d.pending_req # <<>> /\ Stack(d.pending_req, r) /\ Left(d.pending_req) = r.size
<1> DEFINE cut == Split(r.size, [n \in 0..(r.size - 1) |-> chunk_size(r.addr + n, r.size - n)])
           chunks == [i \in 1..Len(cut) |->
                        [addr |-> r.addr + cut[i].at, data |-> r.data + cut[i].at, size |-> cut[i].size]]
           q == Reverse(chunks)
           z == r.size
           d == process_pending_req(c, m, r)
<1>1. q \in Seq(Chunks) /\ q # <<>> /\ Stack(q, r) /\ Left(q) = r.size
  BY ChunksOK
<1>2. d = [c EXCEPT !.ongoing_req = m, !.ongoing_size = r.size, !.pending_req = q \o c.pending_req]
  BY DEF process_pending_req
<1> HIDE DEF cut, chunks, q, d
<1>3. q \o c.pending_req = q
  BY <1>1
<1>4. z \in Int
  BY DEF Reqs
<1> DEFINE c1 == [c EXCEPT !.ongoing_req = m]
           c2 == [c1 EXCEPT !.ongoing_size = z]
           c3 == [c2 EXCEPT !.pending_req = q]
<1>5. d = c3
  BY <1>2, <1>3
<1> HIDE DEF z
<1>6. c1 \in Converters /\ c1.ongoing_req = m /\ c1.stalled_req = c.stalled_req
  BY DEF Converters
<1> HIDE DEF c1
<1>7. c2 \in Converters /\ c2.ongoing_req = m /\ c2.ongoing_size = z /\ c2.stalled_req = c.stalled_req
  BY <1>4, <1>6 DEF Converters
<1> HIDE DEF c2
<1>8. c3 \in Converters /\ c3.ongoing_req = m /\ c3.ongoing_size = z /\ c3.stalled_req = c.stalled_req /\ c3.pending_req = q
  BY <1>1, <1>7 DEF Converters
<1> HIDE DEF c3
<1> QED BY <1>1, <1>5, <1>8 DEF d, z

-----------------------------------------------------------------------------
(* A request in the converter: what a call y of converter::req, with the    *)
(* converter c, makes of the request of master m for access a.              *)

Stalled(y, t, a, m, c, h) ==
  \E r \in Reqs, f \in BOOLEAN, d \in Converters :
    /\ y = Way(r, Filled(t, a, 0, 0), f, d, h, "DENIED") /\ ~f /\ Forwarded(t, a, r, m)
    /\ c.ongoing_req # None
    /\ d.pending_req = c.pending_req /\ d.ongoing_req = c.ongoing_req /\ d.ongoing_size = c.ongoing_size
    /\ d.event = c.event /\ d.stalled_req = Append(c.stalled_req, m)

Chunked(y, t, a, m, c, h) ==
  \E r \in Reqs, f \in BOOLEAN, d \in Converters :
    /\ y = Way(r, Filled(t, a, 0, 0), f, d, h, "PENDING") /\ ~f /\ Forwarded(t, a, r, m)
    /\ c.ongoing_req = None
    /\ d.ongoing_req = m /\ d.ongoing_size = r.size /\ d.stalled_req = c.stalled_req
    /\ d.pending_req # <<>> /\ Stack(d.pending_req, r) /\ Left(d.pending_req) = r.size

AtOnce(y, t, a, m, c, h) ==
  \E r \in Reqs, f \in BOOLEAN :
    /\ y = Way(r, Filled(t, a, 0, a.size), f, c, h, "OK") /\ ~f
    /\ r.addr = a.addr /\ r.size = a.size /\ r.data = 0 /\ r.args = <<>>

PassedOn(y, t, a, m, c, h) ==
  \E r \in Reqs, f \in BOOLEAN, d \in Converters, g \in {h, h \cup {m}} :
    /\ y = Way(r, Filled(t, a, 0, 0), f, d, g, "PENDING") /\ Forwarded(t, a, r, m)
    /\ c.ongoing_req = None /\ (g = h \/ ~f)
    /\ d.pending_req = c.pending_req /\ d.ongoing_req = c.ongoing_req /\ d.ongoing_size = c.ongoing_size
    /\ d.stalled_req = c.stalled_req /\ (d.event => c.event \/ c.pending_req # <<>>)

LEMMA ForwardedOK ==
  ASSUME NEW t \in Tables, NEW a \in Accesses, NEW m \in Masters, NEW r \in Reqs, NEW e \in Mappings,
         PartOf(t, a, r, e), r.data = 0, r.size = a.size, r.args = <<m>>, e.target = "converter"
  PROVE  /\ Forwarded(t, a, r, m)
         /\ Copy(Filled(t, a, 0, 0), "slave", r.addr, r.data, r.size) = Filled(t, a, 0, a.size)
<1>1. a.addr \in Nat /\ a.size \in Nat
  BY AccessAssumption
<1>2. r.addr \in Int
  BY DEF Reqs
<1> DEFINE ra == r.addr
<1>3. ASSUME NEW k \in 1..a.size
      PROVE  Place(t, a.addr + k - 1) = <<"slave", ra + (k - 1)>>
  <2>1. r.data < k /\ k <= r.data + r.size /\ k - 1 - r.data = k - 1
    BY <1>1
  <2>2. Owner(t, a.addr + k - 1) = e /\ Translate(e, a.addr + k - 1) = r.addr + (k - 1 - r.data)
    BY <2>1, PartByte
  <2> QED BY <2>1, <2>2, PlaceOf
<1>4. Forwarded(t, a, r, m)
  BY <1>3 DEF Forwarded
<1>5. ASSUME NEW k \in 1..a.size PROVE Place(t, a.addr + k - 1) = <<"slave", ra + k - 1 - 0>>
  <2>1. ra \in Int
    BY <1>2
  <2> HIDE DEF ra
  <2>2. k \in Int
    OBVIOUS
  <2>3. ra + (k - 1) = ra + k - 1 - 0
    BY <2>1, <2>2
  <2> QED BY <1>3, <2>3
<1> HIDE DEF ra
<1>6. 0 \in Nat /\ 0 + a.size = a.size /\ a.size <= a.size
  BY <1>1
<1>7. Copy(Filled(t, a, 0, 0), "slave", ra, 0, a.size) = Filled(t, a, 0, 0 + a.size)
  BY <1>1, <1>5, <1>6, CopyNext
<1> QED BY <1>4, <1>6, <1>7 DEF ra

(* An access to the converter, which is one part.                           *)
LEMMA RouterConverter ==
  ASSUME NEW t \in Tables, NEW a \in Accesses, NEW m \in Masters, NEW answer,
         PartsOK(t, a, parts[a]), NEW j \in 1..Len(parts[a]), parts[a][j].entry.target = "converter",
         NEW q \in Reqs, q.args = <<>>, q.resp_port = m, NEW f \in BOOLEAN, ~f,
         NEW c \in Converters, c.ongoing_req = None => c.pending_req = <<>>, NEW h
  PROVE  LET y == router_req(Way(q, Filled(t, a, 0, 0), f, c, h, "OK"), m, a, answer)
         IN  Stalled(y, t, a, m, c, h) \/ Chunked(y, t, a, m, c, h) \/ AtOnce(y, t, a, m, c, h) \/ PassedOn(y, t, a, m, c, h)
<1> DEFINE v == Filled(t, a, 0, 0)
           w == Way(q, v, f, c, h, "OK")
           e == parts[a][1].entry
           y == router_req(w, m, a, answer)
<1>1. a.addr \in Nat /\ a.size \in Nat /\ a.size # 0
  BY AccessAssumption
<1>2. Len(parts[a]) = 1 /\ j = 1
  <2>1. Len(parts[a]) = 1
    BY DEF PartsOK
  <2> QED BY <2>1
<1>3. /\ parts[a][1].at = 0 /\ parts[a][1].size = a.size /\ e \in Mappings /\ e.target = "converter"
      /\ \A k \in 0..(a.size - 1) : Owner(t, a.addr + k) = e
  <2>1. 1 \in 1..Len(parts[a])
    BY <1>2
  <2>2. parts[a][1].at = 0 /\ parts[a][1].size \in Nat
    BY <2>1 DEF PartsOK, Tiles
  <2>3. parts[a][1].at + parts[a][1].size = a.size
    BY <1>2, <2>1 DEF PartsOK, Tiles
  <2>4. parts[a][1].size = a.size /\ 0 + a.size = a.size
    BY <1>1, <2>2, <2>3
  <2>5. e \in Mappings /\ \A k \in 0..(0 + a.size - 1) : Owner(t, a.addr + k) = e
    BY <2>1, <2>2, <2>4 DEF PartsOK
  <2> QED BY <1>2, <2>2, <2>4, <2>5
<1>4. e # NoEntry
  BY <1>3 DEF NoEntry
<1>5. a.addr + 0 = a.addr /\ a.addr \in Int
  BY <1>1
<1>6. PICK L : /\ L[0] = w /\ \A i \in 1..Len(parts[a]) : L[i] = RouterStep(L[i - 1], m, a, answer, i)
               /\ y = router_end(L[Len(parts[a])], a)
  <2>1. Len(parts[a]) \in Nat
    BY <1>2
  <2> HIDE DEF w
  <2> QED BY <2>1, RouterLoop
<1>7. L[1] = RouterStep(w, m, a, answer, 1) /\ y = router_end(L[1], a)
  BY <1>2, <1>6
<1> HIDE DEF v, w, y
<1>8. L[1] = router_part(w, m, e, a.addr, 0, a.size, answer)
  BY <1>3, <1>4, <1>5, <1>7 DEF RouterStep
<1> HIDE DEF e
<1> DEFINE r == Forward(q, e, a.addr, 0, a.size)
           r2 == [r EXCEPT !.args = Front(@)]
           w1 == Way(r, v, f, c, h, "OK")
           x == target_req(w1, m, e.target, answer)
<1>9. /\ r \in Reqs /\ r.addr = Translate(e, a.addr) /\ r.size = a.size /\ r.data = 0
      /\ r.args = Append(q.args, q.resp_port) /\ r2 \in Reqs /\ r2.args = <<>>
  BY <1>1, <1>3, <1>5, ForwardOK
<1>10. r.args = <<m>>
  BY <1>9
<1> HIDE DEF r, r2
<1>11. PartOf(t, a, r, e)
  <2>1. 0 + a.size = a.size
    BY <1>1
  <2> QED BY <1>1, <1>3, <1>5, <1>9, <2>1 DEF PartOf
<1>12. Forwarded(t, a, r, m) /\ Copy(v, "slave", r.addr, r.data, r.size) = Filled(t, a, 0, a.size)
  BY <1>3, <1>9, <1>10, <1>11, ForwardedOK DEF v
<1>13. x = converter_req(w1, m, answer)
  BY <1>3 DEF target_req
<1>14. L[1] = IF x.result = "OK" THEN [x EXCEPT !.req.args = Front(@)] ELSE x
  <2> HIDE DEF x
  <2>1. x = target_req(Way(Forward(q, e, a.addr, 0, a.size), v, f, c, h, "OK"), m, e.target, answer)
    BY DEF x, r
  <2> QED BY <1>8, <2>1, PartEnd DEF w
<1>15. w1.converter = c /\ w1.req = r /\ w1.held = h /\ w1.failed = f
  BY WayFields
<1> HIDE DEF w1, x
<1>16. ASSUME NEW d, NEW g, NEW b, NEW s, s # "OK", x = Way(r, v, b, d, g, s)
       PROVE  y = Way(r, v, b, d, g, s)
  <2>1. x.result # "OK"
    BY <1>16, WayFields
  <2>2. L[1] = x
    BY <1>14, <2>1
  <2>3. router_end(Way(r, v, b, d, g, s), a) = Way(r, v, b, d, g, s)
    BY <1>1, <1>9, <1>16, WayEnd
  <2> QED BY <1>7, <1>16, <2>2, <2>3
<1>17. CASE c.ongoing_req # None
  <2> DEFINE st == Append(c.stalled_req, m)
             d == [c EXCEPT !.stalled_req = st]
  <2>1. x = [w1 EXCEPT !.converter.stalled_req = Append(@, m), !.result = "DENIED"]
    BY <1>13, <1>15, <1>17 DEF converter_req, MustStall
  <2>2. x = [[w1 EXCEPT !.converter = [w1.converter EXCEPT !.stalled_req = Append(@, m)]] EXCEPT !.result = "DENIED"]
    BY <2>1
  <2>3. x = [[w1 EXCEPT !.converter = d] EXCEPT !.result = "DENIED"]
    BY <1>15, <2>2
  <2>4. st \in Seq(Masters)
    BY ConverterFields
  <2> HIDE DEF st
  <2>5. /\ d \in Converters /\ d.pending_req = c.pending_req /\ d.ongoing_req = c.ongoing_req
        /\ d.ongoing_size = c.ongoing_size /\ d.event = c.event /\ d.stalled_req = st
    BY <2>4 DEF Converters
  <2> HIDE DEF d
  <2>6. [w1 EXCEPT !.converter = d] = Way(r, v, f, d, h, "OK")
    BY DEF w1, Way
  <2>7. [Way(r, v, f, d, h, "OK") EXCEPT !.result = "DENIED"] = Way(r, v, f, d, h, "DENIED")
    BY DEF Way
  <2>8. x = Way(r, v, f, d, h, "DENIED")
    BY <2>3, <2>6, <2>7, Zenon
  <2>9. y = Way(r, v, f, d, h, "DENIED")
    BY <1>16, <2>8
  <2>10. Stalled(y, t, a, m, c, h)
    BY <1>9, <1>12, <1>17, <2>5, <2>9 DEF Stalled, v, st
  <2> QED BY <2>10 DEF y, w, v
<1>18. CASE c.ongoing_req = None /\ Align(r.addr) # Align(r.addr + r.size - 1)
  <2> DEFINE p == process_pending_req(c, m, r)
             d == check_state(p)
  <2>1. x = [w1 EXCEPT !.converter = d, !.result = "PENDING"]
    BY <1>13, <1>15, <1>18 DEF converter_req, MustStall
  <2>2. x = [[w1 EXCEPT !.converter = d] EXCEPT !.result = "PENDING"]
    BY <2>1
  <2>3. /\ p \in Converters /\ p.ongoing_req = m /\ p.ongoing_size = r.size /\ p.stalled_req = c.stalled_req
        /\ p.pending_req # <<>> /\ Stack(p.pending_req, r) /\ Left(p.pending_req) = r.size
    BY <1>1, <1>9, <1>18, ProcessOK
  <2> HIDE DEF p
  <2>4. /\ d \in Converters /\ d.pending_req = p.pending_req /\ d.ongoing_req = p.ongoing_req
        /\ d.ongoing_size = p.ongoing_size /\ d.stalled_req = p.stalled_req
    BY <2>3, CheckOK
  <2> HIDE DEF d
  <2>6. [w1 EXCEPT !.converter = d] = Way(r, v, f, d, h, "OK")
    BY DEF w1, Way
  <2>7. [Way(r, v, f, d, h, "OK") EXCEPT !.result = "PENDING"] = Way(r, v, f, d, h, "PENDING")
    BY DEF Way
  <2>8. x = Way(r, v, f, d, h, "PENDING")
    BY <2>2, <2>6, <2>7, Zenon
  <2>9. y = Way(r, v, f, d, h, "PENDING")
    BY <1>16, <2>8
  <2>10. Chunked(y, t, a, m, c, h)
    BY <1>9, <1>12, <1>18, <2>3, <2>4, <2>9 DEF Chunked, v
  <2> QED BY <2>10 DEF y, w, v
<1>19. CASE c.ongoing_req = None /\ Align(r.addr) = Align(r.addr + r.size - 1) /\ answer = "OK"
  <2> DEFINE v2 == Filled(t, a, 0, a.size)
  <2>1. x = Copied(w1, "slave")
    BY <1>13, <1>15, <1>19 DEF converter_req, MustStall
  <2>2. x = Way(r, v2, f, c, h, "OK")
    BY <1>12, <2>1, WayCopied DEF w1
  <2> HIDE DEF v2
  <2>3. x.result = "OK" /\ [x EXCEPT !.req.args = Front(@)] = Way(r2, v2, f, c, h, "OK")
    BY <2>2, WayFields, WayPop DEF r2
  <2>4. L[1] = Way(r2, v2, f, c, h, "OK")
    BY <1>14, <2>3
  <2>5. PICK r3 \in Reqs : /\ router_end(Way(r2, v2, f, c, h, "OK"), a) = Way(r3, v2, f, c, h, "OK")
                           /\ r3.addr = a.addr /\ r3.size = a.size /\ r3.data = 0 /\ r3.args = r2.args
    BY <1>1, <1>9, WayEnd
  <2>6. y = Way(r3, v2, f, c, h, "OK") /\ r3.args = <<>>
    BY <1>7, <1>9, <2>4, <2>5
  <2>7. AtOnce(y, t, a, m, c, h)
    BY <2>5, <2>6 DEF AtOnce, v2
  <2> QED BY <2>7 DEF y, w, v
<1>20. CASE c.ongoing_req = None /\ Align(r.addr) = Align(r.addr + r.size - 1) /\ answer # "OK"
  <2> DEFINE d == check_state(c)
             b == f \/ answer = "INVALID"
             g == IF answer \in {"PENDING", "DENIED"} THEN h \cup {m} ELSE h
  <2>1. x = [w1 EXCEPT !.converter = check_state(c), !.result = "PENDING", !.failed = @ \/ answer = "INVALID",
                       !.held = IF answer \in {"PENDING", "DENIED"} THEN @ \cup {m} ELSE @]
    BY <1>13, <1>15, <1>20 DEF converter_req, MustStall
  <2>2. x = [[[[w1 EXCEPT !.converter = d] EXCEPT !.result = "PENDING"] EXCEPT !.failed = b] EXCEPT !.held = g]
    <3>1. w1.failed = f /\ w1.held = h
      BY <1>15
    <3>2. x = [w1 EXCEPT !.converter = d, !.result = "PENDING", !.failed = b, !.held = g]
      BY <2>1, <3>1
    <3> HIDE DEF d, b, g
    <3> QED BY <3>2
  <2>3. /\ d \in Converters /\ d.pending_req = c.pending_req /\ d.ongoing_req = c.ongoing_req
        /\ d.ongoing_size = c.ongoing_size /\ d.stalled_req = c.stalled_req
        /\ d.event => c.event \/ c.pending_req # <<>>
    BY CheckOK
  <2>4. b \in BOOLEAN /\ g \in {h, h \cup {m}} /\ (g = h \/ ~b)
    OBVIOUS
  <2> HIDE DEF d, b, g
  <2>5. [w1 EXCEPT !.converter = d] = Way(r, v, f, d, h, "OK")
    BY DEF w1, Way
  <2>6. [Way(r, v, f, d, h, "OK") EXCEPT !.result = "PENDING"] = Way(r, v, f, d, h, "PENDING")
    BY DEF Way
  <2>7. [Way(r, v, f, d, h, "PENDING") EXCEPT !.failed = b] = Way(r, v, b, d, h, "PENDING")
    BY DEF Way
  <2>8. [Way(r, v, b, d, h, "PENDING") EXCEPT !.held = g] = Way(r, v, b, d, g, "PENDING")
    BY DEF Way
  <2>9. x = Way(r, v, b, d, g, "PENDING")
    BY <2>2, <2>5, <2>6, <2>7, <2>8, Zenon
  <2>10. y = Way(r, v, b, d, g, "PENDING")
    BY <1>16, <2>9
  <2>11. PassedOn(y, t, a, m, c, h)
    BY <1>9, <1>12, <1>20, <2>3, <2>4, <2>10 DEF PassedOn, v
  <2> QED BY <2>11 DEF y, w, v
<1> QED BY <1>17, <1>18, <1>19, <1>20

-----------------------------------------------------------------------------
(* The steps keep the invariant.                                            *)

LEMMA InitInv ==
  Init => Inv
<1> SUFFICES ASSUME Init PROVE Inv
  OBVIOUS
<1>1. NoReq \in Reqs /\ NoReq.args = <<>>
  <2>1. <<>> \in Seq(Ports) /\ None \in Ports
    BY DEF Ports
  <2> QED BY <2>1 DEF NoReq, Reqs
<1>2. converter \in Converters /\ converter.pending_req = <<>> /\ converter.ongoing_req = None /\ converter.stalled_req = <<>> /\ ~converter.event
  <2>1. <<>> \in Seq(Chunks) /\ <<>> \in Seq(Masters)
    OBVIOUS
  <2> QED BY <2>1 DEF Init, Converters
<1>3. Types
  <2>1. table \in Tables /\ parts = [a \in Accesses |-> PartsOf(table, a)]
    BY DEF Init
  <2>2. req \in [Masters -> Reqs]
    <3> HIDE DEF NoReq
    <3> QED BY <1>1 DEF Init
  <2>3. status \in [Masters -> Statuses] /\ failed \in [Masters -> BOOLEAN] /\ held \in SUBSET Masters
        /\ refused \in SUBSET held
    BY DEF Init, Statuses
  <2>4. asked = [m \in Masters |-> asked[m]] /\ moved = [m \in Masters |-> moved[m]]
    BY DEF Init
  <2> QED BY <1>2, <2>1, <2>2, <2>3, <2>4 DEF Types
<1>4. MasterInv
  <2> SUFFICES ASSUME NEW m \in Masters PROVE MasterOK(m)
    BY DEF MasterInv
  <2>1. status[m] = "done" /\ asked[m].size = 0 /\ req[m].args = <<>>
    BY <1>1 DEF Init
  <2>2. status[m] # "ok" /\ status[m] # "denied" /\ status[m] \notin Waiting
    BY <2>1 DEF Waiting
  <2>3. InFull(m)
    BY <2>1 DEF InFull
  <2> QED BY <2>1, <2>2, <2>3 DEF MasterOK, Answered
<1>5. HeldInv
  BY DEF Init, HeldInv
<1>6. StallInv
  BY <1>2 DEF StallInv
<1>7. OngoingInv
  BY <1>2 DEF OngoingInv
<1> QED BY <1>3, <1>4, <1>5, <1>6, <1>7 DEF Inv

(* A master whose request does not change.                                  *)
LEMMA Others ==
  ASSUME NEW n, table' = table, asked'[n] = asked[n], req'[n] = req[n], status'[n] = status[n],
         moved'[n] = moved[n], failed'[n] = failed[n], MasterOK(n)
  PROVE  MasterOK(n)'
<1>1. InFull(n) => InFull(n)'
  BY DEF InFull
<1>2. SpansMappings(asked[n]) => SpansMappings(asked[n])'
  BY DEF SpansMappings
<1>3. Answered(n) => Answered(n)'
  <2> HIDE DEF InFull, SpansMappings
  <2> QED BY <1>1, <1>2 DEF Answered
<1> QED BY <1>3 DEF MasterOK, Waiting

(* What Send makes of the state.                                            *)
SendsTo(m, a, r, v, b, d, g, s) ==
  /\ table' = table /\ parts' = parts /\ status[m] \in {"done", "ok", "invalid"} /\ accesses' = accesses + 1
  /\ asked' = [asked EXCEPT ![m] = a] /\ req' = [req EXCEPT ![m] = r] /\ moved' = [moved EXCEPT ![m] = v]
  /\ failed' = [failed EXCEPT ![m] = b] /\ converter' = d /\ held' = g /\ refused' \in SUBSET g
  /\ status' = [status EXCEPT ![m] = s]

StatusOf(s) ==
  CASE s = "OK" -> "ok" [] s = "INVALID" -> "invalid" [] s = "DENIED" -> "denied" [] s = "PENDING" -> "pending"

FirstReq(m, a) == [NoReq EXCEPT !.addr = a.addr, !.size = a.size, !.resp_port = m]

LEMMA FirstReqOK ==
  ASSUME NEW m \in Masters, NEW a \in Accesses
  PROVE  FirstReq(m, a) \in Reqs /\ FirstReq(m, a).args = <<>> /\ FirstReq(m, a).resp_port = m
<1> DEFINE x == a.addr
           z == a.size
<1>1. x \in Int /\ z \in Nat
  <2>1. a.addr \in Nat /\ a.size \in Nat \ {0}
    BY InterconnectAssumption, Zenon
  <2> QED BY <2>1
<1>2. <<>> \in Seq(Ports) /\ m \in Ports
  BY DEF Ports
<1>3. FirstReq(m, a) = [NoReq EXCEPT !.addr = x, !.size = z, !.resp_port = m]
  BY DEF FirstReq
<1> HIDE DEF x, z
<1>4. FirstReq(m, a) = [addr |-> x, size |-> z, data |-> 0, args |-> <<>>, resp_port |-> m]
  BY <1>3 DEF NoReq
<1> QED BY <1>1, <1>2, <1>4 DEF Reqs

LEMMA SendIs ==
  ASSUME NEW m \in Masters, NEW a \in Accesses, NEW answer, Send(m, a, answer), table \in Tables
  PROVE  \E f \in BOOLEAN :
           /\ ~f
           /\ LET y == router_req(Way(FirstReq(m, a), Filled(table, a, 0, 0), f, converter, held, "OK"), m, a, answer)
              IN  SendsTo(m, a, y.req, y.moved, y.failed, y.converter, y.held, StatusOf(y.result))
<1> DEFINE f == FALSE
           w == [req |-> [NoReq EXCEPT !.addr = a.addr, !.size = a.size, !.resp_port = m],
                 moved |-> [k \in 1..a.size |-> <<>>], failed |-> FALSE,
                 converter |-> converter, held |-> held, result |-> "OK"]
           y == router_req(w, m, a, answer)
<1>1. w = Way(FirstReq(m, a), Filled(table, a, 0, 0), f, converter, held, "OK")
  <2>1. Filled(table, a, 0, 0) = [k \in 1..a.size |-> <<>>]
    BY AccessAssumption, FilledNone
  <2> QED BY <2>1 DEF Way, FirstReq
<1> HIDE DEF w
<1>2. SendsTo(m, a, y.req, y.moved, y.failed, y.converter, y.held, StatusOf(y.result))
  <2>1. \E u \in {y} :
         /\ asked' = [asked EXCEPT ![m] = a]
         /\ req' = [req EXCEPT ![m] = u.req]
         /\ moved' = [moved EXCEPT ![m] = u.moved]
         /\ failed' = [failed EXCEPT ![m] = u.failed]
         /\ status' = [status EXCEPT ![m] = StatusOf(u.result)]
         /\ converter' = u.converter /\ held' = u.held /\ refused' \in SUBSET u.held
    BY DEF Send, w, StatusOf
  <2> HIDE DEF y
  <2>2. /\ status[m] \in {"done", "ok", "invalid"} /\ accesses' = accesses + 1
        /\ table' = table /\ parts' = parts
    BY DEF Send
  <2> QED BY <2>1, <2>2 DEF SendsTo
<1>3. f \in BOOLEAN /\ ~f
  OBVIOUS
<1> HIDE DEF f
<1> QED BY <1>1, <1>2, <1>3

LEMMA NoneNotMaster ==
  None \notin Masters /\ "router" \notin Masters
BY InterconnectAssumption, Zenon

(* A master that sends had no request in the converter.                     *)
Sent(m, a, r, v, b, d, g, s) ==
  /\ Types' /\ m \notin held /\ m # converter.ongoing_req
  /\ \A i \in 1..Len(converter.stalled_req) : converter.stalled_req[i] # m
  /\ asked'[m] = a /\ req'[m] = r /\ moved'[m] = v /\ failed'[m] = b /\ status'[m] = s
  /\ converter' = d /\ held' = g /\ table' = table /\ parts' = parts
  /\ \A n \in Masters : n # m => /\ asked'[n] = asked[n] /\ req'[n] = req[n] /\ moved'[n] = moved[n]
                                 /\ failed'[n] = failed[n] /\ status'[n] = status[n] /\ MasterOK(n)'

LEMMA SendFrame ==
  ASSUME Inv, NEW m \in Masters, NEW a \in Accesses, NEW r \in Reqs, NEW v, NEW b \in BOOLEAN,
         NEW d \in Converters, NEW g \in SUBSET Masters, NEW s \in Statuses, SendsTo(m, a, r, v, b, d, g, s)
  PROVE  Sent(m, a, r, v, b, d, g, s)
<1>1. Types
  BY DEF Inv
<1>2. /\ asked = [n \in Masters |-> asked[n]] /\ moved = [n \in Masters |-> moved[n]]
      /\ req \in [Masters -> Reqs] /\ status \in [Masters -> Statuses] /\ failed \in [Masters -> BOOLEAN]
  BY <1>1 DEF Types
<1>3. /\ asked' = [asked EXCEPT ![m] = a] /\ req' = [req EXCEPT ![m] = r] /\ moved' = [moved EXCEPT ![m] = v]
      /\ failed' = [failed EXCEPT ![m] = b] /\ converter' = d /\ held' = g /\ refused' \in SUBSET g
      /\ status' = [status EXCEPT ![m] = s] /\ table' = table /\ parts' = parts
      /\ status[m] \in {"done", "ok", "invalid"}
  BY DEF SendsTo
<1>4. asked'[m] = a /\ \A n \in Masters : n # m => asked'[n] = asked[n]
  BY <1>2, <1>3
<1>5. moved'[m] = v /\ \A n \in Masters : n # m => moved'[n] = moved[n]
  BY <1>2, <1>3
<1>6. req'[m] = r /\ req' \in [Masters -> Reqs] /\ \A n \in Masters : n # m => req'[n] = req[n]
  BY <1>2, <1>3
<1>7. status'[m] = s /\ status' \in [Masters -> Statuses] /\ \A n \in Masters : n # m => status'[n] = status[n]
  BY <1>2, <1>3
<1>8. failed'[m] = b /\ failed' \in [Masters -> BOOLEAN] /\ \A n \in Masters : n # m => failed'[n] = failed[n]
  BY <1>2, <1>3
<1>9. asked' = [n \in Masters |-> asked'[n]] /\ moved' = [n \in Masters |-> moved'[n]]
  BY <1>2, <1>3
<1>10. Types'
  BY <1>1, <1>3, <1>6, <1>7, <1>8, <1>9 DEF Types
<1>11. m \notin held
  BY <1>3 DEF Inv, HeldInv
<1>12. m # converter.ongoing_req
  <2>1. None \notin Masters
    BY NoneNotMaster
  <2> QED BY <1>3, <2>1 DEF Inv, OngoingInv
<1>13. \A i \in 1..Len(converter.stalled_req) : converter.stalled_req[i] # m
  BY <1>3 DEF Inv, StallInv
<1>14. ASSUME NEW n \in Masters, n # m PROVE MasterOK(n)'
  <2>1. MasterOK(n)
    BY DEF Inv, MasterInv
  <2> QED BY <1>3, <1>4, <1>5, <1>6, <1>7, <1>8, <1>14, <2>1, Others
<1> QED BY <1>3, <1>4, <1>5, <1>6, <1>7, <1>8, <1>10, <1>11, <1>12, <1>13, <1>14 DEF Sent

(* The converter goes on as it was.                                         *)
SameWork(d, c) ==
  /\ d.pending_req = c.pending_req /\ d.ongoing_req = c.ongoing_req /\ d.ongoing_size = c.ongoing_size
  /\ d.stalled_req = c.stalled_req /\ (d.event => c.event \/ c.pending_req # <<>>)

LEMMA SendSame ==
  ASSUME Inv, NEW m \in Masters, NEW a \in Accesses, NEW r \in Reqs, NEW v, NEW b \in BOOLEAN,
         NEW d \in Converters, NEW g \in SUBSET Masters, NEW s \in Statuses, SendsTo(m, a, r, v, b, d, g, s),
         SameWork(d, converter),
         g = held \/ (g = held \cup {m} /\ s = "pending" /\ ~b /\ v = Filled(table, a, 0, 0))
  PROVE  HeldInv' /\ StallInv' /\ OngoingInv'
<1>1. /\ Types' /\ m \notin held /\ m # converter.ongoing_req
      /\ \A i \in 1..Len(converter.stalled_req) : converter.stalled_req[i] # m
      /\ asked'[m] = a /\ req'[m] = r /\ moved'[m] = v /\ failed'[m] = b /\ status'[m] = s
      /\ converter' = d /\ held' = g /\ table' = table /\ parts' = parts
      /\ \A n \in Masters : n # m => /\ asked'[n] = asked[n] /\ req'[n] = req[n] /\ moved'[n] = moved[n]
                                     /\ failed'[n] = failed[n] /\ status'[n] = status[n] /\ MasterOK(n)'
  <2>1. Sent(m, a, r, v, b, d, g, s)
    BY SendFrame
  <2> QED BY <2>1 DEF Sent
<1>2. converter'.ongoing_req = converter.ongoing_req /\ converter'.pending_req = converter.pending_req
      /\ converter'.ongoing_size = converter.ongoing_size /\ converter'.stalled_req = converter.stalled_req
      /\ (converter'.event => converter.event \/ converter.pending_req # <<>>)
  BY <1>1 DEF SameWork
<1>3. Types
  BY DEF Inv
<1>4. ASSUME NEW n \in held'
      PROVE  status'[n] \in {"pending", "granted"} /\ ~failed'[n] /\ moved'[n] = Filled(table', asked'[n], 0, 0) /\ converter'.ongoing_req # n
  <2>1. CASE n = m
    BY <1>1, <1>2, <1>4, <2>1
  <2>2. CASE n # m
    <3>1. n \in held /\ n \in Masters
      BY <1>1, <1>3, <1>4, <2>2 DEF Types
    <3>2. status[n] \in {"pending", "granted"} /\ ~failed[n] /\ moved[n] = Filled(table, asked[n], 0, 0) /\ converter.ongoing_req # n
      BY <3>1 DEF Inv, HeldInv
    <3> QED BY <1>1, <1>2, <2>2, <3>1, <3>2
  <2> QED BY <2>1, <2>2
<1>5. HeldInv'
  BY <1>4 DEF HeldInv
<1>6. StallInv'
  <2>1. ASSUME NEW i \in 1..Len(converter.stalled_req)
        PROVE  status'[converter.stalled_req[i]] = "denied"
    <3>1. converter.stalled_req[i] \in Masters /\ converter.stalled_req[i] # m
      BY <1>1, <1>3, ConverterFields DEF Types
    <3>2. status[converter.stalled_req[i]] = "denied"
      BY DEF Inv, StallInv
    <3> QED BY <1>1, <3>1, <3>2
  <2> QED BY <1>2, <2>1 DEF Inv, StallInv
<1>7. OngoingInv'
  <2> DEFINE o == converter.ongoing_req
             q == converter.pending_req
  <2>1. converter'.event => converter'.pending_req # <<>>
    BY <1>2 DEF Inv, OngoingInv
  <2>2. o = None => q = <<>>
    BY DEF Inv, OngoingInv
  <2>3. ASSUME o # None
        PROVE  /\ status'[o] \in {"granted", "pending"} /\ Stack(q, req'[o])
               /\ failed'[o] => converter.ongoing_size > Left(q)
               /\ ~failed'[o] => /\ converter.ongoing_size = Left(q)
                                 /\ moved'[o] = Filled(table', asked'[o], Left(q), asked'[o].size)
    <3>1. o \in Masters /\ o # m
      BY <1>1, <1>3, <2>3, ConverterFields DEF Types
    <3>2. /\ status[o] \in {"granted", "pending"} /\ Stack(q, req[o])
          /\ failed[o] => converter.ongoing_size > Left(q)
          /\ ~failed[o] => /\ converter.ongoing_size = Left(q)
                           /\ moved[o] = Filled(table, asked[o], Left(q), asked[o].size)
      BY <2>3 DEF Inv, OngoingInv
    <3> HIDE DEF o, q
    <3> QED BY <1>1, <3>1, <3>2
  <2> QED BY <1>2, <2>1, <2>2, <2>3 DEF OngoingInv
<1> QED BY <1>5, <1>6, <1>7

LEMMA StatusOfOK ==
  /\ StatusOf("OK") = "ok" /\ StatusOf("INVALID") = "invalid"
  /\ StatusOf("DENIED") = "denied" /\ StatusOf("PENDING") = "pending"
BY DEF StatusOf

(* A master that is told at once.                                           *)
LEMMA ToldAtOnce ==
  ASSUME NEW m, NEW a \in Accesses, table \in Tables, table' = table, asked'[m] = a,
         PartsOK(table, a, parts[a]), failed'[m] \in BOOLEAN,
         status'[m] \in {"ok", "invalid"},
         status'[m] = "ok" => /\ req'[m].addr = a.addr /\ req'[m].size = a.size /\ req'[m].data = 0
                              /\ ~failed'[m] => req'[m].args = <<>> /\ moved'[m] = Filled(table, a, 0, a.size)
                              /\ failed'[m] => Len(parts[a]) > 1
  PROVE  MasterOK(m)'
<1>1. status'[m] # "denied" /\ status'[m] # "done" /\ status'[m] \notin Waiting
  BY DEF Waiting
<1>2. ASSUME status'[m] = "ok" PROVE Answered(m)'
  <2>1. ~failed'[m] => InFull(m)'
    <3>1. Filled(table, a, 0, a.size) = Places[table][a]
      BY FilledAll
    <3> QED BY <1>2, <3>1 DEF InFull
  <2>2. failed'[m] => SpansMappings(asked[m])'
    <3>1. failed'[m] => \E k \in 1..(a.size - 1) : Owner(table, a.addr) # Owner(table, a.addr + k)
      BY <1>2 DEF PartsOK
    <3> QED BY <3>1 DEF SpansMappings
  <2> HIDE DEF InFull, SpansMappings
  <2> QED BY <1>1, <1>2, <2>1, <2>2 DEF Answered
<1> QED BY <1>1, <1>2 DEF MasterOK

LEMMA SendKeeps ==
  ASSUME Inv, NEW m \in Masters, NEW a \in Accesses, NEW answer, Send(m, a, answer)
  PROVE  Inv'
<1> DEFINE Y(f) == router_req(Way(FirstReq(m, a), Filled(table, a, 0, 0), f, converter, held, "OK"), m, a, answer)
           q == FirstReq(m, a)
<1>1. Types /\ table \in Tables /\ converter \in Converters /\ held \in SUBSET Masters
  BY DEF Inv, Types
<1>2. PartsOK(table, a, parts[a])
  <2>1. parts[a] = PartsOf(table, a)
    BY <1>1 DEF Types
  <2> QED BY <1>1, <2>1, PartsOfOK
<1>3. q \in Reqs /\ q.args = <<>> /\ q.resp_port = m
  BY FirstReqOK
<1>4. converter.ongoing_req = None => converter.pending_req = <<>>
  BY DEF Inv, OngoingInv
<1>5. PICK f \in BOOLEAN :
        ~f /\ SendsTo(m, a, Y(f).req, Y(f).moved, Y(f).failed, Y(f).converter, Y(f).held, StatusOf(Y(f).result))
  BY <1>1, SendIs
<1> DEFINE y == Y(f)
<1> HIDE DEF Y
<1>6. ASSUME NEW r, NEW v, NEW b, NEW d, NEW g, NEW s, y = Way(r, v, b, d, g, s)
      PROVE  SendsTo(m, a, r, v, b, d, g, StatusOf(s))
  <2>1. y.req = r /\ y.moved = v /\ y.failed = b /\ y.converter = d /\ y.held = g /\ y.result = s
    BY <1>6, WayFields
  <2> HIDE DEF y
  <2> QED BY <1>5, <2>1 DEF y
<1>7. ASSUME Types', MasterOK(m)', \A n \in Masters : n # m => MasterOK(n)', HeldInv', StallInv', OngoingInv'
      PROVE  Inv'
  BY <1>7 DEF Inv, MasterInv
<1>8. SameWork(converter, converter)
  BY DEF SameWork
<1>9. CASE \A i \in 1..Len(parts[a]) : parts[a][i].entry.target # "converter"
  <2>1. PICK r \in Reqs, b \in BOOLEAN, s \in {"OK", "INVALID"} : \E v :
           /\ y = Way(r, v, b, converter, held, s)
           /\ s = "OK" => /\ r.addr = a.addr /\ r.size = a.size /\ r.data = 0
                          /\ ~b => r.args = <<>> /\ v = Filled(table, a, 0, a.size)
                          /\ b => Len(parts[a]) > 1
    BY <1>1, <1>2, <1>3, <1>5, <1>9, RouterDirect DEF Y
  <2>2. PICK v :
           /\ y = Way(r, v, b, converter, held, s)
           /\ s = "OK" => /\ r.addr = a.addr /\ r.size = a.size /\ r.data = 0
                          /\ ~b => r.args = <<>> /\ v = Filled(table, a, 0, a.size)
                          /\ b => Len(parts[a]) > 1
    BY <2>1
  <2> DEFINE u == StatusOf(s)
  <2>3. u \in {"ok", "invalid"} /\ u \in Statuses /\ (u = "ok" => s = "OK")
    BY StatusOfOK DEF Statuses
  <2>4. SendsTo(m, a, r, v, b, converter, held, u)
    BY <1>6, <2>2
  <2> HIDE DEF u, y
  <2>5. /\ Types' /\ asked'[m] = a /\ req'[m] = r /\ moved'[m] = v /\ failed'[m] = b /\ status'[m] = u /\ table' = table
        /\ \A n \in Masters : n # m => MasterOK(n)'
    <3>1. Sent(m, a, r, v, b, converter, held, u)
      BY <1>1, <2>3, <2>4, SendFrame
    <3> QED BY <3>1 DEF Sent
  <2>6. MasterOK(m)'
    BY <1>1, <1>2, <2>2, <2>3, <2>5, ToldAtOnce
  <2>7. HeldInv' /\ StallInv' /\ OngoingInv'
    BY <1>1, <1>8, <2>3, <2>4, SendSame
  <2> QED BY <1>7, <2>5, <2>6, <2>7
<1>10. CASE \E j \in 1..Len(parts[a]) : parts[a][j].entry.target = "converter"
  <2>1. PICK j \in 1..Len(parts[a]) : parts[a][j].entry.target = "converter"
    BY <1>10
  <2>2. \/ Stalled(y, table, a, m, converter, held) \/ Chunked(y, table, a, m, converter, held)
        \/ AtOnce(y, table, a, m, converter, held) \/ PassedOn(y, table, a, m, converter, held)
    BY <1>1, <1>2, <1>3, <1>4, <1>5, <2>1, RouterConverter DEF Y
  <2> HIDE DEF y
  <2> DEFINE v == Filled(table, a, 0, 0)
  <2>3. CASE Stalled(y, table, a, m, converter, held)
    <3>1. PICK r \in Reqs, b \in BOOLEAN, d \in Converters :
            /\ y = Way(r, v, b, d, held, "DENIED") /\ ~b /\ Forwarded(table, a, r, m)
            /\ converter.ongoing_req # None
            /\ d.pending_req = converter.pending_req /\ d.ongoing_req = converter.ongoing_req
            /\ d.ongoing_size = converter.ongoing_size
            /\ d.event = converter.event /\ d.stalled_req = Append(converter.stalled_req, m)
      BY <2>3 DEF Stalled
    <3> HIDE DEF v
    <3>2. SendsTo(m, a, r, v, b, d, held, "denied") /\ "denied" \in Statuses
      BY <1>6, <3>1, StatusOfOK DEF Statuses
    <3>3. /\ Types' /\ m \notin held /\ m # converter.ongoing_req
          /\ \A i \in 1..Len(converter.stalled_req) : converter.stalled_req[i] # m
          /\ asked'[m] = a /\ req'[m] = r /\ moved'[m] = v /\ failed'[m] = b /\ status'[m] = "denied"
          /\ converter' = d /\ held' = held /\ table' = table
          /\ \A n \in Masters : n # m => /\ asked'[n] = asked[n] /\ req'[n] = req[n] /\ moved'[n] = moved[n]
                                         /\ failed'[n] = failed[n] /\ status'[n] = status[n] /\ MasterOK(n)'
      <4>1. Sent(m, a, r, v, b, d, held, "denied")
        BY <1>1, <3>2, SendFrame
      <4> QED BY <4>1 DEF Sent
    <3>4. MasterOK(m)'
      BY <3>1, <3>3 DEF MasterOK, Waiting, v
    <3>5. HeldInv'
      <4>1. ASSUME NEW n \in held
            PROVE  status'[n] \in {"pending", "granted"} /\ ~failed'[n] /\ moved'[n] = Filled(table', asked'[n], 0, 0) /\ converter'.ongoing_req # n
        <5>1. n \in Masters /\ n # m
          BY <1>1, <3>3
        <5>2. status[n] \in {"pending", "granted"} /\ ~failed[n] /\ moved[n] = Filled(table, asked[n], 0, 0) /\ converter.ongoing_req # n
          BY DEF Inv, HeldInv
        <5> QED BY <3>1, <3>3, <5>1, <5>2
      <4> QED BY <3>3, <4>1 DEF HeldInv
    <3>6. StallInv'
      <4> DEFINE st == converter.stalled_req
                 N == Len(st)
                 st2 == d.stalled_req
      <4>1. st \in Seq(Masters) /\ N \in Nat
        BY <1>1, ConverterFields
      <4>2. st2 = Append(st, m)
        BY <3>1
      <4>3. \A i \in 1..N : st[i] \in Masters /\ st[i] # m /\ status[st[i]] = "denied"
        BY <3>3, <4>1 DEF Inv, StallInv
      <4>4. \A i, k \in 1..N : st[i] = st[k] => i = k
        BY DEF Inv, StallInv
      <4> HIDE DEF st, st2
      <4>5. Len(st2) = N + 1 /\ st2[N + 1] = m /\ \A i \in 1..N : st2[i] = st[i]
        BY <4>1, <4>2
      <4>6. \A i \in 1..(N + 1) : i = N + 1 \/ i \in 1..N
        BY <4>1
      <4> HIDE DEF N
      <4>7. ASSUME NEW i \in 1..Len(st2), NEW k \in 1..Len(st2), st2[i] = st2[k] PROVE i = k
        BY <4>3, <4>4, <4>5, <4>6, <4>7
      <4>8. ASSUME NEW i \in 1..Len(st2) PROVE status'[st2[i]] = "denied"
        BY <3>3, <4>3, <4>5, <4>6
      <4>9. converter'.stalled_req = st2
        BY <3>3 DEF st2
      <4> QED BY <4>7, <4>8, <4>9 DEF StallInv
    <3>7. OngoingInv'
      <4> DEFINE o == converter.ongoing_req
                 p == converter.pending_req
      <4>1. o \in Masters /\ o # m
        BY <1>1, <3>1, <3>3, ConverterFields
      <4>2. /\ status[o] \in {"granted", "pending"} /\ Stack(p, req[o]) /\ (converter.event => p # <<>>)
            /\ failed[o] => converter.ongoing_size > Left(p)
            /\ ~failed[o] => /\ converter.ongoing_size = Left(p)
                             /\ moved[o] = Filled(table, asked[o], Left(p), asked[o].size)
        BY <3>1 DEF Inv, OngoingInv
      <4>3. /\ converter'.ongoing_req = o /\ converter'.pending_req = p /\ o # None
            /\ converter'.ongoing_size = converter.ongoing_size /\ converter'.event = converter.event
        BY <3>1, <3>3
      <4> HIDE DEF o, p
      <4>4. /\ status'[o] \in {"granted", "pending"} /\ Stack(p, req'[o])
            /\ failed'[o] => converter.ongoing_size > Left(p)
            /\ ~failed'[o] => /\ converter.ongoing_size = Left(p)
                              /\ moved'[o] = Filled(table', asked'[o], Left(p), asked'[o].size)
        BY <3>3, <4>1, <4>2
      <4> QED BY <4>2, <4>3, <4>4 DEF OngoingInv
    <3> QED BY <1>7, <3>3, <3>4, <3>5, <3>6, <3>7
  <2>4. CASE Chunked(y, table, a, m, converter, held)
    <3>1. PICK r \in Reqs, b \in BOOLEAN, d \in Converters :
            /\ y = Way(r, v, b, d, held, "PENDING") /\ ~b /\ Forwarded(table, a, r, m)
            /\ converter.ongoing_req = None
            /\ d.ongoing_req = m /\ d.ongoing_size = r.size /\ d.stalled_req = converter.stalled_req
            /\ d.pending_req # <<>> /\ Stack(d.pending_req, r) /\ Left(d.pending_req) = r.size
      BY <2>4 DEF Chunked
    <3> HIDE DEF v
    <3>2. SendsTo(m, a, r, v, b, d, held, "pending") /\ "pending" \in Statuses
      BY <1>6, <3>1, StatusOfOK DEF Statuses
    <3>3. /\ Types' /\ m \notin held /\ m # converter.ongoing_req
          /\ \A i \in 1..Len(converter.stalled_req) : converter.stalled_req[i] # m
          /\ asked'[m] = a /\ req'[m] = r /\ moved'[m] = v /\ failed'[m] = b /\ status'[m] = "pending"
          /\ converter' = d /\ held' = held /\ table' = table
          /\ \A n \in Masters : n # m => /\ asked'[n] = asked[n] /\ req'[n] = req[n] /\ moved'[n] = moved[n]
                                         /\ failed'[n] = failed[n] /\ status'[n] = status[n] /\ MasterOK(n)'
      <4>1. Sent(m, a, r, v, b, d, held, "pending")
        BY <1>1, <3>2, SendFrame
      <4> QED BY <4>1 DEF Sent
    <3>4. MasterOK(m)'
      BY <3>1, <3>3 DEF MasterOK, Waiting
    <3>5. HeldInv'
      <4>1. ASSUME NEW n \in held
            PROVE  status'[n] \in {"pending", "granted"} /\ ~failed'[n] /\ moved'[n] = Filled(table', asked'[n], 0, 0) /\ converter'.ongoing_req # n
        <5>1. n \in Masters /\ n # m
          BY <1>1, <3>3
        <5>2. status[n] \in {"pending", "granted"} /\ ~failed[n] /\ moved[n] = Filled(table, asked[n], 0, 0)
          BY DEF Inv, HeldInv
        <5> QED BY <3>1, <3>3, <5>1, <5>2
      <4> QED BY <3>3, <4>1 DEF HeldInv
    <3>6. StallInv'
      <4>1. ASSUME NEW i \in 1..Len(converter.stalled_req)
            PROVE  status'[converter.stalled_req[i]] = "denied"
        <5>1. converter.stalled_req[i] \in Masters /\ converter.stalled_req[i] # m
          BY <1>1, <3>3, ConverterFields
        <5>2. status[converter.stalled_req[i]] = "denied"
          BY DEF Inv, StallInv
        <5> QED BY <3>3, <5>1, <5>2
      <4>2. converter'.stalled_req = converter.stalled_req
        BY <3>1, <3>3
      <4> QED BY <4>1, <4>2 DEF Inv, StallInv
    <3>7. OngoingInv'
      <4>1. a.size \in Nat /\ r.size = a.size
        BY <1>1, <3>1, AccessAssumption DEF Forwarded
      <4>2. v = Filled(table, a, a.size, a.size)
        BY <4>1, FilledNone DEF v
      <4>3. m # None
        BY NoneNotMaster
      <4>4. converter'.ongoing_req = m /\ converter'.pending_req = d.pending_req /\ converter'.ongoing_size = r.size
        BY <3>1, <3>3
      <4>5. /\ status'[m] \in {"granted", "pending"} /\ Stack(d.pending_req, req'[m])
            /\ ~failed'[m] /\ r.size = Left(d.pending_req)
            /\ moved'[m] = Filled(table', asked'[m], Left(d.pending_req), asked'[m].size)
        BY <3>1, <3>3, <4>1, <4>2
      <4> QED BY <3>1, <4>3, <4>4, <4>5 DEF OngoingInv
    <3> QED BY <1>7, <3>3, <3>4, <3>5, <3>6, <3>7
  <2>5. CASE AtOnce(y, table, a, m, converter, held)
    <3>1. PICK r \in Reqs, b \in BOOLEAN :
            /\ y = Way(r, Filled(table, a, 0, a.size), b, converter, held, "OK") /\ ~b
            /\ r.addr = a.addr /\ r.size = a.size /\ r.data = 0 /\ r.args = <<>>
      BY <2>5 DEF AtOnce
    <3> DEFINE v2 == Filled(table, a, 0, a.size)
    <3>2. SendsTo(m, a, r, v2, b, converter, held, "ok") /\ "ok" \in Statuses
      BY <1>6, <3>1, StatusOfOK DEF Statuses
    <3> HIDE DEF v2
    <3>3. /\ Types' /\ asked'[m] = a /\ req'[m] = r /\ moved'[m] = v2 /\ failed'[m] = b /\ status'[m] = "ok" /\ table' = table
          /\ \A n \in Masters : n # m => MasterOK(n)'
      <4>1. Sent(m, a, r, v2, b, converter, held, "ok")
        BY <1>1, <3>2, SendFrame
      <4> QED BY <4>1 DEF Sent
    <3>4. MasterOK(m)'
      BY <1>1, <1>2, <3>1, <3>3, ToldAtOnce DEF v2
    <3>5. HeldInv' /\ StallInv' /\ OngoingInv'
      BY <1>1, <1>8, <3>2, SendSame
    <3> QED BY <1>7, <3>3, <3>4, <3>5
  <2>6. CASE PassedOn(y, table, a, m, converter, held)
    <3>1. PICK r \in Reqs, b \in BOOLEAN, d \in Converters, g \in {held, held \cup {m}} :
            /\ y = Way(r, v, b, d, g, "PENDING") /\ Forwarded(table, a, r, m)
            /\ converter.ongoing_req = None /\ (g = held \/ ~b)
            /\ d.pending_req = converter.pending_req /\ d.ongoing_req = converter.ongoing_req
            /\ d.ongoing_size = converter.ongoing_size
            /\ d.stalled_req = converter.stalled_req /\ (d.event => converter.event \/ converter.pending_req # <<>>)
      BY <2>6 DEF PassedOn
    <3>2. SameWork(d, converter) /\ g \in SUBSET Masters
      BY <1>1, <3>1 DEF SameWork
    <3> HIDE DEF v
    <3>3. SendsTo(m, a, r, v, b, d, g, "pending") /\ "pending" \in Statuses
      BY <1>6, <3>1, StatusOfOK DEF Statuses
    <3>4. /\ Types' /\ asked'[m] = a /\ req'[m] = r /\ moved'[m] = v /\ failed'[m] = b /\ status'[m] = "pending" /\ table' = table
          /\ \A n \in Masters : n # m => MasterOK(n)'
      <4>1. Sent(m, a, r, v, b, d, g, "pending")
        BY <3>2, <3>3, SendFrame
      <4> QED BY <4>1 DEF Sent
    <3>5. MasterOK(m)'
      BY <3>1, <3>4 DEF MasterOK, Waiting
    <3>6. g = held \/ (g = held \cup {m} /\ "pending" = "pending" /\ ~b /\ v = Filled(table, a, 0, 0))
      BY <3>1 DEF v
    <3>7. HeldInv' /\ StallInv' /\ OngoingInv'
      BY <3>2, <3>3, <3>6, SendSame
    <3> QED BY <1>7, <3>4, <3>5, <3>7
  <2> QED BY <2>2, <2>3, <2>4, <2>5, <2>6
<1> QED BY <1>9, <1>10

-----------------------------------------------------------------------------
(* The event of the converter.                                              *)

LEMMA StackPop ==
  ASSUME NEW q \in Seq(Chunks), q # <<>>, NEW r, r.size \in Nat, Stack(q, r)
  PROVE  /\ Tail(q) \in Seq(Chunks) /\ Stack(Tail(q), r) /\ Head(q) \in Chunks
         /\ Head(q).size \in Nat /\ Head(q).size # 0 /\ Head(q).data \in Nat
         /\ Left(Tail(q)) = Head(q).data /\ Left(q) = Head(q).data + Head(q).size
         /\ Head(q).addr = r.addr + Head(q).data
         /\ Left(Tail(q)) = 0 => Tail(q) = <<>>
<1> DEFINE p == Tail(q)
           N == Len(q)
<1>1. N \in Nat /\ N > 0 /\ Head(q) = q[1] /\ 1 \in 1..N
  OBVIOUS
<1>2. p \in Seq(Chunks) /\ Len(p) = N - 1 /\ \A i \in 1..(N - 1) : p[i] = q[i + 1]
  OBVIOUS
<1>3. \A i \in 1..N : q[i] \in Chunks
  OBVIOUS
<1>4. \A i \in 1..N : q[i].size \in Nat /\ q[i].data \in Nat
  BY <1>3 DEF Chunks
<1>5. ASSUME NEW i \in 1..N
      PROVE  /\ q[i].size # 0 /\ q[i].addr = r.addr + q[i].data
             /\ q[i].data = IF i = N THEN 0 ELSE q[i + 1].data + q[i + 1].size
  BY DEF Stack
<1> HIDE DEF p, N
<1>6. Left(q) = q[1].data + q[1].size /\ Left(q) <= r.size
  BY DEF Left, Stack
<1>7. ASSUME NEW i \in 1..Len(p)
      PROVE  /\ p[i].size # 0 /\ p[i].addr = r.addr + p[i].data
             /\ p[i].data = IF i = Len(p) THEN 0 ELSE p[i + 1].data + p[i + 1].size
  <2>1. i \in 1..(N - 1) /\ i + 1 \in 1..N /\ (i = Len(p) <=> i + 1 = N)
    BY <1>1, <1>2
  <2>2. p[i] = q[i + 1]
    BY <1>2, <2>1
  <2>3. i # Len(p) => i + 1 \in 1..(N - 1)
    BY <1>1, <1>2, <2>1
  <2>4. i # Len(p) => p[i + 1] = q[(i + 1) + 1]
    BY <1>2, <2>3
  <2> QED BY <1>5, <2>1, <2>2, <2>4
<1>8. Left(p) = q[1].data
  <2>1. CASE p = <<>>
    <3>1. N = 1
      BY <1>1, <1>2, <2>1
    <3> QED BY <1>1, <1>5, <2>1, <3>1 DEF Left
  <2>2. CASE p # <<>>
    <3>1. N # 1 /\ 1 \in 1..(N - 1)
      BY <1>1, <1>2, <2>2
    <3>2. p[1] = q[1 + 1] /\ q[1].data = q[1 + 1].data + q[1 + 1].size
      BY <1>1, <1>2, <1>5, <3>1
    <3> QED BY <2>2, <3>2 DEF Left
  <2> QED BY <2>1, <2>2
<1>9. Left(p) <= r.size
  BY <1>1, <1>4, <1>6, <1>8
<1>10. Stack(p, r)
  BY <1>7, <1>9 DEF Stack
<1>11. p # <<>> => Left(p) # 0
  <2> SUFFICES ASSUME p # <<>> PROVE Left(p) # 0
    OBVIOUS
  <2>1. 1 \in 1..Len(p) /\ p[1] \in Chunks
    BY <1>2
  <2>2. p[1].size \in Nat /\ p[1].data \in Nat /\ p[1].size # 0
    BY <1>7, <2>1 DEF Chunks
  <2> QED BY <2>2 DEF Left
<1> QED BY <1>1, <1>2, <1>3, <1>4, <1>5, <1>6, <1>8, <1>10, <1>11 DEF p

(* A chunk that is answered.                                                *)
LEMMA ChunkMoves ==
  ASSUME NEW t \in Tables, NEW a, NEW r, NEW m, Forwarded(t, a, r, m), r.addr \in Int,
         NEW ch \in Chunks, ch.data + ch.size <= a.size, ch.addr = r.addr + ch.data
  PROVE  Copy(Filled(t, a, ch.data + ch.size, a.size), "slave", ch.addr, ch.data, ch.size) = Filled(t, a, ch.data, a.size)
<1> DEFINE ra == r.addr
           x == ch.data
           z == ch.size
           ca == ch.addr
<1>1. a \in Accesses /\ a.size \in Nat
  BY AccessAssumption DEF Forwarded
<1>2. x \in Nat /\ z \in Nat /\ ca \in Int /\ ra \in Int /\ ca = ra + x
  BY DEF Chunks
<1>3. ASSUME NEW k \in 1..a.size PROVE Place(t, a.addr + k - 1) = <<"slave", ca + k - 1 - x>>
  <2>1. Place(t, a.addr + k - 1) = <<"slave", ra + (k - 1)>>
    BY DEF Forwarded
  <2> HIDE DEF ra, x, z, ca
  <2>2. k \in Int
    OBVIOUS
  <2>3. ra + (k - 1) = ca + k - 1 - x
    BY <1>2, <2>2
  <2> QED BY <2>1, <2>3
<1>4. x + z <= a.size
  OBVIOUS
<1> HIDE DEF ra, x, z, ca
<1>5. Copy(Filled(t, a, x + z, a.size), "slave", ca, x, z) = Filled(t, a, x, a.size)
  BY <1>1, <1>2, <1>3, <1>4, CopyBefore
<1> QED BY <1>5 DEF x, z, ca

(* The fields of the converter after a chunk was taken.                     *)
LEMMA TakeChunk ==
  ASSUME NEW c \in Converters, c.pending_req # <<>>, NEW z \in Int
  PROVE  LET d == [c EXCEPT !.pending_req = Tail(@), !.event = FALSE, !.ongoing_size = z]
         IN  /\ d \in Converters /\ d.pending_req = Tail(c.pending_req) /\ ~d.event /\ d.ongoing_size = z
             /\ d.ongoing_req = c.ongoing_req /\ d.stalled_req = c.stalled_req
<1> DEFINE p == Tail(c.pending_req)
           no == FALSE
           c1 == [c EXCEPT !.pending_req = p]
           c2 == [c1 EXCEPT !.event = no]
           c3 == [c2 EXCEPT !.ongoing_size = z]
<1>1. p \in Seq(Chunks)
  BY ConverterFields
<1>2. no \in BOOLEAN /\ ~no
  OBVIOUS
<1>3. [c EXCEPT !.pending_req = Tail(@), !.event = FALSE, !.ongoing_size = z] = c3
  OBVIOUS
<1> HIDE DEF p, no
<1>4. c1 \in Converters /\ c1.pending_req = p /\ c1.ongoing_req = c.ongoing_req /\ c1.stalled_req = c.stalled_req
  BY <1>1 DEF Converters
<1> HIDE DEF c1
<1>5. /\ c2 \in Converters /\ c2.pending_req = p /\ c2.ongoing_req = c.ongoing_req /\ c2.stalled_req = c.stalled_req
      /\ c2.event = no
  BY <1>2, <1>4 DEF Converters
<1> HIDE DEF c2
<1>6. /\ c3 \in Converters /\ c3.pending_req = p /\ c3.ongoing_req = c.ongoing_req /\ c3.stalled_req = c.stalled_req
      /\ c3.event = no /\ c3.ongoing_size = z
  BY <1>5 DEF Converters
<1> HIDE DEF c3
<1> QED BY <1>2, <1>3, <1>6 DEF p

(* The request the converter works on when its event comes.                 *)
LEMMA OngoingFacts ==
  ASSUME Inv, converter.event
  PROVE  LET m == converter.ongoing_req  q == converter.pending_req  r == req[m]  a == asked[m]
         IN  /\ m \in Masters /\ m # None /\ q # <<>> /\ q \in Seq(Chunks) /\ status[m] \in {"granted", "pending"}
             /\ Stack(q, r) /\ Forwarded(table, a, r, m) /\ r \in Reqs /\ r.size \in Nat /\ r.addr \in Int
             /\ m \notin held /\ \A i \in 1..Len(converter.stalled_req) : converter.stalled_req[i] # m
             /\ failed[m] => converter.ongoing_size > Left(q)
             /\ ~failed[m] => converter.ongoing_size = Left(q) /\ moved[m] = Filled(table, a, Left(q), a.size)
<1> DEFINE m == converter.ongoing_req
           q == converter.pending_req
<1>1. q # <<>> /\ m # None
  BY DEF Inv, OngoingInv
<1>2. Types /\ converter \in Converters
  BY DEF Inv, Types
<1>3. m \in Masters /\ q \in Seq(Chunks)
  BY <1>1, <1>2, ConverterFields
<1>4. /\ status[m] \in {"granted", "pending"} /\ Stack(q, req[m])
      /\ failed[m] => converter.ongoing_size > Left(q)
      /\ ~failed[m] => converter.ongoing_size = Left(q) /\ moved[m] = Filled(table, asked[m], Left(q), asked[m].size)
  BY <1>1 DEF Inv, OngoingInv
<1>5. Forwarded(table, asked[m], req[m], m)
  <2>1. MasterOK(m)
    BY <1>3 DEF Inv, MasterInv
  <2> QED BY <1>4, <2>1 DEF MasterOK, Waiting
<1>6. req[m] \in Reqs
  BY <1>2, <1>3 DEF Types
<1>7. req[m].size \in Nat /\ req[m].addr \in Int
  BY <1>6 DEF Reqs
<1>8. m \notin held
  BY DEF Inv, HeldInv
<1>9. \A i \in 1..Len(converter.stalled_req) : converter.stalled_req[i] # m
  BY <1>4 DEF Inv, StallInv
<1> QED BY <1>1, <1>3, <1>4, <1>5, <1>6, <1>7, <1>8, <1>9

LEMMA ReachedOK ==
  ASSUME NEW m \in Masters, req[m].args = <<m>>
  PROVE  router_response(m) = "done" /\ router_grant(m) = "granted"
<1>1. req[m].args # <<>> /\ Last(req[m].args) = m
  BY DEF Last
<1> QED BY <1>1 DEF router_response, router_grant, Reached

LEMMA PopReq ==
  ASSUME NEW m \in Masters, NEW r \in Reqs, r.args = <<m>>
  PROVE  [r EXCEPT !.args = Front(@)] \in Reqs /\ [r EXCEPT !.args = Front(@)].args = <<>>
<1> DEFINE e == <<>>
           u == [r EXCEPT !.args = e]
<1>1. m \in Ports /\ e \in Seq(Ports) /\ <<m>> = Append(e, m)
  BY DEF Ports
<1>2. Front(r.args) = e
  BY <1>1, PopPush
<1>3. [r EXCEPT !.args = Front(@)] = u
  BY <1>2
<1>4. u \in Reqs /\ u.args = e
  <2> HIDE DEF e
  <2> QED BY <1>1 DEF Reqs
<1> QED BY <1>3, <1>4

(* A master whose request was answered later.                               *)
LEMMA ToldLater ==
  ASSUME NEW m, NEW a \in Accesses, table \in Tables, table' = table, asked'[m] = a,
         status'[m] = "done", req'[m].args = <<>>, moved'[m] = Filled(table, a, 0, a.size)
  PROVE  MasterOK(m)'
<1>1. status'[m] # "ok" /\ status'[m] # "denied" /\ status'[m] \notin Waiting
  BY DEF Waiting
<1>2. InFull(m)'
  <2>1. Filled(table, a, 0, a.size) = Places[table][a]
    BY FilledAll
  <2> QED BY <2>1 DEF InFull
<1>3. Answered(m)'
  <2> HIDE DEF InFull, SpansMappings
  <2> QED BY <1>1, <1>2 DEF Answered
<1> QED BY <1>1, <1>3 DEF MasterOK

LEMMA EventTypes ==
  ASSUME Types, table' = table, parts' = parts, asked' = asked, held' \in SUBSET Masters, refused' \in SUBSET held', converter' \in Converters,
         req' \in [Masters -> Reqs], status' \in [Masters -> Statuses], failed' \in [Masters -> BOOLEAN],
         moved' = [n \in Masters |-> moved'[n]]
  PROVE  Types'
BY DEF Types

(* The chunk fails.                                                         *)
LEMMA ChunkFailsKeeps ==
  ASSUME Inv, converter.event, ChunkFails, UNCHANGED <<table, parts, asked, held, refused, powered_up, accesses>>
  PROVE  Inv'
<1> DEFINE c == converter
           m == converter.ongoing_req
           q == converter.pending_req
           p == Tail(q)
           z == converter.ongoing_size
           c1 == [c EXCEPT !.pending_req = Tail(@), !.event = FALSE]
           d == check_state(c1)
<1>1. /\ m \in Masters /\ m # None /\ q # <<>> /\ q \in Seq(Chunks) /\ status[m] \in {"granted", "pending"}
      /\ Stack(q, req[m]) /\ Forwarded(table, asked[m], req[m], m) /\ req[m].size \in Nat
      /\ m \notin held /\ \A i \in 1..Len(c.stalled_req) : c.stalled_req[i] # m
      /\ failed[m] => z > Left(q)
      /\ ~failed[m] => z = Left(q)
  BY OngoingFacts
<1>2. Types /\ c \in Converters /\ z \in Int /\ failed \in [Masters -> BOOLEAN]
  BY ConverterFields DEF Inv, Types
<1>3. /\ Stack(p, req[m]) /\ Head(q).size \in Nat /\ Head(q).size # 0 /\ Head(q).data \in Nat
      /\ Left(p) = Head(q).data /\ Left(q) = Head(q).data + Head(q).size
  BY <1>1, StackPop
<1>4. z > Left(p)
  <2> DEFINE x == Head(q).data
             y == Head(q).size
  <2>1. x \in Nat /\ y \in Nat /\ y # 0 /\ Left(p) = x /\ Left(q) = x + y
    BY <1>3
  <2>2. z = Left(q) \/ z > Left(q)
    BY <1>1, <1>2
  <2> HIDE DEF x, y, z
  <2> QED BY <1>2, <2>1, <2>2
<1>5. /\ c1 \in Converters /\ c1.pending_req = p /\ ~c1.event /\ c1.ongoing_size = z
      /\ c1.ongoing_req = m /\ c1.stalled_req = c.stalled_req
  <2> DEFINE pp == p
             no == FALSE
             b1 == [c EXCEPT !.pending_req = pp]
             b2 == [b1 EXCEPT !.event = no]
  <2>1. pp \in Seq(Chunks) /\ no \in BOOLEAN /\ ~no
    BY <1>1
  <2>2. c1 = b2
    OBVIOUS
  <2> HIDE DEF pp, no, c1, c
  <2>3. /\ b1 \in Converters /\ b1.pending_req = pp /\ b1.ongoing_req = c.ongoing_req /\ b1.ongoing_size = c.ongoing_size
        /\ b1.stalled_req = c.stalled_req
    BY <1>2, <2>1 DEF Converters
  <2> HIDE DEF b1
  <2>4. /\ b2 \in Converters /\ b2.pending_req = pp /\ b2.ongoing_req = c.ongoing_req /\ b2.ongoing_size = c.ongoing_size
        /\ b2.stalled_req = c.stalled_req /\ b2.event = no
    BY <2>1, <2>3 DEF Converters
  <2> HIDE DEF b2
  <2> QED BY <2>1, <2>2, <2>4 DEF pp, c
<1> HIDE DEF c1
<1>6. /\ d \in Converters /\ d.pending_req = p /\ d.ongoing_req = m /\ d.ongoing_size = z
      /\ d.stalled_req = c.stalled_req /\ (d.event => p # <<>>)
  BY <1>5, CheckOK
<1> HIDE DEF d
<1>7. /\ converter' = d /\ failed' = [failed EXCEPT ![m] = TRUE] /\ moved' = moved /\ status' = status /\ req' = req
      /\ table' = table /\ parts' = parts /\ asked' = asked /\ held' = held
  BY DEF ChunkFails, c1, d
<1>8. failed'[m] /\ failed' \in [Masters -> BOOLEAN] /\ \A n \in Masters : n # m => failed'[n] = failed[n]
  BY <1>1, <1>2, <1>7
<1>9. Types'
  <2>1. /\ held \in SUBSET Masters /\ req \in [Masters -> Reqs] /\ status \in [Masters -> Statuses]
        /\ moved = [n \in Masters |-> moved[n]] /\ refused' \in SUBSET held'
    BY <1>2 DEF Types
  <2> QED BY <1>2, <1>6, <1>7, <1>8, <2>1, EventTypes
<1>10. MasterInv'
  <2>1. ASSUME NEW n \in Masters PROVE MasterOK(n)'
    <3>1. MasterOK(n)
      BY DEF Inv, MasterInv
    <3>2. CASE n # m
      BY <1>7, <1>8, <3>1, <3>2, Others
    <3>3. CASE n = m
      <4>1. status'[n] \notin {"ok", "done", "denied"}
        BY <1>1, <1>7, <3>3
      <4>2. Forwarded(table', asked'[n], req'[n], n)
        BY <1>1, <1>7, <3>3
      <4> QED BY <4>1, <4>2 DEF MasterOK
    <3> QED BY <3>2, <3>3
  <2> QED BY <2>1 DEF MasterInv
<1>11. HeldInv'
  <2>1. ASSUME NEW n \in held
        PROVE  status'[n] \in {"pending", "granted"} /\ ~failed'[n] /\ moved'[n] = Filled(table', asked'[n], 0, 0) /\ converter'.ongoing_req # n
    <3>1. n \in Masters /\ n # m
      BY <1>1, <1>2 DEF Types
    <3>2. status[n] \in {"pending", "granted"} /\ ~failed[n] /\ moved[n] = Filled(table, asked[n], 0, 0)
      BY DEF Inv, HeldInv
    <3> QED BY <1>6, <1>7, <1>8, <3>1, <3>2
  <2> QED BY <1>7, <2>1 DEF HeldInv
<1>12. StallInv'
  BY <1>6, <1>7 DEF Inv, StallInv
<1>13. OngoingInv'
  <2>1. /\ converter'.ongoing_req = m /\ converter'.pending_req = p /\ converter'.ongoing_size = z
        /\ (converter'.event => p # <<>>)
    BY <1>6, <1>7
  <2>2. status'[m] \in {"granted", "pending"} /\ Stack(p, req'[m])
    BY <1>1, <1>3, <1>7
  <2> HIDE DEF m, p, z
  <2> QED BY <1>1, <1>4, <1>8, <2>1, <2>2 DEF OngoingInv
<1> QED BY <1>9, <1>10, <1>11, <1>12, <1>13 DEF Inv

(* The chunk is answered.                                                   *)
LEMMA ChunkOkKeeps ==
  ASSUME Inv, converter.event, ChunkOk, UNCHANGED <<table, parts, asked, held, refused, powered_up, accesses>>
  PROVE  /\ Inv'
         /\ \A n \in Masters : \/ status'[n] = status[n]
                               \/ status[n] = "denied" /\ status'[n] = "granted"
                               \/ status[n] \in {"granted", "pending"} /\ status'[n] = "done"
<1>0. PICK m \in Masters : m = converter.ongoing_req
  BY OngoingFacts
<1> DEFINE c == converter
           q == converter.pending_req
           ch == Head(q)
           p == Tail(q)
           st == converter.stalled_req
           z == converter.ongoing_size - ch.size
           v == Copy(moved[m], "slave", ch.addr, ch.data, ch.size)
           sent == [c EXCEPT !.pending_req = Tail(@), !.event = FALSE, !.ongoing_size = z]
<1>1. /\ m \in Masters /\ m # None /\ q # <<>> /\ q \in Seq(Chunks) /\ status[m] \in {"granted", "pending"}
      /\ Stack(q, req[m]) /\ Forwarded(table, asked[m], req[m], m) /\ req[m] \in Reqs /\ req[m].size \in Nat /\ req[m].addr \in Int
      /\ m \notin held /\ \A i \in 1..Len(st) : st[i] # m
      /\ failed[m] => converter.ongoing_size > Left(q)
      /\ ~failed[m] => converter.ongoing_size = Left(q) /\ moved[m] = Filled(table, asked[m], Left(q), asked[m].size)
  BY <1>0, OngoingFacts
<1>2. /\ Types /\ c \in Converters /\ converter.ongoing_size \in Int /\ st \in Seq(Masters) /\ table \in Tables
      /\ failed \in [Masters -> BOOLEAN] /\ req \in [Masters -> Reqs] /\ status \in [Masters -> Statuses]
      /\ moved = [n \in Masters |-> moved[n]] /\ held \in SUBSET Masters
  BY ConverterFields DEF Inv, Types
<1>3. /\ Stack(p, req[m]) /\ ch \in Chunks /\ ch.size \in Nat /\ ch.size # 0 /\ ch.data \in Nat
      /\ Left(p) = ch.data /\ Left(q) = ch.data + ch.size /\ ch.addr = req[m].addr + ch.data
      /\ (Left(p) = 0 => p = <<>>)
  BY <1>1, StackPop
<1>4. z \in Int /\ (failed[m] => z > Left(p)) /\ (~failed[m] => z = Left(p)) /\ Left(p) \in Nat
  <2> DEFINE x == ch.data
             y == ch.size
             os == converter.ongoing_size
  <2>1. /\ x \in Nat /\ y \in Nat /\ Left(p) = x /\ Left(q) = x + y /\ os \in Int /\ z = os - y
        /\ (failed[m] => os > Left(q)) /\ (~failed[m] => os = Left(q))
    BY <1>1, <1>2, <1>3
  <2> HIDE DEF x, y, os, z
  <2> QED BY <2>1
<1>5. ~failed[m] => v = Filled(table, asked[m], Left(p), asked[m].size)
  <2>1. Left(q) <= req[m].size /\ req[m].size = asked[m].size
    BY <1>1 DEF Stack, Forwarded
  <2>2. Copy(Filled(table, asked[m], ch.data + ch.size, asked[m].size), "slave", ch.addr, ch.data, ch.size)
          = Filled(table, asked[m], ch.data, asked[m].size)
    <3> HIDE DEF ch
    <3> QED BY <1>1, <1>2, <1>3, <2>1, ChunkMoves
  <2> QED BY <1>1, <1>3, <2>2
<1>6. /\ sent \in Converters /\ sent.pending_req = p /\ ~sent.event /\ sent.ongoing_size = z
      /\ sent.ongoing_req = m /\ sent.stalled_req = st
  <2> HIDE DEF z
  <2> QED BY <1>0, <1>1, <1>2, <1>4, TakeChunk
<1> DEFINE last == z = 0
           c1 == [sent EXCEPT !.ongoing_req = None]
<1>7. /\ moved' = [moved EXCEPT ![m] = v]
      /\ converter' = IF last THEN AfterResponse(c1) ELSE check_state(sent)
      /\ status' = [n \in Masters |->
                      IF last /\ n = m THEN router_response(m)
                      ELSE IF last /\ st # <<>> /\ n = Head(st)
                      THEN router_grant(n) ELSE status[n]]
      /\ req' = IF last THEN [req EXCEPT ![m].args = Front(@)] ELSE req
      /\ failed' = failed
  <2>1. sent = [c EXCEPT !.pending_req = Tail(@), !.event = FALSE, !.ongoing_size = @ - ch.size]
    OBVIOUS
  <2>2. sent.ongoing_size = z
    BY <1>6
  <2> QED BY <1>0, <2>1, <2>2 DEF ChunkOk
<1>8. table' = table /\ parts' = parts /\ asked' = asked /\ held' = held
  OBVIOUS
<1>12. refused' \in SUBSET held'
  BY <1>2 DEF Types
<1> HIDE DEF v, sent
<1>9. moved'[m] = v /\ moved' = [n \in Masters |-> moved'[n]] /\ \A n \in Masters : n # m => moved'[n] = moved[n]
  BY <1>1, <1>2, <1>7
<1>10. CASE ~last
  <2> DEFINE d == check_state(sent)
  <2>1. /\ d \in Converters /\ d.pending_req = p /\ d.ongoing_req = m /\ d.ongoing_size = z
        /\ d.stalled_req = st /\ (d.event => p # <<>>)
    BY <1>6, CheckOK
  <2> HIDE DEF d
  <2>2. converter' = d /\ req' = req
    BY <1>7, <1>10 DEF d
  <2>3. status' = status
    <3>1. status' = [n \in Masters |-> status[n]]
      BY <1>7, <1>10
    <3> QED BY <1>2, <3>1
  <2>4. Types'
    BY <1>2, <1>7, <1>8, <1>9, <1>12, <2>1, <2>2, <2>3, EventTypes
  <2>5. MasterInv'
    <3>1. ASSUME NEW n \in Masters PROVE MasterOK(n)'
      <4>1. MasterOK(n)
        BY DEF Inv, MasterInv
      <4>2. CASE n # m
        BY <1>7, <1>8, <1>9, <2>2, <2>3, <4>1, <4>2, Others
      <4>3. CASE n = m
        <5>1. status'[n] \notin {"ok", "done", "denied"}
          BY <1>1, <2>3, <4>3
        <5>2. Forwarded(table', asked'[n], req'[n], n)
          BY <1>1, <1>8, <2>2, <4>3
        <5> QED BY <5>1, <5>2 DEF MasterOK
      <4> QED BY <4>2, <4>3
    <3> QED BY <3>1 DEF MasterInv
  <2>6. HeldInv'
    <3>1. ASSUME NEW n \in held
          PROVE  status'[n] \in {"pending", "granted"} /\ ~failed'[n] /\ moved'[n] = Filled(table', asked'[n], 0, 0) /\ converter'.ongoing_req # n
      <4>1. n \in Masters /\ n # m
        BY <1>1, <1>2
      <4>2. status[n] \in {"pending", "granted"} /\ ~failed[n] /\ moved[n] = Filled(table, asked[n], 0, 0)
        BY DEF Inv, HeldInv
      <4> QED BY <1>7, <1>8, <1>9, <2>1, <2>2, <2>3, <4>1, <4>2
    <3> QED BY <1>8, <3>1 DEF HeldInv
  <2>7. StallInv'
    BY <2>1, <2>2, <2>3 DEF Inv, StallInv
  <2>8. OngoingInv'
    <3>1. /\ converter'.ongoing_req = m /\ converter'.pending_req = p /\ converter'.ongoing_size = z
          /\ (converter'.event => p # <<>>)
      BY <2>1, <2>2
    <3>2. status'[m] \in {"granted", "pending"} /\ Stack(p, req'[m])
      BY <1>1, <1>3, <2>2, <2>3
    <3>3. /\ failed'[m] => z > Left(p)
          /\ ~failed'[m] => z = Left(p) /\ moved'[m] = Filled(table', asked'[m], Left(p), asked'[m].size)
      BY <1>4, <1>5, <1>7, <1>8, <1>9
    <3> HIDE DEF p, z
    <3> QED BY <1>1, <3>1, <3>2, <3>3 DEF OngoingInv
  <2>9. Inv'
    BY <2>4, <2>5, <2>6, <2>7, <2>8 DEF Inv
  <2> QED BY <2>3, <2>9
<1>11. CASE last
  <2> DEFINE a == asked[m]
             r2 == [req[m] EXCEPT !.args = Front(@)]
  <2>1. ~failed[m] /\ p = <<>> /\ Left(p) = 0
    BY <1>3, <1>4, <1>11
  <2>2. v = Filled(table, a, 0, a.size) /\ a \in Accesses /\ req[m].args = <<m>>
    BY <1>1, <1>5, <2>1 DEF Forwarded
  <2>3. r2 \in Reqs /\ r2.args = <<>>
    BY <1>1, <2>2, PopReq
  <2>4. req' = [req EXCEPT ![m] = r2]
    BY <1>7, <1>11
  <2> HIDE DEF r2, last
  <2>5. req'[m] = r2 /\ req' \in [Masters -> Reqs] /\ \A n \in Masters : n # m => req'[n] = req[n]
    BY <1>1, <1>2, <2>3, <2>4
  <2>6. router_response(m) = "done"
    BY <1>1, <2>2, ReachedOK
  <2>7. status'[m] = "done"
    BY <1>1, <1>7, <1>11, <2>6
  <2>8. /\ c1 \in Converters /\ c1.pending_req = <<>> /\ ~c1.event /\ c1.ongoing_req = None /\ c1.stalled_req = st
    BY <1>6, <2>1 DEF Converters
  <2>9. converter' = AfterResponse(c1)
    BY <1>7, <1>11
  <2> HIDE DEF c1
  <2>10. MasterOK(m)'
    <3>1. asked'[m] = a
      BY <1>8
    <3> QED BY <1>2, <1>8, <1>9, <2>2, <2>3, <2>5, <2>7, <3>1, ToldLater
  <2>11. CASE st = <<>>
    <3> DEFINE d == check_state(c1)
    <3>1. /\ d \in Converters /\ d.pending_req = <<>> /\ d.ongoing_req = None
          /\ d.stalled_req = st /\ ~d.event
      BY <2>8, CheckOK
    <3> HIDE DEF d
    <3>2. converter' = d
      BY <2>8, <2>9, <2>11 DEF AfterResponse, d
    <3>3. \A n \in Masters : n # m => status'[n] = status[n]
      BY <1>7, <2>11
    <3>4. status' \in [Masters -> Statuses]
      <4>1. \A n \in Masters : status'[n] \in Statuses
        BY <1>2, <2>7, <3>3 DEF Statuses
      <4>2. status' = [n \in Masters |-> status'[n]]
        BY <1>7
      <4> QED BY <4>1, <4>2
    <3>5. Types'
      BY <1>2, <1>7, <1>8, <1>9, <1>12, <2>5, <3>1, <3>2, <3>4, EventTypes
    <3>6. MasterInv'
      <4>1. ASSUME NEW n \in Masters, n # m PROVE MasterOK(n)'
        <5>1. MasterOK(n)
          BY DEF Inv, MasterInv
        <5> QED BY <1>7, <1>8, <1>9, <2>5, <3>3, <4>1, <5>1, Others
      <4> QED BY <2>10, <4>1 DEF MasterInv
    <3>7. HeldInv'
      <4>1. ASSUME NEW n \in held
            PROVE  status'[n] \in {"pending", "granted"} /\ ~failed'[n] /\ moved'[n] = Filled(table', asked'[n], 0, 0) /\ converter'.ongoing_req # n
        <5>1. n \in Masters /\ n # m /\ n # None
          BY <1>1, <1>2, NoneNotMaster
        <5>2. status[n] \in {"pending", "granted"} /\ ~failed[n] /\ moved[n] = Filled(table, asked[n], 0, 0)
          BY DEF Inv, HeldInv
        <5> QED BY <1>7, <1>8, <1>9, <3>1, <3>2, <3>3, <5>1, <5>2
      <4> QED BY <1>8, <4>1 DEF HeldInv
    <3>8. StallInv'
      <4>1. converter'.stalled_req = <<>>
        BY <2>11, <3>1, <3>2
      <4> QED BY <4>1 DEF StallInv
    <3>9. OngoingInv'
      BY <3>1, <3>2 DEF OngoingInv
    <3>10. Inv'
      BY <3>5, <3>6, <3>7, <3>8, <3>9 DEF Inv
    <3> QED BY <1>1, <2>7, <3>3, <3>10
  <2>12. CASE st # <<>>
    <3>0. PICK s \in Masters : s = Head(st)
      BY <1>2, <2>12
    <3> DEFINE r == req[s]
               b == asked[s]
               u == Tail(st)
               c2 == [c1 EXCEPT !.stalled_req = Tail(@)]
               c3 == process_pending_req(c2, s, r)
               d == check_state(c3)
    <3>1. /\ 1 \in 1..Len(st) /\ s = st[1] /\ s \in Masters /\ s # m /\ Len(st) \in Nat
          /\ u \in Seq(Masters) /\ Len(u) = Len(st) - 1 /\ \A i \in 1..(Len(st) - 1) : u[i] = st[i + 1]
      BY <1>1, <1>2, <2>12, <3>0
    <3>2. status[s] = "denied"
      BY <3>1 DEF Inv, StallInv
    <3>3. Forwarded(table, b, r, s) /\ ~failed[s] /\ moved[s] = Filled(table, b, 0, 0)
      <4>1. MasterOK(s)
        BY <3>1 DEF Inv, MasterInv
      <4> QED BY <3>2, <4>1 DEF MasterOK, Waiting
    <3>4. b \in Accesses /\ r.size = b.size /\ b.size \in Nat /\ r.size # 0 /\ r.data = 0 /\ r.args = <<s>> /\ r \in Reqs
      <4>1. b \in Accesses /\ r.size = b.size /\ r.data = 0 /\ r.args = <<s>>
        BY <3>3 DEF Forwarded
      <4>2. b.size \in Nat /\ b.size # 0
        BY <1>2, <4>1, AccessAssumption
      <4> QED BY <1>2, <3>1, <4>1, <4>2
    <3>5. c2 \in Converters /\ c2.pending_req = <<>> /\ c2.stalled_req = u
      <4>1. c2 = [c1 EXCEPT !.stalled_req = u]
        BY <2>8
      <4> HIDE DEF c2, u
      <4> QED BY <2>8, <3>1, <4>1 DEF Converters
    <3> HIDE DEF c2
    <3>6. /\ c3 \in Converters /\ c3.ongoing_req = s /\ c3.ongoing_size = r.size /\ c3.stalled_req = u
          /\ c3.pending_req # <<>> /\ Stack(c3.pending_req, r) /\ Left(c3.pending_req) = r.size
      <4> HIDE DEF r, u
      <4> QED BY <3>1, <3>4, <3>5, ProcessOK
    <3> HIDE DEF c3
    <3>7. /\ d \in Converters /\ d.pending_req = c3.pending_req /\ d.ongoing_req = s /\ d.ongoing_size = r.size
          /\ d.stalled_req = u
      BY <3>6, CheckOK
    <3>8. converter' = d
      <4>1. c1.stalled_req = st
        BY <2>8
      <4>2. AfterResponse(c1) = Unstall(c1, req[Head(c1.stalled_req)])
        BY <2>12, <4>1 DEF AfterResponse
      <4>3. Unstall(c1, r) = check_state(process_pending_req(c2, Head(c1.stalled_req), r))
        BY DEF Unstall, c2
      <4> QED BY <2>9, <3>0, <4>1, <4>2, <4>3 DEF c3
    <3> HIDE DEF d
    <3>9. router_grant(s) = "granted"
      BY <3>1, <3>4, ReachedOK
    <3>10. status'[s] = "granted"
      BY <1>7, <1>11, <2>12, <3>0, <3>1, <3>9
    <3>11. \A n \in Masters : n # m /\ n # s => status'[n] = status[n]
      BY <1>7, <3>0
    <3>12. status' \in [Masters -> Statuses]
      <4>1. \A n \in Masters : status'[n] \in Statuses
        BY <1>2, <2>7, <3>10, <3>11 DEF Statuses
      <4>2. status' = [n \in Masters |-> status'[n]]
        BY <1>7
      <4> QED BY <4>1, <4>2
    <3>13. Types'
      BY <1>2, <1>7, <1>8, <1>9, <1>12, <2>5, <3>7, <3>8, <3>12, EventTypes
    <3>14. MasterInv'
      <4>1. ASSUME NEW n \in Masters, n # m, n # s PROVE MasterOK(n)'
        <5>1. MasterOK(n)
          BY DEF Inv, MasterInv
        <5> QED BY <1>7, <1>8, <1>9, <2>5, <3>11, <4>1, <5>1, Others
      <4>2. MasterOK(s)'
        <5>1. Forwarded(table', asked'[s], req'[s], s)
          BY <1>8, <2>5, <3>1, <3>3
        <5> QED BY <3>10, <5>1 DEF MasterOK
      <4> QED BY <2>10, <4>1, <4>2 DEF MasterInv
    <3>15. HeldInv'
      <4>1. ASSUME NEW n \in held
            PROVE  status'[n] \in {"pending", "granted"} /\ ~failed'[n] /\ moved'[n] = Filled(table', asked'[n], 0, 0) /\ converter'.ongoing_req # n
        <5>1. status[n] \in {"pending", "granted"} /\ ~failed[n] /\ moved[n] = Filled(table, asked[n], 0, 0)
          BY DEF Inv, HeldInv
        <5>2. n \in Masters /\ n # m /\ n # s
          BY <1>1, <1>2, <3>2, <5>1
        <5> QED BY <1>7, <1>8, <1>9, <3>7, <3>8, <3>11, <5>1, <5>2
      <4> QED BY <1>8, <4>1 DEF HeldInv
    <3>16. StallInv'
      <4> DEFINE N == Len(st)
      <4>1. /\ \A i, j \in 1..N : st[i] = st[j] => i = j
            /\ \A i \in 1..N : status[st[i]] = "denied" /\ st[i] \in Masters /\ st[i] # m
        BY <1>1, <1>2 DEF Inv, StallInv
      <4>2. ASSUME NEW i \in 1..(N - 1) PROVE i + 1 \in 1..N /\ i + 1 # 1 /\ i + 1 \in Nat /\ u[i] = st[i + 1]
        BY <3>1
      <4>3. ASSUME NEW i \in 1..(N - 1) PROVE status'[u[i]] = "denied"
        <5>1. st[i + 1] # s /\ st[i + 1] # m /\ st[i + 1] \in Masters /\ status[st[i + 1]] = "denied"
          BY <3>1, <4>1, <4>2
        <5> QED BY <3>11, <4>2, <5>1
      <4>4. ASSUME NEW i \in 1..(N - 1), NEW j \in 1..(N - 1), u[i] = u[j] PROVE i = j
        <5>1. i + 1 = j + 1
          BY <4>1, <4>2, <4>4
        <5> QED BY <5>1
      <4>5. converter'.stalled_req = u /\ Len(u) = N - 1
        BY <3>1, <3>7, <3>8
      <4> QED BY <4>3, <4>4, <4>5 DEF StallInv
    <3>17. OngoingInv'
      <4>1. converter'.ongoing_req = s /\ converter'.pending_req = c3.pending_req /\ converter'.ongoing_size = r.size
        BY <3>7, <3>8
      <4>2. Filled(table, b, 0, 0) = Filled(table, b, b.size, b.size)
        BY <3>4, FilledNone
      <4>3. s # None
        BY <3>1, NoneNotMaster
      <4>4. /\ status'[s] \in {"granted", "pending"} /\ Stack(c3.pending_req, req'[s])
            /\ ~failed'[s] /\ r.size = Left(c3.pending_req)
            /\ moved'[s] = Filled(table', asked'[s], Left(c3.pending_req), asked'[s].size)
        BY <1>7, <1>8, <1>9, <2>5, <3>1, <3>3, <3>4, <3>6, <3>10, <4>2
      <4> HIDE DEF r
      <4> QED BY <3>6, <4>1, <4>3, <4>4 DEF OngoingInv
    <3>18. Inv'
      BY <3>13, <3>14, <3>15, <3>16, <3>17 DEF Inv
    <3> QED BY <1>1, <2>7, <3>2, <3>10, <3>11, <3>18
  <2> QED BY <2>11, <2>12
<1> QED BY <1>10, <1>11

(* The slave answers a request that was forwarded to it.                    *)
LEMMA SlaveRespondsKeeps ==
  ASSUME Inv, NEW m \in Masters, SlaveResponds(m)
  PROVE  Inv' /\ status[m] \in {"pending", "granted"} /\ status' = [status EXCEPT ![m] = "done"]
<1> DEFINE a == asked[m]
           r == req[m]
           ra == r.addr
           v == Copy(moved[m], "slave", r.addr, r.data, r.size)
           r2 == [r EXCEPT !.args = Front(@)]
<1>1. /\ Types /\ converter \in Converters /\ table \in Tables
      /\ failed \in [Masters -> BOOLEAN] /\ req \in [Masters -> Reqs] /\ status \in [Masters -> Statuses]
      /\ moved = [n \in Masters |-> moved[n]] /\ held \in SUBSET Masters
  BY DEF Inv, Types
<1>2. status[m] \in {"pending", "granted"} /\ ~failed[m] /\ moved[m] = Filled(table, a, 0, 0) /\ converter.ongoing_req # m
  BY DEF Inv, HeldInv, SlaveResponds
<1>3. Forwarded(table, a, r, m)
  <2>1. MasterOK(m)
    BY DEF Inv, MasterInv
  <2> QED BY <1>2, <2>1 DEF MasterOK, Waiting
<1>4. a \in Accesses /\ r.size = a.size /\ r.data = 0 /\ r.args = <<m>> /\ a.size \in Nat /\ r \in Reqs
  <2>1. a \in Accesses /\ r.size = a.size /\ r.data = 0 /\ r.args = <<m>>
    BY <1>3 DEF Forwarded
  <2> QED BY <1>1, <2>1, AccessAssumption
<1>5. v = Filled(table, a, 0, a.size)
  <2>1. ra \in Int
    BY <1>4 DEF Reqs
  <2>2. ASSUME NEW k \in 1..a.size PROVE Place(table, a.addr + k - 1) = <<"slave", ra + k - 1 - 0>>
    <3>1. Place(table, a.addr + k - 1) = <<"slave", ra + (k - 1)>>
      BY <1>3 DEF Forwarded
    <3> HIDE DEF ra
    <3>2. k \in Int
      OBVIOUS
    <3>3. ra + (k - 1) = ra + k - 1 - 0
      BY <2>1, <3>2
    <3> QED BY <3>1, <3>3
  <2> HIDE DEF ra, a
  <2>3. 0 \in Nat /\ 0 + a.size = a.size /\ a.size <= a.size
    BY <1>4
  <2>4. Copy(Filled(table, a, 0, 0), "slave", ra, 0, a.size) = Filled(table, a, 0, 0 + a.size)
    BY <1>4, <2>2, <2>3, CopyNext
  <2> QED BY <1>2, <1>4, <2>3, <2>4 DEF ra
<1>6. r2 \in Reqs /\ r2.args = <<>> /\ router_response(m) = "done"
  BY <1>4, PopReq, ReachedOK
<1>7. /\ m \in held \ refused /\ held' = held \ {m} /\ refused' = refused /\ moved' = [moved EXCEPT ![m] = v]
      /\ status' = [status EXCEPT ![m] = "done"] /\ req' = [req EXCEPT ![m] = r2]
      /\ table' = table /\ parts' = parts /\ asked' = asked /\ failed' = failed /\ converter' = converter
  BY <1>2, <1>6 DEF SlaveResponds
<1> HIDE DEF v, r2
<1>8. moved'[m] = v /\ moved' = [n \in Masters |-> moved'[n]] /\ \A n \in Masters : n # m => moved'[n] = moved[n]
  BY <1>1, <1>7
<1>9. req'[m] = r2 /\ req' \in [Masters -> Reqs] /\ \A n \in Masters : n # m => req'[n] = req[n]
  BY <1>1, <1>6, <1>7
<1>10. status'[m] = "done" /\ status' \in [Masters -> Statuses] /\ \A n \in Masters : n # m => status'[n] = status[n]
  BY <1>1, <1>7 DEF Statuses
<1>11. Types'
  <2>1. held' \in SUBSET Masters /\ refused' \in SUBSET held'
    BY <1>1, <1>7 DEF Types
  <2> QED BY <1>1, <1>7, <1>8, <1>9, <1>10, <2>1, EventTypes
<1>12. MasterInv'
  <2>1. ASSUME NEW n \in Masters, n # m PROVE MasterOK(n)'
    <3>1. MasterOK(n)
      BY DEF Inv, MasterInv
    <3> QED BY <1>7, <1>8, <1>9, <1>10, <2>1, <3>1, Others
  <2>2. MasterOK(m)'
    <3>1. asked'[m] = a
      BY <1>7
    <3> QED BY <1>1, <1>4, <1>5, <1>6, <1>7, <1>8, <1>9, <1>10, <3>1, ToldLater
  <2> QED BY <2>1, <2>2 DEF MasterInv
<1>13. HeldInv'
  <2>1. ASSUME NEW n \in held'
        PROVE  status'[n] \in {"pending", "granted"} /\ ~failed'[n] /\ moved'[n] = Filled(table', asked'[n], 0, 0) /\ converter'.ongoing_req # n
    <3>1. n \in held /\ n \in Masters /\ n # m
      BY <1>1, <1>7
    <3>2. status[n] \in {"pending", "granted"} /\ ~failed[n] /\ moved[n] = Filled(table, asked[n], 0, 0) /\ converter.ongoing_req # n
      BY <3>1 DEF Inv, HeldInv
    <3> QED BY <1>7, <1>8, <1>10, <3>1, <3>2
  <2> QED BY <2>1 DEF HeldInv
<1>14. StallInv'
  <2> DEFINE st == converter.stalled_req
  <2>1. ASSUME NEW i \in 1..Len(st) PROVE status'[st[i]] = "denied"
    <3>1. st[i] \in Masters /\ status[st[i]] = "denied"
      BY <1>1, ConverterFields DEF Inv, StallInv
    <3> QED BY <1>2, <1>10, <3>1
  <2> QED BY <1>7, <2>1 DEF Inv, StallInv
<1>15. OngoingInv'
  <2> DEFINE o == converter.ongoing_req
             q == converter.pending_req
  <2>1. (converter.event => q # <<>>) /\ (o = None => q = <<>>)
    BY DEF Inv, OngoingInv
  <2>2. ASSUME o # None
        PROVE  /\ status'[o] \in {"granted", "pending"} /\ Stack(q, req'[o])
               /\ failed'[o] => converter.ongoing_size > Left(q)
               /\ ~failed'[o] => /\ converter.ongoing_size = Left(q)
                                 /\ moved'[o] = Filled(table', asked'[o], Left(q), asked'[o].size)
    <3>1. o \in Masters /\ o # m
      BY <1>1, <1>2, <2>2, ConverterFields
    <3>2. /\ status[o] \in {"granted", "pending"} /\ Stack(q, req[o])
          /\ failed[o] => converter.ongoing_size > Left(q)
          /\ ~failed[o] => /\ converter.ongoing_size = Left(q)
                           /\ moved[o] = Filled(table, asked[o], Left(q), asked[o].size)
      BY <2>2 DEF Inv, OngoingInv
    <3> HIDE DEF o, q
    <3> QED BY <1>7, <1>8, <1>9, <1>10, <3>1, <3>2
  <2> QED BY <1>7, <2>1, <2>2 DEF OngoingInv
<1> QED BY <1>2, <1>7, <1>11, <1>12, <1>13, <1>14, <1>15 DEF Inv

(* The slave grants a request, whose master was told PENDING.               *)
LEMMA SlaveGrantsKeeps ==
  ASSUME Inv, NEW m \in Masters, SlaveGrants(m)
  PROVE  Inv' /\ status[m] \in {"pending", "granted"} /\ status' = [status EXCEPT ![m] = "granted"]
<1>1. /\ Types /\ converter \in Converters /\ status \in [Masters -> Statuses]
      /\ held \in SUBSET Masters /\ refused \in SUBSET held
  BY DEF Inv, Types
<1>2. m \in held /\ refused' = refused \ {m}
  BY <1>1 DEF SlaveGrants
<1>3. status[m] \in {"pending", "granted"} /\ ~failed[m] /\ moved[m] = Filled(table, asked[m], 0, 0) /\ converter.ongoing_req # m
  BY <1>2 DEF Inv, HeldInv
<1>4. MasterOK(m) /\ Forwarded(table, asked[m], req[m], m)
  <2>1. MasterOK(m)
    BY DEF Inv, MasterInv
  <2> QED BY <1>3, <2>1 DEF MasterOK, Waiting
<1>5. req[m].args = <<m>>
  BY <1>4 DEF Forwarded
<1>6. router_grant(m) = "granted"
  BY <1>5, ReachedOK
<1>7. /\ status' = [status EXCEPT ![m] = "granted"] /\ table' = table /\ parts' = parts /\ asked' = asked
      /\ req' = req /\ moved' = moved /\ failed' = failed /\ converter' = converter /\ held' = held
  BY <1>6 DEF SlaveGrants
<1>8. status'[m] = "granted" /\ status' \in [Masters -> Statuses] /\ \A n \in Masters : n # m => status'[n] = status[n]
  BY <1>1, <1>7 DEF Statuses
<1>9. Types'
  <2>1. refused' \in SUBSET held'
    BY <1>1, <1>2, <1>7
  <2> QED BY <1>1, <1>7, <1>8, <2>1 DEF Types
<1>10. MasterInv'
  <2>1. ASSUME NEW n \in Masters, n # m PROVE MasterOK(n)'
    <3>1. MasterOK(n)
      BY DEF Inv, MasterInv
    <3> QED BY <1>7, <1>8, <2>1, <3>1, Others
  <2>2. MasterOK(m)'
    BY <1>4, <1>7, <1>8 DEF MasterOK, Waiting
  <2> QED BY <2>1, <2>2 DEF MasterInv
<1>11. HeldInv'
  <2>1. ASSUME NEW n \in held
        PROVE  status'[n] \in {"pending", "granted"} /\ ~failed'[n] /\ moved'[n] = Filled(table', asked'[n], 0, 0) /\ converter'.ongoing_req # n
    <3>1. n \in Masters
      BY <1>1
    <3>2. status[n] \in {"pending", "granted"} /\ ~failed[n] /\ moved[n] = Filled(table, asked[n], 0, 0) /\ converter.ongoing_req # n
      BY DEF Inv, HeldInv
    <3> QED BY <1>7, <1>8, <3>1, <3>2
  <2> QED BY <1>7, <2>1 DEF HeldInv
<1>12. StallInv'
  <2> DEFINE st == converter.stalled_req
  <2>1. ASSUME NEW i \in 1..Len(st) PROVE status'[st[i]] = "denied"
    <3>1. st[i] \in Masters /\ status[st[i]] = "denied"
      BY <1>1, ConverterFields DEF Inv, StallInv
    <3> QED BY <1>3, <1>8, <3>1
  <2> QED BY <1>7, <2>1 DEF Inv, StallInv
<1>13. OngoingInv'
  <2> DEFINE o == converter.ongoing_req
             q == converter.pending_req
  <2>1. (converter.event => q # <<>>) /\ (o = None => q = <<>>)
    BY DEF Inv, OngoingInv
  <2>2. ASSUME o # None
        PROVE  /\ status'[o] \in {"granted", "pending"} /\ Stack(q, req'[o])
               /\ failed'[o] => converter.ongoing_size > Left(q)
               /\ ~failed'[o] => /\ converter.ongoing_size = Left(q)
                                 /\ moved'[o] = Filled(table', asked'[o], Left(q), asked'[o].size)
    <3>1. o \in Masters /\ o # m
      BY <1>1, <1>3, <2>2, ConverterFields
    <3>2. /\ status[o] \in {"granted", "pending"} /\ Stack(q, req[o])
          /\ failed[o] => converter.ongoing_size > Left(q)
          /\ ~failed[o] => /\ converter.ongoing_size = Left(q)
                           /\ moved[o] = Filled(table, asked[o], Left(q), asked[o].size)
      BY <2>2 DEF Inv, OngoingInv
    <3> HIDE DEF o, q
    <3> QED BY <1>7, <1>8, <3>1, <3>2
  <2> QED BY <1>7, <2>1, <2>2 DEF OngoingInv
<1> QED BY <1>3, <1>7, <1>9, <1>10, <1>11, <1>12, <1>13 DEF Inv

(* The rest leaves the requests alone.                                      *)
LEMMA IdleKeeps ==
  ASSUME Inv, UNCHANGED <<table, parts, asked, req, status, moved, failed, converter, held, refused>>
  PROVE  Inv'
<1>1. Types'
  BY DEF Inv, Types
<1>2. MasterInv'
  <2>1. ASSUME NEW n \in Masters PROVE MasterOK(n)'
    <3>1. MasterOK(n)
      BY DEF Inv, MasterInv
    <3> QED BY <3>1, Others
  <2> QED BY <2>1 DEF MasterInv
<1>3. HeldInv' /\ StallInv' /\ OngoingInv'
  BY DEF Inv, HeldInv, StallInv, OngoingInv
<1> QED BY <1>1, <1>2, <1>3 DEF Inv

(* How the status of a master may change.                                   *)
IoStep ==
  \A m \in Masters :
    status'[m] # status[m] =>
      \/ status[m] \notin Waiting /\ accesses' = accesses + 1
      \/ status[m] = "denied" /\ status'[m] = "granted"
      \/ status[m] = "pending" /\ m \in refused /\ status'[m] = "granted"
      \/ status[m] \in {"granted", "pending"} /\ status'[m] = "done"

LEMMA NextKeeps ==
  ASSUME Inv, [Next]_vars
  PROVE  Inv' /\ (Next => IoStep)
<1>1. ASSUME NEW m \in Masters, NEW a \in Accesses, NEW answer, Send(m, a, answer) PROVE Inv' /\ IoStep
  <2>1. Inv'
    BY <1>1, SendKeeps
  <2>2. /\ status[m] \in {"done", "ok", "invalid"} /\ accesses' = accesses + 1
        /\ \A n \in Masters : n # m => status'[n] = status[n]
    <3>1. status \in [Masters -> Statuses] /\ table \in Tables
      BY DEF Inv, Types
    <3>2. PICK s : status' = [status EXCEPT ![m] = s]
      BY <1>1, <3>1, SendIs DEF SendsTo
    <3> QED BY <1>1, <3>1, <3>2 DEF Send
  <2>3. IoStep
    BY <2>2 DEF IoStep, Waiting
  <2> QED BY <2>1, <2>3
<1>2. ASSUME event_handler PROVE Inv' /\ IoStep
  <2>1. converter.event /\ UNCHANGED <<table, parts, asked, held, refused, powered_up, accesses>>
    BY <1>2 DEF event_handler
  <2>2. CASE ChunkOk
    BY <2>1, <2>2, ChunkOkKeeps DEF IoStep
  <2>3. CASE ChunkFails
    <3>1. status' = status
      BY <2>3 DEF ChunkFails
    <3> QED BY <2>1, <2>3, <3>1, ChunkFailsKeeps DEF IoStep
  <2> QED BY <1>2, <2>2, <2>3 DEF event_handler
<1>3. ASSUME NEW m \in Masters, SlaveGrants(m) PROVE Inv' /\ IoStep
  <2>1. Inv' /\ status[m] \in {"pending", "granted"} /\ status' = [status EXCEPT ![m] = "granted"]
    BY <1>3, SlaveGrantsKeeps
  <2>2. status \in [Masters -> Statuses] /\ m \in refused
    BY <1>3 DEF Inv, Types, SlaveGrants
  <2> QED BY <2>1, <2>2 DEF IoStep
<1>4. ASSUME NEW m \in Masters, SlaveResponds(m) PROVE Inv' /\ IoStep
  <2>1. Inv' /\ status[m] \in {"pending", "granted"} /\ status' = [status EXCEPT ![m] = "done"]
    BY <1>4, SlaveRespondsKeeps
  <2>2. status \in [Masters -> Statuses]
    BY DEF Inv, Types
  <2> QED BY <2>1, <2>2 DEF IoStep
<1>5. ASSUME power_ctrl_sync PROVE Inv' /\ IoStep
  BY <1>5, IdleKeeps DEF power_ctrl_sync, IoStep
<1>6. ASSUME UNCHANGED vars PROVE Inv'
  BY <1>6, IdleKeeps DEF vars
<1> QED BY <1>1, <1>2, <1>3, <1>4, <1>5, <1>6 DEF Next

(* The inductive invariant holds in every reachable state of the router,    *)
(* the interleaver and the converter.                                       *)
THEOREM InterconnectInv ==
  Spec => []Inv
<1>1. Inv /\ [Next]_vars => Inv'
  BY NextKeeps
<1> QED BY <1>1, InitInv, PTL DEF Spec

(* The tree that MapEntry::insert and router::init_entries build routes an  *)
(* address to the mapping it belongs to.                                    *)
THEOREM RoutingIsMapCorrect ==
  Spec => []RoutingIsMap
<1>1. Inv => RoutingIsMap
  <2> SUFFICES ASSUME Inv, NEW x \in Accesses, NEW k \in 0..3
               PROVE  Lookup(table, x.addr + k, 1) = Owner(table, x.addr + k)
    BY DEF RoutingIsMap
  <2>1. table \in Tables
    BY DEF Inv, Types
  <2>2. WellFormed(table) /\ x.addr \in Nat
    BY <2>1, AccessAssumption
  <2> QED BY <2>2, LookupIsOwner
<1> QED BY <1>1, InterconnectInv, PTL

(* A master whose request was answered without error finds each byte copied *)
(* once, with the cell its address belongs to, and its request as it was,   *)
(* whatever router::req, interleaver::req, converter::req and               *)
(* converter::event_handler cut, stalled and reordered.                     *)
THEOREM AnsweredInFullCorrect ==
  Spec => []AnsweredInFull
<1>1. Inv => AnsweredInFull
  <2> SUFFICES ASSUME Inv, NEW m \in Masters, status[m] \in {"ok", "done"} PROVE Answered(m)
    BY DEF AnsweredInFull, Answered
  <2>1. MasterOK(m)
    BY DEF Inv, MasterInv
  <2> QED BY <2>1 DEF MasterOK
<1> QED BY <1>1, InterconnectInv, PTL

(* A grant reaches only a master that was denied, by the converter or by    *)
(* the slave behind it (converter::req tells it PENDING then), a response   *)
(* only one that waits for it, and neither comes twice (router::grant,      *)
(* router::response).                                                       *)
THEOREM IoProtocolCorrect ==
  Spec => IoProtocol
<1>1. Inv /\ [Next]_vars => [IoStep]_vars
  BY NextKeeps
<1>2. Spec => [][IoStep]_vars
  BY <1>1, InterconnectInv, PTL DEF Spec
<1> QED BY <1>2 DEF IoProtocol, IoStep
=============================================================================
