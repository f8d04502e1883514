-------------------------- MODULE GdbServer_proofs --------------------------
(***************************************************************************)
(* Proofs about the GDB server, for any packets, any size of its circular  *)
(* buffer and any way in which the stream is received: what is decoded is  *)
(* what was sent, and GDB takes the core for stopped only when it is.      *)
(***************************************************************************)
EXTENDS GdbServer, FiniteSetTheorems, SequenceTheorems, WellFoundedInduction, TLAPS

-----------------------------------------------------------------------------
(* Induction and recursion.                                                 *)

(* A set of natural numbers has a least element.                            *)
LEMMA Least ==
  ASSUME NEW T \in SUBSET Nat, T # {}
  PROVE  \E x \in T : \A y \in T : x <= y
<1> DEFINE R == OpToRel(<, Nat)
<1>1. IsWellFoundedOn(R, Nat)
  BY NatLessThanWellFounded
<1>2. \A x, y \in Nat : <<y, x>> \in R <=> y < x
  BY DEF OpToRel
<1> HIDE DEF R
<1>3. PICK x \in T : \A y \in T : ~(<<y, x>> \in R)
  BY <1>1, WFMin
<1>4. ASSUME NEW y \in T PROVE x <= y
  <2>1. x \in Nat /\ y \in Nat /\ ~(<<y, x>> \in R)
    BY <1>3
  <2>2. ~(y < x)
    BY <1>2, <2>1
  <2> QED BY <2>1, <2>2
<1> QED BY <1>4

(* Induction over the natural numbers, stated on sets.                      *)
LEMMA SetInduction ==
  ASSUME NEW T, 0 \in T, \A n \in Nat : n \in T => n + 1 \in T
  PROVE  Nat \subseteq T
<1> SUFFICES ASSUME Nat \ T # {} PROVE FALSE
  OBVIOUS
<1>1. PICK x \in Nat \ T : \A y \in Nat \ T : x <= y
  <2>1. Nat \ T \in SUBSET Nat
    OBVIOUS
  <2> QED BY <2>1, Least
<1>2. x # 0 /\ x - 1 \in Nat
  BY <1>1
<1>3. x - 1 \in T
  BY <1>1, <1>2
<1>4. (x - 1) + 1 = x
  BY <1>2
<1> QED BY <1>1, <1>2, <1>3, <1>4

(* The same up to a bound.                                                  *)
LEMMA BoundedInduction ==
  ASSUME NEW N \in Nat, NEW T, 0 \in T, \A n \in 0..(N - 1) : n \in T => n + 1 \in T
  PROVE  \A n \in 0..N : n \in T
<1> DEFINE S == {n \in Nat : n <= N => n \in T}
<1>1. 0 \in S
  OBVIOUS
<1>2. ASSUME NEW n \in Nat, n \in S PROVE n + 1 \in S
  <2>1. CASE n + 1 <= N
    <3>1. n \in 0..(N - 1) /\ n \in T
      BY <1>2, <2>1
    <3> QED BY <3>1
  <2>2. CASE ~(n + 1 <= N)
    BY <2>2
  <2> QED BY <2>1, <2>2
<1>3. Nat \subseteq S
  <2> HIDE DEF S
  <2> QED BY <1>1, <1>2, SetInduction
<1> QED BY <1>3

(* The values of a loop of N steps, the i-th being a function g[i], exist.  *)
LEMMA Iteration ==
  ASSUME NEW S, NEW a \in S, NEW N \in Nat, NEW g \in [1..N -> [S -> S]]
  PROVE  \E f \in [0..N -> S] : f[0] = a /\ \A i \in 1..N : f[i] = g[i][f[i - 1]]
<1> DEFINE Upto(n) == {h \in [0..n -> S] : h[0] = a /\ \A i \in 1..n : h[i] = g[i][h[i - 1]]}
           T == {n \in 0..N : Upto(n) # {}}
<1>1. 0 \in T
  <2>1. [k \in 0..0 |-> a] \in Upto(0)
    OBVIOUS
  <2> QED BY <2>1
<1>2. ASSUME NEW n \in 0..(N - 1), n \in T PROVE n + 1 \in T
  <2>1. PICK h \in Upto(n) : TRUE
    BY <1>2
  <2> DEFINE k == [i \in 0..(n + 1) |-> IF i = n + 1 THEN g[n + 1][h[n]] ELSE h[i]]
  <2>2. h \in [0..n -> S] /\ h[0] = a /\ \A i \in 1..n : h[i] = g[i][h[i - 1]]
    BY <2>1
  <2>3. h[n] \in S /\ g[n + 1] \in [S -> S]
    BY <2>2
  <2>4. k \in [0..(n + 1) -> S] /\ k[0] = a /\ k[n + 1] = g[n + 1][h[n]] /\ \A i \in 0..n : k[i] = h[i]
    BY <2>2, <2>3
  <2> HIDE DEF k
  <2>5. ASSUME NEW i \in 1..(n + 1) PROVE k[i] = g[i][k[i - 1]]
    <3>1. CASE i = n + 1
      <4>1. i - 1 = n /\ n \in 0..n
        BY <3>1
      <4> QED BY <2>4, <3>1, <4>1
    <3>2. CASE i # n + 1
      <4>1. i \in 1..n /\ i \in 0..n /\ i - 1 \in 0..n
        BY <3>2
      <4> QED BY <2>2, <2>4, <4>1
    <3> QED BY <3>1, <3>2
  <2>6. k \in Upto(n + 1)
    BY <2>4, <2>5
  <2> QED BY <2>6
<1>3. N \in T
  <2> HIDE DEF T
  <2>1. \A n \in 0..N : n \in T
    BY <1>1, <1>2, BoundedInduction
  <2> QED BY <2>1
<1>4. PICK h \in Upto(N) : TRUE
  BY <1>3
<1> QED BY <1>4

Loop(S, a, N, g) == N \in Nat /\ a \in S /\ g \in [1..N -> [S -> S]]

LEMMA LoopValues ==
  ASSUME NEW S, NEW a, NEW N, NEW g, Loop(S, a, N, g)
  PROVE  \E f \in [0..N -> S] : f[0] = a /\ \A i \in 1..N : f[i] = g[i][f[i - 1]]
<1>1. a \in S /\ g \in [1..N -> [S -> S]]
  BY Zenon DEF Loop
<1>2. N \in Nat
  BY Zenon DEF Loop
<1> QED BY <1>1, <1>2, Iteration

-----------------------------------------------------------------------------
(* Characters.                                                              *)

Chars == STRING \cup {"#", "^C", "}", "]", "$", "+", "0", "1", "-"}

LEMMA FlipChar ==
  ASSUME NEW c \in Chars
  PROVE  Flip(c) \in Chars /\ (c \in {"#", "}"} => Flip(c) \notin {"#", "}"} /\ Flip(Flip(c)) = c)
BY DEF Flip, Chars

(* What Escapes computes.                                                   *)
Escaping(f, s, e) ==
  /\ f \in [0..Len(s) -> BOOLEAN] /\ f[0] = e
  /\ \A i \in 1..Len(s) : f[i] = (~f[i - 1] /\ s[i] = "}")

LEMMA EscapesValue ==
  ASSUME NEW s, NEW e \in BOOLEAN, Len(s) \in Nat
  PROVE  Escaping(Escapes(s, e), s, e)
<1> DEFINE N == Len(s)
           g == [i \in 1..N |-> [x \in BOOLEAN |-> ~x /\ s[i] = "}"]]
           Eq(f) == f = [i \in 0..N |-> IF i = 0 THEN e ELSE ~f[i - 1] /\ s[i] = "}"]
<1>1. N \in Nat
  OBVIOUS
<1> HIDE DEF N
<1>2. g \in [1..N -> [BOOLEAN -> BOOLEAN]]
  BY Zenon
<1>3. PICK f \in [0..N -> BOOLEAN] : f[0] = e /\ \A i \in 1..N : f[i] = g[i][f[i - 1]]
  <2> HIDE DEF g
  <2> QED BY <1>1, <1>2, Iteration
<1>4. ASSUME NEW i \in 1..N PROVE f[i] = (~f[i - 1] /\ s[i] = "}")
  <2>1. f[i - 1] \in BOOLEAN
    <3>1. i - 1 \in 0..N
      BY <1>1
    <3> QED BY <1>3, <3>1, Zenon
  <2>2. g[i][f[i - 1]] = (~f[i - 1] /\ s[i] = "}")
    BY <2>1, Zenon
  <2> QED BY <1>3, <2>2
<1>5. Eq(f)
  <2>1. ASSUME NEW i \in 0..N PROVE f[i] = IF i = 0 THEN e ELSE ~f[i - 1] /\ s[i] = "}"
    <3>1. CASE i = 0
      BY <1>3, <3>1, Zenon
    <3>2. CASE i # 0
      <4>1. i \in 1..N
        BY <1>1, <3>2
      <4> QED BY <1>4, <3>2, <4>1, Zenon
    <3> QED BY <3>1, <3>2
  <2>2. f = [i \in 0..N |-> f[i]]
    BY <1>3, Zenon
  <2> QED BY <2>1, <2>2, Zenon
<1>6. PICK h : h = Escapes(s, e)
  OBVIOUS
<1>7. Eq(h)
  <2>1. h = CHOOSE h2 : Eq(h2)
    BY <1>6, Zenon DEF Escapes, N
  <2> HIDE DEF Eq
  <2> QED BY <1>5, <2>1, Zenon
<1>8. h[0] = e /\ \A i \in 1..N : h[i] = (~h[i - 1] /\ s[i] = "}")
  <2>1. 0 \in 0..N
    BY <1>1
  <2>2. h[0] = e
    BY <1>7, <2>1, Zenon
  <2>3. ASSUME NEW i \in 1..N PROVE h[i] = (~h[i - 1] /\ s[i] = "}")
    <3>1. i \in 0..N /\ i # 0
      BY <1>1
    <3> QED BY <1>7, <3>1, Zenon
  <2> QED BY <2>2, <2>3
<1>9. h \in [0..N -> BOOLEAN]
  <2>1. ASSUME NEW i \in 0..N PROVE h[i] \in BOOLEAN
    <3>1. CASE i = 0
      BY <1>8, <3>1, Zenon
    <3>2. CASE i # 0
      <4>1. i \in 1..N
        BY <1>1, <3>2
      <4> QED BY <1>8, <4>1, Zenon
    <3> QED BY <3>1, <3>2
  <2>2. h = [i \in 0..N |-> h[i]]
    BY <1>7, Zenon
  <2> QED BY <2>1, <2>2, Zenon
<1> QED BY <1>6, <1>8, <1>9, Zenon DEF N, Escaping

(* s begins with n characters that are in t behind m others.                *)
Agree(s, t, m, n) == \A i \in 1..n : s[i] = t[m + i]

(* What Escapes, with the values a and b, makes of them.                    *)
SameText(s, t, m, n, a, b) ==
  /\ n \in Nat /\ m \in Nat /\ Len(s) \in Nat /\ Len(t) \in Nat /\ n <= Len(s) /\ m + n <= Len(t)
  /\ a[0] = b[m] /\ Agree(s, t, m, n)
  /\ \E d, e : Escaping(a, s, d) /\ Escaping(b, t, e)

(* It depends on the characters up to a place only.                         *)
LEMMA EscapesAgree ==
  ASSUME NEW s, NEW t, NEW n, NEW m, NEW a, NEW b, SameText(s, t, m, n, a, b)
  PROVE  \A i \in 0..n : a[i] = b[m + i]
<1> DEFINE T == {i \in 0..n : a[i] = b[m + i]}
<1>1. /\ n \in Nat /\ m \in Nat /\ Len(s) \in Nat /\ Len(t) \in Nat /\ n <= Len(s) /\ m + n <= Len(t)
      /\ a[0] = b[m] /\ Agree(s, t, m, n)
      /\ \E d, e : Escaping(a, s, d) /\ Escaping(b, t, e)
  BY Zenon DEF SameText
<1>2. 0 \in T
  BY <1>1
<1>3. ASSUME NEW i \in 0..(n - 1), i \in T PROVE i + 1 \in T
  <2>1. /\ i + 1 \in 0..n /\ i + 1 \in 1..n /\ i + 1 \in 1..Len(s) /\ m + (i + 1) \in 1..Len(t)
        /\ (i + 1) - 1 = i /\ (m + (i + 1)) - 1 = m + i
    BY <1>1
  <2>2. a[i] = b[m + i]
    BY <1>3
  <2>3. a[i + 1] = (~a[i] /\ s[i + 1] = "}") /\ b[m + (i + 1)] = (~b[m + i] /\ t[m + (i + 1)] = "}")
    <3>1. a[i + 1] = (~a[(i + 1) - 1] /\ s[i + 1] = "}")
      BY <1>1, <2>1, Zenon DEF Escaping
    <3>2. b[m + (i + 1)] = (~b[(m + (i + 1)) - 1] /\ t[m + (i + 1)] = "}")
      BY <1>1, <2>1, Zenon DEF Escaping
    <3> QED BY <2>1, <3>1, <3>2
  <2>4. a[i + 1] = b[m + (i + 1)]
    BY <1>1, <2>1, <2>2, <2>3 DEF Agree
  <2> QED BY <2>1, <2>4
<1> HIDE DEF T
<1>4. \A i \in 0..n : i \in T
  BY <1>1, <1>2, <1>3, BoundedInduction
<1> QED BY <1>4 DEF T

(* The characters of s without the escapes, after each character.           *)
Unescaped(s) ==
  LET escaped == Escapes(s, FALSE)
      after[i \in 0..Len(s)] ==
        IF i = 0 THEN <<>>
        ELSE IF escaped[i - 1] THEN Append(after[i - 1], Flip(s[i]))
        ELSE IF s[i] = "}" THEN after[i - 1] ELSE Append(after[i - 1], s[i])
  IN  after

(* q with character c, which is escaped or not.                             *)
Unescape(q, c, escaped) ==
  IF escaped THEN Append(q, Flip(c)) ELSE IF c = "}" THEN q ELSE Append(q, c)

Unescaping(f, s) ==
  /\ f \in [0..Len(s) -> Seq(Chars)] /\ f[0] = <<>>
  /\ \A i \in 1..Len(s) : f[i] = Unescape(f[i - 1], s[i], Escapes(s, FALSE)[i - 1])

LEMMA UnescapeType ==
  ASSUME NEW q \in Seq(Chars), NEW c \in Chars, NEW e
  PROVE  Unescape(q, c, e) \in Seq(Chars)
<1>1. Flip(c) \in Chars
  BY FlipChar
<1>2. Append(q, c) \in Seq(Chars) /\ Append(q, Flip(c)) \in Seq(Chars)
  BY <1>1
<1> QED BY <1>2, Zenon DEF Unescape

LEMMA UnescapedValue ==
  ASSUME NEW s \in Seq(Chars)
  PROVE  Unescaping(Unescaped(s), s) /\ deescape(s) = Unescaped(s)[Len(s)]
<1> DEFINE N == Len(s)
           b == Escapes(s, FALSE)
           g == [i \in 1..N |-> [q \in Seq(Chars) |-> Unescape(q, s[i], b[i - 1])]]
           Eq(f) == f = [i \in 0..N |-> IF i = 0 THEN <<>> ELSE Unescape(f[i - 1], s[i], b[i - 1])]
<1>1. N \in Nat /\ \A i \in 1..N : s[i] \in Chars
  OBVIOUS
<1> HIDE DEF N, b
<1>2. g \in [1..N -> [Seq(Chars) -> Seq(Chars)]]
  BY <1>1, UnescapeType, Zenon
<1>3. <<>> \in Seq(Chars)
  OBVIOUS
<1>4. PICK f \in [0..N -> Seq(Chars)] : f[0] = <<>> /\ \A i \in 1..N : f[i] = g[i][f[i - 1]]
  <2> HIDE DEF g
  <2>1. PICK a, S : a = <<>> /\ S = Seq(Chars)
    OBVIOUS
  <2>2. \E f \in [0..N -> S] : f[0] = a /\ \A i \in 1..N : f[i] = g[i][f[i - 1]]
    <3>1. a \in S /\ g \in [1..N -> [S -> S]]
      BY <1>2, <1>3, <2>1
    <3>2. N \in Nat
      BY <1>1
    <3> QED BY <3>1, <3>2, Iteration
  <2> QED BY <2>1, <2>2
<1>5. ASSUME NEW i \in 1..N PROVE f[i] = Unescape(f[i - 1], s[i], b[i - 1])
  <2>1. i - 1 \in 0..N
    BY <1>1
  <2>2. f[i - 1] \in Seq(Chars)
    BY <1>4, <2>1, Zenon
  <2>3. g[i][f[i - 1]] = Unescape(f[i - 1], s[i], b[i - 1])
    BY <2>2, Zenon
  <2> QED BY <1>4, <2>3
<1>6. Eq(f)
  <2>1. ASSUME NEW i \in 0..N PROVE f[i] = IF i = 0 THEN <<>> ELSE Unescape(f[i - 1], s[i], b[i - 1])
    <3>1. CASE i = 0
      BY <1>4, <3>1, Zenon
    <3>2. CASE i # 0
      <4>1. i \in 1..N
        BY <1>1, <3>2
      <4> QED BY <1>5, <3>2, <4>1, Zenon
    <3> QED BY <3>1, <3>2
  <2>2. f = [i \in 0..N |-> f[i]]
    BY <1>4, Zenon
  <2> QED BY <2>1, <2>2, Zenon
<1>7. PICK h : h = CHOOSE k : Eq(k)
  OBVIOUS
<1>8. h = Unescaped(s) /\ deescape(s) = h[N]
  BY <1>7, Zenon DEF Unescaped, deescape, Unescape, N, b
<1>9. Eq(h)
  <2> HIDE DEF Eq
  <2> QED BY <1>6, <1>7, Zenon
<1>10. h[0] = <<>> /\ \A i \in 1..N : h[i] = Unescape(h[i - 1], s[i], b[i - 1])
  <2>1. 0 \in 0..N
    BY <1>1
  <2>2. h[0] = <<>>
    BY <1>9, <2>1, Zenon
  <2>3. ASSUME NEW i \in 1..N PROVE h[i] = Unescape(h[i - 1], s[i], b[i - 1])
    <3>1. i \in 0..N /\ i # 0
      BY <1>1
    <3> QED BY <1>9, <3>1, Zenon
  <2> QED BY <2>2, <2>3
<1>11. h \in [0..N -> Seq(Chars)]
  <2> DEFINE T == {i \in 0..N : h[i] \in Seq(Chars)}
  <2>1. 0 \in T
    <3>1. 0 \in 0..N
      BY <1>1
    <3> QED BY <1>3, <1>10, <3>1, Zenon
  <2>2. ASSUME NEW i \in 0..(N - 1), i \in T PROVE i + 1 \in T
    <3>1. i + 1 \in 0..N /\ i + 1 \in 1..N /\ (i + 1) - 1 = i
      BY <1>1
    <3>2. h[i + 1] = Unescape(h[i], s[i + 1], b[i])
      BY <1>10, <3>1
    <3>3. h[i] \in Seq(Chars) /\ s[i + 1] \in Chars
      BY <1>1, <2>2, <3>1
    <3>4. h[i + 1] \in Seq(Chars)
      BY <3>2, <3>3, UnescapeType
    <3> QED BY <3>1, <3>4
  <2>3. \A i \in 0..N : i \in T
    <3> HIDE DEF T
    <3> QED BY <1>1, <2>1, <2>2, BoundedInduction
  <2>4. h = [i \in 0..N |-> h[i]]
    BY <1>9, Zenon
  <2> QED BY <2>3, <2>4, Zenon
<1> QED BY <1>8, <1>10, <1>11, Zenon DEF N, b, Unescaping

(* x is q with escapes; e when the next character is escaped.               *)
Escaped(x, e, q) ==
  /\ x \in Seq(Chars) /\ q \in Seq(Chars) /\ e \in BOOLEAN
  /\ Escapes(x, FALSE)[Len(x)] = e /\ deescape(x) = q

LEMMA EscapedEmpty ==
  Escaped(<<>>, FALSE, <<>>)
<1>1. <<>> \in Seq(Chars) /\ Len(<<>>) = 0 /\ 0 \in Nat /\ FALSE \in BOOLEAN
  OBVIOUS
<1>2. Escaping(Escapes(<<>>, FALSE), <<>>, FALSE)
  BY <1>1, EscapesValue, Zenon
<1>3. Escapes(<<>>, FALSE)[0] = FALSE
  BY <1>2, Zenon DEF Escaping
<1>4. Unescaped(<<>>)[0] = <<>> /\ deescape(<<>>) = Unescaped(<<>>)[0]
  BY <1>1, UnescapedValue, Zenon DEF Unescaping
<1> QED BY <1>1, <1>3, <1>4, Zenon DEF Escaped

LEMMA EscapedAppend ==
  ASSUME NEW x, NEW e, NEW q, Escaped(x, e, q), NEW c \in Chars
  PROVE  Escaped(Append(x, c), ~e /\ c = "}", Unescape(q, c, e))
<1>1. PICK y : y = Append(x, c)
  OBVIOUS
<1>2. PICK n : n = Len(x)
  OBVIOUS
<1>3. x \in Seq(Chars) /\ q \in Seq(Chars) /\ e \in BOOLEAN /\ Escapes(x, FALSE)[n] = e /\ deescape(x) = q
  BY <1>2, Zenon DEF Escaped
<1>4. /\ y \in Seq(Chars) /\ Len(y) = n + 1 /\ y[n + 1] = c /\ n \in Nat /\ \A i \in 1..n : y[i] = x[i]
      /\ Len(x) \in Nat /\ Len(y) \in Nat /\ n <= Len(x) /\ 0 + n <= Len(y) /\ n \in 0..n /\ 0 + n = n
      /\ n + 1 \in 1..Len(y) /\ (n + 1) - 1 = n
  BY <1>1, <1>2, <1>3
<1>5. PICK b : b = Escapes(y, FALSE)
  OBVIOUS
<1>6. PICK a : a = Escapes(x, FALSE)
  OBVIOUS
<1>7. Escaping(b, y, FALSE)
  BY <1>4, <1>5, EscapesValue, Zenon
<1>8. \A i \in 0..n : a[i] = b[i]
  <2>1. Escaping(a, x, FALSE)
    BY <1>4, <1>6, EscapesValue, Zenon
  <2>2. PICK z : z = 0
    OBVIOUS
  <2>3. a[0] = b[z]
    BY <1>7, <2>1, <2>2, Zenon DEF Escaping
  <2>4. z \in Nat /\ z + n <= Len(y) /\ Agree(x, y, z, n)
    BY <1>4, <2>2 DEF Agree
  <2>5. \A i \in 0..n : a[i] = b[z + i]
    <3>1. SameText(x, y, z, n, a, b)
      BY <1>4, <1>7, <2>1, <2>3, <2>4, Zenon DEF SameText
    <3> QED BY <3>1, EscapesAgree
  <2> QED BY <2>2, <2>5
<1>9. b[n] = e
  BY <1>3, <1>4, <1>6, <1>8
<1>10. b[n + 1] = (~e /\ c = "}")
  <2>1. b[n + 1] = (~b[(n + 1) - 1] /\ y[n + 1] = "}")
    BY <1>4, <1>7, Zenon DEF Escaping
  <2> QED BY <1>4, <1>9, <2>1
<1>11. PICK v : v = Unescaped(y) /\ Unescaping(v, y) /\ deescape(y) = v[Len(y)]
  BY <1>4, UnescapedValue
<1>12. PICK u : u = Unescaped(x) /\ Unescaping(u, x) /\ deescape(x) = u[Len(x)]
  BY <1>3, UnescapedValue
<1> DEFINE T == {i \in 0..n : u[i] = v[i]}
<1>13. \A i \in 0..n : i \in T
  <2>1. 0 \in T
    BY <1>4, <1>11, <1>12 DEF Unescaping
  <2>2. ASSUME NEW i \in 0..(n - 1), i \in T PROVE i + 1 \in T
    <3>1. i + 1 \in 0..n /\ i + 1 \in 1..n /\ i \in 0..n /\ (i + 1) - 1 = i /\ i + 1 \in 1..Len(y)
      BY <1>4
    <3>2. u[i + 1] = Unescape(u[(i + 1) - 1], x[i + 1], a[(i + 1) - 1])
      BY <1>2, <1>6, <1>12, <3>1, Zenon DEF Unescaping
    <3>3. v[i + 1] = Unescape(v[(i + 1) - 1], y[i + 1], b[(i + 1) - 1])
      BY <1>5, <1>11, <3>1, Zenon DEF Unescaping
    <3>4. u[i + 1] = v[i + 1]
      BY <1>4, <1>8, <2>2, <3>1, <3>2, <3>3
    <3> QED BY <3>1, <3>4
  <2> HIDE DEF T
  <2> QED BY <1>4, <2>1, <2>2, BoundedInduction
<1>14. v[n] = q
  BY <1>2, <1>3, <1>4, <1>12, <1>13
<1>15. v[n + 1] = Unescape(q, c, e)
  <2>1. v[n + 1] = Unescape(v[(n + 1) - 1], y[n + 1], b[(n + 1) - 1])
    BY <1>4, <1>5, <1>11, Zenon DEF Unescaping
  <2> QED BY <1>4, <1>9, <1>14, <2>1
<1>16. Unescape(q, c, e) \in Seq(Chars)
  BY <1>3, UnescapeType
<1> QED BY <1>1, <1>4, <1>5, <1>10, <1>11, <1>15, <1>16, Zenon DEF Escaped

(* q with the next character of a packet, as GDB sends it.                  *)
EscapeChar(q, c) == q \o (IF c \in {"#", "}"} THEN <<"}", Flip(c)>> ELSE <<c>>)

LEMMA TwoAppended ==
  ASSUME NEW S, NEW x \in Seq(S), NEW a \in S, NEW b \in S
  PROVE  /\ x \o <<a, b>> = Append(Append(x, a), b) /\ x \o <<a>> = Append(x, a)
         /\ x \o <<a, b>> \in Seq(S) /\ x \o <<a>> \in Seq(S)
<1>1. <<a, b>> \in Seq(S) /\ Len(<<a, b>>) = 2 /\ <<a, b>>[1] = a /\ <<a, b>>[2] = b
  OBVIOUS
<1>2. PICK y : y = Append(Append(x, a), b)
  OBVIOUS
<1>3. y \in Seq(S) /\ Len(y) = Len(x) + 2 /\ y[Len(x) + 1] = a /\ y[Len(x) + 2] = b /\ \A i \in 1..Len(x) : y[i] = x[i]
  BY <1>2
<1>4. PICK t : t = <<a, b>>
  OBVIOUS
<1>5. PICK z : z = x \o t
  OBVIOUS
<1>6. /\ z \in Seq(S) /\ Len(z) = Len(x) + 2 /\ \A i \in 1..Len(x) : z[i] = x[i]
      /\ z[Len(x) + 1] = a /\ z[Len(x) + 2] = b
  BY <1>1, <1>4, <1>5
<1>7. \A i \in 1..Len(z) : z[i] = y[i]
  <2>1. \A i \in 1..Len(z) : i \in 1..Len(x) \/ i = Len(x) + 1 \/ i = Len(x) + 2
    BY <1>6
  <2> QED BY <1>3, <1>6, <2>1
<1>8. z = y
  BY <1>3, <1>6, <1>7, SeqEqual
<1> QED BY <1>2, <1>4, <1>5, <1>6, <1>8

LEMMA EscapeCharType ==
  ASSUME NEW q \in Seq(Chars), NEW c \in Chars
  PROVE  EscapeChar(q, c) \in Seq(Chars)
<1>1. Flip(c) \in Chars /\ "}" \in Chars
  BY FlipChar DEF Chars
<1>2. q \o <<"}", Flip(c)>> \in Seq(Chars) /\ q \o <<c>> \in Seq(Chars)
  BY <1>1, TwoAppended
<1> QED BY <1>2, Zenon DEF EscapeChar

LEMMA EscapeValue ==
  ASSUME NEW s \in Seq(Chars)
  PROVE  \E f \in [0..Len(s) -> Seq(Chars)] :
           f[0] = <<>> /\ (\A i \in 1..Len(s) : f[i] = EscapeChar(f[i - 1], s[i])) /\ Escape(s) = f[Len(s)]
<1> DEFINE N == Len(s)
           g == [i \in 1..N |-> [q \in Seq(Chars) |-> EscapeChar(q, s[i])]]
           Eq(f) == f = [i \in 0..N |-> IF i = 0 THEN <<>> ELSE EscapeChar(f[i - 1], s[i])]
<1>1. N \in Nat /\ \A i \in 1..N : s[i] \in Chars
  OBVIOUS
<1> HIDE DEF N
<1>2. g \in [1..N -> [Seq(Chars) -> Seq(Chars)]]
  BY <1>1, EscapeCharType, Zenon
<1>3. <<>> \in Seq(Chars)
  OBVIOUS
<1>4. PICK f \in [0..N -> Seq(Chars)] : f[0] = <<>> /\ \A i \in 1..N : f[i] = g[i][f[i - 1]]
  <2> HIDE DEF g
  <2>1. PICK a, S : a = <<>> /\ S = Seq(Chars)
    OBVIOUS
  <2>2. \E f \in [0..N -> S] : f[0] = a /\ \A i \in 1..N : f[i] = g[i][f[i - 1]]
    <3>1. a \in S /\ g \in [1..N -> [S -> S]]
      BY <1>2, <1>3, <2>1
    <3>2. N \in Nat
      BY <1>1
    <3> QED BY <3>1, <3>2, Iteration
  <2> QED BY <2>1, <2>2
<1>5. ASSUME NEW i \in 1..N PROVE f[i] = EscapeChar(f[i - 1], s[i])
  <2>1. i - 1 \in 0..N
    BY <1>1
  <2>2. f[i - 1] \in Seq(Chars)
    BY <1>4, <2>1, Zenon
  <2>3. g[i][f[i - 1]] = EscapeChar(f[i - 1], s[i])
    BY <2>2, Zenon
  <2> QED BY <1>4, <2>3
<1>6. Eq(f)
  <2>1. ASSUME NEW i \in 0..N PROVE f[i] = IF i = 0 THEN <<>> ELSE EscapeChar(f[i - 1], s[i])
    <3>1. CASE i = 0
      BY <1>4, <3>1, Zenon
    <3>2. CASE i # 0
      <4>1. i \in 1..N
        BY <1>1, <3>2
      <4> QED BY <1>5, <3>2, <4>1, Zenon
    <3> QED BY <3>1, <3>2
  <2>2. f = [i \in 0..N |-> f[i]]
    BY <1>4, Zenon
  <2> QED BY <2>1, <2>2, Zenon
<1>7. PICK h : h = CHOOSE k : Eq(k)
  OBVIOUS
<1>8. Escape(s) = h[N]
  BY <1>7, Zenon DEF Escape, EscapeChar, N
<1>9. Eq(h)
  <2> HIDE DEF Eq
  <2> QED BY <1>6, <1>7, Zenon
<1>10. h[0] = <<>> /\ \A i \in 1..N : h[i] = EscapeChar(h[i - 1], s[i])
  <2>1. 0 \in 0..N
    BY <1>1
  <2>2. h[0] = <<>>
    BY <1>9, <2>1, Zenon
  <2>3. ASSUME NEW i \in 1..N PROVE h[i] = EscapeChar(h[i - 1], s[i])
    <3>1. i \in 0..N /\ i # 0
      BY <1>1
    <3> QED BY <1>9, <3>1, Zenon
  <2> QED BY <2>2, <2>3
<1>11. h \in [0..N -> Seq(Chars)]
  <2> DEFINE T == {i \in 0..N : h[i] \in Seq(Chars)}
  <2>1. 0 \in T
    <3>1. 0 \in 0..N
      BY <1>1
    <3> QED BY <1>3, <1>10, <3>1, Zenon
  <2>2. ASSUME NEW i \in 0..(N - 1), i \in T PROVE i + 1 \in T
    <3>1. i + 1 \in 0..N /\ i + 1 \in 1..N /\ (i + 1) - 1 = i
      BY <1>1
    <3>2. h[i + 1] = EscapeChar(h[i], s[i + 1])
      BY <1>10, <3>1
    <3>3. h[i] \in Seq(Chars) /\ s[i + 1] \in Chars
      BY <1>1, <2>2, <3>1
    <3>4. h[i + 1] \in Seq(Chars)
      BY <3>2, <3>3, EscapeCharType
    <3> QED BY <3>1, <3>4
  <2>3. \A i \in 0..N : i \in T
    <3> HIDE DEF T
    <3> QED BY <1>1, <2>1, <2>2, BoundedInduction
  <2>4. h = [i \in 0..N |-> h[i]]
    BY <1>9, Zenon
  <2> QED BY <2>3, <2>4, Zenon
<1> QED BY <1>8, <1>10, <1>11, Zenon DEF N

NoHash(x) == \A i \in 1..Len(x) : x[i] # "#"

LEMMA NoHashAppend ==
  ASSUME NEW x \in Seq(Chars), NoHash(x), NEW c \in Chars, c # "#"
  PROVE  NoHash(Append(x, c))
<1>1. PICK y : y = Append(x, c)
  OBVIOUS
<1>2. Len(y) = Len(x) + 1 /\ y[Len(x) + 1] = c /\ \A i \in 1..Len(x) : y[i] = x[i]
  BY <1>1
<1>3. \A i \in 1..Len(y) : i \in 1..Len(x) \/ i = Len(x) + 1
  BY <1>2
<1> QED BY <1>1, <1>2, <1>3 DEF NoHash

LEMMA EscapedChar ==
  ASSUME NEW x, NEW q, Escaped(x, FALSE, q), NoHash(x), NEW c \in Chars
  PROVE  Escaped(EscapeChar(x, c), FALSE, Append(q, c)) /\ NoHash(EscapeChar(x, c))
<1>1. x \in Seq(Chars) /\ q \in Seq(Chars)
  BY Zenon DEF Escaped
<1>2. CASE c \in {"#", "}"}
  <2>1. PICK y, z : y = Append(x, "}") /\ z = Append(y, Flip(c))
    OBVIOUS
  <2>2. Flip(c) \in Chars /\ Flip(c) \notin {"#", "}"} /\ Flip(Flip(c)) = c /\ "}" \in Chars
    BY <1>2, FlipChar DEF Chars
  <2>3. Escaped(y, TRUE, q)
    <3>1. Escaped(y, ~FALSE /\ "}" = "}", Unescape(q, "}", FALSE))
      BY <2>1, <2>2, EscapedAppend, Zenon
    <3>2. Unescape(q, "}", FALSE) = q
      BY Zenon DEF Unescape
    <3>3. (~FALSE /\ "}" = "}") = TRUE
      OBVIOUS
    <3> QED BY <3>1, <3>2, <3>3
  <2>4. Escaped(z, FALSE, Append(q, c))
    <3>1. Escaped(z, ~TRUE /\ Flip(c) = "}", Unescape(q, Flip(c), TRUE))
      BY <2>1, <2>2, <2>3, EscapedAppend, Zenon
    <3>2. Unescape(q, Flip(c), TRUE) = Append(q, c)
      BY <2>2, Zenon DEF Unescape
    <3>3. (~TRUE /\ Flip(c) = "}") = FALSE
      OBVIOUS
    <3> QED BY <3>1, <3>2, <3>3
  <2>5. EscapeChar(x, c) = z
    <3>1. EscapeChar(x, c) = x \o <<"}", Flip(c)>>
      BY <1>2, Zenon DEF EscapeChar
    <3>2. PICK f : f = Flip(c) /\ f \in Chars
      BY <2>2
    <3>3. PICK k : k = "}" /\ k \in Chars
      BY <2>2
    <3>4. x \o <<k, f>> = Append(Append(x, k), f)
      <4>1. x \in Seq(Chars) /\ k \in Chars /\ f \in Chars
        BY <1>1, <3>2, <3>3
      <4> QED BY <4>1, TwoAppended
    <3> QED BY <2>1, <3>1, <3>2, <3>3, <3>4
  <2>6. NoHash(z)
    <3>1. PICK k : k = "}" /\ k \in Chars /\ k # "#"
      <4>1. "}" # "#"
        OBVIOUS
      <4> QED BY <2>2, <4>1, Zenon
    <3>2. y = Append(x, k) /\ y \in Seq(Chars)
      <4>1. y = Append(x, k)
        BY <2>1, <3>1, Zenon
      <4>2. k \in Chars
        BY <3>1, Zenon
      <4> QED BY <1>1, <4>1, <4>2
    <3>3. NoHash(y)
      BY <1>1, <3>1, <3>2, NoHashAppend
    <3> QED BY <2>1, <2>2, <3>2, <3>3, NoHashAppend
  <2> QED BY <2>4, <2>5, <2>6
<1>3. CASE c \notin {"#", "}"}
  <2>1. EscapeChar(x, c) = Append(x, c)
    <3>1. EscapeChar(x, c) = x \o <<c>>
      BY <1>3, Zenon DEF EscapeChar
    <3> QED BY <1>1, <3>1
  <2>2. Escaped(Append(x, c), FALSE, Append(q, c))
    <3>1. Escaped(Append(x, c), ~FALSE /\ c = "}", Unescape(q, c, FALSE))
      BY EscapedAppend, Zenon
    <3>2. Unescape(q, c, FALSE) = Append(q, c)
      BY <1>3, Zenon DEF Unescape
    <3>3. (~FALSE /\ c = "}") = FALSE
      BY <1>3
    <3> QED BY <3>1, <3>2, <3>3
  <2>3. NoHash(Append(x, c))
    BY <1>1, <1>3, NoHashAppend
  <2> QED BY <2>1, <2>2, <2>3
<1> QED BY <1>2, <1>3

(* deescape undoes what GDB does, and a '#' is left for the end of the packet. *)
LEMMA EscapeUndone ==
  ASSUME NEW p \in Seq(Chars)
  PROVE  Escaped(Escape(p), FALSE, p) /\ NoHash(Escape(p))
<1>1. PICK f \in [0..Len(p) -> Seq(Chars)] :
        f[0] = <<>> /\ (\A i \in 1..Len(p) : f[i] = EscapeChar(f[i - 1], p[i])) /\ Escape(p) = f[Len(p)]
  BY EscapeValue
<1>2. PICK N : N = Len(p) /\ N \in Nat
  OBVIOUS
<1> DEFINE T == {i \in 0..N : Escaped(f[i], FALSE, SubSeq(p, 1, i)) /\ NoHash(f[i])}
<1>3. 0 \in T
  <2>1. 0 \in 0..N /\ SubSeq(p, 1, 0) = <<>> /\ NoHash(<<>>)
    BY <1>2 DEF NoHash
  <2> QED BY <1>1, <2>1, EscapedEmpty
<1>4. ASSUME NEW i \in 0..(N - 1), i \in T PROVE i + 1 \in T
  <2>1. i + 1 \in 0..N /\ i + 1 \in 1..Len(p) /\ (i + 1) - 1 = i /\ p[i + 1] \in Chars
    BY <1>2
  <2>2. f[i + 1] = EscapeChar(f[i], p[i + 1])
    BY <1>1, <2>1
  <2>3. SubSeq(p, 1, i + 1) = Append(SubSeq(p, 1, i), p[i + 1])
    BY <1>2, <2>1
  <2>4. Escaped(f[i], FALSE, SubSeq(p, 1, i)) /\ NoHash(f[i])
    BY <1>4
  <2>5. Escaped(f[i + 1], FALSE, SubSeq(p, 1, i + 1)) /\ NoHash(f[i + 1])
    BY <2>1, <2>2, <2>3, <2>4, EscapedChar, Zenon
  <2> QED BY <2>1, <2>5
<1>5. N \in 0..N /\ SubSeq(p, 1, N) = p
  BY <1>2
<1>6. N \in T
  <2> HIDE DEF T
  <2> QED BY <1>2, <1>3, <1>4, <1>5, BoundedInduction
<1> QED BY <1>1, <1>2, <1>5, <1>6

LEMMA Joined ==
  ASSUME NEW S, NEW d \in Seq(S), NEW c \in Seq(S), NEW q, q = d \o c
  PROVE  /\ q \in Seq(S) /\ Len(q) = Len(d) + Len(c)
         /\ \A i \in 1..Len(d) : q[i] = d[i]
         /\ \A i \in 1..Len(c) : q[Len(d) + i] = c[i]
OBVIOUS

(* The frame that GDB puts a packet p, escaped to x, in.                    *)
Framed(f, x) ==
  /\ f \in Seq(Chars) /\ Len(f) = Len(x) + 4 /\ f[1] = "$" /\ \A k \in 1..Len(x) : f[1 + k] = x[k]
  /\ f[Len(x) + 2] = "#" /\ f[Len(x) + 3] = checksum(x)[1] /\ f[Len(x) + 4] = checksum(x)[2]

LEMMA ChecksumPair ==
  ASSUME NEW x
  PROVE  checksum(x) = <<checksum(x)[1], checksum(x)[2]>> /\ checksum(x)[1] \in Chars /\ checksum(x)[2] \in Chars
<1>1. \E n : checksum(x) = <<IF n \div 2 = 0 THEN "0" ELSE "1", IF n % 2 = 0 THEN "0" ELSE "1">>
  BY Zenon DEF checksum
<1>2. \E a, b \in {"0", "1"} : checksum(x) = <<a, b>>
  <2>1. PICK n : checksum(x) = <<IF n \div 2 = 0 THEN "0" ELSE "1", IF n % 2 = 0 THEN "0" ELSE "1">>
    BY <1>1
  <2>2. PICK a, b : a = (IF n \div 2 = 0 THEN "0" ELSE "1") /\ b = IF n % 2 = 0 THEN "0" ELSE "1"
    OBVIOUS
  <2>3. a \in {"0", "1"} /\ b \in {"0", "1"}
    BY <2>2, Zenon
  <2> QED BY <2>1, <2>2, <2>3
<1>3. "0" \in Chars /\ "1" \in Chars
  BY Zenon DEF Chars
<1> QED BY <1>2, <1>3

LEMMA EncodedValue ==
  ASSUME NEW p \in Seq(Chars)
  PROVE  Framed(Encoded(p), Escape(p))
<1>1. PICK x : x = Escape(p)
  OBVIOUS
<1>2. x \in Seq(Chars)
  BY <1>1, EscapeUndone DEF Escaped
<1>3. PICK a, b : checksum(x) = <<a, b>> /\ a \in Chars /\ b \in Chars
  BY ChecksumPair
<1>4. PICK d, h : d = "$" /\ h = "#" /\ d \in Chars /\ h \in Chars
  <2>1. "$" \in Chars /\ "#" \in Chars
    BY Zenon DEF Chars
  <2> QED BY <2>1, Zenon
<1>5. PICK u : u = <<d>> \o x
  OBVIOUS
<1>6. /\ u \in Seq(Chars) /\ Len(u) = Len(x) + 1 /\ u[1] = d /\ \A k \in 1..Len(x) : u[1 + k] = x[k]
  <2>1. <<d>> \in Seq(Chars) /\ Len(<<d>>) = 1 /\ <<d>>[1] = d /\ Len(x) \in Nat
    BY <1>2, <1>4
  <2> QED BY <1>2, <1>5, <2>1
<1>7. PICK v : v = u \o <<h>>
  OBVIOUS
<1>8. /\ v \in Seq(Chars) /\ Len(v) = Len(x) + 2 /\ v[Len(x) + 2] = h /\ \A k \in 1..(Len(x) + 1) : v[k] = u[k]
      /\ Len(x) \in Nat
  BY <1>2, <1>4, <1>6, <1>7
<1>9. PICK w : w = v \o <<a, b>>
  OBVIOUS
<1>10. /\ w \in Seq(Chars) /\ Len(w) = Len(x) + 4 /\ w[Len(x) + 3] = a /\ w[Len(x) + 4] = b
       /\ \A k \in 1..(Len(x) + 2) : w[k] = v[k]
  <2>1. PICK t : t = <<a, b>> /\ t \in Seq(Chars) /\ Len(t) = 2 /\ t[1] = a /\ t[2] = b
    <3>1. a \in Chars /\ b \in Chars
      BY <1>3
    <3>2. <<a, b>> \in Seq(Chars) /\ Len(<<a, b>>) = 2 /\ <<a, b>>[1] = a /\ <<a, b>>[2] = b
      BY <3>1
    <3> QED BY <3>2
  <2> QED BY <1>8, <1>9, <2>1
<1>11. Encoded(p) = w
  BY <1>1, <1>3, <1>4, <1>5, <1>7, <1>9, Zenon DEF Encoded
<1>12. w[1] = d /\ w[Len(x) + 2] = h /\ \A k \in 1..Len(x) : w[1 + k] = x[k]
  <2>1. \A k \in 1..Len(x) : 1 + k \in 1..(Len(x) + 1) /\ 1 + k \in 1..(Len(x) + 2)
    BY <1>8
  <2>2. 1 \in 1..(Len(x) + 1) /\ 1 \in 1..(Len(x) + 2) /\ Len(x) + 2 \in 1..(Len(x) + 2)
    BY <1>8
  <2> QED BY <1>6, <1>8, <1>10, <2>1, <2>2, SMTT(30)
<1>13. a = checksum(x)[1] /\ b = checksum(x)[2]
  BY <1>3
<1> QED BY <1>1, <1>4, <1>10, <1>11, <1>12, <1>13 DEF Framed

(* s begins with what is left behind m characters of x, then a '#'.         *)
Rest(s, x, m) ==
  \A i \in 1..Len(s) : (m + i <= Len(x) => s[i] = x[m + i]) /\ (m + i = Len(x) + 1 => s[i] = "#")

(* s is scanned behind m characters of the packet x.                        *)
Scanning(x, b, m, s) ==
  /\ x \in Seq(Chars) /\ NoHash(x) /\ Escaping(b, x, FALSE) /\ b[Len(x)] = FALSE
  /\ m \in 0..Len(x) /\ s \in Seq(Chars) /\ Rest(s, x, m)

(* What the scan r finds: all of s is in the body, or the '#' is.           *)
Scanned(r, x, b, m, s) ==
  /\ Len(s) <= Len(x) - m => r.n = Len(s) /\ r.found = FALSE /\ r.escaped = b[m + Len(s)]
  /\ Len(s) > Len(x) - m => r.n = Len(x) - m /\ r.found = TRUE /\ r.escaped = FALSE

LEMMA ScanValue ==
  ASSUME NEW x, NEW b, NEW m, NEW s, Scanning(x, b, m, s), NEW r, r = scan_for_hash(s, b[m])
  PROVE  Scanned(r, x, b, m, s)
<1> USE DEF Scanned
<1> /\ x \in Seq(Chars) /\ NoHash(x) /\ Escaping(b, x, FALSE) /\ b[Len(x)] = FALSE
    /\ m \in 0..Len(x) /\ s \in Seq(Chars) /\ Rest(s, x, m)
  BY Zenon DEF Scanning
<1>1. PICK a : a = Escapes(s, b[m])
  OBVIOUS
<1>2. b[m] \in BOOLEAN /\ Len(s) \in Nat /\ Len(x) \in Nat /\ m \in Nat
  <2>1. b \in [0..Len(x) -> BOOLEAN]
    BY Zenon DEF Escaping
  <2> QED BY <2>1
<1>3. Escaping(a, s, b[m])
  BY <1>1, <1>2, EscapesValue, Zenon
<1> DEFINE hashes == {i \in 1..Len(s) : s[i] = "#" /\ ~a[i - 1]}
           n == IF hashes = {} THEN Len(s) ELSE Min(hashes) - 1
<1>4. r = [n |-> n, found |-> hashes # {}, escaped |-> a[n]]
  BY <1>1, Zenon DEF scan_for_hash
<1>5. ASSUME NEW k \in Nat, k <= Len(s), m + k <= Len(x)
      PROVE  (\A i \in 0..k : a[i] = b[m + i]) /\ \A i \in 1..k : i \notin hashes
  <2>1. Agree(s, x, m, k)
    <3>1. \A i \in 1..k : i \in 1..Len(s) /\ m + i <= Len(x)
      BY <1>2, <1>5
    <3> QED BY <3>1 DEF Agree, Rest
  <2>2. a[0] = b[m]
    BY <1>3, Zenon DEF Escaping
  <2>3. SameText(s, x, m, k, a, b)
    BY <1>2, <1>3, <1>5, <2>1, <2>2, Zenon DEF SameText
  <2>4. \A i \in 1..k : s[i] # "#"
    <3>1. \A i \in 1..k : m + i \in 1..Len(x)
      BY <1>2, <1>5
    <3> QED BY <2>1, <3>1 DEF Agree, NoHash
  <2>5. \A i \in 0..k : a[i] = b[m + i]
    BY <2>3, EscapesAgree
  <2> QED BY <2>4, <2>5, Zenon
<1>6. CASE Len(s) <= Len(x) - m
  <2>1. Len(s) <= Len(s) /\ m + Len(s) <= Len(x) /\ Len(s) \in 0..Len(s)
    BY <1>2, <1>6
  <2>2. hashes = {}
    BY <1>2, <1>5, <2>1
  <2>3. n = Len(s) /\ a[Len(s)] = b[m + Len(s)]
    BY <1>2, <1>5, <2>1, <2>2, Zenon
  <2> HIDE DEF n, hashes
  <2>4. r.n = Len(s) /\ r.found = FALSE /\ r.escaped = b[m + Len(s)]
    <3>1. r.n = n /\ r.found = (hashes # {}) /\ r.escaped = a[n]
      BY <1>4
    <3> QED BY <2>2, <2>3, <3>1, Zenon
  <2> QED BY <1>2, <1>6, <2>4
<1>7. CASE Len(s) > Len(x) - m
  <2>1. PICK k : k = Len(x) - m
    OBVIOUS
  <2>2. k \in Nat /\ k <= Len(s) /\ m + k = Len(x) /\ m + k <= Len(x) /\ k + 1 \in 1..Len(s)
        /\ m + (k + 1) = Len(x) + 1 /\ (k + 1) - 1 = k /\ k \in 0..k
    BY <1>2, <1>7, <2>1
  <2>3. a[k] = FALSE
    <3>1. a[k] = b[m + k]
      BY <1>5, <2>2, Zenon
    <3> QED BY <2>2, <3>1, Zenon
  <2>4. k + 1 \in hashes
    <3>1. s[k + 1] = "#"
      BY <2>2 DEF Rest
    <3>2. ~a[(k + 1) - 1]
      BY <2>2, <2>3
    <3> QED BY <2>2, <3>1, <3>2, Zenon
  <2>5. ASSUME NEW i \in hashes PROVE k + 1 <= i
    <3>1. i \in 1..Len(s) /\ i \notin 1..k
      BY <1>5, <2>2
    <3> QED BY <1>2, <2>2, <3>1
  <2>6. hashes \subseteq Int
    BY <1>2
  <2> HIDE DEF hashes
  <2>7. Min(hashes) = k + 1
    <3>1. PICK j : j = Min(hashes)
      OBVIOUS
    <3>2. j \in hashes /\ \A i \in hashes : j <= i
      BY <2>4, <2>5, <3>1, Zenon DEF Min
    <3>3. j <= k + 1 /\ k + 1 <= j
      BY <2>4, <2>5, <3>2
    <3> QED BY <2>2, <2>6, <3>1, <3>2, <3>3
  <2>8. n = k /\ hashes # {}
    BY <2>2, <2>4, <2>7
  <2> HIDE DEF n
  <2>9. r.n = k /\ r.found = TRUE /\ r.escaped = FALSE
    <3>1. r.n = n /\ r.found = (hashes # {}) /\ r.escaped = a[n]
      BY <1>4
    <3> QED BY <2>3, <2>8, <3>1, Zenon
  <2> QED BY <1>2, <1>7, <2>1, <2>9
<1> QED BY <1>2, <1>6, <1>7

-----------------------------------------------------------------------------
(* The circular buffer.                                                     *)

Buffers ==
  [buf : [0..(max_size - 1) -> Chars], head : 0..(max_size - 1), tail : 0..(max_size - 1), full : BOOLEAN]

BufferOK(b) == b \in Buffers /\ (b.full => b.head = b.tail)

(* What was received and not read, in its order.                            *)
Unread(b) == [i \in 1..size(b) |-> b.buf[Wrap(b.head + i - 1)]]

(* The fields of a buffer.                                                  *)
Fields(b, h, t, f, m) ==
  /\ b.head = h /\ b.tail = t /\ b.full = f /\ b.buf = m
  /\ h \in 0..(max_size - 1) /\ t \in 0..(max_size - 1) /\ f \in BOOLEAN /\ m \in [0..(max_size - 1) -> Chars]
  /\ f => h = t

Size(h, t, f) == IF f THEN max_size ELSE IF h <= t THEN t - h ELSE max_size - h + t

LEMMA BufferFields ==
  ASSUME NEW b, BufferOK(b)
  PROVE  \E h, t, f, m : Fields(b, h, t, f, m)
<1>1. PICK h, t, f, m : h = b.head /\ t = b.tail /\ f = b.full /\ m = b.buf
  OBVIOUS
<1>2. h \in 0..(max_size - 1) /\ t \in 0..(max_size - 1) /\ f \in BOOLEAN /\ m \in [0..(max_size - 1) -> Chars]
  BY <1>1 DEF BufferOK, Buffers
<1>3. f => h = t
  BY <1>1, Zenon DEF BufferOK
<1>4. Fields(b, h, t, f, m)
  BY <1>1, <1>2, <1>3, Zenon DEF Fields
<1> QED BY <1>4

LEMMA SizeType ==
  ASSUME NEW h \in 0..(max_size - 1), NEW t \in 0..(max_size - 1), NEW f \in BOOLEAN, f => h = t
  PROVE  Size(h, t, f) \in 0..max_size /\ (Size(h, t, f) = 0 <=> h = t /\ ~f) /\ max_size \in Nat /\ max_size > 1
BY GdbServerAssumption DEF Size

LEMMA WrapType ==
  ASSUME NEW i \in 0..(2 * max_size - 1)
  PROVE  Wrap(i) \in 0..(max_size - 1)
BY GdbServerAssumption DEF Wrap

LEMMA UnreadValue ==
  ASSUME NEW b, NEW h, NEW t, NEW f, NEW m, Fields(b, h, t, f, m)
  PROVE  /\ Unread(b) \in Seq(Chars) /\ Len(Unread(b)) = Size(h, t, f)
         /\ \A i \in 1..Size(h, t, f) : Unread(b)[i] = m[Wrap(h + i - 1)]
         /\ is_empty(b) <=> h = t /\ ~f
<1>1. h \in 0..(max_size - 1) /\ t \in 0..(max_size - 1) /\ f \in BOOLEAN /\ m \in [0..(max_size - 1) -> Chars] /\ (f => h = t)
  BY Zenon DEF Fields
<1>2. PICK n : n = Size(h, t, f)
  OBVIOUS
<1>3. n \in 0..max_size /\ max_size \in Nat
  BY <1>1, <1>2, SizeType
<1>4. Unread(b) = [i \in 1..n |-> m[Wrap(h + i - 1)]]
  <2>1. size(b) = n
    BY <1>2, Zenon DEF size, Size, Fields
  <2>2. b.buf = m /\ b.head = h
    BY Zenon DEF Fields
  <2> QED BY <2>1, <2>2, Zenon DEF Unread
<1>5. ASSUME NEW i \in 1..n PROVE m[Wrap(h + i - 1)] \in Chars
  <2>1. h + i - 1 \in 0..(2 * max_size - 1)
    BY <1>1, <1>3
  <2>2. Wrap(h + i - 1) \in 0..(max_size - 1)
    BY <2>1, WrapType
  <2> QED BY <1>1, <2>2
<1>6. PICK u : u = Unread(b)
  OBVIOUS
<1>7. u \in Seq(Chars) /\ Len(u) = n /\ \A i \in 1..n : u[i] = m[Wrap(h + i - 1)]
  <2>1. u \in [1..n -> Chars]
    BY <1>4, <1>5, <1>6, Zenon
  <2>2. u \in Seq(Chars) /\ Len(u) = n
    BY <1>3, <2>1
  <2> QED BY <1>4, <1>6, <2>2, Zenon
<1>8. is_empty(b) <=> h = t /\ ~f
  BY Zenon DEF is_empty, Fields
<1> QED BY <1>2, <1>6, <1>7, <1>8

(* The block to read is the beginning of what is unread, and there is one   *)
(* unless the buffer is empty.                                              *)
LEMMA ReadBlock ==
  ASSUME NEW b, BufferOK(b), NEW u, u = Unread(b), NEW s, s = read_block(b)
  PROVE  /\ s \in Seq(Chars) /\ u \in Seq(Chars) /\ Len(s) <= Len(u) /\ b.head + Len(s) <= max_size
         /\ \A i \in 1..Len(s) : s[i] = u[i]
         /\ s = <<>> <=> u = <<>>
         /\ is_empty(b) <=> u = <<>>
<1>1. PICK h, t, f, m : Fields(b, h, t, f, m)
  BY BufferFields
<1>2. h \in 0..(max_size - 1) /\ t \in 0..(max_size - 1) /\ f \in BOOLEAN /\ m \in [0..(max_size - 1) -> Chars] /\ (f => h = t)
  BY <1>1, Zenon DEF Fields
<1>3. PICK z : z = Size(h, t, f)
  OBVIOUS
<1>4. z \in 0..max_size /\ max_size \in Nat /\ max_size > 1 /\ (z = 0 <=> h = t /\ ~f)
  BY <1>2, <1>3, SizeType
<1>5. /\ u \in Seq(Chars) /\ Len(u) = z /\ (is_empty(b) <=> h = t /\ ~f)
      /\ \A i \in 1..z : u[i] = m[Wrap(h + i - 1)]
  BY <1>1, <1>3, UnreadValue
<1>6. PICK n : n = IF h = t /\ ~f THEN 0 ELSE IF t <= h THEN max_size - h ELSE t - h
  OBVIOUS
<1>7. n \in Nat /\ n <= z /\ h + n <= max_size /\ (n = 0 <=> h = t /\ ~f)
  BY <1>2, <1>3, <1>4, <1>6 DEF Size
<1>8. s = [i \in 1..n |-> m[h + i - 1]]
  <2>1. b.head = h /\ b.tail = t /\ b.full = f /\ b.buf = m
    BY <1>1, Zenon DEF Fields
  <2>2. n = IF is_empty(b) THEN 0 ELSE IF b.tail <= b.head THEN max_size - b.head ELSE b.tail - b.head
    BY <1>5, <1>6, <2>1, Zenon
  <2> QED BY <2>1, <2>2, Zenon DEF read_block
<1>9. ASSUME NEW i \in 1..n PROVE i \in 1..z /\ Wrap(h + i - 1) = h + i - 1 /\ h + i - 1 \in 0..(max_size - 1)
  BY <1>2, <1>4, <1>7 DEF Wrap
<1>10. s \in Seq(Chars) /\ Len(s) = n
  <2>1. s \in [1..n -> Chars]
    BY <1>2, <1>8, <1>9, Zenon
  <2> QED BY <1>7, <2>1
<1>11. \A i \in 1..n : s[i] = u[i]
  BY <1>5, <1>8, <1>9, Zenon
<1>12. (s = <<>> <=> n = 0) /\ (u = <<>> <=> z = 0)
  BY <1>5, <1>10
<1>13. b.head + Len(s) <= max_size
  <2>1. b.head = h
    BY <1>1, Zenon DEF Fields
  <2> QED BY <1>7, <1>10, <2>1
<1> QED BY <1>4, <1>5, <1>7, <1>10, <1>11, <1>12, <1>13

(* A buffer that is given by its fields.                                    *)
LEMMA BufferOf ==
  ASSUME NEW h, NEW t, NEW f, NEW m, NEW b, b = [buf |-> m, head |-> h, tail |-> t, full |-> f],
         h \in 0..(max_size - 1), t \in 0..(max_size - 1), f \in BOOLEAN, m \in [0..(max_size - 1) -> Chars], f => h = t
  PROVE  BufferOK(b) /\ Fields(b, h, t, f, m)
<1>1. b.head = h /\ b.tail = t /\ b.full = f /\ b.buf = m
  OBVIOUS
<1>2. b \in Buffers
  BY DEF Buffers
<1> QED BY <1>1, <1>2, Zenon DEF BufferOK, Fields

LEMMA BufferIs ==
  ASSUME NEW b, BufferOK(b), NEW h, NEW t, NEW f, NEW m, Fields(b, h, t, f, m)
  PROVE  b = [buf |-> m, head |-> h, tail |-> t, full |-> f]
<1>1. b \in Buffers
  BY Zenon DEF BufferOK
<1>2. b = [buf |-> b.buf, head |-> b.head, tail |-> b.tail, full |-> b.full]
  BY <1>1 DEF Buffers
<1> QED BY <1>2, Zenon DEF Fields

(* After l characters are read what was behind them is unread.              *)
LEMMA CommitRead ==
  ASSUME NEW b, BufferOK(b), NEW u, u = Unread(b), NEW l \in 0..Len(read_block(b)),
         NEW c, c = commit_read(b, l), NEW v, v = Unread(c)
  PROVE  BufferOK(c) /\ v \in Seq(Chars) /\ Len(v) = Len(u) - l /\ \A i \in 1..Len(v) : v[i] = u[l + i]
<1>1. PICK h, t, f, m : Fields(b, h, t, f, m)
  BY BufferFields
<1>2. h \in 0..(max_size - 1) /\ t \in 0..(max_size - 1) /\ f \in BOOLEAN /\ m \in [0..(max_size - 1) -> Chars] /\ (f => h = t)
  BY <1>1, Zenon DEF Fields
<1>3. PICK z : z = Size(h, t, f)
  OBVIOUS
<1>4. z \in 0..max_size /\ max_size \in Nat /\ max_size > 1
  BY <1>2, <1>3, SizeType
<1>5. u \in Seq(Chars) /\ Len(u) = z /\ \A i \in 1..z : u[i] = m[Wrap(h + i - 1)]
  BY <1>1, <1>3, UnreadValue
<1>6. l \in Nat /\ l <= z /\ h + l <= max_size /\ (l # 0 => z # 0)
  <2>1. PICK s : s = read_block(b)
    OBVIOUS
  <2>2. s \in Seq(Chars) /\ Len(s) <= Len(u) /\ b.head + Len(s) <= max_size /\ l \in 0..Len(s)
    BY <2>1, ReadBlock
  <2>3. b.head = h
    BY <1>1, Zenon DEF Fields
  <2> QED BY <1>2, <1>4, <1>5, <2>2, <2>3
<1>7. CASE l = 0
  <2>1. c = b /\ v = u
    BY <1>7, Zenon DEF commit_read
  <2> QED BY <1>5, <1>7, <2>1
<1>8. CASE l # 0
  <2>1. PICK g, w, no : no = FALSE /\ g = Wrap(h + l) /\ w = [i \in 0..(max_size - 1) |-> IF i \in h..(h + l - 1) THEN "-" ELSE m[i]]
    OBVIOUS
  <2>2. g \in 0..(max_size - 1) /\ (h + l < max_size => g = h + l) /\ (h + l = max_size => g = 0)
    BY <1>2, <1>4, <1>6, <2>1 DEF Wrap
  <2>3. w \in [0..(max_size - 1) -> Chars]
    <3>1. "-" \in Chars
      BY DEF Chars
    <3> QED BY <1>2, <2>1, <3>1
  <2>4. c = [buf |-> w, head |-> g, tail |-> t, full |-> no]
    <3>1. b = [buf |-> m, head |-> h, tail |-> t, full |-> f]
      BY <1>1, BufferIs
    <3>2. DOMAIN m = 0..(max_size - 1)
      BY <1>2
    <3>3. b.head = h /\ b.buf = m
      BY <1>1, Zenon DEF Fields
    <3>4. c = [b EXCEPT !.head = g, !.full = no, !.buf = w]
      BY <1>8, <2>1, <3>2, <3>3, Zenon DEF commit_read
    <3> QED BY <3>1, <3>4
  <2>5. BufferOK(c) /\ Fields(c, g, t, no, w)
    BY <1>2, <2>1, <2>2, <2>3, <2>4, BufferOf
  <2>6. PICK y : y = Size(g, t, no)
    OBVIOUS
  <2>7. v \in Seq(Chars) /\ Len(v) = y /\ \A i \in 1..y : v[i] = w[Wrap(g + i - 1)]
    BY <2>5, <2>6, UnreadValue
  <2>8. y = z - l
    BY <1>2, <1>3, <1>4, <1>6, <1>8, <2>1, <2>2, <2>6 DEF Size
  <2>9. ASSUME NEW i \in 1..y PROVE v[i] = u[l + i]
    <3>1. l + i \in 1..z /\ i \in Int
      BY <1>4, <1>6, <2>8
    <3>2. PICK j : j = Wrap(h + (l + i) - 1)
      OBVIOUS
    <3>3. j = Wrap(g + i - 1) /\ j \in 0..(max_size - 1) /\ j \notin h..(h + l - 1)
      BY <1>2, <1>4, <1>6, <1>8, <2>2, <3>1, <3>2 DEF Wrap
    <3>4. w[j] = m[j]
      BY <2>1, <3>3
    <3> QED BY <1>5, <2>7, <3>1, <3>2, <3>3, <3>4
  <2> QED BY <1>5, <2>5, <2>7, <2>8, <2>9
<1> QED BY <1>7, <1>8

(* The buffer after n characters of w are received.                         *)
Received(b, w, n) ==
  LET r == Rewound(b)
      buf == [i \in DOMAIN r.buf |-> IF i \in r.tail..(r.tail + n - 1) THEN w[i - r.tail + 1] ELSE r.buf[i]]
  IN  commit_write([r EXCEPT !.buf = buf], n)

(* c is b after a recv of n characters of w.                                *)
Receives(b, w, n, c) ==
  BufferOK(b) /\ w \in Seq(Chars) /\ n \in 1..write_block(b) /\ n <= Len(w) /\ c = Received(b, w, n)

(* v is u with the first n characters of w behind it.                       *)
Grows(u, v, w, n) ==
  /\ v \in Seq(Chars) /\ Len(v) = Len(u) + n
  /\ (\A i \in 1..Len(u) : v[i] = u[i]) /\ (\A i \in 1..n : v[Len(u) + i] = w[i])

(* What is received goes behind what is unread.                             *)
LEMMA CommitWrite ==
  ASSUME NEW b, NEW w, NEW n, NEW c, Receives(b, w, n, c)
  PROVE  BufferOK(c) /\ Grows(Unread(b), Unread(c), w, n)
<1> PICK u, v : u = Unread(b) /\ v = Unread(c)
  OBVIOUS
<1>0. BufferOK(b) /\ w \in Seq(Chars) /\ n \in 1..write_block(b) /\ n <= Len(w) /\ c = Received(b, w, n)
  BY Zenon DEF Receives
<1>1. PICK ah, at, f, m : Fields(b, ah, at, f, m)
  BY <1>0, BufferFields
<1>2. ah \in 0..(max_size - 1) /\ at \in 0..(max_size - 1) /\ f \in BOOLEAN /\ m \in [0..(max_size - 1) -> Chars] /\ (f => ah = at)
  BY <1>1, Zenon DEF Fields
<1>3. max_size \in Nat /\ max_size > 1
  BY GdbServerAssumption
<1>4. b = [buf |-> m, head |-> ah, tail |-> at, full |-> f]
  BY <1>0, <1>1, BufferIs
<1>5. PICK h, t, r : r = Rewound(b) /\ h = (IF ah = at /\ ~f THEN 0 ELSE ah) /\ t = (IF ah = at /\ ~f THEN 0 ELSE at)
  OBVIOUS
<1>6. r = [buf |-> m, head |-> h, tail |-> t, full |-> f]
  <2>1. is_empty(b) <=> ah = at /\ ~f
    BY <1>1, UnreadValue
  <2>2. CASE ah = at /\ ~f
    <3>1. r = [b EXCEPT !.head = h, !.tail = t]
      BY <1>5, <2>1, <2>2, Zenon DEF Rewound
    <3> QED BY <1>4, <3>1
  <2>3. CASE ~(ah = at /\ ~f)
    BY <1>4, <1>5, <2>1, <2>3, Zenon DEF Rewound
  <2> QED BY <2>2, <2>3
<1>7. h \in 0..(max_size - 1) /\ t \in 0..(max_size - 1) /\ (f => h = t) /\ (h = t => f \/ h = 0)
  BY <1>2, <1>3, <1>5
<1>8. PICK z : z = Size(h, t, f)
  OBVIOUS
<1>9. z \in 0..max_size /\ z = Size(ah, at, f)
  BY <1>2, <1>3, <1>5, <1>7, <1>8 DEF Size
<1>10. u \in Seq(Chars) /\ Len(u) = z /\ \A i \in 1..z : u[i] = m[Wrap(h + i - 1)]
  <2>1. u \in Seq(Chars) /\ Len(u) = z /\ \A i \in 1..z : u[i] = m[Wrap(ah + i - 1)]
    BY <1>1, <1>9, UnreadValue
  <2>2. h = ah \/ z = 0
    BY <1>2, <1>3, <1>5, <1>8 DEF Size
  <2> QED BY <2>1, <2>2
<1>11. ~f /\ n \in Nat \ {0} /\ n <= (IF h = t THEN max_size ELSE IF t < h THEN h - t ELSE max_size - t)
  <2>1. is_empty(b) <=> ah = at /\ ~f
    BY <1>1, UnreadValue
  <2>2. b.head = ah /\ b.tail = at /\ b.full = f
    BY <1>1, Zenon DEF Fields
  <2>3. write_block(b) = IF ah = at /\ ~f THEN max_size ELSE IF f THEN 0 ELSE IF at < ah THEN ah - at ELSE max_size - at
    BY <2>1, <2>2, Zenon DEF write_block
  <2> QED BY <1>0, <1>2, <1>3, <1>5, <2>3
<1>12. PICK g, k, d : g = Wrap(t + n) /\ k = (f \/ g = h)
                      /\ d = [i \in 0..(max_size - 1) |-> IF i \in t..(t + n - 1) THEN w[i - t + 1] ELSE m[i]]
  OBVIOUS
<1>13. /\ g \in 0..(max_size - 1) /\ k \in BOOLEAN /\ (k <=> g = h) /\ t + n <= max_size
       /\ (t + n < max_size => g = t + n) /\ (t + n = max_size => g = 0)
  <2>1. k \in BOOLEAN /\ (k <=> g = h)
    BY <1>11, <1>12, Zenon
  <2>2. g = Wrap(t + n) /\ t + n <= max_size
    BY <1>3, <1>7, <1>11, <1>12
  <2> QED BY <1>3, <1>7, <1>11, <2>1, <2>2 DEF Wrap
<1>14. d \in [0..(max_size - 1) -> Chars]
  <2>1. ASSUME NEW i \in 0..(max_size - 1), i \in t..(t + n - 1) PROVE w[i - t + 1] \in Chars
    <3>1. i - t + 1 \in 1..Len(w)
      BY <1>0, <1>3, <1>7, <1>11, <2>1
    <3> QED BY <1>0, <3>1
  <2> QED BY <1>2, <1>12, <2>1
<1>15. c = [buf |-> d, head |-> h, tail |-> g, full |-> k]
  <2>1. r.buf = m /\ r.tail = t /\ DOMAIN m = 0..(max_size - 1)
    BY <1>2, <1>6
  <2>2. PICK e : e = [r EXCEPT !.buf = d]
    OBVIOUS
  <2>3. c = commit_write(e, n)
    BY <1>0, <1>5, <1>12, <2>1, <2>2, Zenon DEF Received
  <2>4. e = [buf |-> d, head |-> h, tail |-> t, full |-> f]
    BY <1>6, <2>2
  <2>5. e.tail = t /\ e.head = h /\ e.full = f
    BY <2>4
  <2>6. c = [e EXCEPT !.tail = g, !.full = k]
    BY <1>12, <2>3, <2>5, Zenon DEF commit_write
  <2> QED BY <2>4, <2>6
<1>16. BufferOK(c) /\ Fields(c, h, g, k, d)
  BY <1>7, <1>13, <1>14, <1>15, BufferOf
<1>17. PICK y : y = Size(h, g, k)
  OBVIOUS
<1>18. v \in Seq(Chars) /\ Len(v) = y /\ \A i \in 1..y : v[i] = d[Wrap(h + i - 1)]
  BY <1>16, <1>17, UnreadValue
<1>19. y = z + n
  BY <1>3, <1>7, <1>8, <1>11, <1>13, <1>17 DEF Size
<1>20. ASSUME NEW i \in 1..z PROVE v[i] = u[i]
  <2>1. PICK j : j = Wrap(h + i - 1)
    OBVIOUS
  <2>2. j \in 0..(max_size - 1) /\ j \notin t..(t + n - 1)
    BY <1>3, <1>7, <1>8, <1>9, <1>11, <2>1 DEF Size, Wrap
  <2>3. d[j] = m[j]
    BY <1>12, <2>2
  <2>4. i \in 1..y
    BY <1>9, <1>11, <1>19
  <2> QED BY <1>10, <1>18, <2>1, <2>3, <2>4
<1>21. ASSUME NEW i \in 1..n PROVE v[z + i] = w[i]
  <2>1. PICK j : j = Wrap(h + (z + i) - 1)
    OBVIOUS
  <2>2. j \in 0..(max_size - 1) /\ j = t + i - 1
    <3>1. z = IF h <= t THEN t - h ELSE max_size - h + t
      BY <1>8, <1>11, Zenon DEF Size
    <3>2. t + i - 1 \in 0..(max_size - 1) /\ i \in Nat
      BY <1>3, <1>7, <1>11, <1>13
    <3>3. h + (z + i) - 1 = IF h <= t THEN t + i - 1 ELSE max_size + (t + i - 1)
      BY <1>3, <1>7, <3>1, <3>2
    <3> QED BY <1>3, <1>7, <2>1, <3>2, <3>3 DEF Wrap
  <2>3. d[j] = w[j - t + 1] /\ j - t + 1 = i
    BY <1>7, <1>11, <1>12, <2>2
  <2>4. z + i \in 1..y
    BY <1>9, <1>11, <1>19
  <2> QED BY <1>18, <2>1, <2>3, <2>4
<1>22. /\ v \in Seq(Chars) /\ Len(v) = Len(u) + n
       /\ (\A i \in 1..Len(u) : v[i] = u[i]) /\ (\A i \in 1..n : v[Len(u) + i] = w[i])
  BY <1>10, <1>18, <1>19, <1>20, <1>21
<1> QED BY <1>16, <1>22, Zenon DEF Grows

-----------------------------------------------------------------------------
(* What GDB gets.                                                           *)

Items == Packets \cup {<<"^C">>}
Messages == {"ack", "data", "written", "stop", "OK"}

GdbStates ==
  [waits : {"nothing", "data", "written", "stop"}, packet : Packets \cup {<<>>}, acked : BOOLEAN,
   packets : Nat, resends : Nat, interrupts : Nat, sent : Seq(Items)]

(* h is g after it has got some messages.                                   *)
Heard(g, h) ==
  /\ h \in GdbStates /\ h.waits \in {g.waits, "nothing"}
  /\ h.packet = g.packet /\ h.packets = g.packets /\ h.resends = g.resends /\ h.interrupts = g.interrupts
  /\ h.sent = g.sent

LEMMA GdbGetsValue ==
  ASSUME NEW g \in GdbStates, NEW msg, NEW h, h = GdbGets(g, msg)
  PROVE  Heard(g, h) /\ (msg # g.waits => h.waits = g.waits)
<1>1. CASE msg = "ack"
  <2>1. PICK yes : yes = TRUE
    OBVIOUS
  <2>2. h = [g EXCEPT !.acked = yes]
    BY <1>1, <2>1, Zenon DEF GdbGets
  <2>3. yes \in BOOLEAN
    BY <2>1
  <2> QED BY <2>2, <2>3 DEF GdbStates, Heard
<1>2. CASE msg # "ack" /\ msg = g.waits
  <2>1. h = [g EXCEPT !.waits = "nothing"]
    BY <1>2, Zenon DEF GdbGets
  <2> QED BY <1>2, <2>1 DEF GdbStates, Heard
<1>3. CASE msg # "ack" /\ msg # g.waits
  <2>1. h = g
    BY <1>3, Zenon DEF GdbGets
  <2> QED BY <2>1 DEF GdbStates, Heard
<1> QED BY <1>1, <1>2, <1>3

(* GDB ends its wait, if at all, with the message that it waits for.        *)
LEMMA GdbGetsAllValue ==
  ASSUME NEW g \in GdbStates, NEW msgs \in Seq(Messages), NEW r, r = GdbGetsAll(g, msgs)
  PROVE  Heard(g, r) /\ ((\A i \in 1..Len(msgs) : msgs[i] # g.waits) => r.waits = g.waits)
<1> DEFINE N == Len(msgs)
           S == {h \in GdbStates : Heard(g, h) /\ ((\A i \in 1..N : msgs[i] # g.waits) => h.waits = g.waits)}
           F == [i \in 1..N |-> [h \in S |-> GdbGets(h, msgs[i])]]
           Eq(f) == f = [i \in 0..N |-> IF i = 0 THEN g ELSE GdbGets(f[i - 1], msgs[i])]
<1>1. N \in Nat
  OBVIOUS
<1> HIDE DEF N
<1>2. ASSUME NEW h \in S, NEW i \in 1..N PROVE GdbGets(h, msgs[i]) \in S
  <2>1. PICK k : k = GdbGets(h, msgs[i])
    OBVIOUS
  <2>2. h \in GdbStates /\ Heard(g, h) /\ ((\A j \in 1..N : msgs[j] # g.waits) => h.waits = g.waits)
    OBVIOUS
  <2>3. Heard(h, k) /\ (msgs[i] # h.waits => k.waits = h.waits)
    BY <2>1, <2>2, GdbGetsValue
  <2>4. Heard(g, k)
    BY <2>2, <2>3 DEF Heard
  <2>5. (\A j \in 1..N : msgs[j] # g.waits) => k.waits = g.waits
    BY <2>2, <2>3
  <2>6. k \in GdbStates
    BY <2>4 DEF Heard
  <2> QED BY <2>1, <2>4, <2>5, <2>6
<1>3. g \in S
  BY DEF Heard
<1>4. F \in [1..N -> [S -> S]]
  <2> HIDE DEF S
  <2> QED BY <1>2, Zenon
<1> HIDE DEF S
<1>5. PICK f \in [0..N -> S] : f[0] = g /\ \A i \in 1..N : f[i] = F[i][f[i - 1]]
  <2> HIDE DEF F
  <2>1. Loop(S, g, N, F)
    BY <1>1, <1>3, <1>4, Zenon DEF Loop
  <2> QED BY <2>1, LoopValues
<1>6. ASSUME NEW i \in 1..N PROVE f[i] = GdbGets(f[i - 1], msgs[i])
  <2>1. i - 1 \in 0..N
    BY <1>1
  <2>2. f[i - 1] \in S
    BY <1>5, <2>1, Zenon
  <2>3. F[i][f[i - 1]] = GdbGets(f[i - 1], msgs[i])
    BY <2>2, Zenon
  <2> QED BY <1>5, <2>3
<1>7. Eq(f)
  <2>1. ASSUME NEW i \in 0..N PROVE f[i] = IF i = 0 THEN g ELSE GdbGets(f[i - 1], msgs[i])
    <3>1. CASE i = 0
      BY <1>5, <3>1, Zenon
    <3>2. CASE i # 0
      <4>1. i \in 1..N
        BY <1>1, <3>2
      <4> QED BY <1>6, <3>2, <4>1, Zenon
    <3> QED BY <3>1, <3>2
  <2>2. f = [i \in 0..N |-> f[i]]
    BY <1>5, Zenon
  <2> QED BY <2>1, <2>2, Zenon
<1>8. PICK h : h = CHOOSE k : Eq(k)
  OBVIOUS
<1>9. r = h[N]
  BY <1>8, Zenon DEF GdbGetsAll, N
<1>10. Eq(h)
  <2> HIDE DEF Eq
  <2> QED BY <1>7, <1>8, Zenon
<1>11. ASSUME NEW i \in 0..N PROVE h[i] \in S
  <2> DEFINE T == {j \in 0..N : h[j] \in S}
  <2>1. 0 \in T
    <3>1. 0 \in 0..N
      BY <1>1
    <3> QED BY <1>3, <1>10, <3>1, Zenon
  <2>2. ASSUME NEW j \in 0..(N - 1), j \in T PROVE j + 1 \in T
    <3>1. j + 1 \in 0..N /\ j + 1 \in 1..N /\ (j + 1) - 1 = j /\ j + 1 # 0
      BY <1>1
    <3>2. h[j + 1] = GdbGets(h[(j + 1) - 1], msgs[j + 1])
      BY <1>10, <3>1, Zenon
    <3>3. h[j + 1] = GdbGets(h[j], msgs[j + 1])
      BY <3>1, <3>2
    <3>4. h[j] \in S
      BY <2>2
    <3>5. h[j + 1] \in S
      BY <1>2, <3>1, <3>3, <3>4
    <3> QED BY <3>1, <3>5
  <2>3. \A j \in 0..N : j \in T
    <3> HIDE DEF T
    <3> QED BY <1>1, <2>1, <2>2, BoundedInduction
  <2> QED BY <2>3
<1>12. r \in S
  <2>1. N \in 0..N
    BY <1>1
  <2> QED BY <1>9, <1>11, <2>1
<1> QED BY <1>12 DEF S, N

-----------------------------------------------------------------------------
(* The stream of all the characters that GDB sent.                          *)

(* The packet that is escaped to y is in the stream G, from a on.           *)
FrameAt(G, a, y) ==
  /\ G[a] = "$" /\ (\A k \in 1..Len(y) : G[a + k] = y[k]) /\ G[a + Len(y) + 1] = "#"
  /\ G[a + Len(y) + 2] = checksum(y)[1] /\ G[a + Len(y) + 3] = checksum(y)[2]

(* The packet or the Ctrl-C x is in it, from a to z.                        *)
ItemAt(G, x, a, z) ==
  /\ a \in Nat \ {0} /\ z \in Nat /\ a <= z /\ z <= Len(G)
  /\ \/ x = <<"^C">> /\ z = a /\ G[a] = "^C"
     \/ x \in Packets /\ Len(Escape(x)) \in Nat /\ z = a + Len(Escape(x)) + 3 /\ FrameAt(G, a, Escape(x))

(* G is made of the items of l, in their order and each from at[i] to       *)
(* end[i], and of acknowledgements.                                         *)
Stream(G, l, at, end) ==
  /\ G \in Seq(Chars) /\ l \in Seq(Items)
  /\ \A i \in 1..Len(l) : ItemAt(G, l[i], at[i], end[i])
  /\ \A i, j \in 1..Len(l) : i < j => end[i] < at[j]
  /\ \A k \in 1..Len(G) : G[k] = "+" \/ \E i \in 1..Len(l) : at[i] <= k /\ k <= end[i]

(* H is G and w behind it.                                                  *)
Behind(H, G, w) ==
  /\ G \in Seq(Chars) /\ w \in Seq(Chars) /\ H \in Seq(Chars) /\ Len(H) = Len(G) + Len(w)
  /\ (\A i \in 1..Len(G) : H[i] = G[i]) /\ (\A i \in 1..Len(w) : H[Len(G) + i] = w[i])

LEMMA BehindIs ==
  ASSUME NEW G \in Seq(Chars), NEW w \in Seq(Chars), NEW H, H = G \o w
  PROVE  Behind(H, G, w)
<1>1. PICK C : C = Chars
  OBVIOUS
<1>2. /\ H \in Seq(C) /\ Len(H) = Len(G) + Len(w)
      /\ (\A i \in 1..Len(G) : H[i] = G[i]) /\ (\A i \in 1..Len(w) : H[Len(G) + i] = w[i])
  BY <1>1, Joined
<1> QED BY <1>1, <1>2, Zenon DEF Behind

LEMMA PacketType ==
  ASSUME NEW p \in Packets
  PROVE  /\ p \in Seq(Chars) /\ Escape(p) \in Seq(Chars) /\ Len(Escape(p)) \in Nat /\ p # <<"^C">> /\ p # <<>>
         /\ p[1] \in {"q", "X", "c", "s", "m"}
<1>1. p \in Seq(STRING) /\ p # <<>> /\ p[1] \in {"q", "X", "c", "s", "m"}
  BY GdbServerAssumption
<1>2. p \in Seq(Chars)
  <2>1. PICK Z : Z = STRING
    OBVIOUS
  <2>2. p \in Seq(Z)
    BY <1>1, <2>1, Zenon
  <2>3. Z \subseteq Chars
    BY <2>1, Zenon DEF Chars
  <2> QED BY <2>2, <2>3
<1>3. p # <<"^C">>
  BY <1>1
<1>4. Escape(p) \in Seq(Chars)
  BY <1>2, EscapeUndone, Zenon DEF Escaped
<1>5. Len(Escape(p)) \in Nat
  BY <1>4
<1> QED BY <1>1, <1>2, <1>3, <1>4, <1>5

LEMMA ItemKept ==
  ASSUME NEW G, NEW w, NEW H, Behind(H, G, w), NEW x, NEW a, NEW z, ItemAt(G, x, a, z)
  PROVE  ItemAt(H, x, a, z)
<1>1. Len(G) \in Nat /\ Len(H) \in Nat /\ Len(H) >= Len(G) /\ \A i \in 1..Len(G) : H[i] = G[i]
  BY DEF Behind
<1>2. a \in Nat \ {0} /\ z \in Nat /\ a <= z /\ z <= Len(G)
  BY DEF ItemAt
<1>3. \A i \in a..z : H[i] = G[i]
  BY <1>1, <1>2
<1>4. CASE x = <<"^C">> /\ z = a /\ G[a] = "^C"
  <2>1. H[a] = G[a]
    BY <1>2, <1>3
  <2>2. z <= Len(H)
    BY <1>1, <1>2
  <2> QED BY <1>2, <1>4, <2>1, <2>2, Zenon DEF ItemAt
<1>5. CASE x \in Packets /\ Len(Escape(x)) \in Nat /\ z = a + Len(Escape(x)) + 3 /\ FrameAt(G, a, Escape(x))
  <2>1. PICK y : y = Escape(x)
    OBVIOUS
  <2>2. Len(y) \in Nat /\ z = a + Len(y) + 3 /\ FrameAt(G, a, y)
    BY <1>5, <2>1
  <2>3. FrameAt(H, a, y)
    <3>1. a \in a..z /\ (\A k \in 1..Len(y) : a + k \in a..z) /\ a + Len(y) + 1 \in a..z /\ a + Len(y) + 2 \in a..z /\ a + Len(y) + 3 \in a..z
      BY <1>2, <2>2
    <3> QED BY <1>3, <2>2, <3>1 DEF FrameAt
  <2>4. z <= Len(H)
    BY <1>1, <1>2
  <2> QED BY <1>2, <1>5, <2>1, <2>3, <2>4, Zenon DEF ItemAt
<1> QED BY <1>4, <1>5, Zenon DEF ItemAt

(* An acknowledgement behind it is no item.                                 *)
LEMMA StreamAcks ==
  ASSUME NEW G, NEW l, NEW at, NEW end, Stream(G, l, at, end), NEW w, NEW H, Behind(H, G, w),
         \A i \in 1..Len(w) : w[i] = "+"
  PROVE  Stream(H, l, at, end)
<1>1. G \in Seq(Chars) /\ l \in Seq(Items) /\ H \in Seq(Chars)
  BY Zenon DEF Stream, Behind
<1>2. \A i \in 1..Len(l) : ItemAt(H, l[i], at[i], end[i])
  BY ItemKept, Zenon DEF Stream
<1>3. ASSUME NEW k \in 1..Len(H) PROVE H[k] = "+" \/ \E i \in 1..Len(l) : at[i] <= k /\ k <= end[i]
  <2>1. CASE k \in 1..Len(G)
    BY <2>1 DEF Stream, Behind
  <2>2. CASE k \notin 1..Len(G)
    <3>1. w \in Seq(Chars) /\ Len(H) = Len(G) + Len(w) /\ \A i \in 1..Len(w) : H[Len(G) + i] = w[i]
      BY Zenon DEF Behind
    <3>2. k - Len(G) \in 1..Len(w) /\ Len(G) + (k - Len(G)) = k
      BY <1>1, <2>2, <3>1
    <3> QED BY <3>1, <3>2
  <2> QED BY <2>1, <2>2
<1>4. \A i, j \in 1..Len(l) : i < j => end[i] < at[j]
  BY Zenon DEF Stream
<1> QED BY <1>1, <1>2, <1>3, <1>4, Zenon DEF Stream

(* What GDB sends for x.                                                    *)
SentAs(x, w) == (x = <<"^C">> /\ w = <<"^C">>) \/ (x \in Packets /\ w = Encoded(x))

LEMMA StreamItem ==
  ASSUME NEW G, NEW l, NEW at, NEW end, Stream(G, l, at, end), NEW w, NEW H, Behind(H, G, w),
         NEW x, SentAs(x, w)
  PROVE  \E a, z : Stream(H, Append(l, x), a, z) /\ (\A i \in 1..Len(l) : a[i] = at[i] /\ z[i] = end[i])
                   /\ a[Len(l) + 1] = Len(G) + 1
<1>1. /\ G \in Seq(Chars) /\ l \in Seq(Items) /\ H \in Seq(Chars) /\ w \in Seq(Chars) /\ Len(H) = Len(G) + Len(w)
      /\ (\A i \in 1..Len(G) : H[i] = G[i]) /\ (\A i \in 1..Len(w) : H[Len(G) + i] = w[i])
  BY Zenon DEF Stream, Behind
<1>2. PICK n, m : n = Len(l) + 1 /\ m = Append(l, x)
  OBVIOUS
<1>3. n \in Nat /\ x \in Items /\ m \in Seq(Items) /\ Len(m) = n /\ m[n] = x /\ \A i \in 1..Len(l) : m[i] = l[i]
  <2>1. x \in Items
    BY Zenon DEF SentAs, Items
  <2> QED BY <1>1, <1>2, <2>1
<1>4. PICK a, z : a = [i \in 1..n |-> IF i = n THEN Len(G) + 1 ELSE at[i]] /\ z = [i \in 1..n |-> IF i = n THEN Len(H) ELSE end[i]]
  OBVIOUS
<1>5. a[n] = Len(G) + 1 /\ z[n] = Len(H) /\ \A i \in 1..Len(l) : a[i] = at[i] /\ z[i] = end[i]
  BY <1>1, <1>2, <1>4
<1>6. \A i \in 1..n : i = n \/ i \in 1..Len(l)
  BY <1>1, <1>2
<1>7. ItemAt(H, x, a[n], z[n])
  <2>1. CASE x = <<"^C">> /\ w = <<"^C">>
    <3>1. Len(w) = 1 /\ w[1] = "^C"
      BY <2>1
    <3>2. H[Len(G) + 1] = "^C" /\ Len(H) = Len(G) + 1 /\ Len(G) \in Nat
      BY <1>1, <3>1
    <3> QED BY <1>5, <2>1, <3>2 DEF ItemAt
  <2>2. CASE x \in Packets /\ w = Encoded(x)
    <3>1. PICK y : y = Escape(x)
      OBVIOUS
    <3>2. y \in Seq(Chars) /\ x \in Seq(Chars)
      BY <2>2, <3>1, PacketType
    <3>3. Framed(w, y)
      BY <2>2, <3>1, <3>2, EncodedValue
    <3>4. PICK c, d : c = checksum(y)[1] /\ d = checksum(y)[2]
      OBVIOUS
    <3>5. /\ Len(w) = Len(y) + 4 /\ w[1] = "$" /\ (\A k \in 1..Len(y) : w[1 + k] = y[k])
          /\ w[Len(y) + 2] = "#" /\ w[Len(y) + 3] = c /\ w[Len(y) + 4] = d
      BY <3>3, <3>4, Zenon DEF Framed
    <3>6. PICK b : b = Len(G) + 1
      OBVIOUS
    <3>7. Len(y) \in Nat /\ Len(G) \in Nat /\ b \in Nat \ {0} /\ Len(H) = b + Len(y) + 3
      BY <1>1, <3>2, <3>5, <3>6
    <3>8. H[b] = "$" /\ (\A k \in 1..Len(y) : H[b + k] = y[k])
      <4>1. 1 \in 1..Len(w)
        BY <3>5, <3>7
      <4>2. \A k \in 1..Len(y) : 1 + k \in 1..Len(w) /\ Len(G) + (1 + k) = b + k
        BY <3>5, <3>6, <3>7
      <4>3. H[b] = "$"
        BY <1>1, <3>5, <3>6, <4>1
      <4>4. ASSUME NEW k \in 1..Len(y) PROVE H[b + k] = y[k]
        <5>1. H[Len(G) + (1 + k)] = w[1 + k]
          BY <1>1, <4>2
        <5> QED BY <3>5, <4>2, <5>1
      <4> QED BY <4>3, <4>4
    <3>9. H[b + Len(y) + 1] = "#" /\ H[b + Len(y) + 2] = c /\ H[b + Len(y) + 3] = d
      <4>1. /\ Len(y) + 2 \in 1..Len(w) /\ Len(y) + 3 \in 1..Len(w) /\ Len(y) + 4 \in 1..Len(w)
            /\ Len(G) + (Len(y) + 2) = b + Len(y) + 1 /\ Len(G) + (Len(y) + 3) = b + Len(y) + 2
            /\ Len(G) + (Len(y) + 4) = b + Len(y) + 3
        BY <3>5, <3>6, <3>7
      <4>2. H[Len(G) + (Len(y) + 2)] = "#" /\ H[Len(G) + (Len(y) + 3)] = c /\ H[Len(G) + (Len(y) + 4)] = d
        BY <1>1, <3>5, <4>1
      <4> QED BY <4>1, <4>2
    <3>10. FrameAt(H, b, y)
      BY <3>4, <3>8, <3>9, Zenon DEF FrameAt
    <3>11. b <= Len(H) /\ Len(H) <= Len(H) /\ Len(H) \in Nat
      BY <3>7
    <3> QED BY <1>5, <2>2, <3>1, <3>6, <3>7, <3>10, <3>11, Zenon DEF ItemAt
  <2> QED BY <2>1, <2>2, Zenon DEF SentAs
<1>8. ASSUME NEW i \in 1..n PROVE ItemAt(H, m[i], a[i], z[i])
  <2>1. CASE i = n
    BY <1>3, <1>7, <2>1
  <2>2. CASE i \in 1..Len(l)
    <3>1. ItemAt(G, l[i], at[i], end[i])
      BY <2>2, Zenon DEF Stream
    <3>2. ItemAt(H, l[i], at[i], end[i])
      BY <3>1, ItemKept, Zenon
    <3> QED BY <1>3, <1>5, <2>2, <3>2
  <2> QED BY <1>6, <2>1, <2>2
<1>9. ASSUME NEW i \in 1..n, NEW j \in 1..n, i < j PROVE z[i] < a[j]
  <2>1. i \in 1..Len(l)
    BY <1>1, <1>2, <1>9
  <2>2. CASE j = n
    <3>1. end[i] \in Nat /\ end[i] <= Len(G)
      BY <2>1 DEF Stream, ItemAt
    <3> QED BY <1>1, <1>5, <2>1, <2>2, <3>1
  <2>3. CASE j \in 1..Len(l)
    BY <1>5, <1>9, <2>1, <2>3 DEF Stream
  <2> QED BY <1>6, <2>2, <2>3
<1>10. ASSUME NEW k \in 1..Len(H) PROVE H[k] = "+" \/ \E i \in 1..n : a[i] <= k /\ k <= z[i]
  <2>1. CASE k \in 1..Len(G)
    <3>1. G[k] = "+" \/ \E i \in 1..Len(l) : at[i] <= k /\ k <= end[i]
      BY <2>1, Zenon DEF Stream
    <3>2. \A i \in 1..Len(l) : i \in 1..n
      BY <1>1, <1>2
    <3> QED BY <1>1, <1>5, <2>1, <3>1, <3>2
  <2>2. CASE k \notin 1..Len(G)
    <3>1. n \in 1..n /\ Len(G) + 1 <= k /\ k <= Len(H)
      BY <1>1, <1>2, <2>2
    <3> QED BY <1>5, <3>1
  <2> QED BY <2>1, <2>2
<1>11. Stream(H, m, a, z)
  BY <1>1, <1>3, <1>8, <1>9, <1>10, Zenon DEF Stream
<1> QED BY <1>2, <1>5, <1>11

(* u is what is left of G behind its first r characters.                    *)
From(u, G, r) ==
  /\ G \in Seq(Chars) /\ u \in Seq(Chars) /\ r \in Nat /\ Len(G) = r + Len(u)
  /\ \A i \in 1..Len(u) : u[i] = G[r + i]

LEMMA FromBehind ==
  ASSUME NEW u, NEW G, NEW r, From(u, G, r), NEW e, NEW v, Behind(v, u, e), NEW H, Behind(H, G, e)
  PROVE  From(v, H, r)
<1>1. /\ u \in Seq(Chars) /\ G \in Seq(Chars) /\ r \in Nat /\ Len(G) = r + Len(u)
      /\ \A i \in 1..Len(u) : u[i] = G[r + i]
  BY Zenon DEF From
<1>2. /\ v \in Seq(Chars) /\ e \in Seq(Chars) /\ Len(v) = Len(u) + Len(e)
      /\ (\A i \in 1..Len(u) : v[i] = u[i]) /\ (\A i \in 1..Len(e) : v[Len(u) + i] = e[i])
  BY Zenon DEF Behind
<1>3. /\ H \in Seq(Chars) /\ Len(H) = Len(G) + Len(e)
      /\ (\A i \in 1..Len(G) : H[i] = G[i]) /\ (\A i \in 1..Len(e) : H[Len(G) + i] = e[i])
  BY Zenon DEF Behind
<1>4. ASSUME NEW i \in 1..Len(v) PROVE v[i] = H[r + i]
  <2>1. CASE i \in 1..Len(u)
    <3>1. r + i \in 1..Len(G)
      BY <1>1, <2>1
    <3> QED BY <1>1, <1>2, <1>3, <2>1, <3>1
  <2>2. CASE i \notin 1..Len(u)
    <3>1. PICK j : j = i - Len(u)
      OBVIOUS
    <3>2. j \in 1..Len(e) /\ Len(u) + j = i /\ Len(G) + j = r + i
      BY <1>1, <1>2, <2>2, <3>1
    <3>3. v[Len(u) + j] = e[j] /\ H[Len(G) + j] = e[j]
      BY <1>2, <1>3, <3>2
    <3> QED BY <3>2, <3>3
  <2> QED BY <2>1, <2>2
<1>5. Len(H) = r + Len(v)
  BY <1>1, <1>2, <1>3
<1> QED BY <1>1, <1>2, <1>3, <1>4, <1>5, Zenon DEF From

LEMMA BehindBehind ==
  ASSUME NEW a, NEW w, NEW u, Behind(u, a, w), NEW e, NEW f, Behind(f, w, e), NEW v, Behind(v, a, f)
  PROVE  Behind(v, u, e)
<1>1. /\ a \in Seq(Chars) /\ w \in Seq(Chars) /\ u \in Seq(Chars) /\ Len(u) = Len(a) + Len(w)
      /\ (\A i \in 1..Len(a) : u[i] = a[i]) /\ (\A i \in 1..Len(w) : u[Len(a) + i] = w[i])
  BY Zenon DEF Behind
<1>2. /\ e \in Seq(Chars) /\ f \in Seq(Chars) /\ Len(f) = Len(w) + Len(e)
      /\ (\A i \in 1..Len(w) : f[i] = w[i]) /\ (\A i \in 1..Len(e) : f[Len(w) + i] = e[i])
  BY Zenon DEF Behind
<1>3. /\ v \in Seq(Chars) /\ Len(v) = Len(a) + Len(f)
      /\ (\A i \in 1..Len(a) : v[i] = a[i]) /\ (\A i \in 1..Len(f) : v[Len(a) + i] = f[i])
  BY Zenon DEF Behind
<1>4. ASSUME NEW i \in 1..Len(u) PROVE v[i] = u[i]
  <2>1. CASE i \in 1..Len(a)
    BY <1>1, <1>3, <2>1
  <2>2. CASE i \notin 1..Len(a)
    <3>1. PICK j : j = i - Len(a)
      OBVIOUS
    <3>2. j \in 1..Len(w) /\ j \in 1..Len(f) /\ Len(a) + j = i
      BY <1>1, <1>2, <2>2, <3>1
    <3>3. v[Len(a) + j] = f[j] /\ f[j] = w[j] /\ u[Len(a) + j] = w[j]
      BY <1>1, <1>2, <1>3, <3>2
    <3> QED BY <3>2, <3>3
  <2> QED BY <2>1, <2>2
<1>5. ASSUME NEW i \in 1..Len(e) PROVE v[Len(u) + i] = e[i]
  <2>1. Len(w) + i \in 1..Len(f) /\ Len(u) + i = Len(a) + (Len(w) + i)
    BY <1>1, <1>2
  <2>2. v[Len(a) + (Len(w) + i)] = f[Len(w) + i]
    BY <1>3, <2>1
  <2> QED BY <1>2, <2>1, <2>2
<1>6. Len(v) = Len(u) + Len(e)
  BY <1>1, <1>2, <1>3
<1> QED BY <1>1, <1>2, <1>3, <1>4, <1>5, <1>6, Zenon DEF Behind

(* Characters that are received are still in the stream.                    *)
LEMMA FromReceived ==
  ASSUME NEW b, NEW w, NEW n, NEW c, Receives(b, w, n, c), NEW G, NEW r, From(Unread(b) \o w, G, r)
  PROVE  BufferOK(c) /\ From(Unread(c) \o SubSeq(w, n + 1, Len(w)), G, r)
<1>0. BufferOK(b) /\ w \in Seq(Chars) /\ n \in 1..write_block(b) /\ n <= Len(w) /\ c = Received(b, w, n)
  BY Zenon DEF Receives
<1>1. PICK u, v, x, y, t : u = Unread(b) /\ v = Unread(c) /\ t = SubSeq(w, n + 1, Len(w)) /\ x = u \o w /\ y = v \o t
  OBVIOUS
<1>2. /\ BufferOK(c) /\ v \in Seq(Chars) /\ Len(v) = Len(u) + n
      /\ (\A i \in 1..Len(u) : v[i] = u[i]) /\ (\A i \in 1..n : v[Len(u) + i] = w[i])
  <2>1. BufferOK(c) /\ Grows(u, v, w, n)
    BY <1>1, CommitWrite, Zenon
  <2> QED BY <2>1, Zenon DEF Grows
<1>3. u \in Seq(Chars) /\ Len(u) \in Nat
  <2>1. u \in Seq(Chars)
    BY <1>0, <1>1, ReadBlock
  <2> QED BY <2>1
<1>4. n \in Nat /\ n >= 1 /\ Len(w) \in Nat
  <2>1. n \in Int /\ n >= 1
    BY <1>0
  <2> QED BY <1>0, <2>1
<1>5. t \in Seq(Chars) /\ Len(t) = Len(w) - n /\ \A i \in 1..Len(t) : t[i] = w[n + i]
  BY <1>0, <1>1, <1>4
<1>6. Behind(x, u, w) /\ Behind(y, v, t)
  BY <1>0, <1>1, <1>2, <1>3, <1>5, BehindIs
<1>7. /\ x \in Seq(Chars) /\ Len(x) = Len(u) + Len(w)
      /\ (\A i \in 1..Len(u) : x[i] = u[i]) /\ (\A i \in 1..Len(w) : x[Len(u) + i] = w[i])
  BY <1>6, Zenon DEF Behind
<1>8. /\ y \in Seq(Chars) /\ Len(y) = Len(v) + Len(t)
      /\ (\A i \in 1..Len(v) : y[i] = v[i]) /\ (\A i \in 1..Len(t) : y[Len(v) + i] = t[i])
  BY <1>6, Zenon DEF Behind
<1>9. Len(x) = Len(y)
  BY <1>2, <1>3, <1>4, <1>5, <1>7, <1>8
<1>10. ASSUME NEW i \in 1..Len(x) PROVE y[i] = x[i]
  <2>1. CASE i \in 1..Len(u)
    <3>1. i \in 1..Len(v)
      BY <1>2, <1>3, <1>4, <2>1
    <3> QED BY <1>2, <1>7, <1>8, <2>1, <3>1
  <2>2. CASE i \in (Len(u) + 1)..Len(v)
    <3>1. PICK j : j = i - Len(u)
      OBVIOUS
    <3>2. j \in 1..n /\ j \in 1..Len(w) /\ i = Len(u) + j /\ i \in 1..Len(v)
      BY <1>0, <1>2, <1>3, <1>4, <2>2, <3>1
    <3>3. y[i] = v[i] /\ v[Len(u) + j] = w[j] /\ x[Len(u) + j] = w[j]
      BY <1>2, <1>7, <1>8, <3>2
    <3> QED BY <3>2, <3>3
  <2>3. CASE i \in (Len(v) + 1)..Len(x)
    <3>1. PICK j : j = i - Len(v)
      OBVIOUS
    <3>2. j \in 1..Len(t) /\ n + j \in 1..Len(w) /\ i = Len(v) + j /\ i = Len(u) + (n + j)
      <4>1. Len(x) = Len(u) + Len(w) /\ Len(v) = Len(u) + n /\ Len(t) = Len(w) - n
        BY <1>2, <1>5, <1>7
      <4> QED BY <1>3, <1>4, <2>3, <3>1, <4>1
    <3>3. y[Len(v) + j] = t[j] /\ t[j] = w[n + j] /\ x[Len(u) + (n + j)] = w[n + j]
      BY <1>5, <1>7, <1>8, <3>2
    <3> QED BY <3>2, <3>3
  <2> QED BY <1>2, <1>3, <1>4, <1>7, <2>1, <2>2, <2>3
<1>11. From(x, G, r)
  BY <1>1
<1>12. From(y, G, r)
  BY <1>7, <1>8, <1>9, <1>10, <1>11 DEF From
<1> QED BY <1>1, <1>2, <1>12

(* After l characters are read, the rest is still to be read.               *)
LEMMA FromRead ==
  ASSUME NEW b, BufferOK(b), NEW w \in Seq(Chars), NEW l \in 0..Len(read_block(b)),
         NEW c, c = commit_read(b, l), NEW G, NEW r, From(Unread(b) \o w, G, r)
  PROVE  BufferOK(c) /\ From(Unread(c) \o w, G, r + l)
<1>1. PICK u, v, x, y : u = Unread(b) /\ v = Unread(c) /\ x = u \o w /\ y = v \o w
  OBVIOUS
<1>2. BufferOK(c) /\ v \in Seq(Chars) /\ Len(v) = Len(u) - l /\ \A i \in 1..Len(v) : v[i] = u[l + i]
  BY <1>1, CommitRead
<1>3. PICK s : s = read_block(b)
  OBVIOUS
<1>4. u \in Seq(Chars) /\ s \in Seq(Chars) /\ Len(s) <= Len(u)
  BY <1>1, <1>3, ReadBlock
<1>5. l \in Nat /\ l <= Len(u) /\ Len(u) \in Nat
  BY <1>3, <1>4
<1>6. Behind(x, u, w) /\ Behind(y, v, w)
  BY <1>1, <1>2, <1>4, BehindIs
<1>7. /\ x \in Seq(Chars) /\ Len(x) = Len(u) + Len(w)
      /\ (\A i \in 1..Len(u) : x[i] = u[i]) /\ (\A i \in 1..Len(w) : x[Len(u) + i] = w[i])
  BY <1>6, Zenon DEF Behind
<1>8. /\ y \in Seq(Chars) /\ Len(y) = Len(v) + Len(w)
      /\ (\A i \in 1..Len(v) : y[i] = v[i]) /\ (\A i \in 1..Len(w) : y[Len(v) + i] = w[i])
  BY <1>6, Zenon DEF Behind
<1>9. Len(w) \in Nat /\ Len(x) = Len(y) + l
  BY <1>2, <1>5, <1>7, <1>8
<1>10. /\ G \in Seq(Chars) /\ r \in Nat /\ Len(G) = r + Len(x) /\ \A i \in 1..Len(x) : x[i] = G[r + i]
  BY <1>1, Zenon DEF From
<1>11. ASSUME NEW i \in 1..Len(y) PROVE y[i] = G[(r + l) + i]
  <2>1. l + i \in 1..Len(x) /\ r + (l + i) = (r + l) + i
    BY <1>5, <1>7, <1>8, <1>9, <1>10
  <2>2. x[l + i] = G[(r + l) + i]
    BY <1>10, <2>1
  <2>3. CASE i \in 1..Len(v)
    <3>1. l + i \in 1..Len(u)
      BY <1>2, <1>5, <2>3
    <3> QED BY <1>2, <1>7, <1>8, <2>2, <2>3, <3>1
  <2>4. CASE i \notin 1..Len(v)
    <3>1. PICK j : j = i - Len(v)
      OBVIOUS
    <3>2. j \in 1..Len(w) /\ i = Len(v) + j /\ l + i = Len(u) + j
      BY <1>2, <1>5, <1>8, <1>9, <2>4, <3>1
    <3>3. y[Len(v) + j] = w[j] /\ x[Len(u) + j] = w[j]
      BY <1>7, <1>8, <3>2
    <3> QED BY <2>2, <3>2, <3>3
  <2> QED BY <2>3, <2>4
<1>12. r + l \in Nat /\ Len(G) = (r + l) + Len(y)
  BY <1>5, <1>8, <1>9, <1>10
<1>13. From(y, G, r + l)
  BY <1>8, <1>10, <1>11, <1>12, Zenon DEF From
<1> QED BY <1>1, <1>2, <1>13

(* The block to read is a piece of the stream.                              *)
LEMMA FromBlock ==
  ASSUME NEW b, BufferOK(b), NEW w \in Seq(Chars), NEW s, s = read_block(b), NEW G, NEW r, From(Unread(b) \o w, G, r)
  PROVE  /\ s \in Seq(Chars) /\ r \in Nat /\ G \in Seq(Chars) /\ r + Len(s) <= Len(G)
         /\ \A i \in 1..Len(s) : s[i] = G[r + i]
<1>1. PICK u, x : u = Unread(b) /\ x = u \o w
  OBVIOUS
<1>2. u \in Seq(Chars) /\ s \in Seq(Chars) /\ Len(s) <= Len(u) /\ \A i \in 1..Len(s) : s[i] = u[i]
  BY <1>1, ReadBlock
<1>3. Behind(x, u, w)
  BY <1>1, <1>2, BehindIs
<1>4. x \in Seq(Chars) /\ Len(x) = Len(u) + Len(w) /\ \A i \in 1..Len(u) : x[i] = u[i]
  BY <1>3, Zenon DEF Behind
<1>5. /\ G \in Seq(Chars) /\ r \in Nat /\ Len(G) = r + Len(x) /\ \A i \in 1..Len(x) : x[i] = G[r + i]
  BY <1>1, Zenon DEF From
<1>6. \A i \in 1..Len(s) : i \in 1..Len(u) /\ i \in 1..Len(x)
  BY <1>2, <1>4
<1>7. r + Len(s) <= Len(G)
  BY <1>2, <1>4, <1>5
<1> QED BY <1>2, <1>4, <1>5, <1>6, <1>7

-----------------------------------------------------------------------------
(* Where the decoder is in the stream, after r characters and n items.      *)

Between(l, at, end, n, r) == (\A i \in 1..n : end[i] <= r) /\ (\A i \in (n + 1)..Len(l) : r < at[i])

(* The decoder cd has read the packet x up to d characters behind its '$'.  *)
Inside(cd, x, d) ==
  /\ x \in Packets
  /\ \/ /\ cd.state = "BODY" /\ Len(cd.pkt) <= Len(Escape(x)) /\ d = Len(cd.pkt)
        /\ \A k \in 1..Len(cd.pkt) : cd.pkt[k] = Escape(x)[k]
        /\ cd.escaped = Escapes(Escape(x), FALSE)[Len(cd.pkt)]
     \/ cd.state = "CRC" /\ cd.pkt = Escape(x) /\ d = Len(Escape(x)) + 1

Reads(cd, l, at, end, n, r) ==
  /\ n \in Nat /\ n <= Len(l)
  /\ \/ /\ cd.state \in {"INIT", "LEADIN"} /\ Between(l, at, end, n, r)
        /\ cd.state = "LEADIN" => cd.pkt = <<>> /\ cd.escaped = FALSE
     \/ n + 1 <= Len(l) /\ Inside(cd, l[n + 1], r - at[n + 1])

(* The next character is an acknowledgement or begins the next item.        *)
LEMMA NextItem ==
  ASSUME NEW G, NEW l, NEW at, NEW end, Stream(G, l, at, end), NEW n \in Nat, n <= Len(l),
         NEW r \in Nat, r < Len(G), Between(l, at, end, n, r)
  PROVE  \/ G[r + 1] = "+" /\ Between(l, at, end, n, r + 1)
         \/ n + 1 <= Len(l) /\ at[n + 1] = r + 1
<1>1. /\ G \in Seq(Chars) /\ l \in Seq(Items) /\ Len(G) \in Nat /\ Len(l) \in Nat
      /\ (\A i \in 1..Len(l) : at[i] \in Nat /\ end[i] \in Nat /\ at[i] <= end[i])
      /\ (\A i, j \in 1..Len(l) : i < j => end[i] < at[j])
      /\ (G[r + 1] = "+" \/ \E i \in 1..Len(l) : at[i] <= r + 1 /\ r + 1 <= end[i])
  <2>1. /\ G \in Seq(Chars) /\ l \in Seq(Items) /\ (\A i, j \in 1..Len(l) : i < j => end[i] < at[j])
        /\ (\A i \in 1..Len(l) : ItemAt(G, l[i], at[i], end[i]))
        /\ \A k \in 1..Len(G) : G[k] = "+" \/ \E i \in 1..Len(l) : at[i] <= k /\ k <= end[i]
    BY Zenon DEF Stream
  <2>2. \A i \in 1..Len(l) : at[i] \in Nat /\ end[i] \in Nat /\ at[i] <= end[i]
    BY <2>1 DEF ItemAt
  <2>3. Len(G) \in Nat /\ Len(l) \in Nat /\ r + 1 \in 1..Len(G)
    BY <2>1
  <2> QED BY <2>1, <2>2, <2>3, Zenon
<1>2. (\A i \in 1..n : end[i] <= r) /\ (\A i \in (n + 1)..Len(l) : r < at[i])
  BY Zenon DEF Between
<1>3. CASE n + 1 <= Len(l) /\ at[n + 1] # r + 1
  <2>1. n + 1 \in 1..Len(l) /\ n + 1 \in (n + 1)..Len(l)
    BY <1>1, <1>3
  <2>2. r + 1 < at[n + 1]
    BY <1>1, <1>2, <1>3, <2>1
  <2>3. \A i \in (n + 1)..Len(l) : r + 1 < at[i]
    <3>1. ASSUME NEW i \in (n + 1)..Len(l) PROVE r + 1 < at[i]
      <4>1. CASE i = n + 1
        BY <2>2, <4>1
      <4>2. CASE i # n + 1
        <5>1. n + 1 < i /\ i \in 1..Len(l)
          BY <1>1, <4>2
        <5>2. end[n + 1] < at[i] /\ at[n + 1] <= end[n + 1]
          BY <1>1, <2>1, <5>1
        <5> QED BY <1>1, <2>1, <2>2, <5>1, <5>2
      <4> QED BY <4>1, <4>2
    <3> QED BY <3>1
  <2>4. \A i \in 1..n : end[i] <= r + 1 /\ i \in 1..Len(l)
    BY <1>1, <1>2
  <2>5. \A i \in 1..Len(l) : i \in 1..n \/ i \in (n + 1)..Len(l)
    BY <1>1
  <2>6. G[r + 1] = "+"
    BY <1>1, <1>2, <2>3, <2>5
  <2> QED BY <2>3, <2>4, <2>6, Zenon DEF Between
<1>4. CASE ~(n + 1 <= Len(l))
  <2>1. n = Len(l)
    BY <1>1, <1>4
  <2>2. \A i \in 1..n : end[i] <= r + 1 /\ i \in 1..Len(l)
    BY <1>1, <1>2, <2>1
  <2>3. \A i \in 1..Len(l) : i \in 1..n
    BY <2>1
  <2>4. G[r + 1] = "+"
    BY <1>1, <1>2, <2>3
  <2>5. \A i \in (n + 1)..Len(l) : r + 1 < at[i]
    BY <1>1, <2>1
  <2> QED BY <2>2, <2>4, <2>5, Zenon DEF Between
<1> QED BY <1>3, <1>4

(* When an item is read the decoder is between it and the next.             *)
LEMMA ItemRead ==
  ASSUME NEW G, NEW l, NEW at, NEW end, Stream(G, l, at, end), NEW n \in Nat, n + 1 <= Len(l)
  PROVE  Between(l, at, end, n + 1, end[n + 1])
<1>1. /\ l \in Seq(Items) /\ Len(l) \in Nat
      /\ (\A i \in 1..Len(l) : at[i] \in Nat /\ end[i] \in Nat /\ at[i] <= end[i])
      /\ (\A i, j \in 1..Len(l) : i < j => end[i] < at[j])
  BY DEF Stream, ItemAt
<1>2. n + 1 \in 1..Len(l)
  BY <1>1
<1>3. ASSUME NEW i \in 1..(n + 1) PROVE end[i] <= end[n + 1]
  <2>1. CASE i = n + 1
    BY <1>1, <1>2, <2>1
  <2>2. CASE i # n + 1
    <3>1. i < n + 1 /\ i \in 1..Len(l)
      BY <1>1, <2>2
    <3>2. end[i] < at[n + 1] /\ at[n + 1] <= end[n + 1] /\ end[i] \in Nat /\ at[n + 1] \in Nat /\ end[n + 1] \in Nat
      BY <1>1, <1>2, <3>1
    <3> QED BY <3>2
  <2> QED BY <2>1, <2>2
<1>4. ASSUME NEW i \in (n + 1 + 1)..Len(l) PROVE end[n + 1] < at[i]
  <2>1. i \in 1..Len(l) /\ n + 1 < i
    BY <1>1
  <2> QED BY <1>1, <1>2, <2>1
<1> QED BY <1>3, <1>4, Zenon DEF Between

(* m is l with x behind it, which starts after the r characters read.       *)
OneMore(l, at, end, r, x, m, a, z) ==
  /\ l \in Seq(Items) /\ m = Append(l, x) /\ r < a[Len(l) + 1]
  /\ \A i \in 1..Len(l) : a[i] = at[i] /\ z[i] = end[i]

(* Where the decoder is does not change when something is added behind.     *)
LEMMA ReadsKept ==
  ASSUME NEW cd, NEW l, NEW at, NEW end, NEW n, NEW r, Reads(cd, l, at, end, n, r),
         NEW x, NEW m, NEW a, NEW z, OneMore(l, at, end, r, x, m, a, z)
  PROVE  Reads(cd, m, a, z, n, r)
<1> /\ l \in Seq(Items) /\ m = Append(l, x) /\ r < a[Len(l) + 1]
    /\ \A i \in 1..Len(l) : a[i] = at[i] /\ z[i] = end[i]
  BY Zenon DEF OneMore
<1>1. Len(l) \in Nat /\ Len(m) = Len(l) + 1 /\ n \in Nat /\ n <= Len(l) /\ n <= Len(m) /\ \A i \in 1..Len(l) : m[i] = l[i]
  BY DEF Reads
<1>2. CASE cd.state \in {"INIT", "LEADIN"} /\ Between(l, at, end, n, r) /\ (cd.state = "LEADIN" => cd.pkt = <<>> /\ cd.escaped = FALSE)
  <2>1. (\A i \in 1..n : end[i] <= r) /\ (\A i \in (n + 1)..Len(l) : r < at[i])
    BY <1>2, Zenon DEF Between
  <2>2. \A i \in 1..n : i \in 1..Len(l)
    BY <1>1
  <2>3. \A i \in (n + 1)..Len(m) : i = Len(l) + 1 \/ (i \in 1..Len(l) /\ i \in (n + 1)..Len(l))
    BY <1>1
  <2>4. (\A i \in 1..n : z[i] <= r) /\ (\A i \in (n + 1)..Len(m) : r < a[i])
    BY <2>1, <2>2, <2>3
  <2>5. Between(m, a, z, n, r)
    BY <2>4, Zenon DEF Between
  <2> QED BY <1>1, <1>2, <2>5, Zenon DEF Reads
<1>3. CASE n + 1 <= Len(l) /\ Inside(cd, l[n + 1], r - at[n + 1])
  <2>1. n + 1 \in 1..Len(l) /\ n + 1 <= Len(m)
    BY <1>1, <1>3
  <2>2. m[n + 1] = l[n + 1] /\ a[n + 1] = at[n + 1]
    BY <1>1, <2>1
  <2> QED BY <1>1, <1>3, <2>1, <2>2, Zenon DEF Reads
<1> QED BY <1>2, <1>3, Zenon DEF Reads

CodecStates == [state : {"INIT", "LEADIN", "BODY", "CRC"}, pkt : Seq(Chars), escaped : BOOLEAN]

(* With the buffer b and the wire w still to read, the decoder cd has read  *)
(* r characters of the stream G, and n items of l.                          *)
Reading(G, l, at, end, r, b, w, cd, n) ==
  /\ Stream(G, l, at, end) /\ BufferOK(b) /\ w \in Seq(Chars) /\ cd \in CodecStates
  /\ From(Unread(b) \o w, G, r) /\ Reads(cd, l, at, end, n, r)

Follows(l, b, w, cd, n) == \E G, at, end, r : Reading(G, l, at, end, r, b, w, cd, n)

LEMMA FirstIsOne ==
  ASSUME NEW s \in Seq(Chars), s # <<>>, NEW C, s[1] \in C
  PROVE  First(s, C) = 1
<1>1. 1 \in DOMAIN s /\ DOMAIN s = 1..Len(s) /\ Len(s) \in Nat
  OBVIOUS
<1> DEFINE P(i) == s[i] \in C /\ \A j \in 1..(i - 1) : s[j] \notin C
<1>2. P(1) /\ \A i \in DOMAIN s : P(i) => i = 1
  BY <1>1
<1>3. First(s, C) = CHOOSE i \in DOMAIN s : P(i)
  BY <1>1, Zenon DEF First
<1> HIDE DEF P
<1>4. PICK k : k = CHOOSE i \in DOMAIN s : P(i)
  OBVIOUS
<1>5. k \in DOMAIN s /\ P(k)
  BY <1>1, <1>2, <1>4, Zenon
<1> QED BY <1>2, <1>3, <1>4, <1>5, Zenon

(* What the decoder finds before a packet.                                  *)
LEMMA LeadinValue ==
  ASSUME NEW l, NEW b, NEW w, NEW cd, NEW n, Follows(l, b, w, cd, n), cd.state = "LEADIN",
         NEW s, s = read_block(b), s # <<>>
  PROVE  /\ First(s, {"^C", "+", "$"}) = 1 /\ l \in Seq(Items)
         /\ \/ s[1] = "+" /\ Follows(l, commit_read(b, 1), w, cd, n)
            \/ s[1] = "$" /\ Follows(l, commit_read(b, 1), w, [cd EXCEPT !.state = "BODY"], n)
            \/ /\ s[1] = "^C" /\ n + 1 <= Len(l) /\ l[n + 1] = <<"^C">>
               /\ Follows(l, commit_read(b, 1), w, cd, n + 1)
<1>1. PICK G, at, end, r : Reading(G, l, at, end, r, b, w, cd, n)
  BY Zenon DEF Follows
<1>2. /\ Stream(G, l, at, end) /\ BufferOK(b) /\ w \in Seq(Chars) /\ cd \in CodecStates
      /\ From(Unread(b) \o w, G, r) /\ Reads(cd, l, at, end, n, r)
  BY <1>1, Zenon DEF Reading
<1>3. /\ s \in Seq(Chars) /\ r \in Nat /\ G \in Seq(Chars) /\ r + Len(s) <= Len(G)
      /\ \A i \in 1..Len(s) : s[i] = G[r + i]
  BY <1>2, FromBlock
<1>4. Len(s) \in Nat /\ 1 \in 1..Len(s) /\ 1 \in 0..Len(s) /\ r + 1 \in Nat /\ r < Len(G) /\ Len(G) \in Nat
  BY <1>3
<1>5. s[1] = G[r + 1]
  BY <1>3, <1>4
<1>6. /\ n \in Nat /\ n <= Len(l) /\ l \in Seq(Items) /\ Between(l, at, end, n, r)
      /\ cd.pkt = <<>> /\ cd.escaped = FALSE
  <2>1. l \in Seq(Items)
    BY <1>2, Zenon DEF Stream
  <2>2. cd.state # "BODY" /\ cd.state # "CRC"
    OBVIOUS
  <2> QED BY <1>2, <2>1, <2>2, Zenon DEF Reads, Inside
<1>7. PICK c : c = commit_read(b, 1)
  OBVIOUS
<1>8. BufferOK(c) /\ From(Unread(c) \o w, G, r + 1)
  BY <1>2, <1>4, <1>7, FromRead
<1>9. CASE G[r + 1] = "+" /\ Between(l, at, end, n, r + 1)
  <2>1. s[1] \in {"^C", "+", "$"}
    BY <1>5, <1>9
  <2>2. First(s, {"^C", "+", "$"}) = 1
    BY <1>3, <2>1, FirstIsOne
  <2>3. Reads(cd, l, at, end, n, r + 1)
    BY <1>6, <1>9, Zenon DEF Reads
  <2>4. Follows(l, c, w, cd, n)
    BY <1>2, <1>8, <2>3, Zenon DEF Follows, Reading
  <2> QED BY <1>5, <1>6, <1>7, <1>9, <2>2, <2>4
<1>10. CASE n + 1 <= Len(l) /\ at[n + 1] = r + 1
  <2>1. PICK x, y : x = l[n + 1] /\ y = Escape(x)
    OBVIOUS
  <2>2. ItemAt(G, x, at[n + 1], end[n + 1])
    <3>1. n + 1 \in 1..Len(l)
      BY <1>6, <1>10
    <3> QED BY <1>2, <2>1, <3>1, Zenon DEF Stream
  <2>3. CASE x = <<"^C">> /\ end[n + 1] = at[n + 1] /\ G[at[n + 1]] = "^C"
    <3>1. s[1] = "^C" /\ s[1] \in {"^C", "+", "$"}
      BY <1>5, <1>10, <2>3
    <3>2. First(s, {"^C", "+", "$"}) = 1
      BY <1>3, <3>1, FirstIsOne
    <3>3. Between(l, at, end, n + 1, r + 1)
      <4>1. Between(l, at, end, n + 1, end[n + 1])
        BY <1>2, <1>6, <1>10, ItemRead
      <4> QED BY <1>10, <2>3, <4>1
    <3>4. n + 1 \in Nat
      BY <1>6
    <3>5. Reads(cd, l, at, end, n + 1, r + 1)
      BY <1>6, <1>10, <3>3, <3>4, Zenon DEF Reads
    <3>6. Follows(l, c, w, cd, n + 1)
      BY <1>2, <1>8, <3>5, Zenon DEF Follows, Reading
    <3> QED BY <1>6, <1>7, <1>10, <2>1, <2>3, <3>1, <3>2, <3>6
  <2>4. CASE x \in Packets /\ FrameAt(G, at[n + 1], y)
    <3>1. s[1] = "$" /\ s[1] \in {"^C", "+", "$"}
      BY <1>5, <1>10, <2>4 DEF FrameAt
    <3>2. First(s, {"^C", "+", "$"}) = 1
      BY <1>3, <3>1, FirstIsOne
    <3>3. PICK d : d = [cd EXCEPT !.state = "BODY"]
      OBVIOUS
    <3>4. d \in CodecStates /\ d.state = "BODY" /\ d.pkt = cd.pkt /\ d.escaped = cd.escaped
      BY <1>2, <3>3 DEF CodecStates
    <3>5. y \in Seq(Chars) /\ Len(y) \in Nat /\ Len(<<>>) = 0 /\ 0 <= Len(y)
      <4>1. y \in Seq(Chars)
        BY <2>1, <2>4, PacketType
      <4> QED BY <4>1
    <3>6. Escapes(y, FALSE)[0] = FALSE
      <4>1. Escaping(Escapes(y, FALSE), y, FALSE)
        <5>1. FALSE \in BOOLEAN
          OBVIOUS
        <5> QED BY <3>5, <5>1, EscapesValue, Zenon
      <4> QED BY <4>1, Zenon DEF Escaping
    <3>7. Inside(d, x, 0)
      <4>1. \A k \in 1..0 : d.pkt[k] = y[k]
        OBVIOUS
      <4> QED BY <1>6, <2>1, <2>4, <3>4, <3>5, <3>6, <4>1, Zenon DEF Inside
    <3>8. (r + 1) - at[n + 1] = 0
      BY <1>4, <1>10
    <3>9. Reads(d, l, at, end, n, r + 1)
      BY <1>6, <1>10, <2>1, <3>7, <3>8, Zenon DEF Reads
    <3>10. Follows(l, c, w, d, n)
      BY <1>2, <1>8, <3>4, <3>9, Zenon DEF Follows, Reading
    <3> QED BY <1>6, <1>7, <3>1, <3>2, <3>3, <3>10
  <2> QED BY <2>1, <2>2, <2>3, <2>4, Zenon DEF ItemAt
<1>11. \/ G[r + 1] = "+" /\ Between(l, at, end, n, r + 1)
       \/ n + 1 <= Len(l) /\ at[n + 1] = r + 1
  BY <1>2, <1>3, <1>4, <1>6, NextItem
<1> QED BY <1>9, <1>10, <1>11

(* A packet grows by a piece of the block, up to its '#'.                   *)
GrowsBy(p, y, s, k) ==
  /\ p \in Seq(Chars) /\ y \in Seq(Chars) /\ s \in Seq(Chars) /\ k \in Nat /\ k <= Len(s)
  /\ Len(p) + k <= Len(y) /\ Rest(s, y, Len(p)) /\ \A i \in 1..Len(p) : p[i] = y[i]

LEMMA PacketGrows ==
  ASSUME NEW p, NEW y, NEW s, NEW k, GrowsBy(p, y, s, k), NEW q, q = Grown(p, SubSeq(s, 1, k))
  PROVE  q \in Seq(Chars) /\ Len(q) = Len(p) + k /\ \A i \in 1..Len(q) : q[i] = y[i]
<1> /\ p \in Seq(Chars) /\ y \in Seq(Chars) /\ s \in Seq(Chars) /\ k \in Nat /\ k <= Len(s)
    /\ Len(p) + k <= Len(y) /\ Rest(s, y, Len(p)) /\ \A i \in 1..Len(p) : p[i] = y[i]
  BY Zenon DEF GrowsBy
<1>1. PICK t : t = SubSeq(s, 1, k)
  OBVIOUS
<1>2. t \in Seq(Chars) /\ Len(t) = k /\ \A i \in 1..k : t[i] = s[i]
  BY <1>1
<1>3. q = p \o t
  BY <1>1, Zenon DEF Grown
<1>4. Behind(q, p, t)
  BY <1>2, <1>3, BehindIs
<1>5. /\ q \in Seq(Chars) /\ Len(q) = Len(p) + Len(t)
      /\ (\A i \in 1..Len(p) : q[i] = p[i]) /\ (\A i \in 1..Len(t) : q[Len(p) + i] = t[i])
  BY <1>4, Zenon DEF Behind
<1>6. ASSUME NEW i \in 1..Len(q) PROVE q[i] = y[i]
  <2>1. CASE i \in 1..Len(p)
    BY <1>5, <2>1
  <2>2. CASE i \notin 1..Len(p)
    <3>1. PICK j : j = i - Len(p)
      OBVIOUS
    <3>2. j \in 1..k /\ j \in 1..Len(s) /\ Len(p) + j = i /\ Len(p) + j <= Len(y)
      <4>1. Len(q) = Len(p) + k /\ Len(p) \in Nat /\ Len(s) \in Nat /\ k \in Nat /\ k <= Len(s)
        BY <1>2, <1>5
      <4>2. Len(p) + k <= Len(y) /\ Len(y) \in Nat
        OBVIOUS
      <4>3. i \in Nat /\ Len(p) < i /\ i <= Len(p) + k
        BY <2>2, <4>1
      <4> QED BY <3>1, <4>1, <4>2, <4>3
    <3>3. s[j] = y[Len(p) + j]
      BY <3>2 DEF Rest
    <3>4. q[Len(p) + j] = t[j] /\ t[j] = s[j]
      BY <1>2, <1>5, <3>2
    <3> QED BY <3>2, <3>3, <3>4
  <2> QED BY <2>1, <2>2
<1> QED BY <1>2, <1>5, <1>6

(* A part of the body of a packet is read.                                  *)
LEMMA BodyValue ==
  ASSUME NEW l, NEW b, NEW w, NEW cd, NEW n, Follows(l, b, w, cd, n), cd.state = "BODY",
         NEW s, s = read_block(b), NEW a, a = scan_for_hash(s, cd.escaped)
  PROVE  Follows(l, commit_read(b, IF a.found THEN a.n + 1 ELSE a.n), w,
                 [state |-> IF a.found THEN "CRC" ELSE "BODY", pkt |-> Grown(cd.pkt, SubSeq(s, 1, a.n)), escaped |-> a.escaped], n)
<1>1. PICK G, at, end, r : Reading(G, l, at, end, r, b, w, cd, n)
  BY Zenon DEF Follows
<1>2. /\ Stream(G, l, at, end) /\ BufferOK(b) /\ w \in Seq(Chars) /\ cd \in CodecStates
      /\ From(Unread(b) \o w, G, r) /\ Reads(cd, l, at, end, n, r)
  BY <1>1, Zenon DEF Reading
<1>3. /\ s \in Seq(Chars) /\ r \in Nat /\ G \in Seq(Chars) /\ r + Len(s) <= Len(G)
      /\ \A i \in 1..Len(s) : s[i] = G[r + i]
  BY <1>2, FromBlock
<1>4. PICK x, y, p, f : x = l[n + 1] /\ y = Escape(x) /\ p = cd.pkt /\ f = Escapes(y, FALSE)
  OBVIOUS
<1>5. n \in Nat /\ n <= Len(l) /\ n + 1 <= Len(l) /\ Inside(cd, x, r - at[n + 1])
  <2>1. cd.state # "INIT" /\ cd.state # "LEADIN"
    OBVIOUS
  <2> QED BY <1>2, <1>4, <2>1, Zenon DEF Reads
<1>6. /\ x \in Packets /\ Len(p) <= Len(y) /\ r - at[n + 1] = Len(p) /\ (\A k \in 1..Len(p) : p[k] = y[k])
      /\ cd.escaped = f[Len(p)]
  <2>1. cd.state # "CRC"
    OBVIOUS
  <2> QED BY <1>4, <1>5, <2>1, Zenon DEF Inside
<1>7. y \in Seq(Chars) /\ x \in Seq(Chars)
  BY <1>4, <1>6, PacketType
<1>8. p \in Seq(Chars)
  BY <1>2, <1>4 DEF CodecStates
<1>9. at[n + 1] \in Nat /\ FrameAt(G, at[n + 1], y)
  <2>1. n + 1 \in 1..Len(l)
    <3>1. l \in Seq(Items)
      BY <1>2, Zenon DEF Stream
    <3> QED BY <1>5, <3>1
  <2>2. ItemAt(G, x, at[n + 1], end[n + 1])
    BY <1>2, <1>4, <2>1, Zenon DEF Stream
  <2>3. x # <<"^C">>
    BY <1>6, PacketType
  <2> QED BY <1>4, <2>2, <2>3 DEF ItemAt
<1>10. PICK m : m = Len(p)
  OBVIOUS
<1>11. m \in Nat /\ m \in 0..Len(y) /\ r = at[n + 1] + m /\ Len(y) \in Nat /\ Len(s) \in Nat
  BY <1>3, <1>6, <1>7, <1>8, <1>9, <1>10
<1>12. Rest(s, y, m)
  <2>1. ASSUME NEW i \in 1..Len(s) PROVE (m + i <= Len(y) => s[i] = y[m + i]) /\ (m + i = Len(y) + 1 => s[i] = "#")
    <3>1. s[i] = G[r + i] /\ r + i = at[n + 1] + (m + i)
      BY <1>3, <1>9, <1>11
    <3>2. CASE m + i <= Len(y)
      <4>1. m + i \in 1..Len(y)
        BY <1>11, <3>2
      <4>2. G[at[n + 1] + (m + i)] = y[m + i]
        BY <1>9, <4>1, Zenon DEF FrameAt
      <4> QED BY <1>11, <3>1, <3>2, <4>2
    <3>3. CASE m + i = Len(y) + 1
      <4>1. G[at[n + 1] + Len(y) + 1] = "#"
        BY <1>9, Zenon DEF FrameAt
      <4>2. at[n + 1] + Len(y) + 1 = r + i
        BY <1>9, <1>11, <3>3, SMTT(30)
      <4> QED BY <1>11, <3>1, <3>3, <4>1, <4>2
    <3> QED BY <3>2, <3>3
  <2> QED BY <2>1, Zenon DEF Rest
<1>13. Escaping(f, y, FALSE) /\ f[Len(y)] = FALSE /\ NoHash(y)
  <2>1. Escaped(y, FALSE, x) /\ NoHash(y)
    BY <1>4, <1>7, EscapeUndone, Zenon
  <2>2. f[Len(y)] = FALSE
    BY <1>4, <2>1, Zenon DEF Escaped
  <2>3. FALSE \in BOOLEAN
    OBVIOUS
  <2>4. Escaping(f, y, FALSE)
    BY <1>4, <1>11, <2>3, EscapesValue, Zenon
  <2> QED BY <2>1, <2>2, <2>4
<1>14. a = scan_for_hash(s, f[m])
  BY <1>6, <1>10
<1>15. /\ Len(s) <= Len(y) - m => a.n = Len(s) /\ a.found = FALSE /\ a.escaped = f[m + Len(s)]
       /\ Len(s) > Len(y) - m => a.n = Len(y) - m /\ a.found = TRUE /\ a.escaped = FALSE
  <2>1. Scanning(y, f, m, s)
    BY <1>3, <1>7, <1>11, <1>12, <1>13, Zenon DEF Scanning
  <2>2. Scanned(a, y, f, m, s)
    BY <1>14, <2>1, ScanValue
  <2> QED BY <2>2, Zenon DEF Scanned
<1>16. PICK k, q : k = a.n /\ q = Grown(p, SubSeq(s, 1, k))
  OBVIOUS
<1>17. k \in Nat /\ k <= Len(s) /\ m + k <= Len(y)
  BY <1>11, <1>15, <1>16
<1>18. q \in Seq(Chars) /\ Len(q) = m + k /\ \A i \in 1..Len(q) : q[i] = y[i]
  <2>1. GrowsBy(p, y, s, k)
    BY <1>3, <1>6, <1>7, <1>8, <1>10, <1>12, <1>17, Zenon DEF GrowsBy
  <2>2. q \in Seq(Chars) /\ Len(q) = Len(p) + k /\ \A i \in 1..Len(q) : q[i] = y[i]
    BY <1>16, <2>1, PacketGrows
  <2> QED BY <1>10, <2>2
<1>19. CASE Len(s) <= Len(y) - m
  <2>1. k = Len(s) /\ a.found = FALSE /\ a.escaped = f[m + k]
    BY <1>15, <1>16, <1>19
  <2>2. PICK c, e : c = commit_read(b, k) /\ e = f[m + k]
    OBVIOUS
  <2>3. BufferOK(c) /\ From(Unread(c) \o w, G, r + k)
    <3>1. k \in 0..Len(read_block(b))
      BY <1>17
    <3> QED BY <1>2, <2>2, <3>1, FromRead
  <2>4. PICK d : d = [state |-> "BODY", pkt |-> q, escaped |-> e]
    OBVIOUS
  <2>5. e \in BOOLEAN
    <3>1. m + k \in 0..Len(y)
      BY <1>11, <1>17
    <3> QED BY <1>13, <2>2, <3>1, Zenon DEF Escaping
  <2>6. d \in CodecStates /\ d.state = "BODY" /\ d.pkt = q /\ d.escaped = e
    BY <1>18, <2>4, <2>5 DEF CodecStates
  <2>7. Len(q) <= Len(y) /\ (r + k) - at[n + 1] = Len(q)
    BY <1>9, <1>11, <1>17, <1>18
  <2>8. Inside(d, x, Len(q))
    BY <1>4, <1>6, <1>18, <2>2, <2>6, <2>7, Zenon DEF Inside
  <2>9. Reads(d, l, at, end, n, r + k)
    BY <1>4, <1>5, <2>7, <2>8, Zenon DEF Reads
  <2>10. Follows(l, c, w, d, n)
    BY <1>2, <2>3, <2>6, <2>9, Zenon DEF Follows, Reading
  <2> QED BY <1>4, <1>16, <2>1, <2>2, <2>4, <2>10, Zenon
<1>20. CASE Len(s) > Len(y) - m
  <2>1. k = Len(y) - m /\ a.found = TRUE /\ a.escaped = FALSE
    BY <1>15, <1>16, <1>20
  <2>2. PICK c, e : c = commit_read(b, k + 1) /\ e = FALSE
    OBVIOUS
  <2>3. BufferOK(c) /\ From(Unread(c) \o w, G, r + (k + 1))
    <3>1. k + 1 \in 0..Len(read_block(b))
      BY <1>11, <1>17, <1>20, <2>1
    <3> QED BY <1>2, <2>2, <3>1, FromRead
  <2>4. PICK d : d = [state |-> "CRC", pkt |-> q, escaped |-> e]
    OBVIOUS
  <2>5. e \in BOOLEAN
    BY <2>2
  <2>6. d \in CodecStates /\ d.state = "CRC" /\ d.pkt = q /\ d.escaped = e
    BY <1>18, <2>4, <2>5 DEF CodecStates
  <2>7. q = y
    BY <1>7, <1>11, <1>18, <2>1
  <2>8. (r + (k + 1)) - at[n + 1] = Len(y) + 1
    BY <1>9, <1>11, <2>1
  <2>9. Inside(d, x, Len(y) + 1)
    BY <1>4, <1>6, <2>6, <2>7, Zenon DEF Inside
  <2>10. Reads(d, l, at, end, n, r + (k + 1))
    BY <1>4, <1>5, <2>8, <2>9, Zenon DEF Reads
  <2>11. Follows(l, c, w, d, n)
    BY <1>2, <2>3, <2>6, <2>10, Zenon DEF Follows, Reading
  <2> QED BY <1>4, <1>16, <2>1, <2>2, <2>4, <2>11, Zenon
<1> QED BY <1>11, <1>19, <1>20

(* The end of a packet is read: it is the next of the packets that were     *)
(* sent, and its checksum is right.                                         *)
LEMMA CrcValue ==
  ASSUME NEW l, NEW b, NEW w, NEW cd, NEW n, Follows(l, b, w, cd, n), cd.state = "CRC",
         NEW s, s = read_block(b), Len(s) >= 2
  PROVE  /\ verify_checksum(cd.pkt, SubSeq(s, 1, 2)) /\ l \in Seq(Items) /\ n + 1 <= Len(l) /\ deescape(cd.pkt) = l[n + 1]
         /\ Follows(l, commit_read(b, 2), w, [cd EXCEPT !.state = "INIT", !.pkt = deescape(@)], n + 1)
<1>1. PICK G, at, end, r : Reading(G, l, at, end, r, b, w, cd, n)
  BY Zenon DEF Follows
<1>2. /\ Stream(G, l, at, end) /\ BufferOK(b) /\ w \in Seq(Chars) /\ cd \in CodecStates
      /\ From(Unread(b) \o w, G, r) /\ Reads(cd, l, at, end, n, r)
  BY <1>1, Zenon DEF Reading
<1>3. /\ s \in Seq(Chars) /\ r \in Nat /\ G \in Seq(Chars) /\ r + Len(s) <= Len(G)
      /\ \A i \in 1..Len(s) : s[i] = G[r + i]
  BY <1>2, FromBlock
<1>4. PICK x, y : x = l[n + 1] /\ y = Escape(x)
  OBVIOUS
<1>5. n \in Nat /\ n <= Len(l) /\ n + 1 <= Len(l) /\ Inside(cd, x, r - at[n + 1])
  <2>1. cd.state # "INIT" /\ cd.state # "LEADIN"
    OBVIOUS
  <2> QED BY <1>2, <1>4, <2>1, Zenon DEF Reads
<1>6. x \in Packets /\ cd.pkt = y /\ r - at[n + 1] = Len(y) + 1
  <2>1. cd.state # "BODY"
    OBVIOUS
  <2> QED BY <1>4, <1>5, <2>1, Zenon DEF Inside
<1>7. y \in Seq(Chars) /\ x \in Seq(Chars) /\ Len(y) \in Nat
  BY <1>4, <1>6, PacketType
<1>8. l \in Seq(Items)
  BY <1>2, Zenon DEF Stream
<1>9. at[n + 1] \in Nat /\ FrameAt(G, at[n + 1], y) /\ end[n + 1] = at[n + 1] + Len(y) + 3
  <2>1. n + 1 \in 1..Len(l)
    BY <1>5, <1>8
  <2>2. ItemAt(G, x, at[n + 1], end[n + 1])
    BY <1>2, <1>4, <2>1, Zenon DEF Stream
  <2>3. x # <<"^C">>
    BY <1>6, PacketType
  <2> QED BY <1>4, <2>2, <2>3 DEF ItemAt
<1>10. r = at[n + 1] + Len(y) + 1
  <2>1. PICK j, k : j = at[n + 1] /\ k = Len(y)
    OBVIOUS
  <2>2. j \in Nat /\ k \in Nat /\ r \in Nat /\ r - j = k + 1
    BY <1>3, <1>6, <1>7, <1>9, <2>1
  <2>3. r = j + k + 1
    BY <2>2
  <2> QED BY <2>1, <2>3
<1>11. s[1] = checksum(y)[1] /\ s[2] = checksum(y)[2]
  <2>1. 1 \in 1..Len(s) /\ 2 \in 1..Len(s) /\ r + 1 = at[n + 1] + Len(y) + 2 /\ r + 2 = at[n + 1] + Len(y) + 3
    BY <1>3, <1>7, <1>9, <1>10, SMTT(30)
  <2>2. s[1] = G[r + 1] /\ s[2] = G[r + 2]
    BY <1>3, <2>1
  <2>3. G[at[n + 1] + Len(y) + 2] = checksum(y)[1] /\ G[at[n + 1] + Len(y) + 3] = checksum(y)[2]
    BY <1>9, Zenon DEF FrameAt
  <2> QED BY <2>1, <2>2, <2>3
<1>12. verify_checksum(cd.pkt, SubSeq(s, 1, 2))
  <2>1. SubSeq(s, 1, 2) = <<s[1], s[2]>>
    <3>1. PICK t : t = SubSeq(s, 1, 2)
      OBVIOUS
    <3>2. s \in Seq(Chars) /\ Len(s) \in Nat
      BY <1>3
    <3>3. t \in Seq(Chars) /\ Len(t) = 2 /\ t[1] = s[1] /\ t[2] = s[2]
      BY <3>1, <3>2
    <3>4. t = <<t[1], t[2]>>
      BY <3>3
    <3> QED BY <3>1, <3>3, <3>4
  <2>2. checksum(y) = <<checksum(y)[1], checksum(y)[2]>>
    BY ChecksumPair
  <2> QED BY <1>6, <1>11, <2>1, <2>2, Zenon DEF verify_checksum
<1>13. deescape(y) = x
  <2>1. Escaped(y, FALSE, x)
    BY <1>4, <1>7, EscapeUndone, Zenon
  <2> QED BY <2>1, Zenon DEF Escaped
<1>14. PICK c, d : c = commit_read(b, 2) /\ d = [cd EXCEPT !.state = "INIT", !.pkt = deescape(@)]
  OBVIOUS
<1>15. BufferOK(c) /\ From(Unread(c) \o w, G, r + 2)
  <2>1. 2 \in 0..Len(read_block(b))
    BY <1>3
  <2> QED BY <1>2, <1>14, <2>1, FromRead
<1>16. d \in CodecStates /\ d.state = "INIT"
  <2>1. d = [cd EXCEPT !.state = "INIT", !.pkt = x]
    BY <1>6, <1>13, <1>14, Zenon
  <2> QED BY <1>2, <1>7, <2>1 DEF CodecStates
<1>17. Between(l, at, end, n + 1, end[n + 1])
  BY <1>2, <1>5, ItemRead
<1>18. r + 2 = end[n + 1] /\ n + 1 \in Nat
  BY <1>5, <1>7, <1>9, <1>10
<1>19. Reads(d, l, at, end, n + 1, r + 2)
  <2>1. d.state # "LEADIN" /\ d.state \in {"INIT", "LEADIN"}
    BY <1>16
  <2>2. Between(l, at, end, n + 1, r + 2)
    BY <1>17, <1>18
  <2> QED BY <1>5, <1>18, <2>1, <2>2, Zenon DEF Reads
<1>20. Follows(l, c, w, d, n + 1)
  BY <1>2, <1>15, <1>16, <1>19, Zenon DEF Follows, Reading
<1> QED BY <1>4, <1>5, <1>6, <1>8, <1>12, <1>13, <1>14, <1>20

LEMMA FollowsType ==
  ASSUME NEW l, NEW b, NEW w, NEW cd, NEW n, Follows(l, b, w, cd, n)
  PROVE  BufferOK(b) /\ w \in Seq(Chars) /\ cd \in CodecStates /\ n \in Nat /\ n <= Len(l)
BY Zenon DEF Follows, Reading, Reads

(* Something more is sent.                                                  *)
LEMMA FollowsItem ==
  ASSUME NEW l, NEW b, NEW w, NEW cd, NEW n, Follows(l, b, w, cd, n), NEW x, NEW e, SentAs(x, e)
  PROVE  Follows(Append(l, x), b, w \o e, cd, n)
<1>1. PICK G, at, end, r : Reading(G, l, at, end, r, b, w, cd, n)
  BY Zenon DEF Follows
<1>2. /\ Stream(G, l, at, end) /\ BufferOK(b) /\ w \in Seq(Chars) /\ cd \in CodecStates
      /\ From(Unread(b) \o w, G, r) /\ Reads(cd, l, at, end, n, r)
  BY <1>1, Zenon DEF Reading
<1>3. e \in Seq(Chars)
  <2>1. CASE e = <<"^C">>
    <3>1. "^C" \in Chars
      BY Zenon DEF Chars
    <3> QED BY <2>1, <3>1
  <2>2. CASE x \in Packets /\ e = Encoded(x)
    <3>1. x \in Seq(Chars)
      BY <2>2, PacketType
    <3> QED BY <2>2, <3>1, EncodedValue, Zenon DEF Framed
  <2> QED BY <2>1, <2>2, Zenon DEF SentAs
<1>4. PICK u, v, f, H, a, m : /\ a = Unread(b) /\ u = a \o w /\ f = w \o e /\ v = a \o f
                              /\ H = G \o e /\ m = Append(l, x)
  OBVIOUS
<1>5. a \in Seq(Chars) /\ G \in Seq(Chars)
  <2>1. a \in Seq(Chars)
    BY <1>2, <1>4, ReadBlock
  <2> QED BY <1>2, <2>1, Zenon DEF Stream
<1>6. Behind(u, a, w) /\ Behind(f, w, e) /\ Behind(H, G, e)
  BY <1>2, <1>3, <1>4, <1>5, BehindIs
<1>7. f \in Seq(Chars)
  BY <1>6, Zenon DEF Behind
<1>8. Behind(v, a, f)
  BY <1>4, <1>5, <1>7, BehindIs
<1>9. Behind(v, u, e)
  BY <1>6, <1>8, BehindBehind
<1>10. From(v, H, r)
  BY <1>2, <1>4, <1>6, <1>9, FromBehind
<1>11. PICK p, z : /\ Stream(H, m, p, z) /\ (\A i \in 1..Len(l) : p[i] = at[i] /\ z[i] = end[i])
                   /\ p[Len(l) + 1] = Len(G) + 1
  BY <1>2, <1>4, <1>6, StreamItem
<1>12. l \in Seq(Items) /\ r < p[Len(l) + 1]
  <2>1. l \in Seq(Items)
    BY <1>2, Zenon DEF Stream
  <2>2. r \in Nat /\ Len(G) = r + Len(u) /\ u \in Seq(Chars)
    BY <1>2, <1>4, Zenon DEF From
  <2> QED BY <1>11, <2>1, <2>2
<1>13. Reads(cd, m, p, z, n, r)
  <2>1. OneMore(l, at, end, r, x, m, p, z)
    BY <1>4, <1>11, <1>12, Zenon DEF OneMore
  <2> QED BY <1>2, <2>1, ReadsKept
<1>14. Reading(H, m, p, z, r, b, f, cd, n)
  BY <1>2, <1>4, <1>7, <1>10, <1>11, <1>13, Zenon DEF Reading
<1> QED BY <1>4, <1>14, Zenon DEF Follows

LEMMA FollowsAcks ==
  ASSUME NEW l, NEW b, NEW w, NEW cd, NEW n, Follows(l, b, w, cd, n), NEW e \in Seq(Chars), \A i \in 1..Len(e) : e[i] = "+"
  PROVE  Follows(l, b, w \o e, cd, n)
<1>1. PICK G, at, end, r : Reading(G, l, at, end, r, b, w, cd, n)
  BY Zenon DEF Follows
<1>2. /\ Stream(G, l, at, end) /\ BufferOK(b) /\ w \in Seq(Chars) /\ cd \in CodecStates
      /\ From(Unread(b) \o w, G, r) /\ Reads(cd, l, at, end, n, r)
  BY <1>1, Zenon DEF Reading
<1>3. PICK u, v, f, H, a : a = Unread(b) /\ u = a \o w /\ f = w \o e /\ v = a \o f /\ H = G \o e
  OBVIOUS
<1>4. a \in Seq(Chars) /\ G \in Seq(Chars)
  <2>1. a \in Seq(Chars)
    BY <1>2, <1>3, ReadBlock
  <2> QED BY <1>2, <2>1, Zenon DEF Stream
<1>5. Behind(u, a, w) /\ Behind(f, w, e) /\ Behind(H, G, e)
  BY <1>2, <1>3, <1>4, BehindIs
<1>6. f \in Seq(Chars)
  BY <1>5, Zenon DEF Behind
<1>7. Behind(v, a, f)
  BY <1>3, <1>4, <1>6, BehindIs
<1>8. Behind(v, u, e)
  BY <1>5, <1>7, BehindBehind
<1>9. From(v, H, r)
  BY <1>2, <1>3, <1>5, <1>8, FromBehind
<1>10. Stream(H, l, at, end)
  BY <1>2, <1>5, StreamAcks
<1>11. Reading(H, l, at, end, r, b, f, cd, n)
  BY <1>2, <1>3, <1>6, <1>9, <1>10, Zenon DEF Reading
<1> QED BY <1>3, <1>11, Zenon DEF Follows

LEMMA FollowsRecv ==
  ASSUME NEW l, NEW b, NEW w, NEW cd, NEW n, Follows(l, b, w, cd, n), NEW k, NEW c, Receives(b, w, k, c)
  PROVE  Follows(l, c, SubSeq(w, k + 1, Len(w)), cd, n)
<1>1. PICK G, at, end, r : Reading(G, l, at, end, r, b, w, cd, n)
  BY Zenon DEF Follows
<1>2. /\ Stream(G, l, at, end) /\ BufferOK(b) /\ w \in Seq(Chars) /\ cd \in CodecStates
      /\ From(Unread(b) \o w, G, r) /\ Reads(cd, l, at, end, n, r)
  BY <1>1, Zenon DEF Reading
<1>3. PICK t : t = SubSeq(w, k + 1, Len(w))
  OBVIOUS
<1>4. BufferOK(c) /\ From(Unread(c) \o t, G, r)
  BY <1>2, <1>3, FromReceived
<1>5. t \in Seq(Chars)
  <2>1. k \in Nat
    <3>1. k \in 1..write_block(b)
      BY Zenon DEF Receives
    <3>2. k \in Int /\ k >= 1
      BY <3>1
    <3> QED BY <3>2
  <2> QED BY <1>2, <1>3, <2>1
<1>6. Reading(G, l, at, end, r, c, t, cd, n)
  BY <1>2, <1>4, <1>5, Zenon DEF Reading
<1> QED BY <1>3, <1>6, Zenon DEF Follows

LEMMA FollowsReset ==
  ASSUME NEW l, NEW b, NEW w, NEW cd, NEW n, Follows(l, b, w, cd, n), cd.state = "INIT"
  PROVE  Follows(l, b, w, reset_state, n)
<1>1. PICK G, at, end, r : Reading(G, l, at, end, r, b, w, cd, n)
  BY Zenon DEF Follows
<1>2. /\ Stream(G, l, at, end) /\ BufferOK(b) /\ w \in Seq(Chars) /\ cd \in CodecStates
      /\ From(Unread(b) \o w, G, r) /\ Reads(cd, l, at, end, n, r)
  BY <1>1, Zenon DEF Reading
<1>3. PICK no, d : no = FALSE /\ d = reset_state
  OBVIOUS
<1>4. d = [state |-> "LEADIN", pkt |-> <<>>, escaped |-> no]
  BY <1>3, Zenon DEF reset_state
<1>5. d \in CodecStates /\ d.state = "LEADIN" /\ d.pkt = <<>> /\ d.escaped = no
  <2>1. no \in BOOLEAN
    BY <1>3, Zenon
  <2>2. <<>> \in Seq(Chars)
    OBVIOUS
  <2> QED BY <1>4, <2>1, <2>2 DEF CodecStates
<1>6. n \in Nat /\ n <= Len(l) /\ Between(l, at, end, n, r)
  <2>1. cd.state # "BODY" /\ cd.state # "CRC"
    OBVIOUS
  <2> QED BY <1>2, <2>1, Zenon DEF Reads, Inside
<1>7. Reads(d, l, at, end, n, r)
  BY <1>3, <1>5, <1>6, Zenon DEF Reads
<1>8. Reading(G, l, at, end, r, b, w, d, n)
  BY <1>2, <1>5, <1>7, Zenon DEF Reading
<1> QED BY <1>3, <1>8, Zenon DEF Follows

LEMMA FollowsNothing ==
  ASSUME NEW b, b = [buf |-> [i \in 0..(max_size - 1) |-> "-"], head |-> 0, tail |-> 0, full |-> FALSE]
  PROVE  Follows(<<>>, b, <<>>, reset_state, 0)
<1>1. PICK no, m, d : no = FALSE /\ m = [i \in 0..(max_size - 1) |-> "-"] /\ d = reset_state
  OBVIOUS
<1>2. m \in [0..(max_size - 1) -> Chars] /\ max_size \in Nat /\ max_size > 1 /\ 0 \in 0..(max_size - 1)
  <2>1. "-" \in Chars
    BY Zenon DEF Chars
  <2> QED BY <1>1, <2>1, GdbServerAssumption
<1>3. b = [buf |-> m, head |-> 0, tail |-> 0, full |-> no] /\ no \in BOOLEAN
  BY <1>1, Zenon
<1>4. BufferOK(b) /\ Fields(b, 0, 0, no, m)
  BY <1>2, <1>3, BufferOf
<1>5. Size(0, 0, no) = 0
  BY <1>1, <1>2 DEF Size
<1>6. PICK u : u = Unread(b)
  OBVIOUS
<1>7. u \in Seq(Chars) /\ Len(u) = 0
  BY <1>4, <1>5, <1>6, UnreadValue
<1>8. u \o <<>> = <<>> /\ <<>> \in Seq(Chars) /\ <<>> \in Seq(Items) /\ Len(<<>>) = 0
  BY <1>7
<1>9. From(u \o <<>>, <<>>, 0)
  BY <1>8 DEF From
<1>10. Stream(<<>>, <<>>, <<>>, <<>>)
  BY <1>8 DEF Stream
<1>11. d = [state |-> "LEADIN", pkt |-> <<>>, escaped |-> no]
  BY <1>1, Zenon DEF reset_state
<1>12. d \in CodecStates /\ d.state = "LEADIN" /\ d.pkt = <<>> /\ d.escaped = no
  BY <1>3, <1>8, <1>11 DEF CodecStates
<1>13. Between(<<>>, <<>>, <<>>, 0, 0) /\ 0 \in Nat /\ 0 <= Len(<<>>)
  BY <1>8 DEF Between
<1>14. Reads(d, <<>>, <<>>, <<>>, 0, 0)
  BY <1>1, <1>12, <1>13, Zenon DEF Reads
<1>15. Reading(<<>>, <<>>, <<>>, <<>>, 0, b, <<>>, d, 0)
  BY <1>4, <1>6, <1>8, <1>9, <1>10, <1>12, <1>14, Zenon DEF Reading
<1> QED BY <1>1, <1>15, Zenon DEF Follows

(* When there is nothing to read and no packet begun, all are decoded.      *)
LEMMA FollowsAll ==
  ASSUME NEW l, NEW b, NEW cd, NEW n, Follows(l, b, <<>>, cd, n), is_empty(b), cd.state \in {"INIT", "LEADIN"}
  PROVE  n = Len(l)
<1>1. PICK G, at, end, r : Reading(G, l, at, end, r, b, <<>>, cd, n)
  BY Zenon DEF Follows
<1>2. /\ Stream(G, l, at, end) /\ BufferOK(b) /\ cd \in CodecStates
      /\ From(Unread(b) \o <<>>, G, r) /\ Reads(cd, l, at, end, n, r)
  BY <1>1, Zenon DEF Reading
<1>3. PICK u : u = Unread(b)
  OBVIOUS
<1>4. u = <<>>
  BY <1>2, <1>3, ReadBlock
<1>5. Len(u \o <<>>) = 0
  BY <1>4
<1>6. r \in Nat /\ Len(G) = r
  BY <1>2, <1>3, <1>5 DEF From
<1>7. n \in Nat /\ n <= Len(l) /\ Between(l, at, end, n, r) /\ l \in Seq(Items)
  <2>1. cd.state # "BODY" /\ cd.state # "CRC"
    OBVIOUS
  <2>2. l \in Seq(Items)
    BY <1>2, Zenon DEF Stream
  <2> QED BY <1>2, <2>1, <2>2, Zenon DEF Reads, Inside
<1>8. CASE n < Len(l)
  <2>1. n + 1 \in 1..Len(l) /\ n + 1 \in (n + 1)..Len(l)
    BY <1>7, <1>8
  <2>2. ItemAt(G, l[n + 1], at[n + 1], end[n + 1])
    BY <1>2, <2>1, Zenon DEF Stream
  <2>3. at[n + 1] \in Nat /\ end[n + 1] \in Nat /\ at[n + 1] <= end[n + 1] /\ end[n + 1] <= Len(G)
    BY <2>2 DEF ItemAt
  <2>4. r < at[n + 1]
    BY <1>7, <2>1, Zenon DEF Between
  <2> QED BY <1>6, <2>3, <2>4
<1> QED BY <1>7, <1>8

-----------------------------------------------------------------------------
(* What is decoded is what was sent.                                        *)

DecodeInv ==
  /\ gdb \in GdbStates /\ (gdb.waits # "nothing" => gdb.packet \in Packets) /\ out \in Seq(Messages)
  /\ decoded \in Seq(Items) /\ \A i \in 1..Len(decoded) : decoded[i] = gdb.sent[i]
  /\ Follows(gdb.sent, buffer, wire, codec, Len(decoded))

(* The fields of gdb.                                                       *)
LEMMA GdbFields ==
  ASSUME DecodeInv
  PROVE  /\ gdb.sent \in Seq(Items) /\ gdb.packets \in Nat /\ gdb.resends \in Nat /\ gdb.interrupts \in Nat
         /\ gdb.waits \in {"nothing", "data", "written", "stop"} /\ gdb.acked \in BOOLEAN
         /\ gdb.packet \in Packets \cup {<<>>}
<1>1. gdb \in GdbStates
  BY Zenon DEF DecodeInv
<1> QED BY <1>1 DEF GdbStates

LEMMA ExpectsValue ==
  ASSUME NEW p \in Packets
  PROVE  Expects(p) \in {"data", "written", "stop"} /\ (Expects(p) = "stop" <=> p[1] \in {"c", "s"})
<1>1. p[1] \in {"q", "X", "c", "s", "m"}
  BY PacketType
<1> QED BY <1>1 DEF Expects

(* Something that GDB sends is behind what it has sent.                     *)
LEMMA SendKeepsDecodeInv ==
  ASSUME DecodeInv, NEW x, NEW e, SentAs(x, e), gdb' \in GdbStates, gdb'.waits # "nothing" => gdb'.packet \in Packets,
         gdb'.sent = Append(gdb.sent, x), wire' = wire \o e, UNCHANGED <<buffer, codec, decoded, out>>
  PROVE  DecodeInv'
<1>1. /\ out \in Seq(Messages) /\ decoded \in Seq(Items) /\ (\A i \in 1..Len(decoded) : decoded[i] = gdb.sent[i])
      /\ Follows(gdb.sent, buffer, wire, codec, Len(decoded))
  BY Zenon DEF DecodeInv
<1>2. Follows(Append(gdb.sent, x), buffer, wire \o e, codec, Len(decoded))
  BY <1>1, FollowsItem
<1>3. gdb.sent \in Seq(Items) /\ Len(decoded) \in Nat /\ Len(decoded) <= Len(gdb.sent)
  BY <1>1, GdbFields, FollowsType
<1>4. ASSUME NEW i \in 1..Len(decoded) PROVE decoded[i] = Append(gdb.sent, x)[i]
  <2>1. i \in 1..Len(gdb.sent)
    BY <1>3
  <2> QED BY <1>1, <1>3, <2>1
<1>5. out' = out /\ decoded' = decoded /\ buffer' = buffer /\ codec' = codec
  OBVIOUS
<1> QED BY <1>1, <1>2, <1>4, <1>5, Zenon DEF DecodeInv

LEMMA GdbSendsKeepsDecodeInv ==
  ASSUME DecodeInv, NEW p \in Packets, GdbSends(p)
  PROVE  DecodeInv'
<1>1. PICK x, no : x = Expects(p) /\ no = FALSE
  OBVIOUS
<1>2. gdb' = [gdb EXCEPT !.waits = x, !.packet = p, !.acked = no, !.packets = @ + 1, !.sent = Append(@, p)]
  BY <1>1, Zenon DEF GdbSends
<1>3. wire' = wire \o Encoded(p) /\ UNCHANGED <<buffer, codec, decoded, out>>
  BY DEF GdbSends
<1>4. SentAs(p, Encoded(p)) /\ p \in Items
  BY Zenon DEF SentAs, Items
<1>5. x \in {"data", "written", "stop"}
  BY <1>1, ExpectsValue
<1>6. gdb \in GdbStates /\ no \in BOOLEAN
  BY <1>1, Zenon DEF DecodeInv
<1>7. gdb' \in GdbStates /\ gdb'.packet = p /\ gdb'.sent = Append(gdb.sent, p)
  <2>1. gdb.sent \in Seq(Items) /\ gdb.packets \in Nat
    BY GdbFields
  <2>2. Append(gdb.sent, p) \in Seq(Items) /\ gdb.packets + 1 \in Nat
    BY <1>4, <2>1
  <2> QED BY <1>2, <1>5, <1>6, <2>2 DEF GdbStates
<1> QED BY <1>3, <1>4, <1>7, SendKeepsDecodeInv

LEMMA GdbResendsKeepsDecodeInv ==
  ASSUME DecodeInv, GdbResends
  PROVE  DecodeInv'
<1>1. PICK p : p = gdb.packet
  OBVIOUS
<1>2. gdb' = [gdb EXCEPT !.resends = @ + 1, !.sent = Append(@, p)]
  BY <1>1, Zenon DEF GdbResends
<1>3. wire' = wire \o Encoded(p) /\ UNCHANGED <<buffer, codec, decoded, out>> /\ gdb.waits # "nothing"
  BY <1>1 DEF GdbResends
<1>4. p \in Packets
  BY <1>1, <1>3, Zenon DEF DecodeInv
<1>5. SentAs(p, Encoded(p)) /\ p \in Items
  BY <1>4, Zenon DEF SentAs, Items
<1>6. gdb \in GdbStates
  BY Zenon DEF DecodeInv
<1>7. gdb' \in GdbStates /\ gdb'.packet = p /\ gdb'.sent = Append(gdb.sent, p)
  <2>1. gdb.sent \in Seq(Items) /\ gdb.resends \in Nat
    BY GdbFields
  <2>2. Append(gdb.sent, p) \in Seq(Items) /\ gdb.resends + 1 \in Nat
    BY <1>5, <2>1
  <2> QED BY <1>1, <1>2, <1>6, <2>2 DEF GdbStates
<1> QED BY <1>3, <1>4, <1>5, <1>7, SendKeepsDecodeInv

LEMMA GdbInterruptsKeepsDecodeInv ==
  ASSUME DecodeInv, GdbInterrupts
  PROVE  DecodeInv'
<1>1. PICK x : x = <<"^C">>
  OBVIOUS
<1>2. gdb' = [gdb EXCEPT !.interrupts = @ + 1, !.resends = MaxResends, !.sent = Append(@, x)]
  BY <1>1, Zenon DEF GdbInterrupts
<1>3. wire' = Append(wire, "^C") /\ UNCHANGED <<buffer, codec, decoded, out>> /\ gdb.waits = "stop"
  BY DEF GdbInterrupts
<1>4. gdb.packet \in Packets
  <2>1. gdb.waits # "nothing"
    BY <1>3
  <2> QED BY <2>1, Zenon DEF DecodeInv
<1>5. SentAs(x, <<"^C">>) /\ x \in Items
  BY <1>1, Zenon DEF SentAs, Items
<1>6. gdb \in GdbStates /\ MaxResends \in Nat
  BY GdbServerAssumption DEF DecodeInv
<1>7. gdb' \in GdbStates /\ gdb'.packet = gdb.packet /\ gdb'.sent = Append(gdb.sent, x)
  <2>1. gdb.sent \in Seq(Items) /\ gdb.interrupts \in Nat
    BY GdbFields
  <2>2. Append(gdb.sent, x) \in Seq(Items) /\ gdb.interrupts + 1 \in Nat
    BY <1>5, <2>1
  <2> QED BY <1>2, <1>6, <2>2 DEF GdbStates
<1>8. wire' = wire \o <<"^C">>
  <2>1. wire \in Seq(Chars)
    BY FollowsType, Zenon DEF DecodeInv
  <2>2. "^C" \in Chars
    BY Zenon DEF Chars
  <2>3. Append(wire, "^C") = wire \o <<"^C">>
    BY <2>1, <2>2
  <2> QED BY <1>3, <2>3
<1> QED BY <1>3, <1>4, <1>5, <1>7, <1>8, SendKeepsDecodeInv

LEMMA AcksValue ==
  ASSUME NEW m \in Seq(Messages), NEW e, e = Acks(m)
  PROVE  e \in Seq(Chars) /\ \A i \in 1..Len(e) : e[i] = "+"
<1>1. PICK n : n = Cardinality({i \in 1..Len(m) : m[i] # "ack"})
  OBVIOUS
<1>2. n \in Nat
  <2>1. IsFiniteSet(1..Len(m))
    BY FS_Interval
  <2>2. IsFiniteSet({i \in 1..Len(m) : m[i] # "ack"})
    BY <2>1, FS_Subset
  <2> QED BY <1>1, <2>2, FS_CardinalityType
<1>3. e = [i \in 1..n |-> "+"]
  BY <1>1, Zenon DEF Acks
<1>4. "+" \in Chars
  BY Zenon DEF Chars
<1> QED BY <1>2, <1>3, <1>4

LEMMA FlushKeepsDecodeInv ==
  ASSUME DecodeInv, Flush, UNCHANGED <<buffer, codec, decoded>>
  PROVE  DecodeInv'
<1>1. /\ out \in Seq(Messages) /\ decoded \in Seq(Items) /\ (\A i \in 1..Len(decoded) : decoded[i] = gdb.sent[i])
      /\ Follows(gdb.sent, buffer, wire, codec, Len(decoded)) /\ gdb \in GdbStates
      /\ (gdb.waits # "nothing" => gdb.packet \in Packets)
  BY Zenon DEF DecodeInv
<1>2. PICK e : e = Acks(out)
  OBVIOUS
<1>3. wire' = wire \o e /\ gdb' = GdbGetsAll(gdb, out) /\ out' = <<>>
  BY <1>2, Zenon DEF Flush
<1>4. e \in Seq(Chars) /\ \A i \in 1..Len(e) : e[i] = "+"
  BY <1>1, <1>2, AcksValue
<1>5. Heard(gdb, gdb')
  BY <1>1, <1>3, GdbGetsAllValue
<1>6. Follows(gdb.sent, buffer, wire \o e, codec, Len(decoded))
  BY <1>1, <1>4, FollowsAcks
<1>7. gdb' \in GdbStates /\ gdb'.sent = gdb.sent /\ (gdb'.waits # "nothing" => gdb'.packet \in Packets)
  BY <1>1, <1>5, Zenon DEF Heard
<1>8. decoded' = decoded /\ buffer' = buffer /\ codec' = codec /\ out' \in Seq(Messages)
  BY <1>3
<1> QED BY <1>1, <1>3, <1>6, <1>7, <1>8, Zenon DEF DecodeInv

LEMMA RecvKeepsDecodeInv ==
  ASSUME DecodeInv, recv
  PROVE  DecodeInv'
<1>1. /\ out \in Seq(Messages) /\ decoded \in Seq(Items) /\ (\A i \in 1..Len(decoded) : decoded[i] = gdb.sent[i])
      /\ Follows(gdb.sent, buffer, wire, codec, Len(decoded)) /\ gdb \in GdbStates
      /\ (gdb.waits # "nothing" => gdb.packet \in Packets)
  BY Zenon DEF DecodeInv
<1>2. PICK n \in 1..write_block(buffer) :
        n <= Len(wire) /\ buffer' = Received(buffer, wire, n) /\ wire' = SubSeq(wire, n + 1, Len(wire))
  BY Zenon DEF recv, Received
<1>3. Receives(buffer, wire, n, buffer')
  BY <1>1, <1>2, FollowsType, Zenon DEF Receives
<1>4. Follows(gdb.sent, buffer', wire', codec, Len(decoded))
  BY <1>1, <1>2, <1>3, FollowsRecv
<1>5. out' = out /\ decoded' = decoded /\ gdb' = gdb /\ codec' = codec
  BY DEF recv
<1> QED BY <1>1, <1>4, <1>5, Zenon DEF DecodeInv

(* An item is decoded when it is the next that was sent.                    *)
LEMMA DecodedGrows ==
  ASSUME NEW x, NEW d \in Seq(Items), NEW l \in Seq(Items), Len(d) + 1 <= Len(l), l[Len(d) + 1] = x,
         \A i \in 1..Len(d) : d[i] = l[i], NEW q, q = Append(d, x)
  PROVE  q \in Seq(Items) /\ Len(q) = Len(d) + 1 /\ \A i \in 1..Len(q) : q[i] = l[i]
<1>1. Len(d) \in Nat /\ Len(l) \in Nat /\ Len(d) + 1 \in 1..Len(l)
  OBVIOUS
<1>2. x \in Items
  BY <1>1
<1>3. q \in Seq(Items) /\ Len(q) = Len(d) + 1 /\ q[Len(d) + 1] = x /\ \A i \in 1..Len(d) : q[i] = d[i]
  BY <1>2
<1>4. \A i \in 1..Len(q) : i = Len(d) + 1 \/ i \in 1..Len(d)
  BY <1>1, <1>3
<1> QED BY <1>3, <1>4

LEMMA DecodeKeepsDecodeInv ==
  ASSUME DecodeInv, decode
  PROVE  DecodeInv'
<1>1. /\ out \in Seq(Messages) /\ decoded \in Seq(Items) /\ (\A i \in 1..Len(decoded) : decoded[i] = gdb.sent[i])
      /\ Follows(gdb.sent, buffer, wire, codec, Len(decoded)) /\ gdb \in GdbStates
      /\ (gdb.waits # "nothing" => gdb.packet \in Packets)
  BY Zenon DEF DecodeInv
<1>2. gdb' = gdb /\ wire' = wire /\ (decode_init \/ decode_leadin \/ decode_body \/ decode_crc)
  BY DEF decode
<1>3. PICK s : s = read_block(buffer)
  OBVIOUS
<1>4. CASE decode_init
  <2>1. Follows(gdb.sent, buffer, wire, reset_state, Len(decoded))
    BY <1>1, <1>4, FollowsReset, Zenon DEF decode_init
  <2>2. codec' = reset_state /\ buffer' = buffer /\ decoded' = decoded /\ out' = out
    BY <1>4 DEF decode_init
  <2> QED BY <1>1, <1>2, <2>1, <2>2, Zenon DEF DecodeInv
<1>5. CASE decode_leadin
  <2>1. codec.state = "LEADIN" /\ out' = out
    BY <1>5 DEF decode_leadin
  <2>2. CASE s = <<>>
    <3>1. buffer' = buffer /\ codec' = codec /\ decoded' = decoded
      BY <1>3, <1>5, <2>2 DEF decode_leadin
    <3> QED BY <1>1, <1>2, <2>1, <3>1, Zenon DEF DecodeInv
  <2>3. CASE s # <<>>
    <3>1. PICK l, n : l = gdb.sent /\ n = Len(decoded)
      OBVIOUS
    <3>2. /\ First(s, {"^C", "+", "$"}) = 1 /\ l \in Seq(Items)
          /\ \/ s[1] = "+" /\ Follows(l, commit_read(buffer, 1), wire, codec, n)
             \/ s[1] = "$" /\ Follows(l, commit_read(buffer, 1), wire, [codec EXCEPT !.state = "BODY"], n)
             \/ /\ s[1] = "^C" /\ n + 1 <= Len(l) /\ l[n + 1] = <<"^C">>
                /\ Follows(l, commit_read(buffer, 1), wire, codec, n + 1)
      <4>1. Follows(l, buffer, wire, codec, n)
        BY <1>1, <3>1
      <4> QED BY <1>3, <2>1, <2>3, <4>1, LeadinValue
    <3>3. PICK k : k = First(s, {"^C", "+", "$"})
      OBVIOUS
    <3>4. /\ buffer' = commit_read(buffer, k)
          /\ codec' = IF s[k] = "$" THEN [codec EXCEPT !.state = "BODY"] ELSE codec
          /\ decoded' = IF s[k] = "^C" THEN Append(decoded, <<"^C">>) ELSE decoded
      BY <1>3, <1>5, <2>3, <3>3, Zenon DEF decode_leadin
    <3>5. k = 1
      BY <3>2, <3>3
    <3>6. CASE s[1] = "+" /\ Follows(l, commit_read(buffer, 1), wire, codec, n)
      <4>1. codec' = codec /\ decoded' = decoded /\ buffer' = commit_read(buffer, 1)
        BY <3>4, <3>5, <3>6
      <4> QED BY <1>1, <1>2, <2>1, <3>1, <3>6, <4>1, Zenon DEF DecodeInv
    <3>7. CASE s[1] = "$" /\ Follows(l, commit_read(buffer, 1), wire, [codec EXCEPT !.state = "BODY"], n)
      <4>1. codec' = [codec EXCEPT !.state = "BODY"] /\ decoded' = decoded /\ buffer' = commit_read(buffer, 1)
        BY <3>4, <3>5, <3>7
      <4> QED BY <1>1, <1>2, <2>1, <3>1, <3>7, <4>1, Zenon DEF DecodeInv
    <3>8. CASE s[1] = "^C" /\ n + 1 <= Len(l) /\ l[n + 1] = <<"^C">> /\ Follows(l, commit_read(buffer, 1), wire, codec, n + 1)
      <4>1. PICK x : x = <<"^C">>
        OBVIOUS
      <4>2. codec' = codec /\ decoded' = Append(decoded, x) /\ buffer' = commit_read(buffer, 1)
        BY <3>4, <3>5, <3>8, <4>1
      <4>3. decoded' \in Seq(Items) /\ Len(decoded') = n + 1 /\ \A i \in 1..Len(decoded') : decoded'[i] = l[i]
        <5>1. l[n + 1] = x /\ n + 1 <= Len(l)
          BY <3>8, <4>1
        <5> QED BY <1>1, <3>1, <3>2, <4>2, <5>1, DecodedGrows
      <4> QED BY <1>1, <1>2, <2>1, <3>1, <3>8, <4>2, <4>3, Zenon DEF DecodeInv
    <3> QED BY <3>2, <3>6, <3>7, <3>8
  <2> QED BY <2>2, <2>3
<1>6. CASE decode_body
  <2>1. PICK a : a = scan_for_hash(s, codec.escaped)
    OBVIOUS
  <2>2. PICK c, d : /\ c = commit_read(buffer, IF a.found THEN a.n + 1 ELSE a.n)
                    /\ d = [state |-> IF a.found THEN "CRC" ELSE "BODY", pkt |-> Grown(codec.pkt, SubSeq(s, 1, a.n)),
                            escaped |-> a.escaped]
    OBVIOUS
  <2>3. codec.state = "BODY" /\ buffer' = c /\ codec' = d
    BY <1>3, <1>6, <2>1, <2>2, Zenon DEF decode_body
  <2>4. out' = out /\ decoded' = decoded
    BY <1>6 DEF decode_body
  <2>5. Follows(gdb.sent, c, wire, d, Len(decoded))
    BY <1>1, <1>3, <2>1, <2>2, <2>3, BodyValue
  <2> QED BY <1>1, <1>2, <2>3, <2>4, <2>5, Zenon DEF DecodeInv
<1>7. CASE decode_crc
  <2>1. codec.state = "CRC"
    BY <1>7 DEF decode_crc
  <2>2. CASE Len(s) < 2
    <3>1. buffer' = buffer /\ codec' = codec /\ decoded' = decoded /\ out' = out
      BY <1>3, <1>7, <2>2 DEF decode_crc
    <3> QED BY <1>1, <1>2, <3>1, Zenon DEF DecodeInv
  <2>3. CASE ~(Len(s) < 2)
    <3>1. PICK l, n, x : l = gdb.sent /\ n = Len(decoded) /\ x = deescape(codec.pkt)
      OBVIOUS
    <3>2. Len(s) >= 2
      <4>1. s \in Seq(Chars)
        BY <1>1, <1>3, FollowsType, ReadBlock
      <4> QED BY <2>3, <4>1
    <3>3. PICK d : d = [codec EXCEPT !.state = "INIT", !.pkt = deescape(@)]
      OBVIOUS
    <3>4. /\ verify_checksum(codec.pkt, SubSeq(s, 1, 2)) /\ l \in Seq(Items) /\ n + 1 <= Len(l) /\ x = l[n + 1]
          /\ Follows(l, commit_read(buffer, 2), wire, d, n + 1)
      <4>1. Follows(l, buffer, wire, codec, n)
        BY <1>1, <3>1
      <4>2. /\ verify_checksum(codec.pkt, SubSeq(s, 1, 2)) /\ l \in Seq(Items) /\ n + 1 <= Len(l)
            /\ deescape(codec.pkt) = l[n + 1]
            /\ Follows(l, commit_read(buffer, 2), wire, [codec EXCEPT !.state = "INIT", !.pkt = deescape(@)], n + 1)
        BY <1>3, <2>1, <3>2, <4>1, CrcValue
      <4> QED BY <3>1, <3>3, <4>2
    <3>5. buffer' = commit_read(buffer, 2) /\ codec' = d /\ decoded' = Append(decoded, x) /\ out' = Append(out, "ack")
      BY <1>3, <1>7, <2>3, <3>1, <3>3, <3>4, Zenon DEF decode_crc
    <3>6. decoded' \in Seq(Items) /\ Len(decoded') = n + 1 /\ \A i \in 1..Len(decoded') : decoded'[i] = l[i]
      BY <1>1, <3>1, <3>4, <3>5, DecodedGrows
    <3>7. out' \in Seq(Messages)
      <4>1. "ack" \in Messages
        BY DEF Messages
      <4> QED BY <1>1, <3>5, <4>1
    <3> QED BY <1>1, <1>2, <3>1, <3>4, <3>5, <3>6, <3>7, Zenon DEF DecodeInv
  <2> QED BY <2>2, <2>3
<1> QED BY <1>2, <1>4, <1>5, <1>6, <1>7

(* A step that sends nothing to the server and decodes nothing.             *)
LEMMA OtherKeepsDecodeInv ==
  ASSUME DecodeInv, UNCHANGED <<gdb, wire, buffer, codec, decoded>>, out' \in Seq(Messages)
  PROVE  DecodeInv'
<1>1. gdb' = gdb /\ wire' = wire /\ buffer' = buffer /\ codec' = codec /\ decoded' = decoded
  OBVIOUS
<1> QED BY <1>1, Zenon DEF DecodeInv

LEMMA OutAppend ==
  ASSUME DecodeInv, NEW m \in Messages
  PROVE  Append(out, m) \in Seq(Messages)
<1>1. out \in Seq(Messages)
  BY Zenon DEF DecodeInv
<1> QED BY <1>1

(* What the handling of a packet does to the output.                        *)
LEMMA CallbackOut ==
  ASSUME callback \/ v_packet_done
  PROVE  out' = out \/ \E m \in Messages : out' = Append(out, m)
<1>1. "data" \in Messages /\ "stop" \in Messages /\ "written" \in Messages /\ "OK" \in Messages
  BY DEF Messages
<1>2. query \/ io_access \/ ignored \/ cont \/ stepi \/ ctrlc \/ Send("OK", FALSE)
  BY Zenon DEF callback, v_packet_done
<1>3. CASE query
  BY <1>1, <1>3, Zenon DEF query, Send
<1>4. CASE io_access
  BY <1>1, <1>4 DEF io_access, Send, Silent
<1>5. CASE cont
  BY <1>5 DEF cont, Silent
<1>6. CASE stepi
  BY <1>6 DEF stepi
<1>7. CASE ctrlc
  BY <1>1, <1>7, Zenon DEF ctrlc, Send
<1>8. CASE Send("OK", FALSE)
  BY <1>1, <1>8, Zenon DEF Send
<1>9. CASE ignored
  BY <1>9 DEF ignored, Silent
<1> QED BY <1>2, <1>3, <1>4, <1>5, <1>6, <1>7, <1>8, <1>9

LEMMA NextKeepsDecodeInv ==
  ASSUME DecodeInv, [Next]_vars
  PROVE  DecodeInv'
<1>1. out \in Seq(Messages)
  BY Zenon DEF DecodeInv
<1>2. CASE decode
  BY <1>2, DecodeKeepsDecodeInv
<1>3. CASE callback \/ v_packet_done
  <2>1. UNCHANGED <<gdb, wire, buffer, codec, decoded>>
    BY <1>3 DEF callback, v_packet_done
  <2>2. out' \in Seq(Messages)
    BY <1>1, <1>3, CallbackOut, OutAppend
  <2> QED BY <2>1, <2>2, OtherKeepsDecodeInv
<1>4. CASE recv
  BY <1>4, RecvKeepsDecodeInv
<1>5. CASE recv_nothing
  <2>1. UNCHANGED <<gdb, wire, buffer, codec, decoded, out>>
    BY <1>5 DEF recv_nothing
  <2> QED BY <1>1, <2>1, OtherKeepsDecodeInv
<1>6. CASE rsp_send \/ engine_send
  <2>1. Flush /\ UNCHANGED <<buffer, codec, decoded>>
    BY <1>6 DEF rsp_send, engine_send
  <2> QED BY <2>1, FlushKeepsDecodeInv
<1>7. CASE \E p \in Packets : GdbSends(p)
  BY <1>7, GdbSendsKeepsDecodeInv
<1>8. CASE GdbResends
  BY <1>8, GdbResendsKeepsDecodeInv
<1>9. CASE GdbInterrupts
  BY <1>9, GdbInterruptsKeepsDecodeInv
<1>10. CASE StepEnds \/ handle
  <2>1. UNCHANGED <<gdb, wire, buffer, codec, decoded>>
    BY <1>10 DEF StepEnds, handle
  <2>2. "stop" \in Messages /\ "written" \in Messages /\ (out' = Append(out, "stop") \/ out' = Append(out, "written"))
    BY <1>10 DEF StepEnds, handle, Messages
  <2>3. out' \in Seq(Messages)
    BY <2>2, OutAppend
  <2> QED BY <2>1, <2>3, OtherKeepsDecodeInv
<1>11. CASE UNCHANGED vars
  <2>1. UNCHANGED <<gdb, wire, buffer, codec, decoded, out>>
    BY <1>11 DEF vars
  <2> QED BY <1>1, <2>1, OtherKeepsDecodeInv
<1> QED BY <1>2, <1>3, <1>4, <1>5, <1>6, <1>7, <1>8, <1>9, <1>10, <1>11, Zenon DEF Next

LEMMA InitDecodeInv ==
  ASSUME Init
  PROVE  DecodeInv
<1>1. PICK yes : yes = TRUE
  OBVIOUS
<1>2. gdb = [waits |-> "nothing", packet |-> <<>>, acked |-> yes, packets |-> 0, resends |-> 0, interrupts |-> 0, sent |-> <<>>]
  BY <1>1, Zenon DEF Init
<1>3. yes \in BOOLEAN
  BY <1>1, Zenon
<1>4. gdb \in GdbStates /\ gdb.waits = "nothing" /\ gdb.sent = <<>>
  BY <1>2, <1>3 DEF GdbStates
<1>5. out = <<>> /\ decoded = <<>> /\ codec = reset_state /\ wire = <<>>
  BY Zenon DEF Init
<1>6. Follows(<<>>, buffer, <<>>, reset_state, 0)
  BY FollowsNothing, Zenon DEF Init
<1>7. <<>> \in Seq(Messages) /\ <<>> \in Seq(Items) /\ Len(<<>>) = 0 /\ \A i \in 1..0 : decoded[i] = gdb.sent[i]
  OBVIOUS
<1> QED BY <1>4, <1>5, <1>6, <1>7, Zenon DEF DecodeInv

(* What is decoded is what was sent, and all of it when all is read.        *)
LEMMA DecodeInvDecodedIsSent ==
  ASSUME DecodeInv
  PROVE  DecodedIsSent
<1>1. PICK d, l : d = decoded /\ l = gdb.sent
  OBVIOUS
<1>2. d \in Seq(Items) /\ l \in Seq(Items) /\ Len(d) <= Len(l) /\ \A i \in 1..Len(d) : d[i] = l[i]
  <2>1. Follows(l, buffer, wire, codec, Len(d))
    BY <1>1, Zenon DEF DecodeInv
  <2>2. Len(d) <= Len(l)
    BY <2>1, FollowsType
  <2> QED BY <1>1, <2>2, GdbFields DEF DecodeInv
<1>3. IsPrefix(d, l)
  <2>1. SubSeq(d, 1, Len(d)) = d /\ SubSeq(l, 1, Len(d)) = d
    BY <1>2
  <2> QED BY <1>2, <2>1, Zenon DEF IsPrefix
<1>4. ASSUME wire = <<>>, is_empty(buffer), codec.state \in {"INIT", "LEADIN"} PROVE d = l
  <2>1. Follows(l, buffer, <<>>, codec, Len(d))
    BY <1>1, <1>4, Zenon DEF DecodeInv
  <2>2. Len(d) = Len(l)
    BY <1>4, <2>1, FollowsAll
  <2> QED BY <1>2, <2>2
<1> QED BY <1>1, <1>3, <1>4, Zenon DEF DecodedIsSent

(* What is decoded is what GDB sent, for any packets, any size of the       *)
(* circular buffer and any way the stream is cut.                           *)
THEOREM DecodedIsSentCorrect == Spec => []DecodedIsSent
<1>1. Init => DecodeInv
  BY InitDecodeInv
<1>2. DecodeInv /\ [Next]_vars => DecodeInv'
  BY NextKeepsDecodeInv
<1>3. DecodeInv => DecodedIsSent
  BY DecodeInvDecodedIsSent
<1> QED BY <1>1, <1>2, <1>3, PTL DEF Spec

-----------------------------------------------------------------------------
(* GDB takes the core for stopped only when it is.                          *)

(* No packet was sent twice and no Ctrl-C found the core halted.            *)
Quiet == ~answers.crossed /\ Len(gdb.sent) = gdb.packets + gdb.interrupts

(* The first of the items that were sent and are not handled.               *)
FirstLeft == IF rsp.pc = "handle" THEN Len(decoded) ELSE Len(decoded) + 1

(* The commands among them that make the core run.                          *)
Resumes == {i \in FirstLeft..Len(gdb.sent) : gdb.sent[i][1] \in {"c", "s"}}

(* A stop reply is in the output buffer.                                    *)
StopSent == \E i \in 1..Len(out) : out[i] = "stop"

RestType ==
  /\ core \in [halted : BOOLEAN, step_mode : BOOLEAN] /\ answers \in [refused : BOOLEAN, crossed : BOOLEAN]
  /\ rsp \in [pc : {"recv", "decode", "handle", "stepped", "send", "left"}, locked : BOOLEAN]
  /\ rsp.pc = "handle" => decoded # <<>>
  /\ Len(gdb.sent) >= gdb.packets + gdb.interrupts

(* GDB waits for a stop when the core runs, when it has yet to make it run, *)
(* and when a stop reply is on its way; a command to run finds the core     *)
(* halted and no such reply, and there is one such command at most.         *)
StopOK ==
  /\ gdb.waits # "stop" => core.halted /\ ~StopSent /\ Resumes = {}
  /\ Resumes # {} => core.halted /\ ~StopSent
  /\ StopSent => core.halted
  /\ \A i, j \in Resumes : i = j

StopInv == RestType /\ (Quiet => StopOK)

LEMMA StopSentKept ==
  ASSUME DecodeInv, out' = out \/ \E m \in Messages \ {"stop"} : out' = Append(out, m)
  PROVE  StopSent' <=> StopSent
<1>1. out \in Seq(Messages)
  BY Zenon DEF DecodeInv
<1>2. CASE out' = out
  BY <1>2 DEF StopSent
<1>3. CASE \E m \in Messages \ {"stop"} : out' = Append(out, m)
  <2>1. PICK m \in Messages \ {"stop"} : out' = Append(out, m)
    BY <1>3
  <2>2. /\ Len(out) \in Nat /\ Len(out') = Len(out) + 1 /\ out'[Len(out) + 1] # "stop"
        /\ \A i \in 1..Len(out) : out'[i] = out[i]
    BY <1>1, <2>1
  <2>3. \A i \in 1..Len(out') : i = Len(out) + 1 \/ i \in 1..Len(out)
    BY <2>2
  <2>4. \A i \in 1..Len(out) : i \in 1..Len(out')
    BY <2>2
  <2> QED BY <2>2, <2>3, <2>4 DEF StopSent
<1> QED BY <1>2, <1>3

LEMMA StopSentAppend ==
  ASSUME DecodeInv, out' = Append(out, "stop")
  PROVE  StopSent'
<1>1. out \in Seq(Messages) /\ "stop" \in Messages
  BY Zenon DEF DecodeInv, Messages
<1>2. Len(out) \in Nat /\ Len(out') = Len(out) + 1 /\ out'[Len(out) + 1] = "stop"
  BY <1>1
<1>3. Len(out) + 1 \in 1..Len(out')
  BY <1>2
<1> QED BY <1>2, <1>3 DEF StopSent

(* A step that changes none of this.                                        *)
LEMMA OtherKeepsStopInv ==
  ASSUME StopInv, RestType', gdb' = gdb, core'.halted = core.halted, answers'.crossed = answers.crossed,
         Resumes' = Resumes, StopSent' <=> StopSent
  PROVE  StopInv'
<1>1. Quiet' <=> Quiet
  BY DEF Quiet
<1>2. StopOK' <=> StopOK
  BY DEF StopOK
<1> QED BY <1>1, <1>2 DEF StopInv

LEMMA LeftKept ==
  ASSUME gdb'.sent = gdb.sent, FirstLeft' = FirstLeft
  PROVE  Resumes' = Resumes
BY DEF Resumes

(* What the thread handles is the last item that it decoded.                *)
LEMMA Handled ==
  ASSUME DecodeInv, StopInv, rsp.pc = "handle", rsp'.pc # "handle", decoded' = decoded, gdb' = gdb, NEW p, p = Last(decoded)
  PROVE  /\ p[1] \notin {"c", "s"} => Resumes' = Resumes
         /\ p[1] \in {"c", "s"} => Len(decoded) \in Resumes /\ Resumes' = Resumes \ {Len(decoded)}
<1>1. PICK n, l : n = Len(decoded) /\ l = gdb.sent
  OBVIOUS
<1>2. decoded \in Seq(Items) /\ l \in Seq(Items) /\ n \in Nat \ {0} /\ n <= Len(l) /\ p = l[n]
  <2>1. decoded \in Seq(Items) /\ decoded # <<>> /\ Follows(l, buffer, wire, codec, n)
    BY <1>1, Zenon DEF DecodeInv, StopInv, RestType
  <2>2. n <= Len(l)
    BY <2>1, FollowsType
  <2>3. n \in Nat \ {0} /\ n \in 1..Len(decoded)
    BY <1>1, <2>1
  <2>4. decoded[n] = l[n]
    BY <1>1, <2>3, Zenon DEF DecodeInv
  <2>5. p = decoded[n]
    BY <1>1, Zenon DEF Last
  <2> QED BY <1>1, <2>1, <2>2, <2>3, <2>4, <2>5, GdbFields
<1>3. Resumes = {i \in n..Len(l) : l[i][1] \in {"c", "s"}} /\ Resumes' = {i \in (n + 1)..Len(l) : l[i][1] \in {"c", "s"}}
  <2>1. FirstLeft = n /\ FirstLeft' = n + 1
    BY <1>1 DEF FirstLeft
  <2> QED BY <1>1, <2>1, Zenon DEF Resumes
<1>4. n \in n..Len(l) /\ n \notin (n + 1)..Len(l) /\ \A i \in n..Len(l) : i = n \/ i \in (n + 1)..Len(l)
  BY <1>2
<1>5. \A i \in (n + 1)..Len(l) : i \in n..Len(l)
  BY <1>2
<1>6. CASE p[1] \notin {"c", "s"}
  <2>1. l[n][1] \notin {"c", "s"}
    BY <1>2, <1>6, Zenon
  <2>2. Resumes' = Resumes
    BY <1>3, <1>4, <1>5, <2>1
  <2> QED BY <1>6, <2>2, Zenon
<1>7. CASE p[1] \in {"c", "s"}
  <2>1. l[n][1] \in {"c", "s"}
    BY <1>2, <1>7, Zenon
  <2>2. n \in Resumes /\ Resumes' = Resumes \ {n}
    BY <1>3, <1>4, <1>5, <2>1
  <2> QED BY <1>1, <1>7, <2>2, Zenon
<1> QED BY <1>6, <1>7

LEMMA DecodeKeepsStopInv ==
  ASSUME DecodeInv, StopInv, decode
  PROVE  StopInv'
<1>1. gdb' = gdb /\ core' = core /\ answers' = answers /\ rsp.pc = "decode"
  BY DEF decode
<1>2. rsp \in [pc : {"recv", "decode", "handle", "stepped", "send", "left"}, locked : BOOLEAN]
  BY Zenon DEF StopInv, RestType
<1>3. \/ out' = out
      \/ out' = Append(out, "ack")
  BY Zenon DEF decode, decode_init, decode_leadin, decode_body, decode_crc
<1>4. \/ decoded' = decoded /\ (rsp' = rsp \/ rsp' = [rsp EXCEPT !.pc = "recv"])
      \/ (\E x : decoded' = Append(decoded, x)) /\ rsp' = [rsp EXCEPT !.pc = "handle"]
  <2>1. CASE decode_init
    BY <2>1 DEF decode_init
  <2>2. CASE decode_leadin
    BY <2>2, Zenon DEF decode_leadin
  <2>3. CASE decode_body
    BY <2>3, Zenon DEF decode_body
  <2>4. CASE decode_crc
    BY <2>4, Zenon DEF decode_crc
  <2> QED BY <2>1, <2>2, <2>3, <2>4, Zenon DEF decode
<1>5. decoded \in Seq(Items) /\ Len(decoded) \in Nat
  <2>1. decoded \in Seq(Items)
    BY Zenon DEF DecodeInv
  <2> QED BY <2>1
<1>6. /\ rsp' \in [pc : {"recv", "decode", "handle", "stepped", "send", "left"}, locked : BOOLEAN]
      /\ rsp'.pc = "handle" => decoded' # <<>>
      /\ FirstLeft' = FirstLeft
  <2>1. CASE decoded' = decoded /\ (rsp' = rsp \/ rsp' = [rsp EXCEPT !.pc = "recv"])
    <3>1. rsp'.pc # "handle" /\ rsp' \in [pc : {"recv", "decode", "handle", "stepped", "send", "left"}, locked : BOOLEAN]
      BY <1>1, <1>2, <2>1
    <3>2. FirstLeft' = FirstLeft
      BY <1>1, <2>1, <3>1 DEF FirstLeft
    <3> QED BY <3>1, <3>2
  <2>2. CASE (\E x : decoded' = Append(decoded, x)) /\ rsp' = [rsp EXCEPT !.pc = "handle"]
    <3>1. rsp'.pc = "handle" /\ rsp' \in [pc : {"recv", "decode", "handle", "stepped", "send", "left"}, locked : BOOLEAN]
      BY <1>2, <2>2
    <3>2. Len(decoded') = Len(decoded) + 1 /\ decoded' # <<>>
      BY <1>5, <2>2
    <3>3. FirstLeft' = FirstLeft
      BY <1>1, <3>1, <3>2 DEF FirstLeft
    <3> QED BY <3>1, <3>2, <3>3
  <2> QED BY <1>4, <2>1, <2>2
<1>7. RestType'
  BY <1>1, <1>6, Zenon DEF StopInv, RestType
<1>8. StopSent' <=> StopSent
  <2>1. "ack" \in Messages \ {"stop"}
    BY DEF Messages
  <2> QED BY <1>3, <2>1, StopSentKept
<1>9. Resumes' = Resumes
  BY <1>1, <1>6, LeftKept
<1> QED BY <1>1, <1>7, <1>8, <1>9, OtherKeepsStopInv

Threads == [pc : {"recv", "decode", "handle", "stepped", "send", "left"}, locked : BOOLEAN]

LEMMA RestFields ==
  ASSUME StopInv
  PROVE  /\ core \in [halted : BOOLEAN, step_mode : BOOLEAN] /\ answers \in [refused : BOOLEAN, crossed : BOOLEAN]
         /\ rsp \in Threads /\ core.halted \in BOOLEAN /\ answers.crossed \in BOOLEAN
<1>1. /\ core \in [halted : BOOLEAN, step_mode : BOOLEAN] /\ answers \in [refused : BOOLEAN, crossed : BOOLEAN]
      /\ rsp \in Threads
  BY Zenon DEF StopInv, RestType, Threads
<1> QED BY <1>1

(* The thread is at another place after a packet is handled.                *)
LEMMA ThreadMoves ==
  ASSUME rsp \in Threads, Silent \/ \E m, k : k \in BOOLEAN /\ Send(m, k)
  PROVE  rsp' \in Threads /\ rsp'.pc # "handle"
<1>1. CASE Silent
  <2>1. PICK x : x = Returns
    OBVIOUS
  <2>2. x \in {"recv", "decode"}
    BY <2>1 DEF Returns
  <2>3. rsp' = [rsp EXCEPT !.pc = x]
    BY <1>1, <2>1, Zenon DEF Silent
  <2> QED BY <2>2, <2>3 DEF Threads
<1>2. CASE \E m, k : k \in BOOLEAN /\ Send(m, k)
  <2>1. PICK m, k : k \in BOOLEAN /\ Send(m, k)
    BY <1>2
  <2>2. rsp' = [rsp EXCEPT !.pc = "send", !.locked = k]
    BY <2>1, Zenon DEF Send
  <2> QED BY <2>1, <2>2 DEF Threads
<1> QED BY <1>1, <1>2

LEMMA RestKept ==
  ASSUME StopInv, gdb' = gdb, core' \in [halted : BOOLEAN, step_mode : BOOLEAN],
         answers' \in [refused : BOOLEAN, crossed : BOOLEAN], rsp' \in Threads, rsp'.pc # "handle"
  PROVE  RestType'
BY Zenon DEF StopInv, RestType, Threads

(* A packet is handled that neither makes the core run nor halts it.        *)
LEMMA QuietHandled ==
  ASSUME DecodeInv, StopInv, callback, query \/ io_access \/ ignored,
         Last(decoded)[1] \in {"q", "X", "m"}
  PROVE  StopInv'
<1>1. rsp.pc = "handle" /\ gdb' = gdb /\ decoded' = decoded
  BY DEF callback
<1>2. "data" \in Messages \ {"stop"} /\ "written" \in Messages \ {"stop"}
  BY DEF Messages
<1>3. core' = core
  BY DEF query, io_access, ignored
<1>4. out' = out \/ \E m \in Messages \ {"stop"} : out' = Append(out, m)
  <2>1. CASE query
    BY <1>2, <2>1, Zenon DEF query, Send
  <2>2. CASE io_access
    BY <1>2, <2>2 DEF io_access, Send, Silent
  <2>3. CASE ignored
    BY <2>3 DEF ignored, Silent
  <2> QED BY <2>1, <2>2, <2>3
<1>5. Silent \/ \E m, k : k \in BOOLEAN /\ Send(m, k)
  <2>1. CASE query
    BY <2>1, Zenon DEF query
  <2>2. CASE io_access
    BY <2>2, Zenon DEF io_access
  <2>3. CASE ignored
    BY <2>3, Zenon DEF ignored
  <2> QED BY <2>1, <2>2, <2>3
<1>6. rsp' \in Threads /\ rsp'.pc # "handle"
  BY <1>5, RestFields, ThreadMoves
<1>7. answers' \in [refused : BOOLEAN, crossed : BOOLEAN] /\ answers'.crossed = answers.crossed
  <2>1. PICK yes : yes = TRUE
    OBVIOUS
  <2>2. answers' = answers \/ answers' = [answers EXCEPT !.refused = yes]
    BY <2>1, Zenon DEF query, io_access, ignored
  <2>3. yes \in BOOLEAN
    BY <2>1, Zenon
  <2> QED BY <2>2, <2>3, RestFields
<1>8. RestType'
  BY <1>1, <1>3, <1>6, <1>7, RestFields, RestKept
<1>9. StopSent' <=> StopSent
  BY <1>4, StopSentKept
<1>10. Resumes' = Resumes
  <2>1. PICK p : p = Last(decoded)
    OBVIOUS
  <2>2. p[1] \notin {"c", "s"}
    BY <2>1
  <2> QED BY <1>1, <1>6, <2>1, <2>2, Handled
<1> QED BY <1>1, <1>3, <1>7, <1>8, <1>9, <1>10, OtherKeepsStopInv

(* The core runs: it was halted and GDB waits for it to stop.               *)
LEMMA ResumeHandled ==
  ASSUME DecodeInv, StopInv, callback, cont \/ stepi, Last(decoded)[1] \in {"c", "s"}
  PROVE  StopInv'
<1>1. rsp.pc = "handle" /\ gdb' = gdb /\ decoded' = decoded
  BY DEF callback
<1>2. answers' = answers /\ out' = out
  BY DEF cont, stepi, Silent
<1>3. PICK yes, no : yes = TRUE /\ no = FALSE
  OBVIOUS
<1>4. yes \in BOOLEAN /\ no \in BOOLEAN
  BY <1>3, Zenon
<1>5. core' = [core EXCEPT !.halted = no] \/ core' = [halted |-> no, step_mode |-> yes]
  BY <1>3, Zenon DEF cont, stepi
<1>6. core' \in [halted : BOOLEAN, step_mode : BOOLEAN] /\ core'.halted = no
  BY <1>4, <1>5, RestFields
<1>7. rsp' \in Threads /\ rsp'.pc # "handle"
  <2>1. CASE cont
    <3>1. Silent
      BY <2>1, Zenon DEF cont
    <3> QED BY <3>1, RestFields, ThreadMoves
  <2>2. CASE stepi
    <3>1. rsp' = [rsp EXCEPT !.pc = "stepped"]
      BY <2>2, Zenon DEF stepi
    <3> QED BY <3>1, RestFields DEF Threads
  <2> QED BY <2>1, <2>2
<1>8. RestType'
  BY <1>1, <1>2, <1>6, <1>7, RestFields, RestKept
<1>9. PICK n : n = Len(decoded)
  OBVIOUS
<1>10. n \in Resumes /\ Resumes' = Resumes \ {n}
  <2>1. PICK p : p = Last(decoded)
    OBVIOUS
  <2>2. p[1] \in {"c", "s"}
    BY <2>1
  <2> QED BY <1>1, <1>7, <1>9, <2>1, <2>2, Handled
<1>11. StopSent' <=> StopSent
  BY <1>2, StopSentKept
<1>12. ASSUME Quiet' PROVE StopOK'
  <2>1. Quiet
    BY <1>1, <1>2, <1>12 DEF Quiet
  <2>2. StopOK
    BY <2>1, Zenon DEF StopInv
  <2>3. ~StopSent /\ gdb.waits = "stop" /\ \A i, j \in Resumes : i = j
    BY <1>10, <2>2, Zenon DEF StopOK
  <2>4. Resumes' = {}
    BY <1>10, <2>3, Zenon
  <2>5. ~StopSent' /\ gdb'.waits = "stop"
    BY <1>1, <1>11, <2>3, Zenon
  <2> QED BY <2>4, <2>5 DEF StopOK
<1> QED BY <1>8, <1>12, Zenon DEF StopInv

(* A Ctrl-C halts a core that runs.                                         *)
LEMMA CtrlcHandled ==
  ASSUME DecodeInv, StopInv, callback, ctrlc, Last(decoded)[1] = "^C"
  PROVE  StopInv'
<1>1. rsp.pc = "handle" /\ gdb' = gdb /\ decoded' = decoded
  BY DEF callback
<1>2. out' = Append(out, "stop")
  BY Zenon DEF ctrlc, Send
<1>3. PICK yes : yes = TRUE
  OBVIOUS
<1>4. yes \in BOOLEAN
  BY <1>3, Zenon
<1>5. core' \in [halted : BOOLEAN, step_mode : BOOLEAN] /\ core'.halted = yes
  <2>1. core' = [core EXCEPT !.halted = yes]
    BY <1>3, Zenon DEF ctrlc
  <2> QED BY <1>4, <2>1, RestFields
<1>6. PICK x : x = (answers.crossed \/ core.halted)
  OBVIOUS
<1>7. answers' \in [refused : BOOLEAN, crossed : BOOLEAN] /\ answers'.crossed = x
  <2>1. answers' = [answers EXCEPT !.crossed = x]
    BY <1>6, Zenon DEF ctrlc
  <2>2. x \in BOOLEAN
    BY <1>6, Zenon
  <2> QED BY <2>1, <2>2, RestFields
<1>8. rsp' \in Threads /\ rsp'.pc # "handle"
  <2>1. \E m, k : k \in BOOLEAN /\ Send(m, k)
    BY Zenon DEF ctrlc
  <2> QED BY <2>1, RestFields, ThreadMoves
<1>9. RestType'
  BY <1>1, <1>5, <1>7, <1>8, RestKept
<1>10. Resumes' = Resumes
  <2>1. PICK p : p = Last(decoded)
    OBVIOUS
  <2>2. p[1] \notin {"c", "s"}
    BY <2>1
  <2> QED BY <1>1, <1>8, <2>1, <2>2, Handled
<1>11. ASSUME Quiet' PROVE StopOK'
  <2>1. ~x /\ Len(gdb.sent) = gdb.packets + gdb.interrupts
    BY <1>1, <1>7, <1>11, Zenon DEF Quiet
  <2>2. Quiet /\ ~core.halted
    BY <1>6, <2>1, Zenon DEF Quiet
  <2>3. StopOK
    BY <2>2, Zenon DEF StopInv
  <2>4. gdb.waits = "stop" /\ Resumes = {}
    BY <2>2, <2>3, Zenon DEF StopOK
  <2>5. gdb'.waits = "stop" /\ Resumes' = {} /\ core'.halted
    BY <1>1, <1>3, <1>5, <1>10, <2>4, Zenon
  <2> QED BY <2>5, Zenon DEF StopOK
<1> QED BY <1>9, <1>11, Zenon DEF StopInv

LEMMA CallbackKeepsStopInv ==
  ASSUME DecodeInv, StopInv, callback
  PROVE  StopInv'
<1>1. PICK p : p = Last(decoded)
  OBVIOUS
<1>2. \/ p[1] = "q" /\ query
      \/ p[1] = "X" /\ io_access
      \/ (p[1] = "m" \/ p[1] = "X") /\ ignored
      \/ p[1] = "c" /\ cont
      \/ p[1] = "s" /\ stepi
      \/ p[1] = "^C" /\ ctrlc
  BY <1>1, Zenon DEF callback, Unanswerable
<1>3. CASE p[1] \in {"q", "X", "m"} /\ (query \/ io_access \/ ignored)
  BY <1>1, <1>3, QuietHandled
<1>4. CASE p[1] \in {"c", "s"} /\ (cont \/ stepi)
  BY <1>1, <1>4, ResumeHandled
<1>5. CASE p[1] = "^C" /\ ctrlc
  BY <1>1, <1>5, CtrlcHandled
<1> QED BY <1>2, <1>3, <1>4, <1>5

(* GDB sends.                                                               *)
LEMMA SentGrows ==
  ASSUME DecodeInv, StopInv, NEW x, gdb'.sent = Append(gdb.sent, x), UNCHANGED <<decoded, rsp>>
  PROVE  /\ Len(gdb'.sent) = Len(gdb.sent) + 1 /\ Len(gdb.sent) \in Nat
         /\ x[1] \notin {"c", "s"} => Resumes' = Resumes
         /\ x[1] \in {"c", "s"} => Resumes' = Resumes \cup {Len(gdb.sent) + 1}
<1>1. PICK l, m, f : l = gdb.sent /\ m = Append(l, x) /\ f = FirstLeft
  OBVIOUS
<1>2. l \in Seq(Items) /\ Len(l) \in Nat /\ Len(m) = Len(l) + 1 /\ m[Len(l) + 1] = x /\ \A i \in 1..Len(l) : m[i] = l[i]
  BY <1>1, GdbFields
<1>3. Len(decoded) \in Nat /\ Len(decoded) <= Len(l) /\ decoded \in Seq(Items)
  BY <1>1, FollowsType, Zenon DEF DecodeInv
<1>4. f \in Nat \ {0} /\ f <= Len(l) + 1 /\ FirstLeft' = f
  <2>1. rsp.pc = "handle" => decoded # <<>>
    BY Zenon DEF StopInv, RestType
  <2>2. decoded # <<>> => Len(decoded) > 0
    BY <1>3
  <2> QED BY <1>1, <1>2, <1>3, <2>1, <2>2 DEF FirstLeft
<1>5. Resumes = {i \in f..Len(l) : l[i][1] \in {"c", "s"}} /\ Resumes' = {i \in f..Len(m) : m[i][1] \in {"c", "s"}}
  BY <1>1, <1>4, Zenon DEF Resumes
<1>6. /\ \A i \in f..Len(l) : i \in f..Len(m) /\ m[i] = l[i]
      /\ \A i \in f..Len(m) : i = Len(m) \/ i \in f..Len(l)
      /\ Len(m) \in f..Len(m)
  BY <1>2, <1>4
<1>7. CASE x[1] \notin {"c", "s"}
  <2>1. m[Len(m)][1] \notin {"c", "s"}
    BY <1>2, <1>7
  <2>2. Resumes' = Resumes
    BY <1>5, <1>6, <2>1
  <2> QED BY <1>1, <1>2, <1>7, <2>2
<1>8. CASE x[1] \in {"c", "s"}
  <2>1. m[Len(m)][1] \in {"c", "s"}
    BY <1>2, <1>8
  <2>2. Resumes' = Resumes \cup {Len(m)}
    BY <1>5, <1>6, <2>1
  <2> QED BY <1>1, <1>2, <1>8, <2>2
<1> QED BY <1>7, <1>8

LEMMA GdbSendsKeepsStopInv ==
  ASSUME DecodeInv, StopInv, NEW p \in Packets, GdbSends(p)
  PROVE  StopInv'
<1>1. PICK x, no : x = Expects(p) /\ no = FALSE
  OBVIOUS
<1>2. gdb' = [gdb EXCEPT !.waits = x, !.packet = p, !.acked = no, !.packets = @ + 1, !.sent = Append(@, p)]
  BY <1>1, Zenon DEF GdbSends
<1>3. decoded' = decoded /\ rsp' = rsp /\ out' = out /\ core' = core /\ answers' = answers /\ gdb.waits = "nothing"
  BY DEF GdbSends
<1>4. gdb \in GdbStates
  BY Zenon DEF DecodeInv
<1>5. /\ gdb'.waits = x /\ gdb'.packets = gdb.packets + 1 /\ gdb'.interrupts = gdb.interrupts
      /\ gdb'.sent = Append(gdb.sent, p)
  BY <1>2, <1>4 DEF GdbStates
<1>6. /\ Len(gdb'.sent) = Len(gdb.sent) + 1 /\ Len(gdb.sent) \in Nat
      /\ p[1] \notin {"c", "s"} => Resumes' = Resumes
      /\ p[1] \in {"c", "s"} => Resumes' = Resumes \cup {Len(gdb.sent) + 1}
  BY <1>3, <1>5, SentGrows
<1>7. gdb.packets \in Nat /\ gdb.interrupts \in Nat /\ Len(gdb.sent) >= gdb.packets + gdb.interrupts
  BY GdbFields DEF StopInv, RestType
<1>8. RestType'
  <2>1. Len(gdb'.sent) >= gdb'.packets + gdb'.interrupts
    BY <1>5, <1>6, <1>7
  <2> QED BY <1>3, <2>1, Zenon DEF StopInv, RestType
<1>9. StopSent' <=> StopSent
  BY <1>3, StopSentKept
<1>10. ASSUME Quiet' PROVE StopOK'
  <2>1. ~answers'.crossed /\ Len(gdb'.sent) = gdb'.packets + gdb'.interrupts
    BY <1>10, Zenon DEF Quiet
  <2>2. Len(gdb.sent) = gdb.packets + gdb.interrupts
    <3>1. PICK a, b, c : a = Len(gdb.sent) /\ b = gdb.packets /\ c = gdb.interrupts
      OBVIOUS
    <3>2. a + 1 = (b + 1) + c
      BY <1>5, <1>6, <2>1, <3>1, Zenon
    <3>3. a \in Nat /\ b \in Nat /\ c \in Nat
      BY <1>6, <1>7, <3>1
    <3>4. a = b + c
      BY <3>2, <3>3
    <3> QED BY <3>1, <3>4
  <2>3. Quiet
    BY <1>3, <2>1, <2>2, Zenon DEF Quiet
  <2>4. core.halted /\ ~StopSent /\ Resumes = {}
    <3>1. gdb.waits # "stop"
      BY <1>3
    <3> QED BY <2>3, <3>1, Zenon DEF StopInv, StopOK
  <2>5. core'.halted /\ ~StopSent'
    BY <1>3, <1>9, <2>4, Zenon
  <2>6. CASE p[1] \notin {"c", "s"}
    <3>1. Resumes' = {}
      BY <1>6, <2>4, <2>6
    <3> QED BY <2>5, <3>1, Zenon DEF StopOK
  <2>7. CASE p[1] \in {"c", "s"}
    <3>1. Resumes' = {Len(gdb.sent) + 1}
      BY <1>6, <2>4, <2>7
    <3>2. gdb'.waits = "stop"
      BY <1>1, <1>5, <2>7, ExpectsValue
    <3>3. \A i, j \in Resumes' : i = j
      BY <3>1, Zenon
    <3> QED BY <2>5, <3>2, <3>3, Zenon DEF StopOK
  <2> QED BY <2>6, <2>7
<1> QED BY <1>8, <1>10, Zenon DEF StopInv

LEMMA GdbResendsKeepsStopInv ==
  ASSUME DecodeInv, StopInv, GdbResends
  PROVE  StopInv'
<1>1. PICK p : p = gdb.packet
  OBVIOUS
<1>2. gdb' = [gdb EXCEPT !.resends = @ + 1, !.sent = Append(@, p)]
  BY <1>1, Zenon DEF GdbResends
<1>3. decoded' = decoded /\ rsp' = rsp /\ core' = core /\ answers' = answers
  BY DEF GdbResends
<1>4. gdb \in GdbStates
  BY Zenon DEF DecodeInv
<1>5. gdb'.packets = gdb.packets /\ gdb'.interrupts = gdb.interrupts /\ gdb'.sent = Append(gdb.sent, p)
  BY <1>2, <1>4 DEF GdbStates
<1>6. Len(gdb'.sent) = Len(gdb.sent) + 1 /\ Len(gdb.sent) \in Nat
  BY <1>3, <1>5, SentGrows
<1>7. gdb.packets \in Nat /\ gdb.interrupts \in Nat /\ Len(gdb.sent) >= gdb.packets + gdb.interrupts
  BY GdbFields DEF StopInv, RestType
<1>8. Len(gdb'.sent) >= gdb'.packets + gdb'.interrupts /\ Len(gdb'.sent) # gdb'.packets + gdb'.interrupts
  BY <1>5, <1>6, <1>7
<1>9. RestType' /\ ~Quiet'
  BY <1>3, <1>8, Zenon DEF StopInv, RestType, Quiet
<1> QED BY <1>9, Zenon DEF StopInv

LEMMA GdbInterruptsKeepsStopInv ==
  ASSUME DecodeInv, StopInv, GdbInterrupts
  PROVE  StopInv'
<1>1. PICK x : x = <<"^C">>
  OBVIOUS
<1>2. gdb' = [gdb EXCEPT !.interrupts = @ + 1, !.resends = MaxResends, !.sent = Append(@, x)]
  BY <1>1, Zenon DEF GdbInterrupts
<1>3. decoded' = decoded /\ rsp' = rsp /\ out' = out /\ core' = core /\ answers' = answers
  BY DEF GdbInterrupts
<1>4. gdb \in GdbStates
  BY Zenon DEF DecodeInv
<1>5. /\ gdb'.waits = gdb.waits /\ gdb'.packets = gdb.packets /\ gdb'.interrupts = gdb.interrupts + 1
      /\ gdb'.sent = Append(gdb.sent, x)
  BY <1>2, <1>4 DEF GdbStates
<1>6. Len(gdb'.sent) = Len(gdb.sent) + 1 /\ Len(gdb.sent) \in Nat /\ Resumes' = Resumes
  <2>1. x[1] \notin {"c", "s"}
    BY <1>1
  <2> QED BY <1>3, <1>5, <2>1, SentGrows
<1>7. gdb.packets \in Nat /\ gdb.interrupts \in Nat /\ Len(gdb.sent) >= gdb.packets + gdb.interrupts
  BY GdbFields DEF StopInv, RestType
<1>8. RestType'
  <2>1. Len(gdb'.sent) >= gdb'.packets + gdb'.interrupts
    BY <1>5, <1>6, <1>7
  <2> QED BY <1>3, <2>1, Zenon DEF StopInv, RestType
<1>9. StopSent' <=> StopSent
  BY <1>3, StopSentKept
<1>10. ASSUME Quiet' PROVE StopOK'
  <2>1. ~answers'.crossed /\ Len(gdb'.sent) = gdb'.packets + gdb'.interrupts
    BY <1>10, Zenon DEF Quiet
  <2>2. Len(gdb.sent) = gdb.packets + gdb.interrupts
    <3>1. PICK a, b, c : a = Len(gdb.sent) /\ b = gdb.packets /\ c = gdb.interrupts
      OBVIOUS
    <3>2. a + 1 = b + (c + 1)
      BY <1>5, <1>6, <2>1, <3>1, Zenon
    <3>3. a \in Nat /\ b \in Nat /\ c \in Nat
      BY <1>6, <1>7, <3>1
    <3>4. a = b + c
      BY <3>2, <3>3
    <3> QED BY <3>1, <3>4
  <2>3. Quiet
    BY <1>3, <2>1, <2>2, Zenon DEF Quiet
  <2>4. StopOK
    BY <2>3, Zenon DEF StopInv
  <2> QED BY <1>3, <1>5, <1>6, <1>9, <2>4, Zenon DEF StopOK
<1> QED BY <1>8, <1>10, Zenon DEF StopInv

(* GDB gets what is in the output buffer: its wait for a stop ends when the *)
(* core is halted.                                                          *)
LEMMA FlushKeepsStopInv ==
  ASSUME DecodeInv, StopInv, Flush, UNCHANGED <<decoded, core, answers>>, rsp' = rsp \/ (rsp' \in Threads /\ rsp.pc # "handle" /\ rsp'.pc # "handle")
  PROVE  StopInv'
<1>1. gdb \in GdbStates /\ out \in Seq(Messages)
  BY Zenon DEF DecodeInv
<1>2. gdb' = GdbGetsAll(gdb, out) /\ out' = <<>>
  BY Zenon DEF Flush
<1>3. Heard(gdb, gdb') /\ ((\A i \in 1..Len(out) : out[i] # gdb.waits) => gdb'.waits = gdb.waits)
  BY <1>1, <1>2, GdbGetsAllValue
<1>4. /\ gdb'.sent = gdb.sent /\ gdb'.packets = gdb.packets /\ gdb'.interrupts = gdb.interrupts
      /\ gdb'.waits \in {gdb.waits, "nothing"}
  BY <1>3, Zenon DEF Heard
<1>5. decoded' = decoded /\ core' = core /\ answers' = answers
  OBVIOUS
<1>6. FirstLeft' = FirstLeft
  BY <1>5 DEF FirstLeft
<1>7. Resumes' = Resumes
  BY <1>4, <1>6, LeftKept
<1>8. ~StopSent'
  BY <1>2 DEF StopSent
<1>9. RestType'
  BY <1>4, <1>5, Zenon DEF StopInv, RestType, Threads
<1>10. ASSUME Quiet' PROVE StopOK'
  <2>1. Quiet
    BY <1>4, <1>5, <1>10, Zenon DEF Quiet
  <2>2. StopOK
    BY <2>1, Zenon DEF StopInv
  <2>3. ASSUME gdb'.waits # "stop" PROVE core.halted /\ Resumes = {}
    <3>1. CASE gdb.waits = "stop"
      <4>1. StopSent
        BY <1>3, <2>3, <3>1, Zenon DEF StopSent
      <4> QED BY <2>2, <4>1, Zenon DEF StopOK
    <3>2. CASE gdb.waits # "stop"
      BY <2>2, <3>2, Zenon DEF StopOK
    <3> QED BY <3>1, <3>2
  <2> QED BY <1>5, <1>7, <1>8, <2>2, <2>3, Zenon DEF StopOK
<1> QED BY <1>9, <1>10, Zenon DEF StopInv

(* The core halts after its step: it ran.                                   *)
LEMMA StepEndsKeepsStopInv ==
  ASSUME DecodeInv, StopInv, StepEnds
  PROVE  StopInv'
<1>1. gdb' = gdb /\ decoded' = decoded /\ rsp' = rsp /\ answers' = answers /\ out' = Append(out, "stop")
  BY DEF StepEnds
<1>2. PICK yes : yes = TRUE
  OBVIOUS
<1>3. yes \in BOOLEAN
  BY <1>2, Zenon
<1>4. core' \in [halted : BOOLEAN, step_mode : BOOLEAN] /\ core'.halted = yes
  <2>1. core' = [core EXCEPT !.halted = yes]
    BY <1>2, Zenon DEF StepEnds
  <2> QED BY <1>3, <2>1, RestFields
<1>5. RestType'
  BY <1>1, <1>4, Zenon DEF StopInv, RestType
<1>6. FirstLeft' = FirstLeft
  BY <1>1 DEF FirstLeft
<1>7. Resumes' = Resumes
  BY <1>1, <1>6, LeftKept
<1>8. ASSUME Quiet' PROVE StopOK'
  <2>1. Quiet /\ ~core.halted
    BY <1>1, <1>8, Zenon DEF Quiet, StepEnds
  <2>2. StopOK
    BY <2>1, Zenon DEF StopInv
  <2>3. gdb.waits = "stop" /\ Resumes = {}
    BY <2>1, <2>2, Zenon DEF StopOK
  <2>4. gdb'.waits = "stop" /\ Resumes' = {} /\ core'.halted
    BY <1>1, <1>2, <1>4, <1>7, <2>3, Zenon
  <2> QED BY <2>4, Zenon DEF StopOK
<1> QED BY <1>5, <1>8, Zenon DEF StopInv

LEMMA NextKeepsStopInv ==
  ASSUME DecodeInv, StopInv, [Next]_vars
  PROVE  StopInv'
<1>1. CASE decode
  BY <1>1, DecodeKeepsStopInv
<1>2. CASE callback
  BY <1>2, CallbackKeepsStopInv
<1>3. CASE v_packet_done \/ recv \/ recv_nothing \/ handle \/ UNCHANGED vars
  <2>1. gdb' = gdb /\ core' = core /\ answers' = answers /\ decoded' = decoded
    BY <1>3 DEF v_packet_done, recv, recv_nothing, handle, vars
  <2>2. out' = out \/ \E m \in Messages \ {"stop"} : out' = Append(out, m)
    <3>1. "OK" \in Messages \ {"stop"} /\ "written" \in Messages \ {"stop"}
      BY DEF Messages
    <3> QED BY <1>3, <3>1 DEF v_packet_done, Send, recv, recv_nothing, handle, vars
  <2>3. rsp' = rsp \/ (rsp' \in Threads /\ rsp.pc # "handle" /\ rsp'.pc # "handle")
    <3>1. CASE v_packet_done
      <4>1. rsp.pc = "stepped" /\ \E m, k : k \in BOOLEAN /\ Send(m, k)
        BY <3>1, Zenon DEF v_packet_done
      <4>2. rsp' \in Threads /\ rsp'.pc # "handle"
        BY <4>1, RestFields, ThreadMoves
      <4> QED BY <4>1, <4>2
    <3>2. CASE recv
      <4>1. rsp.pc = "recv" /\ rsp' = [rsp EXCEPT !.pc = "decode"]
        BY <3>2, Zenon DEF recv
      <4> QED BY <4>1, RestFields DEF Threads
    <3>3. CASE recv_nothing
      <4>1. rsp.pc = "recv" /\ rsp' = [rsp EXCEPT !.pc = "left"]
        BY <3>3, Zenon DEF recv_nothing
      <4> QED BY <4>1, RestFields DEF Threads
    <3>4. CASE handle \/ UNCHANGED vars
      BY <3>4 DEF handle, vars
    <3> QED BY <1>3, <3>1, <3>2, <3>3, <3>4
  <2>4. FirstLeft' = FirstLeft
    BY <2>1, <2>3 DEF FirstLeft
  <2>5. Resumes' = Resumes
    BY <2>1, <2>4, LeftKept
  <2>6. StopSent' <=> StopSent
    BY <2>2, StopSentKept
  <2>7. RestType'
    BY <2>1, <2>3, Zenon DEF StopInv, RestType, Threads
  <2> QED BY <2>1, <2>5, <2>6, <2>7, OtherKeepsStopInv
<1>4. CASE rsp_send
  <2>1. Flush /\ UNCHANGED <<decoded, core, answers>> /\ rsp.pc = "send"
    BY <1>4 DEF rsp_send
  <2>2. PICK x, no : x = Returns /\ no = FALSE
    OBVIOUS
  <2>3. rsp' = [pc |-> x, locked |-> no]
    BY <1>4, <2>2, Zenon DEF rsp_send
  <2>4. x \in {"recv", "decode"}
    BY <2>2 DEF Returns
  <2>5. no \in BOOLEAN
    BY <2>2, Zenon
  <2>6. rsp' \in Threads /\ rsp'.pc # "handle" /\ rsp.pc # "handle"
    BY <2>1, <2>3, <2>4, <2>5 DEF Threads
  <2> QED BY <2>1, <2>6, FlushKeepsStopInv
<1>5. CASE engine_send
  <2>1. Flush /\ UNCHANGED <<decoded, core, answers>> /\ rsp' = rsp
    BY <1>5 DEF engine_send
  <2> QED BY <2>1, FlushKeepsStopInv
<1>6. CASE \E p \in Packets : GdbSends(p)
  BY <1>6, GdbSendsKeepsStopInv
<1>7. CASE GdbResends
  BY <1>7, GdbResendsKeepsStopInv
<1>8. CASE GdbInterrupts
  BY <1>8, GdbInterruptsKeepsStopInv
<1>9. CASE StepEnds
  BY <1>9, StepEndsKeepsStopInv
<1> QED BY <1>1, <1>2, <1>3, <1>4, <1>5, <1>6, <1>7, <1>8, <1>9, Zenon DEF Next

LEMMA InitStopInv ==
  ASSUME Init
  PROVE  StopInv
<1>1. PICK yes, no : yes = TRUE /\ no = FALSE
  OBVIOUS
<1>2. yes \in BOOLEAN /\ no \in BOOLEAN
  BY <1>1, Zenon
<1>3. /\ core = [halted |-> yes, step_mode |-> no] /\ answers = [refused |-> no, crossed |-> no]
      /\ rsp = [pc |-> "recv", locked |-> no] /\ out = <<>> /\ decoded = <<>>
      /\ gdb = [waits |-> "nothing", packet |-> <<>>, acked |-> yes, packets |-> 0, resends |-> 0, interrupts |-> 0, sent |-> <<>>]
  BY <1>1, Zenon DEF Init
<1>4. gdb.sent = <<>> /\ gdb.packets = 0 /\ gdb.interrupts = 0 /\ core.halted = yes /\ rsp.pc = "recv"
  BY <1>3
<1>5. core \in [halted : BOOLEAN, step_mode : BOOLEAN] /\ answers \in [refused : BOOLEAN, crossed : BOOLEAN]
  BY <1>2, <1>3
<1>6. rsp \in [pc : {"recv", "decode", "handle", "stepped", "send", "left"}, locked : BOOLEAN]
  BY <1>2, <1>3
<1>7. RestType
  BY <1>4, <1>5, <1>6 DEF RestType
<1>8. Resumes = {} /\ ~StopSent
  <2>1. ~StopSent
    BY <1>3 DEF StopSent
  <2>2. FirstLeft = 1
    BY <1>3, <1>4 DEF FirstLeft
  <2>3. Len(gdb.sent) = 0
    BY <1>4
  <2> QED BY <2>1, <2>2, <2>3 DEF Resumes
<1>9. StopOK
  BY <1>1, <1>4, <1>8, Zenon DEF StopOK
<1> QED BY <1>7, <1>9, Zenon DEF StopInv

(* GDB takes the core for stopped only when it is, unless a packet was sent *)
(* twice or a Ctrl-C crossed a stop reply.                                  *)
LEMMA StopInvStoppedIsHalted ==
  ASSUME DecodeInv, StopInv
  PROVE  StoppedIsHalted
<1>1. CASE Quiet
  BY <1>1, Zenon DEF StopInv, StopOK, StoppedIsHalted
<1>2. CASE answers.crossed
  BY <1>2, Zenon DEF StoppedIsHalted
<1>3. CASE Len(gdb.sent) # gdb.packets + gdb.interrupts
  <2>1. Len(gdb.sent) > gdb.packets + gdb.interrupts
    <3>1. Len(gdb.sent) >= gdb.packets + gdb.interrupts /\ gdb.sent \in Seq(Items) /\ gdb.packets \in Nat /\ gdb.interrupts \in Nat
      BY GdbFields DEF StopInv, RestType
    <3> QED BY <1>3, <3>1
  <2> QED BY <2>1, Zenon DEF StoppedIsHalted
<1> QED BY <1>1, <1>2, <1>3, Zenon DEF Quiet

(* GDB takes the core for stopped only when it is, whatever the packets and *)
(* the interleaving of GDB, the thread of the server and the engine.        *)
THEOREM StoppedIsHaltedCorrect == Spec => []StoppedIsHalted
<1>1. Init => DecodeInv /\ StopInv
  BY InitDecodeInv, InitStopInv
<1>2. DecodeInv /\ StopInv /\ [Next]_vars => DecodeInv' /\ StopInv'
  BY NextKeepsDecodeInv, NextKeepsStopInv
<1>3. DecodeInv /\ StopInv => StoppedIsHalted
  BY StopInvStoppedIsHalted
<1> QED BY <1>1, <1>2, <1>3, PTL DEF Spec
=============================================================================
