----------------------- MODULE TimeScheduler_proofs -------------------------
(***************************************************************************)
(* Proofs about the time engine, for any set of clients and any bounds:    *)
(* the client list stays sorted and consistent with the flags, no client   *)
(* is ever planned in the past, and time never jumps over an event.        *)
(*                                                                         *)
(* Then proofs about the time scheduler, for any schedulers, any events    *)
(* and any bounds: the engine with schedulers as its clients implements    *)
(* the engine with arbitrary clients, no event slips into the past, and    *)
(* the engine and its schedulers together implement the global agenda of   *)
(* AbstractScheduler.                                                      *)
(***************************************************************************)
EXTENDS TimeScheduler, SequenceTheorems, TLAPS

-----------------------------------------------------------------------------
(* The time engine.                                                         *)

(* What the list s must satisfy, given the times net and the flags enq, for *)
(* the loop to go on from time lo.                                          *)
ListOK(s, net, enq, lo) ==
  /\ s \in Seq(Clients)
  /\ \A i, j \in 1..Len(s) : s[i] = s[j] => i = j
  /\ \A c \in Clients : enq[c] <=> \E i \in 1..Len(s) : s[i] = c
  /\ \A i, j \in 1..Len(s) : i <= j => net[s[i]] <= net[s[j]]
  /\ \A i \in 1..Len(s) : net[s[i]] >= lo

Times == [Clients -> 0..MaxTime]
Flags == [Clients -> BOOLEAN]

(* Linking a client after the first p elements gives a longer list.         *)
LEMMA InsertAfterShape ==
  ASSUME NEW s \in Seq(Clients), NEW p \in 0..Len(s), NEW c \in Clients
  PROVE  /\ InsertAfter(s, p, c) \in Seq(Clients)
         /\ Len(InsertAfter(s, p, c)) = Len(s) + 1
         /\ \A i \in 1..p : InsertAfter(s, p, c)[i] = s[i]
         /\ InsertAfter(s, p, c)[p + 1] = c
         /\ \A i \in (p + 2)..(Len(s) + 1) : InsertAfter(s, p, c)[i] = s[i - 1]
  BY DEF InsertAfter

(* Unlinking the p-th element gives a shorter list.                         *)
LEMMA UnlinkShape ==
  ASSUME NEW s \in Seq(Clients), NEW p \in 1..Len(s)
  PROVE  /\ Unlink(s, p) \in Seq(Clients)
         /\ Len(Unlink(s, p)) = Len(s) - 1
         /\ \A i \in 1..(p - 1) : Unlink(s, p)[i] = s[i]
         /\ \A i \in p..(Len(s) - 1) : Unlink(s, p)[i] = s[i + 1]
  BY DEF Unlink

(* The insertion walk of enqueue keeps the list good.                       *)
LEMMA InsertOK ==
  ASSUME NEW s, NEW net \in Times, NEW enq \in Flags, NEW lo \in Int,
         NEW c \in Clients, NEW t \in 0..MaxTime, NEW p \in 0..Len(s),
         ListOK(s, net, enq, lo), ~enq[c], t >= lo,
         InsertPoint(s, net, p, t)
  PROVE  ListOK(InsertAfter(s, p, c), [net EXCEPT ![c] = t], [enq EXCEPT ![c] = TRUE], lo)
<1> DEFINE r == InsertAfter(s, p, c)
           net2 == [net EXCEPT ![c] = t]
           enq2 == [enq EXCEPT ![c] = TRUE]
<1>1. /\ s \in Seq(Clients) /\ Len(s) \in Nat
      /\ \A i \in 1..Len(s) : s[i] \in Clients /\ s[i] # c
  BY DEF ListOK
<1>2. /\ r \in Seq(Clients) /\ Len(r) = Len(s) + 1
      /\ \A i \in 1..p : r[i] = s[i]
      /\ r[p + 1] = c
      /\ \A i \in (p + 2)..(Len(s) + 1) : r[i] = s[i - 1]
  <2>1. s \in Seq(Clients)
    BY <1>1
  <2>2. r \in Seq(Clients)
    BY <2>1, InsertAfterShape
  <2>3. Len(r) = Len(s) + 1
    BY <2>1, InsertAfterShape
  <2>4. \A i \in 1..p : r[i] = s[i]
    BY <2>1, InsertAfterShape
  <2>5. r[p + 1] = c
    BY <2>1, InsertAfterShape
  <2>6. \A i \in (p + 2)..(Len(s) + 1) : r[i] = s[i - 1]
    BY <2>1, InsertAfterShape
  <2> QED BY <2>2, <2>3, <2>4, <2>5, <2>6
<1> HIDE DEF r
<1>3. \A i \in 1..Len(r) : \/ i <= p /\ i \in 1..Len(s) /\ r[i] = s[i]
                           \/ i = p + 1 /\ r[i] = c
                           \/ i > p + 1 /\ i - 1 \in 1..Len(s) /\ r[i] = s[i - 1]
  BY <1>1, <1>2
<1>4. ASSUME NEW i \in 1..Len(r), NEW j \in 1..Len(r), r[i] = r[j]
      PROVE  i = j
  <2>1. \A k, l \in 1..Len(s) : s[k] = s[l] => k = l
    BY DEF ListOK
  <2>2. CASE i <= p
    BY <1>1, <1>3, <1>4, <2>1, <2>2
  <2>3. CASE i = p + 1
    BY <1>1, <1>3, <1>4, <2>1, <2>3
  <2>4. CASE i > p + 1
    BY <1>1, <1>3, <1>4, <2>1, <2>4
  <2> QED BY <2>2, <2>3, <2>4, <1>1, <1>2
<1>5. \A d \in Clients : d # c => net2[d] = net[d] /\ enq2[d] = enq[d]
  BY DEF Times, Flags
<1>6. net2[c] = t /\ enq2[c] = TRUE
  BY DEF Times, Flags
<1> HIDE DEF net2, enq2
<1>7. ASSUME NEW d \in Clients
      PROVE  enq2[d] <=> \E i \in 1..Len(r) : r[i] = d
  <2>1. CASE d = c
    BY <2>1, <1>6, <1>2, <1>1
  <2>2. CASE d # c
    <3>1. enq[d] <=> \E i \in 1..Len(s) : s[i] = d
      BY DEF ListOK
    <3>2. ASSUME NEW i \in 1..Len(s), s[i] = d PROVE \E k \in 1..Len(r) : r[k] = d
      <4>1. CASE i <= p
        BY <4>1, <3>2, <1>1, <1>2
      <4>2. CASE i > p
        <5>1. i + 1 \in 1..Len(r) /\ r[i + 1] = s[i]
          BY <4>2, <1>1, <1>2
        <5> QED BY <5>1, <3>2
      <4> QED BY <4>1, <4>2, <1>1
    <3>3. ASSUME NEW k \in 1..Len(r), r[k] = d PROVE \E i \in 1..Len(s) : s[i] = d
      BY <3>3, <2>2, <1>3
    <3> QED BY <2>2, <3>1, <3>2, <3>3, <1>5
  <2> QED BY <2>1, <2>2
<1>8. /\ \A i \in 1..p : net[s[i]] < t
      /\ \A i \in 1..Len(s) : i > p => net[s[i]] >= t
  <2>1. \A i, j \in 1..Len(s) : i <= j => net[s[i]] <= net[s[j]]
    BY DEF ListOK
  <2>2. \A i \in 1..Len(s) : net[s[i]] \in Int
    BY <1>1 DEF Times
  <2> QED BY <1>1, <2>1, <2>2, p + 1 \in Nat DEF InsertPoint
<1>9. ASSUME NEW i \in 1..Len(r)
      PROVE  /\ net2[r[i]] \in Int
             /\ i <= p => i \in 1..Len(s) /\ net2[r[i]] = net[s[i]]
             /\ i = p + 1 => net2[r[i]] = t
             /\ i > p + 1 => i - 1 \in 1..Len(s) /\ net2[r[i]] = net[s[i - 1]]
  <2>1. /\ Len(r) \in Nat /\ i \in Int /\ p \in Int /\ t \in Int
        /\ \A d \in Clients : net[d] \in Int
    BY <1>1, <1>2 DEF Times
  <2>2. CASE i <= p
    BY <1>1, <1>3, <1>5, <2>1, <2>2
  <2>3. CASE i = p + 1
    BY <1>3, <1>6, <2>1, <2>3
  <2>4. CASE i > p + 1
    BY <1>1, <1>3, <1>5, <2>1, <2>4
  <2> QED BY <2>1, <2>2, <2>3, <2>4
<1>10. ASSUME NEW i \in 1..Len(r), i > p
       PROVE  net2[r[i]] >= t
  <2>1. t \in Int /\ p \in Int
    BY <1>1
  <2>2. CASE i = p + 1
    BY <1>2, <1>6, <2>1, <2>2
  <2>3. CASE i > p + 1
    <3>1. i - 1 \in 1..Len(s) /\ i - 1 > p
      BY <1>1, <1>2, <2>1, <2>3
    <3>2. net2[r[i]] = net[s[i - 1]]
      BY <1>9, <2>3
    <3>3. net[s[i - 1]] >= t
      BY <3>1, <1>8
    <3> QED BY <3>2, <3>3
  <2> QED BY <1>1, <1>2, <1>10, <2>2, <2>3
<1>11. ASSUME NEW i \in 1..Len(r), NEW j \in 1..Len(r), i <= j
       PROVE  net2[r[i]] <= net2[r[j]]
  <2>1. \A k, l \in 1..Len(s) : k <= l => net[s[k]] <= net[s[l]]
    BY DEF ListOK
  <2>2. \A k \in 1..Len(s) : net[s[k]] \in Int
    BY <1>1 DEF Times
  <2>3. CASE j <= p
    BY <1>1, <1>2, <1>9, <1>11, <2>1, <2>2, <2>3
  <2>4. CASE i <= p /\ j > p
    <3>1. net2[r[i]] < t
      BY <1>1, <1>2, <1>8, <1>9, <2>4, SMTT(30)
    <3>2. net2[r[j]] >= t
      BY <1>10, <2>4
    <3> QED BY <3>1, <3>2, <1>9, <1>10, SMTT(30)
  <2>5. CASE i = p + 1
    BY <1>9, <1>11, <1>10, <2>5
  <2>6. CASE i > p + 1
    <3>1. /\ i - 1 \in 1..Len(s) /\ j - 1 \in 1..Len(s) /\ i - 1 <= j - 1
          /\ j > p + 1
      BY <1>1, <1>2, <1>11, <2>6
    <3>2. net2[r[i]] = net[s[i - 1]] /\ net2[r[j]] = net[s[j - 1]]
      BY <1>9, <2>6, <3>1
    <3>3. net[s[i - 1]] <= net[s[j - 1]]
      BY <2>1, <3>1
    <3> QED BY <3>2, <3>3
  <2> QED BY <1>1, <1>2, <2>3, <2>4, <2>5, <2>6
<1>12. ASSUME NEW i \in 1..Len(r) PROVE net2[r[i]] >= lo
  <2>1. \A k \in 1..Len(s) : net[s[k]] >= lo
    BY DEF ListOK
  <2>2. CASE i <= p
    BY <1>9, <2>1, <2>2
  <2>3. CASE i > p
    <3>1. net2[r[i]] >= t
      BY <1>10, <2>3
    <3>2. net2[r[i]] \in Int /\ t \in Int
      BY <1>9
    <3> QED BY <3>1, <3>2
  <2> QED BY <1>1, <1>2, <2>2, <2>3
<1> QED BY <1>2, <1>4, <1>7, <1>11, <1>12 DEF ListOK, r, net2, enq2

(* The walk of dequeue keeps the list good.                                 *)
LEMMA UnlinkOK ==
  ASSUME NEW s, NEW net \in Times, NEW enq \in Flags, NEW lo \in Int,
         NEW p \in 1..Len(s), ListOK(s, net, enq, lo)
  PROVE  ListOK(Unlink(s, p), net, [enq EXCEPT ![s[p]] = FALSE], lo)
<1> DEFINE r == Unlink(s, p)
           enq2 == [enq EXCEPT ![s[p]] = FALSE]
<1>1. /\ s \in Seq(Clients) /\ Len(s) \in Nat
      /\ \A i \in 1..Len(s) : s[i] \in Clients
  BY DEF ListOK
<1>2. /\ r \in Seq(Clients) /\ Len(r) = Len(s) - 1
      /\ \A i \in 1..(p - 1) : r[i] = s[i]
      /\ \A i \in p..(Len(s) - 1) : r[i] = s[i + 1]
  BY <1>1, UnlinkShape, Zenon
<1> HIDE DEF r
<1>3. \A i \in 1..Len(r) : \/ i < p /\ i \in 1..Len(s) /\ r[i] = s[i]
                           \/ i >= p /\ i + 1 \in 1..Len(s) /\ r[i] = s[i + 1]
  BY <1>1, <1>2, SMTT(30)
<1>4. ASSUME NEW i \in 1..Len(r), NEW j \in 1..Len(r), r[i] = r[j]
      PROVE  i = j
  <2>1. \A k, l \in 1..Len(s) : s[k] = s[l] => k = l
    BY DEF ListOK
  <2> DEFINE At(x) == IF x < p THEN x ELSE x + 1
  <2>2. ASSUME NEW x \in 1..Len(r) PROVE At(x) \in 1..Len(s) /\ s[At(x)] = r[x]
    BY <1>1, <1>2, <1>3
  <2>3. At(i) = At(j)
    <3> HIDE DEF At
    <3> QED BY <1>4, <2>1, <2>2
  <2>4. i \in Int /\ j \in Int /\ p \in Int
    BY <1>1, <1>2
  <2> QED BY <2>3, <2>4
<1>5. ASSUME NEW d \in Clients
      PROVE  enq2[d] <=> \E i \in 1..Len(r) : r[i] = d
  <2>1. \A i, j \in 1..Len(s) : s[i] = s[j] => i = j
    BY DEF ListOK
  <2>2. CASE d = s[p]
    <3>1. ~enq2[d]
      BY <2>2, <1>1 DEF Flags
    <3>2. ASSUME NEW k \in 1..Len(r) PROVE r[k] # d
      BY <2>1, <2>2, <1>1, <1>3
    <3> QED BY <3>1, <3>2
  <2>3. CASE d # s[p]
    <3>1. enq2[d] = enq[d]
      BY <2>3 DEF Flags
    <3>2. enq[d] <=> \E i \in 1..Len(s) : s[i] = d
      BY DEF ListOK
    <3>3. ASSUME NEW i \in 1..Len(s), s[i] = d PROVE \E k \in 1..Len(r) : r[k] = d
      <4>1. CASE i < p
        BY <4>1, <3>3, <1>1, <1>2
      <4>2. CASE i > p
        <5>1. i - 1 \in 1..Len(r) /\ r[i - 1] = s[i]
          BY <4>2, <1>1, <1>2
        <5> QED BY <5>1, <3>3
      <4> QED BY <4>1, <4>2, <1>1, <2>3, <3>3
    <3>4. ASSUME NEW k \in 1..Len(r), r[k] = d PROVE \E i \in 1..Len(s) : s[i] = d
      BY <3>4, <1>3
    <3> QED BY <3>1, <3>2, <3>3, <3>4
  <2> QED BY <2>2, <2>3
<1>6. ASSUME NEW i \in 1..Len(r), NEW j \in 1..Len(r), i <= j
      PROVE  net[r[i]] <= net[r[j]]
  <2>1. \A k, l \in 1..Len(s) : k <= l => net[s[k]] <= net[s[l]]
    BY DEF ListOK
  <2> DEFINE At(x) == IF x < p THEN x ELSE x + 1
  <2>2. ASSUME NEW x \in 1..Len(r) PROVE At(x) \in 1..Len(s) /\ s[At(x)] = r[x]
    BY <1>1, <1>2, <1>3
  <2>3. At(i) <= At(j)
    BY <1>1, <1>2, <1>6
  <2> HIDE DEF At
  <2> QED BY <2>1, <2>2, <2>3
<1>7. ASSUME NEW i \in 1..Len(r) PROVE net[r[i]] >= lo
  <2>1. \A k \in 1..Len(s) : net[s[k]] >= lo
    BY DEF ListOK
  <2> QED BY <1>3, <2>1
<1> QED BY <1>2, <1>4, <1>5, <1>6, <1>7 DEF ListOK, r, enq2

(* Popping the first client keeps the list good, from the time of the popped *)
(* client on.                                                                *)
LEMMA PopOK ==
  ASSUME NEW s, NEW net \in Times, NEW enq \in Flags, NEW lo \in Int,
         ListOK(s, net, enq, lo), s # <<>>
  PROVE  /\ Head(s) \in Clients /\ enq[Head(s)] /\ net[Head(s)] >= lo
         /\ \A i \in 1..Len(s) : net[Head(s)] <= net[s[i]]
         /\ ListOK(Tail(s), net, [enq EXCEPT ![Head(s)] = FALSE], net[Head(s)])
<1>1. s \in Seq(Clients) /\ Len(s) \in Nat /\ Len(s) >= 1
  BY DEF ListOK
<1>2. Head(s) = s[1] /\ 1 \in 1..Len(s) /\ s[1] \in Clients
  BY <1>1
<1>3. Tail(s) = Unlink(s, 1)
  <2>1. /\ Tail(s) \in Seq(Clients) /\ Len(Tail(s)) = Len(s) - 1
        /\ \A i \in 1..Len(Tail(s)) : Tail(s)[i] = s[i + 1]
    BY <1>1, HeadTailProperties
  <2>2. /\ Unlink(s, 1) \in Seq(Clients) /\ Len(Unlink(s, 1)) = Len(s) - 1
        /\ \A i \in 1..(Len(s) - 1) : Unlink(s, 1)[i] = s[i + 1]
    BY <1>1, <1>2, UnlinkShape
  <2>3. \A i \in 1..Len(Tail(s)) : Tail(s)[i] = Unlink(s, 1)[i]
    BY <2>1, <2>2
  <2> QED BY <2>1, <2>2, <2>3, SeqEqual
<1>4. ListOK(Unlink(s, 1), net, [enq EXCEPT ![s[1]] = FALSE], lo)
  BY <1>2, UnlinkOK
<1>5. \A i \in 1..Len(s) : net[s[1]] <= net[s[i]]
  BY <1>1, <1>2 DEF ListOK
<1>6. enq[s[1]] /\ net[s[1]] >= lo
  BY <1>2 DEF ListOK
<1>7. ASSUME NEW i \in 1..Len(Unlink(s, 1)) PROVE net[Unlink(s, 1)[i]] >= net[s[1]]
  <2>1. i + 1 \in 1..Len(s) /\ Unlink(s, 1)[i] = s[i + 1]
    BY <1>1, <1>2, UnlinkShape
  <2>2. net[s[i + 1]] \in Int /\ net[s[1]] \in Int
    BY <1>1, <1>2, <2>1 DEF Times
  <2> QED BY <1>5, <2>1, <2>2
<1>8. ListOK(Unlink(s, 1), net, [enq EXCEPT ![s[1]] = FALSE], net[s[1]])
  BY <1>4, <1>7 DEF ListOK
<1> QED BY <1>2, <1>3, <1>5, <1>6, <1>8

-----------------------------------------------------------------------------
(* The invariant in the form the lemmas use.                                *)
Inv == TypeOK /\ QueueInv

(* Every state with a good list and a single running client is in Inv.      *)
GoodState ==
  /\ time \in 0..MaxTime /\ next_event_time \in Times /\ is_enqueued \in Flags
  /\ running \in Flags /\ current \in Clients \cup {None} /\ run_req \in BOOLEAN
  /\ CurrentAlone
  /\ ListOK(clients, next_event_time, is_enqueued, time)

LEMMA GoodInv == GoodState <=> Inv
BY DEF GoodState, Inv, TypeOK, QueueInv, QueueConsistent, Sorted, NoEventInPast, ListOK,
       Times, Flags

LEMMA GoodInvNext == GoodState' => Inv'
BY DEF GoodState, Inv, TypeOK, QueueInv, QueueConsistent, Sorted, NoEventInPast, ListOK,
       Times, Flags

LEMMA InitInv == Init => Inv
<1> SUFFICES ASSUME Init PROVE Inv
  OBVIOUS
<1> USE TimeEngineAssumption
<1>1. TypeOK
  <2>1. clients \in Seq(Clients)
    BY EmptySeq DEF Init
  <2>2. 0 \in 0..MaxTime
    OBVIOUS
  <2> QED BY <2>1, <2>2 DEF Init, TypeOK
<1>2. QueueConsistent /\ Sorted /\ NoEventInPast
  <2>1. Len(clients) = 0 /\ \A c \in Clients : ~is_enqueued[c]
    BY DEF Init
  <2> QED BY <2>1 DEF QueueConsistent, Sorted, NoEventInPast
<1>3. CurrentAlone
  BY DEF Init, CurrentAlone
<1> QED BY <1>1, <1>2, <1>3 DEF Inv, QueueInv

(* Leaving the current client, with the good list s behind it, and popping  *)
(* the next one, preserves Inv.                                             *)
LEMMA LeaveInv ==
  ASSUME NEW s, NEW net \in Times, NEW enq \in Flags,
         Inv, current # None, ListOK(s, net, enq, time), LeaveCurrent(s, net, enq)
  PROVE  Inv'
<1> DEFINE run == [running EXCEPT ![current] = FALSE]
<1>1. /\ time \in 0..MaxTime /\ running \in Flags /\ current \in Clients
      /\ run_req \in BOOLEAN /\ time \in Int /\ MaxTime \in Nat
      /\ \A c \in Clients : ~run[c]
  BY TimeEngineAssumption DEF Inv, TypeOK, QueueInv, CurrentAlone, Flags
<1>2. next_event_time' = net /\ run_req' = run_req
  BY DEF LeaveCurrent
<1>3. CASE run_req /\ s # <<>>
  <2>1. /\ current' = Head(s) /\ clients' = Tail(s)
        /\ is_enqueued' = [enq EXCEPT ![Head(s)] = FALSE]
        /\ running' = [run EXCEPT ![Head(s)] = TRUE]
        /\ time' = net[Head(s)]
    BY <1>3 DEF LeaveCurrent, PopFirst
  <2>2. /\ Head(s) \in Clients /\ net[Head(s)] >= time
        /\ ListOK(Tail(s), net, [enq EXCEPT ![Head(s)] = FALSE], net[Head(s)])
    BY <1>1, <1>3, PopOK
  <2>3. /\ time' \in 0..MaxTime /\ is_enqueued' \in Flags /\ running' \in Flags
        /\ current' \in Clients \cup {None}
    BY <1>1, <2>1, <2>2 DEF Flags, Times
  <2>4. CurrentAlone'
    BY <1>1, <2>1, <2>2 DEF CurrentAlone, Flags
  <2> QED BY <1>1, <1>2, <2>1, <2>2, <2>3, <2>4, GoodInvNext DEF GoodState
<1>4. CASE ~(run_req /\ s # <<>>)
  <2>1. /\ clients' = s /\ is_enqueued' = enq /\ running' = run
        /\ current' = None /\ time' = time
    BY <1>4 DEF LeaveCurrent
  <2>2. CurrentAlone'
    BY <1>1, <2>1, TimeEngineAssumption DEF CurrentAlone
  <2>3. running' \in Flags
    BY <1>1, <2>1 DEF Flags
  <2> QED BY <1>1, <1>2, <2>1, <2>2, <2>3, GoodInvNext DEF GoodState
<1> QED BY <1>3, <1>4

(* enqueue, whichever of its paths is taken, keeps the list good.            *)
LEMMA EnqueueOK ==
  ASSUME Inv, NEW c \in Clients, NEW delay \in Nat,
         time + delay <= MaxTime, enqueue(c, delay)
  PROVE  /\ next_event_time' \in Times /\ is_enqueued' \in Flags
         /\ ListOK(clients', next_event_time', is_enqueued', time)
         /\ running[c] => is_enqueued' = is_enqueued
         /\ \A d \in Clients : d # c => is_enqueued'[d] = is_enqueued[d]
<1> DEFINE t == time + delay
<1>1. /\ ListOK(clients, next_event_time, is_enqueued, time)
      /\ next_event_time \in Times /\ is_enqueued \in Flags
      /\ time \in Nat /\ t \in 0..MaxTime /\ t >= time
  BY GoodInv, TimeEngineAssumption DEF GoodState
<1>2. CASE EnqueueIgnored(c, t)
  BY <1>1, <1>2 DEF enqueue, EnqueueAt
<1>3. CASE ~EnqueueIgnored(c, t)
  <2> DEFINE net2 == [next_event_time EXCEPT ![c] = t]
             enq2 == [is_enqueued EXCEPT ![c] = TRUE]
             enq0 == [is_enqueued EXCEPT ![c] = FALSE]
  <2>1. next_event_time' = net2 /\ is_enqueued' = enq2 /\ ~running[c]
    BY <1>3 DEF enqueue, EnqueueAt, EnqueueIgnored
  <2>2. net2 \in Times /\ enq2 \in Flags /\ enq0 \in Flags
        /\ ~enq0[c] /\ [enq0 EXCEPT ![c] = TRUE] = enq2
        /\ \A d \in Clients : d # c => enq2[d] = is_enqueued[d]
    BY <1>1 DEF Times, Flags
  <2>3. ListOK(clients', net2, enq2, time)
    <3>1. CASE is_enqueued[c]
      <4>1. PICK q \in 1..Len(clients) :
              /\ clients[q] = c
              /\ InsertSorted(Unlink(clients, q), next_event_time, c, t, clients')
        BY <1>3, <3>1 DEF enqueue, EnqueueAt
      <4>2. ListOK(Unlink(clients, q), next_event_time, enq0, time)
        BY <1>1, <4>1, UnlinkOK
      <4>3. PICK p \in 0..Len(Unlink(clients, q)) :
              /\ InsertPoint(Unlink(clients, q), next_event_time, p, t)
              /\ clients' = InsertAfter(Unlink(clients, q), p, c)
        BY <4>1 DEF InsertSorted
      <4>4. ListOK(InsertAfter(Unlink(clients, q), p, c), net2, [enq0 EXCEPT ![c] = TRUE], time)
        <5>1. time \in Int
          BY <1>1
        <5> QED BY <5>1, <1>1, <2>2, <4>2, <4>3, InsertOK, Zenon
      <4> QED BY <2>2, <4>3, <4>4
    <3>2. CASE ~is_enqueued[c]
      <4>1. InsertSorted(clients, next_event_time, c, t, clients')
        BY <1>3, <3>2 DEF enqueue, EnqueueAt
      <4>2. PICK p \in 0..Len(clients) :
              /\ InsertPoint(clients, next_event_time, p, t)
              /\ clients' = InsertAfter(clients, p, c)
        BY <4>1 DEF InsertSorted
      <4> QED BY <1>1, <3>2, <4>2, InsertOK, SMTT(30)
    <3> QED BY <3>1, <3>2
  <2> QED BY <2>1, <2>2, <2>3
<1> QED BY <1>2, <1>3

(* One step of the engine preserves the invariant.                           *)
LEMMA NextInv == Inv /\ [Next]_vars => Inv'
<1> SUFFICES ASSUME Inv, [Next]_vars PROVE Inv'
  OBVIOUS
<1> USE TimeEngineAssumption
<1>1. /\ GoodState /\ time \in Int /\ next_event_time \in Times /\ is_enqueued \in Flags
      /\ ListOK(clients, next_event_time, is_enqueued, time)
  BY GoodInv DEF GoodState
<1>2. CASE StartLoop
  <2>1. /\ current' = Head(clients) /\ clients' = Tail(clients) /\ clients # <<>>
        /\ is_enqueued' = [is_enqueued EXCEPT ![Head(clients)] = FALSE]
        /\ running' = [running EXCEPT ![Head(clients)] = TRUE]
        /\ time' = next_event_time[Head(clients)]
        /\ next_event_time' = next_event_time /\ run_req' = run_req /\ current = None
    BY <1>2 DEF StartLoop, PopFirst
  <2>2. /\ Head(clients) \in Clients
        /\ ListOK(clients', next_event_time', is_enqueued', time')
    BY <1>1, <2>1, PopOK
  <2>3. CurrentAlone'
    BY <1>1, <2>1, <2>2 DEF CurrentAlone, GoodState, Flags
  <2> QED BY <1>1, <2>1, <2>2, <2>3, GoodInvNext DEF GoodState, Times, Flags
<1>3. ASSUME NEW d \in -1..MaxDelay, ExecReturn(d) PROVE Inv'
  <2>1. CASE ContinueSame(d)
    <3>1. /\ time' \in 0..MaxTime /\ CurrentAlone'
          /\ UNCHANGED <<clients, next_event_time, is_enqueued, running, current, run_req>>
      BY <1>1, <2>1 DEF ContinueSame, GoodState, CurrentAlone
    <3>2. \A i \in 1..Len(clients) : next_event_time[clients[i]] >= time'
      <4>1. CASE clients = <<>>
        BY <4>1
      <4>2. CASE clients # <<>>
        <5>1. next_event_time[Head(clients)] >= time'
          BY <2>1, <4>2 DEF ContinueSame, Shortcut
        <5>2. \A i \in 1..Len(clients) : next_event_time[Head(clients)] <= next_event_time[clients[i]]
          BY <1>1, <4>2, PopOK
        <5>3. /\ \A i \in 1..Len(clients) : next_event_time[clients[i]] \in Int
              /\ next_event_time[Head(clients)] \in Int /\ time' \in Int
          BY <1>1, <3>1, <4>2, PopOK DEF ListOK, Times
        <5> QED BY <5>1, <5>2, <5>3
      <4> QED BY <4>1, <4>2
    <3> QED BY <1>1, <3>1, <3>2, GoodInvNext DEF GoodState, ListOK
  <2>2. CASE StopSame(d)
    <3>1. /\ current \in Clients /\ ~is_enqueued[current] /\ time + d \in 0..MaxTime
          /\ Shortcut(time + d) /\ time + d >= time
      BY <1>1, <2>2 DEF StopSame, GoodState, CurrentAlone
    <3>2. 0 \in 0..Len(clients) /\ InsertPoint(clients, next_event_time, 0, time + d)
      <4>1. clients \in Seq(Clients)
        BY <1>1 DEF ListOK
      <4> QED BY <3>1, <4>1 DEF Shortcut, InsertPoint
    <3>3. ListOK(InsertAfter(clients, 0, current), [next_event_time EXCEPT ![current] = time + d],
                 [is_enqueued EXCEPT ![current] = TRUE], time)
      BY <1>1, <3>1, <3>2, InsertOK
    <3>4. /\ ListOK(clients', next_event_time', is_enqueued', time') /\ time' \in 0..MaxTime
          /\ running' = [running EXCEPT ![current] = FALSE] /\ current' = None
          /\ next_event_time' \in Times /\ is_enqueued' \in Flags /\ run_req' = run_req
      BY <1>1, <2>2, <3>1, <3>3 DEF StopSame, GoodState, Times, Flags
    <3>5. CurrentAlone' /\ running' \in Flags
      BY <1>1, <3>1, <3>4 DEF CurrentAlone, GoodState, Flags
    <3> QED BY <1>1, <3>4, <3>5, GoodInvNext DEF GoodState
  <2>3. CASE Requeue(d)
    <3> DEFINE t == time + d
               net == [next_event_time EXCEPT ![current] = t]
               enq == [is_enqueued EXCEPT ![current] = TRUE]
    <3>1. /\ current \in Clients /\ ~is_enqueued[current] /\ t \in 0..MaxTime
          /\ ~Shortcut(t) /\ t >= time /\ current # None
      BY <1>1, <2>3 DEF Requeue, GoodState, CurrentAlone
    <3>2. PICK p \in 1..Len(clients) :
            /\ \A i \in 2..p : next_event_time[clients[i]] < t
            /\ p < Len(clients) => next_event_time[clients[p + 1]] >= t
            /\ LeaveCurrent(InsertAfter(clients, p, current), net, enq)
      BY <2>3 DEF Requeue
    <3>3. clients \in Seq(Clients) /\ clients # <<>> /\ next_event_time[clients[1]] < t
      <4>1. /\ clients \in Seq(Clients) /\ clients # <<>>
            /\ ~(next_event_time[Head(clients)] >= t) /\ Head(clients) = clients[1]
        BY <1>1, <3>1, <3>2 DEF ListOK, Shortcut
      <4>2. next_event_time[Head(clients)] \in Int
        BY <1>1, <4>1, PopOK DEF Times
      <4> QED BY <3>1, <4>1, <4>2
    <3>4. p \in 0..Len(clients) /\ InsertPoint(clients, next_event_time, p, t)
      BY <3>2, <3>3 DEF InsertPoint
    <3>5. ListOK(InsertAfter(clients, p, current), net, enq, time)
      BY <1>1, <3>1, <3>4, InsertOK
    <3>6. net \in Times /\ enq \in Flags
      BY <1>1, <3>1 DEF Times, Flags
    <3> QED BY <3>1, <3>2, <3>5, <3>6, LeaveInv
  <2>4. CASE Retire
    BY <1>1, <2>4, LeaveInv DEF Retire
  <2> QED BY <1>3, <2>1, <2>2, <2>3, <2>4 DEF ExecReturn
<1>4. ASSUME NEW c \in Clients, NEW d \in 0..MaxDelay, Enqueue(c, d) PROVE Inv'
  <2>1. /\ enqueue(c, d) /\ time + d <= MaxTime /\ d \in Nat
        /\ UNCHANGED <<time, running, current, run_req>>
    BY <1>4 DEF Enqueue
  <2>2. /\ next_event_time' \in Times /\ is_enqueued' \in Flags
        /\ ListOK(clients', next_event_time', is_enqueued', time)
        /\ running[c] => is_enqueued' = is_enqueued
        /\ \A e \in Clients : e # c => is_enqueued'[e] = is_enqueued[e]
    BY <2>1, EnqueueOK
  <2>3. CurrentAlone'
    BY <1>1, <2>1, <2>2 DEF CurrentAlone, GoodState
  <2> QED BY <1>1, <2>1, <2>2, <2>3, GoodInvNext DEF GoodState
<1>5. ASSUME NEW c \in Clients, Dequeue(c) PROVE Inv'
  <2>1. PICK p \in 1..Len(clients) : clients[p] = c /\ clients' = Unlink(clients, p)
    BY <1>5 DEF Dequeue, dequeue, Removed
  <2>2. /\ is_enqueued' = [is_enqueued EXCEPT ![c] = FALSE] /\ is_enqueued' \in Flags
        /\ UNCHANGED <<next_event_time, time, running, current, run_req>>
    BY <1>1, <1>5 DEF Dequeue, dequeue, Flags
  <2>3. ListOK(clients', next_event_time', is_enqueued', time')
    BY <1>1, <2>1, <2>2, UnlinkOK
  <2>4. CurrentAlone'
    BY <1>1, <2>2 DEF CurrentAlone, GoodState, Flags
  <2> QED BY <1>1, <2>2, <2>3, <2>4, GoodInvNext DEF GoodState
<1>6. CASE SetRunReq
  BY <1>1, <1>6, GoodInvNext DEF SetRunReq, GoodState, CurrentAlone
<1>7. CASE UNCHANGED vars
  BY <1>1, <1>7, GoodInvNext DEF vars, GoodState, CurrentAlone
<1> QED BY <1>2, <1>3, <1>4, <1>5, <1>6, <1>7 DEF Next

-----------------------------------------------------------------------------
(* run_loop, enqueue and dequeue keep the types, for any clients and bounds. *)
THEOREM TypeCorrect == Spec => []TypeOK
<1>1. Inv => TypeOK
  BY DEF Inv
<1> QED BY <1>1, InitInv, NextInv, PTL DEF Spec

(* The flags say who is in the client list, the client being executed is out *)
(* of it, the list is sorted, and no client is planned before the current    *)
(* time: the assertion of run_loop never fails.                              *)
THEOREM QueueCorrect == Spec => []QueueInv
<1>1. Inv => QueueInv
  BY DEF Inv
<1> QED BY <1>1, InitInv, NextInv, PTL DEF Spec

(* The list and the flags of the clients always agree, which enqueue and     *)
(* dequeue rely on before they walk the list.                                *)
THEOREM QueueConsistentCorrect == Spec => []QueueConsistent
BY QueueCorrect, PTL DEF QueueInv

(* Only the client that run_loop is executing is flagged running, and it is  *)
(* out of the list, so that its own enqueue calls are ignored safely.        *)
THEOREM CurrentAloneCorrect == Spec => []CurrentAlone
BY QueueCorrect, PTL DEF QueueInv

(* The list is sorted by the time of the next event after every insertion,   *)
(* the one of enqueue and the ones of run_loop.                              *)
THEOREM SortedCorrect == Spec => []Sorted
BY QueueCorrect, PTL DEF QueueInv

(* The assertion of run_loop that no event is before the current time.       *)
THEOREM NoEventInPastCorrect == Spec => []NoEventInPast
BY QueueCorrect, PTL DEF QueueInv

(* No step moves the time backwards or past the event of a waiting client.   *)
LEMMA StepAdvances ==
  ASSUME Inv, [Next]_vars
  PROVE  [/\ time' >= time
          /\ \A i \in 1..Len(clients) : time' <= next_event_time[clients[i]]]_vars
<1> USE TimeEngineAssumption
<1> DEFINE A == /\ time' >= time
                /\ \A i \in 1..Len(clients) : time' <= next_event_time[clients[i]]
<1>1. /\ GoodState /\ time \in Int /\ next_event_time \in Times /\ is_enqueued \in Flags
      /\ ListOK(clients, next_event_time, is_enqueued, time)
      /\ \A i \in 1..Len(clients) : next_event_time[clients[i]] \in Int
  BY GoodInv DEF GoodState, ListOK, Times
<1>2. ASSUME time' = time PROVE A
  BY <1>1, <1>2 DEF ListOK
<1>3. clients # <<>> =>
        /\ Head(clients) \in Clients /\ next_event_time[Head(clients)] \in Int
        /\ next_event_time[Head(clients)] >= time
        /\ \A i \in 1..Len(clients) : next_event_time[Head(clients)] <= next_event_time[clients[i]]
  <2>1. clients # <<>> => Head(clients) \in Clients
    BY <1>1, PopOK
  <2>2. clients # <<>> => next_event_time[Head(clients)] \in Int
    BY <1>1, <2>1 DEF Times
  <2> QED BY <1>1, <2>1, <2>2, PopOK
<1>4. CASE StartLoop
  BY <1>3, <1>4 DEF StartLoop, PopFirst
<1>5. ASSUME NEW d \in -1..MaxDelay, ContinueSame(d) PROVE A
  <2>1. /\ time' = time + d /\ time' > time /\ time' \in Int
        /\ clients # <<>> => next_event_time[Head(clients)] >= time'
    BY <1>1, <1>5 DEF ContinueSame, Shortcut
  <2>2. ASSUME NEW i \in 1..Len(clients) PROVE time' <= next_event_time[clients[i]]
    <3>1. clients # <<>>
      BY EmptySeq
    <3> QED BY <1>1, <1>3, <2>1, <3>1
  <2> QED BY <1>1, <2>1, <2>2
<1>6. ASSUME NEW d \in -1..MaxDelay, Requeue(d) PROVE A
  <2> DEFINE t == time + d
             net == [next_event_time EXCEPT ![current] = t]
             enq == [is_enqueued EXCEPT ![current] = TRUE]
  <2>1. PICK p \in 1..Len(clients) : LeaveCurrent(InsertAfter(clients, p, current), net, enq)
    BY <1>6 DEF Requeue
  <2>2. clients \in Seq(Clients) /\ clients # <<>> /\ current \in Clients /\ ~is_enqueued[current]
    BY <1>1, <1>6, <2>1 DEF Requeue, GoodState, CurrentAlone, ListOK
  <2>3. /\ InsertAfter(clients, p, current) # <<>>
        /\ Head(InsertAfter(clients, p, current)) = Head(clients)
    <3>1. /\ InsertAfter(clients, p, current) \in Seq(Clients)
          /\ Len(InsertAfter(clients, p, current)) = Len(clients) + 1
          /\ InsertAfter(clients, p, current)[1] = clients[1]
      BY <2>2, InsertAfterShape
    <3> QED BY <2>2, <3>1
  <2>4. Head(clients) # current
    BY <1>1, <2>2 DEF ListOK
  <2>5. net[Head(clients)] = next_event_time[Head(clients)]
    BY <1>1, <1>3, <2>2, <2>4 DEF Times
  <2>6. time' = time \/ time' = next_event_time[Head(clients)]
    BY <2>1, <2>3, <2>5 DEF LeaveCurrent, PopFirst
  <2> QED BY <1>2, <1>3, <2>2, <2>6
<1>7. CASE Retire
  <2>1. time' = time \/ (clients # <<>> /\ time' = next_event_time[Head(clients)])
    BY <1>7 DEF Retire, LeaveCurrent, PopFirst
  <2> QED BY <1>2, <1>3, <2>1
<1>8. CASE SetRunReq \/ UNCHANGED vars
  BY <1>2, <1>8 DEF SetRunReq, vars
<1>9. ASSUME NEW c \in Clients, NEW d \in 0..MaxDelay, Enqueue(c, d) \/ Dequeue(c) PROVE A
  BY <1>2, <1>9 DEF Enqueue, Dequeue
<1>10. ASSUME NEW d \in -1..MaxDelay, StopSame(d) PROVE A
  BY <1>2, <1>10 DEF StopSame
<1> QED BY <1>4, <1>5, <1>6, <1>7, <1>8, <1>9, <1>10, MaxDelay \in Nat DEF Next, ExecReturn

(* The simulated time is monotone and never jumps over a waiting client.     *)
THEOREM TimeAdvancesCorrect == Spec => TimeAdvances
<1>1. Inv /\ [Next]_vars =>
        [/\ time' >= time
         /\ \A i \in 1..Len(clients) : time' <= next_event_time[clients[i]]]_vars
  BY StepAdvances
<1> QED BY <1>1, InitInv, NextInv, PTL DEF Spec, TimeAdvances

-----------------------------------------------------------------------------
(* The schedulers.                                                          *)

(* What the list s of a scheduler c must satisfy at time lo, given the      *)
(* dates et of the events.                                                  *)
EventsOK(s, c, et, lo) ==
  /\ s \in Seq(Events)
  /\ \A i, j \in 1..Len(s) : s[i] = s[j] => i = j
  /\ \A i \in 1..Len(s) : Owner[s[i]] = c
  /\ \A i, j \in 1..Len(s) : i <= j => et[s[i]] <= et[s[j]]
  /\ \A i \in 1..Len(s) : et[s[i]] >= lo /\ et[s[i]] <= lo + MaxDelay

(* Every scheduler that has events is planned in the engine, at the date of *)
(* the first of them, and no other is; the running one is not planned.      *)
Planned(net, enq, run) ==
  \A c \in Clients :
    /\ enq[c] => first_event[c] # <<>> /\ net[c] = event_time[first_event[c][1]]
    /\ first_event[c] # <<>> /\ ~run[c] => enq[c]

SchedulerInv ==
  /\ first_event \in [Clients -> Seq(Events)]
  /\ event_time \in [Events -> 0..MaxTime]
  /\ handler # None => current # None
  /\ \A c \in Clients : EventsOK(first_event[c], c, event_time, time)
  /\ Planned(next_event_time, is_enqueued, running)

SInv == Inv /\ SchedulerInv

-----------------------------------------------------------------------------
(* The lists of events.                                                     *)

(* r is s with e linked after its first p elements.                         *)
Linking(r, s, p, e) ==
  /\ r \in Seq(Events) /\ Len(r) = Len(s) + 1
  /\ \A i \in 1..(Len(s) + 1) :
       \/ i <= p /\ i \in 1..Len(s) /\ r[i] = s[i]
       \/ i = p + 1 /\ r[i] = e
       \/ i > p + 1 /\ i - 1 \in 1..Len(s) /\ r[i] = s[i - 1]

(* et2 is et with the date t for e, which is not in s.                      *)
Dated(et2, et, s, e, t) ==
  et2[e] = t /\ \A i \in 1..Len(s) : s[i] # e /\ et2[s[i]] = et[s[i]]

(* The first event of r is e or the one of s, whichever is the earlier.     *)
FirstDate(r, et2, s, et, t) ==
  /\ r # <<>>
  /\ et2[r[1]] = IF s = <<>> \/ t <= et[s[1]] THEN t ELSE et[s[1]]

(* r holds the events of s, and e.                                          *)
WithEvent(r, s, e) ==
  \A x : (\E i \in 1..Len(r) : r[i] = x) <=> x = e \/ \E i \in 1..Len(s) : s[i] = x

(* r holds the events of s, but e.                                          *)
WithoutEvent(r, s, e) ==
  \A x : (\E i \in 1..Len(r) : r[i] = x) <=> x # e /\ \E i \in 1..Len(s) : s[i] = x

(* The list of a scheduler after the walk of its enqueue.                   *)
LEMMA EventInsertShape ==
  ASSUME NEW s \in Seq(Events), NEW p \in 0..Len(s), NEW e \in Events
  PROVE  Linking(InsertAfter(s, p, e), s, p, e)
BY DEF InsertAfter, Linking

(* It is a good list again: the walk stops where the date belongs.          *)
LEMMA EventInsertOK ==
  ASSUME NEW c \in Clients, NEW s, NEW et \in [Events -> 0..MaxTime], NEW lo \in Nat,
         NEW e \in Events, NEW t \in 0..MaxTime, NEW p \in 0..Len(s),
         EventsOK(s, c, et, lo), Owner[e] = c, t >= lo, t <= lo + MaxDelay,
         InsertPoint(s, et, p, t), NEW r, Linking(r, s, p, e), NEW et2, Dated(et2, et, s, e, t)
  PROVE  EventsOK(r, c, et2, lo) /\ FirstDate(r, et2, s, et, t) /\ WithEvent(r, s, e)
<1> USE TimeEngineAssumption
<1>1. /\ s \in Seq(Events) /\ Len(s) \in Nat /\ p \in Int
      /\ \A i \in 1..Len(s) : s[i] \in Events /\ s[i] # e /\ et[s[i]] \in Int
  BY DEF EventsOK, Dated
<1>2. /\ r \in Seq(Events) /\ Len(r) = Len(s) + 1
      /\ \A i \in 1..(Len(s) + 1) :
           \/ i <= p /\ i \in 1..Len(s) /\ r[i] = s[i]
           \/ i = p + 1 /\ r[i] = e
           \/ i > p + 1 /\ i - 1 \in 1..Len(s) /\ r[i] = s[i - 1]
  BY DEF Linking
<1>3. et2[e] = t /\ \A i \in 1..Len(s) : et2[s[i]] = et[s[i]]
  BY DEF Dated
<1>4. /\ \A i, j \in 1..Len(s) : s[i] = s[j] => i = j
      /\ \A i, j \in 1..Len(s) : i <= j => et[s[i]] <= et[s[j]]
      /\ \A i \in 1..Len(s) : Owner[s[i]] = c /\ et[s[i]] >= lo /\ et[s[i]] <= lo + MaxDelay
  BY DEF EventsOK
<1>5. ASSUME NEW i \in 1..Len(s)
      PROVE  (i <= p => et[s[i]] < t) /\ (i > p => et[s[i]] >= t)
  <2>1. CASE i <= p
    BY <1>1, <2>1 DEF InsertPoint
  <2>2. CASE i > p
    <3>1. p < Len(s) /\ p + 1 \in 1..Len(s) /\ p + 1 <= i
      BY <1>1, <2>2
    <3>2. et[s[p + 1]] >= t
      BY <3>1 DEF InsertPoint
    <3>3. et[s[p + 1]] <= et[s[i]]
      BY <1>4, <3>1
    <3>4. et[s[p + 1]] \in Int /\ et[s[i]] \in Int
      BY <1>1, <3>1
    <3> QED BY <2>2, <3>2, <3>3, <3>4
  <2> QED BY <1>1, <2>1, <2>2
<1>6. ASSUME NEW i \in 1..Len(r)
      PROVE  /\ i \in Int /\ et2[r[i]] \in Int
             /\ i <= p => i \in 1..Len(s) /\ r[i] = s[i] /\ et2[r[i]] = et[s[i]]
             /\ i = p + 1 => r[i] = e /\ et2[r[i]] = t
             /\ i > p + 1 => i - 1 \in 1..Len(s) /\ r[i] = s[i - 1] /\ et2[r[i]] = et[s[i - 1]]
  <2>1. i \in 1..(Len(s) + 1) /\ i \in Int
    BY <1>1, <1>2
  <2>2. \/ i <= p /\ i \in 1..Len(s) /\ r[i] = s[i]
        \/ i = p + 1 /\ r[i] = e
        \/ i > p + 1 /\ i - 1 \in 1..Len(s) /\ r[i] = s[i - 1]
    BY <1>2, <2>1
  <2>3. CASE i <= p
    <3>1. i \in 1..Len(s) /\ r[i] = s[i]
      BY <1>1, <2>1, <2>3, <2>2
    <3>2. et2[s[i]] = et[s[i]] /\ et[s[i]] \in Int
      BY <1>1, <1>3, <3>1
    <3> QED BY <1>1, <2>1, <2>3, <3>1, <3>2
  <2>4. CASE i = p + 1
    <3>1. r[i] = e
      BY <1>1, <2>1, <2>4, <2>2
    <3> QED BY <1>1, <1>3, <2>1, <2>4, <3>1
  <2>5. CASE i > p + 1
    <3>1. i - 1 \in 1..Len(s) /\ r[i] = s[i - 1]
      BY <1>1, <2>1, <2>5, <2>2
    <3>2. et2[s[i - 1]] = et[s[i - 1]] /\ et[s[i - 1]] \in Int
      BY <1>1, <1>3, <3>1
    <3> QED BY <1>1, <2>1, <2>5, <3>1, <3>2
  <2> QED BY <1>1, <2>1, <2>3, <2>4, <2>5
<1>7. ASSUME NEW i \in 1..Len(r), NEW j \in 1..Len(r), r[i] = r[j]
      PROVE  i = j
  <2>1. /\ i \in Int
        /\ i <= p => i \in 1..Len(s) /\ r[i] = s[i]
        /\ i = p + 1 => r[i] = e
        /\ i > p + 1 => i - 1 \in 1..Len(s) /\ r[i] = s[i - 1]
    BY <1>6
  <2>2. /\ j \in Int
        /\ j <= p => j \in 1..Len(s) /\ r[j] = s[j]
        /\ j = p + 1 => r[j] = e
        /\ j > p + 1 => j - 1 \in 1..Len(s) /\ r[j] = s[j - 1]
    BY <1>6
  <2>3. CASE i = p + 1
    BY <1>1, <1>7, <2>1, <2>2, <2>3, SMTT(30)
  <2>4. CASE j = p + 1
    BY <1>1, <1>7, <2>1, <2>2, <2>4, SMTT(30)
  <2>5. CASE i # p + 1 /\ j # p + 1
    <3>1. CASE i <= p /\ j <= p
      BY <1>4, <1>7, <2>1, <2>2, <3>1
    <3>2. CASE i <= p /\ j > p + 1
      <4>1. i \in 1..Len(s) /\ j - 1 \in 1..Len(s) /\ s[i] = s[j - 1]
        BY <1>7, <2>1, <2>2, <3>2
      <4>2. i = j - 1
        BY <1>4, <4>1
      <4> QED BY <1>1, <2>1, <2>2, <3>2, <4>2
    <3>3. CASE i > p + 1 /\ j <= p
      <4>1. i - 1 \in 1..Len(s) /\ j \in 1..Len(s) /\ s[i - 1] = s[j]
        BY <1>7, <2>1, <2>2, <3>3
      <4>2. i - 1 = j
        BY <1>4, <4>1
      <4> QED BY <1>1, <2>1, <2>2, <3>3, <4>2
    <3>4. CASE i > p + 1 /\ j > p + 1
      <4>1. i - 1 \in 1..Len(s) /\ j - 1 \in 1..Len(s) /\ s[i - 1] = s[j - 1]
        BY <1>7, <2>1, <2>2, <3>4
      <4>2. i - 1 = j - 1
        BY <1>4, <4>1
      <4> QED BY <2>1, <2>2, <4>2
    <3> QED BY <1>1, <2>1, <2>2, <2>5, <3>1, <3>2, <3>3, <3>4
  <2> QED BY <2>3, <2>4, <2>5
<1>8. ASSUME NEW i \in 1..Len(r), NEW j \in 1..Len(r), i <= j
      PROVE  et2[r[i]] <= et2[r[j]]
  <2>1. CASE j <= p
    BY <1>1, <1>4, <1>6, <1>8, <2>1, SMTT(30)
  <2>2. CASE i > p + 1
    <3>1. /\ i - 1 \in 1..Len(s) /\ j - 1 \in 1..Len(s) /\ i - 1 <= j - 1
          /\ et2[r[i]] = et[s[i - 1]] /\ et2[r[j]] = et[s[j - 1]]
      BY <1>1, <1>6, <1>8, <2>2
    <3> QED BY <1>4, <3>1
  <2>3. CASE i <= p + 1 /\ j > p
    <3>1. et2[r[i]] <= t
      <4>1. CASE i = p + 1
        BY <1>6, <4>1
      <4>2. CASE i <= p
        <5>1. i \in 1..Len(s) /\ et2[r[i]] = et[s[i]]
          BY <1>6, <4>2
        <5>2. et[s[i]] < t /\ et[s[i]] \in Int
          BY <1>1, <1>5, <4>2, <5>1
        <5> QED BY <5>1, <5>2
      <4> QED BY <1>1, <1>6, <2>3, <4>1, <4>2
    <3>2. et2[r[j]] >= t
      <4>1. CASE j = p + 1
        BY <1>6, <4>1
      <4>2. CASE j > p + 1
        <5>1. j - 1 \in 1..Len(s) /\ j - 1 > p /\ et2[r[j]] = et[s[j - 1]]
          BY <1>1, <1>6, <4>2
        <5> QED BY <1>5, <5>1
      <4> QED BY <1>1, <1>6, <2>3, <4>1, <4>2
    <3> QED BY <1>6, <3>1, <3>2, SMTT(30)
  <2> QED BY <1>1, <1>6, <2>1, <2>2, <2>3
<1>9. ASSUME NEW i \in 1..Len(r)
      PROVE  Owner[r[i]] = c /\ et2[r[i]] >= lo /\ et2[r[i]] <= lo + MaxDelay
  <2>1. CASE i <= p
    BY <1>4, <1>6, <2>1, SMTT(30)
  <2>2. CASE i = p + 1
    BY <1>6, <2>2
  <2>3. CASE i > p + 1
    <3>1. i - 1 \in 1..Len(s) /\ r[i] = s[i - 1] /\ et2[r[i]] = et[s[i - 1]]
      BY <1>6, <2>3
    <3> QED BY <1>4, <3>1
  <2> QED BY <1>1, <1>6, <2>1, <2>2, <2>3
<1>10. EventsOK(r, c, et2, lo)
  BY <1>2, <1>7, <1>8, <1>9 DEF EventsOK
<1>11. r # <<>> /\ 1 \in 1..Len(r)
  BY <1>1, <1>2
<1>12. et2[r[1]] = IF s = <<>> \/ t <= et[s[1]] THEN t ELSE et[s[1]]
  <2>1. CASE p = 0
    <3>1. et2[r[1]] = t
      BY <1>6, <1>11, <2>1
    <3>2. s = <<>> \/ t <= et[s[1]]
      <4> SUFFICES ASSUME s # <<>> PROVE t <= et[s[1]]
        OBVIOUS
      <4>1. 1 \in 1..Len(s) /\ 1 > p
        BY <1>1, <2>1
      <4> QED BY <1>1, <1>5, <4>1
    <3> QED BY <3>1, <3>2
  <2>2. CASE p # 0
    <3>1. 1 <= p /\ 1 \in 1..Len(s) /\ s # <<>>
      BY <1>1, <2>2
    <3>2. et2[r[1]] = et[s[1]] /\ et[s[1]] < t
      BY <1>5, <1>6, <1>11, <3>1
    <3> QED BY <1>1, <3>1, <3>2
  <2> QED BY <2>1, <2>2
<1>13. ASSUME NEW x
       PROVE  (\E i \in 1..Len(r) : r[i] = x) <=> x = e \/ \E i \in 1..Len(s) : s[i] = x
  <2>1. ASSUME NEW i \in 1..Len(s), s[i] = x PROVE \E j \in 1..Len(r) : r[j] = x
    <3>1. CASE i <= p
      <4>1. i \in 1..Len(r) /\ r[i] = s[i]
        BY <1>1, <1>2, <3>1, SMTT(30)
      <4> QED BY <2>1, <4>1
    <3>2. CASE i > p
      <4>1. i + 1 \in 1..Len(r) /\ i + 1 \in 1..(Len(s) + 1) /\ i + 1 > p + 1 /\ (i + 1) - 1 = i
        BY <1>1, <1>2, <3>2
      <4>2. r[i + 1] = s[(i + 1) - 1]
        BY <1>6, <4>1
      <4> QED BY <2>1, <4>1, <4>2
    <3> QED BY <1>1, <3>1, <3>2
  <2>2. p + 1 \in 1..Len(r) /\ r[p + 1] = e
    BY <1>1, <1>2
  <2>3. ASSUME NEW j \in 1..Len(r), r[j] = x PROVE x = e \/ \E i \in 1..Len(s) : s[i] = x
    <3>1. CASE j <= p
      BY <1>6, <2>3, <3>1
    <3>2. CASE j = p + 1
      BY <1>6, <2>3, <3>2
    <3>3. CASE j > p + 1
      <4>1. j - 1 \in 1..Len(s) /\ r[j] = s[j - 1]
        BY <1>6, <3>3
      <4> QED BY <2>3, <4>1
    <3> QED BY <1>1, <1>6, <3>1, <3>2, <3>3
  <2> QED BY <2>1, <2>2, <2>3
<1> QED BY <1>10, <1>11, <1>12, <1>13 DEF FirstDate, WithEvent

(* A list stays good while the time moves to a date no later than its own.  *)
LEMMA EventsLater ==
  ASSUME NEW s, NEW c, NEW et \in [Events -> 0..MaxTime], NEW lo \in Nat, NEW t \in Nat,
         EventsOK(s, c, et, lo), t >= lo, s # <<>> => t <= et[s[1]]
  PROVE  EventsOK(s, c, et, t)
<1>1. /\ s \in Seq(Events) /\ Len(s) \in Nat
      /\ \A i \in 1..Len(s) : s[i] \in Events /\ et[s[i]] \in Int
      /\ \A i, j \in 1..Len(s) : i <= j => et[s[i]] <= et[s[j]]
      /\ \A i \in 1..Len(s) : et[s[i]] <= lo + MaxDelay
  BY TimeEngineAssumption DEF EventsOK
<1>2. \A i \in 1..Len(s) : et[s[i]] >= t /\ et[s[i]] <= t + MaxDelay
  <2> SUFFICES ASSUME NEW i \in 1..Len(s) PROVE et[s[i]] >= t /\ et[s[i]] <= t + MaxDelay
    OBVIOUS
  <2>1. 1 \in 1..Len(s) /\ s # <<>> /\ 1 <= i
    BY <1>1
  <2>2. et[s[1]] <= et[s[i]] /\ et[s[1]] \in Int /\ et[s[i]] \in Int
    BY <1>1, <2>1
  <2> QED BY <1>1, <2>1, <2>2, TimeEngineAssumption
<1> QED BY <1>2 DEF EventsOK

(* exec() unlinks the first event.                                          *)
LEMMA EventsTail ==
  ASSUME NEW s, NEW c, NEW et, NEW lo, EventsOK(s, c, et, lo), s # <<>>
  PROVE  /\ EventsOK(Tail(s), c, et, lo)
         /\ Head(s) = s[1] /\ s[1] \in Events /\ Owner[s[1]] = c
         /\ WithoutEvent(Tail(s), s, s[1])
<1>1. s \in Seq(Events) /\ Len(s) \in Nat /\ Len(s) >= 1 /\ Head(s) = s[1] /\ s[1] \in Events
  BY DEF EventsOK
<1>2. /\ Tail(s) \in Seq(Events) /\ Len(Tail(s)) = Len(s) - 1
      /\ \A i \in 1..Len(Tail(s)) : i + 1 \in 1..Len(s) /\ Tail(s)[i] = s[i + 1]
  BY <1>1
<1>3. EventsOK(Tail(s), c, et, lo)
  BY <1>1, <1>2 DEF EventsOK
<1>4. \A i, j \in 1..Len(s) : s[i] = s[j] => i = j
  BY DEF EventsOK
<1>5. ASSUME NEW x
      PROVE  (\E i \in 1..Len(Tail(s)) : Tail(s)[i] = x)
               <=> x # s[1] /\ \E i \in 1..Len(s) : s[i] = x
  <2>1. ASSUME NEW i \in 1..Len(Tail(s)), Tail(s)[i] = x
        PROVE  x # s[1] /\ \E j \in 1..Len(s) : s[j] = x
    BY <1>1, <1>2, <1>4, <2>1
  <2>2. ASSUME NEW i \in 1..Len(s), s[i] = x, x # s[1]
        PROVE  \E j \in 1..Len(Tail(s)) : Tail(s)[j] = x
    <3>1. i - 1 \in 1..Len(Tail(s)) /\ Tail(s)[i - 1] = s[i]
      BY <1>1, <1>2, <2>2
    <3> QED BY <2>2, <3>1
  <2> QED BY <2>1, <2>2
<1>6. Owner[s[1]] = c
  BY <1>1 DEF EventsOK
<1> QED BY <1>1, <1>3, <1>5, <1>6 DEF WithoutEvent

-----------------------------------------------------------------------------
(* The loop.                                                                *)

(* t is the date of the earliest of all the events.                         *)
Earliest(t) ==
  /\ \E c \in Clients : first_event[c] # <<>> /\ t = event_time[first_event[c][1]]
  /\ \A c \in Clients : first_event[c] # <<>> => t <= event_time[first_event[c][1]]

(* The fields that the proofs below keep using.                             *)
LEMMA SInvFacts ==
  ASSUME SInv
  PROVE  /\ time \in Nat /\ time \in 0..MaxTime /\ next_event_time \in Times
         /\ is_enqueued \in Flags /\ running \in Flags /\ current \in Clients \cup {None}
         /\ ListOK(clients, next_event_time, is_enqueued, time)
         /\ \A c \in Clients : running[c] <=> c = current
         /\ current # None => ~is_enqueued[current]
         /\ \A c \in Clients : first_event[c] # <<>> =>
              first_event[c][1] \in Events /\ event_time[first_event[c][1]] \in 0..MaxTime
<1>1. GoodState
  BY GoodInv DEF SInv
<1>2. \A c \in Clients : first_event[c] # <<>> => first_event[c][1] \in Events
  BY DEF SInv, SchedulerInv
<1> QED BY <1>1, <1>2, TimeEngineAssumption DEF GoodState, CurrentAlone, SInv, SchedulerInv

(* The client that run_loop pops has the earliest event, and it is due.     *)
LEMMA PopKeeps ==
  ASSUME SInv, NEW list, NEW net \in Times, NEW enq \in Flags, NEW run \in Flags,
         ListOK(list, net, enq, time), list # <<>>, \A c \in Clients : ~run[c],
         Planned(net, enq, run), handler = None,
         PopFirst(list, net, enq, run), next_event_time' = net,
         UNCHANGED <<first_event, event_time, handler>>
  PROVE  SchedulerInv' /\ Earliest(time')
<1> DEFINE c == Head(list)
<1>1. /\ c \in Clients /\ enq[c] /\ net[c] >= time
      /\ \A i \in 1..Len(list) : net[c] <= net[list[i]]
  <2>1. time \in Int
    BY SInvFacts
  <2> QED BY <2>1, PopOK
<1>2. /\ is_enqueued' = [enq EXCEPT ![c] = FALSE] /\ running' = [run EXCEPT ![c] = TRUE]
      /\ time' = net[c] /\ current' = c
  BY DEF PopFirst
<1> HIDE DEF c
<1>3. first_event[c] # <<>> /\ net[c] = event_time[first_event[c][1]]
  BY <1>1 DEF Planned
<1>4. ASSUME NEW d \in Clients, first_event[d] # <<>>
      PROVE  net[c] <= event_time[first_event[d][1]]
  <2>1. enq[d] /\ net[d] = event_time[first_event[d][1]]
    BY <1>4 DEF Planned
  <2>2. PICK i \in 1..Len(list) : list[i] = d
    BY <2>1 DEF ListOK
  <2> QED BY <1>1, <2>1, <2>2
<1>5. Earliest(time')
  BY <1>1, <1>2, <1>3, <1>4 DEF Earliest
<1>6. time \in Nat /\ time' \in Nat /\ time' >= time
  BY <1>1, <1>2, SInvFacts, TimeEngineAssumption DEF Times
<1>7. ASSUME NEW d \in Clients PROVE EventsOK(first_event'[d], d, event_time', time')
  <2>1. EventsOK(first_event[d], d, event_time, time) /\ event_time \in [Events -> 0..MaxTime]
    BY DEF SInv, SchedulerInv
  <2>2. first_event[d] # <<>> => time' <= event_time[first_event[d][1]]
    BY <1>2, <1>4
  <2> QED BY <1>6, <2>1, <2>2, EventsLater
<1>8. Planned(next_event_time, is_enqueued, running)'
  BY <1>1, <1>2 DEF Planned, Flags
<1> QED BY <1>5, <1>7, <1>8 DEF SInv, SchedulerInv

(* The client leaves the loop, planned at the date of its first event if it *)
(* has one.                                                                 *)
LEMMA LeaveKeeps ==
  ASSUME SInv, current # None, NEW list, NEW net \in Times, NEW enq \in Flags,
         ListOK(list, net, enq, time), Planned(net, enq, [running EXCEPT ![current] = FALSE]),
         handler = None, LeaveCurrent(list, net, enq),
         UNCHANGED <<first_event, event_time, handler>>
  PROVE  SchedulerInv' /\ (time' = time \/ Earliest(time'))
<1> DEFINE run == [running EXCEPT ![current] = FALSE]
<1>1. run \in Flags /\ \A c \in Clients : ~run[c]
  BY SInvFacts DEF Flags
<1> HIDE DEF run
<1>2. CASE run_req /\ list # <<>>
  <2>1. PopFirst(list, net, enq, run) /\ next_event_time' = net
    BY <1>2 DEF LeaveCurrent, run
  <2>2. Planned(net, enq, run)
    BY DEF run
  <2> QED BY <1>1, <1>2, <2>1, <2>2, PopKeeps
<1>3. CASE ~(run_req /\ list # <<>>)
  <2>1. /\ next_event_time' = net /\ is_enqueued' = enq /\ running' = run /\ time' = time
    BY <1>3 DEF LeaveCurrent, run
  <2>2. Planned(next_event_time, is_enqueued, running)'
    BY <2>1 DEF Planned, run
  <2> QED BY <2>1, <2>2 DEF SInv, SchedulerInv
<1> QED BY <1>2, <1>3

(* What exec() returns when nothing is due any more.                        *)
LEMMA ExecDelayFacts ==
  ASSUME SInv, current # None, ~Due
  PROVE  /\ current \in Clients
         /\ first_event[current] = <<>> => ExecDelay = -1
         /\ first_event[current] # <<>> =>
              /\ ExecDelay \in 1..MaxDelay
              /\ time + ExecDelay = event_time[first_event[current][1]]
<1>1. current \in Clients /\ time \in Nat
  BY SInvFacts
<1>2. ASSUME first_event[current] # <<>>
      PROVE  /\ ExecDelay = event_time[first_event[current][1]] - time
             /\ event_time[first_event[current][1]] \in Int
             /\ event_time[first_event[current][1]] # time
             /\ event_time[first_event[current][1]] >= time
             /\ event_time[first_event[current][1]] <= time + MaxDelay
  <2>1. EventsOK(first_event[current], current, event_time, time)
    BY <1>1 DEF SInv, SchedulerInv
  <2>2. /\ first_event[current] \in Seq(Events) /\ Head(first_event[current]) = first_event[current][1]
        /\ 1 \in 1..Len(first_event[current])
    BY <1>2, <2>1 DEF EventsOK
  <2>3. event_time[first_event[current][1]] \in 0..MaxTime
    BY <1>1, <1>2, SInvFacts
  <2> QED BY <1>2, <2>1, <2>2, <2>3, TimeEngineAssumption DEF Due, ExecDelay, EventsOK
<1>3. first_event[current] = <<>> => ExecDelay = -1
  BY DEF ExecDelay
<1> QED BY <1>1, <1>2, <1>3, TimeEngineAssumption

(* exec() returned: the scheduler goes on, goes back to the list at the     *)
(* date of its first event, or has no event left.                           *)
LEMMA ExecDoneKeeps ==
  ASSUME SInv, ExecDone
  PROVE  SchedulerInv' /\ (time' = time \/ Earliest(time'))
<1> DEFINE d == ExecDelay
           t == time + d
           enq == [is_enqueued EXCEPT ![current] = TRUE]
           net == [next_event_time EXCEPT ![current] = t]
           run == [running EXCEPT ![current] = FALSE]
<1>1. /\ current # None /\ handler = None /\ ~Due /\ ExecReturn(d)
      /\ UNCHANGED <<first_event, event_time, handler>>
  BY DEF ExecDone
<1>2. /\ current \in Clients
      /\ first_event[current] = <<>> => d = -1
      /\ first_event[current] # <<>> => d \in 1..MaxDelay /\ t = event_time[first_event[current][1]]
  BY <1>1, ExecDelayFacts
<1>3. /\ time \in Nat /\ time \in 0..MaxTime /\ next_event_time \in Times
      /\ is_enqueued \in Flags /\ running \in Flags
      /\ ListOK(clients, next_event_time, is_enqueued, time)
      /\ ~is_enqueued[current] /\ \A c \in Clients : running[c] <=> c = current
      /\ Planned(next_event_time, is_enqueued, running)
  BY <1>1, SInvFacts DEF SInv, SchedulerInv
<1> HIDE DEF d
<1>4. d > 0 => first_event[current] # <<>> /\ d \in Nat /\ t >= time
  BY <1>2, <1>3, TimeEngineAssumption
<1>5. d > 0 => Planned(net, enq, run)
  BY <1>2, <1>3, <1>4 DEF Planned, Times, Flags
<1>6. CASE ContinueSame(d)
  <2>1. /\ time' = t /\ d > 0 /\ t <= MaxTime /\ Shortcut(t)
        /\ UNCHANGED <<clients, next_event_time, is_enqueued, running, current>>
    BY <1>6 DEF ContinueSame
  <2>2. t \in Nat /\ t >= time /\ t = event_time[first_event[current][1]]
    BY <1>2, <1>3, <1>4, <2>1
  <2>3. ASSUME NEW c \in Clients, first_event[c] # <<>>
        PROVE  t <= event_time[first_event[c][1]]
    <3>1. CASE c = current
      BY <1>2, <1>3, <1>4, <2>1, <3>1
    <3>2. CASE c # current
      <4>1. is_enqueued[c] /\ next_event_time[c] = event_time[first_event[c][1]]
        BY <1>3, <2>3, <3>2 DEF Planned
      <4>2. PICK i \in 1..Len(clients) : clients[i] = c
        BY <1>3, <4>1 DEF ListOK
      <4>3. clients # <<>>
        BY <4>2, EmptySeq
      <4>4. /\ next_event_time[Head(clients)] \in Int /\ next_event_time[c] \in Int
            /\ next_event_time[Head(clients)] <= next_event_time[c]
        <5>1. time \in Int
          BY <1>3
        <5>2. Head(clients) \in Clients
          BY <1>3, <4>3, <5>1, PopOK
        <5>3. \A k \in 1..Len(clients) : next_event_time[Head(clients)] <= next_event_time[clients[k]]
          BY <1>3, <4>3, <5>1, PopOK
        <5> QED BY <1>3, <4>2, <5>2, <5>3 DEF Times
      <4>5. next_event_time[Head(clients)] >= t
        BY <2>1, <4>3 DEF Shortcut
      <4> QED BY <2>2, <4>1, <4>4, <4>5
    <3> QED BY <3>1, <3>2
  <2>4. Earliest(time')
    BY <1>2, <1>4, <2>1, <2>2, <2>3 DEF Earliest
  <2>5. ASSUME NEW c \in Clients PROVE EventsOK(first_event'[c], c, event_time', time')
    <3>1. EventsOK(first_event[c], c, event_time, time) /\ event_time \in [Events -> 0..MaxTime]
      BY DEF SInv, SchedulerInv
    <3>2. t \in Nat /\ t >= time /\ time \in Nat
      BY <1>3, <2>2
    <3> QED BY <1>1, <2>1, <2>3, <3>1, <3>2, EventsLater
  <2>6. Planned(next_event_time, is_enqueued, running)'
    BY <1>1, <1>3, <2>1 DEF Planned
  <2> QED BY <1>1, <2>1, <2>4, <2>5, <2>6 DEF SInv, SchedulerInv
<1>7. CASE StopSame(d)
  <2>1. /\ time' = time /\ d > 0 /\ next_event_time' = net /\ is_enqueued' = enq /\ running' = run
    BY <1>7 DEF StopSame
  <2>2. Planned(next_event_time, is_enqueued, running)'
    BY <1>1, <1>5, <2>1 DEF Planned
  <2> QED BY <1>1, <2>1, <2>2 DEF SInv, SchedulerInv
<1>8. CASE Requeue(d)
  <2>1. d > 0 /\ t <= MaxTime /\ ~Shortcut(t)
    BY <1>8 DEF Requeue
  <2>2. PICK p \in 1..Len(clients) :
          /\ \A i \in 2..p : next_event_time[clients[i]] < t
          /\ p < Len(clients) => next_event_time[clients[p + 1]] >= t
          /\ LeaveCurrent(InsertAfter(clients, p, current), net, enq)
    BY <1>8 DEF Requeue
  <2>3. /\ t \in 0..MaxTime /\ t \in Int /\ t >= time /\ time \in Int
    BY <1>3, <1>4, <2>1, TimeEngineAssumption
  <2>4. clients \in Seq(Clients) /\ clients # <<>> /\ next_event_time[clients[1]] < t
    <3>1. /\ clients \in Seq(Clients) /\ clients # <<>>
          /\ ~(next_event_time[Head(clients)] >= t) /\ Head(clients) = clients[1]
      BY <1>3, <2>1, <2>2 DEF ListOK, Shortcut
    <3>2. next_event_time[Head(clients)] \in Int
      BY <1>3, <2>3, <3>1, PopOK DEF Times
    <3> QED BY <2>3, <3>1, <3>2
  <2> HIDE DEF t
  <2>5. p \in 0..Len(clients) /\ InsertPoint(clients, next_event_time, p, t)
    BY <2>2, <2>4 DEF InsertPoint
  <2>6. ListOK(InsertAfter(clients, p, current), net, enq, time)
    BY <1>2, <1>3, <2>3, <2>5, InsertOK
  <2>7. net \in Times /\ enq \in Flags /\ Planned(net, enq, run)
    BY <1>3, <1>5, <2>1, <2>3 DEF Times, Flags
  <2> HIDE DEF net, enq
  <2> QED BY <1>1, <2>2, <2>6, <2>7, LeaveKeeps
<1>9. CASE d <= 0 /\ Retire
  <2>1. first_event[current] = <<>>
    BY <1>2, <1>9, TimeEngineAssumption
  <2>2. Planned(next_event_time, is_enqueued, run)
    BY <1>2, <1>3, <2>1 DEF Planned, Flags
  <2> QED BY <1>1, <1>3, <1>9, <2>2, LeaveKeeps DEF Retire
<1> QED BY <1>1, <1>6, <1>7, <1>8, <1>9 DEF ExecReturn

-----------------------------------------------------------------------------
(* Events.                                                                  *)

(* A posted event is linked at its date, in the list of its owner only.     *)
LEMMA PostKeeps ==
  ASSUME SInv, NEW e \in Events, NEW delay \in 0..MaxDelay, Post(e, delay)
  PROVE  /\ SchedulerInv' /\ time' = time
         /\ Dates[e] = -1 /\ Dates' = [Dates EXCEPT ![e] = time + delay]
         /\ time + delay \in Nat /\ time + delay >= time
<1> DEFINE c == Owner[e]
           t == time + delay
           s == first_event[c]
<1> USE TimeEngineAssumption, OwnerAssumption
<1>1. /\ c \in Clients /\ time \in Nat /\ next_event_time \in Times /\ is_enqueued \in Flags
      /\ EventsOK(s, c, event_time, time) /\ event_time \in [Events -> 0..MaxTime]
      /\ first_event \in [Clients -> Seq(Events)]
      /\ Planned(next_event_time, is_enqueued, running)
      /\ running[c] => ~is_enqueued[c]
  BY SInvFacts DEF SInv, SchedulerInv
<1>2. /\ UNCHANGED <<time, running, current, handler>> /\ e \notin Linked /\ t <= MaxTime
      /\ event_time' = [event_time EXCEPT ![e] = t]
      /\ EnqueueAt(c, t)
  BY DEF Post, sched_enqueue, enqueue
<1>3. t \in 0..MaxTime /\ t \in Nat /\ t >= time /\ t <= time + MaxDelay
  BY <1>1, <1>2
<1>4. \A i \in 1..Len(s) : s[i] # e
  BY <1>2 DEF Linked
<1>5. PICK p \in 0..Len(s) :
        /\ InsertPoint(s, event_time, p, t)
        /\ first_event' = [first_event EXCEPT ![c] = InsertAfter(s, p, e)]
  BY DEF Post, sched_enqueue
<1> DEFINE r == InsertAfter(s, p, e)
<1> HIDE DEF t, s, c
<1>6. /\ EventsOK(r, c, event_time', time)
      /\ FirstDate(r, event_time', s, event_time, t) /\ WithEvent(r, s, e)
  <2>1. Owner[e] = c
    BY DEF c
  <2>2. /\ c \in Clients /\ event_time \in [Events -> 0..MaxTime] /\ time \in Nat
        /\ t \in 0..MaxTime /\ EventsOK(s, c, event_time, time) /\ t >= time /\ t <= time + MaxDelay
        /\ InsertPoint(s, event_time, p, t)
    BY <1>1, <1>3, <1>5
  <2>3. Linking(r, s, p, e)
    BY <1>1, EventInsertShape DEF EventsOK
  <2>4. Dated(event_time', event_time, s, e, t)
    <3>1. \A i \in 1..Len(s) : s[i] \in Events
      BY <1>1 DEF EventsOK
    <3> QED BY <1>1, <1>2, <1>4, <3>1 DEF Dated
  <2> HIDE DEF r
  <2> QED BY <2>1, <2>2, <2>3, <2>4, EventInsertOK
<1> HIDE DEF r
<1>7. /\ first_event' \in [Clients -> Seq(Events)] /\ event_time' \in [Events -> 0..MaxTime]
      /\ first_event'[c] = r /\ \A d \in Clients : d # c => first_event'[d] = first_event[d]
      /\ event_time'[e] = t /\ \A x \in Events : x # e => event_time'[x] = event_time[x]
  <2>1. r \in Seq(Events)
    BY <1>6 DEF EventsOK
  <2> QED BY <1>1, <1>2, <1>3, <1>5, <2>1 DEF r
<1>8. ASSUME NEW d \in Clients, d # c
      PROVE  \A i \in 1..Len(first_event[d]) :
               /\ first_event[d][i] \in Events /\ first_event[d][i] # e
               /\ event_time'[first_event[d][i]] = event_time[first_event[d][i]]
  <2>1. EventsOK(first_event[d], d, event_time, time)
    BY DEF SInv, SchedulerInv
  <2>2. \A i \in 1..Len(first_event[d]) : first_event[d][i] \in Events /\ first_event[d][i] # e
    BY <1>8, <2>1 DEF EventsOK, c
  <2> QED BY <1>7, <2>2
<1>9. ASSUME NEW d \in Clients PROVE EventsOK(first_event'[d], d, event_time', time')
  <2>1. CASE d = c
    BY <1>2, <1>6, <1>7, <2>1
  <2>2. CASE d # c
    <3>1. EventsOK(first_event[d], d, event_time, time) /\ first_event'[d] = first_event[d]
      BY <1>7, <2>2 DEF SInv, SchedulerInv
    <3> QED BY <1>2, <1>8, <2>2, <3>1 DEF EventsOK
  <2> QED BY <2>1, <2>2
<1>10. /\ r # <<>>
       /\ event_time'[r[1]] = IF s = <<>> \/ t <= event_time[s[1]] THEN t ELSE event_time[s[1]]
  BY <1>6 DEF FirstDate
<1>11. /\ is_enqueued[c] => s # <<>> /\ next_event_time[c] = event_time[s[1]]
       /\ s # <<>> /\ ~running[c] => is_enqueued[c]
       /\ next_event_time[c] \in Int
  BY <1>1 DEF Planned, s, Times
<1>12. /\ is_enqueued'[c] => next_event_time'[c] = event_time'[r[1]]
       /\ ~running[c] => is_enqueued'[c]
       /\ \A d \in Clients : d # c => is_enqueued'[d] = is_enqueued[d]
                                      /\ next_event_time'[d] = next_event_time[d]
  <2>1. CASE EnqueueIgnored(c, t)
    <3>1. UNCHANGED <<is_enqueued, next_event_time>>
      BY <1>2, <2>1 DEF EnqueueAt
    <3>2. CASE running[c]
      BY <1>1, <3>1, <3>2
    <3>3. CASE is_enqueued[c] /\ next_event_time[c] <= t
      BY <1>3, <1>10, <1>11, <3>1, <3>3
    <3> QED BY <2>1, <3>2, <3>3 DEF EnqueueIgnored
  <2>2. CASE ~EnqueueIgnored(c, t)
    <3>1. /\ next_event_time' = [next_event_time EXCEPT ![c] = t]
          /\ is_enqueued' = [is_enqueued EXCEPT ![c] = TRUE]
      BY <1>2, <2>2 DEF EnqueueAt
    <3>2. /\ next_event_time'[c] = t /\ is_enqueued'[c]
          /\ \A d \in Clients : d # c => is_enqueued'[d] = is_enqueued[d]
                                         /\ next_event_time'[d] = next_event_time[d]
      BY <1>1, <3>1 DEF Times, Flags
    <3>3. ~running[c] /\ ~(is_enqueued[c] /\ next_event_time[c] <= t)
      BY <2>2 DEF EnqueueIgnored
    <3>4. event_time'[r[1]] = t
      BY <1>3, <1>10, <1>11, <3>3
    <3> QED BY <3>2, <3>4
  <2> QED BY <2>1, <2>2
<1>13. Planned(next_event_time, is_enqueued, running)'
  <2> SUFFICES ASSUME NEW d \in Clients
               PROVE  /\ is_enqueued'[d] => /\ first_event'[d] # <<>>
                                            /\ next_event_time'[d] = event_time'[first_event'[d][1]]
                      /\ first_event'[d] # <<>> /\ ~running'[d] => is_enqueued'[d]
    BY DEF Planned
  <2>1. CASE d = c
    BY <1>2, <1>7, <1>10, <1>12, <2>1
  <2>2. CASE d # c
    <3>1. first_event[d] # <<>> => event_time'[first_event[d][1]] = event_time[first_event[d][1]]
      <4>1. first_event[d] # <<>> => 1 \in 1..Len(first_event[d])
        BY <1>1
      <4> QED BY <1>8, <2>2, <4>1
    <3> QED BY <1>1, <1>2, <1>7, <1>12, <2>2, <3>1, ZenonT(60) DEF Planned
  <2> QED BY <2>1, <2>2
<1>14. SchedulerInv'
  BY <1>2, <1>7, <1>9, <1>13 DEF SInv, SchedulerInv
<1>15. Dates[e] = -1
  BY <1>2 DEF Dates, Linked
<1>16. Dates' = [Dates EXCEPT ![e] = t]
  <2>1. ASSUME NEW x \in Events, x # e
        PROVE  (\E i \in 1..Len(first_event'[Owner[x]]) : first_event'[Owner[x]][i] = x)
                 <=> \E i \in 1..Len(first_event[Owner[x]]) : first_event[Owner[x]][i] = x
    <3>1. CASE Owner[x] = c
      BY <1>6, <1>7, <2>1, <3>1 DEF s, WithEvent
    <3>2. CASE Owner[x] # c
      BY <1>7, <3>2
    <3> QED BY <3>1, <3>2
  <2>2. \E i \in 1..Len(first_event'[Owner[e]]) : first_event'[Owner[e]][i] = e
    BY <1>6, <1>7 DEF c, WithEvent
  <2> QED BY <1>7, <2>1, <2>2 DEF Dates, Linked
<1> QED BY <1>2, <1>3, <1>14, <1>15, <1>16 DEF t

(* exec() runs the first event of the current scheduler, at its date.       *)
LEMMA RunEventKeeps ==
  ASSUME SInv, RunEvent
  PROVE  /\ SchedulerInv'
         /\ \E e \in Events : Dates[e] = time /\ Dates' = [Dates EXCEPT ![e] = -1]
<1> DEFINE c == current
           s == first_event[c]
           e == s[1]
<1>1. /\ c \in Clients /\ time \in Nat /\ c # None /\ ~is_enqueued[c] /\ running[c]
      /\ EventsOK(s, c, event_time, time)
      /\ first_event \in [Clients -> Seq(Events)]
      /\ Planned(next_event_time, is_enqueued, running)
  BY SInvFacts DEF SInv, SchedulerInv, RunEvent
<1>2. s # <<>> /\ event_time[Head(s)] = time
  BY DEF RunEvent, Due
<1>3. /\ EventsOK(Tail(s), c, event_time, time) /\ Head(s) = e /\ e \in Events /\ Owner[e] = c
      /\ WithoutEvent(Tail(s), s, e)
  BY <1>1, <1>2, EventsTail
<1>4. /\ UNCHANGED <<time, next_event_time, is_enqueued, running, current, event_time>>
      /\ first_event' = [first_event EXCEPT ![c] = Tail(s)]
  BY DEF RunEvent, vars
<1>5. /\ first_event' \in [Clients -> Seq(Events)] /\ first_event'[c] = Tail(s)
      /\ \A d \in Clients : d # c => first_event'[d] = first_event[d]
  <2>1. Tail(s) \in Seq(Events)
    BY <1>3 DEF EventsOK
  <2> QED BY <1>1, <1>4, <2>1
<1>6. \E i \in 1..Len(s) : s[i] = e
  BY <1>1, <1>2 DEF EventsOK
<1> HIDE DEF c, s, e
<1>7. ASSUME NEW d \in Clients PROVE EventsOK(first_event'[d], d, event_time', time')
  BY <1>3, <1>4, <1>5 DEF SInv, SchedulerInv
<1>8. Planned(next_event_time, is_enqueued, running)'
  BY <1>1, <1>4, <1>5 DEF Planned
<1>9. SchedulerInv'
  BY <1>1, <1>4, <1>5, <1>7, <1>8 DEF SInv, SchedulerInv, c
<1>10. Dates[e] = time
  BY <1>2, <1>3, <1>6 DEF Dates, Linked, s
<1>11. Dates' = [Dates EXCEPT ![e] = -1]
  <2>1. ASSUME NEW x \in Events, x # e
        PROVE  (\E i \in 1..Len(first_event'[Owner[x]]) : first_event'[Owner[x]][i] = x)
                 <=> \E i \in 1..Len(first_event[Owner[x]]) : first_event[Owner[x]][i] = x
    <3>1. CASE Owner[x] = c
      <4>1. first_event'[Owner[x]] = Tail(s) /\ first_event[Owner[x]] = s
        BY <1>5, <3>1 DEF s
      <4>2. (\E i \in 1..Len(Tail(s)) : Tail(s)[i] = x) <=> x # e /\ \E i \in 1..Len(s) : s[i] = x
        BY <1>3 DEF WithoutEvent
      <4> QED BY <2>1, <4>1, <4>2
    <3>2. CASE Owner[x] # c
      BY <1>5, <3>2, OwnerAssumption
    <3> QED BY <3>1, <3>2
  <2>2. ~\E i \in 1..Len(first_event'[Owner[e]]) : first_event'[Owner[e]][i] = e
    BY <1>3, <1>5 DEF WithoutEvent
  <2> QED BY <1>3, <1>4, <2>1, <2>2, ZenonT(60) DEF Dates, Linked
<1> QED BY <1>3, <1>9, <1>10, <1>11

(* The dates do not change while the lists do not.                          *)
LEMMA DatesKept ==
  ASSUME UNCHANGED <<first_event, event_time>>
  PROVE  Dates' = Dates
BY DEF Dates, Linked

-----------------------------------------------------------------------------
(* The specification.                                                       *)

(* A step of the engine with schedulers is a step of the engine with        *)
(* arbitrary clients: exec() returns one of the delays it allows, and the   *)
(* events are posted while the client may call the engine.                  *)
LEMMA StepIsEngineStep ==
  ASSUME SInv, [SNext]_svars
  PROVE  [Next]_vars
<1> USE TimeEngineAssumption
<1>1. CASE StartLoop \/ SetRunReq
  BY <1>1 DEF Next
<1>2. CASE RunEvent \/ MethodReturns \/ UNCHANGED svars
  BY <1>2 DEF RunEvent, MethodReturns, svars, vars
<1>3. CASE ExecDone
  <2>1. current # None /\ ~Due /\ ExecReturn(ExecDelay)
    BY <1>3 DEF ExecDone
  <2>2. ExecDelay \in -1..MaxDelay
    BY <2>1, ExecDelayFacts
  <2> QED BY <2>1, <2>2 DEF Next
<1>4. ASSUME NEW e \in Events, NEW d \in 0..MaxDelay, Post(e, d) PROVE Next
  <2>1. CallersMayRun
    BY <1>4 DEF Post, CallersMayRun, SInv, SchedulerInv
  <2>2. Owner[e] \in Clients
    BY OwnerAssumption
  <2>3. Enqueue(Owner[e], d)
    BY <1>4, <2>1 DEF Post, sched_enqueue, Enqueue
  <2> QED BY <2>2, <2>3 DEF Next
<1> QED BY <1>1, <1>2, <1>3, <1>4 DEF SNext

(* The invariant holds initially: no event is posted.                       *)
LEMMA SInitInv == SInit => SInv
<1> SUFFICES ASSUME SInit PROVE SInv
  OBVIOUS
<1>1. Inv
  BY InitInv DEF SInit
<1>2. \A c \in Clients : first_event[c] = <<>> /\ ~is_enqueued[c]
  BY DEF SInit, Init
<1>3. \A c \in Clients : EventsOK(first_event[c], c, event_time, time)
  <2>1. \A c \in Clients : EventsOK(<<>>, c, event_time, time)
    BY DEF EventsOK
  <2> QED BY <1>2, <2>1
<1>4. Planned(next_event_time, is_enqueued, running)
  BY <1>2 DEF Planned
<1>5. /\ first_event \in [Clients -> Seq(Events)] /\ event_time \in [Events -> 0..MaxTime]
      /\ handler = None
  BY TimeEngineAssumption DEF SInit
<1> QED BY <1>1, <1>3, <1>4, <1>5 DEF SInv, SchedulerInv

(* StartLoop, from a loop that nobody is in.                                *)
LEMMA StartLoopKeeps ==
  ASSUME SInv, StartLoop, UNCHANGED <<first_event, event_time, handler>>
  PROVE  SchedulerInv' /\ Earliest(time')
<1>1. /\ current = None /\ clients # <<>> /\ next_event_time' = next_event_time
      /\ PopFirst(clients, next_event_time, is_enqueued, running)
  BY DEF StartLoop
<1>2. handler = None /\ Planned(next_event_time, is_enqueued, running)
  BY <1>1 DEF SInv, SchedulerInv
<1>3. \A c \in Clients : ~running[c]
  BY <1>1, SInvFacts, TimeEngineAssumption
<1> QED BY <1>1, <1>2, <1>3, SInvFacts, PopKeeps

(* Every step keeps it.                                                     *)
LEMMA SNextInv == SInv /\ [SNext]_svars => SInv'
<1> SUFFICES ASSUME SInv, [SNext]_svars PROVE SInv'
  OBVIOUS
<1>1. Inv'
  BY StepIsEngineStep, NextInv DEF SInv
<1>2. ASSUME UNCHANGED <<first_event, event_time, time, next_event_time, is_enqueued, running, current>>,
             handler' # None => handler # None
      PROVE  SchedulerInv'
  BY <1>2 DEF SInv, SchedulerInv, Planned
<1>3. CASE SetRunReq /\ UNCHANGED <<first_event, event_time, handler>>
  BY <1>1, <1>2, <1>3 DEF SetRunReq, SInv
<1>4. CASE MethodReturns \/ UNCHANGED svars
  BY <1>1, <1>2, <1>4 DEF MethodReturns, svars, vars, SInv
<1>5. ASSUME NEW e \in Events, NEW d \in 0..MaxDelay, Post(e, d) PROVE SInv'
  BY <1>1, <1>5, PostKeeps DEF SInv
<1> QED BY <1>1, <1>3, <1>4, <1>5, StartLoopKeeps, RunEventKeeps, ExecDoneKeeps DEF SNext, SInv

(* The engine with schedulers as its clients is an instance of the engine   *)
(* with arbitrary clients, so that everything proved of the latter holds.   *)
THEOREM SchedulerIsClient == SSpec => Spec
<1>1. SInit => Init
  BY DEF SInit
<1>2. SInv /\ [SNext]_svars => [Next]_vars
  BY StepIsEngineStep
<1> QED BY <1>1, <1>2, SInitInv, SNextInv, PTL DEF SSpec, Spec

(* No event slips into the past, where exec() would never run it, and a     *)
(* scheduler that waits is planned no later than any of its events.         *)
THEOREM NothingMissedCorrect == SSpec => []NothingMissed
<1>1. ASSUME SInv, NEW c \in Clients, NEW i \in 1..Len(first_event[c])
      PROVE  /\ event_time[first_event[c][i]] >= time
             /\ ~running[c] => is_enqueued[c] /\ next_event_time[c] <= event_time[first_event[c][i]]
  <2>1. EventsOK(first_event[c], c, event_time, time) /\ Planned(next_event_time, is_enqueued, running)
    BY <1>1 DEF SInv, SchedulerInv
  <2>2. 1 \in 1..Len(first_event[c]) /\ 1 <= i /\ first_event[c] # <<>>
    BY <2>1 DEF EventsOK
  <2>3. event_time[first_event[c][1]] <= event_time[first_event[c][i]]
    BY <2>1, <2>2 DEF EventsOK
  <2>4. event_time[first_event[c][i]] >= time
    BY <2>1 DEF EventsOK
  <2> QED BY <2>1, <2>2, <2>3, <2>4 DEF Planned
<1>2. SInv => NothingMissed
  BY <1>1 DEF NothingMissed
<1> QED BY <1>2, SInitInv, SNextInv, PTL DEF SSpec

-----------------------------------------------------------------------------
(* The agenda.                                                              *)

(* The earliest date of the lists is the earliest date of the agenda.       *)
LEMMA EarliestTicks ==
  ASSUME SInv, time' = time \/ Earliest(time'), UNCHANGED <<first_event, event_time>>
  PROVE  [Agenda!Next]_(Agenda!vars)
<1>1. Dates' = Dates
  BY DatesKept
<1>2. CASE time' = time
  BY <1>1, <1>2 DEF Agenda!vars
<1>3. CASE Earliest(time')
  <2>1. PICK c \in Clients : first_event[c] # <<>> /\ time' = event_time[first_event[c][1]]
    BY <1>3 DEF Earliest
  <2> DEFINE e == first_event[c][1]
  <2>2. EventsOK(first_event[c], c, event_time, time) /\ event_time \in [Events -> 0..MaxTime]
    BY DEF SInv, SchedulerInv
  <2>3. 1 \in 1..Len(first_event[c]) /\ e \in Events /\ Owner[e] = c
    BY <2>1, <2>2 DEF EventsOK
  <2>4. Dates[e] = time' /\ Dates[e] # -1
    BY <2>1, <2>2, <2>3, TimeEngineAssumption DEF Dates, Linked
  <2>5. ASSUME NEW f \in Events, Dates[f] # -1
        PROVE  Dates[e] <= Dates[f]
    <3> DEFINE s == first_event[Owner[f]]
    <3>1. Dates[f] = event_time[f] /\ \E i \in 1..Len(s) : s[i] = f
      BY <2>5 DEF Dates, Linked
    <3>2. PICK i \in 1..Len(s) : s[i] = f
      BY <3>1
    <3>3. Owner[f] \in Clients /\ EventsOK(s, Owner[f], event_time, time)
      BY OwnerAssumption DEF SInv, SchedulerInv
    <3> HIDE DEF s
    <3>4. 1 \in 1..Len(s) /\ 1 <= i /\ s # <<>> /\ s[1] \in Events
      BY <3>3 DEF EventsOK
    <3>5. event_time[s[1]] <= event_time[f] /\ event_time[s[1]] \in Int /\ event_time[f] \in Int
      BY <2>2, <3>2, <3>3, <3>4, TimeEngineAssumption DEF EventsOK
    <3>6. time' <= event_time[s[1]]
      BY <1>3, <3>3, <3>4 DEF Earliest, s
    <3>7. time' \in Int
      BY <2>1, <2>2, <2>3, TimeEngineAssumption
    <3> QED BY <2>4, <3>1, <3>5, <3>6, <3>7
  <2> HIDE DEF e
  <2>6. Agenda!Tick
    BY <1>1, <2>3, <2>4, <2>5 DEF Agenda!Tick, Agenda!Posted
  <2> QED BY <2>6 DEF Agenda!Next
<1> QED BY <1>2, <1>3

(* The engine and its schedulers implement one global agenda: every event   *)
(* runs exactly at its date, in the order of the dates across all the       *)
(* schedulers, and the clock stops at every date.                           *)
THEOREM ImplementsAgendaCorrect == SSpec => ImplementsAgenda
<1>1. SInit => Agenda!Init
  <2> SUFFICES ASSUME SInit PROVE time = 0 /\ Dates = [e \in Events |-> -1]
    BY DEF Agenda!Init
  <2>1. \A e \in Events : first_event[Owner[e]] = <<>>
    BY OwnerAssumption DEF SInit
  <2> QED BY <2>1 DEF SInit, Init, Dates, Linked
<1>2. SInv /\ [SNext]_svars => [Agenda!Next]_(Agenda!vars)
  <2> SUFFICES ASSUME SInv, [SNext]_svars PROVE [Agenda!Next]_(Agenda!vars)
    OBVIOUS
  <2>1. CASE StartLoop /\ UNCHANGED <<first_event, event_time, handler>>
    BY <2>1, StartLoopKeeps, EarliestTicks
  <2>2. CASE ExecDone
    BY <2>2, ExecDoneKeeps, EarliestTicks DEF ExecDone
  <2>3. CASE RunEvent
    <3>1. PICK e \in Events : Dates[e] = time /\ Dates' = [Dates EXCEPT ![e] = -1]
      BY <2>3, RunEventKeeps
    <3>2. time' = time
      BY <2>3 DEF RunEvent, vars
    <3>3. Agenda!Fire(e)
      BY <3>1, <3>2 DEF Agenda!Fire
    <3> QED BY <3>3 DEF Agenda!Next
  <2>4. ASSUME NEW e \in Events, NEW d \in 0..MaxDelay, Post(e, d)
        PROVE  [Agenda!Next]_(Agenda!vars)
    <3>1. /\ time' = time /\ Dates[e] = -1 /\ Dates' = [Dates EXCEPT ![e] = time + d]
          /\ time + d >= time
      BY <2>4, PostKeeps
    <3>2. Dates'[e] = time + d
      <4>1. DOMAIN Dates = Events
        BY DEF Dates
      <4> QED BY <3>1, <4>1
    <3>3. Agenda!Post(e, Dates'[e])
      BY <3>1, <3>2 DEF Agenda!Post
    <3> QED BY <3>3 DEF Agenda!Next
  <2>5. CASE MethodReturns \/ UNCHANGED svars \/
             (SetRunReq /\ UNCHANGED <<first_event, event_time, handler>>)
    <3>1. time' = time /\ UNCHANGED <<first_event, event_time>>
      BY <2>5 DEF MethodReturns, SetRunReq, svars, vars
    <3> QED BY <3>1, EarliestTicks
  <2> QED BY <2>1, <2>2, <2>3, <2>4, <2>5 DEF SNext
<1> QED BY <1>1, <1>2, SInitInv, SNextInv, PTL DEF SSpec, ImplementsAgenda, Agenda!Spec
=============================================================================
