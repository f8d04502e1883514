------------------------- MODULE TraceEngine_proofs -------------------------
(***************************************************************************)
(* Proofs about the trace engine, for any number of traces, buffers and    *)
(* events, any sizes and any interleaving of the two threads: a buffer is  *)
(* always in exactly one place, and the waveform is the merge of the       *)
(* events that were dumped.                                                *)
(***************************************************************************)
EXTENDS TraceEngine, FiniteSetTheorems, SequenceTheorems, WellFoundedInduction, TLAPS

(* s holds b.                                                               *)
Holds(s, b) == \E i \in 1..Len(s) : s[i] = b

(* s holds nothing twice.                                                   *)
Distinct(s) == \A i, j \in 1..Len(s) : s[i] = s[j] => i = j

(* b is in exactly one of the four places.                                  *)
InOnePlace(b, free, ready, filled, read) ==
  /\ Holds(free, b) \/ Holds(ready, b) \/ filled = b \/ read = b
  /\ ~(Holds(free, b) /\ Holds(ready, b))
  /\ filled = b => ~Holds(free, b) /\ ~Holds(ready, b)
  /\ read = b => ~Holds(free, b) /\ ~Holds(ready, b) /\ filled # b

(* The inductive invariant.                                                 *)
Inv ==
  /\ event_buffers \in Seq(Buffers) /\ ready_event_buffers \in Seq(Buffers)
  /\ current_buffer \in Buffers \cup {None} /\ unpacked \in Buffers \cup {None, Null}
  /\ Distinct(event_buffers) /\ Distinct(ready_event_buffers)
  /\ \A b \in Buffers :
       InOnePlace(b, event_buffers, ready_event_buffers, current_buffer, unpacked)

-----------------------------------------------------------------------------
(* Queues of buffers.                                                       *)

(* A buffer is pushed at the end of a queue that does not hold it.          *)
LEMMA PushBuffer ==
  ASSUME NEW s \in Seq(Buffers), NEW x \in Buffers, Distinct(s), ~Holds(s, x)
  PROVE  /\ Append(s, x) \in Seq(Buffers) /\ Distinct(Append(s, x))
         /\ \A b \in Buffers : Holds(Append(s, x), b) <=> Holds(s, b) \/ b = x
<1> DEFINE r == Append(s, x)
<1>1. /\ r \in Seq(Buffers) /\ Len(r) = Len(s) + 1 /\ r[Len(s) + 1] = x /\ Len(s) \in Nat
      /\ \A i \in 1..Len(s) : r[i] = s[i]
  OBVIOUS
<1> HIDE DEF r
<1>2. ASSUME NEW i \in 1..Len(r), NEW j \in 1..Len(r), r[i] = r[j]
      PROVE  i = j
  <2>1. CASE i = Len(s) + 1 \/ j = Len(s) + 1
    BY <1>1, <1>2, <2>1 DEF Holds
  <2>2. CASE i # Len(s) + 1 /\ j # Len(s) + 1
    <3>1. i \in 1..Len(s) /\ j \in 1..Len(s)
      BY <1>1, <2>2
    <3> QED BY <1>1, <1>2, <3>1 DEF Distinct
  <2> QED BY <2>1, <2>2
<1>3. ASSUME NEW b \in Buffers PROVE Holds(r, b) <=> Holds(s, b) \/ b = x
  <2>1. ASSUME Holds(r, b), b # x PROVE Holds(s, b)
    <3>1. PICK i \in 1..Len(r) : r[i] = b
      BY <2>1 DEF Holds
    <3>2. i \in 1..Len(s)
      BY <1>1, <2>1, <3>1
    <3> QED BY <1>1, <3>1, <3>2 DEF Holds
  <2>2. ASSUME Holds(s, b) PROVE Holds(r, b)
    <3>1. PICK i \in 1..Len(s) : s[i] = b
      BY <2>2 DEF Holds
    <3>2. i \in 1..Len(r)
      BY <1>1
    <3> QED BY <1>1, <3>1, <3>2 DEF Holds
  <2>3. Holds(r, x)
    <3>1. Len(s) + 1 \in 1..Len(r)
      BY <1>1
    <3> QED BY <1>1, <3>1 DEF Holds
  <2> QED BY <2>1, <2>2, <2>3
<1>4. Distinct(r)
  BY <1>2 DEF Distinct
<1> QED BY <1>1, <1>3, <1>4 DEF r

(* A buffer is popped from the head of a queue.                             *)
LEMMA PopHead ==
  ASSUME NEW s \in Seq(Buffers), s # <<>>, Distinct(s)
  PROVE  /\ Head(s) \in Buffers /\ Holds(s, Head(s))
         /\ Tail(s) \in Seq(Buffers) /\ Distinct(Tail(s))
         /\ \A b \in Buffers : Holds(Tail(s), b) <=> Holds(s, b) /\ b # Head(s)
<1> DEFINE r == Tail(s)
           h == Head(s)
<1>1. /\ r \in Seq(Buffers) /\ Len(r) = Len(s) - 1 /\ Len(s) \in Nat /\ Len(s) > 0
      /\ \A i \in 1..Len(r) : r[i] = s[i + 1]
      /\ h = s[1] /\ h \in Buffers
  OBVIOUS
<1> HIDE DEF r, h
<1>2. 1 \in 1..Len(s) /\ \A i \in 1..Len(r) : i + 1 \in 1..Len(s) /\ i + 1 # 1
  BY <1>1
<1>3. ASSUME NEW i \in 1..Len(r), NEW j \in 1..Len(r), r[i] = r[j]
      PROVE  i = j
  <2>1. s[i + 1] = s[j + 1] /\ i + 1 \in 1..Len(s) /\ j + 1 \in 1..Len(s)
    BY <1>1, <1>2, <1>3
  <2>2. i + 1 = j + 1
    BY <2>1 DEF Distinct
  <2> QED BY <2>2
<1>4. ASSUME NEW b \in Buffers PROVE Holds(r, b) <=> Holds(s, b) /\ b # h
  <2>1. ASSUME Holds(r, b) PROVE Holds(s, b) /\ b # h
    <3>1. PICK i \in 1..Len(r) : r[i] = b
      BY <2>1 DEF Holds
    <3>2. s[i + 1] = b /\ i + 1 \in 1..Len(s)
      BY <1>1, <1>2, <3>1
    <3>3. b # s[1]
      BY <1>2, <3>2 DEF Distinct
    <3> QED BY <1>1, <3>2, <3>3 DEF Holds
  <2>2. ASSUME Holds(s, b), b # h PROVE Holds(r, b)
    <3>1. PICK i \in 1..Len(s) : s[i] = b
      BY <2>2 DEF Holds
    <3>2. i - 1 \in 1..Len(r) /\ (i - 1) + 1 = i
      BY <1>1, <2>2, <3>1
    <3>3. r[i - 1] = b
      BY <1>1, <3>1, <3>2
    <3> QED BY <3>2, <3>3 DEF Holds
  <2> QED BY <2>1, <2>2
<1>5. Distinct(r)
  BY <1>3 DEF Distinct
<1>6. Holds(s, h)
  BY <1>1, <1>2 DEF Holds
<1> QED BY <1>1, <1>4, <1>5, <1>6 DEF r, h

(* The buffers in some order, each once.                                    *)
LEMMA AllBuffers ==
  /\ SetToSeq(Buffers) \in Seq(Buffers) /\ SetToSeq(Buffers) # <<>>
  /\ Distinct(SetToSeq(Buffers)) /\ \A b \in Buffers : Holds(SetToSeq(Buffers), b)
<1> DEFINE n == Cardinality(Buffers)
           s == SetToSeq(Buffers)
<1>1. n \in Nat /\ ExistsBijection(1..n, Buffers) /\ n # 0
  BY TraceEngineAssumption, FS_CardinalityType, FS_EmptySet
<1>2. \E f \in [1..n -> Buffers] : IsInjective(f)
  BY <1>1 DEF ExistsBijection, Bijection, Injection
<1>3. s \in [1..n -> Buffers] /\ IsInjective(s)
  BY <1>2 DEF SetToSeq
<1>4. s \in Injection(1..n, Buffers)
  BY <1>3 DEF Injection
<1> HIDE DEF s
<1>5. Cardinality(1..n) = n
  BY <1>1, FS_Interval
<1> HIDE DEF n
<1>6. s \in Surjection(1..n, Buffers)
  BY <1>4, <1>5, TraceEngineAssumption, FS_Injection DEF n
<1>7. s \in Seq(Buffers) /\ Len(s) = n
  BY <1>1, <1>3
<1>8. \A b \in Buffers : \E i \in 1..n : s[i] = b
  BY <1>6 DEF Surjection
<1> QED BY <1>1, <1>3, <1>7, <1>8 DEF s, Distinct, Holds, IsInjective

-----------------------------------------------------------------------------
(* The invariant.                                                           *)

(* At the start one buffer is being filled and the others are free.         *)
LEMMA InitInv == Init => Inv
<1> SUFFICES ASSUME Init PROVE Inv
  OBVIOUS
<1> DEFINE s == SetToSeq(Buffers)
<1>1. /\ current_buffer = Head(s) /\ event_buffers = Tail(s)
      /\ ready_event_buffers = <<>> /\ unpacked = None
  BY DEF Init
<1>2. s \in Seq(Buffers) /\ s # <<>> /\ Distinct(s) /\ \A b \in Buffers : Holds(s, b)
  BY AllBuffers
<1> HIDE DEF s
<1>3. /\ Head(s) \in Buffers
      /\ Tail(s) \in Seq(Buffers) /\ Distinct(Tail(s))
      /\ \A b \in Buffers : Holds(Tail(s), b) <=> b # Head(s)
  BY <1>2, PopHead
<1>4. <<>> \in Seq(Buffers) /\ Distinct(<<>>) /\ \A b \in Buffers : ~Holds(<<>>, b)
  BY DEF Distinct, Holds
<1> QED BY <1>1, <1>3, <1>4, TraceEngineAssumption DEF Inv, InOnePlace

(* The buffer that was filled, if there is one, goes to the dumper.         *)
LEMMA PassKeeps ==
  ASSUME Inv, current_buffer \in Buffers, NEW ready, ready = Append(ready_event_buffers, current_buffer)
  PROVE  /\ ready \in Seq(Buffers) /\ Distinct(ready)
         /\ \A b \in Buffers : InOnePlace(b, event_buffers, ready, None, unpacked)
<1>1. ~Holds(ready_event_buffers, current_buffer)
  BY DEF Inv, InOnePlace
<1>2. /\ ready \in Seq(Buffers) /\ Distinct(ready)
      /\ \A b \in Buffers : Holds(ready, b) <=> Holds(ready_event_buffers, b) \/ b = current_buffer
  BY <1>1, PushBuffer DEF Inv
<1> QED BY <1>2, TraceEngineAssumption DEF Inv, InOnePlace

(* get_event_buffer passes the current buffer and takes a free one.         *)
LEMMA GetKeeps ==
  ASSUME Inv, get_event_buffer
  PROVE  Inv'
<1>1. /\ ready_event_buffers' \in Seq(Buffers) /\ Distinct(ready_event_buffers')
      /\ \A b \in Buffers : InOnePlace(b, event_buffers, ready_event_buffers', None, unpacked)
  <2>1. CASE current_buffer = None
    BY <2>1 DEF get_event_buffer, Inv
  <2>2. CASE current_buffer # None
    <3>1. current_buffer \in Buffers /\ ready_event_buffers' = Append(ready_event_buffers, current_buffer)
      BY <2>2 DEF get_event_buffer, Inv
    <3> QED BY <3>1, PassKeeps
  <2> QED BY <2>1, <2>2
<1>2. unpacked' = unpacked /\ event_buffers \in Seq(Buffers) /\ Distinct(event_buffers)
  BY DEF get_event_buffer, dumperVars, Inv
<1>3. CASE event_buffers = <<>>
  <2>1. current_buffer' = None /\ event_buffers' = event_buffers
    BY <1>3 DEF get_event_buffer
  <2> QED BY <1>1, <1>2, <2>1 DEF Inv
<1>4. CASE event_buffers # <<>>
  <2>1. current_buffer' = Head(event_buffers) /\ event_buffers' = Tail(event_buffers)
    BY <1>4 DEF get_event_buffer
  <2>2. /\ Head(event_buffers) \in Buffers /\ Holds(event_buffers, Head(event_buffers))
        /\ event_buffers' \in Seq(Buffers) /\ Distinct(event_buffers')
        /\ \A b \in Buffers : Holds(event_buffers', b) <=> Holds(event_buffers, b) /\ b # Head(event_buffers)
    BY <1>2, <1>4, <2>1, PopHead
  <2>3. ASSUME NEW b \in Buffers
        PROVE  InOnePlace(b, event_buffers', ready_event_buffers', current_buffer', unpacked')
    <3>1. Holds(event_buffers', b) <=> Holds(event_buffers, b) /\ b # current_buffer'
      BY <2>1, <2>2
    <3>2. b = current_buffer' => Holds(event_buffers, b)
      BY <2>1, <2>2
    <3>3. InOnePlace(b, event_buffers, ready_event_buffers', None, unpacked)
      BY <1>1
    <3> QED BY <1>2, <3>1, <3>2, <3>3, TraceEngineAssumption DEF InOnePlace
  <2> QED BY <1>1, <1>2, <2>1, <2>2, <2>3 DEF Inv
<1> QED BY <1>3, <1>4

(* flush() passes a buffer that is not full, and does not take another.     *)
LEMMA FlushKeeps ==
  ASSUME Inv, FlushBuffer
  PROVE  Inv'
<1>1. unpacked' = unpacked
  BY DEF FlushBuffer, dumperVars
<1>2. CASE current_buffer_size = 0 \/ current_buffer = None
  <2>1. UNCHANGED <<event_buffers, ready_event_buffers, current_buffer>>
    BY <1>2 DEF FlushBuffer, bufferVars
  <2> QED BY <1>1, <2>1 DEF Inv
<1>3. CASE current_buffer_size # 0 /\ current_buffer # None
  <2>1. /\ ready_event_buffers' = Append(ready_event_buffers, current_buffer)
        /\ current_buffer' = None /\ event_buffers' = event_buffers
    BY <1>3 DEF FlushBuffer
  <2>2. current_buffer \in Buffers
    BY <1>3 DEF Inv
  <2>3. /\ ready_event_buffers' \in Seq(Buffers) /\ Distinct(ready_event_buffers')
        /\ \A b \in Buffers : InOnePlace(b, event_buffers, ready_event_buffers', None, unpacked)
    BY <2>1, <2>2, PassKeeps
  <2> QED BY <1>1, <2>1, <2>3 DEF Inv
<1> QED BY <1>2, <1>3

(* The dumper takes the first buffer that is ready.                         *)
LEMMA PopKeeps ==
  ASSUME Inv, PopBuffer
  PROVE  Inv'
<1> DEFINE s == ready_event_buffers
<1>1. /\ unpacked = None /\ s # <<>> /\ unpacked' = Head(s) /\ ready_event_buffers' = Tail(s)
      /\ UNCHANGED <<event_buffers, current_buffer>>
  BY DEF PopBuffer
<1>2. /\ Head(s) \in Buffers /\ Holds(s, Head(s))
      /\ Tail(s) \in Seq(Buffers) /\ Distinct(Tail(s))
      /\ \A b \in Buffers : Holds(Tail(s), b) <=> Holds(s, b) /\ b # Head(s)
  BY <1>1, PopHead DEF Inv
<1>3. ASSUME NEW b \in Buffers
      PROVE  InOnePlace(b, event_buffers', ready_event_buffers', current_buffer', unpacked')
  <2>1. Holds(ready_event_buffers', b) <=> Holds(ready_event_buffers, b) /\ b # unpacked'
    BY <1>1, <1>2
  <2>2. b = unpacked' => Holds(ready_event_buffers, b)
    BY <1>1, <1>2
  <2>3. InOnePlace(b, event_buffers, ready_event_buffers, current_buffer, unpacked)
    BY DEF Inv
  <2>4. event_buffers' = event_buffers /\ current_buffer' = current_buffer /\ unpacked = None
    BY <1>1
  <2> HIDE DEF s
  <2> QED BY <2>1, <2>2, <2>3, <2>4, TraceEngineAssumption DEF InOnePlace
<1> QED BY <1>1, <1>2, <1>3 DEF Inv

(* It gives it back once it is unpacked.                                    *)
LEMMA ReleaseKeeps ==
  ASSUME Inv, ReleaseBuffer
  PROVE  Inv'
<1>1. /\ unpacked \in Buffers /\ unpacked' = None /\ event_buffers' = Append(event_buffers, unpacked)
      /\ UNCHANGED <<ready_event_buffers, current_buffer>>
  BY DEF ReleaseBuffer
<1>2. ~Holds(event_buffers, unpacked)
  BY <1>1 DEF Inv, InOnePlace
<1>3. /\ event_buffers' \in Seq(Buffers) /\ Distinct(event_buffers')
      /\ \A b \in Buffers : Holds(event_buffers', b) <=> Holds(event_buffers, b) \/ b = unpacked
  BY <1>1, <1>2, PushBuffer DEF Inv
<1>4. \A b \in Buffers : InOnePlace(b, event_buffers', ready_event_buffers', current_buffer', unpacked')
  BY <1>1, <1>3, TraceEngineAssumption DEF Inv, InOnePlace
<1> QED BY <1>1, <1>3, <1>4 DEF Inv

(* The other steps move no buffer; the dumper that ends has none.           *)
LEMMA NextInv == Inv /\ [Next]_vars => Inv'
<1> SUFFICES ASSUME Inv, [Next]_vars PROVE Inv'
  OBVIOUS
<1> DEFINE Same == UNCHANGED <<event_buffers, ready_event_buffers, current_buffer, unpacked>>
<1>1. Same => Inv'
  BY DEF Inv
<1>2. CASE WriteEvent \/ EndDumper \/ Join \/ DumperWaits \/ UnpackEvent
  <2>1. Same
    BY <1>2 DEF WriteEvent, EndDumper, Join, DumperWaits, UnpackEvent, bufferVars, dumperVars
  <2> QED BY <1>1, <2>1
<1>3. CASE DumperEnds
  <2>1. unpacked = None /\ unpacked' = Null /\ UNCHANGED <<event_buffers, ready_event_buffers, current_buffer>>
    BY <1>3 DEF DumperEnds, bufferVars
  <2> QED BY <2>1, TraceEngineAssumption DEF Inv, InOnePlace
<1>4. ASSUME NEW events, NEW next, Dumps(events, next) PROVE Same
  BY <1>4 DEF Dumps, bufferVars, dumperVars
<1>5. ASSUME NEW t \in Traces, dump_event(t) \/ \E d \in 0..MaxPulse : dump_event_pulse(t, d)
      PROVE  Inv'
  <2>1. Same
    BY <1>4, <1>5 DEF dump_event, dump_event_pulse
  <2> QED BY <1>1, <2>1
<1>6. CASE StartFlush("flush", time) \/ StartFlush("stop", -1)
  <2>1. Same
    BY <1>4, <1>6 DEF StartFlush
  <2> QED BY <1>1, <2>1
<1>7. CASE Tick \/ set_global_enable \/ UNCHANGED vars
  <2>1. Same
    BY <1>7 DEF Tick, set_global_enable, vars, bufferVars, dumperVars
  <2> QED BY <1>1, <2>1
<1> QED BY <1>2, <1>3, <1>5, <1>6, <1>7, GetKeeps, FlushKeeps, PopKeeps, ReleaseKeeps
       DEF Next, EngineStep, DumperStep

-----------------------------------------------------------------------------
(* The places as one sequence, in which the property counts.                *)

(* The positions of a buffer in the four places, one after the other.       *)
LEMMA PlacesOf ==
  ASSUME NEW free \in Seq(Buffers), NEW ready \in Seq(Buffers), NEW filled, NEW read,
         NEW places, places = free \o ready \o <<filled, read>>
  PROVE  LET m == Len(free)
             n == Len(ready)
         IN  /\ m \in Nat /\ n \in Nat /\ DOMAIN places = 1..(m + n + 2)
             /\ \A i \in 1..m : places[i] = free[i]
             /\ \A i \in 1..n : places[m + i] = ready[i]
             /\ places[m + n + 1] = filled /\ places[m + n + 2] = read
<1> DEFINE S == Buffers \cup {filled, read}
           m == Len(free)
           n == Len(ready)
           q == free \o ready
           r == <<filled, read>>
<1>1. /\ q \in Seq(S) /\ Len(q) = m + n /\ m \in Nat /\ n \in Nat
      /\ \A i \in 1..m : q[i] = free[i]
      /\ \A i \in 1..n : q[m + i] = ready[i]
  OBVIOUS
<1>2. r \in Seq(S) /\ Len(r) = 2 /\ r[1] = filled /\ r[2] = read
  OBVIOUS
<1>3. places = q \o r
  OBVIOUS
<1> HIDE DEF q, r, S
<1>4. /\ DOMAIN places = 1..(Len(q) + 2)
      /\ \A i \in 1..Len(q) : places[i] = q[i]
      /\ places[Len(q) + 1] = r[1] /\ places[Len(q) + 2] = r[2]
  <2>1. /\ places \in Seq(S) /\ Len(places) = Len(q) + Len(r)
        /\ \A i \in 1..(Len(q) + Len(r)) : places[i] = IF i <= Len(q) THEN q[i] ELSE r[i - Len(q)]
    <3>1. q \in Seq(S) /\ r \in Seq(S)
      BY <1>1, <1>2
    <3>2. /\ q \o r \in Seq(S) /\ Len(q \o r) = Len(q) + Len(r)
          /\ \A i \in 1..(Len(q) + Len(r)) : (q \o r)[i] = IF i <= Len(q) THEN q[i] ELSE r[i - Len(q)]
      BY <3>1, ConcatProperties, ZenonT(30)
    <3> QED BY <1>3, <3>2, Zenon
  <2>2. Len(q) \in Nat
    BY <1>1
  <2>3. DOMAIN places = 1..(Len(q) + 2)
    BY <1>2, <2>1
  <2>4. \A i \in 1..Len(q) : places[i] = q[i]
    BY <1>2, <2>1, <2>2
  <2>5. /\ Len(q) + 1 \in 1..(Len(q) + Len(r)) /\ ~(Len(q) + 1 <= Len(q)) /\ Len(q) + 1 - Len(q) = 1
        /\ Len(q) + 2 \in 1..(Len(q) + Len(r)) /\ ~(Len(q) + 2 <= Len(q)) /\ Len(q) + 2 - Len(q) = 2
    BY <1>2, <2>2
  <2>6. places[Len(q) + 1] = r[1]
    BY <2>1, <2>5
  <2>7. places[Len(q) + 2] = r[2]
    BY <2>1, <2>5
  <2> QED BY <2>3, <2>4, <2>6, <2>7
<1>5. \A i \in 1..m : i \in 1..Len(q)
  BY <1>1
<1>6. \A i \in 1..n : m + i \in 1..Len(q)
  BY <1>1
<1> QED BY <1>1, <1>2, <1>4, <1>5, <1>6

(* A buffer that is in one place has one position.                          *)
LEMMA OnePosition ==
  ASSUME Inv, NEW b \in Buffers, NEW places,
         places = event_buffers \o ready_event_buffers \o <<current_buffer, unpacked>>
  PROVE  Cardinality({i \in DOMAIN places : places[i] = b}) = 1
<1> DEFINE m == Len(event_buffers)
           n == Len(ready_event_buffers)
<1>1. /\ m \in Nat /\ n \in Nat /\ DOMAIN places = 1..(m + n + 2)
      /\ \A i \in 1..m : places[i] = event_buffers[i]
      /\ \A i \in 1..n : places[m + i] = ready_event_buffers[i]
      /\ places[m + n + 1] = current_buffer /\ places[m + n + 2] = unpacked
  BY PlacesOf DEF Inv
<1>2. InOnePlace(b, event_buffers, ready_event_buffers, current_buffer, unpacked)
  BY DEF Inv
<1> HIDE DEF m, n
<1>3. \E i \in DOMAIN places : places[i] = b
  <2>1. CASE Holds(event_buffers, b)
    <3>1. PICK i \in 1..m : event_buffers[i] = b
      BY <2>1 DEF Holds, m
    <3>2. i \in DOMAIN places
      BY <1>1
    <3> QED BY <1>1, <3>1, <3>2
  <2>2. CASE Holds(ready_event_buffers, b)
    <3>1. PICK i \in 1..n : ready_event_buffers[i] = b
      BY <2>2 DEF Holds, n
    <3>2. m + i \in DOMAIN places
      BY <1>1
    <3> QED BY <1>1, <3>1, <3>2
  <2>3. CASE current_buffer = b \/ unpacked = b
    <3>1. m + n + 1 \in DOMAIN places /\ m + n + 2 \in DOMAIN places
      BY <1>1
    <3> QED BY <1>1, <2>3, <3>1
  <2> QED BY <1>2, <2>1, <2>2, <2>3 DEF InOnePlace
<1>4. ASSUME NEW i \in DOMAIN places
      PROVE  \/ i \in 1..m /\ places[i] = event_buffers[i]
             \/ i - m \in 1..n /\ places[i] = ready_event_buffers[i - m]
             \/ i = m + n + 1 /\ places[i] = current_buffer
             \/ i = m + n + 2 /\ places[i] = unpacked
  <2>1. i \in 1..m \/ (i - m \in 1..n /\ m + (i - m) = i) \/ i = m + n + 1 \/ i = m + n + 2
    BY <1>1, SMTT(30)
  <2> QED BY <1>1, <2>1
<1>5. ASSUME NEW i \in DOMAIN places, NEW j \in DOMAIN places, places[i] = b, places[j] = b
      PROVE  i = j
  <2>1. /\ i \in 1..m => Holds(event_buffers, b)
        /\ j \in 1..m => Holds(event_buffers, b)
        /\ i - m \in 1..n => Holds(ready_event_buffers, b)
        /\ j - m \in 1..n => Holds(ready_event_buffers, b)
    <3>1. /\ i \in 1..m => event_buffers[i] = b
          /\ j \in 1..m => event_buffers[j] = b
      BY <1>1, <1>5
    <3>2. /\ i - m \in 1..n => ready_event_buffers[i - m] = b
          /\ j - m \in 1..n => ready_event_buffers[j - m] = b
      <4>1. i \in Int /\ j \in Int /\ m + (i - m) = i /\ m + (j - m) = j
        BY <1>1
      <4> QED BY <1>1, <1>5, <4>1
    <3> QED BY <3>1, <3>2 DEF Holds, m, n
  <2>2. CASE i \in 1..m /\ j \in 1..m
    <3>1. event_buffers[i] = event_buffers[j]
      BY <1>1, <1>5, <2>2
    <3> QED BY <2>2, <3>1 DEF Inv, Distinct, m
  <2>3. CASE i - m \in 1..n /\ j - m \in 1..n
    <3>1. i \in Int /\ j \in Int /\ m + (i - m) = i /\ m + (j - m) = j
      BY <1>1
    <3>2. ready_event_buffers[i - m] = ready_event_buffers[j - m]
      BY <1>1, <1>5, <2>3, <3>1
    <3>3. i - m = j - m
      BY <2>3, <3>2 DEF Inv, Distinct, n
    <3> QED BY <1>1, <3>1, <3>3
  <2> QED BY <1>2, <1>4, <1>5, <2>1, <2>2, <2>3 DEF InOnePlace
<1>6. PICK i \in DOMAIN places : places[i] = b
  BY <1>3
<1>7. {j \in DOMAIN places : places[j] = b} = {i}
  BY <1>5, <1>6
<1> QED BY <1>7, FS_Singleton

(* A buffer is in one place: free, waiting for the dumper, being filled or  *)
(* being unpacked, whatever the two threads do: they never use the same one *)
(* and none is lost.                                                        *)
THEOREM BuffersAccountedCorrect == Spec => []BuffersAccounted
<1>1. Inv => BuffersAccounted
  BY OnePosition DEF BuffersAccounted
<1> QED BY <1>1, InitInv, NextInv, PTL DEF Spec

-----------------------------------------------------------------------------
(* The waveform.  What the engine thread has written, log, is cut into the  *)
(* part the dumper has unpacked (n events), the rest of the buffer it       *)
(* unpacks, the ready buffers in their order, the current buffer and todo.  *)

(* m holds the events f + 1 to g of the log l from p on, up to z; at[i] is  *)
(* where the events up to the i-th end.                                     *)
PackedAt(m, l, p, f, g, z, at) ==
  /\ at[f] = p /\ at[g] = z
  /\ \A i \in f..(g - 1) :
       at[i + 1] = at[i] + Size[l[i + 1].trace] /\ at[i + 1] <= z /\ m[at[i]] = l[i + 1]

Packed(m, l, p, f, g, z) ==
  /\ f \in Nat /\ g \in f..Len(l) /\ p \in Nat /\ z \in p..BufferSize
  /\ \E at \in [f..g -> 0..BufferSize] : PackedAt(m, l, p, f, g, z, at)

(* The same for a buffer that is no longer filled: the dumper finds its end. *)
Whole(m, l, p, f, g) ==
  \E z \in 0..BufferSize : Packed(m, l, p, f, g, z) /\ (z < BufferSize - PtrSize => m[z] = Null)

(* The buffers hold the events n + 1 to w, in the order of the dumper; the   *)
(* i-th ready one those up to cut[i].                                       *)
Cuts(m, l, w, ready, current, size, unp, pos, n, cut) ==
  /\ IF unp \in Buffers THEN Whole(m[unp], l, pos, n, cut[0]) ELSE n = cut[0]
  /\ \A i \in 1..Len(ready) : Whole(m[ready[i]], l, 0, cut[i - 1], cut[i])
  /\ IF current = None THEN cut[Len(ready)] = w
     ELSE Packed(m[current], l, 0, cut[Len(ready)], w, size)

Chain(m, l, w, ready, current, size, unp, pos, n) ==
  \E cut \in [0..Len(ready) -> 0..Len(l)] : Cuts(m, l, w, ready, current, size, unp, pos, n, cut)

(* No later event among the first n is of the trace and time of the k-th.   *)
LastIn(l, k, n) ==
  \A j \in (k + 1)..n : l[j].trace = l[k].trace => l[j].timestamp # l[k].timestamp

(* out has the changes of the first n events before the time b.             *)
Shown(l, n, b, out) ==
  /\ out \in Seq(Events)
  /\ \A i \in 1..Len(out) :
       out[i].timestamp < b /\ \E k \in 1..n : out[i] = l[k] /\ LastIn(l, k, n)
  /\ \A i, j \in 1..Len(out) : j < i => out[j].timestamp <= out[i].timestamp /\ out[j] # out[i]
  /\ \A k \in 1..n : LastIn(l, k, n) /\ l[k].timestamp < b => \E i \in 1..Len(out) : out[i] = l[k]

(* list has the traces that the first n events change at the time b, v their *)
(* values.                                                                  *)
Changing(l, n, b, v, list) ==
  /\ list \in Seq(Traces) /\ Distinct(list)
  /\ \A i \in 1..Len(list) : \E k \in 1..n :
       l[k] = Event(list[i], b, v[list[i]]) /\ \A j \in (k + 1)..n : l[j].trace # list[i]
  /\ \A k \in 1..n : l[k].timestamp = b => \E i \in 1..Len(list) : list[i] = l[k].trace

(* What the dumper has done with the first n events, before and after its end. *)
Dumping(l, n, last, v, list, out) ==
  /\ n \in 0..Len(l)
  /\ last = IF n = 0 THEN -1 ELSE l[n].timestamp
  /\ Shown(l, n, last, out) /\ Changing(l, n, last, v, list)

Finished(l, n, last, out) == n = Len(l) /\ last \in Int /\ Shown(l, n, last + 1, out)
                             /\ \A k \in 1..n : l[k].timestamp <= last

Times == 0..(MaxTime + MaxPulse)
Stopping == {"stop", "end", "join", "stopped"}

Ordered(s) == \A i, j \in 1..Len(s) : i < j => s[i].timestamp <= s[j].timestamp

(* A list of pending traces whose pulses end at the times pt, in their order. *)
Sorted(list, pt) ==
  /\ list \in Seq(Traces) /\ Distinct(list)
  /\ \A i \in 1..Len(list) : pt[list[i]] \in Times
  /\ \A i, j \in 1..Len(list) : i < j => pt[list[i]] <= pt[list[j]]

PendingInv ==
  /\ time \in 0..MaxTime /\ calls \in 0..MaxCalls /\ global_enable \in BOOLEAN
  /\ pending_timestamp \in [Traces -> Int] /\ background \in [Traces -> (-MaxCalls)..MaxCalls]
  /\ Sorted(pending, pending_timestamp)

(* All of the log is before the time b.                                     *)
Before(l, b) == \A i \in 1..Len(l) : l[i].timestamp <= b

LogInv ==
  /\ log \in Seq(Events) /\ Ordered(log)
  /\ call \notin Stopping => Before(log, time)
  /\ \A u \in Traces : Holds(pending, u) => Before(log, pending_timestamp[u])
  /\ todo \in Seq(Events) /\ Len(todo) <= Len(log)
  /\ \A i \in 1..Len(todo) : todo[i] = log[Len(log) - Len(todo) + i]

CallInv ==
  /\ call \in {"none", "flush"} \cup Stopping
  /\ call \in {"end", "join", "stopped"} =>
       todo = <<>> /\ (current_buffer = None \/ current_buffer_size = 0)
  /\ end => call \in {"join", "stopped"}
  /\ unpacked = Null => end
  /\ call = "stopped" => unpacked = Null

MemoryInv ==
  /\ memory \in [Buffers -> [0..(BufferSize - 1) -> Events \cup {Null, Filler}]]
  /\ current_buffer_size \in Nat /\ value \in [Traces -> Int]
  /\ \E n \in 0..Len(log) :
       /\ Chain(memory, log, Len(log) - Len(todo), ready_event_buffers, current_buffer,
                current_buffer_size, unpacked, position, n)
       /\ IF unpacked = Null THEN Finished(log, n, last_timestamp, output)
          ELSE Dumping(log, n, last_timestamp, value, to_dump, output)

WaveInv == Inv /\ PendingInv /\ LogInv /\ CallInv /\ MemoryInv

-----------------------------------------------------------------------------
(* Events in a buffer.                                                      *)

(* The room an event takes.                                                 *)
LEMMA EventSize ==
  ASSUME NEW e \in Events
  PROVE  /\ e.trace \in Traces /\ e.timestamp \in Nat /\ e.value \in Int
         /\ Size[e.trace] \in Nat \ {0} /\ Size[e.trace] > PtrSize
         /\ PtrSize \in Nat /\ BufferSize \in Nat /\ e # Null
<1>1. {BufferSize, PtrSize, MaxTime, MaxPulse, MaxCalls} \subseteq Nat
  BY TraceEngineAssumption
<1>2. e.trace \in Traces /\ e.timestamp \in Nat /\ e.value \in Int
  BY <1>1 DEF Events
<1> QED BY <1>1, <1>2, TraceEngineAssumption

(* A buffer that nothing was written to.                                    *)
LEMMA PackedEmpty ==
  ASSUME NEW m, NEW l \in Seq(Events), NEW p \in 0..BufferSize, NEW f \in 0..Len(l)
  PROVE  Packed(m, l, p, f, f, p)
<1>1. BufferSize \in Nat
  BY TraceEngineAssumption
<1> DEFINE at == [i \in f..f |-> p]
<1>2. at \in [f..f -> 0..BufferSize] /\ PackedAt(m, l, p, f, f, p, at)
  BY <1>1 DEF PackedAt
<1> HIDE DEF at
<1>3. f \in Nat /\ f \in f..Len(l) /\ p \in Nat /\ p \in p..BufferSize
  BY <1>1
<1> QED BY <1>2, <1>3 DEF Packed

(* An event is written behind the ones there are.                           *)
LEMMA PackedWrite ==
  ASSUME NEW m, NEW r, NEW l \in Seq(Events), NEW p, NEW f, NEW g, NEW z,
         Packed(m, l, p, f, g, z), g < Len(l), z + Size[l[g + 1].trace] <= BufferSize,
         r[z] = l[g + 1], \A q \in 0..(z - 1) : r[q] = m[q]
  PROVE  Packed(r, l, p, f, g + 1, z + Size[l[g + 1].trace])
<1> DEFINE s == Size[l[g + 1].trace]
<1>1. f \in Nat /\ g \in f..Len(l) /\ p \in Nat /\ z \in p..BufferSize
  BY DEF Packed
<1>2. PICK at \in [f..g -> 0..BufferSize] : PackedAt(m, l, p, f, g, z, at)
  BY DEF Packed
<1>3. g + 1 \in 1..Len(l) /\ Len(l) \in Nat
  BY <1>1
<1>4. s \in Nat \ {0} /\ BufferSize \in Nat
  BY <1>3, EventSize
<1> DEFINE to == [i \in f..(g + 1) |-> IF i = g + 1 THEN z + s ELSE at[i]]
<1>5. z + s \in 0..BufferSize
  BY <1>1, <1>4
<1> HIDE DEF s
<1>6. to \in [f..(g + 1) -> 0..BufferSize] /\ \A i \in f..g : to[i] = at[i]
  BY <1>1, <1>2, <1>5
<1>7. to[g + 1] = z + s /\ to[f] = p /\ to[g] = z
  BY <1>1, <1>2, <1>6 DEF PackedAt
<1>8. ASSUME NEW i \in f..((g + 1) - 1)
      PROVE  to[i + 1] = to[i] + Size[l[i + 1].trace] /\ to[i + 1] <= z + s /\ r[to[i]] = l[i + 1]
  <2>1. CASE i = g
    BY <1>1, <1>4, <1>7, <2>1 DEF s
  <2>2. CASE i # g
    <3>1. i \in f..(g - 1) /\ i \in f..g /\ i + 1 \in f..g /\ i + 1 \in 1..Len(l)
      BY <1>1, <2>2
    <3>2. at[i + 1] = at[i] + Size[l[i + 1].trace] /\ at[i + 1] <= z /\ m[at[i]] = l[i + 1]
      BY <1>2, <3>1 DEF PackedAt
    <3>3. Size[l[i + 1].trace] \in Nat \ {0}
      BY <3>1, EventSize
    <3>4. at[i] \in 0..(z - 1) /\ at[i + 1] \in Nat
      BY <1>1, <1>2, <3>1, <3>2, <3>3, SMTT(30)
    <3> QED BY <1>1, <1>4, <1>6, <3>1, <3>2, <3>4, SMTT(30)
  <2> QED BY <2>1, <2>2
<1>9. PackedAt(r, l, p, f, g + 1, z + s, to)
  BY <1>7, <1>8 DEF PackedAt
<1>10. g + 1 \in f..Len(l) /\ z + s \in p..BufferSize
  BY <1>1, <1>3, <1>4, <1>5
<1> QED BY <1>1, <1>6, <1>9, <1>10 DEF Packed, s

(* What is behind the events does not matter, nor what the log gets after.  *)
LEMMA PackedSame ==
  ASSUME NEW m, NEW r, NEW l \in Seq(Events), NEW k \in Seq(Events), NEW p, NEW f, NEW g, NEW z,
         Packed(m, l, p, f, g, z), \A q \in 0..(z - 1) : r[q] = m[q],
         Len(l) <= Len(k), \A i \in 1..Len(l) : k[i] = l[i]
  PROVE  Packed(r, k, p, f, g, z)
<1>1. f \in Nat /\ g \in f..Len(l) /\ p \in Nat /\ z \in p..BufferSize
  BY DEF Packed
<1>2. PICK at \in [f..g -> 0..BufferSize] : PackedAt(m, l, p, f, g, z, at)
  BY DEF Packed
<1>3. ASSUME NEW i \in f..(g - 1)
      PROVE  at[i + 1] = at[i] + Size[k[i + 1].trace] /\ at[i + 1] <= z /\ r[at[i]] = k[i + 1]
  <2>1. i \in f..g /\ i + 1 \in f..g /\ i + 1 \in 1..Len(l)
    BY <1>1
  <2>2. at[i + 1] = at[i] + Size[l[i + 1].trace] /\ at[i + 1] <= z /\ m[at[i]] = l[i + 1]
    BY <1>2 DEF PackedAt
  <2>3. Size[l[i + 1].trace] \in Nat \ {0} /\ k[i + 1] = l[i + 1] /\ BufferSize \in Nat
    BY <2>1, EventSize
  <2>4. at[i] \in Nat /\ at[i + 1] \in Nat /\ z \in Nat
    BY <1>1, <1>2, <2>1, <2>3
  <2>5. at[i] \in 0..(z - 1)
    BY <2>2, <2>3, <2>4
  <2> QED BY <2>2, <2>3, <2>5
<1>4. PackedAt(r, k, p, f, g, z, at)
  BY <1>2, <1>3 DEF PackedAt
<1>5. g \in f..Len(k)
  BY <1>1
<1> QED BY <1>1, <1>4, <1>5 DEF Packed

(* The first event is read.                                                 *)
LEMMA PackedNext ==
  ASSUME NEW m, NEW l \in Seq(Events), NEW p, NEW f, NEW g, NEW z,
         Packed(m, l, p, f, g, z), f # g
  PROVE  /\ f + 1 \in 1..Len(l) /\ m[p] = l[f + 1] /\ p + Size[l[f + 1].trace] <= z
         /\ Packed(m, l, p + Size[l[f + 1].trace], f + 1, g, z)
<1>1. f \in Nat /\ g \in f..Len(l) /\ p \in Nat /\ z \in p..BufferSize
  BY DEF Packed
<1>2. PICK at \in [f..g -> 0..BufferSize] : PackedAt(m, l, p, f, g, z, at)
  BY DEF Packed
<1>3. f \in f..(g - 1) /\ f + 1 \in 1..Len(l) /\ f + 1 \in f..g
  BY <1>1
<1>4. at[f + 1] = p + Size[l[f + 1].trace] /\ at[f + 1] <= z /\ m[p] = l[f + 1]
  BY <1>2, <1>3 DEF PackedAt
<1> DEFINE to == [i \in (f + 1)..g |-> at[i]]
<1>5. to \in [(f + 1)..g -> 0..BufferSize] /\ \A i \in (f + 1)..g : to[i] = at[i]
  BY <1>1, <1>2
<1>6. PackedAt(m, l, at[f + 1], f + 1, g, z, to)
  <2>1. to[f + 1] = at[f + 1] /\ to[g] = z
    BY <1>1, <1>2, <1>3, <1>5 DEF PackedAt
  <2>2. ASSUME NEW i \in (f + 1)..(g - 1)
        PROVE  to[i + 1] = to[i] + Size[l[i + 1].trace] /\ to[i + 1] <= z /\ m[to[i]] = l[i + 1]
    <3>1. i \in f..(g - 1) /\ i \in (f + 1)..g /\ i + 1 \in (f + 1)..g
      BY <1>1
    <3> QED BY <1>2, <1>5, <3>1 DEF PackedAt
  <2> QED BY <2>1, <2>2 DEF PackedAt
<1>7. f + 1 \in Nat /\ g \in (f + 1)..Len(l) /\ at[f + 1] \in Nat /\ z \in (at[f + 1])..BufferSize
  BY <1>1, <1>2, <1>3, <1>4, SMTT(30)
<1>8. Packed(m, l, at[f + 1], f + 1, g, z)
  BY <1>5, <1>6, <1>7 DEF Packed
<1> QED BY <1>3, <1>4, <1>8

(* Without an event the buffer ends where it starts.                        *)
LEMMA PackedNothing ==
  ASSUME NEW m, NEW l \in Seq(Events), NEW p, NEW f, NEW g, NEW z, Packed(m, l, p, f, g, z)
  PROVE  f = g <=> p = z
<1>1. f = g => p = z
  BY DEF Packed, PackedAt
<1>2. ASSUME f # g PROVE p # z
  <2>1. f + 1 \in 1..Len(l) /\ p + Size[l[f + 1].trace] <= z
    BY <1>2, PackedNext
  <2>2. Size[l[f + 1].trace] \in Nat \ {0}
    BY <2>1, EventSize
  <2>3. p \in Nat
    BY DEF Packed
  <2> QED BY <2>1, <2>2, <2>3
<1> QED BY <1>1, <1>2

(* The same for a buffer with an end mark.                                  *)
LEMMA WholeSame ==
  ASSUME NEW m, NEW r, NEW l \in Seq(Events), NEW k \in Seq(Events), NEW p, NEW f, NEW g,
         Whole(m, l, p, f, g), r = m,
         Len(l) <= Len(k), \A i \in 1..Len(l) : k[i] = l[i]
  PROVE  Whole(r, k, p, f, g)
<1>1. PICK z \in 0..BufferSize : Packed(m, l, p, f, g, z) /\ (z < BufferSize - PtrSize => m[z] = Null)
  BY DEF Whole
<1>2. Packed(m, k, p, f, g, z)
  BY <1>1, PackedSame
<1> QED BY <1>1, <1>2 DEF Whole

(* The dumper is at an event as long as there is one.                       *)
LEMMA WholeNext ==
  ASSUME NEW m, NEW l \in Seq(Events), NEW p, NEW f, NEW g, Whole(m, l, p, f, g)
  PROVE  /\ f # g <=> p < BufferSize - PtrSize /\ m[p] # Null
         /\ f # g => /\ f + 1 \in 1..Len(l) /\ m[p] = l[f + 1]
                     /\ Whole(m, l, p + Size[l[f + 1].trace], f + 1, g)
<1>1. PICK z \in 0..BufferSize : Packed(m, l, p, f, g, z) /\ (z < BufferSize - PtrSize => m[z] = Null)
  BY DEF Whole
<1>2. ASSUME f = g PROVE ~(p < BufferSize - PtrSize /\ m[p] # Null)
  <2>1. p = z
    BY <1>1, <1>2, PackedNothing
  <2> QED BY <1>1, <2>1
<1>3. ASSUME f # g
      PROVE  /\ p < BufferSize - PtrSize /\ m[p] # Null
             /\ f + 1 \in 1..Len(l) /\ m[p] = l[f + 1]
             /\ Whole(m, l, p + Size[l[f + 1].trace], f + 1, g)
  <2>1. /\ f + 1 \in 1..Len(l) /\ m[p] = l[f + 1] /\ p + Size[l[f + 1].trace] <= z
        /\ Packed(m, l, p + Size[l[f + 1].trace], f + 1, g, z)
    BY <1>1, <1>3, PackedNext
  <2>2. l[f + 1] \in Events
    BY <2>1
  <2>3. /\ Size[l[f + 1].trace] \in Nat \ {0} /\ Size[l[f + 1].trace] > PtrSize
        /\ PtrSize \in Nat /\ BufferSize \in Nat /\ l[f + 1] # Null
    BY <2>2, EventSize
  <2>4. p \in Nat
    BY <1>1 DEF Packed
  <2>5. p < BufferSize - PtrSize
    BY <2>1, <2>3, <2>4
  <2> QED BY <1>1, <2>1, <2>3, <2>5 DEF Whole
<1> QED BY <1>2, <1>3

-----------------------------------------------------------------------------
(* The buffers in their order.                                              *)

(* The log grows.                                                           *)
LEMMA ChainGrows ==
  ASSUME NEW m, NEW l \in Seq(Events), NEW k \in Seq(Events), NEW w, NEW ready \in Seq(Buffers), NEW current,
         NEW size, NEW unp, NEW pos, NEW n,
         Chain(m, l, w, ready, current, size, unp, pos, n),
         Len(l) <= Len(k), \A i \in 1..Len(l) : k[i] = l[i]
  PROVE  Chain(m, k, w, ready, current, size, unp, pos, n)
<1>1. PICK cut \in [0..Len(ready) -> 0..Len(l)] : Cuts(m, l, w, ready, current, size, unp, pos, n, cut)
  BY DEF Chain
<1>2. \A r, p, f, g : Whole(r, l, p, f, g) => Whole(r, k, p, f, g)
  BY WholeSame
<1>3. \A r, p, f, g, z : Packed(r, l, p, f, g, z) => Packed(r, k, p, f, g, z)
  BY PackedSame
<1>4. Cuts(m, k, w, ready, current, size, unp, pos, n, cut)
  BY <1>1, <1>2, <1>3 DEF Cuts
<1>5. cut \in [0..Len(ready) -> 0..Len(k)]
  BY <1>1
<1> QED BY <1>4, <1>5 DEF Chain

(* The current buffer is passed to the dumper, with its end mark.           *)
LEMMA ChainPass ==
  ASSUME NEW m, NEW r, NEW l \in Seq(Events), NEW w \in 0..Len(l), NEW ready \in Seq(Buffers),
         NEW current \in Buffers, NEW size \in Nat, NEW any, NEW unp, NEW pos, NEW n,
         Chain(m, l, w, ready, current, size, unp, pos, n),
         ~Holds(ready, current), unp # current,
         \A b \in Buffers \ {current} : r[b] = m[b],
         \A q \in 0..(size - 1) : r[current][q] = m[current][q],
         size < BufferSize - PtrSize => r[current][size] = Null
  PROVE  Chain(r, l, w, Append(ready, current), None, any, unp, pos, n)
<1>1. PICK cut \in [0..Len(ready) -> 0..Len(l)] : Cuts(m, l, w, ready, current, size, unp, pos, n, cut)
  BY DEF Chain
<1> DEFINE K == Len(ready)
           q == Append(ready, current)
           to == [i \in 0..(K + 1) |-> IF i = K + 1 THEN w ELSE cut[i]]
<1>2. /\ K \in Nat /\ q \in Seq(Buffers) /\ Len(q) = K + 1 /\ q[K + 1] = current
      /\ \A i \in 1..K : q[i] = ready[i]
  OBVIOUS
<1>3. current # None
  BY TraceEngineAssumption
<1>4. Packed(m[current], l, 0, cut[K], w, size)
  BY <1>1, <1>3 DEF Cuts
<1>5. to \in [0..(K + 1) -> 0..Len(l)] /\ to[K + 1] = w /\ \A i \in 0..K : to[i] = cut[i]
  BY <1>1, <1>2
<1> HIDE DEF K, q, to
<1>6. Whole(r[current], l, 0, cut[K], w)
  <2>1. Packed(r[current], l, 0, cut[K], w, size)
    BY <1>4, PackedSame, SMTT(30)
  <2>2. size \in 0..BufferSize
    BY <1>4 DEF Packed
  <2> QED BY <2>1, <2>2 DEF Whole
<1>7. ASSUME NEW i \in 1..Len(q) PROVE Whole(r[q[i]], l, 0, to[i - 1], to[i])
  <2>1. CASE i = K + 1
    <3>1. q[i] = current /\ to[i] = w /\ to[i - 1] = cut[K]
      BY <1>2, <1>5, <2>1
    <3> QED BY <1>6, <3>1
  <2>2. CASE i # K + 1
    <3>1. i \in 1..K /\ i - 1 \in 0..K /\ i \in 0..K
      BY <1>2, <2>2
    <3>2. q[i] = ready[i] /\ ready[i] \in Buffers \ {current}
      BY <1>2, <3>1 DEF Holds, K
    <3>3. Whole(m[ready[i]], l, 0, cut[i - 1], cut[i])
      BY <1>1, <3>1 DEF Cuts, K
    <3> QED BY <1>5, <3>1, <3>2, <3>3
  <2> QED BY <2>1, <2>2
<1>8. IF unp \in Buffers THEN Whole(r[unp], l, pos, n, to[0]) ELSE n = to[0]
  <2>1. to[0] = cut[0]
    BY <1>2, <1>5
  <2>2. unp \in Buffers => r[unp] = m[unp]
    OBVIOUS
  <2> QED BY <1>1, <2>1, <2>2 DEF Cuts
<1>9. Cuts(r, l, w, q, None, any, unp, pos, n, to)
  BY <1>2, <1>5, <1>7, <1>8 DEF Cuts
<1>10. to \in [0..Len(q) -> 0..Len(l)]
  BY <1>2, <1>5
<1> QED BY <1>9, <1>10 DEF Chain, q

(* A free buffer is taken.                                                  *)
LEMMA ChainTake ==
  ASSUME NEW m, NEW l \in Seq(Events), NEW w \in 0..Len(l), NEW ready \in Seq(Buffers),
         NEW any, NEW b \in Buffers, NEW unp, NEW pos, NEW n,
         Chain(m, l, w, ready, None, any, unp, pos, n)
  PROVE  Chain(m, l, w, ready, b, 0, unp, pos, n)
<1>1. PICK cut \in [0..Len(ready) -> 0..Len(l)] : Cuts(m, l, w, ready, None, any, unp, pos, n, cut)
  BY DEF Chain
<1>2. b # None /\ BufferSize \in Nat
  BY TraceEngineAssumption
<1>3. cut[Len(ready)] = w
  BY <1>1 DEF Cuts
<1>4. Packed(m[b], l, 0, w, w, 0)
  BY <1>2, PackedEmpty
<1> QED BY <1>1, <1>2, <1>3, <1>4 DEF Chain, Cuts

(* The next event is written to the current buffer.                         *)
LEMMA ChainWrite ==
  ASSUME NEW m, NEW r, NEW l \in Seq(Events), NEW w \in 0..Len(l), NEW ready \in Seq(Buffers),
         NEW current \in Buffers, NEW size \in Nat, NEW unp, NEW pos, NEW n,
         Chain(m, l, w, ready, current, size, unp, pos, n),
         ~Holds(ready, current), unp # current, w # Len(l),
         size + Size[l[w + 1].trace] <= BufferSize,
         \A b \in Buffers \ {current} : r[b] = m[b],
         \A q \in 0..(size - 1) : r[current][q] = m[current][q],
         r[current][size] = l[w + 1]
  PROVE  Chain(r, l, w + 1, ready, current, size + Size[l[w + 1].trace], unp, pos, n)
<1>1. PICK cut \in [0..Len(ready) -> 0..Len(l)] : Cuts(m, l, w, ready, current, size, unp, pos, n, cut)
  BY DEF Chain
<1>2. current # None
  BY TraceEngineAssumption
<1>3. Packed(m[current], l, 0, cut[Len(ready)], w, size) /\ w < Len(l)
  BY <1>1, <1>2 DEF Cuts
<1>4. Packed(r[current], l, 0, cut[Len(ready)], w + 1, size + Size[l[w + 1].trace])
  <2>1. PICK x, y, c : x = m[current] /\ y = r[current] /\ c = cut[Len(ready)]
    OBVIOUS
  <2>2. /\ Packed(x, l, 0, c, w, size) /\ w < Len(l) /\ size + Size[l[w + 1].trace] <= BufferSize
        /\ y[size] = l[w + 1] /\ \A q \in 0..(size - 1) : y[q] = x[q]
    BY <1>3, <2>1
  <2>3. Packed(y, l, 0, c, w + 1, size + Size[l[w + 1].trace])
    BY <2>2, PackedWrite
  <2> QED BY <2>1, <2>3
<1>5. ASSUME NEW i \in 1..Len(ready) PROVE r[ready[i]] = m[ready[i]]
  BY DEF Holds
<1>6. unp \in Buffers => r[unp] = m[unp]
  OBVIOUS
<1>7. Cuts(r, l, w + 1, ready, current, size + Size[l[w + 1].trace], unp, pos, n, cut)
  BY <1>1, <1>2, <1>4, <1>5, <1>6 DEF Cuts
<1> QED BY <1>7 DEF Chain

(* The dumper takes the first ready buffer.                                 *)
LEMMA ChainPop ==
  ASSUME NEW m, NEW l \in Seq(Events), NEW w, NEW ready \in Seq(Buffers),
         NEW current, NEW size, NEW pos, NEW n, ready # <<>>,
         Chain(m, l, w, ready, current, size, None, pos, n)
  PROVE  Chain(m, l, w, Tail(ready), current, size, Head(ready), 0, n)
<1>1. PICK cut \in [0..Len(ready) -> 0..Len(l)] : Cuts(m, l, w, ready, current, size, None, pos, n, cut)
  BY DEF Chain
<1> DEFINE K == Len(ready)
           q == Tail(ready)
           to == [i \in 0..(K - 1) |-> cut[i + 1]]
<1>2. /\ K \in Nat \ {0} /\ Len(q) = K - 1 /\ Head(ready) = ready[1] /\ ready[1] \in Buffers
      /\ \A i \in 1..(K - 1) : q[i] = ready[i + 1]
  OBVIOUS
<1>3. to \in [0..(K - 1) -> 0..Len(l)] /\ \A i \in 0..(K - 1) : to[i] = cut[i + 1]
  BY <1>1, <1>2
<1>4. n = cut[0]
  BY <1>1, TraceEngineAssumption DEF Cuts
<1>5. \A i \in 1..K : Whole(m[ready[i]], l, 0, cut[i - 1], cut[i])
  BY <1>1 DEF Cuts
<1>6. IF current = None THEN cut[K] = w ELSE Packed(m[current], l, 0, cut[K], w, size)
  BY <1>1 DEF Cuts
<1> HIDE DEF K, q, to
<1>7. Whole(m[Head(ready)], l, 0, n, to[0])
  <2>1. 1 \in 1..K /\ 1 - 1 = 0 /\ to[0] = cut[1]
    BY <1>2, <1>3
  <2> QED BY <1>2, <1>4, <1>5, <2>1
<1>8. ASSUME NEW i \in 1..(K - 1) PROVE Whole(m[q[i]], l, 0, to[i - 1], to[i])
  <2> /\ i + 1 \in 1..K /\ (i + 1) - 1 = i /\ i \in 0..(K - 1)
      /\ i - 1 \in 0..(K - 1) /\ (i - 1) + 1 = i
    BY <1>2
  <2>1. i + 1 \in 1..K /\ (i + 1) - 1 = i /\ to[i] = cut[i + 1] /\ to[i - 1] = cut[i]
    BY <1>3
  <2>2. Whole(m[ready[i + 1]], l, 0, cut[(i + 1) - 1], cut[i + 1])
    BY <1>5, <2>1
  <2> QED BY <1>2, <2>1, <2>2
<1>9. to[K - 1] = cut[K]
  BY <1>2, <1>3
<1>10. Cuts(m, l, w, q, current, size, Head(ready), 0, n, to)
  BY <1>2, <1>6, <1>7, <1>8, <1>9 DEF Cuts
<1> QED BY <1>2, <1>3, <1>10 DEF Chain, q

(* The dumper unpacks the buffer, and gives it back at its end.             *)
LEMMA ChainUnpack ==
  ASSUME NEW m, NEW l \in Seq(Events), NEW w, NEW ready, NEW current, NEW size,
         NEW unp \in Buffers, NEW pos, NEW n,
         Chain(m, l, w, ready, current, size, unp, pos, n)
  PROVE  LET at == pos < BufferSize - PtrSize /\ m[unp][pos] # Null
         IN  /\ at => /\ n + 1 \in 1..Len(l) /\ m[unp][pos] = l[n + 1]
                      /\ Chain(m, l, w, ready, current, size, unp, pos + Size[l[n + 1].trace], n + 1)
             /\ ~at => Chain(m, l, w, ready, current, size, None, 0, n)
<1>1. PICK cut \in [0..Len(ready) -> 0..Len(l)] : Cuts(m, l, w, ready, current, size, unp, pos, n, cut)
  BY DEF Chain
<1>2. Whole(m[unp], l, pos, n, cut[0])
  BY <1>1 DEF Cuts
<1>3. CASE pos < BufferSize - PtrSize /\ m[unp][pos] # Null
  <2>1. /\ n + 1 \in 1..Len(l) /\ m[unp][pos] = l[n + 1]
        /\ Whole(m[unp], l, pos + Size[l[n + 1].trace], n + 1, cut[0])
    BY <1>2, <1>3, WholeNext
  <2>2. Cuts(m, l, w, ready, current, size, unp, pos + Size[l[n + 1].trace], n + 1, cut)
    BY <1>1, <2>1 DEF Cuts
  <2> QED BY <1>3, <2>1, <2>2 DEF Chain
<1>4. CASE ~(pos < BufferSize - PtrSize /\ m[unp][pos] # Null)
  <2>1. n = cut[0]
    BY <1>2, <1>4, WholeNext
  <2>2. Cuts(m, l, w, ready, current, size, None, 0, n, cut)
    BY <1>1, <2>1, TraceEngineAssumption DEF Cuts
  <2> QED BY <1>4, <2>2 DEF Chain
<1> QED BY <1>3, <1>4

(* Without ready buffers and without a current one that holds events, the    *)
(* dumper has had all there was to write.                                   *)
LEMMA ChainEnd ==
  ASSUME NEW m, NEW l \in Seq(Events), NEW w, NEW current, NEW size,
         NEW pos, NEW n, current = None \/ size = 0,
         Chain(m, l, w, <<>>, current, size, None, pos, n)
  PROVE  n = w
<1>1. PICK cut : Cuts(m, l, w, <<>>, current, size, None, pos, n, cut)
  BY DEF Chain
<1>2. n = cut[0] /\ Len(<<>>) = 0
  BY <1>1, TraceEngineAssumption DEF Cuts
<1>3. current # None => cut[0] = w
  BY <1>1, <1>2, PackedNothing DEF Cuts
<1> QED BY <1>1, <1>2, <1>3 DEF Cuts

-----------------------------------------------------------------------------
(* What the dumper gives to the back-end.                                   *)

(* Two sequences, one after the other.                                      *)
LEMMA Joined ==
  ASSUME NEW S, NEW a \in Seq(S), NEW c \in Seq(S)
  PROVE  /\ a \o c \in Seq(S) /\ Len(a \o c) = Len(a) + Len(c)
         /\ \A i \in 1..Len(a) : (a \o c)[i] = a[i]
         /\ \A i \in 1..Len(c) : (a \o c)[Len(a) + i] = c[i]
         /\ \A i \in 1..(Len(a) + Len(c)) :
              i \in 1..Len(a) \/ (i - Len(a) \in 1..Len(c) /\ (a \o c)[i] = c[i - Len(a)])
<1>1. Len(a) \in Nat /\ Len(c) \in Nat
  OBVIOUS
<1> PICK q : q = a \o c
  OBVIOUS
<1>2. q \in Seq(S) /\ Len(q) = Len(a) + Len(c)
  OBVIOUS
<1>3. \A i \in 1..Len(a) : q[i] = a[i]
  OBVIOUS
<1>4. \A i \in 1..Len(c) : q[Len(a) + i] = c[i]
  OBVIOUS
<1>5. ASSUME NEW i \in 1..(Len(a) + Len(c)), i \notin 1..Len(a)
      PROVE  i - Len(a) \in 1..Len(c) /\ q[i] = c[i - Len(a)]
  <2>1. i - Len(a) \in 1..Len(c) /\ Len(a) + (i - Len(a)) = i
    BY <1>1, <1>5
  <2> QED BY <1>4, <2>1
<1> QED BY <1>2, <1>3, <1>4, <1>5

(* The values of the traces that change at the last time go to the back-end. *)
LEMMA ShownFlush ==
  ASSUME NEW l \in Seq(Events), NEW n \in 0..Len(l), NEW b \in Int, NEW v, NEW list, NEW out,
         Shown(l, n, b, out), Changing(l, n, b, v, list)
  PROVE  Shown(l, n, b + 1, out \o [i \in 1..Len(list) |-> Event(list[i], b, v[list[i]])])
<1> DEFINE x == [i \in 1..Len(list) |-> Event(list[i], b, v[list[i]])]
           M == Len(out)
           K == Len(list)
           q == out \o x
<1>1. list \in Seq(Traces) /\ K \in Nat /\ out \in Seq(Events) /\ M \in Nat
  BY DEF Shown, Changing
<1>2. ASSUME NEW i \in 1..K
      PROVE  \E k \in 1..n : x[i] = l[k] /\ l[k].trace = list[i] /\ l[k].timestamp = b
                             /\ \A j \in (k + 1)..n : l[j].trace # list[i]
  <2>1. PICK k \in 1..n : l[k] = Event(list[i], b, v[list[i]]) /\ \A j \in (k + 1)..n : l[j].trace # list[i]
    BY DEF Changing
  <2>2. x[i] = l[k]
    BY <2>1
  <2>3. l[k].trace = list[i] /\ l[k].timestamp = b
    BY <2>1 DEF Event
  <2> QED BY <2>1, <2>2, <2>3
<1>3. \A k \in 1..n : l[k] \in Events /\ l[k].timestamp \in Nat
  <2>1. \A k \in 1..n : l[k] \in Events
    OBVIOUS
  <2> QED BY <2>1, EventSize
<1>4. x \in Seq(Events) /\ Len(x) = K
  <2>1. \A i \in 1..K : x[i] \in Events
    BY <1>2, <1>3
  <2> QED BY <1>1, <2>1
<1> HIDE DEF x
<1>5. /\ q \in Seq(Events) /\ Len(q) = M + K
      /\ \A i \in 1..M : q[i] = out[i]
      /\ \A i \in 1..K : q[M + i] = x[i]
      /\ \A i \in 1..(M + K) : i \in 1..M \/ (i - M \in 1..K /\ q[i] = x[i - M])
  <2>1. /\ q \in Seq(Events) /\ Len(q) = M + Len(x)
        /\ \A i \in 1..M : q[i] = out[i]
        /\ \A i \in 1..Len(x) : q[M + i] = x[i]
        /\ \A i \in 1..(M + Len(x)) : i \in 1..M \/ (i - M \in 1..Len(x) /\ q[i] = x[i - M])
    BY <1>1, <1>4, Joined, Zenon
  <2> HIDE DEF M, K, q
  <2> QED BY <1>4, <2>1
<1> HIDE DEF M, K, q
<1>6. ASSUME NEW i \in 1..Len(q)
      PROVE  q[i].timestamp < b + 1 /\ \E k \in 1..n : q[i] = l[k] /\ LastIn(l, k, n)
  <2>1. CASE i \in 1..M
    <3>1. PICK k \in 1..n : out[i] = l[k] /\ LastIn(l, k, n) /\ out[i].timestamp < b
      BY <2>1 DEF Shown, M
    <3> QED BY <1>3, <1>5, <2>1, <3>1
  <2>2. CASE i \notin 1..M
    <3>1. i - M \in 1..K /\ q[i] = x[i - M]
      BY <1>5, <2>2
    <3>2. PICK k \in 1..n : x[i - M] = l[k] /\ l[k].trace = list[i - M] /\ l[k].timestamp = b
                            /\ \A j \in (k + 1)..n : l[j].trace # list[i - M]
      BY <1>2, <3>1
    <3>3. LastIn(l, k, n)
      BY <3>2 DEF LastIn
    <3> QED BY <3>1, <3>2, <3>3
  <2> QED BY <2>1, <2>2
<1>7. ASSUME NEW i \in 1..Len(q), NEW j \in 1..Len(q), j < i
      PROVE  q[j].timestamp <= q[i].timestamp /\ q[j] # q[i]
  <2>1. \A h \in 1..M : q[h].timestamp < b /\ q[h].timestamp \in Nat
    <3>1. ASSUME NEW h \in 1..M PROVE q[h].timestamp < b /\ q[h].timestamp \in Nat
      <4>1. out[h].timestamp < b /\ \E k \in 1..n : out[h] = l[k]
        BY DEF Shown, M
      <4> QED BY <1>3, <1>5, <4>1
    <3> QED BY <3>1
  <2>2. \A h \in 1..K : x[h].timestamp = b /\ x[h].trace = list[h]
    BY <1>2
  <2>3. i \in Int /\ j \in Int
    BY <1>5, <1>1
  <2>4. CASE i \in 1..M
    <3>1. j \in 1..M
      BY <1>1, <1>7, <2>3, <2>4, <1>5
    <3> QED BY <1>5, <1>7, <2>4, <3>1 DEF Shown, M
  <2>5. CASE i \notin 1..M
    <3>1. i - M \in 1..K /\ q[i] = x[i - M]
      BY <1>5, <2>5
    <3>2. CASE j \in 1..M
      <4>1. q[j].timestamp < b /\ q[j].timestamp \in Nat /\ q[i].timestamp = b
        BY <2>1, <2>2, <3>1, <3>2
      <4> QED BY <4>1
    <3>3. CASE j \notin 1..M
      <4>1. j - M \in 1..K /\ q[j] = x[j - M] /\ j - M # i - M
        BY <1>1, <1>5, <1>7, <2>3, <3>3
      <4>2. list[j - M] # list[i - M]
        BY <3>1, <4>1 DEF Changing, Distinct, K
      <4>3. /\ x[j - M].timestamp = b /\ x[j - M].trace = list[j - M]
            /\ x[i - M].timestamp = b /\ x[i - M].trace = list[i - M]
        BY <2>2, <3>1, <4>1
      <4> QED BY <3>1, <4>1, <4>2, <4>3
    <3> QED BY <3>2, <3>3
  <2> QED BY <2>4, <2>5
<1>8. ASSUME NEW k \in 1..n, LastIn(l, k, n), l[k].timestamp < b + 1
      PROVE  \E i \in 1..Len(q) : q[i] = l[k]
  <2>1. CASE l[k].timestamp < b
    <3>1. PICK i \in 1..M : out[i] = l[k]
      BY <1>8, <2>1 DEF Shown, M
    <3>2. i \in 1..Len(q) /\ q[i] = out[i]
      BY <1>1, <1>5
    <3> QED BY <3>1, <3>2
  <2>2. CASE ~(l[k].timestamp < b)
    <3>1. l[k].timestamp = b
      BY <1>3, <1>8, <2>2
    <3>2. PICK i \in 1..K : list[i] = l[k].trace
      BY <3>1 DEF Changing, K
    <3>3. PICK h \in 1..n : x[i] = l[h] /\ l[h].trace = list[i] /\ l[h].timestamp = b
                            /\ \A j \in (h + 1)..n : l[j].trace # list[i]
      BY <1>2
    <3>4. h = k
      <4>1. ~(k < h)
        <5>1. k < h => h \in (k + 1)..n
          OBVIOUS
        <5> QED BY <1>8, <3>1, <3>2, <3>3, <5>1 DEF LastIn
      <4>2. ~(h < k)
        <5>1. h < k => k \in (h + 1)..n
          OBVIOUS
        <5> QED BY <3>2, <3>3, <5>1
      <4> QED BY <4>1, <4>2
    <3>5. M + i \in 1..Len(q) /\ q[M + i] = x[i]
      BY <1>1, <1>5
    <3> QED BY <3>3, <3>4, <3>5
  <2> QED BY <2>1, <2>2
<1>9. Shown(l, n, b + 1, q)
  BY <1>5, <1>6, <1>7, <1>8 DEF Shown
<1> QED BY <1>9 DEF q, x

(* The next event is not earlier than those the back-end got.               *)
LEMMA ShownNext ==
  ASSUME NEW l \in Seq(Events), NEW n \in Nat, n + 1 \in 1..Len(l), NEW b \in Int, NEW out,
         Shown(l, n, b, out), b <= l[n + 1].timestamp,
         \A k \in 1..n : l[k].timestamp < l[n + 1].timestamp => l[k].timestamp < b
  PROVE  Shown(l, n + 1, l[n + 1].timestamp, out)
<1> DEFINE c == l[n + 1].timestamp
<1>1. \A k \in 1..(n + 1) : l[k] \in Events /\ l[k].timestamp \in Nat
  <2>1. \A k \in 1..(n + 1) : l[k] \in Events
    OBVIOUS
  <2> QED BY <2>1, EventSize
<1>2. c \in Nat /\ n + 1 \in 1..(n + 1)
  BY <1>1
<1> HIDE DEF c
<1>3. b <= c /\ l[n + 1].timestamp = c /\ \A k \in 1..n : l[k].timestamp < c => l[k].timestamp < b
  BY DEF c
<1>4. ASSUME NEW k \in 1..n, l[k].timestamp < c PROVE LastIn(l, k, n) <=> LastIn(l, k, n + 1)
  <2>1. l[n + 1].timestamp # l[k].timestamp
    BY <1>1, <1>2, <1>3, <1>4
  <2>2. \A j : j \in (k + 1)..(n + 1) <=> j \in (k + 1)..n \/ j = n + 1
    OBVIOUS
  <2> QED BY <2>1, <2>2 DEF LastIn
<1>5. ASSUME NEW i \in 1..Len(out)
      PROVE  out[i].timestamp < c /\ \E k \in 1..(n + 1) : out[i] = l[k] /\ LastIn(l, k, n + 1)
  <2>1. PICK k \in 1..n : out[i].timestamp < b /\ out[i] = l[k] /\ LastIn(l, k, n)
    BY DEF Shown
  <2>2. k \in 1..(n + 1) /\ l[k].timestamp \in Nat
    BY <1>1
  <2>3. l[k].timestamp < c
    BY <1>2, <1>3, <2>1, <2>2
  <2> QED BY <1>4, <2>1, <2>2, <2>3
<1>6. ASSUME NEW k \in 1..(n + 1), LastIn(l, k, n + 1), l[k].timestamp < c
      PROVE  \E i \in 1..Len(out) : out[i] = l[k]
  <2>1. k # n + 1
    BY <1>2, <1>3, <1>6
  <2>2. k \in 1..n
    BY <2>1
  <2>3. LastIn(l, k, n) /\ l[k].timestamp < b
    BY <1>3, <1>4, <1>6, <2>2
  <2> QED BY <2>2, <2>3 DEF Shown
<1> QED BY <1>5, <1>6 DEF Shown, c

(* It changes its trace.                                                    *)
LEMMA ChangingNext ==
  ASSUME NEW l \in Seq(Events), NEW n \in Nat, n + 1 \in 1..Len(l), NEW v \in [Traces -> Int], NEW list,
         Changing(l, n, l[n + 1].timestamp, v, list)
  PROVE  Changing(l, n + 1, l[n + 1].timestamp, [v EXCEPT ![l[n + 1].trace] = l[n + 1].value],
                  IF Contains(list, l[n + 1].trace) THEN list ELSE <<l[n + 1].trace>> \o list)
<1> DEFINE e == l[n + 1]
           c == e.timestamp
           t == e.trace
           r == [v EXCEPT ![t] = e.value]
<1>1. e \in Events /\ t \in Traces /\ c \in Nat /\ e.value \in Int
  <2>1. e \in Events
    OBVIOUS
  <2> QED BY <2>1, EventSize
<1>2. e = Event(t, c, r[t])
  BY <1>1 DEF Event, Events
<1>3. \A u \in Traces : u # t => r[u] = v[u]
  BY <1>1
<1>4. /\ list \in Seq(Traces) /\ Distinct(list)
      /\ \A i \in 1..Len(list) : \E k \in 1..n :
           l[k] = Event(list[i], c, v[list[i]]) /\ \A j \in (k + 1)..n : l[j].trace # list[i]
      /\ \A k \in 1..n : l[k].timestamp = c => \E i \in 1..Len(list) : list[i] = l[k].trace
  BY DEF Changing
<1> HIDE DEF r
<1>5. e = l[n + 1] /\ e.trace = t /\ e.timestamp = c
  OBVIOUS
<1> HIDE DEF e, c, t
<1> PICK q : q = IF Contains(list, t) THEN list ELSE <<t>> \o list
  OBVIOUS
<1>6. /\ q \in Seq(Traces) /\ Distinct(q) /\ Len(q) \in Nat
      /\ \A u \in Traces : Holds(q, u) <=> Holds(list, u) \/ u = t
  <2>1. CASE Contains(list, t)
    <3>1. q = list /\ Holds(list, t)
      BY <2>1 DEF Contains, Holds
    <3> QED BY <1>4, <3>1
  <2>2. CASE ~Contains(list, t)
    <3>1. q = <<t>> \o list
      BY <2>2
    <3>2. /\ q \in Seq(Traces) /\ Len(q) = Len(list) + 1 /\ q[1] = t /\ Len(list) \in Nat
          /\ \A i \in 1..Len(list) : q[i + 1] = list[i]
          /\ \A i \in 2..Len(q) : i - 1 \in 1..Len(list) /\ q[i] = list[i - 1]
      BY <1>1, <1>4, <3>1
    <3>3. \A i \in 1..Len(q) : i = 1 \/ i \in 2..Len(q)
      BY <3>2
    <3>4. \A i \in 1..Len(list) : list[i] # t
      BY <2>2 DEF Contains
    <3>5. ASSUME NEW i \in 1..Len(q), NEW j \in 1..Len(q), q[i] = q[j] PROVE i = j
      <4>1. CASE i = 1 \/ j = 1
        BY <3>2, <3>3, <3>4, <3>5, <4>1
      <4>2. CASE i # 1 /\ j # 1
        <5>1. i \in 2..Len(q) /\ j \in 2..Len(q)
          BY <3>3, <4>2
        <5>2. i - 1 \in 1..Len(list) /\ j - 1 \in 1..Len(list) /\ list[i - 1] = list[j - 1]
          BY <3>2, <3>5, <5>1
        <5>3. i - 1 = j - 1
          BY <1>4, <5>2 DEF Distinct
        <5> QED BY <5>1, <5>3
      <4> QED BY <4>1, <4>2
    <3>6. ASSUME NEW u \in Traces PROVE Holds(q, u) <=> Holds(list, u) \/ u = t
      <4>1. ASSUME Holds(list, u) PROVE Holds(q, u)
        <5>1. PICK i \in 1..Len(list) : list[i] = u
          BY <4>1 DEF Holds
        <5>2. i + 1 \in 1..Len(q)
          BY <3>2
        <5> QED BY <3>2, <5>1, <5>2 DEF Holds
      <4>2. Holds(q, t)
        <5>1. 1 \in 1..Len(q)
          BY <3>2
        <5> QED BY <3>2, <5>1 DEF Holds
      <4>3. ASSUME Holds(q, u), u # t PROVE Holds(list, u)
        <5>1. PICK i \in 1..Len(q) : q[i] = u
          BY <4>3 DEF Holds
        <5>2. i \in 2..Len(q)
          BY <3>2, <3>3, <4>3, <5>1
        <5> QED BY <3>2, <5>1, <5>2 DEF Holds
      <4> QED BY <4>1, <4>2, <4>3
    <3>7. Distinct(q)
      BY <3>5 DEF Distinct
    <3>8. q \in Seq(Traces) /\ Len(q) \in Nat
      BY <3>2
    <3> QED BY <3>6, <3>7, <3>8, Zenon
  <2> QED BY <2>1, <2>2
<1>7. ASSUME NEW i \in 1..Len(q)
      PROVE  \E k \in 1..(n + 1) :
               l[k] = Event(q[i], c, r[q[i]]) /\ \A j \in (k + 1)..(n + 1) : l[j].trace # q[i]
  <2>1. q[i] \in Traces
    BY <1>6
  <2>2. CASE q[i] = t
    <3>1. n + 1 \in 1..(n + 1) /\ \A j \in ((n + 1) + 1)..(n + 1) : FALSE
      OBVIOUS
    <3> QED BY <1>2, <1>5, <2>2, <3>1
  <2>3. CASE q[i] # t
    <3>1. Holds(q, q[i])
      BY DEF Holds
    <3>2. Holds(list, q[i])
      BY <1>6, <2>1, <2>3, <3>1
    <3>3. PICK h \in 1..Len(list) : list[h] = q[i]
      BY <3>2 DEF Holds
    <3>4. PICK k \in 1..n : l[k] = Event(q[i], c, v[q[i]]) /\ \A j \in (k + 1)..n : l[j].trace # q[i]
      BY <1>4, <3>3, ZenonT(30)
    <3>5. k \in 1..(n + 1) /\ \A j \in (k + 1)..(n + 1) : j \in (k + 1)..n \/ j = n + 1
      OBVIOUS
    <3>6. r[q[i]] = v[q[i]]
      BY <1>3, <2>1, <2>3
    <3> QED BY <1>5, <2>3, <3>4, <3>5, <3>6
  <2> QED BY <2>2, <2>3
<1>8. ASSUME NEW k \in 1..(n + 1), l[k].timestamp = c PROVE \E i \in 1..Len(q) : q[i] = l[k].trace
  <2>1. l[k].trace \in Traces
    <3>1. l[k] \in Events
      OBVIOUS
    <3> QED BY <3>1, EventSize
  <2>2. k = n + 1 \/ k \in 1..n
    OBVIOUS
  <2>3. Holds(list, l[k].trace) \/ l[k].trace = t
    BY <1>4, <1>5, <1>8, <2>2 DEF Holds
  <2>4. Holds(q, l[k].trace)
    BY <1>6, <2>1, <2>3
  <2> QED BY <2>4 DEF Holds
<1>9. Changing(l, n + 1, c, r, q)
  BY <1>6, <1>7, <1>8 DEF Changing
<1> QED BY <1>9 DEF r, c, t, e

(* The log grows.                                                           *)
LEMMA DumpingGrows ==
  ASSUME NEW l \in Seq(Events), NEW k \in Seq(Events), NEW n, NEW last, NEW v, NEW list, NEW out,
         Dumping(l, n, last, v, list, out), Len(l) <= Len(k), \A i \in 1..Len(l) : k[i] = l[i]
  PROVE  Dumping(k, n, last, v, list, out)
<1>1. n \in 0..Len(l) /\ n \in 0..Len(k) /\ \A i \in 1..n : k[i] = l[i]
  BY DEF Dumping
<1>2. last = IF n = 0 THEN -1 ELSE k[n].timestamp
  BY <1>1 DEF Dumping
<1>3. ASSUME NEW h \in 1..n PROVE \A j \in (h + 1)..n : k[j] = l[j]
  <2>1. \A j \in (h + 1)..n : j \in 1..n
    BY <1>1
  <2> QED BY <1>1, <2>1
<1>4. ASSUME NEW h \in 1..n PROVE LastIn(k, h, n) <=> LastIn(l, h, n)
  BY <1>1, <1>3 DEF LastIn
<1>5. Shown(l, n, last, out) /\ Changing(l, n, last, v, list)
  BY DEF Dumping
<1>6. Shown(k, n, last, out)
  BY <1>1, <1>4, <1>5 DEF Shown
<1>7. Changing(k, n, last, v, list)
  BY <1>1, <1>3, <1>5, SMTT(30) DEF Changing
<1> QED BY <1>1, <1>2, <1>6, <1>7 DEF Dumping

(* The times of the events the dumper has had.                              *)
LEMMA DumpingTimes ==
  ASSUME NEW l \in Seq(Events), NEW n, NEW last, NEW v, NEW list, NEW out,
         Dumping(l, n, last, v, list, out), Ordered(l)
  PROVE  /\ n \in 0..Len(l) /\ last \in Int /\ (last = -1 <=> n = 0)
         /\ \A k \in 1..Len(l) : l[k].timestamp \in Nat
         /\ \A k \in 1..n : l[k].timestamp <= last
         /\ \A k \in (n + 1)..Len(l) : last <= l[k].timestamp
<1>1. n \in 0..Len(l) /\ last = IF n = 0 THEN -1 ELSE l[n].timestamp
  BY DEF Dumping
<1>2. \A k \in 1..Len(l) : l[k].timestamp \in Nat
  <2>1. \A k \in 1..Len(l) : l[k] \in Events
    OBVIOUS
  <2> QED BY <2>1, EventSize
<1>3. CASE n = 0
  <2>1. \A k \in (n + 1)..Len(l) : k \in 1..Len(l)
    BY <1>3
  <2>2. 1..n = {} /\ last = -1
    BY <1>1, <1>3
  <2> QED BY <1>1, <1>2, <1>3, <2>1, <2>2
<1>4. CASE n # 0
  <2>1. n \in 1..Len(l) /\ last = l[n].timestamp
    BY <1>1, <1>4
  <2>2. last \in Nat
    BY <1>2, <2>1
  <2>3. \A k \in 1..n : k \in 1..Len(l) /\ (k = n \/ k < n)
    BY <2>1
  <2>4. \A k \in (n + 1)..Len(l) : k \in 1..Len(l) /\ n < k
    BY <2>1
  <2>5. \A k \in 1..n : l[k].timestamp <= last
    BY <2>1, <2>2, <2>3 DEF Ordered
  <2>6. \A k \in (n + 1)..Len(l) : last <= l[k].timestamp
    BY <2>1, <2>4 DEF Ordered
  <2> QED BY <1>1, <1>2, <1>4, <2>2, <2>5, <2>6
<1> QED BY <1>3, <1>4

(* An event of a new time makes the values of the last one go to the         *)
(* back-end.                                                                *)
LEMMA DumpingNext ==
  ASSUME NEW l \in Seq(Events), NEW n, NEW last, NEW v \in [Traces -> Int], NEW list, NEW out, NEW to,
         Dumping(l, n, last, v, list, out), Ordered(l), n + 1 \in 1..Len(l),
         NEW new, new <=> last # -1 /\ last < l[n + 1].timestamp,
         NEW changed, changed = IF new THEN <<>> ELSE list,
         to = IF new THEN out \o [i \in 1..Len(list) |-> Event(list[i], last, v[list[i]])] ELSE out,
         NEW then, then = IF new \/ last = -1 THEN l[n + 1].timestamp ELSE last,
         NEW r, r = [v EXCEPT ![l[n + 1].trace] = l[n + 1].value],
         NEW q, q = IF Contains(changed, l[n + 1].trace) THEN changed ELSE <<l[n + 1].trace>> \o changed
  PROVE  Dumping(l, n + 1, then, r, q, to)
<1> PICK c : c = l[n + 1].timestamp
  OBVIOUS
<1>1. /\ n \in 0..Len(l) /\ last \in Int /\ (last = -1 <=> n = 0)
      /\ \A k \in 1..Len(l) : l[k].timestamp \in Nat
      /\ \A k \in 1..n : l[k].timestamp <= last
      /\ \A k \in (n + 1)..Len(l) : last <= l[k].timestamp
  BY DumpingTimes
<1>2. c \in Nat /\ last <= c /\ n \in Nat
  <2>1. n + 1 \in (n + 1)..Len(l) /\ n \in Nat
    BY <1>1
  <2> QED BY <1>1, <2>1
<1>3. Shown(l, n, last, out) /\ Changing(l, n, last, v, list)
  BY DEF Dumping
<1>4. new \/ last = -1 \/ last = c
  BY <1>1, <1>2
<1>5. Shown(l, n + 1, c, to) /\ Changing(l, n, c, v, changed)
  <2>1. CASE new
    <3>1. changed = <<>> /\ last < c
      BY <2>1
    <3>2. Shown(l, n, last + 1, to)
      BY <1>1, <1>3, <2>1, ShownFlush
    <3>3. \A k \in 1..n : k \in 1..Len(l) /\ l[k].timestamp < last + 1 /\ l[k].timestamp # c
      BY <1>1, <1>2, <3>1, SMTT(30)
    <3>4. last + 1 <= c /\ last + 1 \in Int
      BY <1>1, <1>2, <3>1
    <3>5. Shown(l, n + 1, c, to)
      BY <1>2, <3>2, <3>3, <3>4, ShownNext
    <3>6. <<>> \in Seq(Traces) /\ Len(<<>>) = 0 /\ Distinct(<<>>)
      BY DEF Distinct
    <3>7. \A i \in 1..0 : FALSE
      OBVIOUS
    <3> QED BY <3>1, <3>3, <3>5, <3>6, <3>7 DEF Changing
  <2>2. CASE ~new /\ last = -1
    <3>1. n = 0 /\ changed = list /\ to = out /\ \A k \in 1..n : FALSE
      BY <1>1, <2>2
    <3>2. Shown(l, n + 1, c, to)
      BY <1>1, <1>2, <1>3, <3>1, ShownNext
    <3>3. Changing(l, n, c, v, changed)
      BY <1>3, <3>1 DEF Changing
    <3> QED BY <3>2, <3>3
  <2>3. CASE ~new /\ last = c
    <3>1. changed = list /\ to = out
      BY <2>3
    <3>2. Shown(l, n + 1, c, to)
      BY <1>1, <1>2, <1>3, <2>3, <3>1, ShownNext
    <3> QED BY <1>3, <2>3, <3>1, <3>2
  <2> QED BY <1>4, <2>1, <2>2, <2>3
<1>6. Changing(l, n + 1, c, r, q)
  BY <1>2, <1>5, ChangingNext
<1>7. n + 1 # 0 /\ n + 1 \in 0..Len(l) /\ then = c
  BY <1>1, <1>4
<1> QED BY <1>5, <1>6, <1>7 DEF Dumping

(* At its end the dumper flushes what is left.                              *)
LEMMA DumpingEnds ==
  ASSUME NEW l \in Seq(Events), NEW n, NEW last, NEW v, NEW list, NEW out,
         Dumping(l, n, last, v, list, out), Ordered(l), n = Len(l)
  PROVE  Finished(l, n, last, out \o [i \in 1..Len(list) |-> Event(list[i], last, v[list[i]])])
<1>1. n \in 0..Len(l) /\ last \in Int /\ \A k \in 1..n : l[k].timestamp <= last
  BY DumpingTimes
<1>2. Shown(l, n, last, out) /\ Changing(l, n, last, v, list)
  BY DEF Dumping
<1> QED BY <1>1, <1>2, ShownFlush DEF Finished

(* Every change before a time that the back-end has got is a change of the   *)
(* whole log: what comes later does not change it.                          *)
LEMMA ShownIsRight ==
  ASSUME NEW l \in Seq(Events), NEW n \in 0..Len(l), NEW b \in Int, NEW out,
         Shown(l, n, b, out), \A k \in 1..Len(l) : l[k].timestamp \in Nat,
         \A k \in (n + 1)..Len(l) : b <= l[k].timestamp
  PROVE  /\ \A i \in 1..Len(out) : \E k \in 1..Len(l) : out[i] = l[k] /\ LastIn(l, k, Len(l))
         /\ \A i, j \in 1..Len(out) : j < i => out[j].timestamp <= out[i].timestamp /\ out[j] # out[i]
         /\ \A k \in 1..Len(l) : LastIn(l, k, Len(l)) /\ l[k].timestamp < b =>
              \E i \in 1..Len(out) : out[i] = l[k]
         /\ \A i \in 1..Len(out) : out[i].timestamp < b /\ out[i].timestamp \in Nat
<1>1. \A k \in 1..n : k \in 1..Len(l)
  OBVIOUS
<1>2. ASSUME NEW k \in 1..n, l[k].timestamp < b PROVE LastIn(l, k, n) <=> LastIn(l, k, Len(l))
  <2>1. \A j \in (k + 1)..n : j \in (k + 1)..Len(l)
    OBVIOUS
  <2>2. ASSUME NEW j \in (k + 1)..Len(l) PROVE j \in (k + 1)..n \/ l[j].timestamp # l[k].timestamp
    <3>1. CASE j <= n
      BY <3>1
    <3>2. CASE ~(j <= n)
      <4>1. j \in (n + 1)..Len(l) /\ j \in 1..Len(l) /\ k \in 1..Len(l)
        BY <3>2
      <4>2. b <= l[j].timestamp /\ l[j].timestamp \in Nat /\ l[k].timestamp \in Nat
        BY <4>1
      <4> QED BY <1>2, <4>2
    <3> QED BY <3>1, <3>2
  <2> QED BY <2>1, <2>2 DEF LastIn
<1>3. ASSUME NEW i \in 1..Len(out)
      PROVE  \E k \in 1..Len(l) : out[i] = l[k] /\ LastIn(l, k, Len(l)) /\ l[k].timestamp < b
  <2>1. PICK k \in 1..n : out[i].timestamp < b /\ out[i] = l[k] /\ LastIn(l, k, n)
    BY DEF Shown
  <2> QED BY <1>1, <1>2, <2>1
<1>4. ASSUME NEW k \in 1..Len(l), LastIn(l, k, Len(l)), l[k].timestamp < b
      PROVE  \E i \in 1..Len(out) : out[i] = l[k]
  <2>1. k \in 1..n
    <3>1. k \notin 1..n => k \in (n + 1)..Len(l)
      OBVIOUS
    <3>2. k \notin 1..n => b <= l[k].timestamp /\ l[k].timestamp \in Nat
      BY <3>1
    <3> QED BY <1>4, <3>2
  <2>2. LastIn(l, k, n)
    BY <1>2, <1>4, <2>1
  <2> QED BY <1>4, <2>1, <2>2 DEF Shown
<1> QED BY <1>3, <1>4 DEF Shown

-----------------------------------------------------------------------------
(* The pending ends of pulses.                                              *)

(* A set of natural numbers has a least element.                            *)
LEMMA Least ==
  ASSUME NEW T \in SUBSET Nat, T # {}
  PROVE  \E x \in T : \A y \in T : x <= y
<1> DEFINE R == OpToRel(<, Nat)
<1>1. IsWellFoundedOn(R, Nat)
  BY NatLessThanWellFounded
<1>2. \A x, y \in Nat : <<y, x>> \in R <=> y < x
  BY DEF OpToRel
<1> HIDE DEF R
<1>3. PICK x \in T : \A y \in T : ~(<<y, x>> \in R)
  BY <1>1, WFMin
<1>4. ASSUME NEW y \in T PROVE x <= y
  <2>1. x \in Nat /\ y \in Nat /\ ~(<<y, x>> \in R)
    BY <1>3
  <2>2. ~(y < x)
    BY <1>2, <2>1
  <2> QED BY <2>1, <2>2
<1> QED BY <1>4

(* A list is cut before the first place of a set of them.                   *)
LEMMA FirstCut ==
  ASSUME NEW n \in Nat, NEW T \in SUBSET (1..n)
  PROVE  \E k \in 0..n : (\A i \in 1..k : i \notin T) /\ (k < n => k + 1 \in T)
<1>1. CASE T = {}
  <2>1. n \in 0..n /\ ~(n < n)
    OBVIOUS
  <2> QED BY <1>1, <2>1
<1>2. CASE T # {}
  <2>1. T \in SUBSET Nat
    OBVIOUS
  <2>2. PICK x \in T : \A y \in T : x <= y
    BY <1>2, <2>1, Least
  <2>3. x \in 1..n /\ x - 1 \in 0..n /\ (x - 1) + 1 = x
    BY <2>2
  <2>4. \A i \in 1..(x - 1) : i \notin T
    BY <2>2, <2>3
  <2> QED BY <2>2, <2>3, <2>4
<1> QED BY <1>1, <1>2

(* check_pending_events takes the traces whose time has come.               *)
LEMMA CountIs ==
  ASSUME Sorted(pending, pending_timestamp), NEW timestamp \in Int
  PROVE  /\ PendingCount(timestamp) \in 0..Len(pending)
         /\ \A i \in 1..PendingCount(timestamp) :
              timestamp = -1 \/ pending_timestamp[pending[i]] <= timestamp
         /\ \A i \in (PendingCount(timestamp) + 1)..Len(pending) :
              timestamp # -1 /\ pending_timestamp[pending[i]] > timestamp
<1> DEFINE n == Len(pending)
           P(k) == /\ \A i \in 1..k : timestamp = -1 \/ pending_timestamp[pending[i]] <= timestamp
                   /\ k < n => timestamp # -1 /\ pending_timestamp[pending[k + 1]] > timestamp
           T == {i \in 1..n : timestamp # -1 /\ pending_timestamp[pending[i]] > timestamp}
<1>1. n \in Nat /\ T \in SUBSET (1..n)
  BY DEF Sorted
<1>2. \A i \in 1..n : pending_timestamp[pending[i]] \in Int
  <2>1. \A i \in 1..n : pending_timestamp[pending[i]] \in Times
    BY DEF Sorted
  <2> QED BY <2>1 DEF Times
<1>3. PICK k \in 0..n : (\A i \in 1..k : i \notin T) /\ (k < n => k + 1 \in T)
  <2> HIDE DEF n, T
  <2> QED BY <1>1, FirstCut
<1>4. P(k)
  <2>1. \A i \in 1..k : i \in 1..n
    BY <1>1
  <2>2. \A i \in 1..k : timestamp = -1 \/ pending_timestamp[pending[i]] <= timestamp
    BY <1>2, <1>3, <2>1
  <2>3. k < n => timestamp # -1 /\ pending_timestamp[pending[k + 1]] > timestamp
    BY <1>3
  <2> QED BY <2>2, <2>3
<1>5. PendingCount(timestamp) \in 0..n /\ P(PendingCount(timestamp))
  <2>1. \E h \in 0..n : P(h)
    BY <1>4
  <2>2. PendingCount(timestamp) = CHOOSE h \in 0..n : P(h)
    BY DEF PendingCount
  <2> HIDE DEF P, n
  <2> QED BY <2>1, <2>2
<1> PICK c : c = PendingCount(timestamp)
  OBVIOUS
<1>6. ASSUME NEW i \in (c + 1)..n
      PROVE  timestamp # -1 /\ pending_timestamp[pending[i]] > timestamp
  <2>1. c \in 0..n /\ c < n /\ c + 1 \in 1..n /\ i \in 1..n /\ (i = c + 1 \/ c + 1 < i)
    BY <1>1, <1>5
  <2>2. timestamp # -1 /\ pending_timestamp[pending[c + 1]] > timestamp
    BY <1>5, <2>1
  <2>3. pending_timestamp[pending[c + 1]] <= pending_timestamp[pending[i]]
    <3>1. pending_timestamp[pending[i]] \in Int
      BY <1>2, <2>1
    <3> QED BY <2>1, <3>1 DEF Sorted
  <2>4. pending_timestamp[pending[c + 1]] \in Int /\ pending_timestamp[pending[i]] \in Int
    BY <1>2, <2>1
  <2> QED BY <2>2, <2>3, <2>4
<1> QED BY <1>5, <1>6

(* A list without its first traces.                                         *)
LEMMA SuffixSorted ==
  ASSUME NEW list, NEW pt, Sorted(list, pt), NEW k \in 0..Len(list), NEW q, q = SubSeq(list, k + 1, Len(list))
  PROVE  /\ Sorted(q, pt)
         /\ \A u : Holds(q, u) => \E i \in (k + 1)..Len(list) : list[i] = u
<1>1. list \in Seq(Traces) /\ Len(list) \in Nat
  BY DEF Sorted
<1>2. /\ q \in Seq(Traces) /\ Len(q) = Len(list) - k /\ \A i \in 1..Len(q) : q[i] = list[k + i]
  BY <1>1, SubSeqProperties
<1>3. \A i \in 1..Len(q) : k + i \in (k + 1)..Len(list) /\ k + i \in 1..Len(list)
  BY <1>1, <1>2
<1>4. ASSUME NEW i \in 1..Len(q), NEW j \in 1..Len(q), q[i] = q[j] PROVE i = j
  <2>1. k + i \in 1..Len(list) /\ k + j \in 1..Len(list) /\ list[k + i] = list[k + j]
    BY <1>2, <1>3, <1>4
  <2>2. k + i = k + j
    BY <2>1 DEF Sorted, Distinct
  <2>3. i \in Nat /\ j \in Nat
    BY <1>1, <1>2
  <2> QED BY <2>2, <2>3
<1>5. ASSUME NEW i \in 1..Len(q), NEW j \in 1..Len(q), i < j PROVE pt[q[i]] <= pt[q[j]]
  <2>1. k + i \in 1..Len(list) /\ k + j \in 1..Len(list) /\ k + i < k + j
    BY <1>3, <1>5
  <2> QED BY <1>2, <2>1 DEF Sorted
<1>6. \A i \in 1..Len(q) : pt[q[i]] \in Times
  BY <1>2, <1>3 DEF Sorted
<1>7. Distinct(q)
  BY <1>4 DEF Distinct
<1>8. Sorted(q, pt)
  BY <1>2, <1>5, <1>6, <1>7 DEF Sorted
<1> QED BY <1>2, <1>3, <1>8 DEF Holds

(* A list without a trace, wherever it is.                                  *)
LEMMA DequeueSorted ==
  ASSUME NEW list, NEW pt, Sorted(list, pt), NEW t, NEW q, q = dequeue(list, t)
  PROVE  /\ Sorted(q, pt) /\ ~Holds(q, t)
         /\ \A u : Holds(q, u) => Holds(list, u)
<1>1. list \in Seq(Traces) /\ Len(list) \in Nat
  BY DEF Sorted
<1>2. CASE ~Contains(list, t)
  <2>1. q = list
    BY <1>2 DEF dequeue
  <2> QED BY <1>2, <2>1 DEF Contains, Holds
<1>3. CASE Contains(list, t)
  <2>1. PICK p : p = CHOOSE i \in 1..Len(list) : list[i] = t
    OBVIOUS
  <2>2. p \in 1..Len(list) /\ list[p] = t
    BY <1>3, <2>1 DEF Contains
  <2>3. q = SubSeq(list, 1, p - 1) \o SubSeq(list, p + 1, Len(list))
    BY <1>3, <2>1 DEF dequeue, RemoveAt
  <2>4. PICK a : a = SubSeq(list, 1, p - 1)
    OBVIOUS
  <2>5. PICK c : c = SubSeq(list, p + 1, Len(list))
    OBVIOUS
  <2>6. a \in Seq(Traces) /\ Len(a) = p - 1 /\ \A i \in 1..(p - 1) : a[i] = list[i]
    BY <1>1, <2>2, <2>4, SubSeqProperties
  <2>7. c \in Seq(Traces) /\ Len(c) = Len(list) - p /\ \A i \in 1..(Len(list) - p) : c[i] = list[p + i]
    BY <1>1, <2>2, <2>5, SubSeqProperties
  <2>8. /\ q \in Seq(Traces) /\ Len(q) = Len(a) + Len(c)
        /\ \A i \in 1..Len(a) : q[i] = a[i]
        /\ \A i \in 1..(Len(a) + Len(c)) :
             i \in 1..Len(a) \/ (i - Len(a) \in 1..Len(c) /\ q[i] = c[i - Len(a)])
    BY <2>3, <2>4, <2>5, <2>6, <2>7, Joined, SMTT(30)
  <2> DEFINE at(i) == IF i < p THEN i ELSE i + 1
  <2>9. ASSUME NEW i \in 1..Len(q) PROVE at(i) \in 1..Len(list) /\ at(i) # p /\ q[i] = list[at(i)]
    <3>1. CASE i < p
      <4>1. i \in 1..(p - 1) /\ i \in 1..Len(list) /\ i # p
        BY <1>1, <2>2, <2>6, <2>7, <2>8, <3>1
      <4> QED BY <2>6, <2>8, <3>1, <4>1
    <3>2. CASE ~(i < p)
      <4>1. i \notin 1..Len(a) /\ i + 1 \in 1..Len(list) /\ i + 1 # p /\ p + (i - (p - 1)) = i + 1
        BY <1>1, <2>2, <2>6, <2>7, <2>8, <3>2
      <4>2. i - (p - 1) \in 1..(Len(list) - p) /\ q[i] = c[i - (p - 1)]
        BY <2>6, <2>7, <2>8, <4>1
      <4> QED BY <2>7, <3>2, <4>1, <4>2
    <3> QED BY <3>1, <3>2
  <2>10. \A i, j \in 1..Len(q) : (at(i) = at(j) => i = j) /\ (i < j => at(i) < at(j))
    BY <1>1, <2>2, <2>6, <2>7, <2>8
  <2> HIDE DEF at
  <2>11. ASSUME NEW i \in 1..Len(q), NEW j \in 1..Len(q), q[i] = q[j] PROVE i = j
    BY <2>9, <2>10, <2>11 DEF Sorted, Distinct
  <2>12. ASSUME NEW i \in 1..Len(q), NEW j \in 1..Len(q), i < j PROVE pt[q[i]] <= pt[q[j]]
    BY <2>9, <2>10, <2>12 DEF Sorted
  <2>13. \A i \in 1..Len(q) : pt[q[i]] \in Times
    BY <2>9 DEF Sorted
  <2>14. ~Holds(q, t)
    BY <2>2, <2>9 DEF Sorted, Distinct, Holds
  <2>15. \A u : Holds(q, u) => Holds(list, u)
    BY <2>9 DEF Holds
  <2>16. Distinct(q)
    BY <2>11 DEF Distinct
  <2> QED BY <2>8, <2>12, <2>13, <2>14, <2>15, <2>16 DEF Sorted
<1> QED BY <1>2, <1>3

(* enqueue_pending puts a trace at its place.                               *)
LEMMA EnqueueSorted ==
  ASSUME NEW list, Sorted(list, pending_timestamp), NEW t \in Traces, ~Holds(list, t),
         NEW timestamp \in Times, NEW pt,
         \A u \in Traces : Holds(list, u) => pt[u] = pending_timestamp[u], pt[t] = timestamp,
         NEW q, q = enqueue_pending(list, t, timestamp)
  PROVE  /\ Sorted(q, pt)
         /\ \A u : Holds(q, u) => Holds(list, u) \/ u = t
<1> DEFINE n == Len(list)
           P(p) == /\ \A i \in 1..(p - 1) : pending_timestamp[list[i]] < timestamp
                   /\ p <= n => pending_timestamp[list[p]] >= timestamp
           T == {i \in 1..n : pending_timestamp[list[i]] >= timestamp}
<1>1. list \in Seq(Traces) /\ n \in Nat /\ T \in SUBSET (1..n)
  BY DEF Sorted
<1>2. timestamp \in Int /\ \A i \in 1..n : pending_timestamp[list[i]] \in Int
  <2>1. \A i \in 1..n : pending_timestamp[list[i]] \in Times
    BY DEF Sorted
  <2> QED BY <2>1 DEF Times
<1>3. PICK k \in 0..n : (\A i \in 1..k : i \notin T) /\ (k < n => k + 1 \in T)
  <2> HIDE DEF n, T
  <2> QED BY <1>1, FirstCut
<1>4. k + 1 \in 1..(n + 1) /\ P(k + 1)
  <2>1. k + 1 \in 1..(n + 1) /\ (k + 1) - 1 = k /\ (k + 1 <= n <=> k < n) /\ \A i \in 1..k : i \in 1..n
    BY <1>1
  <2>2. \A i \in 1..k : pending_timestamp[list[i]] < timestamp
    BY <1>2, <1>3, <2>1
  <2>3. k + 1 <= n => pending_timestamp[list[k + 1]] >= timestamp
    BY <1>3, <2>1
  <2> QED BY <2>1, <2>2, <2>3
<1>5. PICK p : p = CHOOSE x \in 1..(n + 1) : P(x)
  OBVIOUS
<1>6. p \in 1..(n + 1) /\ P(p)
  <2> HIDE DEF P, n
  <2> QED BY <1>4, <1>5
<1>7. q = SubSeq(list, 1, p - 1) \o <<t>> \o SubSeq(list, p, n)
  BY <1>5 DEF enqueue_pending, InsertAt
<1>8. PICK a : a = SubSeq(list, 1, p - 1)
  OBVIOUS
<1>9. PICK c : c = SubSeq(list, p, n)
  OBVIOUS
<1>10. a \in Seq(Traces) /\ Len(a) = p - 1 /\ \A i \in 1..(p - 1) : a[i] = list[i]
  BY <1>1, <1>6, <1>8, SubSeqProperties
<1>11. c \in Seq(Traces) /\ Len(c) = n - p + 1 /\ \A i \in 1..(n - p + 1) : c[i] = list[p + i - 1]
  BY <1>1, <1>6, <1>9, SubSeqProperties
<1> HIDE DEF P, T, n
<1>12. PICK d : d = a \o <<t>>
  OBVIOUS
<1>13. d \in Seq(Traces) /\ Len(d) = p /\ d[p] = t /\ \A i \in 1..(p - 1) : d[i] = list[i]
  BY <1>1, <1>6, <1>10, <1>12
<1>14. /\ q \in Seq(Traces) /\ Len(q) = n + 1
       /\ \A i \in 1..p : q[i] = d[i]
       /\ \A i \in 1..(n + 1) : i \in 1..p \/ (i - p \in 1..(n - p + 1) /\ q[i] = c[i - p])
  <2>1. q = d \o c
    BY <1>7, <1>8, <1>9, <1>12
  <2>2. /\ q \in Seq(Traces) /\ Len(q) = Len(d) + Len(c)
        /\ \A i \in 1..Len(d) : q[i] = d[i]
        /\ \A i \in 1..(Len(d) + Len(c)) :
             i \in 1..Len(d) \/ (i - Len(d) \in 1..Len(c) /\ q[i] = c[i - Len(d)])
    <3>1. d \in Seq(Traces) /\ c \in Seq(Traces)
      BY <1>11, <1>13
    <3> QED BY <2>1, <3>1, Joined
  <2>3. Len(d) + Len(c) = n + 1
    BY <1>1, <1>6, <1>11, <1>13
  <2> QED BY <1>11, <1>13, <2>2, <2>3
<1>15. q[p] = t /\ p \in 1..Len(q)
  BY <1>1, <1>6, <1>13, <1>14
<1> DEFINE at(i) == IF i < p THEN i ELSE i - 1
<1>16. ASSUME NEW i \in 1..Len(q), i # p PROVE at(i) \in 1..n /\ q[i] = list[at(i)]
  <2>1. CASE i < p
    <3>1. i \in 1..p /\ i \in 1..(p - 1) /\ i \in 1..n
      BY <1>1, <1>6, <1>14, <2>1
    <3> QED BY <1>13, <1>14, <2>1, <3>1
  <2>2. CASE ~(i < p)
    <3>1. /\ i \notin 1..p /\ i \in 1..(n + 1) /\ i - 1 \in 1..n
          /\ i - p \in 1..(n - p + 1) /\ p + (i - p) - 1 = i - 1
      BY <1>1, <1>6, <1>14, <1>16, <2>2
    <3>2. q[i] = c[i - p] /\ c[i - p] = list[p + (i - p) - 1]
      BY <1>11, <1>14, <3>1
    <3> QED BY <2>2, <3>1, <3>2
  <2> QED BY <2>1, <2>2
<1>17. \A i, j \in 1..Len(q) : i # p /\ j # p => (at(i) = at(j) => i = j) /\ (i < j => at(i) < at(j))
  BY <1>1, <1>6, <1>14
<1>18. \A i \in 1..Len(q) : i # p => (i < p <=> at(i) \in 1..(p - 1)) /\ (i > p => at(i) >= p)
  BY <1>1, <1>6, <1>14
<1> HIDE DEF at
<1>19. \A i \in 1..Len(q) : i # p => q[i] # t /\ q[i] \in Traces /\ pt[q[i]] = pending_timestamp[list[at(i)]]
  <2>1. ASSUME NEW i \in 1..Len(q), i # p
        PROVE  q[i] # t /\ q[i] \in Traces /\ pt[q[i]] = pending_timestamp[list[at(i)]]
    <3>1. q[i] = list[at(i)] /\ at(i) \in 1..Len(list)
      BY <1>16, <2>1 DEF n
    <3>2. Holds(list, q[i])
      BY <3>1 DEF Holds
    <3>3. q[i] \in Traces
      BY <1>14
    <3> QED BY <3>1, <3>2, <3>3
  <2> QED BY <2>1
<1>20. ASSUME NEW i \in 1..Len(q), NEW j \in 1..Len(q), q[i] = q[j] PROVE i = j
  <2>1. CASE i = p \/ j = p
    BY <1>15, <1>19, <1>20, <2>1
  <2>2. CASE i # p /\ j # p
    <3>1. at(i) = at(j)
      BY <1>16, <1>20, <2>2 DEF Sorted, Distinct, n
    <3> QED BY <1>17, <2>2, <3>1
  <2> QED BY <2>1, <2>2
<1>21. \A i \in 1..Len(q) : pt[q[i]] \in Times
  <2>1. ASSUME NEW i \in 1..Len(q), i # p PROVE pt[q[i]] \in Times
    <3>1. at(i) \in 1..n /\ pt[q[i]] = pending_timestamp[list[at(i)]]
      BY <1>16, <1>19, <2>1
    <3> QED BY <3>1 DEF Sorted, n
  <2> QED BY <1>15, <2>1
<1>22. \A h \in 1..n : p <= h => timestamp <= pending_timestamp[list[h]]
  <2>1. ASSUME NEW h \in 1..n, p <= h PROVE timestamp <= pending_timestamp[list[h]]
    <3>1. p \in 1..n /\ p <= n
      BY <1>1, <1>6, <2>1
    <3>2. timestamp <= pending_timestamp[list[p]] /\ pending_timestamp[list[p]] \in Int /\ pending_timestamp[list[h]] \in Int
      BY <1>2, <1>6, <3>1 DEF P
    <3>3. p = h \/ p < h
      BY <1>6, <2>1
    <3>4. p < h => pending_timestamp[list[p]] <= pending_timestamp[list[h]]
      BY <3>1 DEF Sorted, n
    <3> QED BY <1>2, <3>2, <3>3, <3>4
  <2> QED BY <2>1
<1>23. ASSUME NEW i \in 1..Len(q), NEW j \in 1..Len(q), i < j PROVE pt[q[i]] <= pt[q[j]]
  <2>1. CASE i # p /\ j # p
    <3>1. at(i) < at(j) /\ at(i) \in 1..n /\ at(j) \in 1..n
      BY <1>16, <1>17, <1>23, <2>1
    <3>2. pending_timestamp[list[at(i)]] <= pending_timestamp[list[at(j)]]
      BY <3>1 DEF Sorted, n
    <3> QED BY <1>19, <2>1, <3>2
  <2>2. CASE i = p
    <3>1. j # p /\ j > p
      BY <1>6, <1>23, <2>2, <1>14
    <3>2. at(j) >= p /\ at(j) \in 1..n
      BY <1>16, <1>18, <3>1
    <3>3. timestamp <= pending_timestamp[list[at(j)]]
      BY <1>6, <1>22, <3>2
    <3> QED BY <1>15, <1>19, <2>2, <3>1, <3>3
  <2>3. CASE j = p
    <3>1. i # p /\ i < p
      BY <1>6, <1>23, <2>3, <1>14
    <3>2. at(i) \in 1..(p - 1) /\ at(i) \in 1..n
      BY <1>16, <1>18, <3>1
    <3>3. pending_timestamp[list[at(i)]] < timestamp /\ pending_timestamp[list[at(i)]] \in Int
      BY <1>2, <1>6, <3>2 DEF P
    <3> QED BY <1>2, <1>15, <1>19, <2>3, <3>1, <3>3
  <2> QED BY <2>1, <2>2, <2>3
<1>24. Distinct(q)
  BY <1>20 DEF Distinct
<1>25. ASSUME NEW u, Holds(q, u) PROVE Holds(list, u) \/ u = t
  <2>1. PICK i \in 1..Len(q) : q[i] = u
    BY <1>25 DEF Holds
  <2> QED BY <1>15, <1>16, <2>1 DEF Holds, n
<1> QED BY <1>14, <1>21, <1>23, <1>24, <1>25 DEF Sorted

-----------------------------------------------------------------------------
(* The steps.                                                               *)

(* Nothing was written at the start.                                        *)
LEMMA InitWaveInv == Init => WaveInv
<1> SUFFICES ASSUME Init PROVE WaveInv
  OBVIOUS
<1>1. Inv
  BY InitInv
<1>2. {BufferSize, PtrSize, MaxTime, MaxPulse, MaxCalls} \subseteq Nat
  BY TraceEngineAssumption
<1>3. <<>> \in Seq(Events) /\ <<>> \in Seq(Traces) /\ Len(<<>>) = 0 /\ \A i \in 1..0 : FALSE
  OBVIOUS
<1>4. PendingInv
  <2>1. pending = <<>> /\ Sorted(<<>>, pending_timestamp)
    BY <1>3 DEF Init, Sorted, Distinct
  <2>2. time \in 0..MaxTime /\ calls \in 0..MaxCalls /\ global_enable \in BOOLEAN
    BY <1>2 DEF Init
  <2>3. pending_timestamp \in [Traces -> Int] /\ background \in [Traces -> (-MaxCalls)..MaxCalls]
    BY <1>2 DEF Init
  <2> QED BY <2>1, <2>2, <2>3 DEF PendingInv
<1>5. log = <<>> /\ todo = <<>> /\ ready_event_buffers = <<>> /\ unpacked = None /\ current_buffer_size = 0
  BY DEF Init
<1>6. LogInv
  <2>1. pending = <<>> /\ \A u : ~Holds(<<>>, u)
    BY <1>3 DEF Init, Holds
  <2>2. Ordered(<<>>) /\ Before(<<>>, time)
    BY <1>3 DEF Ordered, Before
  <2> QED BY <1>3, <1>5, <2>1, <2>2 DEF LogInv
<1>7. None # Null
  BY TraceEngineAssumption
<1>8. CallInv
  BY <1>7 DEF Init, CallInv
<1>9. MemoryInv
  <2>1. memory \in [Buffers -> [0..(BufferSize - 1) -> Events \cup {Null, Filler}]]
    BY DEF Init
  <2>2. current_buffer \in Buffers
    BY <1>1, <1>5, TraceEngineAssumption, AllBuffers, PopHead DEF Init
  <2> DEFINE cut == [i \in 0..0 |-> 0]
  <2>3. cut \in [0..Len(<<>>) -> 0..Len(<<>>)] /\ cut[0] = 0
    BY <1>3
  <2> HIDE DEF cut
  <2>4. Cuts(memory, <<>>, 0, <<>>, None, 0, None, position, 0, cut)
    BY <1>3, <2>3, TraceEngineAssumption DEF Cuts
  <2>5. Chain(memory, <<>>, 0, <<>>, None, 0, None, position, 0)
    BY <2>3, <2>4 DEF Chain
  <2>6. Chain(memory, <<>>, 0, <<>>, current_buffer, 0, None, position, 0)
    <3>1. 0 \in 0..Len(<<>>) /\ <<>> \in Seq(Buffers)
      BY <1>3
    <3> QED BY <1>3, <2>2, <2>5, <3>1, ChainTake
  <2>7. last_timestamp = -1 /\ to_dump = <<>> /\ output = <<>> /\ value \in [Traces -> Int]
    BY DEF Init
  <2>8. Dumping(<<>>, 0, -1, value, <<>>, <<>>)
    <3>1. 0 \in 0..Len(<<>>) /\ Distinct(<<>>)
      BY <1>3 DEF Distinct
    <3>2. Shown(<<>>, 0, -1, <<>>)
      BY <1>3 DEF Shown
    <3>3. Changing(<<>>, 0, -1, value, <<>>)
      BY <1>3, <3>1 DEF Changing
    <3> QED BY <3>1, <3>2, <3>3 DEF Dumping
  <2>9. 0 \in 0..Len(log) /\ Len(log) - Len(todo) = 0 /\ current_buffer_size \in Nat
    BY <1>3, <1>5
  <2> QED BY <1>5, <1>7, <2>1, <2>6, <2>7, <2>8, <2>9 DEF MemoryInv
<1> QED BY <1>1, <1>4, <1>6, <1>8, <1>9 DEF WaveInv

(* The log k is l with the events x behind it.                              *)
Longer(l, x, k) ==
  /\ k \in Seq(Events) /\ Ordered(k) /\ Len(k) = Len(l) + Len(x)
  /\ Len(l) <= Len(k) /\ \A i \in 1..Len(l) : k[i] = l[i]
  /\ \A i \in 1..Len(x) : x[i] = k[Len(l) + i]
  /\ \A b : Before(l, b) /\ Before(x, b) => Before(k, b)

(* A log that gets more events, which are not earlier.                      *)
LEMMA LogGrows ==
  ASSUME NEW l \in Seq(Events), Ordered(l), NEW x \in Seq(Events), Ordered(x),
         \A i \in 1..Len(x) : Before(l, x[i].timestamp), NEW k, k = l \o x
  PROVE  Longer(l, x, k)
<1>1. /\ k \in Seq(Events) /\ Len(k) = Len(l) + Len(x)
      /\ \A i \in 1..Len(l) : k[i] = l[i]
      /\ \A i \in 1..Len(x) : k[Len(l) + i] = x[i]
      /\ \A i \in 1..(Len(l) + Len(x)) :
           i \in 1..Len(l) \/ (i - Len(l) \in 1..Len(x) /\ k[i] = x[i - Len(l)])
  BY Joined
<1>2. Len(l) \in Nat /\ Len(x) \in Nat
  OBVIOUS
<1>3. ASSUME NEW i \in 1..Len(k), NEW j \in 1..Len(k), i < j PROVE k[i].timestamp <= k[j].timestamp
  <2>1. CASE j \in 1..Len(l)
    <3>1. i \in 1..Len(l)
      BY <1>1, <1>2, <1>3, <2>1
    <3> QED BY <1>1, <1>3, <2>1, <3>1 DEF Ordered
  <2>2. CASE j \notin 1..Len(l)
    <3>1. j - Len(l) \in 1..Len(x) /\ k[j] = x[j - Len(l)]
      BY <1>1, <2>2
    <3>2. CASE i \in 1..Len(l)
      BY <1>1, <3>1, <3>2 DEF Before
    <3>3. CASE i \notin 1..Len(l)
      <4>1. i - Len(l) \in 1..Len(x) /\ k[i] = x[i - Len(l)] /\ i - Len(l) < j - Len(l)
        BY <1>1, <1>2, <1>3, <3>3
      <4> QED BY <3>1, <4>1 DEF Ordered
    <3> QED BY <3>2, <3>3
  <2> QED BY <2>1, <2>2
<1>4. ASSUME NEW b, Before(l, b), Before(x, b) PROVE Before(k, b)
  BY <1>1, <1>4 DEF Before
<1>5. Ordered(k)
  BY <1>3 DEF Ordered
<1>6. Len(l) <= Len(k)
  BY <1>1, <1>2
<1> QED BY <1>1, <1>4, <1>5, <1>6 DEF Longer

(* Events go to the log, and to todo, when the engine thread is idle.       *)
LEMMA DumpsKeep ==
  ASSUME WaveInv, Idle, NEW events \in Seq(Events), Ordered(events),
         \A i \in 1..Len(events) : Before(log, events[i].timestamp),
         NEW next \in {"none", "flush", "stop"}, Dumps(events, next)
  PROVE  /\ CallInv' /\ MemoryInv'
         /\ log' \in Seq(Events) /\ Ordered(log')
         /\ todo' \in Seq(Events) /\ Len(todo') <= Len(log')
         /\ \A i \in 1..Len(todo') : todo'[i] = log'[Len(log') - Len(todo') + i]
         /\ \A b : Before(log, b) /\ Before(events, b) => Before(log', b)
<1>1. /\ log' = log \o todo' /\ todo' = IF global_enable THEN events ELSE <<>>
      /\ call' = next
      /\ UNCHANGED <<bufferVars, end, dumperVars, sleeping, global_enable>>
  BY DEF Dumps
<1>2. todo = <<>> /\ call = "none" /\ log \in Seq(Events) /\ Ordered(log)
  BY DEF Idle, WaveInv, LogInv
<1>3. ~end /\ unpacked # Null
  BY <1>2 DEF WaveInv, CallInv, Stopping
<1>4. CallInv'
  BY <1>1, <1>3 DEF CallInv, bufferVars, dumperVars, Stopping
<1>5. /\ todo' \in Seq(Events) /\ Ordered(todo')
      /\ \A i \in 1..Len(todo') : Before(log, todo'[i].timestamp)
      /\ \A b : Before(events, b) => Before(todo', b)
  <2>1. CASE global_enable
    BY <1>1, <2>1
  <2>2. CASE ~global_enable
    <3>1. todo' = <<>> /\ <<>> \in Seq(Events) /\ Len(<<>>) = 0 /\ \A i \in 1..0 : FALSE
      BY <1>1, <2>2
    <3> QED BY <3>1 DEF Ordered, Before
  <2> QED BY <2>1, <2>2
<1>6. /\ log' \in Seq(Events) /\ Ordered(log') /\ Len(log') = Len(log) + Len(todo')
      /\ Len(log) <= Len(log') /\ \A i \in 1..Len(log) : log'[i] = log[i]
      /\ \A i \in 1..Len(todo') : todo'[i] = log'[Len(log) + i]
      /\ \A b : Before(log, b) /\ Before(todo', b) => Before(log', b)
  <2>1. PICK x : x = todo'
    OBVIOUS
  <2>2. PICK k : k = log'
    OBVIOUS
  <2>3. x \in Seq(Events) /\ Ordered(x) /\ k = log \o x /\ \A i \in 1..Len(x) : Before(log, x[i].timestamp)
    BY <1>1, <1>5, <2>1, <2>2
  <2>4. Longer(log, x, k)
    BY <1>2, <2>3, LogGrows
  <2> QED BY <2>1, <2>2, <2>4 DEF Longer
<1>7. /\ Len(log) \in Nat /\ Len(todo') \in Nat /\ Len(todo') <= Len(log')
      /\ Len(log') - Len(todo') = Len(log) /\ Len(log) - Len(todo) = Len(log)
  BY <1>2, <1>5, <1>6
<1>8. MemoryInv'
  <2>1. PICK n \in 0..Len(log) :
          /\ Chain(memory, log, Len(log) - Len(todo), ready_event_buffers, current_buffer,
                   current_buffer_size, unpacked, position, n)
          /\ Dumping(log, n, last_timestamp, value, to_dump, output)
    BY <1>3 DEF WaveInv, MemoryInv
  <2>2. Chain(memory, log', Len(log), ready_event_buffers, current_buffer,
              current_buffer_size, unpacked, position, n)
    <3>1. ready_event_buffers \in Seq(Buffers)
      BY DEF WaveInv, Inv
    <3> QED BY <1>2, <1>6, <1>7, <2>1, <3>1, ChainGrows
  <2>3. Dumping(log', n, last_timestamp, value, to_dump, output)
    BY <1>2, <1>6, <2>1, DumpingGrows
  <2>4. n \in 0..Len(log')
    BY <1>6, <1>7
  <2>5. UNCHANGED <<memory, ready_event_buffers, current_buffer, current_buffer_size, unpacked, position,
                    last_timestamp, value, to_dump, output>>
    BY <1>1 DEF bufferVars, dumperVars
  <2>6. /\ memory \in [Buffers -> [0..(BufferSize - 1) -> Events \cup {Null, Filler}]]
        /\ current_buffer_size \in Nat /\ value \in [Traces -> Int]
    BY DEF WaveInv, MemoryInv
  <2> QED BY <1>3, <1>7, <2>2, <2>3, <2>4, <2>5, <2>6 DEF MemoryInv
<1>9. \A i \in 1..Len(todo') : todo'[i] = log'[Len(log') - Len(todo') + i]
  BY <1>6, <1>7
<1> QED BY <1>4, <1>5, <1>6, <1>7, <1>8, <1>9

(* The events that check_pending_events dumps, and the list it leaves.      *)
LEMMA PendingIs ==
  ASSUME WaveInv, call = "none", NEW timestamp \in {time, -1}
  PROVE  /\ PendingEvents(timestamp) \in Seq(Events) /\ Ordered(PendingEvents(timestamp))
         /\ \A i \in 1..Len(PendingEvents(timestamp)) : Before(log, PendingEvents(timestamp)[i].timestamp)
         /\ timestamp = time => Before(PendingEvents(timestamp), time)
         /\ timestamp = -1 => PendingLeft(timestamp) = <<>>
         /\ Sorted(PendingLeft(timestamp), pending_timestamp)
         /\ \A u : Holds(PendingLeft(timestamp), u) =>
              /\ Holds(pending, u) /\ u \in Traces
              /\ timestamp = time => time < pending_timestamp[u]
<1>1. /\ Sorted(pending, pending_timestamp) /\ time \in 0..MaxTime
      /\ background \in [Traces -> (-MaxCalls)..MaxCalls] /\ pending_timestamp \in [Traces -> Int]
  BY DEF WaveInv, PendingInv
<1>2. time \in Nat /\ timestamp \in Int
  BY <1>1
<1>3. PICK c : c = PendingCount(timestamp)
  OBVIOUS
<1>4. /\ c \in 0..Len(pending)
      /\ \A i \in 1..c : timestamp = -1 \/ pending_timestamp[pending[i]] <= timestamp
      /\ \A i \in (c + 1)..Len(pending) : timestamp # -1 /\ pending_timestamp[pending[i]] > timestamp
  BY <1>1, <1>2, <1>3, CountIs
<1>5. pending \in Seq(Traces) /\ Len(pending) \in Nat /\ \A i \in 1..c : i \in 1..Len(pending)
  BY <1>1, <1>4 DEF Sorted
<1>6. PICK x : x = PendingEvents(timestamp)
  OBVIOUS
<1>7. x = [i \in 1..c |-> Event(pending[i], pending_timestamp[pending[i]], background[pending[i]])]
  BY <1>3, <1>6 DEF PendingEvents
<1>8. ASSUME NEW i \in 1..c
      PROVE  x[i] \in Events /\ x[i].timestamp = pending_timestamp[pending[i]]
  <2>1. i \in 1..Len(pending) /\ pending[i] \in Traces
    BY <1>5
  <2>2. pending_timestamp[pending[i]] \in Times /\ background[pending[i]] \in (-MaxCalls)..MaxCalls
    BY <1>1, <2>1 DEF Sorted
  <2>3. x[i] = Event(pending[i], pending_timestamp[pending[i]], background[pending[i]])
    BY <1>7
  <2> QED BY <2>1, <2>2, <2>3 DEF Event, Events, Times
<1>9. x \in Seq(Events) /\ Len(x) = c
  <2>1. c \in Nat
    BY <1>4
  <2> QED BY <1>7, <1>8, <2>1
<1>10. Ordered(x)
  BY <1>1, <1>5, <1>8, <1>9 DEF Ordered, Sorted
<1>11. ASSUME NEW i \in 1..Len(x) PROVE Before(log, x[i].timestamp)
  <2>1. i \in 1..Len(pending) /\ pending[i] \in Traces /\ x[i].timestamp = pending_timestamp[pending[i]]
    BY <1>5, <1>8, <1>9
  <2>2. Holds(pending, pending[i])
    BY <2>1 DEF Holds
  <2> QED BY <2>1, <2>2 DEF WaveInv, LogInv
<1>12. timestamp = time => Before(x, time)
  <2>1. ASSUME NEW i \in 1..Len(x), timestamp = time PROVE x[i].timestamp <= time
    BY <1>2, <1>4, <1>8, <1>9, <2>1
  <2> QED BY <2>1 DEF Before
<1>13. PICK q : q = PendingLeft(timestamp)
  OBVIOUS
<1>14. q = SubSeq(pending, c + 1, Len(pending))
  BY <1>3, <1>13 DEF PendingLeft
<1>15. Sorted(q, pending_timestamp) /\ \A u : Holds(q, u) => \E i \in (c + 1)..Len(pending) : pending[i] = u
  BY <1>1, <1>4, <1>14, SuffixSorted
<1>16. ASSUME NEW u, Holds(q, u)
       PROVE  Holds(pending, u) /\ u \in Traces /\ timestamp # -1 /\ timestamp < pending_timestamp[u]
  <2>1. PICK i \in (c + 1)..Len(pending) : pending[i] = u
    BY <1>15, <1>16
  <2>2. i \in 1..Len(pending) /\ pending[i] \in Traces
    BY <1>4, <1>5
  <2>3. timestamp # -1 /\ pending_timestamp[u] > timestamp /\ pending_timestamp[u] \in Int
    BY <1>1, <1>4, <2>1, <2>2
  <2> QED BY <1>2, <2>1, <2>2, <2>3 DEF Holds
<1>17. ASSUME timestamp = -1 PROVE q = <<>>
  <2>1. ASSUME q # <<>> PROVE FALSE
    <3>1. q \in Seq(Traces)
      BY <1>15 DEF Sorted
    <3>2. 1 \in 1..Len(q)
      BY <2>1, <3>1
    <3>3. Holds(q, q[1])
      BY <3>2 DEF Holds
    <3> QED BY <1>16, <1>17, <3>3
  <2> QED BY <2>1
<1> QED BY <1>6, <1>9, <1>10, <1>11, <1>12, <1>13, <1>15, <1>16, <1>17

(* The times of the pending traces are kept, and the others forgotten.      *)
LEMMA TimestampsAre ==
  ASSUME NEW list \in Seq(Traces), pending_timestamp \in [Traces -> Int]
  PROVE  /\ TimestampsOf(list) \in [Traces -> Int]
         /\ \A u \in Traces : Holds(list, u) => TimestampsOf(list)[u] = pending_timestamp[u]
<1>1. TimestampsOf(list) \in [Traces -> Int]
  BY DEF TimestampsOf
<1>2. ASSUME NEW u \in Traces, Holds(list, u) PROVE u \in ToSet(list)
  <2>1. PICK i \in 1..Len(list) : list[i] = u
    BY <1>2 DEF Holds
  <2>2. i \in DOMAIN list
    OBVIOUS
  <2> QED BY <2>1, <2>2 DEF ToSet
<1>3. \A u \in Traces : Holds(list, u) => TimestampsOf(list)[u] = pending_timestamp[u]
  BY <1>2 DEF TimestampsOf
<1> QED BY <1>1, <1>3

(* A sorted list depends on the times of its traces only.                   *)
LEMMA SortedSame ==
  ASSUME NEW list, NEW pt, Sorted(list, pt), NEW qt,
         \A u \in Traces : Holds(list, u) => qt[u] = pt[u]
  PROVE  Sorted(list, qt)
<1>1. \A i \in 1..Len(list) : list[i] \in Traces /\ Holds(list, list[i])
  BY DEF Sorted, Holds
<1>2. \A i \in 1..Len(list) : qt[list[i]] = pt[list[i]]
  BY <1>1
<1> QED BY <1>2 DEF Sorted

(* The events of a call: the pending ones, and the new one.                 *)
LEMMA EventsOfCall ==
  ASSUME WaveInv, Idle, calls < MaxCalls, NEW t \in Traces,
         NEW events, events = PendingEvents(time) \o <<Event(t, time, calls + 1)>>
  PROVE  /\ events \in Seq(Events) /\ Ordered(events)
         /\ \A i \in 1..Len(events) : Before(log, events[i].timestamp)
         /\ Before(events, time) /\ Before(log, time)
<1>1. call = "none"
  BY DEF Idle
<1>2. PICK x : x = PendingEvents(time)
  OBVIOUS
<1>3. /\ x \in Seq(Events) /\ Ordered(x) /\ Before(x, time)
      /\ \A i \in 1..Len(x) : Before(log, x[i].timestamp)
  BY <1>1, <1>2, PendingIs
<1>4. time \in 0..MaxTime /\ calls \in 0..MaxCalls /\ {MaxTime, MaxPulse, MaxCalls} \subseteq Nat
  BY TraceEngineAssumption DEF WaveInv, PendingInv
<1>5. PICK e : e = Event(t, time, calls + 1)
  OBVIOUS
<1>6. e \in Events /\ e.timestamp = time
  <2>1. time \in 0..(MaxTime + MaxPulse) /\ calls + 1 \in (-MaxCalls)..MaxCalls
    BY <1>4
  <2> QED BY <1>5, <2>1 DEF Event, Events
<1>7. PICK y : y = <<e>>
  OBVIOUS
<1>8. y \in Seq(Events) /\ Len(y) = 1 /\ y[1] = e /\ \A i \in 1..1 : i = 1
  BY <1>6, <1>7
<1>9. Ordered(y) /\ Before(y, time) /\ time \in Int
  BY <1>4, <1>6, <1>8 DEF Ordered, Before
<1>10. \A i \in 1..Len(y) : Before(x, y[i].timestamp)
  BY <1>3, <1>6, <1>8
<1>11. events = x \o y
  BY <1>2, <1>5, <1>7
<1>12. /\ events \in Seq(Events) /\ Ordered(events)
       /\ \A b : Before(x, b) /\ Before(y, b) => Before(events, b)
  BY <1>3, <1>8, <1>9, <1>10, <1>11, LogGrows DEF Longer
<1>13. Before(log, time)
  BY <1>1 DEF WaveInv, LogInv, Stopping
<1>14. ASSUME NEW i \in 1..Len(events) PROVE Before(log, events[i].timestamp)
  <2>1. i \in 1..Len(x) \/ (i - Len(x) \in 1..Len(y) /\ events[i] = y[i - Len(x)])
    BY <1>3, <1>8, <1>11, Joined, SMTT(30)
  <2>2. i \in 1..Len(x) => events[i] = x[i]
    BY <1>3, <1>8, <1>11
  <2> QED BY <1>3, <1>6, <1>8, <1>13, <2>1, <2>2
<1> QED BY <1>3, <1>9, <1>12, <1>13, <1>14

(* What is before a time is before a later one.                             *)
LEMMA BeforeLater ==
  ASSUME NEW l \in Seq(Events), NEW a \in Int, NEW b \in Int, Before(l, a), a <= b
  PROVE  Before(l, b)
<1>1. ASSUME NEW i \in 1..Len(l) PROVE l[i].timestamp <= b
  <2>1. l[i] \in Events /\ l[i].timestamp <= a
    BY DEF Before
  <2>2. l[i].timestamp \in Nat
    BY <2>1, EventSize
  <2> QED BY <2>1, <2>2
<1> QED BY <1>1 DEF Before

(* A call that only dumps what is pending, and an event of a trace.         *)
LEMMA DumpEventKeeps ==
  ASSUME WaveInv, Inv', NEW t \in Traces, dump_event(t)
  PROVE  WaveInv'
<1>1. /\ Idle /\ calls < MaxCalls /\ calls' = calls + 1
      /\ pending' = PendingLeft(time) /\ pending_timestamp' = TimestampsOf(pending')
      /\ Dumps(PendingEvents(time) \o <<Event(t, time, calls')>>, "none")
      /\ UNCHANGED <<time, background>>
  BY DEF dump_event
<1>2. PICK events : events = PendingEvents(time) \o <<Event(t, time, calls + 1)>>
  OBVIOUS
<1>3. /\ events \in Seq(Events) /\ Ordered(events)
      /\ \A i \in 1..Len(events) : Before(log, events[i].timestamp)
      /\ Before(events, time) /\ Before(log, time)
  BY <1>1, <1>2, EventsOfCall
<1>4. Dumps(events, "none")
  BY <1>1, <1>2
<1>5. /\ CallInv' /\ MemoryInv'
      /\ log' \in Seq(Events) /\ Ordered(log')
      /\ todo' \in Seq(Events) /\ Len(todo') <= Len(log')
      /\ \A i \in 1..Len(todo') : todo'[i] = log'[Len(log') - Len(todo') + i]
      /\ \A b : Before(log, b) /\ Before(events, b) => Before(log', b)
  BY <1>1, <1>3, <1>4, DumpsKeep
<1>6. /\ Sorted(pending', pending_timestamp)
      /\ \A u : Holds(pending', u) => u \in Traces /\ time < pending_timestamp[u]
  BY <1>1, PendingIs DEF Idle
<1>7. pending_timestamp \in [Traces -> Int] /\ time \in 0..MaxTime /\ calls \in 0..MaxCalls
  BY DEF WaveInv, PendingInv
<1>8. /\ pending_timestamp' \in [Traces -> Int]
      /\ \A u \in Traces : Holds(pending', u) => pending_timestamp'[u] = pending_timestamp[u]
  <2>1. pending' \in Seq(Traces)
    BY <1>6 DEF Sorted
  <2> QED BY <1>1, <1>7, <2>1, TimestampsAre
<1>9. PendingInv'
  <2>1. Sorted(pending', pending_timestamp')
    BY <1>6, <1>8, SortedSame
  <2>2. calls' \in 0..MaxCalls
    BY <1>1, <1>7, TraceEngineAssumption
  <2>3. global_enable' = global_enable
    BY <1>4 DEF Dumps
  <2> QED BY <1>1, <1>8, <2>1, <2>2, <2>3 DEF WaveInv, PendingInv
<1>10. Before(log', time)
  BY <1>3, <1>5
<1>11. LogInv'
  <2>1. ASSUME NEW u \in Traces, Holds(pending', u) PROVE Before(log', pending_timestamp'[u])
    <3>1. time < pending_timestamp[u] /\ pending_timestamp'[u] = pending_timestamp[u] /\ pending_timestamp[u] \in Int
      BY <1>6, <1>7, <1>8, <2>1
    <3> QED BY <1>5, <1>7, <1>10, <3>1, BeforeLater
  <2> QED BY <1>1, <1>5, <1>10, <2>1 DEF LogInv
<1> QED BY <1>5, <1>9, <1>11 DEF WaveInv

(* A pulse: its end takes the place of a former one of the trace.           *)
LEMMA DumpPulseKeeps ==
  ASSUME WaveInv, Inv', NEW t \in Traces, NEW d \in 0..MaxPulse, dump_event_pulse(t, d)
  PROVE  WaveInv'
<1>1. /\ Idle /\ calls < MaxCalls /\ calls' = calls + 1
      /\ pending' = enqueue_pending(dequeue(PendingLeft(time), t), t, time + d)
      /\ pending_timestamp' = [TimestampsOf(dequeue(PendingLeft(time), t)) EXCEPT ![t] = time + d]
      /\ background' = [background EXCEPT ![t] = -calls']
      /\ Dumps(PendingEvents(time) \o <<Event(t, time, calls')>>, "none")
      /\ UNCHANGED time
  BY DEF dump_event_pulse
<1>2. PICK events : events = PendingEvents(time) \o <<Event(t, time, calls + 1)>>
  OBVIOUS
<1>3. /\ events \in Seq(Events) /\ Ordered(events)
      /\ \A i \in 1..Len(events) : Before(log, events[i].timestamp)
      /\ Before(events, time) /\ Before(log, time)
  BY <1>1, <1>2, EventsOfCall
<1>4. Dumps(events, "none")
  BY <1>1, <1>2
<1>5. /\ CallInv' /\ MemoryInv'
      /\ log' \in Seq(Events) /\ Ordered(log')
      /\ todo' \in Seq(Events) /\ Len(todo') <= Len(log')
      /\ \A i \in 1..Len(todo') : todo'[i] = log'[Len(log') - Len(todo') + i]
      /\ \A b : Before(log, b) /\ Before(events, b) => Before(log', b)
  BY <1>1, <1>3, <1>4, DumpsKeep
<1>6. PICK left : left = PendingLeft(time)
  OBVIOUS
<1>7. /\ Sorted(left, pending_timestamp)
      /\ \A u : Holds(left, u) => u \in Traces /\ time < pending_timestamp[u]
  BY <1>1, <1>6, PendingIs DEF Idle
<1>8. PICK others : others = dequeue(left, t)
  OBVIOUS
<1>9. /\ Sorted(others, pending_timestamp) /\ ~Holds(others, t)
      /\ \A u : Holds(others, u) => Holds(left, u)
  BY <1>7, <1>8, DequeueSorted
<1>10. /\ pending_timestamp \in [Traces -> Int] /\ time \in 0..MaxTime /\ calls \in 0..MaxCalls
       /\ background \in [Traces -> (-MaxCalls)..MaxCalls]
  BY DEF WaveInv, PendingInv
<1>11. time + d \in Times /\ time \in Int /\ d \in Int
  BY <1>10, TraceEngineAssumption DEF Times
<1>12. /\ pending_timestamp' \in [Traces -> Int] /\ pending_timestamp'[t] = time + d
       /\ \A u \in Traces : Holds(others, u) => pending_timestamp'[u] = pending_timestamp[u]
  <2>1. others \in Seq(Traces)
    BY <1>9 DEF Sorted
  <2>2. PICK f : f = TimestampsOf(others)
    OBVIOUS
  <2>3. f \in [Traces -> Int] /\ \A u \in Traces : Holds(others, u) => f[u] = pending_timestamp[u]
    BY <1>10, <2>1, <2>2, TimestampsAre
  <2>4. pending_timestamp' = [f EXCEPT ![t] = time + d]
    BY <1>1, <1>6, <1>8, <2>2
  <2> QED BY <1>9, <1>11, <2>3, <2>4
<1>13. /\ Sorted(pending', pending_timestamp')
       /\ \A u : Holds(pending', u) => Holds(others, u) \/ u = t
  <2>1. PICK q : q = pending'
    OBVIOUS
  <2>2. PICK qt : qt = pending_timestamp'
    OBVIOUS
  <2>3. q = enqueue_pending(others, t, time + d)
    BY <1>1, <1>6, <1>8, <2>1
  <2>4. Sorted(q, qt) /\ \A u : Holds(q, u) => Holds(others, u) \/ u = t
    BY <1>9, <1>11, <1>12, <2>2, <2>3, EnqueueSorted
  <2> QED BY <2>1, <2>2, <2>4
<1>14. PendingInv'
  <2>1. calls' \in 0..MaxCalls /\ -calls' \in (-MaxCalls)..MaxCalls
    BY <1>1, <1>10, TraceEngineAssumption
  <2>2. background' \in [Traces -> (-MaxCalls)..MaxCalls]
    BY <1>1, <1>10, <2>1
  <2>3. global_enable' = global_enable
    BY <1>4 DEF Dumps
  <2> QED BY <1>1, <1>12, <1>13, <2>1, <2>2, <2>3 DEF WaveInv, PendingInv
<1>15. Before(log', time)
  BY <1>3, <1>5
<1>16. LogInv'
  <2>1. ASSUME NEW u \in Traces, Holds(pending', u) PROVE Before(log', pending_timestamp'[u])
    <3>1. time <= pending_timestamp'[u] /\ pending_timestamp'[u] \in Int
      <4>1. CASE u = t
        BY <1>11, <1>12, <4>1
      <4>2. CASE u # t
        <5>1. Holds(others, u) /\ Holds(left, u)
          BY <1>9, <1>13, <2>1, <4>2
        <5>2. time < pending_timestamp[u] /\ pending_timestamp'[u] = pending_timestamp[u]
          BY <1>7, <1>12, <5>1
        <5> QED BY <1>10, <1>11, <5>2
      <4> QED BY <4>1, <4>2
    <3> QED BY <1>5, <1>11, <1>15, <3>1, BeforeLater
  <2> QED BY <1>1, <1>5, <1>15, <2>1 DEF LogInv
<1> QED BY <1>5, <1>14, <1>16 DEF WaveInv

(* flush() dumps what is pending now, stop() all of it.                     *)
LEMMA StartFlushKeeps ==
  ASSUME WaveInv, Inv', NEW next, NEW timestamp, StartFlush(next, timestamp),
         \/ next = "flush" /\ timestamp = time
         \/ next = "stop" /\ timestamp = -1
  PROVE  WaveInv'
<1>1. /\ Idle /\ pending' = PendingLeft(timestamp) /\ pending_timestamp' = TimestampsOf(pending')
      /\ Dumps(PendingEvents(timestamp), next)
      /\ UNCHANGED <<time, calls, background>>
  BY DEF StartFlush
<1>2. PICK events : events = PendingEvents(timestamp)
  OBVIOUS
<1>3. /\ events \in Seq(Events) /\ Ordered(events)
      /\ \A i \in 1..Len(events) : Before(log, events[i].timestamp)
      /\ timestamp = time => Before(events, time)
      /\ timestamp = -1 => pending' = <<>>
      /\ Sorted(pending', pending_timestamp)
      /\ \A u : Holds(pending', u) => u \in Traces /\ (timestamp = time => time < pending_timestamp[u])
  BY <1>1, <1>2, PendingIs DEF Idle
<1>4. Dumps(events, next) /\ next \in {"none", "flush", "stop"}
  BY <1>1, <1>2
<1>5. /\ CallInv' /\ MemoryInv'
      /\ log' \in Seq(Events) /\ Ordered(log')
      /\ todo' \in Seq(Events) /\ Len(todo') <= Len(log')
      /\ \A i \in 1..Len(todo') : todo'[i] = log'[Len(log') - Len(todo') + i]
      /\ \A b : Before(log, b) /\ Before(events, b) => Before(log', b)
  BY <1>1, <1>3, <1>4, DumpsKeep
<1>6. /\ pending_timestamp \in [Traces -> Int] /\ time \in 0..MaxTime /\ time \in Int
      /\ Before(log, time)
  BY <1>1 DEF WaveInv, PendingInv, LogInv, Stopping, Idle
<1>7. /\ pending_timestamp' \in [Traces -> Int]
      /\ \A u \in Traces : Holds(pending', u) => pending_timestamp'[u] = pending_timestamp[u]
  <2>1. pending' \in Seq(Traces)
    BY <1>3 DEF Sorted
  <2> QED BY <1>1, <1>6, <2>1, TimestampsAre
<1>8. PendingInv'
  <2>1. Sorted(pending', pending_timestamp')
    BY <1>3, <1>7, SortedSame
  <2>2. global_enable' = global_enable
    BY <1>4 DEF Dumps
  <2> QED BY <1>1, <1>7, <2>1, <2>2 DEF WaveInv, PendingInv
<1>9. LogInv'
  <2>1. call' = next
    BY <1>4 DEF Dumps
  <2>2. CASE next = "flush" /\ timestamp = time
    <3>1. Before(log', time)
      BY <1>3, <1>5, <1>6, <2>2
    <3>2. ASSUME NEW u \in Traces, Holds(pending', u) PROVE Before(log', pending_timestamp'[u])
      <4>1. time < pending_timestamp[u] /\ pending_timestamp'[u] = pending_timestamp[u] /\ pending_timestamp[u] \in Int
        BY <1>3, <1>6, <1>7, <2>2, <3>2
      <4> QED BY <1>5, <1>6, <3>1, <4>1, BeforeLater
    <3> QED BY <1>1, <1>5, <3>1, <3>2 DEF LogInv
  <2>3. CASE next = "stop" /\ timestamp = -1
    <3>1. pending' = <<>> /\ \A u : ~Holds(<<>>, u)
      BY <1>3, <2>3 DEF Holds
    <3>2. call' \in Stopping
      BY <2>1, <2>3 DEF Stopping
    <3> QED BY <1>5, <3>1, <3>2 DEF LogInv
  <2> QED BY <2>2, <2>3
<1> QED BY <1>5, <1>8, <1>9 DEF WaveInv

(* The facts about the buffers that the steps use.                          *)
LEMMA BufferFacts ==
  ASSUME WaveInv
  PROVE  /\ log \in Seq(Events) /\ Ordered(log) /\ todo \in Seq(Events)
         /\ ready_event_buffers \in Seq(Buffers) /\ current_buffer_size \in Nat
         /\ Len(log) - Len(todo) \in 0..Len(log)
         /\ current_buffer # None => current_buffer \in Buffers
         /\ current_buffer \in Buffers =>
              ~Holds(ready_event_buffers, current_buffer) /\ unpacked # current_buffer
         /\ memory \in [Buffers -> [0..(BufferSize - 1) -> Events \cup {Null, Filler}]]
         /\ value \in [Traces -> Int]
<1>1. /\ log \in Seq(Events) /\ Ordered(log) /\ todo \in Seq(Events) /\ Len(todo) <= Len(log)
  BY DEF WaveInv, LogInv
<1>2. Len(log) - Len(todo) \in 0..Len(log)
  BY <1>1
<1>3. /\ current_buffer # None => current_buffer \in Buffers
      /\ current_buffer \in Buffers =>
           ~Holds(ready_event_buffers, current_buffer) /\ unpacked # current_buffer
      /\ ready_event_buffers \in Seq(Buffers)
  BY DEF WaveInv, Inv, InOnePlace
<1>4. /\ memory \in [Buffers -> [0..(BufferSize - 1) -> Events \cup {Null, Filler}]]
      /\ value \in [Traces -> Int] /\ current_buffer_size \in Nat
  BY DEF WaveInv, MemoryInv
<1> QED BY <1>1, <1>2, <1>3, <1>4

(* The mark at the end of a buffer.                                         *)
LEMMA EndMarkIs ==
  ASSUME WaveInv, NEW b \in Buffers, NEW size \in Nat
  PROVE  LET m == EndMark(b, size)
         IN  /\ m \in [Buffers -> [0..(BufferSize - 1) -> Events \cup {Null, Filler}]]
             /\ \A c \in Buffers \ {b} : m[c] = memory[c]
             /\ \A q \in 0..(size - 1) : m[b][q] = memory[b][q]
             /\ size < BufferSize => m[b][size] = Null
<1>1. memory \in [Buffers -> [0..(BufferSize - 1) -> Events \cup {Null, Filler}]] /\ BufferSize \in Nat
  BY BufferFacts, TraceEngineAssumption
<1>2. CASE size < BufferSize
  <2>1. EndMark(b, size) = [memory EXCEPT ![b] = [memory[b] EXCEPT ![size] = Null]]
    BY <1>2 DEF EndMark
  <2>2. memory[b] \in [0..(BufferSize - 1) -> Events \cup {Null, Filler}] /\ size \in 0..(BufferSize - 1)
    BY <1>1, <1>2
  <2>3. PICK f : f = [memory[b] EXCEPT ![size] = Null]
    OBVIOUS
  <2>4. /\ f \in [0..(BufferSize - 1) -> Events \cup {Null, Filler}] /\ f[size] = Null
        /\ \A q \in 0..(size - 1) : f[q] = memory[b][q]
    BY <1>1, <2>2, <2>3
  <2> QED BY <1>1, <2>1, <2>3, <2>4
<1>3. CASE ~(size < BufferSize)
  BY <1>1, <1>3 DEF EndMark
<1> QED BY <1>2, <1>3

(* What the dumper has done does not depend on the buffers.                 *)
Done(n) == IF unpacked = Null THEN Finished(log, n, last_timestamp, output)
           ELSE Dumping(log, n, last_timestamp, value, to_dump, output)

(* The parts that a step of the buffers leaves alone.                       *)
LEMMA EngineSame ==
  ASSUME WaveInv, UNCHANGED <<engineVars, log, todo>>, call' \notin Stopping => call \notin Stopping
  PROVE  PendingInv' /\ LogInv'
<1>1. PendingInv'
  BY DEF WaveInv, PendingInv, engineVars
<1>2. LogInv'
  BY DEF WaveInv, LogInv, engineVars
<1> QED BY <1>1, <1>2

(* get_event_buffer passes the current buffer and takes a free one.         *)
LEMMA GetWave ==
  ASSUME WaveInv, Inv', get_event_buffer
  PROVE  WaveInv'
<1>1. UNCHANGED <<engineVars, callVars, dumperVars, log>> /\ todo # <<>>
  BY DEF get_event_buffer
<1>2. PendingInv' /\ LogInv'
  BY <1>1, EngineSame DEF callVars
<1>3. CallInv'
  BY <1>1 DEF WaveInv, CallInv, callVars, dumperVars
<1>4. PICK n \in 0..Len(log) :
        /\ Chain(memory, log, Len(log) - Len(todo), ready_event_buffers, current_buffer,
                 current_buffer_size, unpacked, position, n)
        /\ Done(n)
  BY DEF WaveInv, MemoryInv, Done
<1>5. PICK w : w = Len(log) - Len(todo)
  OBVIOUS
<1>6. log \in Seq(Events) /\ w \in 0..Len(log) /\ current_buffer_size \in Nat
  BY <1>5, BufferFacts
<1>7. /\ memory' \in [Buffers -> [0..(BufferSize - 1) -> Events \cup {Null, Filler}]]
      /\ ready_event_buffers' \in Seq(Buffers)
      /\ Chain(memory', log, w, ready_event_buffers', None, current_buffer_size, unpacked, position, n)
  <2>1. CASE current_buffer = None
    <3>1. memory' = memory /\ ready_event_buffers' = ready_event_buffers
      BY <2>1 DEF get_event_buffer
    <3> QED BY <1>4, <1>5, <2>1, <3>1, BufferFacts
  <2>2. CASE current_buffer # None
    <3>1. /\ ready_event_buffers' = Append(ready_event_buffers, current_buffer)
          /\ memory' = IF BufferSize - current_buffer_size > PtrSize
                       THEN EndMark(current_buffer, current_buffer_size) ELSE memory
      BY <2>2 DEF get_event_buffer
    <3>2. /\ current_buffer \in Buffers /\ ready_event_buffers \in Seq(Buffers)
          /\ ~Holds(ready_event_buffers, current_buffer) /\ unpacked # current_buffer
      BY <2>2, BufferFacts
    <3>3. PICK r : r = memory'
      OBVIOUS
    <3>4. BufferSize \in Nat /\ PtrSize \in Nat
      BY TraceEngineAssumption
    <3>5. /\ r \in [Buffers -> [0..(BufferSize - 1) -> Events \cup {Null, Filler}]]
          /\ \A b \in Buffers \ {current_buffer} : r[b] = memory[b]
          /\ \A q \in 0..(current_buffer_size - 1) : r[current_buffer][q] = memory[current_buffer][q]
          /\ current_buffer_size < BufferSize - PtrSize => r[current_buffer][current_buffer_size] = Null
      <4>1. CASE BufferSize - current_buffer_size > PtrSize
        <5>1. r = EndMark(current_buffer, current_buffer_size) /\ current_buffer_size < BufferSize
          BY <1>6, <3>1, <3>3, <3>4, <4>1
        <5> QED BY <1>6, <3>2, <5>1, EndMarkIs
      <4>2. CASE ~(BufferSize - current_buffer_size > PtrSize)
        <5>1. r = memory /\ ~(current_buffer_size < BufferSize - PtrSize)
          BY <1>6, <3>1, <3>3, <3>4, <4>2
        <5> QED BY <5>1, BufferFacts
      <4> QED BY <4>1, <4>2
    <3>6. Chain(r, log, w, Append(ready_event_buffers, current_buffer), None, current_buffer_size, unpacked, position, n)
      BY <1>4, <1>5, <1>6, <3>2, <3>5, ChainPass
    <3> QED BY <3>1, <3>2, <3>3, <3>5, <3>6
  <2> QED BY <2>1, <2>2
<1>8. /\ current_buffer_size' \in Nat
      /\ Chain(memory', log, w, ready_event_buffers', current_buffer', current_buffer_size', unpacked, position, n)
  <2>1. CASE event_buffers = <<>>
    <3>1. current_buffer' = None /\ current_buffer_size' = current_buffer_size
      BY <2>1 DEF get_event_buffer
    <3> QED BY <1>6, <1>7, <3>1
  <2>2. CASE event_buffers # <<>>
    <3>1. current_buffer' = Head(event_buffers) /\ current_buffer_size' = 0
      BY <2>2 DEF get_event_buffer
    <3>2. Head(event_buffers) \in Buffers
      BY <2>2 DEF WaveInv, Inv
    <3> QED BY <1>6, <1>7, <3>1, <3>2, ChainTake
  <2> QED BY <2>1, <2>2
<1>9. MemoryInv'
  <2>1. UNCHANGED <<log, todo, unpacked, position, last_timestamp, value, to_dump, output>>
    BY <1>1 DEF callVars, dumperVars
  <2> QED BY <1>4, <1>5, <1>7, <1>8, <2>1, BufferFacts DEF MemoryInv, Done
<1> QED BY <1>2, <1>3, <1>9 DEF WaveInv

(* An event is written to the current buffer.                               *)
LEMMA WriteWave ==
  ASSUME WaveInv, Inv', WriteEvent
  PROVE  WaveInv'
<1>1. /\ todo # <<>> /\ ~NeedsBuffer /\ todo' = Tail(todo)
      /\ UNCHANGED <<engineVars, event_buffers, ready_event_buffers, current_buffer, call, end,
                     dumperVars, sleeping, log>>
  BY DEF WriteEvent
<1>2. PICK w : w = Len(log) - Len(todo)
  OBVIOUS
<1>3. /\ log \in Seq(Events) /\ todo \in Seq(Events) /\ w \in 0..Len(log)
      /\ Len(log) \in Nat /\ Len(todo) \in Nat /\ Len(todo) > 0
      /\ \A i \in 1..Len(todo) : todo[i] = log[w + i]
  BY <1>1, <1>2, BufferFacts DEF WaveInv, LogInv
<1>4. /\ todo' \in Seq(Events) /\ Len(todo') = Len(todo) - 1 /\ Head(todo) = todo[1]
      /\ \A i \in 1..Len(todo') : todo'[i] = todo[i + 1]
  BY <1>1, <1>3
<1>5. /\ w # Len(log) /\ w + 1 \in 1..Len(log) /\ w + 1 = Len(log) - Len(todo')
      /\ 1 \in 1..Len(todo) /\ Len(todo') <= Len(log)
  BY <1>2, <1>3, <1>4
<1>6. Head(todo) = log[w + 1] /\ log[w + 1] \in Events
  BY <1>3, <1>4, <1>5
<1>7. PICK n \in 0..Len(log) :
        /\ Chain(memory, log, w, ready_event_buffers, current_buffer,
                 current_buffer_size, unpacked, position, n)
        /\ Done(n)
  BY <1>2 DEF WaveInv, MemoryInv, Done
<1>8. PendingInv'
  BY <1>1 DEF WaveInv, PendingInv, engineVars
<1>9. LogInv'
  <2>1. ASSUME NEW i \in 1..Len(todo') PROVE todo'[i] = log[(Len(log) - Len(todo')) + i]
    <3>1. i + 1 \in 1..Len(todo) /\ w + (i + 1) = (w + 1) + i
      BY <1>3, <1>4
    <3> QED BY <1>3, <1>4, <1>5, <3>1
  <2> QED BY <1>1, <1>4, <1>5, <2>1 DEF WaveInv, LogInv, engineVars
<1>10. CallInv'
  <2>1. call \notin {"end", "join", "stopped"}
    BY <1>1 DEF WaveInv, CallInv
  <2> QED BY <1>1, <2>1 DEF WaveInv, CallInv, dumperVars
<1>11. PICK s : s = Size[log[w + 1].trace]
  OBVIOUS
<1>12. PICK z : z = current_buffer_size
  OBVIOUS
<1>13. s \in Nat \ {0} /\ BufferSize \in Nat /\ z \in Nat
  BY <1>6, <1>11, <1>12, EventSize, BufferFacts
<1>14. /\ current_buffer \in Buffers /\ z + s <= BufferSize
       /\ ready_event_buffers \in Seq(Buffers)
       /\ ~Holds(ready_event_buffers, current_buffer) /\ unpacked # current_buffer
  <2>1. current_buffer # None /\ ~(s > BufferSize - z)
    BY <1>1, <1>6, <1>11, <1>12 DEF NeedsBuffer
  <2>2. z + s <= BufferSize
    BY <1>13, <2>1
  <2> QED BY <2>1, <2>2, BufferFacts
<1>15. PICK r : r = memory'
  OBVIOUS
<1>16. /\ current_buffer_size' = z + s
       /\ r = [memory EXCEPT ![current_buffer] =
                 [p \in 0..(BufferSize - 1) |->
                    IF p = z THEN log[w + 1]
                    ELSE IF p \in z..(z + s - 1) THEN Filler
                    ELSE memory[current_buffer][p]]]
  BY <1>6, <1>11, <1>12, <1>15 DEF WriteEvent
<1>17. memory \in [Buffers -> [0..(BufferSize - 1) -> Events \cup {Null, Filler}]]
  BY BufferFacts
<1>18. PICK f : f = [p \in 0..(BufferSize - 1) |->
                       IF p = z THEN log[w + 1]
                       ELSE IF p \in z..(z + s - 1) THEN Filler
                       ELSE memory[current_buffer][p]]
  OBVIOUS
<1>19. /\ f \in [0..(BufferSize - 1) -> Events \cup {Null, Filler}]
       /\ f[z] = log[w + 1] /\ \A q \in 0..(z - 1) : f[q] = memory[current_buffer][q]
  <2>1. memory[current_buffer] \in [0..(BufferSize - 1) -> Events \cup {Null, Filler}]
    BY <1>14, <1>17
  <2>2. z \in 0..(BufferSize - 1) /\ \A q \in 0..(z - 1) : q \in 0..(BufferSize - 1) /\ q # z /\ q \notin z..(z + s - 1)
    BY <1>13, <1>14
  <2>3. PICK e : e = log[w + 1] /\ e \in Events
    BY <1>6
  <2> QED BY <1>18, <2>1, <2>2, <2>3
<1>20. /\ r \in [Buffers -> [0..(BufferSize - 1) -> Events \cup {Null, Filler}]]
       /\ r[current_buffer] = f /\ \A b \in Buffers \ {current_buffer} : r[b] = memory[b]
  <2>1. r = [memory EXCEPT ![current_buffer] = f]
    BY <1>16, <1>18
  <2> QED BY <1>14, <1>17, <1>19, <2>1
<1>21. Chain(r, log, w + 1, ready_event_buffers, current_buffer, z + s, unpacked, position, n)
  <2>1. /\ \A q \in 0..(z - 1) : r[current_buffer][q] = memory[current_buffer][q]
        /\ r[current_buffer][z] = log[w + 1]
    BY <1>19, <1>20
  <2>2. z + Size[log[w + 1].trace] <= BufferSize
    BY <1>11, <1>14
  <2>3. Chain(memory, log, w, ready_event_buffers, current_buffer, z, unpacked, position, n)
    BY <1>7, <1>12
  <2>4. Chain(r, log, w + 1, ready_event_buffers, current_buffer, z + Size[log[w + 1].trace],
              unpacked, position, n)
    <3>1. log \in Seq(Events) /\ w \in 0..Len(log) /\ w # Len(log) /\ z \in Nat
      BY <1>3, <1>5, <1>13
    <3>2. /\ current_buffer \in Buffers /\ ready_event_buffers \in Seq(Buffers)
          /\ ~Holds(ready_event_buffers, current_buffer) /\ unpacked # current_buffer
          /\ \A b \in Buffers \ {current_buffer} : r[b] = memory[b]
      BY <1>14, <1>20
    <3> QED BY <2>1, <2>2, <2>3, <3>1, <3>2, ChainWrite, ZenonT(30)
  <2> QED BY <1>11, <2>4
<1>22. MemoryInv'
  <2>1. UNCHANGED <<log, ready_event_buffers, current_buffer, unpacked, position, last_timestamp, value, to_dump, output>>
    BY <1>1 DEF dumperVars
  <2>2. z + s \in Nat
    BY <1>13
  <2> QED BY <1>5, <1>7, <1>15, <1>16, <1>20, <1>21, <2>1, <2>2, BufferFacts DEF MemoryInv, Done
<1> QED BY <1>8, <1>9, <1>10, <1>22 DEF WaveInv

(* flush() passes the current buffer, even if it is not full.               *)
LEMMA FlushWave ==
  ASSUME WaveInv, Inv', FlushBuffer
  PROVE  WaveInv'
<1>1. /\ todo = <<>> /\ call \in {"flush", "stop"}
      /\ call' = IF call = "flush" THEN "none" ELSE "end"
      /\ UNCHANGED <<engineVars, todo, end, dumperVars, log>>
  BY DEF FlushBuffer
<1>2. PendingInv' /\ LogInv'
  BY <1>1, EngineSame DEF Stopping
<1>3. ~end /\ unpacked # Null
  BY <1>1 DEF WaveInv, CallInv
<1>4. CASE current_buffer_size = 0 \/ current_buffer = None
  <2>1. UNCHANGED bufferVars
    BY <1>4 DEF FlushBuffer
  <2>2. CallInv'
    BY <1>1, <1>3, <1>4, <2>1 DEF WaveInv, CallInv, bufferVars, dumperVars, Stopping
  <2>3. MemoryInv'
    BY <1>1, <2>1 DEF WaveInv, MemoryInv, bufferVars, dumperVars
  <2> QED BY <1>2, <2>2, <2>3 DEF WaveInv
<1>5. CASE current_buffer_size # 0 /\ current_buffer # None
  <2>1. /\ memory' = EndMark(current_buffer, current_buffer_size)
        /\ ready_event_buffers' = Append(ready_event_buffers, current_buffer)
        /\ current_buffer' = None /\ current_buffer_size' = current_buffer_size
    BY <1>5 DEF FlushBuffer
  <2>2. CallInv'
    BY <1>1, <1>3, <2>1 DEF WaveInv, CallInv, dumperVars, Stopping
  <2>3. PICK w : w = Len(log) - Len(todo)
    OBVIOUS
  <2>4. PICK n \in 0..Len(log) :
          /\ Chain(memory, log, w, ready_event_buffers, current_buffer,
                   current_buffer_size, unpacked, position, n)
          /\ Done(n)
    BY <2>3 DEF WaveInv, MemoryInv, Done
  <2>5. /\ log \in Seq(Events) /\ w \in 0..Len(log) /\ current_buffer_size \in Nat
        /\ current_buffer \in Buffers /\ ready_event_buffers \in Seq(Buffers)
        /\ ~Holds(ready_event_buffers, current_buffer) /\ unpacked # current_buffer
    BY <1>5, <2>3, BufferFacts
  <2>6. PICK r : r = memory'
    OBVIOUS
  <2>7. /\ r \in [Buffers -> [0..(BufferSize - 1) -> Events \cup {Null, Filler}]]
        /\ \A b \in Buffers \ {current_buffer} : r[b] = memory[b]
        /\ \A q \in 0..(current_buffer_size - 1) : r[current_buffer][q] = memory[current_buffer][q]
        /\ current_buffer_size < BufferSize => r[current_buffer][current_buffer_size] = Null
    BY <2>1, <2>5, <2>6, EndMarkIs
  <2>8. current_buffer_size < BufferSize - PtrSize => current_buffer_size < BufferSize
    BY <2>5, TraceEngineAssumption
  <2>9. Chain(r, log, w, Append(ready_event_buffers, current_buffer), None, current_buffer_size, unpacked, position, n)
    BY <2>4, <2>5, <2>7, <2>8, ChainPass
  <2>10. MemoryInv'
    <3>1. UNCHANGED <<log, todo, unpacked, position, last_timestamp, value, to_dump, output>>
      BY <1>1 DEF dumperVars
    <3> QED BY <2>1, <2>3, <2>4, <2>5, <2>6, <2>7, <2>9, <3>1, BufferFacts DEF MemoryInv, Done
  <2> QED BY <1>2, <2>2, <2>10 DEF WaveInv
<1> QED BY <1>4, <1>5

(* The dumper takes a buffer.                                               *)
LEMMA PopWave ==
  ASSUME WaveInv, Inv', PopBuffer
  PROVE  WaveInv'
<1>1. /\ unpacked = None /\ ready_event_buffers # <<>>
      /\ unpacked' = Head(ready_event_buffers) /\ position' = 0
      /\ ready_event_buffers' = Tail(ready_event_buffers)
      /\ UNCHANGED <<engineVars, event_buffers, current_buffer, current_buffer_size, memory,
                     callVars, last_timestamp, value, to_dump, output, sleeping, log>>
  BY DEF PopBuffer
<1>2. PendingInv' /\ LogInv'
  BY <1>1, EngineSame DEF callVars
<1>3. ready_event_buffers \in Seq(Buffers) /\ log \in Seq(Events)
  BY BufferFacts
<1>4. None # Null /\ unpacked' # Null
  <2>1. Head(ready_event_buffers) \in Buffers
    BY <1>1, <1>3
  <2> QED BY <1>1, <2>1, TraceEngineAssumption
<1>5. CallInv'
  BY <1>1, <1>4 DEF WaveInv, CallInv, callVars
<1>6. PICK n \in 0..Len(log) :
        /\ Chain(memory, log, Len(log) - Len(todo), ready_event_buffers, current_buffer,
                 current_buffer_size, None, position, n)
        /\ Dumping(log, n, last_timestamp, value, to_dump, output)
  BY <1>1, <1>4 DEF WaveInv, MemoryInv
<1>7. Chain(memory, log, Len(log) - Len(todo), Tail(ready_event_buffers), current_buffer,
            current_buffer_size, Head(ready_event_buffers), 0, n)
  BY <1>1, <1>3, <1>6, ChainPop
<1>8. MemoryInv'
  <2>1. UNCHANGED <<log, todo, current_buffer, current_buffer_size, memory, last_timestamp, value, to_dump, output>>
    BY <1>1 DEF callVars
  <2> QED BY <1>1, <1>4, <1>6, <1>7, <2>1, BufferFacts DEF MemoryInv
<1> QED BY <1>2, <1>5, <1>8 DEF WaveInv

(* It unpacks an event.                                                     *)
LEMMA UnpackWave ==
  ASSUME WaveInv, Inv', UnpackEvent
  PROVE  WaveInv'
<1>1. unpacked \in Buffers /\ position < BufferSize - PtrSize /\ memory[unpacked][position] # Null
  BY DEF UnpackEvent, AtEvent
<1>2. UNCHANGED <<engineVars, bufferVars, callVars, unpacked, sleeping, log>>
  BY DEF UnpackEvent
<1>3. PendingInv' /\ LogInv'
  BY <1>2, EngineSame DEF callVars
<1>4. CallInv'
  BY <1>2 DEF WaveInv, CallInv, callVars, bufferVars
<1>5. unpacked # Null
  BY <1>1, TraceEngineAssumption
<1>6. PICK n \in 0..Len(log) :
        /\ Chain(memory, log, Len(log) - Len(todo), ready_event_buffers, current_buffer,
                 current_buffer_size, unpacked, position, n)
        /\ Dumping(log, n, last_timestamp, value, to_dump, output)
  BY <1>5 DEF WaveInv, MemoryInv
<1>7. log \in Seq(Events) /\ Ordered(log) /\ value \in [Traces -> Int]
  BY BufferFacts
<1>8. /\ n + 1 \in 1..Len(log) /\ memory[unpacked][position] = log[n + 1]
      /\ Chain(memory, log, Len(log) - Len(todo), ready_event_buffers, current_buffer,
               current_buffer_size, unpacked, position + Size[log[n + 1].trace], n + 1)
  BY <1>1, <1>6, <1>7, ChainUnpack
<1>9. PICK new : new <=> last_timestamp # -1 /\ last_timestamp < log[n + 1].timestamp
  OBVIOUS
<1>10. PICK changed : changed = IF new THEN <<>> ELSE to_dump
  OBVIOUS
<1>11. PICK out : out = IF new THEN output \o [i \in 1..Len(to_dump) |-> Event(to_dump[i], last_timestamp, value[to_dump[i]])]
                        ELSE output
  OBVIOUS
<1>12. /\ output' = out
       /\ last_timestamp' = IF new \/ last_timestamp = -1 THEN log[n + 1].timestamp ELSE last_timestamp
       /\ value' = [value EXCEPT ![log[n + 1].trace] = log[n + 1].value]
       /\ to_dump' = IF Contains(changed, log[n + 1].trace) THEN changed ELSE <<log[n + 1].trace>> \o changed
       /\ position' = position + Size[log[n + 1].trace]
  BY <1>8, <1>9, <1>10, <1>11, Zenon DEF UnpackEvent, Flushed
<1>14. Dumping(log, n + 1, last_timestamp', value', to_dump', output')
  <2>1. PICK then, r, q : then = last_timestamp' /\ r = value' /\ q = to_dump'
    OBVIOUS
  <2>2. /\ then = IF new \/ last_timestamp = -1 THEN log[n + 1].timestamp ELSE last_timestamp
        /\ r = [value EXCEPT ![log[n + 1].trace] = log[n + 1].value]
        /\ q = IF Contains(changed, log[n + 1].trace) THEN changed ELSE <<log[n + 1].trace>> \o changed
    BY <1>12, <2>1, Zenon
  <2>3. Dumping(log, n + 1, then, r, q, out)
    BY <1>6, <1>7, <1>8, <1>9, <1>10, <1>11, <2>2, DumpingNext, ZenonT(60)
  <2> QED BY <1>12, <2>1, <2>3
<1>15. value' \in [Traces -> Int]
  <2>1. log[n + 1] \in Events
    BY <1>7, <1>8
  <2> QED BY <1>7, <1>12, <2>1, EventSize
<1>16. n + 1 \in 0..Len(log)
  BY <1>8
<1>17. MemoryInv'
  <2>1. UNCHANGED <<log, todo, ready_event_buffers, current_buffer, current_buffer_size, memory, unpacked>>
    BY <1>2 DEF callVars, bufferVars
  <2> QED BY <1>5, <1>8, <1>12, <1>14, <1>15, <1>16, <2>1, BufferFacts DEF MemoryInv
<1> QED BY <1>3, <1>4, <1>17 DEF WaveInv

(* It gives the buffer back.                                                *)
LEMMA ReleaseWave ==
  ASSUME WaveInv, Inv', ReleaseBuffer
  PROVE  WaveInv'
<1>1. /\ unpacked \in Buffers /\ ~(position < BufferSize - PtrSize /\ memory[unpacked][position] # Null)
      /\ unpacked' = None /\ position' = 0
      /\ UNCHANGED <<engineVars, ready_event_buffers, current_buffer, current_buffer_size, memory,
                     callVars, last_timestamp, value, to_dump, output, log>>
  BY DEF ReleaseBuffer, AtEvent
<1>2. PendingInv' /\ LogInv'
  BY <1>1, EngineSame DEF callVars
<1>3. unpacked # Null /\ None # Null
  BY <1>1, TraceEngineAssumption
<1>4. CallInv'
  BY <1>1, <1>3 DEF WaveInv, CallInv, callVars
<1>5. PICK n \in 0..Len(log) :
        /\ Chain(memory, log, Len(log) - Len(todo), ready_event_buffers, current_buffer,
                 current_buffer_size, unpacked, position, n)
        /\ Dumping(log, n, last_timestamp, value, to_dump, output)
  BY <1>3 DEF WaveInv, MemoryInv
<1>6. Chain(memory, log, Len(log) - Len(todo), ready_event_buffers, current_buffer,
            current_buffer_size, None, 0, n)
  BY <1>1, <1>5, BufferFacts, ChainUnpack
<1>7. MemoryInv'
  <2>1. UNCHANGED <<log, todo, ready_event_buffers, current_buffer, current_buffer_size, memory,
                    last_timestamp, value, to_dump, output>>
    BY <1>1 DEF callVars
  <2> QED BY <1>1, <1>3, <1>5, <1>6, <2>1, BufferFacts DEF MemoryInv
<1> QED BY <1>2, <1>4, <1>7 DEF WaveInv

(* It ends when nothing is left: the engine thread has passed it all.       *)
LEMMA EndsWave ==
  ASSUME WaveInv, Inv', DumperEnds
  PROVE  WaveInv'
<1>1. /\ unpacked = None /\ ready_event_buffers = <<>> /\ end
      /\ output' = Flushed(last_timestamp) /\ to_dump' = <<>> /\ unpacked' = Null
      /\ UNCHANGED <<engineVars, bufferVars, callVars, position, last_timestamp, value, sleeping, log>>
  BY DEF DumperEnds, Leaving
<1>2. PendingInv' /\ LogInv'
  BY <1>1, EngineSame DEF callVars
<1>3. call \in {"join", "stopped"} /\ todo = <<>> /\ (current_buffer = None \/ current_buffer_size = 0)
  BY <1>1 DEF WaveInv, CallInv
<1>4. None # Null
  BY TraceEngineAssumption
<1>5. CallInv'
  BY <1>1 DEF WaveInv, CallInv, callVars, bufferVars
<1>6. PICK n \in 0..Len(log) :
        /\ Chain(memory, log, Len(log) - Len(todo), <<>>, current_buffer,
                 current_buffer_size, None, position, n)
        /\ Dumping(log, n, last_timestamp, value, to_dump, output)
  BY <1>1, <1>4 DEF WaveInv, MemoryInv
<1>7. log \in Seq(Events) /\ Ordered(log)
  BY BufferFacts
<1>8. n = Len(log) - Len(todo)
  BY <1>3, <1>6, <1>7, ChainEnd
<1>9. n = Len(log)
  BY <1>3, <1>7, <1>8
<1>10. Finished(log, n, last_timestamp, output')
  BY <1>1, <1>6, <1>7, <1>9, DumpingEnds DEF Flushed
<1>11. PICK cut \in [0..Len(<<>>) -> 0..Len(log)] :
         Cuts(memory, log, Len(log) - Len(todo), <<>>, current_buffer,
              current_buffer_size, None, position, n, cut)
  BY <1>6 DEF Chain
<1>12. Cuts(memory, log, Len(log) - Len(todo), <<>>, current_buffer,
            current_buffer_size, Null, position, n, cut)
  BY <1>11, TraceEngineAssumption DEF Cuts
<1>13. Chain(memory, log, Len(log) - Len(todo), <<>>, current_buffer,
             current_buffer_size, Null, position, n)
  BY <1>11, <1>12 DEF Chain
<1>14. MemoryInv'
  <2>1. UNCHANGED <<log, todo, ready_event_buffers, current_buffer, current_buffer_size, memory, position,
                    last_timestamp, value>>
    BY <1>1 DEF callVars, bufferVars
  <2> QED BY <1>1, <1>6, <1>10, <1>13, <2>1, BufferFacts DEF MemoryInv
<1> QED BY <1>2, <1>5, <1>14 DEF WaveInv

(* A step that moves nothing in the buffers.                                *)
LEMMA OtherWave ==
  ASSUME WaveInv, Inv', EndDumper \/ Join \/ Tick \/ set_global_enable \/ DumperWaits \/ UNCHANGED vars
  PROVE  WaveInv'
<1>1. UNCHANGED <<bufferVars, todo, dumperVars, log, pending, pending_timestamp, background>>
  BY DEF EndDumper, Join, Tick, set_global_enable, DumperWaits, vars, engineVars, callVars
<1>2. MemoryInv'
  BY <1>1 DEF WaveInv, MemoryInv, bufferVars, dumperVars
<1>3. /\ time' = time \/ (call = "none" /\ time < MaxTime /\ time' = time + 1)
      /\ calls' = calls \/ (calls < MaxCalls /\ calls' = calls + 1)
      /\ global_enable' = global_enable \/ global_enable' = ~global_enable
  BY DEF EndDumper, Join, Tick, set_global_enable, DumperWaits, vars, engineVars, Idle
<1>4. call' = call \/ (call = "end" /\ call' = "join") \/ (call = "join" /\ call' = "stopped")
  BY DEF EndDumper, Join, Tick, set_global_enable, DumperWaits, vars, callVars
<1>5. time \in 0..MaxTime /\ time' \in 0..MaxTime /\ calls' \in 0..MaxCalls /\ global_enable' \in BOOLEAN /\ time <= time'
  <2>1. time \in 0..MaxTime /\ calls \in 0..MaxCalls /\ global_enable \in BOOLEAN
    BY DEF WaveInv, PendingInv
  <2>2. time' \in 0..MaxTime /\ calls' \in 0..MaxCalls /\ time <= time'
    BY <1>3, <2>1, TraceEngineAssumption
  <2>3. global_enable' \in BOOLEAN
    BY <1>3, <2>1
  <2> QED BY <2>1, <2>2, <2>3
<1>6. PendingInv'
  BY <1>1, <1>5 DEF WaveInv, PendingInv
<1>7. LogInv'
  <2>1. log \in Seq(Events) /\ time \in Int /\ time' \in Int
    BY <1>5 DEF WaveInv, LogInv
  <2>2. call' \notin Stopping => Before(log, time')
    <3>1. call' \notin Stopping => Before(log, time)
      BY <1>4 DEF WaveInv, LogInv, Stopping
    <3> QED BY <1>5, <2>1, <3>1, BeforeLater
  <2> QED BY <1>1, <2>2 DEF WaveInv, LogInv
<1>8. CallInv'
  <2>1. CASE EndDumper
    <3>1. call = "end" /\ call' = "join" /\ UNCHANGED <<bufferVars, todo, dumperVars>>
      BY <2>1 DEF EndDumper
    <3>2. ~end /\ unpacked # Null
      BY <3>1 DEF WaveInv, CallInv
    <3> QED BY <3>1, <3>2 DEF WaveInv, CallInv, bufferVars, dumperVars, Stopping
  <2>2. CASE Join
    BY <2>2 DEF Join, WaveInv, CallInv, bufferVars, dumperVars, Stopping
  <2>3. CASE Tick \/ set_global_enable \/ DumperWaits \/ UNCHANGED vars
    <3>1. UNCHANGED <<bufferVars, callVars, dumperVars>>
      BY <2>3 DEF Tick, set_global_enable, DumperWaits, vars
    <3> QED BY <3>1 DEF WaveInv, CallInv, bufferVars, callVars, dumperVars
  <2> QED BY <2>1, <2>2, <2>3
<1> QED BY <1>2, <1>6, <1>7, <1>8 DEF WaveInv

(* WaveInv is inductive.                                                    *)
LEMMA NextWaveInv == WaveInv /\ [Next]_vars => WaveInv'
<1> SUFFICES ASSUME WaveInv, [Next]_vars PROVE WaveInv'
  OBVIOUS
<1>1. Inv'
  BY NextInv DEF WaveInv
<1>2. CASE \E t \in Traces : dump_event(t) \/ \E d \in 0..MaxPulse : dump_event_pulse(t, d)
  BY <1>1, <1>2, DumpEventKeeps, DumpPulseKeeps
<1>3. CASE StartFlush("flush", time) \/ StartFlush("stop", -1)
  BY <1>1, <1>3, StartFlushKeeps
<1>4. CASE EngineStep
  BY <1>1, <1>4, GetWave, WriteWave, FlushWave, OtherWave DEF EngineStep
<1>5. CASE DumperStep
  BY <1>1, <1>5, OtherWave, EndsWave, PopWave, UnpackWave, ReleaseWave DEF DumperStep
<1>6. CASE Tick \/ set_global_enable \/ UNCHANGED vars
  BY <1>1, <1>6, OtherWave
<1> QED BY <1>2, <1>3, <1>4, <1>5, <1>6 DEF Next

(* A change is the last event of its trace and time.                        *)
LEMMA ChangesAre ==
  ASSUME log \in Seq(Events)
  PROVE  \A c : c \in Changes <=> \E k \in 1..Len(log) : c = log[k] /\ LastIn(log, k, Len(log))
<1>1. DOMAIN log = 1..Len(log)
  OBVIOUS
<1> QED BY <1>1 DEF Changes, LastIn

(* What the invariant says of the back-end.                                 *)
LEMMA WaveIsCorrect == WaveInv => WaveformCorrect
<1> SUFFICES ASSUME WaveInv PROVE WaveformCorrect
  OBVIOUS
<1>1. log \in Seq(Events) /\ Ordered(log)
  BY BufferFacts
<1>2. PICK n \in 0..Len(log) : Done(n)
  BY DEF WaveInv, MemoryInv, Done
<1>3. \A k \in 1..Len(log) : log[k].timestamp \in Nat
  <2>1. \A k \in 1..Len(log) : log[k] \in Events
    BY <1>1
  <2> QED BY <2>1, EventSize
<1>4. PICK b \in Int : /\ Shown(log, n, b, output) /\ \A k \in (n + 1)..Len(log) : b <= log[k].timestamp
                       /\ unpacked = Null => \A k \in 1..Len(log) : log[k].timestamp < b
  <2>1. CASE unpacked = Null
    <3>1. Finished(log, n, last_timestamp, output)
      BY <1>2, <2>1 DEF Done
    <3>2. n = Len(log) /\ last_timestamp \in Int /\ \A k \in (n + 1)..Len(log) : FALSE
      BY <3>1 DEF Finished
    <3>3. last_timestamp + 1 \in Int /\ \A k \in 1..Len(log) : log[k].timestamp < last_timestamp + 1
      BY <1>3, <3>1, <3>2 DEF Finished
    <3> QED BY <3>1, <3>2, <3>3 DEF Finished
  <2>2. CASE unpacked # Null
    <3>1. Dumping(log, n, last_timestamp, value, to_dump, output)
      BY <1>2, <2>2 DEF Done
    <3>2. last_timestamp \in Int /\ \A k \in (n + 1)..Len(log) : last_timestamp <= log[k].timestamp
      BY <1>1, <3>1, DumpingTimes
    <3> QED BY <2>2, <3>1, <3>2 DEF Dumping
  <2> QED BY <2>1, <2>2
<1>5. /\ \A i \in 1..Len(output) : \E k \in 1..Len(log) : output[i] = log[k] /\ LastIn(log, k, Len(log))
      /\ \A i, j \in 1..Len(output) : j < i => output[j].timestamp <= output[i].timestamp /\ output[j] # output[i]
      /\ \A k \in 1..Len(log) : LastIn(log, k, Len(log)) /\ log[k].timestamp < b =>
           \E i \in 1..Len(output) : output[i] = log[k]
      /\ \A i \in 1..Len(output) : output[i].timestamp < b /\ output[i].timestamp \in Nat
  BY <1>1, <1>2, <1>3, <1>4, ShownIsRight
<1>6. /\ output \in Seq(Events) /\ DOMAIN output = 1..Len(output) /\ Len(output) \in Nat
      /\ \A i \in 1..Len(output) : \A j \in 1..(i - 1) : j \in 1..Len(output) /\ j < i
  <2>1. output \in Seq(Events)
    BY <1>4 DEF Shown
  <2> QED BY <2>1
<1>7. \A c : c \in Changes <=> \E k \in 1..Len(log) : c = log[k] /\ LastIn(log, k, Len(log))
  BY <1>1, ChangesAre
<1>8. ASSUME NEW i \in DOMAIN output
      PROVE  /\ output[i] \in Changes
             /\ \A j \in 1..(i - 1) : output[j].timestamp <= output[i].timestamp /\ output[j] # output[i]
  BY <1>5, <1>6, <1>7
<1>9. ASSUME NEW c \in Changes, c.timestamp < b PROVE c \in ToSet(output)
  <2>1. PICK k \in 1..Len(log) : c = log[k] /\ LastIn(log, k, Len(log))
    BY <1>7
  <2>2. PICK i \in 1..Len(output) : output[i] = c
    BY <1>5, <1>9, <2>1
  <2> QED BY <1>6, <2>2 DEF ToSet
<1>10. ASSUME NEW c \in Changes, NEW i \in DOMAIN output, c.timestamp < output[i].timestamp
       PROVE  c \in ToSet(output)
  <2>1. PICK k \in 1..Len(log) : c = log[k]
    BY <1>7
  <2>2. c.timestamp \in Nat /\ output[i].timestamp < b /\ output[i].timestamp \in Nat
    BY <1>3, <1>5, <1>6, <2>1
  <2>3. c.timestamp < b
    BY <1>4, <1>10, <2>2
  <2> QED BY <1>9, <2>3
<1>11. ASSUME call = "stopped" PROVE ToSet(output) = Changes
  <2>1. unpacked = Null
    BY <1>11 DEF WaveInv, CallInv
  <2>2. ASSUME NEW c \in Changes PROVE c \in ToSet(output)
    <3>1. c.timestamp < b
      BY <1>4, <1>7, <2>1
    <3> QED BY <1>9, <3>1
  <2>3. ASSUME NEW c \in ToSet(output) PROVE c \in Changes
    <3>1. PICK i \in DOMAIN output : c = output[i]
      BY DEF ToSet
    <3> QED BY <1>8, <3>1
  <2> QED BY <2>2, <2>3
<1> QED BY <1>8, <1>10, <1>11 DEF WaveformCorrect

(* The waveform is right at all times, whatever the sizes of the events and  *)
(* of the buffers and however the two threads interleave: what the back-end  *)
(* got are changes of the log with their last values, in the order of the    *)
(* timestamps, each once and with no gap, and all of them when stop()        *)
(* returns (trace_engine::vcd_routine, flush, stop).                        *)
THEOREM WaveformIsCorrect == Spec => []WaveformCorrect
BY InitWaveInv, NextWaveInv, WaveIsCorrect, PTL DEF Spec
=============================================================================
