---------------------------- MODULE Cache_proofs ----------------------------
(***************************************************************************)
(* Proofs about the cache, for any set of requests, any lines, any mapping *)
(* of lines to sets and any number of ways: a line is in one way at most,  *)
(* a valid line holds the data of its tag, and the pending refill is the   *)
(* one of the request at the head of the queue.  The first two are claimed *)
(* until the memory answers a refill that it had denied.                   *)
(***************************************************************************)
EXTENDS Cache, FiniteSetTheorems, SequenceTheorems, TLAPS

Statuses == {"free", "pending", "forwarded", "lost"}
LineData == [tag : Tags, version : Nat]

TypeOK ==
  /\ tag \in [Lines -> Tags \cup {None}]
  /\ data \in [Lines -> LineData \cup {None}]
  /\ refill_pending_reqs \in Seq(Requests)
  /\ refill \in Refills \cup {None}
  /\ flush_line_addr \in Tags
  /\ status \in [Requests -> Statuses]
  /\ saved \in [Requests -> Tags \cup {None}]
  /\ version \in Nat
  /\ flushed \in [Tags -> Nat]
  /\ late \in {"none", "due", "served"}

(* No late answer of a denied refill has touched the lines.                 *)
Sound == late # "served"

(* The queue holds each waiting request once, with the line it waits for,   *)
(* and a request that is not waiting is not in it.                          *)
QueueOK ==
  /\ \A i, j \in 1..Len(refill_pending_reqs) :
       refill_pending_reqs[i] = refill_pending_reqs[j] => i = j
  /\ \A i \in 1..Len(refill_pending_reqs) :
       /\ status[refill_pending_reqs[i]] = "pending"
       /\ saved[refill_pending_reqs[i]] \in Tags

(* A tag is in one line, of the set it belongs to.                          *)
TagsPlaced ==
  /\ Sound => \A l, m \in Lines : tag[l] = tag[m] /\ tag[l] # None => l = m
  /\ \A l \in Lines : tag[l] # None => l[1] = Index[tag[l]]

(* The tag of the pending refill is in no line: nobody else brings it in,   *)
(* and once the memory has written the line, no flush is newer than it.     *)
RefillOK ==
  refill # None =>
    /\ Sound => \A l \in Lines : tag[l] # refill.tag
    /\ refill.line[1] = Index[refill.tag]
    /\ Sound /\ refill.filled => /\ data[refill.line] \in LineData
                                 /\ data[refill.line].tag = refill.tag
                                 /\ data[refill.line].version >= flushed[refill.tag]

(* A valid line holds the data of its tag, LinesHoldTheirTag with its type. *)
DataOK ==
  Sound => \A l \in Lines : tag[l] # None /\ ~(refill # None /\ l = refill.line) =>
    /\ data[l] \in LineData
    /\ data[l].tag = tag[l]
    /\ data[l].version >= flushed[tag[l]]

FlushedOK == \A t \in Tags : flushed[t] <= version

IInv ==
  TypeOK /\ QueueOK /\ TagsPlaced /\ RefillOK /\ DataOK /\ FlushedOK /\ HeadIsRequester

-----------------------------------------------------------------------------
(* Denied refills.                                                          *)

(* A step that leaves the memory alone, but for a refill that it denies.    *)
MemoryKept == version' = version /\ late' \in {"none", "due", "served"} /\ (Sound' <=> Sound)

(* Such are the steps that change nothing of it,                            *)
LEMMA MemorySame ==
  ASSUME IInv, UNCHANGED memoryVars
  PROVE  MemoryKept
BY DEF IInv, TypeOK, memoryVars, MemoryKept, Sound

(* and those in which it refuses a refill.                                  *)
LEMMA MemoryRefuses ==
  ASSUME IInv, Refused, version' = version
  PROVE  MemoryKept
BY DEF IInv, TypeOK, Refused, MemoryKept, Sound

-----------------------------------------------------------------------------
(* Queues.                                                                  *)

(* q is a queue that handle_req may leave or extend for request r.          *)
Rest(q, r) ==
  /\ q \in Seq(Requests)
  /\ \A i, j \in 1..Len(q) : q[i] = q[j] => i = j
  /\ \A i \in 1..Len(q) : q[i] # r /\ status[q[i]] = "pending" /\ saved[q[i]] \in Tags

(* The whole queue, for a request that is not waiting.                      *)
LEMMA RestOfNew ==
  ASSUME TypeOK, QueueOK, NEW r \in Requests, status[r] = "free"
  PROVE  Rest(refill_pending_reqs, r)
BY DEF TypeOK, QueueOK, Rest

(* The queue without its head, for the request at the head.                 *)
LEMMA RestOfHead ==
  ASSUME TypeOK, QueueOK, refill_pending_reqs # <<>>
  PROVE  /\ Head(refill_pending_reqs) \in Requests
         /\ saved[Head(refill_pending_reqs)] \in Tags
         /\ Rest(Tail(refill_pending_reqs), Head(refill_pending_reqs))
<1> DEFINE q == refill_pending_reqs
<1>1. q \in Seq(Requests) /\ Len(q) \in Nat /\ Len(q) >= 1
  BY DEF TypeOK
<1>2. /\ Head(q) = q[1] /\ Tail(q) \in Seq(Requests) /\ Len(Tail(q)) = Len(q) - 1
      /\ \A i \in 1..Len(Tail(q)) : i + 1 \in 1..Len(q) /\ Tail(q)[i] = q[i + 1]
  BY <1>1
<1>3. q[1] \in Requests
  BY <1>1
<1> QED BY <1>1, <1>2, <1>3 DEF QueueOK, Rest

(* The request leaves, or never entered, the queue, with status v.          *)
LEMMA LeavesQueue ==
  ASSUME TypeOK, NEW r \in Requests, NEW q, Rest(q, r), NEW v \in Statuses,
         refill_pending_reqs' = q,
         status' = [status EXCEPT ![r] = v], saved' = [saved EXCEPT ![r] = None]
  PROVE  /\ QueueOK' /\ refill_pending_reqs' \in Seq(Requests)
         /\ status' \in [Requests -> Statuses] /\ saved' \in [Requests -> Tags \cup {None}]
         /\ \A i \in 1..Len(q) : saved'[q[i]] = saved[q[i]]
<1>1. /\ q \in Seq(Requests)
      /\ \A i \in 1..Len(q) : q[i] \in Requests /\ q[i] # r
  BY DEF Rest
<1>2. status' \in [Requests -> Statuses] /\ saved' \in [Requests -> Tags \cup {None}]
  BY DEF TypeOK
<1>3. \A i \in 1..Len(q) : saved'[q[i]] = saved[q[i]] /\ status'[q[i]] = status[q[i]]
  BY <1>1 DEF TypeOK
<1> QED BY <1>1, <1>2, <1>3 DEF Rest, QueueOK

(* In particular when it is answered.                                       *)
LEMMA AnsweredQueue ==
  ASSUME TypeOK, NEW r \in Requests, NEW q, Rest(q, r), Answered(r, q)
  PROVE  /\ QueueOK' /\ refill_pending_reqs' \in Seq(Requests)
         /\ status' \in [Requests -> Statuses] /\ saved' \in [Requests -> Tags \cup {None}]
         /\ \A i \in 1..Len(q) : saved'[q[i]] = saved[q[i]]
BY LeavesQueue, "free" \in Statuses DEF Answered, Statuses

(* q2 is q with r inserted at position p.                                   *)
Inserted(q2, q, p, r) ==
  /\ q2 \in Seq(Requests) /\ Len(q2) = Len(q) + 1 /\ p \in 1..(Len(q) + 1)
  /\ \A i \in 1..Len(q2) :
       /\ i < p => i \in 1..Len(q) /\ q2[i] = q[i]
       /\ i = p => q2[i] = r
       /\ i > p => i - 1 \in 1..Len(q) /\ q2[i] = q[i - 1]

(* A request that missed is saved at the end of the queue,                  *)
LEMMA AppendInserts ==
  ASSUME NEW r \in Requests, NEW q \in Seq(Requests)
  PROVE  Inserted(Append(q, r), q, Len(q) + 1, r)
BY DEF Inserted

(* or, when the refill is its own, at the head.                             *)
LEMMA ConsInserts ==
  ASSUME NEW r \in Requests, NEW q \in Seq(Requests)
  PROVE  Inserted(<<r>> \o q, q, 1, r)
<1> DEFINE h == <<r>>
<1>1. h \in Seq(Requests) /\ Len(h) = 1 /\ h[1] = r /\ Len(q) \in Nat
  OBVIOUS
<1> HIDE DEF h
<1>2. h \o q \in Seq(Requests) /\ Len(h \o q) = Len(h) + Len(q)
  BY <1>1, ConcatProperties
<1>3. \A i \in 1..(Len(h) + Len(q)) : (h \o q)[i] = IF i <= Len(h) THEN h[i] ELSE q[i - Len(h)]
  BY <1>1, ConcatProperties
<1>4. Inserted(h \o q, q, 1, r)
  BY <1>1, <1>2, <1>3 DEF Inserted
<1> QED BY <1>4 DEF h

(* Either way the queue stays one.                                          *)
LEMMA PendingQueue ==
  ASSUME TypeOK, NEW r \in Requests, NEW t \in Tags, NEW q, Rest(q, r),
         NEW q2, NEW p, Inserted(q2, q, p, r), Pending(r, t, q2)
  PROVE  /\ QueueOK' /\ refill_pending_reqs' \in Seq(Requests)
         /\ status' \in [Requests -> Statuses] /\ saved' \in [Requests -> Tags \cup {None}]
         /\ saved'[r] = t
         /\ \A i \in 1..Len(q) : saved'[q[i]] = saved[q[i]]
<1>1. /\ q \in Seq(Requests) /\ Len(q) \in Nat /\ refill_pending_reqs' = q2
      /\ \A i \in 1..Len(q) : q[i] \in Requests /\ q[i] # r
  BY DEF Rest, Pending
<1>2. /\ status' \in [Requests -> Statuses] /\ saved' \in [Requests -> Tags \cup {None}]
      /\ saved'[r] = t /\ status'[r] = "pending"
  BY DEF TypeOK, Pending, Statuses
<1>3. \A i \in 1..Len(q) : saved'[q[i]] = saved[q[i]] /\ status'[q[i]] = status[q[i]]
  BY <1>1 DEF TypeOK, Pending
<1>4. ASSUME NEW i \in 1..Len(q2), NEW j \in 1..Len(q2), q2[i] = q2[j]
      PROVE  i = j
  <2>1. Len(q2) = Len(q) + 1 /\ p \in Int /\ i \in Int /\ j \in Int
    BY <1>1 DEF Inserted
  <2>2. \A k, l \in 1..Len(q) : q[k] = q[l] => k = l
    BY DEF Rest
  <2>3. /\ i < p => i \in 1..Len(q) /\ q2[i] = q[i]
        /\ i = p => q2[i] = r
        /\ i > p => i - 1 \in 1..Len(q) /\ q2[i] = q[i - 1]
    BY DEF Inserted
  <2>4. /\ j < p => j \in 1..Len(q) /\ q2[j] = q[j]
        /\ j = p => q2[j] = r
        /\ j > p => j - 1 \in 1..Len(q) /\ q2[j] = q[j - 1]
    BY DEF Inserted
  <2> QED BY <1>1, <1>4, <2>1, <2>2, <2>3, <2>4
<1>5. ASSUME NEW i \in 1..Len(q2)
      PROVE  status'[q2[i]] = "pending" /\ saved'[q2[i]] \in Tags
  <2>1. p \in Int /\ i \in Int
    BY <1>1 DEF Inserted
  <2>2. /\ i < p => i \in 1..Len(q) /\ q2[i] = q[i]
        /\ i = p => q2[i] = r
        /\ i > p => i - 1 \in 1..Len(q) /\ q2[i] = q[i - 1]
    BY DEF Inserted
  <2>3. \A k \in 1..Len(q) : status'[q[k]] = "pending" /\ saved'[q[k]] \in Tags
    BY <1>3 DEF Rest
  <2> QED BY <1>2, <2>1, <2>2, <2>3
<1> QED BY <1>1, <1>2, <1>3, <1>4, <1>5 DEF QueueOK, Inserted

-----------------------------------------------------------------------------
(* Lines.                                                                   *)

(* The line that a refill of t takes is one of the set of t.                *)
LEMMA RefillLine ==
  ASSUME NEW t \in Tags, NEW way \in Ways
  PROVE  <<Index[t], way>> \in Lines /\ <<Index[t], way>>[1] = Index[t]
BY DEF Lines

(* A lookup that fails in the set of t means that t is nowhere.             *)
LEMMA MissMeansAbsent ==
  ASSUME TagsPlaced, NEW t \in Tags, get_line(t) = {}
  PROVE  \A l \in Lines : tag[l] # t
BY CacheAssumption DEF TagsPlaced, get_line

(* A refill that the memory answers at once.                                *)
LEMMA FillLine ==
  ASSUME IInv, NEW t \in Tags, NEW way \in Ways, get_line(t) = {}, refill = None,
         data' = [data EXCEPT ![<<Index[t], way>>] = Contents(t)],
         tag' = [tag EXCEPT ![<<Index[t], way>>] = t],
         MemoryKept, UNCHANGED <<refill, flushed>>
  PROVE  /\ tag' \in [Lines -> Tags \cup {None}] /\ data' \in [Lines -> LineData \cup {None}]
         /\ TagsPlaced' /\ DataOK'
<1> DEFINE k == <<Index[t], way>>
<1>1. k \in Lines /\ k[1] = Index[t]
  BY RefillLine
<1>2. \A l \in Lines : tag[l] # t
  BY MissMeansAbsent DEF IInv
<1> HIDE DEF k
<1>3. /\ tag' \in [Lines -> Tags \cup {None}] /\ tag'[k] = t
      /\ \A l \in Lines : l # k => tag'[l] = tag[l]
  BY <1>1 DEF IInv, TypeOK, k
<1>4. Contents(t) \in LineData /\ Contents(t).tag = t /\ Contents(t).version = version
  BY DEF Contents, LineData, IInv, TypeOK
<1>5. /\ data' \in [Lines -> LineData \cup {None}] /\ data'[k] = Contents(t)
      /\ \A l \in Lines : l # k => data'[l] = data[l]
  BY <1>1, <1>4 DEF IInv, TypeOK, k
<1>6. TagsPlaced'
  BY <1>1, <1>2, <1>3 DEF IInv, TagsPlaced, MemoryKept
<1>7. DataOK'
  <2> SUFFICES ASSUME Sound, NEW l \in Lines, tag'[l] # None
               PROVE  /\ data'[l] \in LineData
                      /\ data'[l].tag = tag'[l]
                      /\ data'[l].version >= flushed'[tag'[l]]
    BY DEF DataOK, MemoryKept
  <2>1. CASE l = k
    <3>1. version >= flushed[t]
      BY DEF IInv, TypeOK, FlushedOK
    <3> QED BY <2>1, <3>1, <1>3, <1>4, <1>5 DEF MemoryKept
  <2>2. CASE l # k
    BY <2>2, <1>3, <1>5 DEF IInv, DataOK, MemoryKept
  <2> QED BY <2>1, <2>2
<1> QED BY <1>3, <1>5, <1>6, <1>7

-----------------------------------------------------------------------------
(* The steps.                                                               *)

(* The parts of the invariant that are about lines only.                    *)
LinesOK == TagsPlaced /\ RefillOK /\ DataOK /\ FlushedOK

(* A step that leaves the lines alone leaves those parts alone.             *)
LEMMA LinesKept ==
  ASSUME LinesOK, MemoryKept, UNCHANGED <<lineVars, refill, flushed>>
  PROVE  LinesOK'
BY DEF LinesOK, TagsPlaced, RefillOK, DataOK, FlushedOK, lineVars, LineData, Lines, Ways, MemoryKept

(* So does one that leaves the queue alone.                                 *)
LEMMA QueueKept ==
  ASSUME QueueOK, HeadIsRequester, UNCHANGED queueVars
  PROVE  QueueOK' /\ HeadIsRequester'
BY DEF QueueOK, HeadIsRequester, queueVars, pending_refill

(* handle_req, for a new request or for the one at the head of the queue.   *)
LEMMA HandleReq ==
  ASSUME IInv, NEW r \in Requests, NEW t \in Tags, NEW q, Rest(q, r),
         refill # None => q = refill_pending_reqs,
         handle_req(r, t, q), MemoryKept, UNCHANGED controlVars
  PROVE  IInv'
<1>1. q \in Seq(Requests)
  BY DEF Rest
<1>2. /\ flush_line_addr' = flush_line_addr /\ flushed' = flushed /\ version' = version
      /\ (Sound' <=> Sound) /\ late' \in {"none", "due", "served"}
  BY DEF controlVars, MemoryKept
<1>3. LinesOK
  BY DEF IInv, LinesOK
<1>4. CASE Hit(r, t, q)
  <2>1. Answered(r, q) /\ UNCHANGED <<lineVars, refill>>
    BY <1>4 DEF Hit
  <2>2. LinesOK'
    BY <1>2, <1>3, <2>1, LinesKept
  <2>3. HeadIsRequester'
    <3>1. refill # None => q # <<>> /\ saved[q[1]] = refill.tag
      BY <1>1 DEF IInv, HeadIsRequester, pending_refill
    <3>2. q # <<>> => Head(q) = q[1] /\ 1 \in 1..Len(q)
      BY <1>1
    <3>3. \A i \in 1..Len(q) : saved'[q[i]] = saved[q[i]]
      BY <2>1, AnsweredQueue DEF IInv
    <3> QED BY <2>1, <3>1, <3>2, <3>3 DEF HeadIsRequester, pending_refill, Answered
  <2> QED BY <1>2, <2>1, <2>2, <2>3, AnsweredQueue DEF IInv, LinesOK, TypeOK, lineVars
<1>5. CASE MissWaits(r, t, q)
  <2>1. Pending(r, t, Append(q, r)) /\ UNCHANGED <<lineVars, refill>>
    BY <1>5 DEF MissWaits
  <2>2. LinesOK'
    BY <1>2, <1>3, <2>1, LinesKept
  <2>3. /\ QueueOK' /\ refill_pending_reqs' \in Seq(Requests)
        /\ status' \in [Requests -> Statuses] /\ saved' \in [Requests -> Tags \cup {None}]
        /\ \A i \in 1..Len(q) : saved'[q[i]] = saved[q[i]]
    BY <1>1, <2>1, AppendInserts, PendingQueue DEF IInv
  <2>4. HeadIsRequester'
    <3>1. refill # None => q # <<>> /\ saved[q[1]] = refill.tag
      BY <1>1 DEF IInv, HeadIsRequester, pending_refill
    <3>2. q # <<>> => Append(q, r) # <<>> /\ Head(Append(q, r)) = q[1] /\ 1 \in 1..Len(q)
      BY <1>1
    <3> QED BY <2>1, <2>3, <3>1, <3>2 DEF HeadIsRequester, pending_refill, Pending
  <2> QED BY <1>2, <2>1, <2>2, <2>3, <2>4 DEF IInv, LinesOK, TypeOK, lineVars
<1>6. CASE RefillOk(r, t, q)
  <2>1. Answered(r, q) /\ refill = None /\ refill' = None /\ get_line(t) = {}
    BY <1>6 DEF RefillOk, Misses, RefillBusy, pending_refill
  <2>2. PICK way \in Ways :
          /\ data' = [data EXCEPT ![<<Index[t], way>>] = Contents(t)]
          /\ tag' = [tag EXCEPT ![<<Index[t], way>>] = t]
    BY <1>6 DEF RefillOk
  <2>3. /\ tag' \in [Lines -> Tags \cup {None}] /\ data' \in [Lines -> LineData \cup {None}]
        /\ TagsPlaced' /\ DataOK'
    BY <1>2, <2>1, <2>2, FillLine
  <2>4. RefillOK' /\ HeadIsRequester' /\ FlushedOK'
    BY <1>2, <2>1 DEF RefillOK, HeadIsRequester, pending_refill, FlushedOK, IInv
  <2> QED BY <1>2, <2>1, <2>3, <2>4, AnsweredQueue DEF IInv, TypeOK
<1>7. CASE RefillPending(r, t, q)
  <2>1. /\ Pending(r, t, <<r>> \o q) /\ refill = None /\ get_line(t) = {}
        /\ UNCHANGED lineVars
    BY <1>7 DEF RefillPending, Misses, RefillBusy, pending_refill
  <2>2. PICK way \in Ways : refill' = [line |-> <<Index[t], way>>, tag |-> t, filled |-> FALSE]
    BY <1>7 DEF RefillPending
  <2>3. /\ refill' \in Refills /\ refill'.tag = t /\ refill'.filled = FALSE
        /\ refill'.line[1] = Index[t]
    BY <2>2, RefillLine DEF Refills
  <2>4. /\ QueueOK' /\ refill_pending_reqs' \in Seq(Requests)
        /\ status' \in [Requests -> Statuses] /\ saved' \in [Requests -> Tags \cup {None}]
        /\ saved'[r] = t
    BY <1>1, <2>1, ConsInserts, PendingQueue DEF IInv
  <2>5. HeadIsRequester'
    <3>1. <<r>> \o q # <<>> /\ Head(<<r>> \o q) = r
      <4>1. /\ <<r>> \o q \in Seq(Requests) /\ Len(<<r>> \o q) = Len(q) + 1 /\ (<<r>> \o q)[1] = r
        BY <1>1, ConsInserts DEF Inserted
      <4> HIDE <2>1
      <4> QED BY <1>1, <4>1
    <3> QED BY <2>1, <2>3, <2>4, <3>1 DEF HeadIsRequester, pending_refill, Pending
  <2>6. RefillOK'
    <3>1. \A l \in Lines : tag[l] # t
      BY <2>1, MissMeansAbsent DEF IInv
    <3> QED BY <2>1, <2>3, <3>1 DEF RefillOK, lineVars
  <2>7. TagsPlaced' /\ DataOK' /\ FlushedOK'
    BY <1>2, <2>1 DEF IInv, TagsPlaced, DataOK, FlushedOK, lineVars
  <2> QED BY <1>2, <2>1, <2>3, <2>4, <2>5, <2>6, <2>7 DEF IInv, TypeOK, lineVars
<1> QED BY <1>4, <1>5, <1>6, <1>7 DEF handle_req

(* A flush of the tags ts, which leaves them in no line.                    *)
LEMMA FlushKeeps ==
  ASSUME IInv, NEW ts \in SUBSET Tags, Flushed(ts),
         tag' \in [Lines -> Tags \cup {None}],
         \A l \in Lines : tag'[l] = None \/ (tag'[l] = tag[l] /\ tag[l] \notin ts),
         MemoryKept, UNCHANGED <<data, queueVars, flush_line_addr>>
  PROVE  IInv'
<1>1. flushed' \in [Tags -> Nat]
  BY DEF Flushed, IInv, TypeOK
<1>2. FlushedOK'
  BY DEF Flushed, IInv, TypeOK, FlushedOK, MemoryKept
<1>3. \A t \in Tags : t \notin ts \/ (refill # None /\ refill.tag = t) => flushed'[t] = flushed[t]
  BY DEF Flushed, pending_refill
<1>4. TagsPlaced'
  BY DEF IInv, TagsPlaced, MemoryKept
<1>5. DataOK'
  BY <1>3 DEF IInv, TypeOK, DataOK, queueVars, MemoryKept
<1>6. RefillOK'
  BY <1>3, CacheAssumption DEF IInv, TypeOK, RefillOK, queueVars, Refills, MemoryKept
<1> QED BY <1>1, <1>2, <1>4, <1>5, <1>6, QueueKept DEF IInv, TypeOK, queueVars, MemoryKept

(* The memory writes the line of the pending refill, whose old tag may      *)
(* still be valid.                                                          *)
LEMMA MemoryWritesKeeps ==
  ASSUME IInv, MemoryWrites
  PROVE  IInv'
<1> DEFINE t == refill.tag
           k == refill.line
<1>1. /\ refill \in Refills /\ t \in Tags /\ k \in Lines
      /\ flushed' = flushed /\ version' = version /\ MemoryKept
  BY MemorySame DEF MemoryWrites, IInv, TypeOK, pending_refill, Refills, controlVars, memoryVars
<1>2. /\ refill' \in Refills /\ refill' # None /\ refill'.tag = t /\ refill'.line = k
  BY <1>1, CacheAssumption DEF MemoryWrites, Refills
<1>3. Contents(t) \in LineData /\ Contents(t).tag = t /\ Contents(t).version = version
  BY <1>1 DEF Contents, LineData, IInv, TypeOK
<1>4. /\ data' \in [Lines -> LineData \cup {None}] /\ data'[k] = Contents(t)
      /\ \A l \in Lines : l # k => data'[l] = data[l]
  BY <1>1, <1>3 DEF IInv, TypeOK, MemoryWrites
<1> HIDE DEF t, k
<1>5. version >= flushed[t]
  BY <1>1 DEF IInv, TypeOK, FlushedOK
<1>6. tag' = tag /\ refill # None
  BY DEF MemoryWrites, pending_refill
<1>7. RefillOK'
  BY <1>1, <1>2, <1>3, <1>4, <1>5, <1>6 DEF IInv, RefillOK, t, k, MemoryKept
<1>8. DataOK'
  BY <1>1, <1>2, <1>4, <1>6 DEF IInv, DataOK, k, MemoryKept
<1>9. TagsPlaced' /\ QueueOK' /\ FlushedOK'
  BY <1>1, <1>6 DEF IInv, TagsPlaced, QueueOK, FlushedOK, MemoryWrites, MemoryKept
<1>10. HeadIsRequester'
  BY <1>2, <1>6 DEF IInv, HeadIsRequester, pending_refill, MemoryWrites, t
<1> QED BY <1>1, <1>2, <1>4, <1>7, <1>8, <1>9, <1>10
        DEF IInv, TypeOK, MemoryWrites, controlVars, MemoryKept

(* The response of the memory makes the line valid and answers the head.    *)
LEMMA RefillResponseKeeps ==
  ASSUME IInv, refill_response
  PROVE  IInv'
<1> DEFINE t == refill.tag
           k == refill.line
           r == Head(refill_pending_reqs)
           q == Tail(refill_pending_reqs)
<1>1. /\ refill \in Refills /\ t \in Tags /\ k \in Lines /\ refill' = None
      /\ flushed' = flushed /\ version' = version /\ MemoryKept /\ data' = data
  BY MemorySame DEF refill_response, IInv, TypeOK, pending_refill, Refills, controlVars, memoryVars
<1>2. r \in Requests /\ Rest(q, r) /\ Answered(r, q)
  BY RestOfHead DEF refill_response, IInv, HeadIsRequester
<1>3. /\ tag' \in [Lines -> Tags \cup {None}] /\ tag'[k] = t
      /\ \A l \in Lines : l # k => tag'[l] = tag[l]
  BY <1>1 DEF refill_response, IInv, TypeOK
<1>4. /\ Sound => \A l \in Lines : tag[l] # t
      /\ k[1] = Index[t]
      /\ Sound => data[k] \in LineData /\ data[k].tag = t /\ data[k].version >= flushed[t]
  BY DEF refill_response, IInv, RefillOK, pending_refill
<1>5. Sound => \A l \in Lines : l # k /\ tag[l] # None =>
        data[l] \in LineData /\ data[l].tag = tag[l] /\ data[l].version >= flushed[tag[l]]
  BY DEF IInv, DataOK
<1> HIDE DEF t, k, r, q
<1>6. TagsPlaced'
  BY <1>1, <1>3, <1>4 DEF IInv, TagsPlaced, MemoryKept
<1>7. DataOK'
  BY <1>1, <1>3, <1>4, <1>5 DEF DataOK, MemoryKept
<1>8. RefillOK' /\ HeadIsRequester' /\ FlushedOK'
  BY <1>1 DEF RefillOK, HeadIsRequester, pending_refill, FlushedOK, IInv
<1> QED BY <1>1, <1>2, <1>3, <1>6, <1>7, <1>8, AnsweredQueue
        DEF IInv, TypeOK, refill_response, controlVars, MemoryKept

(* The late answer of a denied refill answers the head, whatever it is for, *)
(* and spoils the lines.                                                    *)
LEMMA LateResponseKeeps ==
  ASSUME IInv, LateResponse
  PROVE  IInv'
<1> DEFINE r == Head(refill_pending_reqs)
           q == Tail(refill_pending_reqs)
<1>1. /\ refill = None /\ refill' = None /\ late' = "served" /\ ~Sound'
      /\ flushed' = flushed /\ version' = version /\ flush_line_addr' = flush_line_addr
  BY DEF LateResponse, pending_refill, Sound, controlVars
<1>2. r \in Requests /\ Rest(q, r) /\ Answered(r, q)
  BY RestOfHead DEF LateResponse, IInv
<1> HIDE DEF r, q
<1>3. PICK t \in Tags, way \in Ways : data' = [data EXCEPT ![<<Index[t], way>>] = Contents(t)]
  BY DEF LateResponse
<1>4. Contents(t) \in LineData
  BY DEF Contents, LineData, IInv, TypeOK
<1>5. data' \in [Lines -> LineData \cup {None}]
  BY <1>3, <1>4 DEF IInv, TypeOK
<1>6. PICK u \in Tags, w \in Ways : tag' = [tag EXCEPT ![<<Index[u], w>>] = u]
  BY DEF LateResponse
<1>7. tag' \in [Lines -> Tags \cup {None}]
  BY <1>6 DEF IInv, TypeOK
<1>8. TagsPlaced'
  <2> DEFINE k == <<Index[u], w>>
  <2>1. k \in Lines /\ k[1] = Index[u]
    BY RefillLine
  <2> HIDE DEF k
  <2>2. \A l \in Lines : tag'[l] = IF l = k THEN u ELSE tag[l]
    BY <1>6, <2>1 DEF IInv, TypeOK, k
  <2> QED BY <1>1, <2>1, <2>2 DEF IInv, TagsPlaced
<1>9. RefillOK' /\ DataOK' /\ FlushedOK' /\ HeadIsRequester'
  BY <1>1 DEF RefillOK, DataOK, HeadIsRequester, pending_refill, FlushedOK, IInv
<1> QED BY <1>1, <1>2, <1>5, <1>7, <1>8, <1>9, AnsweredQueue DEF IInv, TypeOK

(* An event of fsm_handler resumes the head of the queue.                   *)
LEMMA FsmResumesKeeps ==
  ASSUME IInv, FsmResumes
  PROVE  IInv'
<1> DEFINE r == Head(refill_pending_reqs)
<1>1. /\ r \in Requests /\ saved[r] \in Tags /\ Rest(Tail(refill_pending_reqs), r)
  BY RestOfHead DEF IInv, FsmResumes
<1>2. refill = None /\ handle_req(r, saved[r], Tail(refill_pending_reqs))
  BY DEF FsmResumes, pending_refill
<1>3. UNCHANGED controlVars /\ MemoryKept
  BY MemorySame DEF FsmResumes
<1> QED BY <1>1, <1>2, <1>3, HandleReq

(* It drops the head when the memory refuses the refill.                    *)
LEMMA FsmLosesKeeps ==
  ASSUME IInv, FsmLoses
  PROVE  IInv'
<1> DEFINE r == Head(refill_pending_reqs)
           q == Tail(refill_pending_reqs)
<1>1. r \in Requests /\ Rest(q, r) /\ TypeOK
  BY RestOfHead DEF IInv, FsmLoses
<1>2. /\ refill_pending_reqs' = q /\ saved' = [saved EXCEPT ![r] = None]
      /\ status' = [status EXCEPT ![r] = "lost"] /\ "lost" \in Statuses
      /\ refill = None /\ refill' = None /\ UNCHANGED <<lineVars, refill, controlVars>>
      /\ MemoryKept
  BY MemoryRefuses DEF FsmLoses, pending_refill, Statuses
<1> HIDE DEF r, q
<1>3. /\ QueueOK' /\ refill_pending_reqs' \in Seq(Requests)
      /\ status' \in [Requests -> Statuses] /\ saved' \in [Requests -> Tags \cup {None}]
  BY <1>1, <1>2, LeavesQueue
<1>4. LinesOK'
  BY <1>2, LinesKept DEF IInv, LinesOK, controlVars
<1>5. HeadIsRequester'
  BY <1>2 DEF HeadIsRequester, pending_refill
<1> QED BY <1>2, <1>3, <1>4, <1>5 DEF IInv, LinesOK, TypeOK, lineVars, controlVars, MemoryKept

(* A request that goes to the memory, or comes back from it, is not one of  *)
(* the queue.                                                               *)
LEMMA ForwardKeeps ==
  ASSUME IInv, NEW r \in Requests, status[r] \in {"free", "forwarded"},
         NEW v \in Statuses, status' \in {status, [status EXCEPT ![r] = v]},
         MemoryKept, UNCHANGED <<lineVars, refill_pending_reqs, refill, saved, controlVars>>
  PROVE  IInv'
<1>1. status' \in [Requests -> Statuses]
  BY DEF IInv, TypeOK
<1>2. QueueOK'
  BY DEF IInv, TypeOK, QueueOK
<1>3. LinesOK'
  BY LinesKept DEF IInv, LinesOK, controlVars
<1>4. HeadIsRequester'
  BY DEF IInv, HeadIsRequester, pending_refill
<1> QED BY <1>1, <1>2, <1>3, <1>4 DEF IInv, LinesOK, TypeOK, lineVars, controlVars, MemoryKept

(* A step that changes nothing of the lines and of the queue.               *)
LEMMA OtherKeeps ==
  ASSUME IInv, MemoryKept, UNCHANGED <<lineVars, queueVars, flushed>>, flush_line_addr' \in Tags
  PROVE  IInv'
<1>1. LinesOK'
  BY LinesKept DEF IInv, LinesOK, queueVars
<1>2. QueueOK' /\ HeadIsRequester'
  BY QueueKept DEF IInv
<1> QED BY <1>1, <1>2 DEF IInv, LinesOK, TypeOK, lineVars, queueVars, MemoryKept

(* The invariant holds initially: the cache is empty.                       *)
LEMMA InitInv == Init => IInv
<1> SUFFICES ASSUME Init PROVE IInv
  OBVIOUS
<1>1. TypeOK
  BY DEF Init, TypeOK, Statuses
<1> QED BY <1>1 DEF IInv, Init, QueueOK, TagsPlaced, RefillOK, DataOK, FlushedOK, HeadIsRequester,
                    pending_refill

(* Every step keeps it.                                                     *)
LEMMA NextInv == IInv /\ [Next]_vars => IInv'
<1> SUFFICES ASSUME IInv, [Next]_vars PROVE IInv'
  OBVIOUS
<1>1. ASSUME NEW r \in Requests, NEW t \in Tags, req(r, t) PROVE IInv'
  <2>1. UNCHANGED controlVars /\ version' = version
    BY <1>1 DEF req
  <2>2. CASE handle_req(r, t, refill_pending_reqs) /\ UNCHANGED late
    <3>1. MemoryKept
      BY <2>1, <2>2, MemorySame DEF memoryVars
    <3>2. Rest(refill_pending_reqs, r)
      BY <1>1, RestOfNew DEF req, IInv
    <3> QED BY <2>1, <2>2, <3>1, <3>2, HandleReq
  <2>3. CASE Refused /\ UNCHANGED <<lineVars, queueVars>>
    BY <2>1, <2>3, OtherKeeps, MemoryRefuses DEF controlVars, IInv, TypeOK
  <2> QED BY <1>1, <2>2, <2>3 DEF req
<1>2. ASSUME NEW r \in Requests, req_forward(r) PROVE IInv'
  BY <1>2, ForwardKeeps, MemorySame, "forwarded" \in Statuses DEF req_forward, Statuses
<1>3. CASE enable
  BY <1>3, OtherKeeps, MemorySame DEF enable, IInv, TypeOK
<1>4. CASE flush
  <2>1. tag' \in [Lines -> Tags \cup {None}] /\ \A l \in Lines : tag'[l] = None
    BY <1>4 DEF flush
  <2>2. Flushed(Tags) /\ UNCHANGED <<data, queueVars, flush_line_addr>> /\ MemoryKept
    BY <1>4, MemorySame DEF flush
  <2> QED BY <2>1, <2>2, FlushKeeps
<1>5. CASE flush_line
  <2> DEFINE a == flush_line_addr
  <2>1. a \in Tags
    BY DEF IInv, TypeOK
  <2>2. tag' = [l \in Lines |-> IF l \in get_line(a) THEN None ELSE tag[l]]
    BY <1>5 DEF flush_line
  <2>3. \A l \in Lines : tag[l] = a => l \in get_line(a)
    BY <2>1, CacheAssumption DEF get_line, IInv, TagsPlaced
  <2>4. /\ tag' \in [Lines -> Tags \cup {None}]
        /\ \A l \in Lines : tag'[l] = None \/ (tag'[l] = tag[l] /\ tag[l] \notin {a})
    <3> HIDE DEF a
    <3> QED BY <2>2, <2>3 DEF IInv, TypeOK
  <2>5. /\ Flushed({a}) /\ UNCHANGED <<data, queueVars, flush_line_addr>> /\ {a} \in SUBSET Tags
        /\ MemoryKept
    BY <1>5, <2>1, MemorySame DEF flush_line
  <2> HIDE DEF a
  <2> QED BY <2>4, <2>5, FlushKeeps
<1>6. ASSUME NEW t \in Tags, flush_line_addr_sync(t) PROVE IInv'
  BY <1>6, OtherKeeps, MemorySame DEF flush_line_addr_sync
<1>7. CASE MemoryChanges
  <2>1. /\ version' \in Nat /\ FlushedOK'
    BY <1>7 DEF MemoryChanges, IInv, TypeOK, FlushedOK, controlVars
  <2>2. TagsPlaced' /\ RefillOK' /\ DataOK'
    BY <1>7 DEF MemoryChanges, IInv, TagsPlaced, RefillOK, DataOK, lineVars, queueVars, controlVars,
                Sound
  <2> QED BY <1>7, <2>1, <2>2, QueueKept
          DEF MemoryChanges, IInv, TypeOK, lineVars, queueVars, controlVars
<1>8. CASE ReplyReturns \/ FsmIdle
  BY <1>8, OtherKeeps, MemorySame DEF ReplyReturns, FsmIdle, controlVars, IInv, TypeOK
<1>9. ASSUME NEW r \in Requests, ForwardedResponse(r) PROVE IInv'
  BY <1>9, ForwardKeeps, MemorySame, "free" \in Statuses DEF ForwardedResponse, Statuses
<1>10. CASE UNCHANGED vars
  BY <1>10, OtherKeeps, MemorySame DEF vars, controlVars, IInv, TypeOK
<1> QED BY <1>1, <1>2, <1>3, <1>4, <1>5, <1>6, <1>7, <1>8, <1>9, <1>10, MemoryWritesKeeps,
           RefillResponseKeeps, LateResponseKeeps, FsmResumesKeeps, FsmLosesKeeps
        DEF Next, MasterNext, MemoryStep, fsm_handler

(* The cache keeps its queue, its lines and its pending refill consistent,  *)
(* whatever the order of requests, flushes, responses and callbacks.        *)
THEOREM CacheInvariant == Spec => []IInv
BY InitInv, NextInv, PTL DEF Spec

(* refill_response answers the request that the refill was for.             *)
THEOREM HeadIsRequesterCorrect == Spec => []HeadIsRequester
BY CacheInvariant, PTL DEF IInv

(* As long as the memory denies no refill, a valid line holds the data of   *)
(* its tag, as recent as the last flush of it; but for the line that the    *)
(* pending refill writes to, whose old tag is still valid                   *)
(* (cache_impl.cpp:344), and for a tag that was flushed during its refill,  *)
(* which the response makes valid again (cache_impl.cpp:158).               *)
THEOREM LinesHoldTheirTagCorrect == Spec => []LinesHoldTheirTag
<1>1. IInv => LinesHoldTheirTag
  BY DEF IInv, DataOK, LinesHoldTheirTag, pending_refill, Sound
<1> QED BY <1>1, CacheInvariant, PTL

(* No line is in two ways, so a flush of the line leaves no copy of it,     *)
(* until the memory answers a refill that it had denied.                    *)
THEOREM TagsUniqueCorrect == Spec => []TagsUnique
<1>1. ASSUME IInv, Sound, NEW t \in Tags PROVE Cardinality(get_line(t)) <= 1
  <2>1. CASE get_line(t) = {}
    BY <2>1, FS_EmptySet
  <2>2. CASE get_line(t) # {}
    <3>1. PICK l \in get_line(t) : TRUE
      BY <2>2
    <3>2. get_line(t) = {l}
      BY <1>1, CacheAssumption DEF get_line, IInv, TagsPlaced
    <3> QED BY <3>2, FS_Singleton
  <2> QED BY <2>1, <2>2
<1>2. IInv => TagsUnique
  BY <1>1 DEF TagsUnique, Sound
<1> QED BY <1>2, CacheInvariant, PTL
=============================================================================
