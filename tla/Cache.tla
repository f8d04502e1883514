------------------------------- MODULE Cache --------------------------------
(***************************************************************************)
(* The set-associative cache (models/cache/cache_impl.cpp) between masters *)
(* that send it requests and a memory that answers its refills at once or  *)
(* later.  There is one refill at a time: requests that miss meanwhile     *)
(* wait in a queue, whose head is the request that the refill is for.      *)
(*                                                                         *)
(* An address is the line it falls in, which is also the tag; the contents *)
(* of a line are the name of the memory line they were read from and the   *)
(* version of the memory at that time.                                     *)
(* Requests are reads and have data, as all those of the repository: the   *)
(* cache never writes a line back.  Latencies are left out, and the way    *)
(* that stepLru() picks is any way.                                        *)
(***************************************************************************)
EXTENDS Naturals, Sequences, SequencesExt

CONSTANTS Requests,   \* the io_req objects of the masters
          Tags,       \* the lines of the memory
          Index,      \* the set each of them belongs to
          nb_ways,
          None,       \* no tag (-1)
          MaxRequests, MaxControls, MaxVersions   \* bounds on the number of calls and changes

Ways == 0..(nb_ways - 1)
Lines == {Index[t] : t \in Tags} \X Ways

Refills == [line : Lines, tag : Tags, filled : BOOLEAN]

ASSUME CacheAssumption == nb_ways \in Nat \ {0} /\ None \notin Tags /\ None \notin Refills

VARIABLES
  enabled,
  tag, data,             \* of each line
  refill_pending_reqs,
  refill,                \* refill_line and refill_tag while pending_refill, and whether the
                         \* memory has written the line; else None
  fsm_event,             \* the event of fsm_handler is enqueued
  flush_line_addr,
  status,                \* of each request: where it is
  saved,                 \* of each request: the line saved while it is in the queue
  replying,              \* a master is in its response callback
  version,               \* of the memory
  late,                  \* the answer of a refill that the memory denied: "none", "due" or "served"
  flushed,               \* of each tag: the version of the memory at the last flush of it
  requests, controls     \* the number of calls of each kind so far

lineVars == <<tag, data>>
queueVars == <<refill_pending_reqs, refill, status, saved>>
memoryVars == <<version, late>>
controlVars == <<enabled, flush_line_addr, flushed>>
counts == <<requests, controls>>
vars == <<lineVars, queueVars, controlVars, memoryVars, fsm_event, replying, counts>>

Init ==
  /\ enabled = FALSE /\ flush_line_addr \in Tags
  /\ tag = [l \in Lines |-> None] /\ data = [l \in Lines |-> None]
  /\ version = 0 /\ late = "none" /\ flushed = [t \in Tags |-> 0]
  /\ refill_pending_reqs = <<>> /\ refill = None
  /\ fsm_event = FALSE
  /\ status = [r \in Requests |-> "free"] /\ saved = [r \in Requests |-> None]
  /\ replying = FALSE /\ requests = 0 /\ controls = 0

pending_refill == refill # None

\* What the memory writes to a line for tag t.
Contents(t) == [tag |-> t, version |-> version]

-----------------------------------------------------------------------------
(* handle_req, get_line and refill for request r on line t.  q is the      *)
(* queue without r.                                                        *)

get_line(t) == {l \in Lines : l[1] = Index[t] /\ tag[l] = t}

\* Mutant: requests for the same line do not wait for each other.
RefillBusy_OtherLine(t) == pending_refill /\ refill.tag # t

\* Another refill is pending: the request has to wait for its end.
RefillBusy(t) == pending_refill

\* The request is answered, or its master is told at once.
Answered(r, q) ==
  /\ refill_pending_reqs' = q
  /\ status' = [status EXCEPT ![r] = "free"] /\ saved' = [saved EXCEPT ![r] = None]

\* The request is saved in the queue.
Pending(r, t, q) ==
  /\ refill_pending_reqs' = q
  /\ status' = [status EXCEPT ![r] = "pending"] /\ saved' = [saved EXCEPT ![r] = t]

Hit(r, t, q) ==
  /\ get_line(t) # {}
  /\ Answered(r, q)
  /\ UNCHANGED <<lineVars, refill>>

MissWaits(r, t, q) ==
  /\ get_line(t) = {} /\ RefillBusy(t)
  /\ Pending(r, t, Append(q, r))
  /\ UNCHANGED <<lineVars, refill>>

Misses(t) == get_line(t) = {} /\ ~RefillBusy(t)

\* The memory answers the refill at once.
RefillOk(r, t, q) ==
  /\ Misses(t)
  /\ \E way \in Ways :
       /\ data' = [data EXCEPT ![<<Index[t], way>>] = Contents(t)]
       /\ tag' = [tag EXCEPT ![<<Index[t], way>>] = t]
  /\ Answered(r, q)
  /\ UNCHANGED refill

\* Mutant: the request of the refill is put at the end of the queue.
RefillPending_Back(r, t, q) ==
  /\ Misses(t)
  /\ \E way \in Ways : refill' = [line |-> <<Index[t], way>>, tag |-> t, filled |-> FALSE]
  /\ Pending(r, t, Append(q, r))
  /\ UNCHANGED lineVars

\* The memory will answer later; it writes to the line until then.
RefillPending(r, t, q) ==
  /\ Misses(t)
  /\ \E way \in Ways : refill' = [line |-> <<Index[t], way>>, tag |-> t, filled |-> FALSE]
  /\ Pending(r, t, <<r>> \o q)
  /\ UNCHANGED lineVars

handle_req(r, t, q) ==
  Hit(r, t, q) \/ MissWaits(r, t, q) \/ RefillOk(r, t, q) \/ RefillPending(r, t, q)

-----------------------------------------------------------------------------
(* Calls of the masters.  They come from events of their own, or from the  *)
(* response callback in the middle of fsm_handler or refill_response.      *)

Requested == requests < MaxRequests /\ requests' = requests + 1 /\ UNCHANGED controls
Controlled == controls < MaxControls /\ controls' = controls + 1 /\ UNCHANGED requests

\* The memory refuses the refill: it is invalid, or denied and answered later all the same,
\* which the cache does not tell apart.
Refused == late' \in {late, IF late = "none" THEN "due" ELSE late}

\* A new request.  The memory may refuse the refill, and the master is told.
req(r, t) ==
  /\ status[r] = "free" /\ Requested /\ enabled
  /\ \/ handle_req(r, t, refill_pending_reqs) /\ UNCHANGED late
     \/ Misses(t) /\ Refused /\ UNCHANGED <<lineVars, queueVars>>
  /\ UNCHANGED <<controlVars, version, fsm_event, replying>>

\* A request to a disabled cache goes to the memory, which answers at once or not.
req_forward(r) ==
  /\ status[r] = "free" /\ Requested /\ ~enabled
  /\ status' \in {status, [status EXCEPT ![r] = "forwarded"]}
  /\ UNCHANGED <<lineVars, refill_pending_reqs, refill, saved, controlVars, memoryVars, fsm_event, replying>>

enable ==
  /\ Controlled /\ enabled' = ~enabled
  /\ UNCHANGED <<lineVars, queueVars, flush_line_addr, flushed, memoryVars, fsm_event, replying>>

\* A flush of the tags ts.  The history leaves out the tag whose refill is pending: its response
\* makes the line valid again, with data that may be older than the flush.
Flushed(ts) ==
  flushed' = [t \in Tags |-> IF t \in ts /\ ~(pending_refill /\ refill.tag = t) THEN version ELSE flushed[t]]

\* Mutant: the last way is not flushed.
flush_LastWay ==
  /\ Controlled /\ tag' = [l \in Lines |-> IF l[2] = nb_ways - 1 THEN tag[l] ELSE None]
  /\ Flushed(Tags)
  /\ UNCHANGED <<data, queueVars, enabled, flush_line_addr, memoryVars, fsm_event, replying>>

flush ==
  /\ Controlled /\ tag' = [l \in Lines |-> None]
  /\ Flushed(Tags)
  /\ UNCHANGED <<data, queueVars, enabled, flush_line_addr, memoryVars, fsm_event, replying>>

flush_line_addr_sync(t) ==
  /\ Controlled /\ flush_line_addr' = t
  /\ UNCHANGED <<lineVars, queueVars, enabled, flushed, memoryVars, fsm_event, replying>>

flush_line ==
  /\ Controlled
  /\ tag' = [l \in Lines |-> IF l \in get_line(flush_line_addr) THEN None ELSE tag[l]]
  /\ Flushed({flush_line_addr})
  /\ UNCHANGED <<data, queueVars, enabled, flush_line_addr, memoryVars, fsm_event, replying>>

-----------------------------------------------------------------------------
(* The engine and the memory.                                              *)

\* Something else writes to the memory.
MemoryChanges ==
  /\ version < MaxVersions /\ version' = version + 1
  /\ UNCHANGED <<lineVars, queueVars, controlVars, late, fsm_event, replying, counts>>

\* The memory writes the line of the pending refill.
MemoryWrites ==
  /\ pending_refill /\ ~refill.filled
  /\ data' = [data EXCEPT ![refill.line] = Contents(refill.tag)]
  /\ refill' = [refill EXCEPT !.filled = TRUE]
  /\ UNCHANGED <<tag, refill_pending_reqs, status, saved, controlVars, memoryVars, fsm_event, replying, counts>>

\* The response of the memory, up to the response to the master.
refill_response ==
  /\ ~replying /\ pending_refill /\ refill.filled
  /\ refill' = None
  /\ tag' = [tag EXCEPT ![refill.line] = refill.tag]
  /\ Answered(Head(refill_pending_reqs), Tail(refill_pending_reqs))
  /\ replying' = TRUE
  /\ UNCHANGED <<data, controlVars, memoryVars, fsm_event, counts>>

\* The memory answers a refill that it had denied.  There is one refill_req, for the last
\* refill: while one is pending, this answer stands for its own.  Otherwise the memory writes to
\* the line of the last refill, and refill_response takes whichever request is first in the
\* queue, with refill_line and refill_tag of the last refill that was pending; which refills
\* those were, and a second such answer, is left out.  Without a request in the queue, or before any refill was pending,
\* the program follows a null or an uninitialised pointer.
LateResponse ==
  /\ ~replying /\ late = "due" /\ late' = "served"
  /\ ~pending_refill /\ refill_pending_reqs # <<>>
  /\ \E t \in Tags, way \in Ways : data' = [data EXCEPT ![<<Index[t], way>>] = Contents(t)]
  /\ \E t \in Tags, way \in Ways : tag' = [tag EXCEPT ![<<Index[t], way>>] = t]
  /\ Answered(Head(refill_pending_reqs), Tail(refill_pending_reqs))
  /\ replying' = TRUE
  /\ UNCHANGED <<refill, controlVars, version, fsm_event, counts>>

\* Mutant: the event is not enqueued.
check_state_Silent(event) == event

\* fsm_event after check_state(), from its value before.
check_state(event) == event \/ (refill' = None /\ refill_pending_reqs' # <<>>)

\* The callback returns, to refill_response or fsm_handler.
ReplyReturns ==
  /\ replying /\ replying' = FALSE
  /\ UNCHANGED <<lineVars, queueVars, controlVars, memoryVars, counts>>
  /\ fsm_event' = check_state(fsm_event)

\* The event finds nothing to resume.
FsmIdle ==
  /\ ~replying /\ fsm_event /\ (pending_refill \/ refill_pending_reqs = <<>>)
  /\ fsm_event' = FALSE
  /\ UNCHANGED <<lineVars, queueVars, controlVars, memoryVars, replying, counts>>

\* The event resumes the first request, and replies to its master if it is done.
FsmResumes ==
  /\ ~replying /\ fsm_event /\ ~pending_refill /\ refill_pending_reqs # <<>>
  /\ LET r == Head(refill_pending_reqs)
     IN  /\ handle_req(r, saved[r], Tail(refill_pending_reqs))
         /\ replying' = (status'[r] = "free")
  /\ fsm_event' = IF replying' THEN FALSE ELSE check_state(FALSE)
  /\ UNCHANGED <<controlVars, memoryVars, counts>>

\* The memory refuses the refill of a resumed request: it left the queue, and
\* nobody answers it.
FsmLoses ==
  /\ ~replying /\ fsm_event /\ ~pending_refill /\ refill_pending_reqs # <<>>
  /\ LET r == Head(refill_pending_reqs)
     IN  /\ Misses(saved[r])
         /\ status' = [status EXCEPT ![r] = "lost"] /\ saved' = [saved EXCEPT ![r] = None]
  /\ refill_pending_reqs' = Tail(refill_pending_reqs)
  /\ Refused
  /\ UNCHANGED <<lineVars, refill, controlVars, version, replying, counts>>
  /\ fsm_event' = check_state(FALSE)

fsm_handler == FsmIdle \/ FsmResumes \/ FsmLoses

\* The memory answers a request that was forwarded to it, to the master.
ForwardedResponse(r) ==
  /\ ~replying /\ status[r] = "forwarded"
  /\ status' = [status EXCEPT ![r] = "free"]
  /\ UNCHANGED <<lineVars, refill_pending_reqs, refill, saved, controlVars, memoryVars, fsm_event,
                 replying, counts>>

-----------------------------------------------------------------------------
MasterNext ==
  \/ \E r \in Requests : req_forward(r) \/ \E t \in Tags : req(r, t)
  \/ enable \/ flush \/ flush_line \/ \E t \in Tags : flush_line_addr_sync(t)

MemoryStep == MemoryWrites \/ refill_response

Next ==
  \/ MasterNext \/ MemoryChanges \/ MemoryStep \/ LateResponse \/ ReplyReturns \/ fsm_handler
  \/ \E r \in Requests : ForwardedResponse(r)

\* An enqueued event is executed, a callback returns, and the memory answers the
\* refill it has; nothing makes the masters send requests.
Spec ==
  /\ Init /\ [][Next]_vars
  /\ WF_vars(MemoryStep) /\ WF_vars(ReplyReturns) /\ WF_vars(fsm_handler)

-----------------------------------------------------------------------------
(* Properties.  A refill that the memory denies is reported invalid by the *)
(* cache and answered all the same: the first two exclude it.              *)

\* A line is in one way of its set at most, so that a flush of it and a hit on it
\* do not miss a copy; through waiting requests for the same line, refills that
\* overlap a flush and requests sent from a callback.  The late answer of a denied refill is
\* the exception: it may make the line of an older refill valid again.
TagsUnique == late # "served" => \A t \in Tags : Cardinality(get_line(t)) <= 1

\* A valid line holds the data of its tag, as recent as the last flush of it, through refills
\* that overlap a flush, resumed requests and callbacks.  The line that a refill is writing to
\* is an exception: its old tag stays valid until the response.  So is the tag whose refill
\* was pending at the flush (Flushed), and so are all lines once a refill was denied: the memory
\* still writes to the line of it.
LinesHoldTheirTag ==
  late = "none" =>
    \A l \in Lines : tag[l] # None /\ ~(pending_refill /\ l = refill.line) =>
      data[l].tag = tag[l] /\ data[l].version >= flushed[tag[l]]

\* refill_response answers the head of the queue with the line of the refill: it is
\* the request that the refill is for, whoever was queued before or after it.  Only the
\* answer of a denied refill that comes when none is pending takes another one (LateResponse).
HeadIsRequester ==
  pending_refill => /\ refill_pending_reqs # <<>>
                    /\ saved[Head(refill_pending_reqs)] = refill.tag

\* A resumed request whose refill the memory refused: it left the queue, and fsm_handler
\* drops the result, so that its master is never answered.
Lost(r) == status[r] = "lost"

\* A request that waits is answered, once the masters stop sending new ones: every way out of
\* a refill or a callback leaves the queue served.  The one that is lost is the exception.
QueueDrains == \A r \in Requests : status[r] = "pending" ~> (status[r] = "free" \/ Lost(r))
=============================================================================
