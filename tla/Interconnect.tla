---------------------------- MODULE Interconnect ----------------------------
(***************************************************************************)
(* Masters behind a router (models/interco/router_impl.cpp) whose mappings *)
(* lead to a memory (models/memory/memory_impl.cpp), to an interleaver     *)
(* over memory banks (models/interco/interleaver_impl.cpp) and to a        *)
(* converter (models/interco/converter_impl.cpp) with a slave behind it    *)
(* that answers at once, later, once it has granted it or with an error.   *)
(*                                                                         *)
(* Each master owns one io_req.  The data of a request are the numbers of  *)
(* its bytes; an access to a cell, read or write, is recorded at the byte  *)
(* that is copied.  Latencies, durations and counters are left out.  The   *)
(* interfaces of all mappings are bound.                                   *)
(***************************************************************************)
EXTENDS RoutingTable, FiniteSets, SequencesExt

CONSTANTS Masters,
          Tables,            \* the mappings of the router in the order of insertion
          Accesses,          \* what masters ask for: records [addr, size]
          MemSize,           \* of the memory
          interleaving_bits, stage_bits,   \* of the interleaver
          output_width,      \* of the converter, also its output_align
          None,
          MaxAccesses        \* bound on the number of requests

(* An access that starts outside the mappings stays there: the router      *)
(* would send the rest of it to the default entry as a whole.  One to the  *)
(* converter is not split by the router, which loses the port of the       *)
(* master when a later part is answered asynchronously.                    *)
ASSUME InterconnectAssumption ==
  /\ None \notin Masters /\ "router" \notin Masters /\ MaxAccesses \in Nat
  /\ MemSize \in Nat /\ output_width \in Nat \ {0}
  /\ 2^interleaving_bits \in Nat \ {0} /\ 2^stage_bits \in Nat \ {0}
  /\ \A a \in Accesses : a = [addr |-> a.addr, size |-> a.size] /\ a.addr \in Nat /\ a.size \in Nat \ {0}
  /\ \A t \in Tables : WellFormed(t)
  /\ \A t \in Tables, a \in Accesses :
       LET owner(n) == Owner(t, a.addr + n)
       IN  \A n, k \in 0..(a.size - 1) :
             \/ owner(n).size = 0 /\ n <= k
             \/ owner(n).target = "converter"
             => owner(k) = owner(n)

VARIABLES
  table,
  parts,        \* what topMapEntry makes of each access
  asked,        \* the last access of each master
  req,          \* its io_req
  status,       \* what it knows of its request
  moved,        \* the cells each byte of its request was copied with
  failed,       \* a part of its request was answered with an error
  converter,    \* the fields of the converter
  held,         \* the requests the slave of the converter will answer
  refused,      \* those of them it denied and has not granted yet
  broken,       \* a chunk was not answered OK
  powered_up,
  accesses      \* number of requests so far

vars == <<table, parts, asked, req, status, moved, failed, converter, held, refused, broken, powered_up, accesses>>

(* A request of size bytes is cut in parts: the one that starts at byte n  *)
(* has length[n] bytes.                                                    *)

\* The byte at which each part starts.
Starts(size, length) ==
  LET next == [n \in 0..size |-> IF n = size THEN size ELSE n + length[n]]
      start[k \in Nat] == IF k = 0 THEN 0 ELSE next[start[k - 1]]
  IN  start

Split(size, length) ==
  LET start == Starts(size, length)
      count == CHOOSE k \in 0..size : start[k] = size /\ \A j \in 0..(k - 1) : start[j] # size
  IN  [i \in 1..count |-> [at |-> start[i - 1], size |-> length[start[i - 1]]]]

\* The parts of access a in the router.  Where no mapping is found the rest is one part.
PartsOf(t, a) ==
  LET entry == [n \in 0..(a.size - 1) |-> Lookup(t, a.addr + n, a.size - n)]
      cut == Split(a.size, [n \in 0..(a.size - 1) |-> iter_size(entry[n], a.addr + n, a.size - n)])
  IN  [i \in 1..Len(cut) |-> [at |-> cut[i].at, size |-> cut[i].size, entry |-> entry[cut[i].at]]]

NoReq == [addr |-> 0, size |-> 0, data |-> 0, args |-> <<>>, resp_port |-> None]

Init ==
  /\ table \in Tables /\ parts = [a \in Accesses |-> PartsOf(table, a)]
  /\ req = [m \in Masters |-> NoReq]
  /\ asked = [m \in Masters |-> [addr |-> 0, size |-> 0]]
  /\ status = [m \in Masters |-> "done"]
  /\ moved = [m \in Masters |-> <<>>]
  /\ failed = [m \in Masters |-> FALSE]
  /\ converter = [pending_req |-> <<>>, ongoing_req |-> None, ongoing_size |-> 0,
                  stalled_req |-> <<>>, event |-> FALSE]
  /\ held = {} /\ refused = {} /\ broken = FALSE
  /\ powered_up = TRUE
  /\ accesses = 0

-----------------------------------------------------------------------------
(* The synchronous part.  A request under way is a record w of the values  *)
(* that the calls change: those of its master m, the converter, held and   *)
(* the last result.                                                        *)

\* size bytes from number data on are copied with the cells from addr on.
Copy(bytes, target, addr, data, size) ==
  [k \in DOMAIN bytes |-> IF k - 1 \in data..(data + size - 1)
                          THEN Append(bytes[k], <<target, addr + k - 1 - data>>) ELSE bytes[k]]

Invalid(w) == [w EXCEPT !.result = "INVALID", !.failed = TRUE]

Copied(w, target) ==
  [w EXCEPT !.result = "OK",
            !.moved = Copy(@, target, w.req.addr, w.req.data, w.req.size)]

memory_req(w) ==
  IF ~powered_up \/ w.req.addr + w.req.size > MemSize THEN Invalid(w) ELSE Copied(w, "memory")

-----------------------------------------------------------------------------
port_size == 2^interleaving_bits
Bank(offset) == (offset \div port_size) % 2^stage_bits

BankOffset(offset) ==
  (((offset \div (port_size * 2^stage_bits)) * (port_size * 2^stage_bits)) \div 2^stage_bits)
    + (offset % port_size)

\* Mutant: the first packet is not cut at the border of a bank.
loop_size_Unaligned(offset, size) == IF port_size > size THEN size ELSE port_size

loop_size(offset, size) ==
  LET n == port_size - (offset % port_size) IN IF n > size THEN size ELSE n

\* The bytes after each of the packets of a request, which its bank answers at once.
Packets(bytes, r) ==
  LET packets == Split(r.size, [n \in 0..(r.size - 1) |-> loop_size(r.addr + n, r.size - n)])
      after[i \in 0..Len(packets)] ==
        IF i = 0 THEN bytes
        ELSE LET part == packets[i]  o == r.addr + part.at
             IN  Copy(after[i - 1], <<"bank", Bank(o)>>, BankOffset(o), r.data + part.at, part.size)
  IN  after[Len(packets)]

interleaver_req(w) == [w EXCEPT !.result = "OK", !.moved = Packets(@, w.req)]

-----------------------------------------------------------------------------
(* The converter.  pending_req is a stack: the last chunk is sent first.   *)

Align(offset) == offset \div output_width

chunk_size(offset, size) ==
  LET n == output_width - (offset % output_width) IN IF n > size THEN size ELSE n

process_pending_req(c, m, r) ==
  LET cut == Split(r.size, [n \in 0..(r.size - 1) |-> chunk_size(r.addr + n, r.size - n)])
      chunks == [i \in 1..Len(cut) |->
                   [addr |-> r.addr + cut[i].at, data |-> r.data + cut[i].at, size |-> cut[i].size]]
  IN  [c EXCEPT !.ongoing_req = m, !.ongoing_size = r.size,
                !.pending_req = Reverse(chunks) \o @]

check_state(c) == [c EXCEPT !.event = @ \/ c.pending_req # <<>>]

\* Another request is being split: this one has to wait.
MustStall(c, r) == c.ongoing_req # None

\* The slave gives answer if the request is forwarded to it; all but OK is told as PENDING.
converter_req(w, m, answer) ==
  LET c == w.converter  r == w.req
  IN  IF MustStall(c, r)
      THEN [w EXCEPT !.converter.stalled_req = Append(@, m), !.result = "DENIED"]
      ELSE IF Align(r.addr) # Align(r.addr + r.size - 1)
      THEN [w EXCEPT !.converter = check_state(process_pending_req(c, m, r)), !.result = "PENDING"]
      ELSE IF answer = "OK" THEN Copied(w, "slave")
      ELSE [w EXCEPT !.converter = check_state(c), !.result = "PENDING",
                     !.failed = @ \/ answer = "INVALID",
                     !.held = IF answer \in {"PENDING", "DENIED"} THEN @ \cup {m} ELSE @]

-----------------------------------------------------------------------------
(* The router.  A part that is OK takes its argument back; the result is   *)
(* the one of the last part.                                               *)

target_req(w, m, target, answer) ==
  CASE target = "memory" -> memory_req(w)
    [] target = "interleaver" -> interleaver_req(w)
    [] target = "converter" -> converter_req(w, m, answer)

\* Mutant: the response port is not saved on the stack of arguments.
Forward_NoPush(r, e, offset, data, size) ==
  [r EXCEPT !.addr = Translate(e, offset), !.size = size, !.data = data,
            !.args = Append(@, "router"), !.resp_port = "router"]

Forward(r, e, offset, data, size) ==
  [r EXCEPT !.addr = Translate(e, offset), !.size = size, !.data = data,
            !.args = Append(@, r.resp_port), !.resp_port = "router"]

router_part(w, m, e, offset, data, size, answer) ==
  LET v == target_req([w EXCEPT !.req = Forward(@, e, offset, data, size)], m, e.target, answer)
  IN  IF v.result = "OK" THEN [v EXCEPT !.req.args = Front(@)] ELSE v

router_end(end, a) ==
  IF end.result = "OK"
  THEN [end EXCEPT !.req.addr = a.addr, !.req.size = a.size, !.req.data = 0] ELSE end

router_req(w, m, a, answer) ==
  LET after[i \in 0..Len(parts[a])] ==
        IF i = 0 THEN w
        ELSE LET part == parts[a][i]
             IN  IF part.entry = NoEntry THEN Invalid(after[i - 1])
                 ELSE router_part(after[i - 1], m, part.entry, a.addr + part.at, part.at, part.size, answer)
  IN  router_end(after[Len(parts[a])], a)

-----------------------------------------------------------------------------
(* Calls back to the masters: the router finds the port of the master on   *)
(* the stack of arguments.  When it finds its own port there, it calls     *)
(* itself with an empty stack, which is undefined.                         *)

Reached(m, known) ==
  IF req[m].args # <<>> /\ Last(req[m].args) = m THEN known ELSE "undefined"

router_grant(m) == Reached(m, "granted")
router_response(m) == Reached(m, "done")

\* A master that got its request back sends it again for another access.
Send(m, access, answer) ==
  /\ accesses < MaxAccesses
  /\ status[m] \in {"done", "ok", "invalid"}
  /\ \E w \in {router_req([req |-> [NoReq EXCEPT !.addr = access.addr, !.size = access.size, !.resp_port = m],
                           moved |-> [k \in 1..access.size |-> <<>>], failed |-> FALSE,
                           converter |-> converter, held |-> held, result |-> "OK"], m, access, answer)} :
         /\ asked' = [asked EXCEPT ![m] = access]
         /\ req' = [req EXCEPT ![m] = w.req]
         /\ moved' = [moved EXCEPT ![m] = w.moved]
         /\ failed' = [failed EXCEPT ![m] = w.failed]
         /\ status' = [status EXCEPT ![m] = CASE w.result = "OK" -> "ok"
                                              [] w.result = "INVALID" -> "invalid"
                                              [] w.result = "DENIED" -> "denied"
                                              [] w.result = "PENDING" -> "pending"]
         /\ converter' = w.converter /\ held' = w.held
         /\ refused' = w.held \cap (refused \cup IF answer = "DENIED" THEN {m} ELSE {})
  /\ accesses' = accesses + 1
  /\ UNCHANGED <<table, parts, broken, powered_up>>

-----------------------------------------------------------------------------
(* The event of the converter sends one chunk.  When it was the last one,  *)
(* the request is answered and the first stalled one is granted and split, *)
(* also where it would fit.                                                *)

\* Mutant: the request whose turn it is stays in the queue.
Unstall_Stays(c, r) == check_state(process_pending_req(c, Head(c.stalled_req), r))

Unstall(c, r) ==
  check_state(process_pending_req([c EXCEPT !.stalled_req = Tail(@)], Head(c.stalled_req), r))

AfterResponse(c) ==
  IF c.stalled_req = <<>> THEN check_state(c) ELSE Unstall(c, req[Head(c.stalled_req)])

ChunkOk ==
  LET c == converter  chunk == Head(c.pending_req)  m == c.ongoing_req
      sent == [c EXCEPT !.pending_req = Tail(@), !.event = FALSE, !.ongoing_size = @ - chunk.size]
      last == sent.ongoing_size = 0
  IN  /\ moved' = [moved EXCEPT ![m] = Copy(@, "slave", chunk.addr, chunk.data, chunk.size)]
      /\ converter' = IF last THEN AfterResponse([sent EXCEPT !.ongoing_req = None])
                      ELSE check_state(sent)
      /\ status' = [n \in Masters |->
                      IF last /\ n = m THEN router_response(m)
                      ELSE IF last /\ c.stalled_req # <<>> /\ n = Head(c.stalled_req)
                      THEN router_grant(n) ELSE status[n]]
      /\ req' = IF last THEN [req EXCEPT ![m].args = Front(@)] ELSE req
      /\ UNCHANGED <<failed, broken>>

\* A chunk that is not answered OK is lost, and its request with it.
ChunkFails ==
  /\ converter' = check_state([converter EXCEPT !.pending_req = Tail(@), !.event = FALSE])
  /\ failed' = [failed EXCEPT ![converter.ongoing_req] = TRUE]
  /\ broken' = TRUE
  /\ UNCHANGED <<moved, status, req>>

event_handler ==
  /\ converter.event
  /\ ChunkOk \/ ChunkFails
  /\ UNCHANGED <<table, parts, asked, held, refused, powered_up, accesses>>

\* The slave grants a request that it had denied.  The call goes to the master: the converter
\* is not the resp port of a request that it forwards.
SlaveGrants(m) ==
  /\ m \in refused
  /\ refused' = refused \ {m}
  /\ status' = [status EXCEPT ![m] = router_grant(m)]
  /\ UNCHANGED <<table, parts, asked, req, moved, failed, converter, held, broken, powered_up, accesses>>

\* The slave answers a request that was forwarded to it.
SlaveResponds(m) ==
  /\ m \in held \ refused
  /\ held' = held \ {m}
  /\ moved' = [moved EXCEPT ![m] = Copy(@, "slave", req[m].addr, req[m].data, req[m].size)]
  /\ status' = [status EXCEPT ![m] = router_response(m)]
  /\ req' = [req EXCEPT ![m].args = Front(@)]
  /\ UNCHANGED <<table, parts, asked, failed, converter, refused, broken, powered_up, accesses>>

power_ctrl_sync ==
  /\ powered_up' = ~powered_up
  /\ UNCHANGED <<table, parts, asked, req, status, moved, failed, converter, held, refused, broken, accesses>>

\* How the slave may answer the access, where it reaches the slave.
Answers(a) ==
  IF \E i \in DOMAIN parts[a] : parts[a][i].entry.target = "converter"
  THEN {"OK", "INVALID", "PENDING", "DENIED"} ELSE {"OK"}

Next ==
  \/ \E m \in Masters, a \in Accesses : \E answer \in Answers(a) : Send(m, a, answer)
  \/ event_handler
  \/ \E m \in Masters : SlaveGrants(m) \/ SlaveResponds(m)
  \/ power_ctrl_sync

(* The event of the converter is enqueued in a clock domain that runs, and *)
(* the slave grants and answers what it said it would.                     *)
Fairness ==
  WF_vars(event_handler) /\ \A m \in Masters : WF_vars(SlaveGrants(m)) /\ WF_vars(SlaveResponds(m))

Spec == Init /\ [][Next]_vars /\ Fairness

-----------------------------------------------------------------------------
(* What the router, the interleaver and the converter promise.             *)

\* The tree finds the mapping that an address belongs to, whatever the order in which the
\* mappings were inserted (MapEntry::insert, router::init_entries, router::req).
RoutingIsMap ==
  accesses = 0 => \A a \in {x.addr + k : x \in Accesses, k \in 0..3} :
                    Lookup(table, a, 1) = Owner(table, a)

\* Where an address belongs; consecutive lines of the interleaver are in consecutive banks.
Place(t, a) ==
  LET e == Owner(t, a)  o == Translate(e, a)  line == o \div port_size
  IN  CASE e.target = "memory" -> <<"memory", o>>
        [] e.target = "converter" -> <<"slave", o>>
        [] e.target = "interleaver" ->
             <<<<"bank", line % 2^stage_bits>>, (line \div 2^stage_bits) * port_size + (o % port_size)>>
        [] OTHER -> <<"none", o>>

Places == [t \in Tables |-> [a \in Accesses |-> [k \in 1..a.size |-> <<Place(t, a.addr + k - 1)>>]]]

InFull(m) == asked[m].size # 0 => moved[m] = Places[table][asked[m]]

SpansMappings(a) == \E k \in 1..(a.size - 1) : Owner(table, a.addr) # Owner(table, a.addr + k)

\* A master whose request was answered without error finds each of its bytes copied once, with
\* the cell its address belongs to, however the router, the interleaver and the converter cut
\* and reorder it, and its argument stack as it was; one that is told OK at once also gets the
\* address, size and data pointer back that are overwritten for each part.  The exception is a
\* request over several mappings one of which fails: router::req returns the result of the
\* last part only.
AnsweredInFull ==
  \A m \in Masters :
    status[m] \in {"ok", "done"} =>
      /\ InFull(m) \/ (failed[m] /\ SpansMappings(asked[m]))
      /\ status[m] = "done" \/ ~failed[m] => req[m].args = <<>>
      /\ status[m] = "ok" => req[m].addr = asked[m].addr /\ req[m].size = asked[m].size /\ req[m].data = 0

\* The master waits for a grant or a response.
Waiting == {"denied", "granted", "pending"}

\* A grant reaches only a master that was denied, a response only one that was told PENDING or
\* was granted, and neither comes after an answer (vp::io_slave::grant and resp through
\* router::grant and router::response).  The exception is a request that the slave behind the
\* converter denied: converter::req tells PENDING, and the grant of the slave comes all the same.
IoProtocol ==
  [][\A m \in Masters :
       status'[m] # status[m] =>
         \/ status[m] \notin Waiting /\ accesses' = accesses + 1
         \/ status[m] = "denied" /\ status'[m] = "granted"
         \/ status[m] = "pending" /\ m \in refused /\ status'[m] = "granted"
         \/ status[m] \in {"granted", "pending"} /\ status'[m] = "done"]_vars

\* Every request that is not answered at once is answered later, the stalled ones too, unless the
\* slave behind the converter fails: a chunk it does not answer OK blocks the converter for good.
WaitingAnswered ==
  \A m \in Masters : status[m] \in Waiting ~> (status[m] = "done" \/ failed[m] \/ broken)
=============================================================================
