------------------------------ MODULE GdbServer ------------------------------
(***************************************************************************)
(* The GDB server (models/gdbserver): the thread that receives the packets *)
(* of GDB, in pieces of any size, through a circular buffer and a decoder, *)
(* the accesses and core commands it makes in the engine, and the replies, *)
(* which both this thread and the engine thread send.                      *)
(*                                                                         *)
(* Characters are strings.  '#' and Ctrl-C, and '}' and ']', are each      *)
(* other's escaped forms, as in ASCII.  Of the commands there is one of    *)
(* each kind of answer: a query (q), a memory write (X), continue (c),     *)
(* step (s, which stands for vCont;s) and one that the server does not     *)
(* know (m).  An X without data is one that cannot be parsed.  A section   *)
(* between lock() and unlock() is taken while the engine thread is outside *)
(* of its callbacks.                                                       *)
(***************************************************************************)
EXTENDS Integers, FiniteSets, SequencesExt

CONSTANTS max_size,      \* of the circular buffer
          Packets,       \* what GDB sends, before it is encoded: not longer than the PacketSize it is
                         \* told, so that the decoder never meets its RSP_PACKET_MAX_LEN
          MaxPackets, MaxInterrupts, MaxResends   \* bounds on what GDB sends

ASSUME GdbServerAssumption ==
  /\ max_size \in Nat \ {0, 1} /\ {MaxPackets, MaxInterrupts, MaxResends} \subseteq Nat
  /\ \A p \in Packets : p \in Seq(STRING) /\ p # <<>> /\ p[1] \in {"q", "X", "c", "s", "m"}

VARIABLES
  gdb,       \* the debugger: what it waits for and what it has sent
  wire,      \* characters on their way to the server
  buffer,    \* the circular buffer
  codec,     \* the decoder
  decoded,   \* the packets and Ctrl-Cs decoded so far
  rsp,       \* the thread of the server
  engine,    \* where the engine thread is in sending a message, or "none"
  out,       \* messages in the output buffer
  core,      \* [halted, step_mode] of the core
  access,    \* [pending, event] of the memory access
  answers,   \* a memory write was refused; a Ctrl-C found the core halted
  overlap    \* both threads were sending at once

vars == <<gdb, wire, buffer, codec, decoded, rsp, engine, out, core, access, answers, overlap>>

-----------------------------------------------------------------------------
(* The circular buffer.                                                    *)

is_empty(b) == b.head = b.tail /\ ~b.full
size(b) == IF b.full THEN max_size
           ELSE IF b.head <= b.tail THEN b.tail - b.head ELSE max_size - b.head + b.tail

\* The buffer after write_block: an empty one starts again at 0.
Rewound(b) == IF is_empty(b) THEN [b EXCEPT !.head = 0, !.tail = 0] ELSE b

\* The length of the block that can be written at tail.
write_block(b) ==
  IF is_empty(b) THEN max_size ELSE IF b.full THEN 0
  ELSE IF b.tail < b.head THEN b.head - b.tail ELSE max_size - b.tail

Wrap(i) == IF i >= max_size THEN i - max_size ELSE i

commit_write(b, l) ==
  LET t == Wrap(b.tail + l) IN [b EXCEPT !.tail = t, !.full = @ \/ t = b.head]

\* The characters from head on that are in one piece.
read_block(b) ==
  LET n == IF is_empty(b) THEN 0 ELSE IF b.tail <= b.head THEN max_size - b.head ELSE b.tail - b.head
  IN  [i \in 1..n |-> b.buf[b.head + i - 1]]

\* What was read is not read again, and is cleared in the model.
commit_read(b, l) ==
  IF l = 0 THEN b
  ELSE [b EXCEPT !.head = Wrap(@ + l), !.full = FALSE,
                 !.buf = [i \in DOMAIN @ |-> IF i \in b.head..(b.head + l - 1) THEN "-" ELSE @[i]]]

-----------------------------------------------------------------------------
(* Characters.  The checksum is modulo 4, in two binary digits.            *)

Flip(c) == CASE c = "#" -> "^C" [] c = "^C" -> "#" [] c = "}" -> "]" [] c = "]" -> "}" [] OTHER -> c
Code(c) == CASE c \in {"q", "^C"} -> 1 [] c \in {"X", "]"} -> 2 [] c \in {"c", "}"} -> 3 [] OTHER -> 0

checksum(s) ==
  LET sum[i \in 0..Len(s)] == IF i = 0 THEN 0 ELSE (sum[i - 1] + Code(s[i])) % 4
      n == sum[Len(s)]
  IN  <<IF n \div 2 = 0 THEN "0" ELSE "1", IF n % 2 = 0 THEN "0" ELSE "1">>

verify_checksum(s, crc) == crc = checksum(s)

\* Whether the next character is escaped after each of the characters of s.
Escapes(s, escaped) ==
  LET after[i \in 0..Len(s)] == IF i = 0 THEN escaped ELSE ~after[i - 1] /\ s[i] = "}"
  IN  after

deescape(s) ==
  LET escaped == Escapes(s, FALSE)
      after[i \in 0..Len(s)] ==
        IF i = 0 THEN <<>>
        ELSE IF escaped[i - 1] THEN Append(after[i - 1], Flip(s[i]))
        ELSE IF s[i] = "}" THEN after[i - 1] ELSE Append(after[i - 1], s[i])
  IN  after[Len(s)]

\* What GDB makes of a packet.
Escape(s) ==
  LET after[i \in 0..Len(s)] ==
        IF i = 0 THEN <<>>
        ELSE after[i - 1] \o (IF s[i] \in {"#", "}"} THEN <<"}", Flip(s[i])>> ELSE <<s[i]>>)
  IN  after[Len(s)]

Encoded(p) == <<"$">> \o Escape(p) \o <<"#">> \o checksum(Escape(p))

-----------------------------------------------------------------------------
(* GDB.  It sends one packet at a time, again when no acknowledgement      *)
(* comes, and a Ctrl-C when the program runs.                              *)

Expects(p) == CASE p[1] \in {"q", "m"} -> "data" [] p[1] = "X" -> "written" [] OTHER -> "stop"

GdbSends(p) ==
  /\ gdb.waits = "nothing" /\ gdb.packets < MaxPackets
  /\ gdb' = [gdb EXCEPT !.waits = Expects(p), !.packet = p, !.acked = FALSE,
                        !.packets = @ + 1, !.sent = Append(@, p)]
  /\ wire' = wire \o Encoded(p)
  /\ UNCHANGED <<buffer, codec, decoded, rsp, engine, out, core, access, answers, overlap>>

GdbResends ==
  /\ gdb.waits # "nothing" /\ ~gdb.acked /\ gdb.resends < MaxResends
  /\ gdb' = [gdb EXCEPT !.resends = @ + 1, !.sent = Append(@, gdb.packet)]
  /\ wire' = wire \o Encoded(gdb.packet)
  /\ UNCHANGED <<buffer, codec, decoded, rsp, engine, out, core, access, answers, overlap>>

GdbInterrupts ==
  /\ gdb.waits = "stop" /\ gdb.interrupts < MaxInterrupts
  /\ gdb.acked \/ gdb.resends = MaxResends
  /\ gdb' = [gdb EXCEPT !.interrupts = @ + 1, !.resends = MaxResends, !.sent = Append(@, <<"^C">>)]
  /\ wire' = Append(wire, "^C")
  /\ UNCHANGED <<buffer, codec, decoded, rsp, engine, out, core, access, answers, overlap>>

\* GDB gets a message; a reply is acknowledged and ends the wait for it.
GdbGets(g, msg) ==
  IF msg = "ack" THEN [g EXCEPT !.acked = TRUE]
  ELSE IF msg = g.waits THEN [g EXCEPT !.waits = "nothing"] ELSE g

-----------------------------------------------------------------------------
(* Sending a message: it is encoded behind what is in the output buffer,   *)
(* the buffer is sent, then emptied.  Nothing keeps the two threads from   *)
(* doing so at once, which overlap records: what is sent then is undefined.*)

\* GDB gets the messages of the output buffer one by one.
GdbGetsAll(g, msgs) ==
  LET after[i \in 0..Len(msgs)] == IF i = 0 THEN g ELSE GdbGets(after[i - 1], msgs[i])
  IN  after[Len(msgs)]

\* It acknowledges the replies.
Acks(msgs) == [i \in 1..Cardinality({i \in 1..Len(msgs) : msgs[i] # "ack"}) |-> "+"]

Flush ==
  /\ gdb' = GdbGetsAll(gdb, out)
  /\ wire' = wire \o Acks(out)
  /\ out' = <<>>

\* The thread goes on where the callback of the decoder returns.
Returns == IF codec.state = "INIT" THEN "recv" ELSE "decode"

rsp_send ==
  /\ rsp.pc = "send"
  /\ Flush
  /\ rsp' = [pc |-> Returns, locked |-> FALSE]
  /\ UNCHANGED <<buffer, codec, decoded, engine, core, access, answers, overlap>>

engine_send ==
  /\ engine = "send"
  /\ Flush
  /\ engine' = "none"
  /\ UNCHANGED <<buffer, codec, decoded, rsp, core, access, answers, overlap>>

-----------------------------------------------------------------------------
(* The engine thread.                                                      *)

EngineRuns == engine = "none" /\ ~rsp.locked

\* The core has executed one instruction in step mode.
StepEnds ==
  /\ EngineRuns /\ ~core.halted /\ core.step_mode
  /\ core' = [core EXCEPT !.halted = TRUE]
  /\ engine' = "send" /\ out' = Append(out, "stop")
  /\ overlap' = (overlap \/ rsp.pc = "send")
  /\ UNCHANGED <<gdb, wire, buffer, codec, decoded, rsp, access, answers>>

\* Mutant: no reply is sent for an access that the event completes.
handle_Silent ==
  /\ EngineRuns /\ access.event
  /\ access' = [pending |-> FALSE, event |-> FALSE]
  /\ UNCHANGED <<gdb, wire, buffer, codec, decoded, rsp, engine, out, core, overlap, answers>>

handle ==
  /\ EngineRuns /\ access.event
  /\ access' = [pending |-> FALSE, event |-> FALSE]
  /\ engine' = "send" /\ out' = Append(out, "written")
  /\ overlap' = (overlap \/ rsp.pc = "send")
  /\ UNCHANGED <<gdb, wire, buffer, codec, decoded, rsp, core, answers>>

-----------------------------------------------------------------------------
(* The thread of the server: receive, then decode as long as there is      *)
(* something to decode.                                                    *)

recv ==
  /\ rsp.pc = "recv" /\ wire # <<>>
  /\ \E n \in 1..write_block(buffer) :
       /\ n <= Len(wire)
       /\ LET b == Rewound(buffer)
              buf == [i \in DOMAIN b.buf |-> IF i \in b.tail..(b.tail + n - 1) THEN wire[i - b.tail + 1] ELSE b.buf[i]]
          IN  buffer' = commit_write([b EXCEPT !.buf = buf], n)
       /\ wire' = SubSeq(wire, n + 1, Len(wire))
  /\ rsp' = [rsp EXCEPT !.pc = "decode"]
  /\ UNCHANGED <<gdb, codec, decoded, engine, out, core, access, answers, overlap>>

\* There is no room: recv returns 0, which is taken for the end of the connection.
recv_nothing ==
  /\ rsp.pc = "recv" /\ write_block(buffer) = 0
  /\ rsp' = [rsp EXCEPT !.pc = "left"]
  /\ UNCHANGED <<gdb, wire, buffer, codec, decoded, engine, out, core, access, answers, overlap>>

reset_state == [state |-> "LEADIN", pkt |-> <<>>, escaped |-> FALSE]

\* Position of the first character of s in chars, or the length of s.
First(s, chars) == IF \E i \in DOMAIN s : s[i] \in chars
                   THEN CHOOSE i \in DOMAIN s : s[i] \in chars /\ \A j \in 1..(i - 1) : s[j] \notin chars
                   ELSE Len(s)

decode_init ==
  /\ codec.state = "INIT"
  /\ codec' = reset_state
  /\ UNCHANGED <<buffer, decoded, rsp, out, overlap>>

\* Mutant: a block is left out when it begins with something else than a packet.
decode_leadin_Rest ==
  /\ codec.state = "LEADIN"
  /\ LET s == read_block(buffer)
         start == s # <<>> /\ s[1] = "$"
     IN  IF s = <<>> THEN rsp' = [rsp EXCEPT !.pc = "recv"] /\ UNCHANGED <<buffer, codec>>
         ELSE /\ buffer' = commit_read(buffer, IF start THEN 1 ELSE Len(s))
              /\ codec' = IF start THEN [codec EXCEPT !.state = "BODY"] ELSE codec
              /\ UNCHANGED rsp
  /\ UNCHANGED <<decoded, out, overlap>>

decode_leadin ==
  /\ codec.state = "LEADIN"
  /\ LET s == read_block(buffer)
         n == First(s, {"^C", "+", "$"})
     IN  IF s = <<>> THEN rsp' = [rsp EXCEPT !.pc = "recv"] /\ UNCHANGED <<buffer, codec, decoded>>
         ELSE /\ buffer' = commit_read(buffer, n)
              /\ codec' = IF s[n] = "$" THEN [codec EXCEPT !.state = "BODY"] ELSE codec
              /\ decoded' = IF s[n] = "^C" THEN Append(decoded, <<"^C">>) ELSE decoded
              /\ rsp' = IF s[n] = "^C" THEN [rsp EXCEPT !.pc = "handle"] ELSE rsp
  /\ UNCHANGED <<out, overlap>>

\* The length of s up to its first '#' that is not escaped, and whether it ends in an escape.
scan_for_hash(s, escaped) ==
  LET after == Escapes(s, escaped)
      hashes == {i \in 1..Len(s) : s[i] = "#" /\ ~after[i - 1]}
      n == IF hashes = {} THEN Len(s) ELSE Min(hashes) - 1
  IN  [n |-> n, found |-> hashes # {}, escaped |-> after[n]]

\* Mutant: a further piece of the body overwrites the one before.
Grown_Over(pkt, piece) == IF piece = <<>> THEN pkt ELSE piece
Grown(pkt, piece) == pkt \o piece

decode_body ==
  /\ codec.state = "BODY"
  /\ LET s == read_block(buffer)
         a == scan_for_hash(s, codec.escaped)
     IN  /\ buffer' = commit_read(buffer, IF a.found THEN a.n + 1 ELSE a.n)
         /\ codec' = [state |-> IF a.found THEN "CRC" ELSE "BODY",
                      pkt |-> Grown(codec.pkt, SubSeq(s, 1, a.n)), escaped |-> a.escaped]
         /\ rsp' = IF s = <<>> THEN [rsp EXCEPT !.pc = "recv"] ELSE rsp
  /\ UNCHANGED <<decoded, out, overlap>>

\* After a packet the decoder stops, whatever there is behind it.  Its acknowledgement is written
\* before it is handled.
decode_crc ==
  /\ codec.state = "CRC"
  /\ LET s == read_block(buffer)
         ok == verify_checksum(codec.pkt, SubSeq(s, 1, 2))
     IN  IF Len(s) < 2 THEN rsp' = [rsp EXCEPT !.pc = "recv"] /\ UNCHANGED <<buffer, codec, decoded, out, overlap>>
         ELSE /\ buffer' = commit_read(buffer, 2)
              /\ codec' = [codec EXCEPT !.state = "INIT", !.pkt = IF ok THEN deescape(@) ELSE @]
              /\ decoded' = IF ok THEN Append(decoded, deescape(codec.pkt)) ELSE decoded
              /\ out' = IF ok THEN Append(out, "ack") ELSE out
              /\ rsp' = [rsp EXCEPT !.pc = IF ok THEN "handle" ELSE "recv"]
              /\ overlap' = (overlap \/ (ok /\ engine = "send"))

decode ==
  /\ rsp.pc = "decode"
  /\ decode_init \/ decode_leadin \/ decode_body \/ decode_crc
  /\ UNCHANGED <<gdb, wire, engine, core, access, answers>>

-----------------------------------------------------------------------------
(* What the packets do.                                                    *)

\* A message is sent, between lock() and unlock() or not.
Send(msg, locked) ==
  /\ out' = Append(out, msg)
  /\ rsp' = [rsp EXCEPT !.pc = "send", !.locked = locked]
  /\ overlap' = (overlap \/ engine = "send")

Silent == rsp' = [rsp EXCEPT !.pc = Returns] /\ UNCHANGED <<out, overlap>>

Locks == engine = "none"

query == Send("data", FALSE) /\ UNCHANGED <<core, access, answers>>

\* Mutant: GDB is told of a stop that is not made.
ctrlc_Runs ==
  /\ Locks
  /\ answers' = [answers EXCEPT !.crossed = @ \/ core.halted]
  /\ Send("stop", TRUE)
  /\ UNCHANGED <<core, access>>

ctrlc ==
  /\ Locks
  /\ core' = [core EXCEPT !.halted = TRUE]
  /\ answers' = [answers EXCEPT !.crossed = @ \/ core.halted]
  /\ Send("stop", TRUE)
  /\ UNCHANGED access

cont ==
  /\ Locks
  /\ core' = [core EXCEPT !.halted = FALSE]
  /\ Silent
  /\ UNCHANGED <<access, answers>>

stepi ==
  /\ Locks
  /\ core' = [halted |-> FALSE, step_mode |-> TRUE]
  /\ rsp' = [rsp EXCEPT !.pc = "stepped"]
  /\ UNCHANGED <<out, overlap, access, answers>>

\* The reply of vCont comes after unlock().
v_packet_done ==
  /\ rsp.pc = "stepped"
  /\ Send("OK", FALSE)
  /\ UNCHANGED <<gdb, wire, buffer, codec, decoded, engine, core, access, answers>>

Busy == access.pending

\* The memory answers at once, or refuses and the access is left pending.  It does not answer
\* later: that ends the simulation.
io_access ==
  \/ /\ Busy
     /\ answers' = [answers EXCEPT !.refused = TRUE]
     /\ Silent
     /\ UNCHANGED <<core, access>>
  \/ /\ ~Busy /\ Locks
     /\ access' = [pending |-> TRUE, event |-> TRUE]
     /\ Silent
     /\ UNCHANGED <<core, answers>>
  \/ /\ ~Busy /\ Locks
     /\ access' = [access EXCEPT !.pending = TRUE]
     /\ Send("written", TRUE)
     /\ UNCHANGED <<core, answers>>

\* A command that the server does not know, and a write that cannot be parsed.
Unanswerable(p) == p[1] = "m" \/ (p[1] = "X" /\ Len(p) = 1)

ignored == Silent /\ UNCHANGED <<core, access, answers>>

callback ==
  /\ rsp.pc = "handle"
  /\ LET p == Last(decoded)
     IN  \/ p[1] = "q" /\ query
         \/ p[1] = "X" /\ ~Unanswerable(p) /\ io_access
         \/ Unanswerable(p) /\ ignored
         \/ p[1] = "c" /\ cont
         \/ p[1] = "s" /\ stepi
         \/ p[1] = "^C" /\ ctrlc
  /\ UNCHANGED <<gdb, wire, buffer, codec, decoded, engine>>

Init ==
  /\ gdb = [waits |-> "nothing", packet |-> <<>>, acked |-> TRUE, packets |-> 0, resends |-> 0,
            interrupts |-> 0, sent |-> <<>>]
  /\ wire = <<>>
  /\ buffer = [buf |-> [i \in 0..(max_size - 1) |-> "-"], head |-> 0, tail |-> 0, full |-> FALSE]
  /\ codec = reset_state /\ decoded = <<>>
  /\ rsp = [pc |-> "recv", locked |-> FALSE] /\ engine = "none" /\ out = <<>>
  /\ core = [halted |-> TRUE, step_mode |-> FALSE]
  /\ access = [pending |-> FALSE, event |-> FALSE]
  /\ answers = [refused |-> FALSE, crossed |-> FALSE]
  /\ overlap = FALSE

\* Decoding works on what only the thread of the server has, up to its last step: nothing is
\* lost when the others move before or after it.
Next ==
  \/ decode \/ callback \/ v_packet_done \/ recv \/ recv_nothing \/ rsp_send
  \/ /\ rsp.pc # "decode"
     /\ \/ \E p \in Packets : GdbSends(p)
        \/ GdbResends \/ GdbInterrupts
        \/ StepEnds \/ handle \/ engine_send

\* Both threads run, and GDB may do nothing.
Fairness ==
  /\ WF_vars(recv \/ recv_nothing \/ decode \/ v_packet_done \/ rsp_send)
  /\ SF_vars(callback)
  /\ WF_vars(StepEnds \/ handle \/ engine_send)

Spec == Init /\ [][Next]_vars /\ Fairness
-----------------------------------------------------------------------------
(* What GDB can rely on.                                                   *)

\* The packets and Ctrl-Cs that are decoded are the ones that GDB sent, in their order and
\* unescaped, however the stream was cut by recv and by the end of the circular buffer; and
\* when everything was read, all of them were decoded (RspPacketCodec::decoder).
DecodedIsSent ==
  /\ IsPrefix(decoded, gdb.sent)
  /\ wire = <<>> /\ is_empty(buffer) /\ codec.state \in {"INIT", "LEADIN"} => decoded = gdb.sent

\* GDB takes the core for stopped only when it is, unless a packet was sent twice, a Ctrl-C
\* crossed a stop reply and so made another one, or the two threads sent at once
\* (Rsp::signal, gdbserver_stop, exec_instr_check_all).
StoppedIsHalted ==
  gdb.waits # "stop" =>
    core.halted \/ overlap \/ answers.crossed \/ Len(gdb.sent) > gdb.packets + gdb.interrupts

\* The two characters of a checksum are at both ends of the circular buffer: the decoder sees
\* one of them and waits for the other for ever, until there is no room and the server leaves.
ChecksumSplit ==
  rsp.pc = "left" \/ (codec.state = "CRC" /\ buffer.head = max_size - 1 /\ size(buffer) >= 2)

\* A query or a memory write is answered, unless the server cannot answer it (Unanswerable: it
\* sends no reply at all), its checksum is split, an earlier access failed or is still pending,
\* or the threads sent at once (Rsp::proxy_loop, Rsp::decode, Gdb_server::handle).
PacketAnswered ==
  (gdb.waits \in {"data", "written"} /\ ~Unanswerable(gdb.packet)) ~>
    (gdb.waits = "nothing" \/ ChecksumSplit \/ answers.refused \/ overlap)

\* The decoder has stopped after a packet that was received together with a Ctrl-C behind it.
LeftBehind ==
  /\ rsp.pc = "recv" /\ codec.state = "INIT"
  /\ \E i \in DOMAIN buffer.buf : buffer.buf[i] = "^C"

\* A Ctrl-C is answered by a stop reply.  The exceptions are that the decoder left it in the
\* buffer for good, since nothing else is received (LeftBehind), that the checksum of a packet
\* before it is split, so that the decoder hangs (ChecksumSplit), and that the two threads sent
\* at once (RspPacketCodec::decoder, Rsp::proxy_loop, Rsp::send).
InterruptAnswered ==
  (gdb.waits = "stop" /\ Last(gdb.sent) = <<"^C">>) ~>
    (gdb.waits # "stop" \/ ChecksumSplit \/ overlap \/ []LeftBehind)
=============================================================================
