------------------------------ MODULE RtClient ------------------------------
(***************************************************************************)
(* format_rt.c: a client of the RT protocol, which sends packets captured  *)
(* elsewhere over a TCP connection.  The client fills a large buffer with  *)
(* whatever the socket gives, shows the messages in place, and moves to a  *)
(* new buffer when more than half of it is used.  Buffers are kept by the  *)
(* buckets of Buckets until the last packet in them is finished.           *)
(*                                                                         *)
(* The bytes that the server sends have positions 1, 2, ...; a buffer is   *)
(* the sequence of positions in it, so that buf_write is its length.       *)
(***************************************************************************)
EXTENDS Integers, Sequences, SequencesExt, FiniteSets, FiniteSetsExt, Functions

CONSTANTS
  Configs,          \* records: messages, what each is [type, length]; style, how packets are
                    \* reused; reliable, filter; faults; restarts; and what Buckets needs
  RT_BUF_SIZE, RT_ACK_FREQUENCY,
  HDR,              \* sizeof(rt_header_t)
  Packets, SlotStep, NULL

VARIABLES
  conf,
  rt,               \* the trace and its format data
  mem,              \* what is in every buffer, by its bucket
  pk,               \* the program's packets
  call,             \* the read or event in progress
  out,              \* what the last call returned
  b, node, bpc, slot, load, held, given, failed, raced     \* the buckets

B == INSTANCE Buckets WITH setup <- conf, pc <- bpc, Setups <- Configs

bucket == <<b, node, bpc, slot, load, held, given, failed, raced>>
vars == <<conf, rt, mem, pk, call, out, bucket>>

-----------------------------------------------------------------------------
(* What the server sends                                                   *)

Messages == DOMAIN conf.messages
Size(m) == HDR + conf.messages[m].length
StartOf(m) == 1 + MapThenSumSet(Size, 1 .. m - 1)
EndOf(m) == StartOf(m) + Size(m) - 1
Total == MapThenSumSet(Size, Messages)
Type(m) == conf.messages[m].type
MessageAt(position) == CHOOSE m \in Messages : StartOf(m) = position

Data == {"erf", "pcap", "legacy"}               \* TRACE_RT_DATA_SIMPLE and above
Dummies == {"erf", "pcap", "duck"}              \* shown as packets of a dead trace
Control == {"end", "keychange"}

-----------------------------------------------------------------------------
Unread == [trace |-> NULL, id |-> 0, node |-> NULL, at |-> 0, message |-> 0]
Init ==
  /\ conf \in Configs
  /\ B!Init
  /\ rt = [state |-> "new", fd |-> FALSE, pkt_buffer |-> NULL, buf_read |-> 0, position |-> 1,
           unacked |-> 0, acked |-> 0, dummies |-> {}, err |-> NULL,
           delivered |-> 0, shown |-> 0, lost |-> {}, starts |-> 0]
  /\ mem = <<>>
  /\ pk = [p \in Packets |-> Unread]
  /\ call = NULL /\ out = [what |-> NULL, message |-> 0]

\* What the buffer holds and has not been shown.
Waiting == IF rt.pkt_buffer = NULL THEN <<>>
           ELSE SubSeq(mem[rt.pkt_buffer], rt.buf_read + 1, Len(mem[rt.pkt_buffer]))
\* Mutant: the byte after the message has to be there too.
Whole_More(w) == Len(w) >= HDR /\ Len(w) > Size(MessageAt(w[1]))
Whole(w) == Len(w) >= HDR /\ Len(w) >= Size(MessageAt(w[1]))
-----------------------------------------------------------------------------
(* Starting, pausing and destroying                                        *)

\* A message has come in part.
Partial == \A m \in Messages : rt.position # StartOf(m) /\ rt.position # Total + 1

\* rt_connect and the START message.  Whatever the server has not sent before a
\* pause it may have dropped since.  The buffer is kept: if it ends within a
\* message, the first one of the new connection runs into it, and what is read
\* from there on ("garbled") is no longer modelled.
Reconnect(from) ==
  [rt EXCEPT !.state = IF Partial THEN "garbled" ELSE "started", !.fd = TRUE, !.position = StartOf(from), !.unacked = 0, !.starts = @ + 1,
             !.lost = @ \cup {m \in Messages : rt.position <= StartOf(m) /\ m < from}]
rt_start_input ==
  /\ rt.state \in {"new", "paused"} /\ rt.err = NULL /\ rt.starts <= conf.restarts
  /\ \/ \E from \in {m \in Messages : StartOf(m) >= rt.position} :
          /\ rt.state = "new" => from = 1
          /\ rt' = Reconnect(from)
     \/ /\ "connect" \in conf.faults
        /\ rt' = [rt EXCEPT !.err = "INIT_FAILED", !.starts = @ + 1]
  /\ UNCHANGED <<conf, mem, pk, call, out, bucket>>

rt_pause_input ==
  /\ rt.state = "started" /\ call = NULL
  /\ rt' = [rt EXCEPT !.state = "paused", !.fd = FALSE]
  /\ UNCHANGED <<conf, mem, pk, call, out, bucket>>

\* The dead traces and the open bucket go; the program has finished its packets.
rt_fin_input ==
  /\ rt.state \in {"new", "paused"} /\ \A p \in Packets : pk[p].id = 0
  /\ rt' = [rt EXCEPT !.state = "destroyed", !.dummies = {}, !.pkt_buffer = NULL]
  /\ node' = Restrict(node, DOMAIN node \ {b.node}) /\ mem' = Restrict(mem, DOMAIN node \ {b.node})
  /\ b' = [b EXCEPT !.node = NULL, !.nodelist = SelectSeq(@, LAMBDA n : n # b.node)]
  /\ UNCHANGED <<conf, pk, call, out, bpc, slot, load, held, given, failed, raced>>

trace_get_err ==
  /\ rt.err # NULL /\ call = NULL
  /\ rt' = [rt EXCEPT !.err = NULL]
  /\ UNCHANGED <<conf, mem, pk, call, out, bucket>>

-----------------------------------------------------------------------------
(* Reading                                                                 *)

\* Mutant: the id is forgotten.
trace_fin_packet_Forgets(p) == UNCHANGED <<conf, mem, bucket>>
\* trace_fin_packet: the id goes back to the bucket, which may free buffers.
trace_fin_packet(p) ==
  IF pk[p].id = 0 THEN UNCHANGED <<conf, mem, bucket>>
  ELSE /\ B!ReleaseId([id |-> pk[p].id, node |-> pk[p].node])
       /\ mem' = Restrict(mem, DOMAIN node')

\* trace_read_packet finishes a packet only if it is of this very trace; one that
\* has been shown as a packet of a dead trace is not.
Ours(p) == pk[p].trace = "rt"
CallRead(p) ==
  /\ rt.state = "started" /\ rt.err = NULL /\ call = NULL
  /\ conf.style # "event" /\ (conf.style = "finish" => pk[p].id = 0)
  /\ IF Ours(p) THEN trace_fin_packet(p) ELSE UNCHANGED <<conf, mem, bucket>>
  /\ pk' = [pk EXCEPT ![p] = IF Ours(p) THEN [Unread EXCEPT !.trace = "rt"]
                                        ELSE [@ EXCEPT !.trace = "rt"]]
  /\ call' = [packet |-> p, block |-> TRUE, filter |-> FALSE]
  /\ UNCHANGED <<rt, out>>

\* trace_event finishes whatever the packet is.
CallEvent(p) ==
  /\ rt.state = "started" /\ call = NULL /\ conf.style = "event"
  /\ trace_fin_packet(p)
  /\ pk' = [pk EXCEPT ![p] = [Unread EXCEPT !.trace = "rt"]]
  /\ call' = [packet |-> p, block |-> FALSE, filter |-> FALSE]
  /\ UNCHANGED <<rt, out>>

\* Mutant: a buffer is used to its end.
Full_Never(length) == FALSE
\* Plenty of space is left in half of a buffer.
Full(length) == length > RT_BUF_SIZE \div 2
\* Mutant: the copy leaves out the last byte.
Moved_Short == SubSeq(Waiting, 1, Len(Waiting) - 1)
\* What is moved to a new buffer.
Moved == Waiting

\* rt_read receives n bytes, none if it is interrupted or there are none: first
\* it sees to it that there is a buffer with plenty of space.
NewBuffer == rt.pkt_buffer = NULL \/ Full(Len(mem[rt.pkt_buffer]))
Room == RT_BUF_SIZE - (IF NewBuffer THEN Len(Moved) ELSE Len(mem[rt.pkt_buffer]))
rt_read(n, err) ==
  LET bytes == [i \in 1 .. n |-> rt.position + i - 1]
      got == [rt EXCEPT !.position = @ + n, !.err = err]
  IN /\ call # NULL /\ ~call.filter /\ ~Whole(Waiting)
     /\ IF NewBuffer
        THEN /\ B!libtrace_create_new_bucket
             /\ rt' = [got EXCEPT !.pkt_buffer = b'.node, !.buf_read = 0]
             /\ mem' = [x \in DOMAIN node' |-> IF x = b'.node THEN Moved \o bytes ELSE mem[x]]
        ELSE /\ rt' = got
             /\ mem' = [mem EXCEPT ![rt.pkt_buffer] = @ \o bytes]
             /\ UNCHANGED <<conf, bucket>>

Arrives ==
  /\ \E n \in 1 .. Min({Room, Total - rt.position + 1}) : rt_read(n, rt.err)
  /\ UNCHANGED <<pk, call, out>>
Interrupted ==
  /\ "eintr" \in conf.faults /\ rt_read(0, rt.err)
  /\ UNCHANGED <<pk, call, out>>

Result(what, m) == out' = [what |-> what, message |-> m]
\* Nothing there: EAGAIN, which an event turns into a wait.
WouldBlock ==
  /\ call # NULL /\ ~call.block
  /\ rt_read(0, NULL)
  /\ Result("IOWAIT", 0) /\ call' = NULL
  /\ UNCHANGED pk
\* The server has closed the connection.  An event shows the error as a packet.
Closed ==
  /\ rt.position > Total \/ Room = 0
  /\ call # NULL /\ rt_read(0, IF call.block THEN "RT_FAILURE" ELSE NULL)
  /\ Result("error", 0) /\ call' = NULL
  /\ UNCHANGED pk

-----------------------------------------------------------------------------
(* A whole message                                                         *)

\* Mutant: what is counted is kept when an acknowledgement is sent.
rt_send_ack_KeepsCount(r, m) == {[rt |-> [r EXCEPT !.acked = m], ok |-> TRUE]}
\* The acknowledgement is sent; or send fails; or it is sent in two parts, and the
\* second is not taken from where the first ended: the server gets something else.
rt_send_ack(r, m) ==
  {[rt |-> [r EXCEPT !.acked = m, !.unacked = 0], ok |-> TRUE]} \cup
  (IF "ack" \in conf.faults
   THEN {[rt |-> [r EXCEPT !.err = "RT_FAILURE"], ok |-> FALSE],
         [rt |-> [r EXCEPT !.unacked = 0], ok |-> TRUE]}
   ELSE {})
\* The steps of rt_process_data_packet, with what they return.
Acknowledge(r, m) ==
  LET counted == [r EXCEPT !.unacked = @ + 1]
  IN IF ~conf.reliable \/ Type(m) \notin Data THEN {[rt |-> r, ok |-> TRUE]}
     ELSE IF counted.unacked < RT_ACK_FREQUENCY THEN {[rt |-> counted, ok |-> TRUE]}
     ELSE rt_send_ack(counted, m)
rt_set_format(r, m) ==
  CASE Type(m) \in Dummies -> [rt |-> [r EXCEPT !.dummies = @ \cup {Type(m)}], trace |-> Type(m), ok |-> TRUE]
    [] Type(m) = "legacy" -> [rt |-> [r EXCEPT !.err = "BAD_PACKET"], trace |-> "rt", ok |-> FALSE]
    [] OTHER -> [rt |-> r, trace |-> "rt", ok |-> TRUE]
rt_process_data_packet(r, m) ==
  {IF a.ok THEN rt_set_format(a.rt, m) ELSE [rt |-> a.rt, trace |-> "rt", ok |-> FALSE] : a \in Acknowledge(r, m)}

\* Mutants: the pointer stays; the header is counted twice.
Step_None(m) == 0
Step_Twice(m) == 2 * HDR + conf.messages[m].length
\* How far buf_read moves.
Step(m) == HDR + conf.messages[m].length

\* What the caller makes of rt_get_next_packet: a data message is returned
\* whatever became of it, and an unknown one never.
Answer(m, ok) ==
  CASE Type(m) = "unknown" \/ (~ok /\ Type(m) \notin Data) -> "error"
    [] conf.messages[m].length > 0 -> "packet"
    [] call.block -> "EOF"
    [] OTHER -> IF Type(m) = "end" THEN "TERMINATE" ELSE "packet"

rt_get_next_packet ==
  /\ call # NULL /\ ~call.filter /\ Whole(Waiting)
  /\ B!libtrace_push_into_bucket
  /\ UNCHANGED mem
  /\ LET m == MessageAt(Waiting[1])
         p == call.packet
         read == [rt EXCEPT !.buf_read = @ + Step(m), !.delivered = m, !.shown = @ + 1]
         processed == IF Type(m) \in Control \cup {"unknown"}
                      THEN {[rt |-> read, trace |-> "rt", ok |-> TRUE]}
                      ELSE rt_process_data_packet(read, m)
     IN \E x \in processed : LET answer == Answer(m, x.ok) IN
          /\ rt' = x.rt
          /\ pk' = [pk EXCEPT ![p] = [trace |-> x.trace, id |-> B!Wrapped(b.nextid), node |-> b.node,
                                      at |-> rt.buf_read, message |-> m]]
          /\ IF answer = "packet" /\ conf.filter
             THEN call' = [call EXCEPT !.filter = TRUE] /\ UNCHANGED out
             ELSE call' = NULL /\ Result(answer, m)

\* The filter.  What it refuses trace_read_packet finishes, and an event does not.
Accept ==
  /\ call # NULL /\ call.filter
  /\ Result("packet", rt.delivered) /\ call' = NULL
  /\ UNCHANGED <<conf, rt, mem, pk, bucket>>
Refuse ==
  /\ call # NULL /\ call.filter
  /\ call' = [call EXCEPT !.filter = FALSE]
  /\ IF call.block
     THEN /\ trace_fin_packet(call.packet)
          /\ pk' = [pk EXCEPT ![call.packet] = [Unread EXCEPT !.trace = "rt"]]
     ELSE UNCHANGED <<conf, mem, pk, bucket>>
  /\ UNCHANGED <<rt, out>>

\* The program, or another thread of it, is done with a packet.
Finish(p) ==
  /\ pk[p].id # 0 /\ (call # NULL => call.packet # p)
  /\ trace_fin_packet(p)
  /\ pk' = [pk EXCEPT ![p] = Unread]
  /\ UNCHANGED <<rt, call, out>>

Next ==
  \/ rt_start_input \/ rt_pause_input \/ rt_fin_input \/ trace_get_err
  \/ \E p \in Packets : CallRead(p) \/ CallEvent(p) \/ Finish(p)
  \/ Arrives \/ Interrupted \/ WouldBlock \/ Closed
  \/ rt_get_next_packet \/ Accept \/ Refuse
Spec == Init /\ [][Next]_vars
\* The server sends, also between events that find nothing; the reader goes on; and
\* the program reads and finishes packets.
FairSpec ==
  /\ Spec
  /\ SF_vars(Arrives) /\ WF_vars(Closed) /\ WF_vars(rt_get_next_packet) /\ WF_vars(Accept)
  /\ WF_vars(rt_start_input) /\ WF_vars(trace_get_err)
  /\ \A p \in Packets : WF_vars(CallRead(p)) /\ WF_vars(Finish(p)) /\ WF_vars(CallEvent(p))

-----------------------------------------------------------------------------
(* Properties                                                              *)

TypeOK ==
  /\ rt.state \in {"new", "started", "paused", "garbled", "destroyed"}
  /\ rt.fd <=> rt.state \in {"started", "garbled"}
  /\ rt.unacked \in 0 .. Len(conf.messages) /\ rt.position \in 1 .. Total + 1
  /\ rt.pkt_buffer = b.node /\ DOMAIN mem = DOMAIN node
  /\ \A n \in DOMAIN mem : Len(mem[n]) <= RT_BUF_SIZE
  /\ rt.pkt_buffer # NULL => rt.buf_read \in 0 .. Len(mem[rt.pkt_buffer])

\* What waits in the buffer starts with the header of a message and goes on
\* without a gap to the last byte received, however the stream was cut into
\* receives and however often the buffer was moved (rt_read), until a trace that
\* was paused within a message is started again.
FramingKept ==
  LET w == Waiting IN
  w # <<>> /\ rt.state # "garbled" =>
    /\ \E m \in Messages : w[1] = StartOf(m)
    /\ \A i \in 1 .. Len(w) - 1 :
         \/ w[i + 1] = w[i] + 1
         \/ \E m, n \in Messages : w[i] = EndOf(m) /\ w[i + 1] = StartOf(n) /\ n \notin rt.lost
    /\ rt.state = "started" /\ Last(w) # rt.position - 1 =>
         \E m, n \in Messages : Last(w) = EndOf(m) /\ rt.position = StartOf(n)

\* A receive is never asked for no bytes, which would look like the end of the
\* connection: the space in a buffer is enough for the longest message.
RoomToReceive == call # NULL /\ ~call.filter /\ ~Whole(Waiting) => Room > 0

\* Every message that comes is shown, once and in order.
ShownOnce == rt.shown = Cardinality((1 .. rt.delivered) \ rt.lost)

\* A packet that is not finished shows its message: its buffer is allocated and
\* has the bytes, whichever buffers other packets have given up.
HeldIntact ==
  \A p \in Packets : pk[p].id # 0 /\ rt.state # "destroyed" =>
    /\ pk[p].node \in DOMAIN mem
    /\ \A i \in 1 .. Size(pk[p].message) :
         mem[pk[p].node][pk[p].at + i] = StartOf(pk[p].message) + i - 1

\* A server that wants acknowledgements hears of one message in RT_ACK_FREQUENCY:
\* fewer are unacknowledged, unless sending failed.
AcksSent ==
  conf.reliable /\ "ack" \notin conf.faults /\ rt.starts = 1 =>
    LET since == {m \in rt.acked + 1 .. rt.delivered : Type(m) \in Data}
    IN Cardinality(since) = rt.unacked /\ rt.unacked < RT_ACK_FREQUENCY

\* An event asks the program to wait only when no whole message is in the
\* buffer: the descriptor it waits on would not become ready for it.
WaitsForMore ==
  call = NULL /\ out.what = "IOWAIT" /\ rt.state = "started" =>
    \A m \in Messages : m > rt.delivered => m \in rt.lost \/ rt.position <= EndOf(m)

\* The ids in use are those of the program's packets.
IdsOf == {[id |-> pk[p].id, node |-> pk[p].node] : p \in {q \in Packets : pk[q].id # 0}}
\* A program that finishes its packets, or that uses events without a filter,
\* leaves no id in use that no packet has, so that its buffers are freed.
IdsReturned == conf.style = "finish" \/ (conf.style = "event" /\ ~conf.filter) => held = IdsOf
\* "Finalise the packet, freeing any resources the format module may have
\* allocated it" (trace_read_packet): no id is in use that no packet has.
ReadFinishes == held \subseteq IdsOf

\* A program that keeps on reading until it is done gets to see every message.
AllShown ==
  conf.faults = {} => <>(rt.delivered = Len(conf.messages) \/ rt.state \in {"paused", "garbled", "destroyed"})

\* The buffer always holds the rest of the stream from the start of a message, has room
\* for the message to become whole, and no one waits for more when one is.
StreamKept == TypeOK /\ FramingKept /\ RoomToReceive /\ WaitsForMore

\* Messages are shown once each, and acknowledged in step with it.
MessagesCounted == ShownOnce /\ AcksSent

\* A packet keeps its bytes until it is finished, and its id no longer.
PacketsKept == HeldIntact /\ IdsReturned
=============================================================================
