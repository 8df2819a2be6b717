---------------------------- MODULE FormatLinux ----------------------------
(* format_linux_common.c, format_linux_int.c and format_linux_ring.c: a     *)
(* packet socket for each thread, read with recvmsg ("int") or through a    *)
(* ring of frames shared with the kernel ("ring").  A stream is             *)
(* [fd, ring, off], and for the kernel [q, slots, head, packets, drops]:    *)
(* q waits in the socket, slots[j] is the frame that slot j holds for the   *)
(* user, or 0, and the counters are the socket's.                           *)
EXTENDS TraceBase

linuxnative == {"probe_filename", "init_input", "config_input", "start_input", "pause_input",
                "init_output", "start_output", "fin_input", "fin_output", "read_packet",
                "prepare_packet", "write_packet", "get_link_type", "get_direction",
                "set_direction", "get_timeval", "get_timespec", "get_capture_length",
                "get_wire_length", "get_framing_length", "set_capture_length",
                "get_statistics", "get_fd", "trace_event", "pstart_input", "pread_packets",
                "pause_input", "fin_input", "pregister_thread"}
linuxring == linuxnative \cup {"fin_packet"}

ZERO_LINUX_STREAM == [fd |-> FALSE, ring |-> FALSE, off |-> 1]
NoSocket == [q |-> <<>>, slots |-> <<>>, head |-> 1, packets |-> 0, drops |-> 0]
MAX_ORDER == 11
CONF_RING_FRAMES == 256

linuxcommon_init_input(s) ==
  Return([Acquire(Acquire(s, "format_data"), "per_stream") EXCEPT
            !.st = <<ZERO_LINUX_STREAM>>,
            !.data = [promisc |-> -1, snaplen |-> BUFSIZE, filter |-> NULL, valid |-> FALSE,
                      packets |-> 0, drops |-> 0, max_order |-> MAX_ORDER, fanout |-> "LB",
                      base |-> NULL, missed |-> 0]], 0)

\* flag says that the filter is compiled.  An interface that cannot be asked for its type
\* leaves the copy of the filter and the socket behind.
linuxnative_configure_bpf(s, filter) ==
  LET kept == IF s.data.filter = NULL THEN Acquire(s, "filter") ELSE s
  IN (IF "hwaddr" \in s.faults /\ ~filter.flag THEN Return(Slip(Misuse(s, "leaked filter"), "hwaddr"), -1) ELSE {})
     \cup (IF filter.flag \/ filter.good THEN Return([kept EXCEPT !.data.filter = [flag |-> TRUE]], 0)
           ELSE Return(trace_set_err([kept EXCEPT !.data.filter = [flag |-> FALSE]], "INIT_FAILED"), 0))

linuxcommon_config_input(s, option, value) ==
  CASE option = "SNAPLEN" -> Return([s EXCEPT !.data.snaplen = value], 0)
    [] option = "PROMISC" -> Return([s EXCEPT !.data.promisc = value], 0)
    [] option = "FILTER" -> linuxnative_configure_bpf(s, value)
    [] option = "HASHER" /\ value = "BALANCE" -> Return([s EXCEPT !.data.fanout = "LB"], 0)
    [] option = "HASHER" /\ value \in {"BIDIRECTIONAL", "UNIDIRECTIONAL"} ->
         Return([s EXCEPT !.data.fanout = "HASH"], 0)
    [] OTHER -> Return(s, -1)

(* ---- starting and stopping ---- *)
close_input_stream_AlsoRing(s, i) ==
  [Release(Release(s, Nth("socket", i)), Nth("ring", i)) EXCEPT
     !.st[i] = ZERO_LINUX_STREAM, !.k[i] = NoSocket, !.data.base = NULL]
linuxcommon_close_input_stream(s, i) ==
  LET a == IF s.st[i].fd THEN Release(s, Nth("socket", i)) ELSE s
      b == IF s.st[i].ring THEN Release(a, Nth("ring", i)) ELSE a
  IN [b EXCEPT !.st[i] = ZERO_LINUX_STREAM, !.k[i] = NoSocket, !.data.base = NULL]

\* /proc/net/dev: the counters of the interface, if it is found.
linuxcommon_get_dev_statistics(s) ==
  {[rx |-> s.rx, miss |-> s.miss.drops]} \cup (IF "proc" \in s.faults THEN {NULL} ELSE {})

\* Until the filter is in place the socket takes frames, s.early at most; they are read and
\* thrown away, and taken off what the socket will say it received.
Drain(s, i, count, base) ==
  [s EXCEPT !.k[i].packets = count, !.data.valid = TRUE, !.data.packets = -count,
            !.data.drops = 0, !.data.base = base]
linuxcommon_start_input_stream(s, i) ==
  LET opened == [Acquire(s, Nth("socket", i)) EXCEPT
                   !.st[i].fd = TRUE, !.k[i] = NoSocket,
                   !.data.promisc = IF @ = -1 THEN 1 ELSE @]
      Closing(e) == Fail(linuxcommon_close_input_stream(opened, i), e)
  IN (IF "socket" \in s.faults THEN Fail([s EXCEPT !.st[i].fd = FALSE], "errno") ELSE {}) \cup
     (IF "bind" \in s.faults THEN Closing("INIT_FAILED") \cup Closing("errno") ELSE {}) \cup
     (IF s.data.filter # NULL /\ ~s.data.filter.flag THEN Closing("BAD_FILTER")
      ELSE {Out(Drain(opened, i, count, base), 0) :
              count \in 0..s.early, base \in linuxcommon_get_dev_statistics(s)})

\* The sizes of a ring: the least frame that holds a packet of the interface and its header,
\* the largest block of at most max_order pages that is not twice what CONF_RING_FRAMES need.
Powers(n, most) == {n * 2^j : j \in 0..most}
MaxFrame_NoHeader(mtu) == MinOf(mtu, BUFSIZE)
MaxFrame(mtu) == MinOf(mtu + 64, BUFSIZE)
calculate_buffers(pagesize, mtu, max_order) ==
  LET frame == Min({f \in Powers(pagesize, 16) : f >= MaxFrame(mtu)})
      want == CONF_RING_FRAMES * frame
      block == Max({b \in Powers(pagesize, max_order) : b < 2 * want})
      nr == want \div block + (IF want % block # 0 THEN 1 ELSE 0)
  IN [frame_size |-> frame, block_size |-> block, block_nr |-> nr,
      frame_nr |-> nr * (block \div frame)]
BuffersAssert(req) ==
  req.frame_nr > 0 /\ req.block_nr > 0 /\ req.block_size % req.frame_size = 0

\* The kernel has no memory for blocks of more than s.order pages: the order is lowered until
\* it has.  The number of slots is a bound of the model.
socket_to_packetmmap(s, lim) ==
  (IF "tpacket" \in s.faults THEN {[ok |-> FALSE, order |-> lim]} ELSE {}) \cup
  (IF s.order = 0 THEN {[ok |-> FALSE, order |-> 0]}
   ELSE {[ok |-> TRUE, order |-> MinOf(lim, s.order)]})
linuxring_start_input_stream(s0, i) ==
  Then(linuxcommon_start_input_stream(s0, i), LAMBDA o :
    IF o.ret < 0 THEN {o}
    ELSE UNION {LET s == [o.s EXCEPT !.data.max_order = m.order]
                IN IF m.ok
                   THEN Return([Acquire(s, Nth("ring", i)) EXCEPT
                                  !.st[i].ring = TRUE, !.k[i].slots = [j \in 1..s.frame_nr |-> 0]], 0)
                   ELSE Return(linuxcommon_close_input_stream(trace_set_err(s, "INIT_FAILED"), i), -1)
                : m \in socket_to_packetmmap(o.s, o.s.data.max_order)})

start_stream(s, i) ==
  IF s.fmt = "ring" THEN linuxring_start_input_stream(s, i) ELSE linuxcommon_start_input_stream(s, i)
linux_start_input(s) == start_stream(s, 1)

linuxcommon_to_packet_fanout(s) ==
  Return(s, 0) \cup (IF "fanout" \in s.faults THEN Fail(s, "INIT_FAILED") ELSE {})
\* Streams i, i+1, ... up to one for each thread.  A stream that cannot join the group
\* has its socket closed, and its ring is left.
RECURSIVE CloseDown(_, _)
CloseDown(s, i) == IF i = 0 THEN s ELSE CloseDown(linuxcommon_close_input_stream(s, i), i - 1)
RECURSIVE StartFrom(_, _)
StartFrom(s0, i) ==
  LET s == IF Len(s0.st) < i THEN [s0 EXCEPT !.st = Append(@, ZERO_LINUX_STREAM)] ELSE s0
  IN IF i > s0.want THEN Return(s0, 0)
     ELSE Then(start_stream(s, i), LAMBDA o :
            IF o.ret # 0 THEN Return(CloseDown(o.s, i - 1), -1)
            ELSE Then(linuxcommon_to_packet_fanout(o.s), LAMBDA f :
                   IF f.ret = 0 THEN StartFrom(f.s, i + 1)
                   ELSE Return(CloseDown([Release(Slip(f.s, "fanout"), Nth("socket", i))
                                            EXCEPT !.st[i].fd = FALSE], i - 1), -1)))
linuxcommon_pstart_input(s) == StartFrom(s, 1)

linuxcommon_pause_input(s) == Return(CloseDown(s, Len(s.st)), 0)
linuxcommon_fin_input_KeepsFilter(s) ==
  [Release(Release(s, "per_stream"), "format_data") EXCEPT !.data = NULL]
linuxcommon_fin_input(s) ==
  LET a == IF s.data.filter # NULL THEN Release(s, "filter") ELSE s
  IN [Release(Release(a, "per_stream"), "format_data") EXCEPT !.data = NULL]

linuxcommon_pregister_thread(s, t, reading) ==
  CASE ~reading -> Return(s, 0)
    [] reading /\ t <= Len(s.st) -> Return([s EXCEPT !.reg[t] = t], 0)
    [] OTHER -> Return(Misuse(s, "list index out of range"), -1)

(* ---- the kernel ---- *)
\* A frame for stream i, which the filter takes, finds room or is dropped.
Slot(s, i) == s.k[i].slots[s.k[i].head]
NextSlot(s, j) == (j % s.frame_nr) + 1
linux_arrive(s, i, n) ==
  LET counted == [s EXCEPT !.k[i].packets = @ + 1]
      dropped == [counted EXCEPT !.k[i].drops = @ + 1]
  IN CASE s.st[i].ring ->
            IF Slot(s, i) = 0
            THEN [counted EXCEPT !.k[i].slots[s.k[i].head] = n, !.k[i].head = NextSlot(s, @)]
            ELSE dropped
       [] OTHER -> IF Len(s.k[i].q) < s.frame_nr THEN [counted EXCEPT !.k[i].q = Append(@, n)]
                   ELSE dropped

(* ---- reading ---- *)
Snap(s, n, header) == MinOf(MinOf(BUFSIZE - header, s.data.snaplen), FrameLength(n))
LinuxHeader(s, n, header) == [n |-> n, caplen |-> Snap(s, n, header), len |-> FrameLength(n)]

linuxnative_read_stream(s0, p, i, t) ==
  LET s == OwnBuffer(s0, p)
      n == Head(s.k[i].q)
  IN IF s.k[i].q = <<>> THEN Idle(s, t)
     ELSE Return([TakeBuffer(s, p, s.pk[p].buffer, "packet") EXCEPT
                    !.pk[p].trace = "in", !.pk[p].hdr = LinuxHeader(s, n, 72), !.pk[p].payload = n,
                    !.k[i].q = Tail(@)], FrameLength(n) + 72)

\* The frame that packet p shows is given back, wherever it is.
ring_release_frame(s, p) ==
  CASE s.pk[p].ctrl = "packet" /\ s.pk[p].buffer # NULL ->
         [Release(s, s.pk[p].buffer) EXCEPT !.pk[p].buffer = NULL]
    [] s.pk[p].ctrl = "external" /\ s.pk[p].slot # NULL ->
         LET i == s.pk[p].slot[1] j == s.pk[p].slot[2]
             own == s.st[i].ring /\ s.k[i].slots[j] = s.pk[p].hdr.n
         IN [(IF own THEN s ELSE Misuse(s, "released a frame of another packet"))
               EXCEPT !.k[i].slots[j] = 0, !.pk[p].slot = NULL, !.pk[p].buffer = NULL]
    [] OTHER -> s
\* A slot that the program has not given back looks like one that has been filled: a
\* reader that comes around to it shows its frame again.
Lapped(s, i, j) == \E q \in DOMAIN s.pk : s.pk[q].slot = <<i, j>>
NextRx_Runs(s, j) == j + 1
NextRx(s, j) == (j % s.frame_nr) + 1
linuxring_read_stream(s0, p, i, t) ==
  LET s == [ring_release_frame(s0, p) EXCEPT !.pk[p].ctrl = "external"]
      j == s.st[i].off
      n == s.k[i].slots[j]
  IN IF n = 0 THEN Idle(s, t)
     ELSE Return([Lend(IF Lapped(s, i, j) THEN Slip(s, "lapped") ELSE s, p, "ring", LinuxHeader(s, n, 32)) EXCEPT
                    !.pk[p].trace = "in", !.pk[p].slot = <<i, j>>, !.st[i].off = NextRx(s, @)],
                 Snap(s, n, 32) + 66)
linux_read_stream(s, p, i, t) ==
  IF s.fmt = "ring" THEN linuxring_read_stream(s, p, i, t) ELSE linuxnative_read_stream(s, p, i, t)

\* A frame of a ring that is no longer there is forgotten; the assertion compares a pointer,
\* which is never NULL, with started.
linuxring_fin_packet(s, p) ==
  IF s.pk[p].ctrl # "external" \/ s.pk[p].slot = NULL THEN s
  ELSE LET t == IF s.started THEN s ELSE Misuse(s, "assert rx_ring == started")
       IN IF s.st[1].ring THEN ring_release_frame(t, p)
          ELSE [t EXCEPT !.pk[p].slot = NULL, !.pk[p].buffer = NULL]

linuxring_event(s0, p) ==
  LET s == ring_release_frame(s0, p)
  IN IF s.k[1].slots[s.st[1].off] = 0 THEN Return(s, "IOWAIT")
     ELSE {Out(o.s, "PACKET") : o \in linuxring_read_stream(s, p, 1, NULL)}

\* The interface said ETHER: the four bytes of checksum are not in the capture.
linux_get_capture_length(hdr) == hdr.caplen
linux_get_wire_length(hdr) == hdr.len + 4
linux_set_capture_length_Stale(s, p, size) ==
  IF size > s.pk[p].hdr.caplen THEN s ELSE [s EXCEPT !.pk[p].hdr.caplen = size]
linux_set_capture_length(s, p, size) ==
  IF size > s.pk[p].hdr.caplen THEN s
  ELSE [s EXCEPT !.pk[p].cap = -1, !.pk[p].hdr.caplen = size]

(* ---- statistics ---- *)
update_socket_statistics_Overwrites(s) ==
  [s EXCEPT !.data.packets = s.k[1].packets, !.data.drops = s.k[1].drops,
            !.k = [i \in DOMAIN s.k |-> [s.k[i] EXCEPT !.packets = 0, !.drops = 0]]]
\* Reading a socket's counters resets them.
linuxcommon_update_socket_statistics(s) ==
  LET open == {i \in 1..Len(s.st) : s.st[i].fd}
  IN [s EXCEPT !.data.packets = @ + MapThenSumSet(LAMBDA i : s.k[i].packets, open),
               !.data.drops = @ + MapThenSumSet(LAMBDA i : s.k[i].drops, open),
               !.k = [i \in DOMAIN s.k |-> [s.k[i] EXCEPT !.packets = 0, !.drops = 0]]]
\* A number of filtered packets below zero, which timing may give, is not reported.
NoStatistics == [filtered |-> 0, dropped |-> NULL, received |-> NULL, captured |-> NULL]
Statistics(s, dev) ==
  LET rx == dev.rx - s.data.base.rx
      dropped == dev.miss - s.data.base.miss
      filtered == rx - s.data.packets
  IN IF dev = NULL THEN [NoStatistics EXCEPT !.dropped = s.data.drops]
     ELSE [filtered |-> IF s.data.filter # NULL /\ filtered >= 0 THEN filtered ELSE 0,
           dropped |-> s.data.drops + dropped,
           received |-> rx + dropped, captured |-> rx - s.data.drops]
linuxcommon_get_statistics(s0) ==
  IF s0.data = NULL THEN Return(s0, NoStatistics)
  ELSE IF ~s0.st[1].fd THEN Return(s0, NoStatistics)
  ELSE LET s == linuxcommon_update_socket_statistics(s0)
       IN {Out(s, Statistics(s, dev)) :
             dev \in IF s.data.base = NULL THEN {NULL} ELSE linuxcommon_get_dev_statistics(s)}

(* ---- writing: s.o is [err, fd, ring, slots, off, tail, queue, sent] ---- *)
TX_MAX_QUEUE == 2             \* 10 in the code
linuxcommon_init_output(s) ==
  Return([Acquire(s, "out_data") EXCEPT !.o.fd = FALSE, !.o.off = 1, !.o.tail = 1, !.o.queue = 0], 0)
\* A socket or a ring that cannot be had frees the data, which fin_output uses.
linux_start_output(s) ==
  LET opened == [Acquire(s, "out socket") EXCEPT !.o.fd = TRUE]
      freed == Slip(Release(s, "out_data"), "out start")
  IN (IF "socket" \in s.faults THEN FailOut(freed, "errno") ELSE {}) \cup
     (IF s.fmt = "int" THEN Return(opened, 0)
      ELSE UNION {IF m.ok THEN Return([Acquire(opened, "out ring") EXCEPT
                                         !.o.slots = [j \in 1..s.frame_nr |-> 0], !.o.queue = 0], 0)
                  ELSE FailOut(freed, "INIT_FAILED") : m \in socket_to_packetmmap(s, MAX_ORDER)})
\* The kernel sends what the slots from its own position on ask for: all, or some when the
\* caller does not wait.
RECURSIVE Send(_, _)
Send(s, most) ==
  LET n == s.o.slots[s.o.tail]
  IN IF most = 0 \/ n = 0 THEN s
     ELSE Send([s EXCEPT !.o.slots[s.o.tail] = 0, !.o.tail = NextSlot(s, @), !.o.sent = Append(@, n)], most - 1)
\* A ring that is full is waited for, which may fail.  A frame that has its slot is sent by
\* this call, by a later one or by fin_output, also when the call returns -1.
linuxring_write_packet(s0, n) ==
  LET busy == s0.o.slots[s0.o.off] # 0
      Asked(s) == [s EXCEPT !.o.slots[s.o.off] = n, !.o.off = NextSlot(s, @),
                            !.o.queue = (@ + 1) % TX_MAX_QUEUE]
      Notify(s) == IF s.o.queue # 0 THEN Return(s, FrameLength(n))
                   ELSE {Out(Send(s, most), FrameLength(n)) : most \in 0..s.frame_nr} \cup
                        (IF "send" \in s.faults THEN FailOut(s, "errno") ELSE {})
  IN IF n = NONDATA THEN Return(s0, 0)
     ELSE (IF busy /\ "poll" \in s0.faults THEN Return(s0, -1) ELSE {}) \cup
          (IF busy /\ "send" \in s0.faults THEN FailOut(s0, "errno") ELSE {}) \cup
          UNION {Notify(Asked(s)) : s \in IF busy THEN {Send(s0, most) : most \in 1..s0.frame_nr} ELSE {s0}}
linuxnative_write_packet(s, n) ==
  IF n = NONDATA THEN Return(s, 0)
  ELSE Return([s EXCEPT !.o.sent = Append(@, n)], FrameLength(n)) \cup
       (IF "write" \in s.faults THEN FailOut(s, "errno") ELSE {})
\* The data is gone after a start that failed, and nothing is said of what follows its use.
\* Whether the last frames could be sent is not looked at.
linuxring_fin_output(s) ==
  IF ~s.o.fd THEN {Uses(s, "out_data")}
  ELSE {Release(Release(Release(t, "out ring"), "out socket"), "out_data") :
          t \in {Send(s, s.frame_nr)} \cup (IF "send" \in s.faults THEN {s} ELSE {})}
linuxnative_fin_output(s) ==
  IF ~s.o.fd THEN {Uses(s, "out_data")} ELSE {Release(Release(s, "out socket"), "out_data")}
=============================================================================
