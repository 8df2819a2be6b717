----------------------------- MODULE FormatDag -----------------------------
(* format_dag25.c: a DAG card writes records into a memory hole for each    *)
(* stream and the program reads them there.  Positions count records and    *)
(* never wrap: the card has written those up to k.head and may write over   *)
(* those below k.released, which dag_advance_stream moves.  A stream is     *)
(* [top, bottom, processed, drops, seen]; the card is [attached, recs,      *)
(* released], and dag is the entry of open_dags: its reference count.       *)
EXTENDS TraceBase

dag == {"probe_filename", "init_input", "config_input", "start_input", "pause_input",
        "init_output", "start_output", "fin_input", "fin_output", "read_packet",
        "prepare_packet", "write_packet", "get_statistics", "trace_event", "pstart_input",
        "pread_packets", "ppause_input", "pregister_thread", "get_thread_statistics"}

MaxProcessed == 2             \* 4 MB in the code
Detached == [attached |-> FALSE, recs |-> <<>>, released |-> 0]
EmptyStream == [top |-> 0, bottom |-> 0, processed |-> 0, drops |-> 0, seen |-> FALSE]

(* ---- the device list, under open_dag_mutex ---- *)
dag_find_open_device(s) == [s EXCEPT !.dag = @ + 1]
dag_open_device(s) == [Acquire(s, "dag device") EXCEPT !.dag = 1]
dag_close_device(s) == Release(s, "dag device")
\* The device is found or opened; NULL is an outcome of opening only.
Device(s) ==
  IF s.dag > 0 THEN {[ok |-> TRUE, s |-> dag_find_open_device(s)]}
  ELSE {[ok |-> TRUE, s |-> dag_open_device(s)]} \cup
       (IF "open" \in s.faults THEN {[ok |-> FALSE, s |-> s]} ELSE {})
Unref(s) ==
  LET t == [s EXCEPT !.dag = @ - 1] IN IF t.dag = 0 THEN dag_close_device(t) ELSE t

dag_init_format_data(s) ==
  [Acquire(Acquire(s, "format_data"), "per_stream") EXCEPT
     !.st = <<EmptyStream>>,
     !.data = [duck_freq |-> 0, last_duck |-> 0, last_pkt |-> 0, dummy |-> FALSE, device |-> FALSE,
               attached |-> FALSE, filter |-> NULL]]
dag_init_input(s) ==
  UNION {IF d.ok THEN Return([d.s EXCEPT !.data.device = TRUE], 0) ELSE Fail(Slip(d.s, "dag open"), "errno") :
           d \in Device(dag_init_format_data(s))}

dag_config_input(s, option, value) ==
  CASE option = "META_FREQ" -> Return([s EXCEPT !.data.duck_freq = value], 0)
    [] option = "SNAPLEN" -> Return(s, 0) \cup (IF "snaplen" \in s.faults THEN Fail(s, "errno") ELSE {})
    [] option = "HASHER" -> Return(s, 0)
    [] OTHER -> Return(s, -1)

(* ---- streams ---- *)
\* dag_advance_stream: the card may reuse what is below bottom, and says how far it has come;
\* or it fails, and the top is not known.
UNKNOWN_TOP == -1
dag_advance_stream(s, i) ==
  IF ~s.k[i].attached THEN Misuse(s, "advanced a detached stream")
  ELSE [s EXCEPT !.k[i].released = s.st[i].bottom, !.st[i].top = Len(s.k[i].recs)]

\* Attach, start, and flush what is in the hole.  A stream that does not start stays attached.
dag_start_input_stream(s, i) ==
  LET up == [Acquire(s, Nth("dag stream", i)) EXCEPT !.k[i] = [Detached EXCEPT !.attached = TRUE]]
      known == [up EXCEPT !.data.attached = TRUE]
  IN Return([known EXCEPT !.st[i] = [EmptyStream EXCEPT !.seen = s.st[i].seen]], 0) \cup
     (IF "attach" \in s.faults THEN Fail(s, "errno") ELSE {}) \cup
     (IF "start" \in s.faults THEN Fail(Slip(up, "dag start"), "errno") ELSE {}) \cup
     (IF "stream poll" \in s.faults THEN Fail(known, "errno") ELSE {})
dag_start_input(s) == dag_start_input_stream(s, 1)

\* s.uri is the number of streams that the URI names; strtok leaves only the first for the
\* next time.  The card has s.max_streams.
dag_pstart_input(s) ==
  LET capped == MinOf(s.want, s.max_streams)
      count == MinOf(capped, s.uri)
      more == [i \in 1..(count - 1) |-> EmptyStream]
  IN IF s.uri = 0 THEN Fail([s EXCEPT !.nthreads = capped], "BAD_FORMAT")
     ELSE Return([s EXCEPT !.nthreads = count, !.st = @ \o more, !.data.attached = TRUE,
                           !.uri = 1], 0)
dag_pregister_thread(s, t, reading) ==
  CASE ~reading -> Return(s, 0)
    [] reading /\ t > Len(s.st) -> Return(s, -1)
    [] OTHER -> {IF o.ret = 0 THEN o ELSE Out(Slip(o.s, "dag thread"), -1) :
                   o \in dag_start_input_stream([s EXCEPT !.reg[t] = t], t)}

\* The streams in order, up to one that cannot be stopped because its thread never started it.
RECURSIVE StopFrom(_, _)
StopFrom(s, i) ==
  IF i > Len(s.st) THEN Return([s EXCEPT !.data.attached = FALSE], 0)
  ELSE IF ~s.k[i].attached THEN Fail(s, "errno")
  ELSE StopFrom([Release(s, Nth("dag stream", i)) EXCEPT !.k[i] = Detached], i + 1)
dag_pause_input(s) == StopFrom(s, 1)
dag_fin_input(s) ==
  LET t == CHOOSE t \in {o.s : o \in IF s.data.attached THEN dag_pause_input(s) ELSE Return(s, 0)} : TRUE
      u == IF s.data.device THEN Unref(t) ELSE Misuse(t, "used an uninitialised device")
  IN [Release(Release(u, "per_stream"), "format_data") EXCEPT !.data = NULL]

(* ---- the card ---- *)
dag_arrive(s, i, n) ==
  IF Len(s.k[i].recs) - s.k[i].released < s.frame_nr THEN [s EXCEPT !.k[i].recs = Append(@, n)]
  ELSE s

(* ---- reading ---- *)
dag_available(s, i) ==
  IF s.st[i].top > s.st[i].bottom /\ s.st[i].processed < MaxProcessed THEN Return(s, 0)
  ELSE Return([dag_advance_stream(s, i) EXCEPT !.st[i].processed = 0], 0) \cup
       (IF "advance" \in s.faults THEN Fail([s EXCEPT !.st[i].top = UNKNOWN_TOP], "errno") ELSE {})
Ready(s, i) == s.st[i].top > s.st[i].bottom
dag_get_record_Skips(s, i) == [s EXCEPT !.st[i].bottom = @ + 2, !.st[i].processed = @ + 1]
dag_get_record(s, i) == [s EXCEPT !.st[i].bottom = @ + 1, !.st[i].processed = @ + 1]

\* A report on the card's clock, after duck_freq seconds of packets, in a packet that belongs
\* to the DUCK format.  A packet's time is its number.
DuckDue(s) ==
  s.data.duck_freq # 0 /\ s.data.last_pkt - s.data.last_duck >= s.data.duck_freq
dag_get_duckinfo(s0, p) ==
  LET s == OwnBuffer(s0, p)
  IN Return([s EXCEPT !.pk[p].ctrl = "packet", !.pk[p].hdr = NULL, !.pk[p].payload = 0,
                      !.pk[p].trace = "duck", !.data.dummy = TRUE, !.data.last_duck = s.data.last_pkt], 40)
     \cup (IF "duck" \in s.faults THEN Fail([s EXCEPT !.data.duck_freq = 0], "errno") ELSE {})

\* The first record of an interface says nothing of what was lost before it.
Lost(n) == IF n % 3 = 0 THEN 1 ELSE 0
dag_prepare_packet_stream(s, i, p, n, at) ==
  [Lend(s, p, "hole", [n |-> n]) EXCEPT
     !.pk[p].slot = <<i, at>>, !.pk[p].trace = "in",
     !.st[i].drops = IF s.st[i].seen THEN @ + Lost(n) ELSE @, !.st[i].seen = TRUE]
dag_read_packet_stream(s0, p, i, t) ==
  LET freed == IF s0.pk[p].ctrl = "packet" /\ s0.pk[p].buffer # NULL
               THEN [Release(s0, s0.pk[p].buffer) EXCEPT !.pk[p].buffer = NULL] ELSE s0
      Got(s) == LET at == s.st[i].bottom + 1
                    n == s.k[i].recs[at]
                    read == dag_prepare_packet_stream(dag_get_record(s, i), i, p, n, at)
                IN Return(IF i = 1 /\ s.data.duck_freq # 0 THEN [read EXCEPT !.data.last_pkt = n] ELSE read,
                          FrameLength(n) + 18)
  IN IF i = 1 /\ DuckDue(s0) THEN dag_get_duckinfo(s0, p)
     ELSE (IF "stream poll" \in s0.faults THEN Fail(freed, "errno") ELSE {}) \cup
          Then(dag_available(freed, i), LAMBDA a :
            IF a.ret < 0 THEN {a} ELSE IF Ready(a.s, i) THEN Got(a.s) ELSE Idle(a.s, t))
\* One time around the loop of a reader that waits.
dag_wait(s, i) == IF Ready(s, i) THEN s ELSE [dag_advance_stream(s, i) EXCEPT !.st[i].processed = 0]
dag_read_packet(s, p) == dag_read_packet_stream(s, p, 1, NULL)
\* As many packets as there are, and one at least: what was read before an error is not
\* counted, and a read that was interrupted is.  Looking for another packet may release the
\* records of those already in the batch; s.cut are the threads to whom that happened.
RECURSIVE ReadBatch(_, _, _, _)
ReadBatch(s0, ps, done, t) ==
  LET i == s0.reg[t]
      Cut(s, u) == IF u.k[i].released # s.k[i].released THEN [u EXCEPT !.cut = @ \cup {t}] ELSE u
  IN Then(dag_read_packet_stream(s0, ps[done + 1], i, t), LAMBDA o :
       IF o.ret < 0 THEN {o}
       ELSE IF done + 1 >= Len(ps) THEN Return(o.s, done + 1)
       ELSE Then(dag_available(o.s, i), LAMBDA a :
              IF Ready(a.s, i) THEN ReadBatch(Cut(o.s, a.s), ps, done + 1, t)
              ELSE Return(Cut(o.s, a.s), done + 1)))
dag_pread_packets(s, ps, t) == ReadBatch([s EXCEPT !.cut = @ \ {t}], ps, 0, t)

\* A record that the trace's filter does not want is passed over.  The snap length cuts a
\* length that is not modelled for this format.
RECURSIVE NextEvent(_, _)
NextEvent(s0, p) ==
  Then(dag_available(s0, 1), LAMBDA a :
    LET s == a.s
        at == s.st[1].bottom + 1
        n == s.k[1].recs[at]
        read == dag_prepare_packet_stream(dag_get_record(s, 1), 1, p, n, at)
    IN IF ~Ready(s, 1) THEN Return(s, IF s.halt THEN "TERMINATE" ELSE "SLEEP")
       ELSE IF s.filter /\ n \notin s.match
       THEN NextEvent([trace_clear_cache(read, p) EXCEPT !.filtered = @ + 1], p)
       ELSE Return([read EXCEPT !.data.last_pkt = n, !.accepted = @ + 1], "PACKET"))
trace_event_dag(s, p) ==
  IF DuckDue(s) THEN {Out(o.s, IF o.ret < 0 THEN "TERMINATE" ELSE "PACKET") : o \in dag_get_duckinfo(s, p)}
  ELSE NextEvent(s, p) \cup
       (IF "stream poll" \in s.faults THEN Return(trace_set_err(s, "errno"), "TERMINATE") ELSE {})

dag_get_statistics(s) == MapThenSumSet(LAMBDA i : s.st[i].drops, 1..Len(s.st))
dag_get_thread_statistics(s, t) == s.st[s.reg[t]].drops

(* ---- writing: records wait in a buffer until there are many ---- *)
MaxWaiting == 2               \* 16 MiB in the code
dag_init_output(s) ==
  UNION {IF d.ok THEN Return([d.s EXCEPT !.o.fd = FALSE, !.o.slots = <<>>, !.o.device = TRUE], 0)
         ELSE FailOut(Slip(d.s, "dag open"), "errno") : d \in Device(Acquire(s, "out_data"))}
\* A stream that does not start stays attached, and is not known to be.
dag_start_output(s) ==
  Return([Acquire(s, "out stream") EXCEPT !.o.fd = TRUE], 0) \cup
  (IF "attach" \in s.faults THEN FailOut(s, "errno") ELSE {}) \cup
  (IF "start" \in s.faults THEN FailOut(Slip(Acquire(s, "out stream"), "dag start"), "errno") ELSE {})
dag_tx_stream_commit_bytes(s) == [s EXCEPT !.o.sent = @ \o s.o.slots, !.o.slots = <<>>]
dag_dump_packet(s, n) ==
  LET t == [s EXCEPT !.o.slots = Append(@, n)]
  IN IF Len(t.o.slots) >= MaxWaiting THEN dag_tx_stream_commit_bytes(t) ELSE t
\* A packet with no header, or of a link type that the card does not have, is refused.
REFUSED == 0
dag_write_packet(s, n) ==
  CASE n = REFUSED -> Return(s, -1)
    [] n = NONDATA -> Return(s, 0)
    [] OTHER -> Return(dag_dump_packet(s, n), FrameLength(n) + 18)
dag_pause_output(s) == [Release(s, "out stream") EXCEPT !.o.fd = FALSE]
dag_fin_output_Drops(s) ==
  IF ~s.o.device THEN {Misuse(s, "used an uninitialised device")}
  ELSE {Release(Unref(IF s.o.fd THEN dag_pause_output(s) ELSE s), "out_data")}
dag_fin_output(s) ==
  LET t == dag_tx_stream_commit_bytes(s)
      u == IF t.o.fd THEN dag_pause_output(t) ELSE t
  IN IF ~s.o.device THEN {Misuse(s, "used an uninitialised device")} ELSE {Release(Unref(u), "out_data")}

(* ---- format_dag24.c: one stream, no threads, no transmission ---- *)
\* Here processed counts what has been read since bottom, and the hole is released when all
\* that was known to be there has been.
dag24 == {"probe_filename", "init_input", "config_input", "start_input", "pause_input",
          "fin_input", "read_packet", "prepare_packet", "get_dropped_packets", "trace_event"}
dag24_init_input(s) ==
  LET up == [Acquire(Acquire(s, "format_data"), "dag device") EXCEPT
               !.st = <<EmptyStream>>,
               !.data = [duck_freq |-> 0, last_duck |-> 0, last_pkt |-> 0, dummy |-> FALSE, filter |-> NULL]]
  IN Return(up, 0) \cup (IF "open" \in s.faults THEN Fail(s, "errno") ELSE {})
dag24_config_input(s, option, value) ==
  IF option = "META_FREQ" THEN Return([s EXCEPT !.data.duck_freq = value], 0) ELSE Return(s, -1)
\* What is in the hole is skipped.
dag24_start_input(s) ==
  Return([s EXCEPT !.k[1] = [Detached EXCEPT !.attached = TRUE], !.st[1] = EmptyStream], 0) \cup
  (IF "start" \in s.faults THEN Fail(s, "errno") ELSE {})
dag24_pause_input(s) == Return([s EXCEPT !.k[1].attached = FALSE], 0)
dag24_fin_input(s) ==
  [Release(Release(s, "dag device"), "format_data") EXCEPT !.data = NULL]
dag24_available(s) ==
  LET st == s.st[1]
  IN IF st.top > st.bottom + st.processed THEN s
     ELSE [s EXCEPT !.st[1].bottom = st.top, !.st[1].processed = 0, !.k[1].released = st.top,
                    !.st[1].top = Len(s.k[1].recs)]
dag24_DuckDue(s) == s.data.duck_freq # 0 /\ s.data.last_pkt - s.data.last_duck > s.data.duck_freq
\* The wait is a loop that looks at nothing but the card.
dag24_read_packet(s0, p) ==
  LET freed == IF s0.pk[p].ctrl = "packet" /\ s0.pk[p].buffer # NULL
               THEN [Release(s0, s0.pk[p].buffer) EXCEPT !.pk[p].buffer = NULL] ELSE s0
      s == dag24_available(freed)
      at == s.st[1].bottom + s.st[1].processed + 1
      n == s.k[1].recs[at]
  IN IF dag24_DuckDue(s0)
     THEN {Out([o.s EXCEPT !.data.last_duck = s0.data.last_pkt], o.ret) : o \in dag_get_duckinfo(s0, p)}
     ELSE IF s.st[1].top < at THEN {}
     ELSE Return([Lend(s, p, "hole", [n |-> n]) EXCEPT
                    !.pk[p].slot = <<1, at>>, !.pk[p].trace = "in", !.data.last_pkt = n,
                    !.st[1].processed = @ + 1, !.st[1].drops = @ + Lost(n)], FrameLength(n) + 18)
\* What the filter does not want is passed over.  A report on the clock is taken by it.
RECURSIVE dag24_trace_event(_, _)
dag24_trace_event(s, p) ==
  LET t == dag24_available(s)
  IN IF t.st[1].top = t.st[1].bottom + t.st[1].processed THEN Return(t, "SLEEP")
     ELSE Then(dag24_read_packet(t, p), LAMBDA o :
            IF s.filter /\ o.ret > 0 /\ o.s.pk[p].trace = "in" /\ o.s.pk[p].hdr.n \notin s.match
            THEN dag24_trace_event([o.s EXCEPT !.filtered = @ + 1], p)
            ELSE Return([o.s EXCEPT !.accepted = @ + 1], "PACKET"))
=============================================================================
