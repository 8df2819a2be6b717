----------------------------- MODULE FormatOdp -----------------------------
(* format_odp.c: frames that the OpenDataPlane scheduler hands out.  ODP is *)
(* external: a pool of s.frame_nr packets, of which s.k[1].q are scheduled; *)
(* s.lent counts those that are in a packet of the program, s.lost those    *)
(* that nothing refers to any more.                                         *)
EXTENDS TraceBase

lodp == {"init_input", "start_input", "init_output", "config_output", "start_output",
         "fin_input", "fin_output", "read_packet", "prepare_packet", "fin_packet",
         "write_packet", "get_link_type", "get_seconds", "get_capture_length",
         "get_wire_length", "get_framing_length"}

\* The pool is made once for the process.  Without ODP, or without a pool, the process ends;
\* an interface whose queue cannot be configured stays open.
lodp_init_environment(s, pktio) ==
  LET pool == [s EXCEPT !.held = @ \cup {"odp pool"}]
      opened == Acquire(pool, pktio)
  IN Return(opened, 0) \cup
     (IF "odp" \in s.faults THEN Return([s EXCEPT !.exited = TRUE], 1) ELSE {}) \cup
     (IF "bind" \in s.faults THEN Return(pool, 1) ELSE {}) \cup
     (IF "queue" \in s.faults THEN Return(opened, 1) ELSE {})

lodp_init_input(s0) ==
  Then(lodp_init_environment([Acquire(s0, "format_data") EXCEPT
                                !.data = [pkts_read |-> 0, filter |-> NULL]], "pktio"), LAMBDA o :
    IF o.ret = 0 THEN {o}
    ELSE Fail([Slip(Release(o.s, "format_data"), "odp init") EXCEPT !.data = NULL], "INIT_FAILED"))
\* The environment is set up as if the data were an input's: the interface, a small number,
\* takes the place of the level.
lodp_init_output(s0) ==
  Then(lodp_init_environment(Acquire(s0, "out_data"), "out pktio"), LAMBDA o :
    IF o.ret = 0 THEN Return([o.s EXCEPT !.o.level = s0.handle, !.o.compress_type = "none"], 0)
    ELSE FailOut(Slip(Release(o.s, "out_data"), "odp init"), "INIT_FAILED"))
lodp_config_output(s, option) ==
  IF option \in {"compress", "compresstype", "fileflags"} THEN Return(s, 0)
  ELSE FailOut(s, "UNKNOWN_OPTION")

\* That the interface does not start is printed, and the trace has started.
lodp_start_input(s) ==
  Return([s EXCEPT !.st[1].up = TRUE], 0) \cup (IF "start" \in s.faults THEN Return(s, 0) ELSE {})
lodp_start_output(s) ==
  {IF t.o.open THEN Out(t, 0) ELSE Out(Slip(t, "odp out"), -1) : t \in trace_open_file_out(s, s.o.compress_type, s.o.level)}
lodp_fin_input(s) ==
  IF s.data = NULL THEN Misuse(s, "used format_data")
  ELSE [Release(Release(s, "pktio"), "format_data") EXCEPT
          !.st[1].up = FALSE, !.data = NULL, !.lost = @ + Len(s.k[1].q), !.k[1].q = <<>>]
\* Which needs the data, and a file that was opened.
lodp_fin_output(s) ==
  IF "out_data" \in s.held THEN {Release(wandio_wdestroy(s), "out_data")} ELSE {Uses(s, "out_data")}

\* A frame needs a packet of the pool.
Free(s) == s.frame_nr - Len(s.k[1].q) - s.lent - s.lost
lodp_arrive(s, n) == IF Free(s) = 0 THEN s ELSE [s EXCEPT !.k[1].q = Append(@, n)]

\* Before the wait.
lodp_read_begin(s, p) ==
  LET t == IF s.pk[p].buffer = NULL THEN s
           ELSE IF s.pk[p].ctrl = "packet" THEN Release(s, s.pk[p].buffer)
           ELSE Misuse(s, "assert buf_control == TRACE_CTRL_PACKET")
  IN [t EXCEPT !.pk[p].buffer = NULL, !.pk[p].ctrl = "external", !.pk[p].type = "ODP"]

lodp_prepare_packet(s, p, n) ==
  [Lend(s, p, "odp", [n |-> n]) EXCEPT !.pk[p].cap = FrameLength(n), !.pk[p].wire = FrameLength(n)]
\* The scheduler waits for ever.  An event that is no packet is passed over and kept; that
\* the program asked to stop is seen after a packet came, which is dropped without being freed.
lodp_read_pack(s) ==
  LET n == Head(s.k[1].q)
      took == [s EXCEPT !.k[1].q = Tail(@), !.data.pkts_read = @ + 1]
  IN IF s.k[1].q = <<>> THEN {}
     ELSE IF s.halt THEN Return([took EXCEPT !.lost = @ + 1], READ_EOF)
     ELSE Return([took EXCEPT !.lent = @ + 1], n)
lodp_read_packet(s, p) ==
  Then(lodp_read_pack(s), LAMBDA o :
    IF o.ret = READ_EOF THEN {o}
    ELSE Return(lodp_prepare_packet(o.s, p, o.ret), FrameLength(o.ret)))

lodp_fin_packet(s, p) ==
  CASE s.pk[p].ctrl # "external" -> s
    [] s.pk[p].ctrl = "external" /\ s.pk[p].buffer = NULL -> Misuse(s, "odp_packet_free of nothing")
    [] OTHER -> [s EXCEPT !.lent = @ - 1, !.pk[p].buffer = NULL]

\* The lengths are what prepare_packet left in the packet.
lodp_get_capture_length(s, p) == s.pk[p].cap
lodp_get_wire_length(s, p) == s.pk[p].wire
lodp_get_framing_length == 0

\* What is written is the payload, without a header.
lodp_write_packet(s, n) ==
  {IF w.ok THEN Out(w.s, FrameLength(n)) ELSE Out(trace_set_err_out(w.s, "errno"), -1) :
     w \in WriteRecord(s, NULL, n)}
=============================================================================
