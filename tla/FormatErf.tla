----------------------------- MODULE FormatErf -----------------------------
(* format_erf.c: ERF files, for reading and writing.  A header is           *)
(* [type, ext, rlen, wlen, lctr, rx, dir, id]: ext is the number of         *)
(* extension headers that the loop over them counts, id the payload.        *)
EXTENDS TraceBase, LinkTypes

erfformat == {"probe_magic", "init_input", "config_input", "start_input", "init_output",
              "config_output", "start_output", "fin_input", "fin_output", "read_packet",
              "prepare_packet", "write_packet", "get_link_type", "get_direction",
              "set_direction", "get_erf_timestamp", "seek_erf", "get_capture_length",
              "get_wire_length", "get_framing_length", "set_capture_length",
              "get_statistics", "trace_event"}
rawerfformat == erfformat
dag_record_size == 16

erf_get_padding(hdr) == IF hdr.type \in {"ETH", "DSM_COLOR_ETH"} THEN 2 ELSE 0
erf_get_framing_length(hdr) == dag_record_size + 8 * hdr.ext + erf_get_padding(hdr)

erf_probe_magic(file) ==
  /\ file.recs # <<>>
  /\ file.recs[1].hdr.fmt = "erf"
  /\ file.recs[1].hdr.rlen >= dag_record_size
  /\ file.recs[1].hdr.type # "RAW_LINK"

erf_init_input(s) ==
  Return([Acquire(s, "format_data") EXCEPT !.data = [real_time |-> FALSE, drops |-> 0]], 0)

erf_config_input(s, option, value) ==
  CASE option = "EVENT_REALTIME" -> Return([s EXCEPT !.data.real_time = value], 0)
    [] option \in {"SNAPLEN", "PROMISC", "FILTER", "META_FREQ"} -> Fail(s, "OPTION_UNAVAIL")
    [] OTHER -> Fail(s, "UNKNOWN_OPTION")

erf_start_input(s) ==
  IF s.io THEN Return(s, 0)
  ELSE {IF t.io THEN Out([t EXCEPT !.data.drops = 0], 0) ELSE Out(t, -1) : t \in trace_open_file(s)}

\* A raw file that cannot be opened is reported only if errno says why.
rawerf_start_input(s) ==
  IF s.io THEN Return(s, 0)
  ELSE UNION {IF t.io THEN Return([t EXCEPT !.data.drops = 0], 0)
              ELSE Fail(t, "errno") \cup (IF "NOERROR" \in s.stale_errno THEN Return(t, -1) ELSE {})
              : t \in wandio_create(s)}

erf_init_output(s) ==
  Return([Acquire(s, "out_data") EXCEPT !.o.level = 0, !.o.compress_type = "none"], 0)
erf_config_output(s, option, value) == ConfigOutput(s, option, value)
erf_fin_input_Open(s) == Release(s, "format_data")
erf_fin_input(s) ==
  Release(IF s.io THEN wandio_destroy(s) ELSE s, "format_data")
erf_fin_output(s) == Release(IF s.o.open THEN wandio_wdestroy(s) ELSE s, "out_data")

\* The loss counter of a record counts packets lost before it.
erf_prepare_packet(s, p, buffer, ctrl, hdr) ==
  [TakeBuffer(s, p, buffer, ctrl) EXCEPT
     !.pk[p].type = "ERF", !.pk[p].hdr = hdr,
     !.pk[p].payload = IF hdr.rx THEN NULL ELSE hdr.id,
     !.data.drops = IF hdr.type = "DSM_COLOR_ETH" THEN @ ELSE @ + hdr.lctr]

\* size is unsigned in C: an rlen below the header's size is a huge one.
erf_size_ok(size) == size >= 0 /\ size < BUFSIZE
erf_read_body(s, p, hdr, size) ==
  UNION {CASE got = "error" -> Fail(s, "errno")
           [] got # "error" /\ (got = "full" \/ size = 0) ->
                Return(erf_prepare_packet(Fill(Advance(s, size), p, hdr.rlen), p, s.pk[p].buffer, "packet", hdr), hdr.rlen)
           [] OTHER -> Fail(s, "EIO") : got \in ReadBody(s, size)}
erf_read_packet(s0, p) ==
  LET s == OwnBuffer(s0, p)
      hdr == NextRecord(s).hdr
      size == hdr.rlen - dag_record_size
  IN UNION {CASE got = "error" -> Fail(s, "errno")
              [] got = "eof" -> Return(s, 0)
              [] got = "short" -> Fail(s, "BAD_PACKET")
              [] got = "full" -> IF erf_size_ok(size) /\ hdr.type # "RAW_LINK"
                                 THEN erf_read_body(s, p, hdr, size)
                                 ELSE Fail(s, "BAD_PACKET") : got \in ReadHeader(s)}

erf_get_link_type(pkt) ==
  CASE pkt.hdr.type # "LEGACY" -> erf_type_to_libtrace(pkt.hdr.type)
    [] OTHER -> IF pkt.payload # NULL /\ pkt.payload.ip THEN "PPP" ELSE "UNKNOWN"
erf_get_direction(pkt) == pkt.hdr.dir
erf_get_capture_length_Wire(pkt) == IF pkt.payload = NULL THEN 0 ELSE pkt.hdr.wlen
erf_get_capture_length(pkt) ==
  IF pkt.payload = NULL THEN 0
  ELSE MinOf(pkt.hdr.wlen, pkt.hdr.rlen - erf_get_framing_length(pkt.hdr))
erf_get_wire_length(pkt) == pkt.hdr.wlen

erf_set_capture_length_Stale(s, p, size, cap) ==
  IF size > cap THEN s ELSE [s EXCEPT !.pk[p].hdr.rlen = size + erf_get_framing_length(s.pk[p].hdr)]
\* cap is what trace_get_capture_length gives: a packet is never made larger.
erf_set_capture_length(s, p, size, cap) ==
  IF size > cap THEN s
  ELSE [s EXCEPT !.pk[p].cap = -1, !.pk[p].hdr.rlen = size + erf_get_framing_length(s.pk[p].hdr)]

erf_start_output(s) ==
  {Out(t, IF t.o.open THEN 0 ELSE -1) :
     t \in trace_open_file_out(s, s.o.compress_type, s.o.level)}

\* Writes header and payload with a record length that agrees with them.
erf_dump_packet(s, hdr, framing, caplen) ==
  {IF w.ok THEN Out(w.s, caplen + framing) ELSE Out(trace_set_err_out(w.s, "errno"), -1) :
     w \in WriteRecord(s, [hdr EXCEPT !.rlen = caplen + framing],
                       caplen + framing - dag_record_size)}
\* The header made up for a packet of another format.
erf_new_header(link, id, caplen, wlen, dir) ==
  LET type == libtrace_to_erf_type(link)
      framing == dag_record_size + (IF type = "ETH" THEN 2 ELSE 0)
  IN [fmt |-> "erf", type |-> type, ext |-> 0, rlen |-> caplen + framing, wlen |-> wlen % 65536,
      lctr |-> 0, rx |-> FALSE, dir |-> IF dir = "UNKNOWN" THEN 1 ELSE dir, id |-> id]
=============================================================================
