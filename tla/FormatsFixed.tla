---------------------------- MODULE FormatsFixed ----------------------------
(* The formats whose records have one size: TSH (format_tsh.c), DUCK        *)
(* (format_duck.c), ATM cell headers (format_atmhdr.c) and the four legacy  *)
(* formats (format_legacy.c).  Where a record is read in one call the model *)
(* counts all of it as its header.  The set named after a format lists the  *)
(* operations its table provides.                                           *)
EXTENDS TraceBase, LinkTypes

\* wandio_destroy is called without a test: there may be no file.
DestroyAnyIo(s) == IF s.io THEN wandio_destroy(s) ELSE Misuse(s, "closed no file")
PlainStart(s) ==
  IF s.io THEN Return(s, 0) ELSE {Out(t, IF t.io THEN 0 ELSE -1) : t \in trace_open_file(s)}

(* ---- TSH: 8 bytes of header, 20 of IP, 16 of transport ---- *)
tshformat == {"init_input", "start_input", "fin_input", "read_packet", "prepare_packet",
              "get_link_type", "get_direction", "get_timeval", "get_capture_length",
              "get_wire_length", "get_framing_length", "trace_event"}
tsh_get_framing_length == 8
tsh_init_input(s) == Return([s EXCEPT !.data = NULL], 0)
tsh_start_input(s) == PlainStart(s)
tsh_fin_input(s) == IF s.io THEN wandio_destroy(s) ELSE s
tsh_prepare_packet(s, p, buffer, ctrl, hdr) ==
  [TakeBuffer(s, p, buffer, ctrl) EXCEPT
     !.pk[p].hdr = hdr, !.pk[p].payload = hdr.id, !.pk[p].type = "TSH"]
tsh_body == 36
tsh_read_packet(s0, p) ==
  LET s == OwnBuffer(s0, p)
      Body(got) ==
        CASE got = "full" ->
               Return(tsh_prepare_packet(Fill(Advance(s, tsh_body), p, 44), p, s.pk[p].buffer, "packet",
                                         NextRecord(s).hdr), 80)
          [] got = "error" -> Fail(s, "errno")
          [] OTHER -> FailStale(s)
  IN UNION {CASE got = "error" -> Fail(s, "errno")
              [] got = "eof" -> Return(s, 0)
              [] got = "short" -> FailStale(s)
              [] got = "full" -> UNION {Body(b) : b \in ReadBody(s, tsh_body)}
            : got \in ReadHeader(s)}
tsh_get_link_type(pkt) == "NONE"
tsh_get_direction(pkt) == pkt.hdr.dir
tsh_get_capture_length(pkt) == 36
tsh_get_wire_length(pkt) == pkt.hdr.len

(* ---- DUCK: a version, then records whose size depends on it ---- *)
duck == {"init_input", "start_input", "init_output", "config_output", "start_output",
         "fin_input", "fin_output", "read_packet", "prepare_packet", "write_packet",
         "get_link_type", "get_capture_length", "get_wire_length", "get_framing_length"}
DuckVersions == {"DUCK_2_4", "DUCK_2_5", "DUCK_5_0"}
duck_get_capture_length(pkt) ==
  CASE pkt.type = "DUCK_2_4" -> 112 [] pkt.type = "DUCK_2_5" -> 84 [] pkt.type = "DUCK_5_0" -> 100
    [] OTHER -> -1
duck_init_input(s) == Return([Acquire(s, "format_data") EXCEPT !.data = [dag_version |-> "0"]], 0)
duck_init_output(s) ==
  Return([Acquire(s, "out_data") EXCEPT
            !.o.level = 0, !.o.compress_type = "none", !.o.dag_version = "0"], 0)
duck_config_output(s, option, value) == ConfigOutput(s, option, value)
duck_start_input(s) == PlainStart(s)
duck_start_output(s) ==
  {Out(t, IF t.o.open THEN 0 ELSE -1) : t \in trace_open_file_out(s, s.o.compress_type, s.o.level)}
duck_fin_input(s) == Release(DestroyAnyIo(s), "format_data")
duck_fin_output(s) == Release(wandio_wdestroy(s), "out_data")
duck_prepare_packet(s, p, buffer, ctrl, type, id) ==
  [TakeBuffer(s, p, buffer, ctrl) EXCEPT
     !.pk[p].hdr = NULL, !.pk[p].payload = id, !.pk[p].type = type]
\* A truncated record sets an error and is handed out all the same.
duck_read_record(s0, p) ==
  LET version == s0.data.dag_version
      s == [s0 EXCEPT !.pk[p].type = version]
      Prepared(t) == duck_prepare_packet(t, p, s.pk[p].buffer, "packet", version,
                                         IF s.file.pos < Len(s.file.recs) THEN NextRecord(s).hdr.id
                                         ELSE Blank)
  IN IF version \notin DuckVersions THEN Fail(s0, "BAD_PACKET")
     ELSE UNION {CASE got = "full" -> Return(Prepared(Fill(Advance(s, 0), p, duck_get_capture_length(s.pk[p]))), duck_get_capture_length(s.pk[p]))
                   [] got = "error" -> Fail(s, "errno")
                   [] got = "eof" -> Return(s, 0)
                   [] got = "short" -> Return(Prepared(trace_set_err(s, "BAD_PACKET")), 1)
                 : got \in ReadHeader(s)}
\* A file too short for its version is an error, an empty file included.
duck_read_packet(s0, p) ==
  LET s == OwnBuffer(s0, p)
  IN IF s.data.dag_version # "0" THEN duck_read_record(s, p)
     ELSE IF s.file.header.got # "full" THEN FailStale(s)
          ELSE duck_read_record([s EXCEPT !.data.dag_version = s.file.header.version], p)
duck_get_link_type(pkt) == "DUCK"
duck_get_wire_length(pkt) == 0
duck_get_framing_length == 0
\* The version of the first packet heads the file.
duck_write_packet(s, p) ==
  IF s.pk[p].type \notin DuckVersions THEN FailOut(s, "BAD_PACKET")
  ELSE LET cap == duck_get_capture_length(s.pk[p])
           t == IF s.o.dag_version # "0" THEN s
                ELSE [s EXCEPT !.o.dag_version = s.pk[p].type,
                               !.o.header = [got |-> "full", version |-> s.pk[p].type]]
       IN {IF w.ok THEN Out(w.s, cap) ELSE Out(trace_set_err_out(w.s, "errno"), -1) :
             w \in WriteRecord(t, [fmt |-> "duck", id |-> s.pk[p].payload], 0)}

(* ---- ATM cell headers: 12 bytes, of which 4 are the cell's ---- *)
atmhdr == {"init_input", "start_input", "fin_input", "read_packet", "prepare_packet",
           "get_link_type", "get_erf_timestamp", "get_capture_length", "get_wire_length",
           "get_framing_length", "trace_event"}
atmhdr_get_framing_length == 8
atmhdr_init_input(s) == Return([s EXCEPT !.data = NULL], 0)
atmhdr_start_input(s) == PlainStart(s)
atmhdr_fin_input(s) == DestroyAnyIo(s)
atmhdr_prepare_packet(s, p, buffer, ctrl, hdr) ==
  [TakeBuffer(s, p, buffer, ctrl) EXCEPT
     !.pk[p].hdr = hdr, !.pk[p].payload = hdr.id, !.pk[p].type = "ATMHDR"]
\* A short read sets an error, and returns the positive number of bytes it got.
atmhdr_read_packet(s0, p) ==
  LET s == [OwnBuffer(s0, p) EXCEPT !.pk[p].type = "ATMHDR"]
  IN UNION {CASE got = "full" ->
                   Return(atmhdr_prepare_packet(Fill(Advance(s, 0), p, 12), p, s.pk[p].buffer, "packet",
                                                NextRecord(s).hdr), 12)
              [] got = "eof" -> Return(s, 0)
              [] got = "error" -> Fail(s, "errno")
              [] got = "short" -> {Out(o.s, 1) : o \in FailStale(s)} : got \in ReadHeader(s)}
atmhdr_get_link_type(pkt) == "ATM"
atmhdr_get_capture_length(pkt) == 4
atmhdr_get_wire_length(pkt) == 53

(* ---- legacy formats: records of 64 bytes, for NZIX of 68 ---- *)
LegacyFormats == {"legacyatm", "legacypos", "legacyeth", "legacynzix"}
legacy == {"init_input", "start_input", "fin_input", "read_packet", "prepare_packet",
           "get_link_type", "get_capture_length", "get_wire_length", "get_framing_length",
           "trace_event"}
legacyatm == legacy \cup {"get_erf_timestamp"}
legacypos == legacy \cup {"get_erf_timestamp"}
legacyeth == legacy \cup {"get_erf_timestamp"}
legacynzix == legacy \cup {"get_timeval"}
legacyeth_get_framing_length == 10
legacypos_get_framing_length == 16
legacyatm_get_framing_length == 12
legacynzix_get_framing_length == 14
legacy_init_format_data(s) == [Acquire(s, "format_data") EXCEPT !.data = [ts_high |-> 0, ts_old |-> 0]]
legacy_init_input(s) == Return(legacy_init_format_data(s), 0)
\* NZIX needs a file name that tells the time; the error is whatever errno is.
legacynzix_init_input(s) ==
  IF s.file.named THEN Return(legacy_init_format_data(s), 0)
  ELSE FailStale(legacy_init_format_data(s))
legacy_start_input(s) == PlainStart(s)
legacy_fin_input(s) == Release(DestroyAnyIo(s), "format_data")
legacy_prepare_packet(s, p, buffer, ctrl, type, hdr) ==
  [TakeBuffer(s, p, buffer, ctrl) EXCEPT
     !.pk[p].hdr = hdr, !.pk[p].payload = hdr.id, !.pk[p].type = type]
\* The bytes of a short read are dropped; the next read then finds the end.
legacy_read_packet(s0, p) ==
  LET s == [OwnBuffer(s0, p) EXCEPT !.pk[p].type = s0.fmt]
  IN UNION {CASE got = "full" -> Return(legacy_prepare_packet(Fill(Advance(s, 0), p, 64), p, s.pk[p].buffer,
                                                              "packet", s.fmt, NextRecord(s).hdr), 64)
              [] got = "error" -> Fail(s, "errno")
              [] got \in {"eof", "short"} -> Return(s, 0) : got \in ReadHeader(s)}
SkipGps_PastEnd(s) ==
  LET later == {i \in s.file.pos + 1 .. Len(s.file.recs) : s.file.recs[i].hdr.len # 0}
  IN [s EXCEPT !.file.pos = IF later = {} THEN Len(s.file.recs) + 1 ELSE Min(later) - 1]
\* Records of length zero carry the time of a GPS clock and are passed over.
SkipGps(s) ==
  LET later == {i \in s.file.pos + 1 .. Len(s.file.recs) : s.file.recs[i].hdr.len # 0}
  IN [s EXCEPT !.file.pos = IF later = {} THEN Len(s.file.recs) ELSE Min(later) - 1]
legacynzix_read_packet(s0, p) ==
  LET s == [SkipGps(OwnBuffer(s0, p)) EXCEPT !.pk[p].type = "legacynzix"]
  IN UNION {CASE got = "full" ->
                   Return(legacy_prepare_packet(Fill(Advance(s, 0), p, 68), p, s.pk[p].buffer, "packet",
                                                "legacynzix", NextRecord(s).hdr), 68)
              [] got = "error" -> Fail(s, "errno")
              [] got \in {"eof", "short"} -> Return(s, 0) : got \in ReadHeader(s)}
legacypos_get_link_type(pkt) ==
  CASE pkt.payload.start = "FF03" -> "POS" [] pkt.payload.start \in {"0F00", "8F00"} -> "HDLC_POS"
    [] OTHER -> "PPP"
legacyatm_get_link_type(pkt) == "ATM"
legacyeth_get_link_type(pkt) == "ETH"
legacynzix_get_link_type(pkt) == "ETH"
legacy_get_capture_length(pkt) == 64
legacynzix_get_capture_length(pkt) == 54
legacypos_get_wire_length(pkt) == pkt.hdr.len
legacyatm_get_wire_length(pkt) == 53
legacyeth_get_wire_length(pkt) == pkt.hdr.len + 4
legacynzix_get_wire_length(pkt) == pkt.hdr.len
=============================================================================
