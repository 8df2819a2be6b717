----------------------------- MODULE FormatPcap -----------------------------
(* format_pcap.c: files and interfaces through libpcap, which is external.  *)
(* s.io says whether there is a pcap handle.  Headers and payloads lie in   *)
(* libpcap's memory and go with the handle; a header is [caplen, len, id].  *)
(* An interface's packets are those of s.file.recs, in order.               *)
EXTENDS TraceBase, LinkTypes

pcap == {"init_input", "config_input", "start_input", "pause_input", "init_output", "fin_input",
         "fin_output", "read_packet", "prepare_packet", "write_packet", "get_link_type",
         "get_direction", "set_direction", "get_timeval", "get_capture_length",
         "get_wire_length", "get_framing_length", "set_capture_length", "trace_event"}
pcapint == pcap \cup {"get_statistics", "get_fd"}

pcap_init_input(s) ==
  Return([Acquire(s, "format_data") EXCEPT
            !.data = [filter |-> FALSE, snaplen |-> BUFSIZE, promisc |-> FALSE]], 0)
pcapint_init_input(s) == pcap_init_input(s)

OpenHandle(s) == [Acquire(s, "io") EXCEPT !.io = TRUE]
\* A filter that is refused leaves the handle open.
pcap_set_filter(s) ==
  IF s.data.filter /\ "filter" \in s.faults THEN Fail(s, "INIT_FAILED") ELSE Return(s, 0)
pcap_start_input(s) ==
  IF s.io THEN Return(s, 0)
  ELSE (IF "open" \in s.faults THEN Fail(s, "INIT_FAILED") ELSE {}) \cup
       pcap_set_filter([OpenHandle(s) EXCEPT !.file.pos = 0])
pcap_config_input(s, option, value) ==
  IF option = "FILTER" THEN Return([s EXCEPT !.data.filter = TRUE], 0) ELSE Return(s, -1)

\* pcap_activate may fail with the handle made; with a filter one packet is thrown away.
pcapint_consume(s) ==
  IF ~s.data.filter \/ s.file.pos >= Len(s.file.recs) THEN s
  ELSE [s EXCEPT !.file.pos = @ + 1, !.consumed = @ + 1]
pcapint_start_input(s) ==
  (IF "open" \in s.faults
   THEN Fail(s, "INIT_FAILED") \cup Fail(OpenHandle(s), "INIT_FAILED") ELSE {}) \cup
  Then(pcap_set_filter(OpenHandle(s)),
       LAMBDA o : IF o.ret < 0 THEN {o}
                  ELSE Return(pcapint_consume(o.s), 0) \cup
                       (IF s.data.filter /\ "read" \in s.faults THEN Return(o.s, -1) ELSE {}))
pcapint_config_input(s, option, value) ==
  CASE option = "FILTER" -> Return([s EXCEPT !.data.filter = TRUE], 0)
    [] option = "SNAPLEN" -> Return([s EXCEPT !.data.snaplen = value], 0)
    [] option = "PROMISC" -> Return([s EXCEPT !.data.promisc = value], 0)
    [] OTHER -> Return(s, -1)

pcap_pause_input(s) == [Release(s, "io") EXCEPT !.io = FALSE]
pcap_fin_input(s) == Release(s, "format_data")

\* packet->buffer gets memory, which is never used: the packet lies in libpcap's.
PcapBuffer(s, p) ==
  IF s.pk[p].buffer = NULL THEN [Acquire(s, Buf(p)) EXCEPT !.pk[p].buffer = Buf(p)] ELSE s
\* A live capture keeps what its snap length lets through, a filter what it matches.
Captured(s, hdr) ==
  IF s.fmt = "pcapint" THEN [hdr EXCEPT !.caplen = MinOf(@, s.data.snaplen)] ELSE hdr
Matching(s) ==
  LET later == {i \in s.file.pos + 1 .. Len(s.file.recs) :
                  s.data.filter => s.file.recs[i].hdr.id.n \in s.match}
  IN [s EXCEPT !.file.pos = IF later = {} THEN Len(s.file.recs) ELSE Min(later) - 1]
\* On an interface that has nothing the call waits until the program is interrupted.
pcap_read_packet(s0, p) ==
  LET s == Matching([PcapBuffer(s0, p) EXCEPT !.pk[p].type = pcap_linktype_to_rt(s0.file.header.network)])
      hdr == Captured(s, NextRecord(s).hdr)
      Nothing(t) == [t EXCEPT !.pk[p].hdr = NULL, !.pk[p].payload = NULL]
  IN UNION {CASE got = "full" ->
                   Return([s EXCEPT !.file.pos = @ + 1, !.pk[p].hdr = hdr, !.pk[p].payload = hdr.id],
                          hdr.len + 24)
              [] got = "eof" -> Return(Nothing(s), 0)
              [] OTHER -> Fail(Nothing(s), "BAD_PACKET") : got \in ReadHeader(s)}

pcap_get_link_type(pkt) == pcap_linktype_to_libtrace(rt_to_pcap_linktype(pkt.type))
pcap_get_direction(pkt) ==
  IF pcap_get_link_type(pkt) \in {"LINUX_SLL", "PFLOG"} THEN pkt.payload.dir ELSE "UNKNOWN"
pcap_get_capture_length(pkt) == pkt.hdr.caplen
pcap_get_wire_length(pkt) ==
  CASE pkt.type = pcap_linktype_to_rt("EN10MB") -> pkt.hdr.len + 4
    [] pkt.type = pcap_linktype_to_rt("IEEE802_11_RADIO") -> pkt.hdr.len + (IF pkt.payload.fcs THEN 4 ELSE 0)
    [] OTHER -> pkt.hdr.len
pcap_get_framing_length == 24
pcap_set_capture_length(s, p, size, cap) ==
  IF size > cap THEN s ELSE [s EXCEPT !.pk[p].cap = -1, !.pk[p].hdr.caplen = size]

pcap_init_output(s) == Return([Acquire(s, "out_data") EXCEPT !.o.dump = FALSE], 0)
pcapint_init_output(s) == pcap_init_output(s)
\* pcap_close is called without a test for a handle.
pcap_fin_output(s) ==
  Release(wandio_wdestroy(IF s.o.dump THEN [Release(s, "dump") EXCEPT !.o.dump = FALSE] ELSE s), "out_data")
pcapint_fin_output(s) == Release(wandio_wdestroy(s), "out_data")
\* The handle is made for the first packet's link type.
pcap_open_output(s, link) ==
  IF s.o.open THEN {[ok |-> TRUE, s |-> s]}
  ELSE LET t == [Acquire(s, "out") EXCEPT !.o.open = TRUE,
                                          !.o.header = [got |-> "full", network |-> libtrace_to_pcap_dlt(link)]]
       IN {[ok |-> TRUE, s |-> [Acquire(t, "dump") EXCEPT !.o.dump = TRUE]]} \cup
          (IF "open" \in s.faults THEN {[ok |-> FALSE, s |-> trace_set_err_out(t, "INIT_FAILED")]} ELSE {})
\* A packet that libpcap read is dumped as it is, another gets a header.
pcap_new_header(pkt, own, link, caplen, wire) ==
  IF own THEN pkt.hdr
  ELSE [fmt |-> "pcap", caplen |-> caplen,
        len |-> IF link = "ETH" THEN (IF wire >= 4 THEN wire - 4 ELSE 0) ELSE wire,
        id |-> pkt.payload]
=============================================================================
