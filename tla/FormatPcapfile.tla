--------------------------- MODULE FormatPcapfile ---------------------------
(* format_pcapfile.c: pcap files, for reading and writing.  The file has a  *)
(* header, s.file.header = [got, magic, order, major, minor, network], and  *)
(* a packet's header is [order, caplen, wirelen, id]: order is the byte     *)
(* order its numbers are stored in, id the payload.                         *)
EXTENDS TraceBase, LinkTypes

pcapfile == {"probe_magic", "init_input", "config_input", "start_input", "init_output",
             "config_output", "start_output", "fin_input", "fin_output", "read_packet",
             "prepare_packet", "write_packet", "get_link_type", "get_direction", "get_timeval",
             "get_timespec", "get_capture_length", "get_wire_length", "get_framing_length",
             "set_capture_length", "trace_event"}
pcapfile_framing == 16
NoPcapHeader == [fmt |-> "pcapfile", order |-> "host", caplen |-> 0, wirelen |-> 0, id |-> NULL]
NoHeader == [got |-> "none", magic |-> "none", order |-> "host", major |-> 0, minor |-> 0,
             network |-> "NULL"]

header_is_backwards_magic(h) == h.magic \in {"MAGIC1", "MAGIC2"} /\ h.order = "reversed"
header_is_magic(h) == h.magic \in {"MAGIC1", "MAGIC2"}
trace_in_nanoseconds(h) == h.magic = "MAGIC2"

pcapfile_probe_magic(file) == file.header.got = "full" /\ header_is_magic(file.header)

pcapfile_init_input(s) ==
  Return([Acquire(s, "format_data") EXCEPT
            !.data = [real_time |-> FALSE, started |-> FALSE, header |-> NoHeader]], 0)
pcapfile_init_output(s) ==
  Return([Acquire(s, "out_data") EXCEPT !.o.level = 0, !.o.compress_type = "none"], 0)

\* A number that the file stores in byte order `order`; a trace without data assumes the host's.
Garbled == 16777216
swapl(data, order, num) ==
  LET reversed == data # NULL /\ header_is_backwards_magic(data.header)
  IN IF reversed <=> order = "reversed" THEN num ELSE Garbled

\* The versions are compared with "and": only a file with both wrong is refused.
pcapfile_version_ok(data, h) ==
  \/ swapl(data, h.order, h.major) = 2
  \/ swapl(data, h.order, h.minor) = 4
pcapfile_read_header(s0) ==
  LET h == s0.file.header
      s == [s0 EXCEPT !.data.started = TRUE,
                      !.data.header = IF h.got = "full" THEN h ELSE NoHeader]
  IN IF h.got = "full" /\ header_is_magic(h) /\ pcapfile_version_ok(s.data, h)
     THEN Return(s, 0) ELSE Fail(s, "INIT_FAILED")
pcapfile_start_input(s) ==
  UNION {IF t.data.started THEN Return(t, 0)
         ELSE IF t.io THEN pcapfile_read_header(t) ELSE Return(t, -1)
         : t \in IF s.io THEN {s} ELSE {[u EXCEPT !.data.started = FALSE] : u \in trace_open_file(s)}}
pcapfile_start_output(s) == Return(s, 0)

pcapfile_config_input(s, option, value) ==
  IF option = "EVENT_REALTIME" THEN Return([s EXCEPT !.data.real_time = value], 0)
  ELSE Fail(s, "UNKNOWN_OPTION")
pcapfile_config_output(s, option, value) == ConfigOutput(s, option, value)

pcapfile_fin_input(s) == Release(IF s.io THEN wandio_destroy(s) ELSE s, "format_data")
pcapfile_fin_output(s) == Release(IF s.o.open THEN wandio_wdestroy(s) ELSE s, "out_data")

pcapfile_prepare_packet(s, p, buffer, ctrl, type, hdr) ==
  [TakeBuffer(s, p, buffer, ctrl) EXCEPT
     !.pk[p].hdr = hdr, !.pk[p].payload = hdr.id, !.pk[p].type = type]

\* A record that ends the file after its header is taken for the end of the file.
pcapfile_read_body(s, p, hdr, bytes) ==
  UNION {CASE got = "error" -> Fail(s, "errno")
           [] got = "eof" -> Return(s, 0)
           [] got = "short" -> FailStale(s)
           [] got = "full" ->
                Return([pcapfile_prepare_packet(Fill(Advance(s, bytes), p, pcapfile_framing + bytes), p,
                                                s.pk[p].buffer, "packet",
                                                s.pk[p].type, hdr) EXCEPT !.pk[p].cap = bytes],
                       pcapfile_framing + bytes) : got \in ReadBody(s, bytes)}
\* An empty packet is not prepared: its payload and its buffer's owner stay as they were.
pcapfile_read_packet(s0, p) ==
  LET s == [OwnBuffer(s0, p) EXCEPT
              !.pk[p].type = pcap_linktype_to_rt(s0.data.header.network)]
      hdr == NextRecord(s).hdr
      bytes == swapl(s.data, hdr.order, hdr.caplen)
  IN UNION {CASE got = "error" -> Fail(s, "errno")
              [] got = "eof" -> Return(s, 0)
              [] got = "short" -> FailStale(s)
              [] got = "full" ->
                   IF bytes >= BUFSIZE THEN Fail(s, "BAD_PACKET")
                   ELSE IF bytes = 0
                        THEN Return([Advance(s, 0) EXCEPT !.pk[p].hdr = hdr], pcapfile_framing)
                        ELSE pcapfile_read_body(s, p, hdr, bytes) : got \in ReadHeader(s)}

pcapfile_get_link_type(pkt) == pcap_linktype_to_libtrace(rt_to_pcap_linktype(pkt.type))
\* Only cooked and firewall packets know their direction.
pcapfile_get_direction(pkt) ==
  IF pcapfile_get_link_type(pkt) \in {"LINUX_SLL", "PFLOG"} THEN pkt.payload.dir ELSE "UNKNOWN"
pcapfile_get_capture_length(data, pkt) == swapl(data, pkt.hdr.order, pkt.hdr.caplen)
FCS == 4
pcapfile_get_wire_length(data, pkt) ==
  LET wirelen == swapl(data, pkt.hdr.order, pkt.hdr.wirelen)
  IN CASE pkt.type = pcap_linktype_to_rt("EN10MB") -> wirelen + FCS
       [] pkt.type = pcap_linktype_to_rt("IEEE802_11_RADIO") /\ pkt.payload.fcs -> wirelen + FCS
       [] pkt.type = pcap_linktype_to_rt("LINUX_SLL") /\ pkt.payload.next = "LOOPBACK" -> wirelen + FCS
       [] OTHER -> wirelen
pcapfile_set_capture_length(s, p, size, cap) ==
  IF size > cap THEN s
  ELSE [s EXCEPT !.pk[p].cap = -1, !.pk[p].hdr.caplen = swapl(s.data, s.pk[p].hdr.order, size)]

pcapfile_new_header_Fcs(link, id, caplen, wire) ==
  [fmt |-> "pcapfile", order |-> "host", caplen |-> MinOf(caplen, wire), wirelen |-> wire,
   id |-> IF id = NULL THEN Blank ELSE id]
\* The header written for a packet; pcap's wire lengths leave out Ethernet's FCS.
pcapfile_new_header(link, id, caplen, wire) ==
  LET wirelen == IF link = "ETH" THEN (IF wire >= FCS THEN wire - FCS ELSE 0) ELSE wire
  IN [fmt |-> "pcapfile", order |-> "host", caplen |-> MinOf(caplen, wirelen),
      wirelen |-> wirelen, id |-> IF id = NULL THEN Blank ELSE id]
pcapfile_file_header(link) ==
  [got |-> "full", magic |-> "MAGIC1", order |-> "host", major |-> 2, minor |-> 4,
   network |-> libtrace_to_pcap_linktype(link)]
=============================================================================
