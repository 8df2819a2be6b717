----------------------------- MODULE TraceCalls -----------------------------
(* trace.c, the event functions of format_helper.c and the conversions of   *)
(* packets in linktypes.c: every call of the library on a trace that is not *)
(* parallel, as an operator from s to its outcomes.  packet->trace is NULL, *)
(* "in" for the trace being read or "dead" for the dummy pcapfile trace     *)
(* that converted packets are given.  Resources are named in s.held:        *)
(* "trace" and "lock" for the trace, "out trace" for the one that is written.*)
EXTENDS FormatErf, FormatPcapfile, FormatsFixed, FormatPcap

(* ---- the format modules: what a format's table provides ---- *)
FileFormats == {"erf", "rawerf", "pcapfile", "tsh", "duck", "atmhdr", "pcap"} \cup LegacyFormats
Formats == FileFormats \cup {"pcapint"}
\* The order of formats_list, in which the last format to register is the first.
formats_list == <<"pcapfile", "pcap", "pcapint", "atmhdr", "legacynzix", "legacypos", "legacyeth",
                  "legacyatm", "tsh", "rawerf", "erf", "duck">>
OpsOf(fmt) ==
  CASE fmt = "erf" -> erfformat [] fmt = "rawerf" -> rawerfformat \ {"probe_magic"}
    [] fmt = "pcapfile" -> pcapfile [] fmt = "tsh" -> tshformat [] fmt = "duck" -> duck
    [] fmt = "atmhdr" -> atmhdr [] fmt = "pcap" -> pcap [] fmt = "pcapint" -> pcapint
    [] fmt = "legacyatm" -> legacyatm [] fmt = "legacypos" -> legacypos
    [] fmt = "legacyeth" -> legacyeth [] fmt = "legacynzix" -> legacynzix
Has(fmt, op) == op \in OpsOf(fmt)

FormatOf(s, p) == IF s.pk[p].trace = "dead" THEN "pcapfile" ELSE s.fmt
DataOf(s, p) == IF s.pk[p].trace = "dead" THEN NULL ELSE s.data
\* packet->trace is followed.
Deref(s, p) ==
  CASE s.pk[p].trace = NULL -> Misuse(s, "packet without a trace")
    [] s.pk[p].trace = "dead" -> s
    [] s.pk[p].trace = "in" -> Uses(s, "trace")
    [] s.pk[p].trace = "gone" -> Misuse(s, "packet of a destroyed trace")

init_input(s) ==
  CASE s.fmt \in {"erf", "rawerf"} -> erf_init_input(s)
    [] s.fmt = "pcapfile" -> pcapfile_init_input(s) [] s.fmt = "tsh" -> tsh_init_input(s)
    [] s.fmt = "duck" -> duck_init_input(s) [] s.fmt = "atmhdr" -> atmhdr_init_input(s)
    [] s.fmt = "pcap" -> pcap_init_input(s) [] s.fmt = "pcapint" -> pcapint_init_input(s)
    [] s.fmt = "legacynzix" -> legacynzix_init_input(s) [] OTHER -> legacy_init_input(s)
start_input(s) ==
  CASE s.fmt = "erf" -> erf_start_input(s) [] s.fmt = "rawerf" -> rawerf_start_input(s)
    [] s.fmt = "pcapfile" -> pcapfile_start_input(s) [] s.fmt = "tsh" -> tsh_start_input(s)
    [] s.fmt = "duck" -> duck_start_input(s) [] s.fmt = "atmhdr" -> atmhdr_start_input(s)
    [] s.fmt = "pcap" -> pcap_start_input(s) [] s.fmt = "pcapint" -> pcapint_start_input(s)
    [] OTHER -> legacy_start_input(s)
config_input(s, option, value) ==
  CASE s.fmt \in {"erf", "rawerf"} -> erf_config_input(s, option, value)
    [] s.fmt = "pcapfile" -> pcapfile_config_input(s, option, value)
    [] s.fmt = "pcap" -> pcap_config_input(s, option, value)
    [] s.fmt = "pcapint" -> pcapint_config_input(s, option, value)
fin_input(s) ==
  CASE s.fmt \in {"erf", "rawerf"} -> erf_fin_input(s)
    [] s.fmt = "pcapfile" -> pcapfile_fin_input(s) [] s.fmt = "tsh" -> tsh_fin_input(s)
    [] s.fmt = "duck" -> duck_fin_input(s) [] s.fmt = "atmhdr" -> atmhdr_fin_input(s)
    [] s.fmt \in {"pcap", "pcapint"} -> pcap_fin_input(s) [] OTHER -> legacy_fin_input(s)
read_packet(s, p) ==
  CASE s.fmt \in {"erf", "rawerf"} -> erf_read_packet(s, p)
    [] s.fmt = "pcapfile" -> pcapfile_read_packet(s, p) [] s.fmt = "tsh" -> tsh_read_packet(s, p)
    [] s.fmt = "duck" -> duck_read_packet(s, p) [] s.fmt = "atmhdr" -> atmhdr_read_packet(s, p)
    [] s.fmt \in {"pcap", "pcapint"} -> pcap_read_packet(s, p)
    [] s.fmt = "legacynzix" -> legacynzix_read_packet(s, p) [] OTHER -> legacy_read_packet(s, p)

(* ---- what a packet says of itself: the format's answer, and the cache ---- *)
get_link_type(s, p) ==
  LET fmt == FormatOf(s, p)
      pkt == s.pk[p]
  IN CASE fmt \in {"erf", "rawerf"} -> erf_get_link_type(pkt)
       [] fmt = "pcapfile" -> pcapfile_get_link_type(pkt) [] fmt = "tsh" -> tsh_get_link_type(pkt)
       [] fmt = "duck" -> duck_get_link_type(pkt) [] fmt = "atmhdr" -> atmhdr_get_link_type(pkt)
       [] fmt \in {"pcap", "pcapint"} -> pcap_get_link_type(pkt)
       [] fmt = "legacyatm" -> legacyatm_get_link_type(pkt)
       [] fmt = "legacypos" -> legacypos_get_link_type(pkt)
       [] fmt = "legacyeth" -> legacyeth_get_link_type(pkt)
       [] fmt = "legacynzix" -> legacynzix_get_link_type(pkt)
get_capture_length(s, p) ==
  LET fmt == FormatOf(s, p)
      pkt == s.pk[p]
  IN CASE fmt \in {"erf", "rawerf"} -> erf_get_capture_length(pkt)
       [] fmt = "pcapfile" -> pcapfile_get_capture_length(DataOf(s, p), pkt)
       [] fmt = "tsh" -> tsh_get_capture_length(pkt) [] fmt = "duck" -> duck_get_capture_length(pkt)
       [] fmt = "atmhdr" -> atmhdr_get_capture_length(pkt)
       [] fmt \in {"pcap", "pcapint"} -> pcap_get_capture_length(pkt)
       [] fmt = "legacynzix" -> legacynzix_get_capture_length(pkt)
       [] OTHER -> legacy_get_capture_length(pkt)
get_wire_length(s, p) ==
  LET fmt == FormatOf(s, p)
      pkt == s.pk[p]
  IN CASE fmt \in {"erf", "rawerf"} -> erf_get_wire_length(pkt)
       [] fmt = "pcapfile" -> pcapfile_get_wire_length(DataOf(s, p), pkt)
       [] fmt = "tsh" -> tsh_get_wire_length(pkt) [] fmt = "duck" -> duck_get_wire_length(pkt)
       [] fmt = "atmhdr" -> atmhdr_get_wire_length(pkt)
       [] fmt \in {"pcap", "pcapint"} -> pcap_get_wire_length(pkt)
       [] fmt = "legacyatm" -> legacyatm_get_wire_length(pkt)
       [] fmt = "legacypos" -> legacypos_get_wire_length(pkt)
       [] fmt = "legacyeth" -> legacyeth_get_wire_length(pkt)
       [] fmt = "legacynzix" -> legacynzix_get_wire_length(pkt)

LinkType(s, p) == IF s.pk[p].link # NULL THEN s.pk[p].link ELSE get_link_type(s, p)
CaptureLength(s, p) == IF s.pk[p].cap # -1 THEN s.pk[p].cap ELSE get_capture_length(s, p)
WireLength(s, p) == IF s.pk[p].wire # -1 THEN s.pk[p].wire ELSE get_wire_length(s, p)
Sane(s, n) == IF n < BUFSIZE THEN s ELSE Misuse(s, "length beyond the largest packet")
trace_get_link_type(s, p) == [Deref(s, p) EXCEPT !.pk[p].link = LinkType(s, p)]
CacheCapture(s, p, n) == [Sane(Deref(s, p), n) EXCEPT !.pk[p].cap = n]
trace_get_capture_length(s, p) == CacheCapture(s, p, CaptureLength(s, p))
CacheWire(s, p, n) == [Sane(Deref(s, p), n) EXCEPT !.pk[p].wire = n]
trace_get_wire_length(s, p) == CacheWire(s, p, WireLength(s, p))
trace_get_framing_length(s, p) ==
  LET fmt == FormatOf(s, p)
  IN CASE fmt \in {"erf", "rawerf"} -> erf_get_framing_length(s.pk[p].hdr)
       [] fmt = "pcapfile" -> pcapfile_framing [] fmt = "tsh" -> tsh_get_framing_length
       [] fmt = "duck" -> duck_get_framing_length [] fmt = "atmhdr" -> atmhdr_get_framing_length
       [] fmt \in {"pcap", "pcapint"} -> pcap_get_framing_length
       [] fmt = "legacyatm" -> legacyatm_get_framing_length
       [] fmt = "legacypos" -> legacypos_get_framing_length
       [] fmt = "legacyeth" -> legacyeth_get_framing_length
       [] fmt = "legacynzix" -> legacynzix_get_framing_length
trace_get_direction(s, p) ==
  LET fmt == FormatOf(s, p)
  IN CASE fmt \in {"erf", "rawerf"} -> erf_get_direction(s.pk[p])
       [] fmt = "pcapfile" -> pcapfile_get_direction(s.pk[p])
       [] fmt = "tsh" -> tsh_get_direction(s.pk[p])
       [] fmt \in {"pcap", "pcapint"} -> pcap_get_direction(s.pk[p])
       [] OTHER -> "UNKNOWN"
\* Fills the three caches.  The bytes to decode are at most the wire length.
trace_get_packet_buffer(s, p) ==
  trace_get_wire_length(trace_get_capture_length(trace_get_link_type(s, p), p), p)
Decodable(wire, cap) == IF wire < 0 THEN cap ELSE MinOf(wire, cap)
Remaining(s, p) == Decodable(WireLength(s, p), CaptureLength(s, p))

set_capture_length(s, p, size, cap) ==
  LET fmt == FormatOf(s, p)
  IN CASE fmt \in {"erf", "rawerf"} -> erf_set_capture_length(s, p, size, cap)
       [] fmt = "pcapfile" -> pcapfile_set_capture_length(s, p, size, cap)
       [] fmt \in {"pcap", "pcapint"} -> pcap_set_capture_length(s, p, size, cap)
trace_set_capture_length(s, p, size) ==
  IF ~Has(FormatOf(s, p), "set_capture_length") THEN s
  ELSE trace_get_capture_length(set_capture_length(trace_get_capture_length(s, p), p, size,
                                                   CaptureLength(s, p)), p)

(* ---- packets ---- *)
Struct(p) == "packet " \o p
trace_create_packet(s, p) == [Acquire(s, Struct(p)) EXCEPT !.pk[p] = FreshPacket]
\* The library's lock lives in the trace; trace_destroy destroys it first.
LockTrace(s, p) ==
  IF s.pk[p].trace = "in" /\ "lock" \notin s.held
  THEN Misuse(s, "locked a destroyed mutex") ELSE s
trace_fin_packet(s0, p) ==
  LET s == IF s0.pk[p].trace = NULL THEN s0 ELSE LockTrace(Deref(s0, p), p)
      t == [s EXCEPT !.last = IF s.pk[p].trace = "in" /\ @ = p THEN NULL ELSE @,
                     !.pk[p].trace = NULL, !.pk[p].hdr = NULL, !.pk[p].payload = NULL,
                     !.pk[p].buffer = IF s.pk[p].ctrl # "packet" THEN NULL ELSE @,
                     !.pk[p].order = 0]
  IN trace_clear_cache(t, p)
trace_destroy_packet_Last(s, p) ==
  LET t == [s EXCEPT !.pk[p] = [FreshPacket EXCEPT !.ctrl = "bad"]]
  IN Release(IF s.pk[p].ctrl = "packet" /\ s.pk[p].buffer # NULL
             THEN Release(t, s.pk[p].buffer) ELSE t, Struct(p))
trace_destroy_packet(s0, p) ==
  LET s == IF s0.pk[p].trace = NULL THEN s0 ELSE Deref(s0, p)
      t == [s EXCEPT !.last = IF s.pk[p].trace = "in" /\ @ = p THEN NULL ELSE @,
                     !.pk[p] = [FreshPacket EXCEPT !.ctrl = "bad"]]
  IN Release(IF s.pk[p].ctrl = "packet" /\ s.pk[p].buffer # NULL
             THEN Release(t, s.pk[p].buffer) ELSE t, Struct(p))
trace_copy_packet_Order(s, p, q) ==
  [Acquire(Acquire(s, Struct(q)), Buf(q)) EXCEPT
     !.pk[q] = [FreshPacket EXCEPT !.trace = s.pk[p].trace, !.buffer = Buf(q), !.room = BUFSIZE,
                  !.hdr = s.pk[p].hdr, !.type = s.pk[p].type, !.payload = s.pk[p].payload]]
\* A copy always has a payload, even when the packet had none.
trace_copy_packet(s, p, q) ==
  LET seen == trace_get_capture_length(s, p)
      copy == [FreshPacket EXCEPT
                 !.trace = s.pk[p].trace, !.buffer = Buf(q), !.room = BUFSIZE,
                 !.hdr = s.pk[p].hdr, !.type = s.pk[p].type, !.order = s.pk[p].order,
                 !.payload = IF s.pk[p].payload = NULL THEN Blank ELSE s.pk[p].payload]
      need == trace_get_framing_length(s, p) + CaptureLength(s, p)
  IN Fill([Acquire(Acquire(seen, Struct(q)), Buf(q)) EXCEPT !.pk[q] = copy], q, need)

\* Replaces the packet's buffer by one of n bytes that holds a pcapfile packet.
Reseat(s, p, n, hdr, type) ==
  LET freed == IF s.pk[p].ctrl = "external" \/ s.pk[p].buffer = NULL THEN s
               ELSE Release(s, s.pk[p].buffer)
  IN trace_clear_cache([Acquire(freed, Buf(p)) EXCEPT
       !.pk[p].buffer = Buf(p), !.pk[p].ctrl = "packet", !.pk[p].room = n, !.pk[p].hdr = hdr,
       !.pk[p].payload = hdr.id, !.pk[p].type = type, !.pk[p].trace = "dead"], p)
trace_construct_packet(s, p, linktype, id, len) ==
  Reseat(s, p, len + pcapfile_framing,
         [NoPcapHeader EXCEPT !.caplen = len, !.wirelen = len, !.id = id],
         pcap_linktype_to_rt(libtrace_to_pcap_linktype(linktype)))

atm_cell == 4
sll_header == 16
Demote(s, p, link, cap, wire) ==
  LET next == IF link = "LINUX_SLL" THEN s.pk[p].payload.next ELSE NULL
      t == [s EXCEPT !.pk[p].type = pcap_linktype_to_rt(IF next = "LOOPBACK" THEN "EN10MB" ELSE "RAW")]
  IN CASE link = "ATM" /\ cap < atm_cell ->
            Return([trace_get_capture_length(s, p) EXCEPT !.pk[p].payload = NULL], FALSE)
       [] link = "ATM" /\ cap >= atm_cell ->
            Return(Reseat(s, p, cap + pcapfile_framing,
                          [NoPcapHeader EXCEPT !.caplen = cap - atm_cell, !.wirelen = wire - atm_cell,
                                               !.id = s.pk[p].payload],
                          pcap_linktype_to_rt("ATM_RFC1483")), TRUE)
       [] link = "LINUX_SLL" /\ next \in {"PPP", "LOOPBACK", "IP", "IPV6"} ->
            Return(trace_clear_cache(IF cap < sll_header THEN t      \* the difference wraps around
                                     ELSE trace_set_capture_length(t, p, cap - sll_header), p), TRUE)
       [] OTHER -> Return(s, FALSE)
\* Takes one layer of encapsulation off; ret says whether there was one to take.
demote_packet(s, p) ==
  Demote(trace_get_link_type(s, p), p, LinkType(s, p), CaptureLength(s, p), WireLength(s, p))

-----------------------------------------------------------------------------
(* The calls that make, read, pause and destroy a trace, its events and its *)
(* filter.                                                                  *)

(* ---- trace_create ---- *)
probe_magic(fmt, file) ==
  CASE fmt = "erf" -> erf_probe_magic(file) [] fmt = "pcapfile" -> pcapfile_probe_magic(file)
\* The first format, of those that look inside files, that knows the file; NULL if none does.
guess_format(file) ==
  LET knows == {i \in DOMAIN formats_list : /\ Has(formats_list[i], "probe_magic")
                                            /\ probe_magic(formats_list[i], file)}
  IN IF knows = {} THEN NULL ELSE formats_list[Min(knows)]
\* No format: the file that was opened to look at it is closed again.
Guess(s) ==
  UNION {IF ~t.io THEN {t}
         ELSE LET fmt == guess_format(t.file)
              IN {IF fmt = NULL THEN wandio_destroy(t) ELSE [t EXCEPT !.fmt = fmt]} : t \in wandio_create(s)}
FreshTrace(s) ==
  [Acquire(Acquire(s, "trace"), "lock") EXCEPT
     !.fmt = NULL, !.err = "NOERROR", !.started = FALSE, !.io = FALSE, !.data = NULL, !.filter = NULL,
     !.snaplen = 0, !.accepted = 0, !.filtered = 0, !.seq = 0, !.last = NULL,
     !.evt = [packet |-> FALSE, tdelta |-> FALSE, waiting |-> FALSE]]
InitInput(s) ==
  {IF o.ret = 0
   THEN trace_set_err(IF "scan" \in o.s.held THEN Release(o.s, "scan") ELSE o.s, "NOERROR") ELSE o.s
   : o \in init_input(s)}
\* uri: the name of a format, or "guess" for a URI that names none.
trace_parse_uri(s, uri) == IF uri = "guess" THEN s ELSE Acquire(s, "scan")
\* The name that was copied out of the URI is freed only if all goes well.
trace_create(s0, uri) ==
  LET s == trace_parse_uri(FreshTrace(s0), uri)
      known == IF uri = "guess" THEN Guess(s)
               ELSE {[s EXCEPT !.fmt = IF uri \in Formats THEN uri ELSE NULL]}
  IN {Out(Lose(t, "scan"), 0) :
        t \in UNION {IF k.fmt = NULL THEN {trace_set_err(k, "BAD_FORMAT")} ELSE InitInput(k) : k \in known}}

trace_start(s) ==
  IF s.err # "NOERROR" THEN Return(s, -1)
  ELSE {Out([o.s EXCEPT !.started = (o.ret >= 0) \/ @], o.ret) : o \in start_input(s)}

\* "assert(libtrace->last_packet == NULL)", which trace_fin_packet may not make so.
NoLastPacket(s) == IF s.last = NULL THEN s ELSE Misuse(s, "last packet not finished")
FinLast(s) == NoLastPacket(IF s.last = NULL THEN s ELSE trace_fin_packet(Uses(s, Struct(s.last)), s.last))
trace_pause(s) ==
  IF ~s.started THEN Fail(s, "BAD_STATE")
  ELSE LET t == FinLast(s)
       IN Return([IF Has(t.fmt, "pause_input") THEN pcap_pause_input(t) ELSE t EXCEPT !.started = FALSE], 0)

\* What trace_config does itself when the format does not.
OwnOption(s, option, value) ==
  CASE option = "SNAPLEN" ->
         Return([s EXCEPT !.err = IF value < 0 \/ value > BUFSIZE THEN "BAD_STATE" ELSE "NOERROR",
                          !.snaplen = value], 0)
    [] option = "FILTER" -> Return([s EXCEPT !.err = "NOERROR", !.filter = [flag |-> FALSE, link |-> NULL]], 0)
    [] OTHER -> Return(IF s.err # "NOERROR" THEN s
                       ELSE trace_set_err(s, IF option \in {"PROMISC", "META_FREQ", "EVENT_REALTIME"}
                                             THEN "OPTION_UNAVAIL" ELSE "UNKNOWN_OPTION"), -1)
trace_config(s, option, value) ==
  IF s.err # "NOERROR" THEN Return(s, -1)
  ELSE IF ~Has(s.fmt, "config_input") THEN OwnOption(s, option, value)
  ELSE Then(config_input(s, option, value),
            LAMBDA o : IF o.ret = 0 THEN {o} ELSE OwnOption(o.s, option, value))

\* The lock goes first; the packet of the event functions goes without its buffer.
trace_destroy(s0) ==
  LET s == FinLast(Release(s0, "lock"))
      t == IF s.fmt = NULL THEN s
           ELSE fin_input(IF s.started /\ Has(s.fmt, "pause_input") THEN pcap_pause_input(s) ELSE s)
      u == IF t.evt.packet THEN [Release(t, Struct("event")) EXCEPT !.evt.packet = FALSE] ELSE t
  IN [Release(Lose(u, "io"), "trace") EXCEPT !.fmt = NULL, !.started = FALSE, !.data = NULL, !.io = FALSE]

(* ---- filters ---- *)
trace_bpf_compile(s, p, link) ==
  IF s.filter.flag THEN Return(s, 0)
  ELSE Return([s EXCEPT !.filter = [flag |-> TRUE, link |-> link]], 0) \cup
       (IF "filter" \in s.faults     \* the error goes to the packet's trace, perhaps the dummy
        THEN Return(IF s.pk[p].trace = "dead" THEN s ELSE trace_set_err(s, "BAD_FILTER"), -1) ELSE {})
\* A program compiled for another link type looks in the wrong places.
bpf_filter(s, p, link) ==
  IF s.filter.link = link THEN {IF s.pk[p].payload.n \in s.match THEN 1 ELSE 0} ELSE {0, 1}
FilterBuffer(s, p, link) ==
  IF s.pk[p].payload = NULL THEN Return(s, 0)
  ELSE Then(trace_bpf_compile(s, p, link),
            LAMBDA o : IF o.ret = -1 THEN {o} ELSE {Out(o.s, r) : r \in bpf_filter(o.s, p, link)})
RunFilter(s, p) == FilterBuffer(trace_get_packet_buffer(s, p), p, LinkType(s, p))
RECURSIVE FilterDemoted(_, _)
FilterDemoted(s, q) ==
  IF libtrace_to_pcap_dlt(LinkType(s, q)) # "ERROR" THEN RunFilter(s, q)
  ELSE Then(demote_packet(s, q),
            LAMBDA d : IF d.ret THEN FilterDemoted(d.s, q) ELSE Fail(d.s, "NO_CONVERSION"))
FilterOfType(s, p, link) ==
  CASE link = "NONDATA" -> Return(s, 1)
    [] libtrace_to_pcap_dlt(link) # "ERROR" -> RunFilter(s, p)
    [] OTHER -> {Out(trace_destroy_packet(o.s, "scratch"), o.ret) :
                   o \in FilterDemoted(trace_copy_packet(s, p, "scratch"), "scratch")}
trace_apply_filter(s, p) == FilterOfType(trace_get_link_type(s, p), p, LinkType(s, p))

(* ---- reading ---- *)
Accept_Uncounted(s, p) == [s EXCEPT !.pk[p].order = s.seq, !.seq = @ + 1, !.last = p]
Snapped(s, p) == IF s.snaplen > 0 THEN trace_set_capture_length(s, p, s.snaplen) ELSE s
Accept(s, p) ==
  [Snapped(s, p) EXCEPT !.pk[p].order = s.seq, !.accepted = @ + 1, !.seq = @ + 1,
                        !.last = IF s.pk[p].trace = "in" THEN p ELSE @]
RECURSIVE ReadLoop(_, _)
ReadLoop(s, p) ==
  Then(read_packet([s EXCEPT !.pk[p].trace = "in"], p),
       LAMBDA o :
         IF o.ret <= 0 THEN {o}
         ELSE IF o.s.filter = NULL THEN Return(Accept(o.s, p), o.ret)
         ELSE Then(trace_apply_filter(o.s, p),
                   LAMBDA f : CASE f.ret = -1 -> {f}
                                [] f.ret = 0 -> ReadLoop(trace_fin_packet([f.s EXCEPT !.filtered = @ + 1], p), p)
                                [] f.ret = 1 -> Return(Accept(f.s, p), o.ret)))
FinIfOurs(s, p) == IF s.pk[p].trace = "in" THEN trace_fin_packet(s, p) ELSE s
trace_read_packet_AfterError(s, p) ==
  IF ~s.started THEN Fail(s, "BAD_STATE") ELSE ReadLoop(FinIfOurs(s, p), p)
trace_read_packet(s, p) ==
  IF s.err # "NOERROR" THEN Return(s, -1)
  ELSE IF ~s.started \/ s.pk[p].ctrl \notin {"packet", "external"} THEN Fail(s, "BAD_STATE")
  ELSE ReadLoop(FinIfOurs(s, p), p)

(* ---- events ---- *)
\* trace_perror prints the error and clears it.
trace_perror(s) == trace_set_err(s, "NOERROR")
EndOfEvents(s, p) ==
  LET t == [trace_destroy_packet(trace_perror(s), "event") EXCEPT !.evt.packet = FALSE]
  IN [t EXCEPT !.pk[p].buffer = NULL, !.pk[p].hdr = NULL, !.pk[p].payload = NULL, !.pk[p].ctrl = "external"]
\* The packet that was read becomes the user's, with the buffer it is in.
HandOver(s, p) ==
  [s EXCEPT !.pk[p].type = s.pk["event"].type, !.pk[p].trace = s.pk["event"].trace,
            !.pk[p].hdr = s.pk["event"].hdr, !.pk[p].payload = s.pk["event"].payload,
            !.pk[p].buffer = s.pk["event"].buffer, !.pk[p].ctrl = s.pk["event"].ctrl,
            !.pk[p].room = s.pk["event"].room, !.evt.tdelta = TRUE, !.evt.waiting = FALSE]
DueEvent_Forgets(s, p) ==
  Return(HandOver(s, p), "PACKET") \cup (IF s.evt.tdelta THEN Return(s, "SLEEP") ELSE {})
DueEvent(s0, p) ==
  LET s == Deref(s0, "event")
  IN Return(HandOver(s, p), "PACKET") \cup
     (IF s.evt.tdelta THEN Return([s EXCEPT !.evt.waiting = TRUE], "SLEEP") ELSE {})
trace_event_trace(s0, p) ==
  LET s == IF s0.evt.packet THEN s0
           ELSE [trace_create_packet(s0, "event") EXCEPT !.evt.packet = TRUE]
  IN IF s.evt.waiting THEN DueEvent(s, p)
     ELSE Then(trace_read_packet(s, "event"),
               LAMBDA o : IF o.ret < 1 THEN Return(EndOfEvents(o.s, p), "TERMINATE")
                          ELSE DueEvent(o.s, p))
ReadEvent(s, p, Clear(_)) ==
  {IF o.ret < 1 THEN Out(Clear(o.s), "TERMINATE") ELSE Out(o.s, "PACKET") : o \in trace_read_packet(s, p)}
\* A device is asked first: it may have nothing to read.
trace_event_device(s, p) == Return(s, "IOWAIT") \cup ReadEvent(s, p, trace_perror)
trace_event(s0, p) ==
  LET s == [trace_fin_packet(s0, p) EXCEPT !.pk[p].trace = "in"]
      real_time == s.fmt \in {"erf", "rawerf", "pcapfile"} /\ s.data.real_time
  IN CASE ~Has(s.fmt, "trace_event") -> Return(s, "IOWAIT")
       [] s.fmt = "pcapint" -> trace_event_device(s, p)
       [] OTHER -> IF real_time THEN ReadEvent(s, p, LAMBDA t : t) ELSE trace_event_trace(s, p)

-----------------------------------------------------------------------------
(* Traces that are written: the calls of trace.c on a libtrace_out_t, which *)
(* is s.o, and write_packet of the formats that have it.                    *)

NoOutput == [fmt |-> NULL, err |-> "NOERROR", started |-> FALSE, open |-> FALSE, level |-> 0,
             compress_type |-> "none", flags |-> 0, dag_version |-> "0", header |-> NULL,
             dump |-> FALSE, recs |-> <<>>, torn |-> FALSE]

init_output(s) ==
  CASE s.o.fmt \in {"erf", "rawerf"} -> erf_init_output(s)
    [] s.o.fmt = "pcapfile" -> pcapfile_init_output(s) [] s.o.fmt = "duck" -> duck_init_output(s)
    [] s.o.fmt = "pcap" -> pcap_init_output(s) [] s.o.fmt = "pcapint" -> pcapint_init_output(s)
start_output(s) ==
  CASE s.o.fmt \in {"erf", "rawerf"} -> erf_start_output(s)
    [] s.o.fmt = "pcapfile" -> pcapfile_start_output(s) [] s.o.fmt = "duck" -> duck_start_output(s)
fin_output(s) ==
  CASE s.o.fmt \in {"erf", "rawerf"} -> erf_fin_output(s)
    [] s.o.fmt = "pcapfile" -> pcapfile_fin_output(s) [] s.o.fmt = "duck" -> duck_fin_output(s)
    [] s.o.fmt = "pcap" -> pcap_fin_output(s) [] s.o.fmt = "pcapint" -> pcapint_fin_output(s)

\* A URI that names no format ("guess") is not guessed.  The messages about a format that is
\* unknown or cannot be written give its name, which has been freed.
trace_create_output(s0, uri) ==
  LET s == [Acquire(s0, "out trace") EXCEPT !.o = [NoOutput EXCEPT !.fmt = IF uri \in Formats THEN uri ELSE NULL]]
      t == Release(trace_parse_uri(s, uri), "scan")
  IN IF uri = "guess" THEN trace_set_err_out(s, "BAD_FORMAT")
     ELSE IF s.o.fmt = NULL THEN trace_set_err_out(Uses(t, "scan"), "BAD_FORMAT")
     ELSE IF Has(s.o.fmt, "init_output") THEN (CHOOSE o \in init_output(t) : TRUE).s
     ELSE trace_set_err_out(Uses(t, "scan"), "UNSUPPORTED")
trace_config_output(s, option, value) ==
  IF Has(s.o.fmt, "config_output") THEN ConfigOutput(s, option, value) ELSE Return(s, -1)
trace_start_output(s) ==
  {Out(IF o.ret < 0 THEN o.s ELSE [o.s EXCEPT !.o.started = TRUE], o.ret) :
     o \in IF Has(s.o.fmt, "start_output") THEN start_output(s) ELSE Return(s, 0)}
trace_destroy_output(s) ==
  [Release(IF s.o.fmt # NULL /\ Has(s.o.fmt, "fin_output") THEN fin_output(s) ELSE s, "out trace") EXCEPT
     !.o.fmt = NULL, !.o.started = FALSE]

(* ---- write_packet ---- *)
\* Headers are popped off a packet until the output has a type for what is left.
Convertible(to, link) ==
  CASE to = "erf" -> libtrace_to_erf_type(link) # "255"
    [] to = "pcap" -> libtrace_to_pcap_linktype(link) # "ERROR"
RECURSIVE Demoted(_, _, _)
Demoted(s, p, to) ==
  IF Convertible(to, LinkType(s, p)) THEN Return(s, TRUE)
  ELSE Then(demote_packet(s, p), LAMBDA d : IF d.ret THEN Demoted(d.s, p, to) ELSE {d})

find_compatible_linktype(s, p) == Demoted(s, p, "erf")
\* An ERF packet is copied, with its length put right; another gets a header made up for it.
erf_dump_converted(s, p, dir) ==
  LET cap == s.pk[p].cap
      hdr == erf_new_header(s.pk[p].link, s.pk[p].payload, cap, s.pk[p].wire, dir)
  IN erf_dump_packet(IF cap > 0 THEN s ELSE Misuse(s, "empty packet for ERF"), hdr, hdr.rlen - cap, cap)
erf_convert_packet(s, p) ==
  Then(find_compatible_linktype(s, p),
       LAMBDA d : IF d.ret THEN erf_dump_converted(trace_get_packet_buffer(d.s, p), p,
                                                   trace_get_direction(s, p))
                  ELSE FailOut(d.s, "NO_CONVERSION"))
erf_write_typed(s, p) ==
  IF s.pk[p].type = "ERF"
  THEN erf_dump_packet(trace_get_capture_length(s, p), s.pk[p].hdr,
                       trace_get_framing_length(s, p), CaptureLength(s, p))
  ELSE erf_convert_packet(s, p)
\* A packet without payload gets the record length of its header.
erf_put_right(s, p) ==
  IF s.pk[p].payload # NULL THEN s
  ELSE IF s.pk[p].type = "ERF"
       THEN [s EXCEPT !.pk[p].hdr.rlen = dag_record_size + erf_get_padding(s.pk[p].hdr)]
       ELSE Misuse(s, "wrote over a foreign header")
erf_write_packet(s0, p) ==
  Then({trace_get_link_type(s0, p)},
       LAMBDA s : IF s.pk[p].link = "NONDATA" THEN Return(s, 0)
                  ELSE IF s.pk[p].hdr = NULL THEN Return(s, -1)
                  ELSE erf_write_typed(erf_put_right(s, p), p))

\* The file and its header are made when the first packet comes.
pcapfile_open_output(s, link) ==
  IF s.o.open THEN {s}
  ELSE {IF t.o.open THEN [t EXCEPT !.o.header = pcapfile_file_header(link)] ELSE trace_set_err_out(t, "errno")
        : t \in trace_open_file_out(s, s.o.compress_type, s.o.level)}
\* A write that fails is not reported as an error of the trace.
pcapfile_dump(s, hdr) ==
  IF ~s.o.open THEN Return(s, -1)
  ELSE {Out(w.s, IF w.ok THEN pcapfile_framing + hdr.caplen ELSE -1) : w \in WriteRecord(s, hdr, hdr.caplen)}
pcapfile_write_converted(s, p) ==
  Then(pcapfile_open_output(s, s.pk[p].link),
       LAMBDA t : pcapfile_dump(t, pcapfile_new_header(s.pk[p].link, s.pk[p].payload, s.pk[p].cap, s.pk[p].wire)))
pcapfile_write_packet(s0, p) ==
  Then({trace_get_packet_buffer(s0, p)},
       LAMBDA s : IF s.pk[p].link \in {"NONDATA", "UNKNOWN"} THEN Return(s, 0)
                  ELSE Then(Demoted(s, p, "pcap"),
                            LAMBDA d : IF d.ret THEN pcapfile_write_converted(trace_get_packet_buffer(d.s, p), p)
                                       ELSE FailOut(Misuse(d.s, "no pcap type"), "NO_CONVERSION")))

pcap_dump(s, pkt, hdr) ==
  IF pkt.payload = NULL THEN s
  ELSE IF ~s.o.dump THEN Misuse(s, "dumped to no file")
  ELSE [s EXCEPT !.o.recs = Append(@, [hdr |-> hdr, body |-> hdr.caplen])]
pcap_write_converted(s, p) ==
  {IF ~w.ok THEN Out(w.s, -1)
   ELSE Out(pcap_dump(w.s, s.pk[p],
                      pcap_new_header(s.pk[p], FormatOf(s, p) \in {"pcap", "pcapint"}, s.pk[p].link,
                                      Decodable(s.pk[p].wire, s.pk[p].cap), s.pk[p].wire)), 0)
   : w \in pcap_open_output(s, s.pk[p].link)}
pcap_write_packet(s, p) ==
  Then(Demoted(trace_get_packet_buffer(s, p), p, "pcap"),
       LAMBDA d : IF d.ret THEN pcap_write_converted(trace_get_packet_buffer(d.s, p), p)
                  ELSE FailOut(d.s, "NO_CONVERSION"))
\* Without a handle the packet is injected into nothing.
pcapint_inject(s, p) ==
  LET cap == s.pk[p].cap
      hdr == [fmt |-> "pcap", caplen |-> cap, len |-> cap, id |-> s.pk[p].payload]
  IN Then(IF s.o.open THEN {s} ELSE wandio_wcreate(s),
          LAMBDA t : IF ~t.o.open THEN Return(Misuse(t, "closed no file"), -1)
                     ELSE {Out(w.s, IF w.ok THEN cap ELSE -1) : w \in WriteRecord(t, hdr, cap)})
pcapint_write_packet(s0, p) ==
  Then({trace_get_link_type(s0, p)},
       LAMBDA s : IF s.pk[p].link = "NONDATA" THEN Return(s, 0)
                  ELSE pcapint_inject(trace_get_capture_length(s, p), p))

write_packet(s, p) ==
  CASE s.o.fmt \in {"erf", "rawerf"} -> erf_write_packet(s, p)
    [] s.o.fmt = "pcapfile" -> pcapfile_write_packet(s, p) [] s.o.fmt = "duck" -> duck_write_packet(s, p)
    [] s.o.fmt = "pcap" -> pcap_write_packet(s, p) [] s.o.fmt = "pcapint" -> pcapint_write_packet(s, p)
trace_write_packet(s, p) ==
  IF ~s.o.started THEN FailOut(s, "BAD_STATE")
  ELSE IF Has(s.o.fmt, "write_packet") THEN write_packet(s, p) ELSE FailOut(s, "UNSUPPORTED")
=============================================================================
