------------------------------- MODULE Trace -------------------------------
(* A program that reads a trace, and perhaps writes another, with the calls *)
(* of the library in any order it may.  conf, taken from Configs, says what *)
(* there is to read, what may fail and which calls the program makes:       *)
(*   uri, out      the formats, or "guess" and NULL                         *)
(*   file          what is read: see TraceBase                              *)
(*   faults, stale which calls below may fail, and what errno may then be   *)
(*   match         numbers of the packets that a filter lets through        *)
(*   options       <<option, value>> given to trace_config                  *)
(*   calls         the calls it makes besides create, start and destroy     *)
(*   tidy          whether it destroys a trace only when no packet but the  *)
(*                 last one read points to it                               *)
EXTENDS TraceCalls

CONSTANTS Configs, MaxTraces, MaxReads

VARIABLES conf, s, full, got, copied, written, ret, traces
vars == <<conf, s, full, got, copied, written, ret, traces>>

Packets == {"user", "event", "copy", "scratch"}
Alive == "trace" \in s.held
Exists(p) == Struct(p) \in s.held
Calls(c) == c \in conf.calls

Init ==
  /\ conf \in Configs
  /\ s = [fmt |-> NULL, err |-> "NOERROR", started |-> FALSE, io |-> FALSE, data |-> NULL,
          filter |-> NULL, snaplen |-> 0, accepted |-> 0, filtered |-> 0, seq |-> 0, last |-> NULL,
          evt |-> [packet |-> FALSE, tdelta |-> FALSE, waiting |-> FALSE],
          pk |-> [p \in Packets |-> FreshPacket], file |-> conf.file, faults |-> conf.faults,
          stale_errno |-> conf.stale, match |-> conf.match, consumed |-> 0, held |-> {}, bad |-> {},
          o |-> NoOutput]
  /\ full = {} /\ got = <<>> /\ copied = NULL /\ written = <<>> /\ traces = 0
  /\ ret = [call |-> "none", val |-> 0, bad |-> {}]

\* A call with outcomes `outcomes`: the packets the program may look at become NewFull(o), and
\* ret tells what the call returned and misused.
Does(call, outcomes, NewFull(_)) ==
  \E o \in outcomes :
    /\ s' = [o.s EXCEPT !.bad = {}]
    /\ ret' = [call |-> call, val |-> o.ret, bad |-> o.s.bad]
    /\ full' = NewFull(o)
    /\ UNCHANGED conf
Same(o) == full
Only(call, outcomes) == Does(call, outcomes, Same) /\ UNCHANGED <<got, copied, written, traces>>

(* ---- the trace ---- *)
Create ==
  /\ ~Alive /\ traces < MaxTraces
  /\ traces' = traces + 1
  /\ got' = <<>>
  /\ Does("create", trace_create([s EXCEPT !.file.pos = 0, !.consumed = 0], conf.uri), Same)
  /\ UNCHANGED <<copied, written>>
Config ==
  /\ Alive /\ s.fmt # NULL /\ ~s.started /\ got = <<>>
  /\ \E o \in conf.options : Only("config", trace_config(s, o[1], o[2]))
Start ==
  /\ Alive /\ s.fmt # NULL /\ ~s.started
  /\ Only("start", trace_start(s))
\* The packet read last is finished; only copies remain.
Pause ==
  /\ Calls("pause") /\ Alive /\ s.fmt # NULL
  /\ Does("pause", trace_pause(s), LAMBDA o : IF o.ret = 0 THEN full \cap {"copy"} ELSE full)
  /\ UNCHANGED <<got, copied, written, traces>>
GetErr ==
  /\ Calls("geterr") /\ Alive /\ s.fmt # NULL
  /\ s.err \in {"BAD_STATE", "OPTION_UNAVAIL", "UNKNOWN_OPTION"}
  /\ Only("geterr", Return(trace_perror(s), 0))
\* A packet that outlives its trace keeps a pointer to it, unless it was the last one read.
Orphan(t) ==
  [t EXCEPT !.pk = [p \in Packets |-> [t.pk[p] EXCEPT !.trace = IF @ = "in" THEN "gone" ELSE @]]]
Destroy ==
  /\ Alive
  /\ conf.tidy => s.pk["copy"].trace # "in" /\ (s.pk["user"].trace # "in" \/ s.last = "user")
  /\ Calls("event") => ~Exists("user")
  /\ Does("destroy", Return(Orphan(trace_destroy(s)), 0), LAMBDA o : full \ {"user"})
  /\ UNCHANGED <<got, copied, written, traces>>

(* ---- packets ---- *)
\* With events the packet shares its buffer with the trace's own: a program uses one packet
\* for all events of a trace and none but those (one of its own would lose its buffer).
CreatePacket ==
  /\ ~Exists("user")
  /\ Calls("event") => got = <<>> /\ ~s.evt.packet
  /\ Only("create packet", Return(trace_create_packet(s, "user"), 0))
DestroyPacket ==
  /\ \E p \in {"user", "copy"} :
       /\ Exists(p)
       /\ Does("destroy packet", Return(trace_destroy_packet(s, p), 0), LAMBDA o : full \ {p})
  /\ UNCHANGED <<got, copied, written, traces>>
Number(t, p) ==
  CASE t.pk[p].hdr # NULL -> t.pk[p].hdr.id.n
    [] OTHER -> IF t.pk[p].payload # NULL THEN t.pk[p].payload.n ELSE 0
Deliver(t, delivered) == got' = IF delivered THEN Append(got, Number(t, "user")) ELSE got
Read ==
  /\ Calls("read") /\ Alive /\ Exists("user") /\ s.fmt # NULL /\ Len(got) < MaxReads
  /\ Does("read", trace_read_packet(s, "user"),
          LAMBDA o : IF o.ret > 0 THEN full \cup {"user"} ELSE full \ {"user"})
  /\ Deliver(s', ret'.val > 0)
  /\ UNCHANGED <<copied, written, traces>>
Event ==
  /\ Calls("event") /\ Alive /\ Exists("user") /\ s.started /\ Len(got) < MaxReads
  /\ s.pk["user"].ctrl # "external"        \* not after TERMINATE
  /\ Does("event", trace_event(s, "user"),
          LAMBDA o : IF o.ret = "PACKET" THEN full \cup {"user"} ELSE full \ {"user"})
  /\ Deliver(s', ret'.val = "PACKET")
  /\ UNCHANGED <<copied, written, traces>>
\* The program asks for the link type and the lengths, which are then cached.
Look ==
  /\ Calls("look")
  /\ \E p \in full : Only("look", Return(trace_get_packet_buffer(s, p), 0))
Snap ==
  /\ Calls("snap") /\ "user" \in full
  /\ \E size \in conf.snaps : Only("snap", Return(trace_set_capture_length(s, "user", size), 0))
View(t, p) ==
  [cap |-> CaptureLength(t, p), wire |-> WireLength(t, p), link |-> LinkType(t, p),
   dir |-> trace_get_direction(t, p), n |-> Number(t, p), order |-> t.pk[p].order]
Copy ==
  /\ Calls("copy") /\ "user" \in full /\ ~Exists("copy")
  /\ copied' = View(s, "user")
  /\ Does("copy", Return(trace_copy_packet(s, "user", "copy"), 0), LAMBDA o : full \cup {"copy"})
  /\ UNCHANGED <<got, written, traces>>

(* ---- the output ---- *)
CreateOutput ==
  /\ conf.out # NULL /\ "out trace" \notin s.held /\ written = <<>> /\ ~s.o.torn
  /\ s.o.recs = <<>>
  /\ Only("create output", Return(trace_create_output(s, conf.out), 0))
ConfigOutputs ==
  /\ s.o.fmt # NULL /\ ~s.o.started
  /\ \E o \in conf.outputs : Only("config output", trace_config_output(s, o[1], o[2]))
StartOutput ==
  /\ s.o.fmt # NULL /\ ~s.o.started /\ s.o.err = "NOERROR"
  /\ Only("start output", trace_start_output(s))
Write ==
  /\ s.o.fmt # NULL /\ "user" \in full /\ s.o.err = "NOERROR"
  /\ Len(written) < Len(got)
  /\ Does("write", trace_write_packet(s, "user"), Same)
  /\ written' = IF Len(s'.o.recs) > Len(s.o.recs) THEN Append(written, View(s', "user")) ELSE written
  /\ UNCHANGED <<got, copied, traces>>
DestroyOutput ==
  /\ "out trace" \in s.held
  /\ Only("destroy output", Return(trace_destroy_output(s), 0))

Next ==
  \/ Create \/ Config \/ Start \/ Pause \/ GetErr \/ Destroy
  \/ CreatePacket \/ DestroyPacket \/ Read \/ Event \/ Look \/ Snap \/ Copy
  \/ CreateOutput \/ ConfigOutputs \/ StartOutput \/ Write \/ DestroyOutput
Spec == Init /\ [][Next]_vars

(* ---- properties ---- *)
\* The numbers of the file's packets that the filter in force lets through, in order.  The
\* packets of NZIX files that have no length are not packets.
Filtering ==
  s.filter # NULL \/ (s.fmt \in {"pcap", "pcapint"} /\ s.data # NULL /\ s.data.filter)
Passes(n) ==
  /\ Filtering => n \in s.match
  /\ s.fmt = "legacynzix" => s.file.recs[n].hdr.len # 0
Expected ==
  SelectSeq([i \in 1 .. Len(s.file.recs) - s.consumed |-> i + s.consumed], Passes)

\* The state of a trace, its packets and its output is one the library's types allow.
TypeOK ==
  /\ s.fmt \in Formats \cup {NULL} /\ s.last \in Packets \cup {NULL}
  /\ s.started \in BOOLEAN /\ s.io \in BOOLEAN /\ full \subseteq Packets
  /\ s.file.pos \in 0 .. Len(s.file.recs)
  /\ \A p \in Packets : /\ s.pk[p].trace \in {NULL, "in", "dead", "gone"}
                         /\ s.pk[p].ctrl \in {"packet", "external", "bad"}
                         /\ s.pk[p].buffer \in {Buf(q) : q \in Packets} \cup {NULL}

\* What a call misuses, given the states before and after it.  The code slips in six places: a
\* trace_create that fails leaks the format's name (trace.c:322, 339, 344), a
\* trace_create_output that fails prints it after freeing it (483, 504), trace_destroy locks
\* the mutex it has destroyed when a packet is still out (691, 706), four formats close a
\* file or handle they may never have opened (format_duck.c:140 and 147, format_atmhdr.c:89,
\* format_legacy.c:213, format_pcap.c:375 and 382), libpcap's keep no track of the handle of
\* a start that failed (format_pcap.c:147, 277, 320), and one is used that never opened (588).
If(slip, cond) == IF cond THEN {slip} ELSE {}
Slips ==
  CASE ret'.call = "create" -> If("leaked scan", conf.uri # "guess" /\ s'.err # "NOERROR")
    [] ret'.call = "create output" -> If("used after free scan", conf.out # "guess" /\ s'.o.err # "NOERROR")
    [] ret'.call = "destroy" ->
         If("locked a destroyed mutex", s.last # NULL)
         \cup If("closed no file", s.fmt \in {"duck", "atmhdr"} \cup LegacyFormats /\ ~s.io)
         \cup If("leaked io", s.fmt \in {"pcap", "pcapint"} /\ s.io /\ ~s.started)
    [] ret'.call = "destroy output" -> If("closed no file", s.o.fmt \in {"duck", "pcap", "pcapint"} /\ ~s.o.open)
    [] ret'.call = "write" -> If("closed no file", s.o.fmt = "pcapint" /\ s.o.started /\ ~s'.o.open)
    [] OTHER -> {}

\* Apart from those slips, each of which happens exactly when Slips says, no call leaks or frees
\* twice a buffer, a file or a trace, follows a packet to a trace that is gone, overruns a
\* packet's buffer, loses its place in the file or fails an assert.
NoMisuse == ret'.bad = Slips

\* Whatever was called before, when the program has destroyed everything it made, the library
\* holds nothing: every init, start, read and write path pairs with its fin and destroy path.
NothingHeld ==
  ("trace" \notin s.held /\ "out trace" \notin s.held /\ ~Exists("user") /\ ~Exists("copy"))
    => s.held = {}

\* trace_read_packet and trace_event deliver exactly the packets that pass the filter, in the
\* order of the file, each once, across pauses, sleeps and restarts of the trace.
DeliveredInOrder ==
  Alive => /\ Len(got) <= Len(Expected)
           /\ got = SubSeq(Expected, 1, Len(got))

\* trace_get_accepted_packets and the filtered count describe what was delivered: only a packet
\* held back by a SLEEP event is counted and not yet delivered.
CountersAgree ==
  Alive => /\ s.accepted = Len(got) + (IF s.evt.waiting THEN 1 ELSE 0)
           /\ s.filter # NULL => s.filtered = Cardinality({n \in 1 .. s.file.pos : n \notin s.match})

\* What trace_read_packet returns is the truth: a positive number comes with a packet of this
\* trace that has a payload unless it is empty and with no error set, -1 with an error, and 0
\* only at the end of the file (for pcap files also after a record that has only a header).
ReadTellsTruth ==
  ret.call = "read" =>
    /\ ret.val > 0 => /\ s.err = "NOERROR" /\ s.last = "user" /\ s.pk["user"].trace = "in"
                      /\ s.pk["user"].order = s.accepted - 1
                      /\ s.pk["user"].payload = NULL => CaptureLength(s, "user") = 0
    /\ ret.val = -1 => s.err # "NOERROR"
    /\ ret.val = 0 => \/ s.file.pos = Len(s.file.recs)
                      \/ s.file.pos = Len(s.file.recs) - 1 /\ s.file.end = "body"

\* The cached lengths and link type of a packet that a program may look at are the ones its
\* format would compute now: every call that changes a packet clears the caches it must.
CachesAgree ==
  \A p \in full :
    /\ s.pk[p].cap \in {-1, get_capture_length(s, p)}
    /\ s.pk[p].wire \in {-1, get_wire_length(s, p)}
    /\ s.pk[p].link \in {NULL, get_link_type(s, p)}

\* Header and captured bytes of a packet lie within the record it was read from, and a trace
\* with a snap length captures no more than that: later code reads only bytes that are there.  (The
\* three legacy DAG formats say that all 64 bytes of a record are captured, headers included.)
RecordSize(p) ==
  LET body == s.file.recs[Number(s, p)].body
  IN CASE s.fmt \in {"erf", "rawerf", "pcapfile"} -> 16 + body
       [] s.fmt = "tsh" -> 8 + body [] s.fmt = "atmhdr" -> 12
       [] s.fmt = "duck" -> duck_get_capture_length(s.pk[p])
       [] s.fmt \in {"pcap", "pcapint"} -> 24 + body
       [] s.fmt = "legacynzix" -> 68 [] OTHER -> 64
LegacyDag == {"legacyatm", "legacypos", "legacyeth"}
WithinRecord ==
  \A p \in full : s.pk[p].trace = "in" =>
    /\ s.fmt \in LegacyDag \/ trace_get_framing_length(s, p) + CaptureLength(s, p) <= RecordSize(p)
    /\ s.snaplen > 0 /\ Has(s.fmt, "set_capture_length") => CaptureLength(s, p) <= s.snaplen

\* A copied packet goes on saying what its original said when it was copied, whatever then
\* happens to the original, the trace's position or its pauses.
CopyKeepsSaying == "copy" \in full => View(s, "copy") = copied

\* A written packet reads back as the program saw it: the record's link type, wire length and
\* payload are the packet's, and as many bytes are kept as were captured, less a frame check
\* sequence that pcap cannot count.
ReadBack(r) ==
  LET pkt == [FreshPacket EXCEPT !.hdr = r.hdr, !.payload = IF r.hdr.fmt = "erf" /\ r.hdr.rx THEN NULL ELSE r.hdr.id,
                !.type = IF s.o.header # NULL /\ "network" \in DOMAIN s.o.header
                         THEN pcap_linktype_to_rt(s.o.header.network) ELSE "ERF"]
      out == conf.out
  IN IF out \in {"erf", "rawerf"}
     THEN [cap |-> erf_get_capture_length(pkt), wire |-> erf_get_wire_length(pkt),
           link |-> erf_get_link_type(pkt), n |-> r.hdr.id.n]
     ELSE IF out = "pcapfile"
     THEN [cap |-> pcapfile_get_capture_length(NULL, pkt), wire |-> pcapfile_get_wire_length(NULL, pkt),
           link |-> pcapfile_get_link_type(pkt), n |-> r.hdr.id.n]
     ELSE [cap |-> pcap_get_capture_length(pkt), wire |-> pcap_get_wire_length(pkt),
           link |-> pcap_get_link_type(pkt), n |-> r.hdr.id.n]
WrittenReadsBack ==
  conf.out \in {"erf", "rawerf", "pcapfile", "pcap"} =>
    \A i \in DOMAIN written :
      LET r == ReadBack(s.o.recs[i])
          w == written[i]
      IN /\ r.link = w.link /\ r.wire = w.wire /\ (r.cap > 0 => r.n = w.n)
         /\ r.cap <= w.cap
         /\ r.cap >= MinOf(w.cap, w.wire - (IF w.link = "ETH" THEN FCS ELSE 0))
         /\ s.o.recs[i].body >= r.cap

\* Every init, start, read and write path pairs with its fin and destroy path: no order of
\* calls misuses what the library holds but where Slips says so, and when all is destroyed it
\* holds nothing.
ResourcesKept == [](TypeOK /\ NothingHeld) /\ [][NoMisuse]_vars

\* What reading says is true over the whole life of a trace: the packets are those of the
\* file, once and in order, the counters agree with them, and so do the values returned.
ReadsTrue == DeliveredInOrder /\ CountersAgree /\ ReadTellsTruth

\* What a packet says is true at any time: its caches agree with its record, it lies within
\* it, and a copy goes on saying the same.
PacketsTrue == CachesAgree /\ WithinRecord /\ CopyKeepsSaying
=============================================================================
