----------------------------- MODULE MCPrograms -----------------------------
(* What programs read and write, for TLC to check Trace; in other behaviours *)
(* no trace is opened and a program decodes packets (MCDecoding).            *)
EXTENDS Trace, TLC

VARIABLES k, calc
M == INSTANCE MCDecoding

Data(n) == [Blank EXCEPT !.n = n]
\* Records of each format.  cap bytes of a packet of wire length len were captured.
ErfRecord(n, type, cap, len) ==
  LET hdr == [fmt |-> "erf", type |-> type, ext |-> 0, rlen |-> 0, wlen |-> len, lctr |-> 0,
              rx |-> FALSE, dir |-> 0, id |-> Data(n)]
      rlen == cap + erf_get_framing_length(hdr)
  IN [hdr |-> [hdr EXCEPT !.rlen = rlen], body |-> rlen - dag_record_size]
PcapfileRecord(n, order, cap, len) ==
  [hdr |-> [NoPcapHeader EXCEPT !.order = order, !.caplen = cap, !.wirelen = len, !.id = Data(n)],
   body |-> cap]
PcapRecord(n, cap, len) ==
  [hdr |-> [fmt |-> "pcap", caplen |-> cap, len |-> len, id |-> Data(n)], body |-> cap]
FixedRecord(n, len, body) ==
  [hdr |-> [fmt |-> "fixed", len |-> len, dir |-> 0, id |-> Data(n)], body |-> body]

File(recs) == [recs |-> recs, pos |-> 0, end |-> "clean", header |-> NoHeader, named |-> TRUE]
PcapHeader(network, magic, order) ==
  [NoHeader EXCEPT !.got = "full", !.magic = magic, !.order = order, !.major = 2, !.minor = 4,
                   !.network = network]
PcapFile(network, order, recs) ==
  [File(recs) EXCEPT !.header = PcapHeader(network, "MAGIC1", order)]
DuckFile(recs) == [File(recs) EXCEPT !.header = [got |-> "full", version |-> "DUCK_5_0"]]

\* An ERF file with padded and unpadded records, an extension header, a record with a receive
\* error and one whose record is longer than its packet.
ErfFile ==
  File(<<[ErfRecord(1, "ETH", 60, 64) EXCEPT !.hdr.ext = 1, !.hdr.rlen = 86, !.body = 70],
         [ErfRecord(2, "ETH", 40, 1500) EXCEPT !.hdr.rx = TRUE, !.hdr.lctr = 1],
         ErfRecord(3, "ETH", 96, 72)>>)
Plain ==
  [uri |-> "erf", out |-> NULL, file |-> ErfFile, faults |-> {}, stale |-> {"errno"}, match |-> {1, 3},
   options |-> {}, outputs |-> {}, snaps |-> {}, tidy |-> TRUE,
   calls |-> {"read", "look", "pause"}]
EthFile(order) ==
  PcapFile("EN10MB", order, <<PcapfileRecord(1, order, 60, 60), PcapfileRecord(2, order, 96, 1500)>>)
Legacy(n) == FixedRecord(n, 1500, 0)

ReadConfigs == {
  \* Filters, snap lengths and wrong options; errors of every kind.
  [Plain EXCEPT !.options = {<<"FILTER", 0>>, <<"SNAPLEN", 50>>, <<"PROMISC", 1>>},
                !.calls = @ \cup {"geterr"}],
  [Plain EXCEPT !.uri = "rawerf", !.faults = {"open", "read"}],
  [Plain EXCEPT !.file.end = "body"], [Plain EXCEPT !.file.end = "header"],
  \* Copies, and packets cut short by the program.
  [Plain EXCEPT !.file = File(<<ErfRecord(1, "ETH", 60, 64), ErfRecord(2, "ATM", 52, 53),
                                ErfRecord(3, "HDLC_POS", 40, 400)>>),
                !.calls = @ \cup {"copy", "snap"}, !.snaps = {20, 60}],
  \* Pcap files of either byte order, formats that are guessed, and what cannot be.
  [Plain EXCEPT !.uri = "guess", !.file = EthFile("host"), !.calls = @ \cup {"copy", "snap"},
                !.snaps = {30}, !.options = {<<"FILTER", 0>>, <<"SNAPLEN", 70>>}],
  [Plain EXCEPT !.uri = "guess", !.file = EthFile("reversed"), !.faults = {"open"}],
  [Plain EXCEPT !.uri = "guess", !.file.recs = <<>>],
  [Plain EXCEPT !.uri = "guess"],
  [Plain EXCEPT !.uri = "none"],
  [Plain EXCEPT !.uri = "pcapfile", !.file = [EthFile("host") EXCEPT !.header.major = 3]],
  [Plain EXCEPT !.uri = "pcapfile", !.file = [EthFile("host") EXCEPT !.header.magic = "other"]],
  [Plain EXCEPT !.uri = "pcapfile", !.file = [EthFile("reversed") EXCEPT !.end = "body"], !.faults = {"read"}],
  \* Events: packets are due, or the program sleeps.
  [Plain EXCEPT !.options = {<<"FILTER", 0>>, <<"EVENT_REALTIME", TRUE>>}, !.calls = {"event", "look"}],
  [Plain EXCEPT !.uri = "pcapfile", !.file = EthFile("reversed"), !.faults = {"read"},
                !.options = {<<"EVENT_REALTIME", TRUE>>}, !.calls = {"event", "look"}],
  [Plain EXCEPT !.uri = "tsh", !.file = File(<<FixedRecord(1, 40, 36), FixedRecord(2, 1500, 36)>>),
                !.calls = {"event", "look"}],
  \* Formats with records of one size.
  [Plain EXCEPT !.uri = "tsh", !.file = [File(<<FixedRecord(1, 40, 36), FixedRecord(2, 1500, 36)>>)
                                           EXCEPT !.end = "body"],
                !.options = {<<"FILTER", 0>>}, !.calls = @ \cup {"copy"}],
  [Plain EXCEPT !.uri = "duck", !.file = DuckFile(<<FixedRecord(1, 0, 0), FixedRecord(2, 0, 0)>>)],
  [Plain EXCEPT !.uri = "atmhdr", !.file = File(<<FixedRecord(1, 53, 0), FixedRecord(2, 53, 0)>>),
                !.options = {<<"FILTER", 0>>}, !.match = {2}],
  [Plain EXCEPT !.uri = "legacynzix", !.file = [File(<<Legacy(1), FixedRecord(2, 0, 0), Legacy(3)>>)
                                                  EXCEPT !.end = "header"]],
  [Plain EXCEPT !.uri = "legacynzix", !.file = [File(<<Legacy(1)>>) EXCEPT !.named = FALSE]],
  \* libpcap: a file, and an interface with events.
  [Plain EXCEPT !.uri = "pcap", !.file = PcapFile("EN10MB", "host", <<PcapRecord(1, 60, 60), PcapRecord(2, 90, 90),
                                                                      PcapRecord(3, 90, 90)>>),
                !.options = {<<"FILTER", 0>>}, !.calls = {"read", "look", "copy"}, !.faults = {"open", "filter"}],
  [Plain EXCEPT !.uri = "pcapint", !.file = PcapFile("LINUX_SLL", "host", <<PcapRecord(1, 60, 60), PcapRecord(2, 90, 90)>>),
                !.options = {<<"FILTER", 0>>, <<"SNAPLEN", 70>>, <<"PROMISC", TRUE>>}, !.calls = {"event", "look"}, !.faults = {"open", "filter"}],
  [Plain EXCEPT !.uri = "legacyeth", !.file = File(<<Legacy(1), Legacy(2)>>), !.faults = {"filter", "open"},
                !.options = {<<"FILTER", 0>>, <<"SNAPLEN", 50>>}],
  [Plain EXCEPT !.uri = "legacyatm", !.file = File(<<Legacy(1), Legacy(2)>>), !.options = {<<"FILTER", 0>>}],
  [Plain EXCEPT !.uri = "legacypos", !.file = File(<<Legacy(1), Legacy(2)>>), !.calls = {"event", "look"}] }

\* Programs that write what they read.
Writer(uri, file, out) ==
  [Plain EXCEPT !.uri = uri, !.file = file, !.out = out, !.calls = {"read", "look"}]
WriteConfigs == {
  [Writer("erf", ErfFile, "erf") EXCEPT !.faults = {"open", "write"}, !.outputs = {<<"compress", 11>>, <<"other", 0>>}],
  [Writer("erf", ErfFile, "pcapfile") EXCEPT !.outputs = {<<"compress", 9>>, <<"compresstype", "zlib">>},
                                             !.faults = {"open", "write"}],
  [Writer("erf", ErfFile, "pcap") EXCEPT !.faults = {"open"}, !.calls = @ \cup {"snap"}, !.snaps = {20}],
  [Writer("erf", ErfFile, "tsh") EXCEPT !.calls = {"read"}],
  Writer("erf", ErfFile, "none"), Writer("erf", ErfFile, "guess"),
  Writer("erf", ErfFile, "duck"),
  Writer("pcapfile", EthFile("reversed"), "pcapfile"),
  [Writer("pcapfile", EthFile("reversed"), "erf") EXCEPT !.options = {<<"SNAPLEN", 50>>}],
  [Writer("pcapfile", EthFile("host"), "pcapint") EXCEPT !.faults = {"open"}],
  \* Cooked packets lose their headers for ERF.
  Writer("pcapfile", PcapFile("LINUX_SLL", "reversed",
           <<PcapfileRecord(1, "reversed", 60, 60), PcapfileRecord(2, "reversed", 8, 90)>>),
         "pcapfile"),
  Writer("pcapfile", PcapFile("LINUX_SLL", "host", <<PcapfileRecord(1, "host", 60, 60),
           [PcapfileRecord(2, "host", 70, 90) EXCEPT !.hdr.id.next = "LOOPBACK"],
           [PcapfileRecord(3, "host", 70, 90) EXCEPT !.hdr.id.next = "ARP"]>>), "erf"),
  Writer("pcap", PcapFile("EN10MB", "host", <<PcapRecord(1, 60, 60), PcapRecord(2, 90, 1500)>>), "pcap"),
  Writer("pcap", PcapFile("EN10MB", "host", <<PcapRecord(1, 60, 60), PcapRecord(2, 90, 1500)>>), "erf"),
  Writer("legacyatm", File(<<Legacy(1), Legacy(2)>>), "erf"),
  Writer("duck", DuckFile(<<FixedRecord(1, 0, 0), FixedRecord(2, 0, 0)>>), "duck") }
CallConfigs == ReadConfigs \cup WriteConfigs

----------------------------------------------------------------------------
Decodes == k # M!None \/ calc # M!None
ProgramsInit ==
  \/ Init /\ k = M!None /\ calc = M!None
  \/ Init /\ conf.uri = "none" /\ M!Init

OnTrace == ~Decodes /\ Next /\ UNCHANGED <<k, calc>>
OnPacket == Decodes /\ M!Next /\ UNCHANGED vars
ProgramsNext == OnTrace \/ OnPacket

Programs == ProgramsInit /\ [][ProgramsNext]_<<vars, k, calc>>

\* Every call returns what it would on a packet just read, whatever was called before:
\* but for headers behind metadata, whose type is lost, and for truncated packets, which
\* answer as they did before.
SameAnswer == k # M!None => M!D!SameAnswer

\* Layer 3, the transport header and the payload are found exactly if what leads to
\* them is captured, with the right number of bytes behind (but behind four link headers
\* that Misjudged names); lengths, checksums and hashes count captured bytes only; and
\* stripping leaves layer 3 where it was.
HeadersFound == k # M!None => M!D!TypeOK /\ M!D!HeadersFound /\ M!D!StripKeepsLayer3

\* Every calculation yields what its definition says: the Internet checksum and that of
\* a pseudo header, the Toeplitz hash (the same in both directions), the server's
\* port, conversions of times, fields of a radiotap header, the frames of a ring.
CalculationsTrue ==
  calc # M!None => /\ M!C!ChecksumsTrue /\ M!C!PseudoHeaderTrue /\ M!C!HashSameBothWays
                 /\ M!C!ServerPortRanked /\ M!C!TimesConvert /\ M!C!RadiotapFieldsFound /\ M!C!RingGeometryTrue

\* A loop over the options of a header or the items of an OSPF packet sees each whole
\* one and nothing behind the last, and ends: each call that is not the last leaves less.
WalksSeeAll ==
  /\ [](calc # M!None => M!C!OptionsWalked /\ M!C!OspfItemsSeen)
  /\ [][calc # M!None => M!C!LeavesLess]_calc
=============================================================================
