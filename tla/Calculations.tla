---------------------------- MODULE Calculations ----------------------------
(***************************************************************************)
(* Computations of the library that have no state of their own, each next  *)
(* to a definition of what it should yield: Internet checksums             *)
(* (lib/checksum.c), the hash that spreads packets over threads            *)
(* (hash_toeplitz.c), the server port and the conversions of time stamps   *)
(* (trace.c), the fields of radiotap headers (link_wireless.c); and the    *)
(* walks over options (protocols_l3.c) and over OSPF advertisements        *)
(* (protocols_ospf.c) that a program makes one call at a time.             *)
(*                                                                         *)
(* calc is the calculation at hand: its name, its input and, for a walk,   *)
(* how far it is.                                                          *)
(***************************************************************************)
EXTENDS Integers, Sequences, SequencesExt, FiniteSets, FiniteSetsExt

NIL == -1
Linux == INSTANCE FormatLinux WITH NULL <- NIL

CONSTANTS
  SECOND,       \* 2^32: a second of an ERF time stamp, scaled, and not less than
                \* MICROS * THOUSAND
  MICROS,       \* 1000000: microseconds in a second, scaled
  THOUSAND,     \* 1000: nanoseconds in a microsecond, scaled
  HASH_BYTES,   \* the bytes of a hash (4)
  KEY_BYTES     \* the bytes of a key (40)

VARIABLE calc

----------------------------------------------------------------------------
(* Checksums, over sequences of bytes.                                     *)

Word(bytes, i) == bytes[i] + 256 * bytes[i + 1]

\* An odd byte at the end is added as it is.
add_checksum(bytes) ==
  LET sum[n \in 0..Len(bytes)] == CASE n = 0 -> 0
                                    [] n % 2 = 1 -> sum[n - 1] + bytes[n]
                                    [] OTHER -> sum[n - 2] + Word(bytes, n - 1)
  IN sum[Len(bytes)]

Folded(sum) ==
  LET fold[n \in Nat] == IF n < 65536 THEN n ELSE fold[(n % 65536) + (n \div 65536)] IN fold[sum]
finish_checksum_FoldOnce(sum) == 65535 - ((sum % 65536) + (sum \div 65536))
finish_checksum(sum) == 65535 - Folded(sum)

checksum_buffer(bytes) == finish_checksum(add_checksum(bytes))

Network_HostOrder(n) == <<n % 256, n \div 256>>
\* A 16 bit number as htons leaves it in memory.
Network(n) == <<n \div 256, n % 256>>

ipv4_pseudo_checksum(ip) ==
  add_checksum(ip.src) + add_checksum(ip.dst) + add_checksum(Network(ip.proto)) +
  add_checksum(Network(ip.len - ip.hl))

ipv6_pseudo_checksum(ip) ==
  add_checksum(ip.src) + add_checksum(ip.dst) + add_checksum(Network(ip.plen)) + add_checksum(Network(ip.proto))

\* The checksum of trace_checksum_transport: the pseudo header, the header with
\* its checksum at zero, and the payload.
TransportChecksum(ip, header, payload) ==
  LET pseudo == IF ip.version = 4 THEN ipv4_pseudo_checksum(ip) ELSE ipv6_pseudo_checksum(ip)
  IN finish_checksum(pseudo + add_checksum(header) + add_checksum(payload))

----------------------------------------------------------------------------
(* Toeplitz hashes, over sequences of bits.  A word is the set of the      *)
(* places of its bits that are set; exclusive or is symmetric difference.  *)

Xor(a, b) == (a \ b) \cup (b \ a)

\* The i-th entry of key_cache: the first word of the key after i shifts of all of it
\* by one place, which brings in zeros at the end.
toeplitz_hash_expand_key(key, i) == {j \in 1..(8 * HASH_BYTES) : i + j <= Len(key) /\ key[i + j] = 1}

\* 16 bits repeated all over the key.
Repeats == KEY_BYTES \div 2
toeplitz_create_bikey(bi_key) == [j \in 1..(16 * Repeats) |-> bi_key[((j - 1) % 16) + 1]]

\* The result so far, exclusive or the entry for every bit of the data that is set.
toeplitz_hash(key, data, offset, result) ==
  LET entries(j) == {i \in DOMAIN data : data[i] = 1 /\ j \in toeplitz_hash_expand_key(key, 8 * offset + i - 1)}
  IN Xor(result, {j \in 1..(8 * HASH_BYTES) : Cardinality(entries(j)) % 2 = 1})

FlowHash_PortsAtStart(key, src, dst, sport, dport) ==
  toeplitz_hash(key, sport \o dport, 0, toeplitz_hash(key, src \o dst, 0, {}))
\* Source and destination address, then source and destination port.
FlowHash(key, src, dst, sport, dport) ==
  toeplitz_hash(key, sport \o dport, Len(src \o dst) \div 8, toeplitz_hash(key, src \o dst, 0, {}))

----------------------------------------------------------------------------
(* The port of the server.                                                 *)

ROOT_SERVER(x) == x < 512
ROOT_CLIENT(x) == 512 <= x /\ x < 1024
NONROOT_SERVER(x) == x >= 5000
NONROOT_CLIENT(x) == 1024 <= x /\ x < 5000

Smallest_Largest(source, dest) == IF source > dest THEN "USE_SOURCE" ELSE "USE_DEST"
Smallest(source, dest) == IF source < dest THEN "USE_SOURCE" ELSE "USE_DEST"

\* What the code says of dynamic ports is never reached: every port is of one
\* of the four kinds above.
trace_get_server_port(source, dest) ==
  CASE source = dest -> "USE_DEST"
    [] source # dest /\ (ROOT_SERVER(source) \/ ROOT_SERVER(dest)) ->
         IF ROOT_SERVER(source) /\ ROOT_SERVER(dest) THEN Smallest(source, dest)
         ELSE IF ROOT_SERVER(source) THEN "USE_SOURCE" ELSE "USE_DEST"
    [] OTHER ->
         IF NONROOT_SERVER(source) \/ NONROOT_SERVER(dest)
         THEN IF NONROOT_SERVER(source) /\ NONROOT_SERVER(dest) THEN Smallest(source, dest)
              ELSE IF NONROOT_SERVER(source) THEN "USE_SOURCE" ELSE "USE_DEST"
         ELSE IF ROOT_CLIENT(source) /\ NONROOT_CLIENT(dest) THEN "USE_SOURCE"
         ELSE IF NONROOT_CLIENT(source) /\ ROOT_CLIENT(dest) THEN "USE_DEST"
         ELSE Smallest(source, dest)

----------------------------------------------------------------------------
(* Time stamps.  A format has one kind of its own and the others are       *)
(* computed from that: ERF counts fractions of a second in binary.         *)

NANOS == MICROS * THOUSAND

trace_get_erf_timestamp_Micros(kind, t) ==
  CASE kind = "erf" -> t.sec * SECOND + t.frac
    [] kind = "seconds" -> t.sec * SECOND
    [] OTHER -> t.sec * SECOND + (t.frac * SECOND) \div MICROS
\* The time of a packet: seconds, and a fraction in units of the kind.
trace_get_erf_timestamp(kind, t) ==
  CASE kind = "erf" -> t.sec * SECOND + t.frac
    [] kind = "timespec" -> t.sec * SECOND + (t.frac * SECOND) \div NANOS
    [] kind = "timeval" -> t.sec * SECOND + (t.frac * SECOND) \div MICROS
    [] kind = "seconds" -> t.sec * SECOND

Carry(sec, frac, unit) == IF frac >= unit THEN [sec |-> sec + 1, frac |-> frac - unit] ELSE [sec |-> sec, frac |-> frac]

trace_get_timeval(kind, t) ==
  CASE kind = "timeval" -> t
    [] kind = "erf" -> Carry(t.sec, (t.frac * MICROS) \div SECOND, MICROS)
    [] kind = "timespec" -> [sec |-> t.sec, frac |-> t.frac \div THOUSAND]
    [] kind = "seconds" -> [sec |-> t.sec, frac |-> 0]

trace_get_timespec(kind, t) ==
  CASE kind = "timespec" -> t
    [] kind = "erf" -> Carry(t.sec, (t.frac * NANOS) \div SECOND, NANOS)
    [] kind = "timeval" -> [sec |-> t.sec, frac |-> t.frac * THOUSAND]
    [] kind = "seconds" -> [sec |-> t.sec, frac |-> 0]

----------------------------------------------------------------------------
(* Radiotap headers: the fields that are present, in order, after the      *)
(* bitmap and ext further ones.                                            *)

Fields == <<"TSFT", "FLAGS", "RATE", "CHANNEL", "FHSS", "DBM_ANTSIGNAL", "DBM_ANTNOISE", "LOCK_QUALITY",
            "TX_ATTENUATION", "DB_TX_ATTENUATION", "DBM_TX_POWER", "ANTENNA", "DB_ANTSIGNAL", "DB_ANTNOISE">>
Place(field) == CHOOSE i \in DOMAIN Fields : Fields[i] = field
Halfwords == {"FHSS", "LOCK_QUALITY", "TX_ATTENUATION", "DB_TX_ATTENUATION"}
SizeOf(field) == CASE field = "TSFT" -> 8
                   [] field = "CHANNEL" -> 4
                   [] field \in Halfwords -> 2
                   [] OTHER -> 1
AlignTo(n, unit) == Min({m \in n..(n + unit - 1) : m % unit = 0})

FieldsStart(rtap) == 8 + 4 * rtap.ext
Before_AndItself(rtap, field) == {f \in rtap.present : Place(f) <= Place(field)}
Before(rtap, field) == {f \in rtap.present : Place(f) < Place(field)}

\* Only the field that is asked for is aligned, not those that are skipped.
trace_get_radiotap_field(rtap, field) ==
  LET p == MapThenSumSet(SizeOf, Before(rtap, field))
      unit == IF field \in Halfwords \cup {"CHANNEL"} THEN 2 ELSE 1
  IN IF field \notin rtap.present THEN NIL ELSE FieldsStart(rtap) + AlignTo(p, unit)

\* Where a field of the frame is: an SLL header may be in front.
Behind(size, place) == IF place = NIL THEN NIL ELSE size + place
Wireless(links, rtap, field) ==
  LET from[i \in DOMAIN links] ==
        CASE links[i] = "80211_RADIO" -> trace_get_radiotap_field(rtap, field)
          [] links[i] = "LINUX_SLL" -> Behind(16, from[i + 1])
          [] OTHER -> NIL
  IN from[1]

trace_get_wireless_tsft(links, rtap) == Wireless(links, rtap, "TSFT")
trace_get_wireless_flags(links, rtap) == Wireless(links, rtap, "FLAGS")
trace_get_wireless_rate(links, rtap) == Wireless(links, rtap, "RATE")
trace_get_wireless_freq(links, rtap) == Wireless(links, rtap, "CHANNEL")
trace_get_wireless_signal_strength_dbm(links, rtap) == Wireless(links, rtap, "DBM_ANTSIGNAL")
trace_get_wireless_noise_strength_dbm(links, rtap) == Wireless(links, rtap, "DBM_ANTNOISE")
trace_get_wireless_signal_strength_db(links, rtap) == Wireless(links, rtap, "DB_ANTSIGNAL")
trace_get_wireless_noise_strength_db(links, rtap) == Wireless(links, rtap, "DB_ANTNOISE")
trace_get_wireless_tx_attenuation(links, rtap) == Wireless(links, rtap, "TX_ATTENUATION")
trace_get_wireless_tx_attenuation_db(links, rtap) == Wireless(links, rtap, "DB_TX_ATTENUATION")
trace_get_wireless_tx_power_dbm(links, rtap) == Wireless(links, rtap, "DBM_TX_POWER")
trace_get_wireless_antenna(links, rtap) == Wireless(links, rtap, "ANTENNA")

WirelessFields(links, rtap) ==
  [TSFT |-> trace_get_wireless_tsft(links, rtap),
   FLAGS |-> trace_get_wireless_flags(links, rtap),
   RATE |-> trace_get_wireless_rate(links, rtap),
   CHANNEL |-> trace_get_wireless_freq(links, rtap),
   DBM_ANTSIGNAL |-> trace_get_wireless_signal_strength_dbm(links, rtap),
   DBM_ANTNOISE |-> trace_get_wireless_noise_strength_dbm(links, rtap),
   DB_ANTSIGNAL |-> trace_get_wireless_signal_strength_db(links, rtap),
   DB_ANTNOISE |-> trace_get_wireless_noise_strength_db(links, rtap),
   TX_ATTENUATION |-> trace_get_wireless_tx_attenuation(links, rtap),
   DB_TX_ATTENUATION |-> trace_get_wireless_tx_attenuation_db(links, rtap),
   DBM_TX_POWER |-> trace_get_wireless_tx_power_dbm(links, rtap),
   ANTENNA |-> trace_get_wireless_antenna(links, rtap)]

----------------------------------------------------------------------------
(* Walks.  A walk is at byte ptr, with rem bytes left; seen holds where    *)
(* the items started that were returned, and ret what the call returned.   *)

Advance(w, size) ==
  [w EXCEPT !.seen = Append(@, w.ptr), !.ptr = @ + size, !.rem = @ - size, !.ret = 1]

BadOption_Overlong(optlen, rem) == optlen < 2
BadOption_Short(optlen, rem) == optlen > rem
\* Options: the bytes themselves.  The byte behind the area is read too, and whatever it is
\* the option is refused.
BadOption(optlen, rem) == optlen < 2 \/ optlen > rem
trace_get_next_option(w) ==
  LET type == w.bytes[w.ptr]
      optlen == IF w.ptr < Len(w.bytes) THEN w.bytes[w.ptr + 1] ELSE 0
  IN IF w.rem <= 0 THEN [w EXCEPT !.ret = 0]
     ELSE IF type = 0 THEN [w EXCEPT !.ret = 0]
     ELSE IF type = 1 THEN Advance(w, 1)
     ELSE IF BadOption(optlen, w.rem) THEN [w EXCEPT !.ret = 0]
     ELSE Advance(w, optlen)

\* OSPF: a header, a header of the packet's type, and items with a type, valid
\* or not, and a length.
OSPF_HEADER == 24
LSA_HEADER == 20
OSPF_LINK == 12

SkipHeader(w, size) ==
  IF w.ptr = NIL \/ w.rem < size THEN [w EXCEPT !.ptr = NIL, !.rem = 0]
  ELSE [w EXCEPT !.ptr = @ + size, !.rem = @ - size]

trace_get_ospf_contents_v2(w) == SkipHeader(w, OSPF_HEADER)
trace_get_first_ospf_lsa_from_update_v2(w) == SkipHeader(w, 4)
trace_get_first_ospf_lsa_from_db_desc_v2(w) == SkipHeader(w, 8)
trace_get_first_ospf_link_from_router_lsa_v2(w) == SkipHeader(w, 4)

SizeOfHeader(w) == IF w.kind = "db_desc" THEN 8 ELSE 4
FirstItem(w) ==
  LET contents == trace_get_ospf_contents_v2(w)
  IN CASE w.kind = "update" -> trace_get_first_ospf_lsa_from_update_v2(contents)
       [] w.kind = "db_desc" -> trace_get_first_ospf_lsa_from_db_desc_v2(contents)
       [] w.kind = "router" -> trace_get_first_ospf_link_from_router_lsa_v2(contents)

\* The item at ptr and where item n starts.
ItemSize(w, n) ==
  CASE w.kind = "update" -> w.items[n].length
    [] w.kind = "db_desc" -> LSA_HEADER
    [] w.kind = "router" -> OSPF_LINK
ItemStart(w, n) == OSPF_HEADER + SizeOfHeader(w) + MapThenSumSet(LAMBDA i : ItemSize(w, i), 1..(n - 1))
ItemAt(w) == w.items[CHOOSE n \in DOMAIN w.items : ItemStart(w, n) = w.ptr]

Refuse_KeepsRest(w, value) == [w EXCEPT !.ret = value]
Refuse(w, value) == [w EXCEPT !.rem = 0, !.ret = value]

BadLsa_Last(item, rem) == item.length >= rem \/ ~item.valid
BadLsa(item, rem) == item.length > rem \/ ~item.valid
trace_get_next_ospf_lsa_v2(w) ==
  IF w.ptr = NIL \/ w.rem < LSA_HEADER THEN Refuse(w, 0)
  ELSE IF BadLsa(ItemAt(w), w.rem) THEN Refuse(w, -1)
  ELSE [Advance(w, ItemAt(w).length) EXCEPT !.body = IF ItemAt(w).length = LSA_HEADER THEN NIL ELSE w.ptr + LSA_HEADER]

trace_get_next_ospf_lsa_header_v2(w) ==
  IF w.ptr = NIL \/ w.rem < LSA_HEADER THEN Refuse(w, 0)
  ELSE IF ~ItemAt(w).valid THEN Refuse(w, -1)
  ELSE Advance(w, LSA_HEADER)

trace_get_next_ospf_link_v2(w) ==
  IF w.ptr = NIL \/ w.rem < OSPF_LINK THEN Refuse(w, 0) ELSE Advance(w, OSPF_LINK)

----------------------------------------------------------------------------
(* The program.                                                            *)

\* The calculation to make is one of a set.
Init(inputs) == calc \in inputs

NextOption ==
  /\ calc.what = "options" /\ calc.ret # 0
  /\ calc' = trace_get_next_option(calc)

FindFirst ==
  /\ calc.what = "ospf" /\ calc.ptr = 0
  /\ calc' = FirstItem(calc)

\* A loop stops at 0 only: it goes on after -1, with nothing left.
NextItem ==
  /\ calc.what = "ospf" /\ calc.ptr # 0 /\ calc.ret # 0
  /\ calc' = CASE calc.kind = "update" -> trace_get_next_ospf_lsa_v2(calc)
                [] calc.kind = "db_desc" -> trace_get_next_ospf_lsa_header_v2(calc)
                [] calc.kind = "router" -> trace_get_next_ospf_link_v2(calc)

Next == NextOption \/ FindFirst \/ NextItem

Spec(inputs) == Init(inputs) /\ [][Next]_calc

----------------------------------------------------------------------------
(* Properties.                                                             *)

\* The sum of RFC 1071: bytes in pairs, the first the more significant, the
\* last, if it has no partner, followed by a zero byte.
NetworkSum(bytes) ==
  MapThenSumSet(LAMBDA i : IF i % 2 = 1 THEN 256 * bytes[i] ELSE bytes[i], DOMAIN bytes)
Swapped(word) == 256 * (word % 256) + word \div 256

\* checksum_buffer adds words in the byte order of a little endian host, and
\* finish_checksum folds the carries; stored in memory, the result is the
\* checksum of the bytes in network order, for any number of bytes and carries.
ChecksumsTrue ==
  calc.what = "checksum" =>
    LET c == checksum_buffer(calc.bytes)
    IN /\ c \in 0..65535
       /\ (NetworkSum(calc.bytes) + Swapped(c)) % 65535 = 0
       /\ c = 65535 <=> \A i \in DOMAIN calc.bytes : calc.bytes[i] = 0

\* The checksum trace_checksum_transport adds up from a pseudo header it never
\* builds, a header and a payload is that of one buffer with all their bytes.
PseudoHeaderTrue ==
  calc.what = "pseudo" =>
    LET ip == calc.ip
        len == IF ip.version = 4 THEN ip.len - ip.hl ELSE ip.plen
    IN TransportChecksum(ip, calc.header, calc.payload) =
         checksum_buffer(ip.src \o ip.dst \o <<0, ip.proto>> \o
                         <<len \div 256, len % 256>> \o calc.header \o calc.payload)

\* With the key of toeplitz_create_bikey both directions of a flow have the same
\* hash, and so go to the same thread.  For any key, bit j of the hash is the
\* parity of the bits of the data that meet a bit of the key j places on.
HashSameBothWays ==
  calc.what = "hash" =>
    LET key == toeplitz_create_bikey(calc.bi_key)
        data == calc.src \o calc.dst \o calc.sport \o calc.dport
    IN /\ FlowHash(key, calc.src, calc.dst, calc.sport, calc.dport) =
            FlowHash(key, calc.dst, calc.src, calc.dport, calc.sport)
       /\ FlowHash(calc.key, calc.src, calc.dst, calc.sport, calc.dport) =
            {j \in 1..(8 * HASH_BYTES) :
               Cardinality({i \in DOMAIN data : data[i] = 1 /\ calc.key[i + j - 1] = 1}) % 2 = 1}

\* trace_get_server_port picks the lower port of the more likely kind of server
\* (below 512; 5000 and above; 512 to 1023; the others), and the same end
\* whichever direction the packet goes in.
PortRank(x) ==
  CASE ROOT_SERVER(x) -> 0 [] NONROOT_SERVER(x) -> 1 [] ROOT_CLIENT(x) -> 2 [] NONROOT_CLIENT(x) -> 3
ServerPortRanked ==
  calc.what = "port" =>
    LET a == calc.source
        b == calc.dest
        likelier == PortRank(a) < PortRank(b) \/ (PortRank(a) = PortRank(b) /\ a < b)
    IN /\ trace_get_server_port(a, b) = (IF likelier THEN "USE_SOURCE" ELSE "USE_DEST")
       /\ a # b => trace_get_server_port(a, b) # trace_get_server_port(b, a)

\* No conversion puts two packets out of order, every fraction is less than a
\* second, and a time goes to an ERF time stamp and back to within one unit.
Value(t, unit) == t.sec * unit + t.frac
TimesConvert ==
  calc.what = "time" =>
    LET kind == calc.kind
        a == calc.first
        b == calc.second
        back(t) == LET e == trace_get_erf_timestamp(kind, t) IN [sec |-> e \div SECOND, frac |-> e % SECOND]
    IN /\ trace_get_erf_timestamp(kind, a) <= trace_get_erf_timestamp(kind, b)
       /\ Value(trace_get_timeval(kind, a), MICROS) <= Value(trace_get_timeval(kind, b), MICROS)
       /\ Value(trace_get_timespec(kind, a), NANOS) <= Value(trace_get_timespec(kind, b), NANOS)
       /\ trace_get_timeval(kind, a).frac < MICROS /\ trace_get_timespec(kind, a).frac < NANOS
       /\ Value(trace_get_timeval(kind, a), MICROS) - Value(trace_get_timeval("erf", back(a)), MICROS) \in {0, 1}
       /\ Value(trace_get_timespec(kind, a), NANOS) - Value(trace_get_timespec("erf", back(a)), NANOS) \in {0, 1}

\* Where the standard puts a field: each is aligned to its size in the header.
Alignment(field) == IF field = "CHANNEL" THEN 2 ELSE SizeOf(field)
EndOfFirst(rtap, i) ==
  LET end[j \in 0..Len(Fields)] ==
        IF j = 0 THEN FieldsStart(rtap)
        ELSE IF Fields[j] \notin rtap.present THEN end[j - 1]
        ELSE AlignTo(end[j - 1], Alignment(Fields[j])) + SizeOf(Fields[j])
  IN end[i]
EndBefore(rtap, field) == EndOfFirst(rtap, Place(field) - 1)
Padded(rtap, field) == EndBefore(rtap, field) % Alignment(field) # 0

\* The getters of link_wireless.c find their field of a radiotap header, behind
\* an SLL header or not, and none if it is absent.  Padding counts in front of
\* the field only: the code does not see that in front of one it skips.
RadiotapFieldsFound ==
  calc.what = "radiotap" =>
    \A f \in DOMAIN WirelessFields(calc.links, calc.rtap) :
      LET found == WirelessFields(calc.links, calc.rtap)[f]
          frame == 16 * (Len(calc.links) - 1)
      IN IF f \notin calc.rtap.present THEN found = NIL
         ELSE (\A g \in Before(calc.rtap, f) : ~Padded(calc.rtap, g)) =>
                found = frame + AlignTo(EndBefore(calc.rtap, f), Alignment(f))

\* A loop over trace_get_next_option sees every option up to the end of the list
\* or the first one that is not whole, and nothing behind the area.
OptionSize(bytes, i) == IF bytes[i] = 1 THEN 1 ELSE bytes[i + 1]
OptionWhole(bytes, i) ==
  /\ i <= Len(bytes) /\ bytes[i] # 0
  /\ bytes[i] # 1 => i < Len(bytes) /\ bytes[i + 1] >= 2 /\ i + bytes[i + 1] - 1 <= Len(bytes)
OptionsWalked ==
  calc.what = "options" =>
    LET n == Len(calc.seen)
        starts == calc.seen \o <<calc.ptr>>
    IN /\ starts[1] = 1
       /\ \A i \in 1..n : /\ OptionWhole(calc.bytes, starts[i])
                          /\ starts[i + 1] = starts[i] + OptionSize(calc.bytes, starts[i])
       /\ calc.rem = Len(calc.bytes) + 1 - calc.ptr
       /\ calc.ret = 0 => ~OptionWhole(calc.bytes, calc.ptr)

\* A loop over trace_get_next_ospf_lsa_v2, _lsa_header_v2 or _link_v2 sees the
\* items before the first that is truncated or of an unknown type, all of them
\* and no other, and a body it is given is captured whole.
ItemWhole(w, n) ==
  /\ n <= Len(w.items) /\ ItemStart(w, n) + ItemSize(w, n) <= w.cap
  /\ w.kind = "router" \/ w.items[n].valid
OspfItemsSeen ==
  calc.what = "ospf" =>
    /\ \A n \in DOMAIN calc.seen : ItemWhole(calc, n) /\ calc.seen[n] = ItemStart(calc, n)
    /\ calc.ret = 0 => ~ItemWhole(calc, Len(calc.seen) + 1)
    /\ calc.body # NIL => calc.body < calc.cap

\* Every loop over a walk ends: a call that is not the last leaves less to walk.
LeavesLess == calc.ptr # 0 /\ calc'.ret # 0 => calc'.rem < calc.rem
WalksEnd == [][LeavesLess]_calc

\* calculate_buffers (format_linux_ring.c): its asserts hold exactly if a block
\* has room for a frame, and then the ring has the frames it should have,
\* whole frames in every block, each with room for a packet of the MTU.
RingGeometryTrue ==
  calc.what = "ring" =>
    LET req == Linux!calculate_buffers(calc.pagesize, calc.mtu, calc.order)
    IN /\ Linux!BuffersAssert(req) <=> req.block_size >= req.frame_size
       /\ Linux!BuffersAssert(req) =>
            /\ req.frame_nr >= Linux!CONF_RING_FRAMES
            /\ req.frame_nr * req.frame_size = req.block_nr * req.block_size
            /\ req.frame_size >= calc.mtu + 64 \/ req.frame_size = 65536
            /\ req.block_size % calc.pagesize = 0
=============================================================================
