------------------------------ MODULE Decoding ------------------------------
(***************************************************************************)
(* A program that asks for the layers of one packet, in any order and      *)
(* again and again, and that truncates and strips it between its           *)
(* questions (lib/protocols_l2.c, protocols_l3.c, protocols_transport.c,   *)
(* protocols_ospf.c, hash_toeplitz.c and trace.c).                         *)
(*                                                                         *)
(* libtrace_packet_t keeps the pointers it has found.  k is such a packet: *)
(* the bytes (p) and what is kept (link_type, l2, l3, l4, payload_length). *)
(* A function of the library is an operator that returns the packet        *)
(* afterwards and what the caller gets.                                    *)
(***************************************************************************)
EXTENDS Headers, FiniteSets, FiniteSetsExt

CONSTANTS
  Packets,  \* the packets a program may have read
  Sizes     \* what it truncates packets to

VARIABLE k  \* the libtrace_packet_t

Nowhere == [at |-> NIL, type |-> "0", rem |-> 0]

\* A packet that was read and not asked about.
New(p) == [p |-> p, link_type |-> "", l2 |-> Nowhere, l3 |-> Nowhere, l4 |-> Nowhere,
           payload_length |-> -1]

Ret(packet, value) == [k |-> packet, ret |-> value]
\* What a function does with the answer of one it calls.
With(answered, Go(_, _)) == Go(answered.k, answered.ret)

----------------------------------------------------------------------------
(* Layers.                                                                 *)

\* The padding a format may have captured is not part of the packet.
Captured(p) == Min({p.cap, p.wire})
trace_get_packet_buffer(q) ==
  Ret([q EXCEPT !.link_type = q.p.link], [at |-> q.p.start, type |-> q.p.link, rem |-> Captured(q.p)])

\* What is kept of layer 2 has no type: link_type is the type of the first
\* header of the packet.
KeepLayer2(q, l2) ==
  IF l2.type \in MetaTypes \cup {"UNKNOWN"} THEN Ret(q, [l2 EXCEPT !.at = NIL])
  ELSE Ret([q EXCEPT !.l2 = [l2 EXCEPT !.type = "0"]], l2)
trace_get_layer2(q) ==
  IF q.l2.at # NIL THEN Ret(q, [q.l2 EXCEPT !.type = q.link_type])
  ELSE With(trace_get_packet_buffer(q), LAMBDA r, c : KeepLayer2(r, SkipMeta(r.p, c)))

trace_get_packet_meta(q) ==
  With(trace_get_packet_buffer(q),
       LAMBDA r, c : Ret(r, IF c.type \in MetaTypes \ {"PFLOG"} THEN c ELSE [c EXCEPT !.at = NIL]))

KeepLayer3(q, iphdr) ==
  IF iphdr.at = NIL \/ iphdr.rem = 0 THEN Ret(q, [iphdr EXCEPT !.at = NIL])
  ELSE Ret([q EXCEPT !.l3 = iphdr], iphdr)
trace_get_layer3(q) ==
  IF q.l3.at # NIL THEN Ret(q, q.l3)
  ELSE With(trace_get_layer2(q),
            LAMBDA r, c : KeepLayer3(r, SkipTags(r.p, trace_get_payload_from_layer2(r.p, c))))

\* The header after IPv4, IPv6 or IPv6 within IPv4.
Inner(p, transport) ==
  IF transport.at # NIL /\ transport.type = "ip6" THEN trace_get_payload_from_ip6(p, transport) ELSE transport
Transport(p, l3) ==
  CASE l3.type = "ip" -> Inner(p, trace_get_payload_from_ip(p, l3))
    [] l3.type = "ip6" -> trace_get_payload_from_ip6(p, l3)
    [] OTHER -> [l3 EXCEPT !.at = NIL, !.type = "0"]

KeepTransport(q, transport) == Ret([q EXCEPT !.l4 = transport], transport)
trace_get_transport(q) ==
  IF q.l4.at # NIL THEN Ret(q, q.l4)
  ELSE With(trace_get_layer3(q),
            LAMBDA r, c : IF c.at = NIL THEN Ret(r, c) ELSE KeepTransport(r, Transport(r.p, c)))

\* A header, if it has the type wanted and its fixed part is captured.
Whole(answered, type, size) ==
  LET c == answered.ret
  IN Ret(answered.k, IF c.at # NIL /\ c.type = type /\ c.rem >= size THEN c.at ELSE NIL)

trace_get_ip(q) == Whole(trace_get_layer3(q), "ip", IP)
trace_get_ip6(q) == Whole(trace_get_layer3(q), "ip6", IP6)
trace_get_tcp(q) == Whole(trace_get_transport(q), "tcp", TCP)
trace_get_udp(q) == Whole(trace_get_transport(q), "udp", UDP)
trace_get_icmp(q) == Whole(trace_get_transport(q), "icmp", ICMP)
trace_get_icmp6(q) == Whole(trace_get_transport(q), "icmp6", ICMP)
trace_get_ospf_header(q) == Whole(trace_get_transport(q), "ospf", 24)

\* What a program does for the bytes behind the transport header.
PayloadBehind(p, c) ==
  CASE c.type = "tcp" -> trace_get_payload_from_tcp(p, c)
    [] c.type = "udp" -> trace_get_payload_from_udp(p, c)
    [] c.type = "icmp" -> trace_get_payload_from_icmp(p, c)
    [] c.type = "icmp6" -> trace_get_payload_from_icmp6(p, c)
    [] c.type = "gre" -> trace_get_payload_from_gre(p, c)
    [] OTHER -> [c EXCEPT !.at = NIL]
Payload(q) ==
  With(trace_get_transport(q), LAMBDA r, c : Ret(r, IF c.at = NIL THEN c ELSE PayloadBehind(r.p, c)))

----------------------------------------------------------------------------
(* Lengths.                                                                *)

\* Bytes on the wire from a header to the end of what IP carries: ip_len.
LengthFrom(p, at) ==
  LET counted == {i \in DOMAIN p.headers : Offset(p, i) >= at /\ p.headers[i].kind # "pad"}
  IN MapThenSumSet(LAMBDA i : p.headers[i].size, counted)

IpPayload_Outer(p, l3) == LengthFrom(p, l3.at) - HeaderAt(p, l3.at).size
\* The header's own length and, for IPv6 within IPv4, that of the inner one.
IpPayload(p, l3) ==
  LET ip == HeaderAt(p, l3.at)
      inner == IF ip.kind = "ip" /\ KindAfter(p, l3.at) = "ip6" THEN IP6 ELSE 0
  IN LengthFrom(p, l3.at) - ip.size - inner

TransportSize(p, c) ==
  CASE c.type = "tcp" -> HeaderAt(p, c.at).size
    [] c.type = "udp" -> UDP
    [] OTHER -> ICMP

\* The fixed part of an IP header is captured.
HasIp(c) == \/ c.at # NIL /\ c.type = "ip" /\ c.rem >= IP
            \/ c.at # NIL /\ c.type = "ip6" /\ c.rem >= IP6
KeepLength(q, l4, len, size) ==
  IF \/ l4.at = NIL \/ l4.type \notin {"tcp", "udp", "icmp", "icmp6"}
     \/ l4.rem < (IF l4.type = "tcp" THEN TCP ELSE UDP) \/ len < size
  THEN Ret(q, 0) ELSE Ret([q EXCEPT !.payload_length = len - size], len - size)
trace_get_payload_length(q) ==
  IF q.payload_length # -1 THEN Ret(q, q.payload_length)
  ELSE With(trace_get_layer3([q EXCEPT !.payload_length = 0]),
            LAMBDA r, l3 :
              IF ~HasIp(l3) THEN Ret(r, 0)
              ELSE With(trace_get_transport(r),
                        LAMBDA s, l4 : KeepLength(s, l4, IpPayload(s.p, l3), TransportSize(s.p, l4))))

\* A format cannot make a packet longer.  What is kept of the layers stays.
Smaller(p, size) == IF size > p.cap THEN p ELSE [p EXCEPT !.cap = size]
trace_set_capture_length(q, size) == Ret([q EXCEPT !.p = Smaller(q.p, size)], Smaller(q.p, size).cap)

----------------------------------------------------------------------------
(* Stripping of VLAN, MPLS and PPPoE headers.                              *)

Without_Unmoved(p, from, to) ==
  [p EXCEPT !.headers = SelectSeq(@, LAMBDA h : h.kind \notin {"vlan", "mpls", "pppoe"})]
\* p without the headers from from to to: those in front move up.
MovedUp(h, from, to) == IF h.at < from THEN [h EXCEPT !.at = @ + (to - from)] ELSE h
Without(p, from, to) ==
  LET kept == SelectSeq(p.headers, LAMBDA h : h.at < from \/ h.at >= to)
  IN [p EXCEPT !.headers = [i \in DOMAIN kept |-> MovedUp(kept[i], from, to)],
               !.start = @ + (to - from)]

\* The loop leaves finalethertype at 0 when the capture ends behind a tag.
FinalType(c) == IF c.rem = 0 \/ c.type \in Strippable THEN "0" ELSE c.type

Stripped_KeepsLayer2(q, moved) == [q EXCEPT !.p = moved]
Stripped(q, moved) == [q EXCEPT !.p = moved, !.l2 = Nowhere]
\* The test for a packet without tags compares with the wrong byte order and
\* never holds, so that every packet goes through the loop.
Move(q, moved) == Ret(Stripped(q, moved), moved)
StripTags(q, dest, next) ==
  IF next.at = NIL THEN Ret(q, q.p)
  ELSE With(trace_set_capture_length(q, q.p.cap - (next.at - dest.at)),
            LAMBDA r, cap : Move(r, [Without(r.p, dest.at, next.at) EXCEPT !.ether_type = FinalType(next)]))
trace_strip_packet(q) ==
  With(trace_get_layer2(q),
       LAMBDA r, c : IF c.at = NIL \/ c.type # "ETH" \/ c.rem <= ETHER THEN Ret(r, r.p)
                     ELSE With(Ret(r, trace_get_payload_from_ethernet(r.p, c)),
                               LAMBDA s, dest : StripTags(s, dest, SkipTags(s.p, dest))))

----------------------------------------------------------------------------
(* Addresses and ports.                                                    *)

\* Where the address is in the header; ASSERT when the assert of the function
\* fails, whose comment is that metadata headers are skipped by now.
trace_get_source_mac(q) ==
  With(trace_get_layer2(q),
       LAMBDA r, c :
         Ret(r, CASE c.at = NIL -> "NIL"
                  [] c.type = "ETH" -> "ether_shost"
                  [] c.type = "80211" -> IF HeaderAt(r.p, c.at).kind = "80211ack" THEN "NIL" ELSE "mac2"
                  [] c.type \in MetaTypes \ {"PFLOG"} -> "ASSERT"
                  [] OTHER -> "NIL"))

trace_get_destination_mac(q) ==
  With(trace_get_layer2(q),
       LAMBDA r, c :
         Ret(r, CASE c.at = NIL -> "NIL"
                  [] c.type = "ETH" -> "ether_dhost"
                  [] c.type = "80211" -> "mac1"
                  [] c.type \in MetaTypes \ {"PFLOG"} -> "ASSERT"
                  [] OTHER -> "NIL"))

\* The kind of address, and whether the first four bytes behind the IP
\* header are taken for its port.
L2Address(q) ==
  With(trace_get_layer2(q),
       LAMBDA r, c : Ret(r, <<IF c.at # NIL /\ c.type = "ETH" THEN "ether" ELSE "NIL", FALSE>>))

HasBytes(c, n) == c.at # NIL /\ c.rem >= n
Address(q) ==
  With(trace_get_layer3(q),
       LAMBDA r, c :
         IF c.at = NIL \/ c.type \notin {"ip", "ip6"} THEN L2Address(r)
         ELSE Ret(r, <<c.type, HasBytes(IF c.type = "ip" THEN trace_get_payload_from_ip(r.p, c)
                                        ELSE trace_get_payload_from_ip6(r.p, c), 4)>>))

trace_get_source_address(q) == Address(q)
trace_get_destination_address(q) == Address(q)

\* For IPv6 the header after the fixed one is taken for the fixed one and the
\* fixed one for the extension header, which ends the search (its first byte
\* is no protocol number the loop knows) whatever the packet is.
trace_get_fragment_offset(q) ==
  With(trace_get_layer3(q),
       LAMBDA r, c : Ret(r, IF HasBytes(c, 8) /\ c.type = "ip"
                            THEN <<HeaderAt(r.p, c.at).off, HeaderAt(r.p, c.at).more>> ELSE <<0, FALSE>>))

\* The port is found if its bytes are captured and this is a first fragment.
Port(q, bytes) ==
  With(trace_get_fragment_offset(q),
       LAMBDA r, frag :
         IF frag[1] # 0 THEN Ret(r, FALSE)
         ELSE With(trace_get_transport(r),
                   LAMBDA s, c : Ret(s, HasBytes(c, bytes) /\ c.type \notin {"icmp", "icmp6"})))

trace_get_source_port(q) == Port(q, 2)
trace_get_destination_port(q) == Port(q, 4)

----------------------------------------------------------------------------
(* Checksums and hashes: what they are taken over.                         *)

trace_checksum_layer3(q) == Whole(trace_get_layer3(q), "ip", IP)

Covers_Begun(payload, plen) == payload.at # NIL
Covers(payload, plen) == payload.rem >= plen /\ payload.at # NIL
ChecksumFrom(q, l4) ==
  IF l4.at = NIL \/ l4.type \notin {"tcp", "udp", "icmp"} THEN Ret(q, NIL)
  ELSE With(trace_get_payload_length(q),
            LAMBDA r, plen : Ret(r, IF Covers(Skip(l4, TransportSize(r.p, l4), l4.type), plen)
                                    THEN l4.at ELSE NIL))
trace_checksum_transport(q) ==
  With(trace_get_layer3(q),
       LAMBDA r, l3 :
         IF l3.at = NIL \/ (l3.type \in {"ip", "ip6"} /\ ~HasIp(l3)) THEN Ret(r, NIL)
         ELSE With(trace_get_transport(r), LAMBDA s, l4 : ChecksumFrom(s, l4)))

\* The parts of a packet that are hashed, with every hash type enabled.
toeplitz_hash_packet(q) ==
  With(trace_get_layer3(q),
       LAMBDA r, l3 :
         IF l3.at # NIL /\ l3.type \notin {"ip", "ip6"} THEN Ret(r, {})
         ELSE With(trace_get_transport(r),
                   LAMBDA s, l4 : Ret(s, IF ~HasIp(l3) THEN {}
                                         ELSE IF l4.type \in {"tcp", "udp"} /\ HasBytes(l4, 4)
                                         THEN {"addresses", "ports"} ELSE {"addresses"})))

----------------------------------------------------------------------------
(* The program.                                                            *)

Do(call, q) ==
  CASE call = "meta" -> trace_get_packet_meta(q)
    [] call = "layer2" -> trace_get_layer2(q)
    [] call = "layer3" -> trace_get_layer3(q)
    [] call = "transport" -> trace_get_transport(q)
    [] call = "ip" -> trace_get_ip(q)
    [] call = "ip6" -> trace_get_ip6(q)
    [] call = "tcp" -> trace_get_tcp(q)
    [] call = "udp" -> trace_get_udp(q)
    [] call = "icmp" -> trace_get_icmp(q)
    [] call = "icmp6" -> trace_get_icmp6(q)
    [] call = "ospf" -> trace_get_ospf_header(q)
    [] call = "payload" -> Payload(q)
    [] call = "payload_length" -> trace_get_payload_length(q)
    [] call = "source_mac" -> trace_get_source_mac(q)
    [] call = "destination_mac" -> trace_get_destination_mac(q)
    [] call = "source_address" -> trace_get_source_address(q)
    [] call = "destination_address" -> trace_get_destination_address(q)
    [] call = "fragment_offset" -> trace_get_fragment_offset(q)
    [] call = "source_port" -> trace_get_source_port(q)
    [] call = "destination_port" -> trace_get_destination_port(q)
    [] call = "checksum_layer3" -> trace_checksum_layer3(q)
    [] call = "checksum_transport" -> trace_checksum_transport(q)
    [] call = "hash" -> toeplitz_hash_packet(q)

Calls == {"meta", "layer2", "layer3", "transport", "ip", "ip6", "tcp", "udp", "icmp", "icmp6", "ospf",
          "payload", "payload_length", "source_mac", "destination_mac", "source_address",
          "destination_address", "fragment_offset", "source_port", "destination_port",
          "checksum_layer3", "checksum_transport", "hash"}

Init == k \in {New(p) : p \in Packets}

Ask == \E call \in Calls : k' = Do(call, k).k

Truncate == \E size \in Sizes : k' = trace_set_capture_length(k, size).k

Strip == k' = trace_strip_packet(k).k

Next == Ask \/ Truncate \/ Strip

Spec == Init /\ [][Next]_k

----------------------------------------------------------------------------
(* What the headers of a packet say, apart from the decoders.              *)

\* The first byte that is not captured.
End(p) == p.start + Captured(p)

First(p, kinds) == Min({i \in DOMAIN p.headers : p.headers[i].kind \in kinds} \cup {Len(p.headers) + 1})
MetaKinds == {"sll", "radiotap", "prism", "pflog"}
LinkKinds == MetaKinds \cup {"eth", "80211", "80211ack", "llcsnap", "type", "ppp", "hdlc", "atm", "loop",
                            "vlan", "mpls", "pppoe"}

\* The layer 2 header, the layer 3 header and the transport header.
Layer2(p) == First(p, Kinds(p) \ MetaKinds)
Layer3(p) == First(p, Kinds(p) \ LinkKinds)
Layer4(p) == First(p, Kinds(p) \ (LinkKinds \cup {"ip", "ip6", "frag"} \cup ExtensionHeaders))

\* Whether a byte of header i is captured; whether those before it all are.
Begun(p, i) == i <= Len(p.headers) /\ Offset(p, i) < End(p)
Reached(p, i) == i <= Len(p.headers) /\ Offset(p, i) <= End(p)

HasTransport(p) ==
  LET ip == Layer3(p)
  IN Begun(p, ip) /\ p.headers[ip].kind \in {"ip", "ip6"} /\ p.headers[ip].off = 0 /\ Reached(p, Layer4(p))

FoundAt(p, i) == [at |-> Offset(p, i), rem |-> End(p) - Offset(p, i)]
Found(c) == [at |-> c.at, rem |-> c.rem]

----------------------------------------------------------------------------
(* Properties.                                                             *)

Cursors == [at : Int, type : STRING, rem : Int]

\* The bytes and what is kept have their types.
TypeOK ==
  /\ k.l2 \in Cursors /\ k.l3 \in Cursors /\ k.l4 \in Cursors
  /\ k.payload_length \in Nat \cup {-1}
  /\ k.p.cap \in Nat /\ k.p.start \in Nat

\* The bytes of q as they are, and as far as they were captured when a header was kept.
AsKept(q) ==
  LET kept == {c \in {q.l2, q.l3, q.l4} : c.at # NIL}
  IN {q.p} \cup {[q.p EXCEPT !.cap = c.at + c.rem - q.p.start] : c \in kept}

\* Behind metadata trace_get_layer2 gives a kept header the type of the metadata
\* (protocols_l2.c:452), which shows unless IP was found before.
Mistyped(q, call) ==
  /\ q.l2.at # NIL /\ q.p.link \in MetaTypes
  /\ call \in {"layer2", "source_mac", "destination_mac"} \/ q.l3.type \notin {"ip", "ip6"}

\* What was asked before never changes an answer, in whatever order and between
\* whatever stripping: every call returns what it would return on a packet just read.
\* The kept pointers are, as the comment in trace_get_layer3 says, just a cache.  A
\* packet that was truncated after a header of it was kept answers as if it still
\* had all the bytes it had then.  Excepted are mistyped headers.
SameAnswer ==
  \A call \in Calls :
    Mistyped(k, call) \/ \E p \in AsKept(k) : Do(call, k).ret = Do(call, New(p)).ret

\* Whether the decoders misjudge how much is captured behind a link header.
\* An 802.11 header of 24 or 26 bytes is refused unless 30 bytes are captured (267), and
\* behind one of 30 or 32 bytes the count of remaining bytes wraps (301); LLC/SNAP
\* behind 802.11 and OpenBSD's loopback header leave the count as it was.
Misjudged(p) ==
  \E i \in DOMAIN p.headers :
    LET n == End(p) - Offset(p, i)
        ethertype == p.headers[i].size + 2
    IN \/ p.headers[i].kind = "loop"
       \/ /\ p.headers[i].kind = "80211"
          /\ \/ p.headers[i + 1].kind = "llcsnap"
             \/ n < IEEE80211 /\ n > ethertype
             \/ n >= IEEE80211 /\ n < ethertype

\* A pointer to layer 3 points there, however many bytes are said to be behind it.
PointsToLayer3 == trace_get_layer3(New(k.p)).ret.at \in {NIL, Offset(k.p, Layer3(k.p))}

\* trace_get_layer3 finds the layer 3 header behind any link and metadata
\* headers, tags and labels, exactly if a byte of it is captured, and says how
\* many bytes of the packet are behind its pointer.
Layer3Found ==
  LET i == Layer3(k.p)
      c == trace_get_layer3(New(k.p)).ret
  IN IF Begun(k.p, i) THEN Found(c) = FoundAt(k.p, i) ELSE c.at = NIL

\* trace_get_transport finds the header behind IPv4, IPv6 and all extension
\* headers, exactly if these are captured whole and this is a first fragment.
TransportFound ==
  LET i == Layer4(k.p)
      c == trace_get_transport(New(k.p)).ret
  IN IF HasTransport(k.p) THEN Found(c) = FoundAt(k.p, i) /\ c.type = k.p.headers[i].kind ELSE c.at = NIL

\* The payload is right behind the transport header, if that is captured whole:
\* options of TCP and GRE included.
PayloadFound ==
  LET i == Layer4(k.p)
      c == Payload(New(k.p)).ret
  IN IF /\ HasTransport(k.p) /\ Offset(k.p, i + 1) <= End(k.p)
        /\ k.p.headers[i].kind \in {"tcp", "udp", "icmp", "icmp6", "gre"}
     THEN Found(c) = FoundAt(k.p, i + 1) ELSE c.at = NIL

\* trace_get_payload_length is the number of bytes that followed the transport
\* header on the wire (libtrace.h.in), truncated or not, and without the padding of
\* short frames; 0 if a header is truncated.  Behind extension headers of IPv6 it is
\* not: plen counts these too (protocols_transport.c:99).
PayloadLengthTrue ==
  LET p == k.p
      i == Layer4(p)
      base == IF p.headers[i].kind = "tcp" THEN TCP ELSE UDP
      counted == /\ HasTransport(p) /\ p.headers[i].kind \in {"tcp", "udp", "icmp", "icmp6"}
                 /\ Offset(p, i) + base <= End(p)
  IN Kinds(p) \cap (ExtensionHeaders \cup {"frag"}) = {} =>
       trace_get_payload_length(New(p)).ret = IF counted THEN LengthFrom(p, Offset(p, i + 1)) ELSE 0

\* A checksum or a hash that includes the transport header is only taken over
\* bytes that are captured; the checksum over all of IP's payload.
OnlyCapturedBytes ==
  LET p == k.p
      i == Layer4(p)
      sum == trace_checksum_transport(New(p)).ret
      hashed == toeplitz_hash_packet(New(p)).ret
  IN /\ sum # NIL =>
          /\ sum = Offset(p, i)
          /\ \A j \in i..Len(p.headers) : p.headers[j].kind # "pad" => Offset(p, j + 1) <= End(p)
     /\ "ports" \in hashed => "addresses" \in hashed /\ Offset(p, i) + 4 <= End(p)

\* The decoders find exactly what is captured; only the count of bytes is wrong, or nothing
\* found, where they misjudge it.
HeadersFound ==
  IF Misjudged(k.p) THEN PointsToLayer3
  ELSE Layer3Found /\ TransportFound /\ PayloadFound /\ PayloadLengthTrue /\ OnlyCapturedBytes

\* Stripping takes away exactly the tags and labels: every captured byte of
\* layer 3 stays where it is, and Ethernet is right in front of it.  Of a capture with
\* padding, the padding comes to be part of the packet.
StripKeepsLayer3 ==
  LET p == k.p
      q == trace_strip_packet(New(p)).ret
  IN /\ Begun(p, Layer3(p)) =>
          /\ Begun(q, Layer3(q))
          /\ Offset(q, Layer3(q)) = Offset(p, Layer3(p))
          /\ p.cap <= p.wire => End(q) = End(p)
          /\ p.link = "ETH" => Kinds(q) \cap Strippable = {}
     /\ q.cap <= p.cap
=============================================================================
