------------------------------ MODULE Headers ------------------------------
(***************************************************************************)
(* The decoders that step from one header of a packet to the next          *)
(* (lib/protocols_pktmeta.c, protocols_l2.c, protocols_l3.c and            *)
(* protocols_transport.c).                                                 *)
(*                                                                         *)
(* A packet is the sequence of its headers, the last one standing for the  *)
(* payload.  A header has a kind, a size in bytes and a place (at); what its *)
(* next-header field says is the kind of the header after it.  A pointer   *)
(* is an offset in the packet's buffer.  A cursor holds what the decoders pass along: a  *)
(* pointer, the type they say the header there has, and the number of      *)
(* bytes they say remain.                                                  *)
(***************************************************************************)
EXTENDS Integers, Sequences

\* The null pointer.
NIL == -1

\* sizeof of the structures.
ETHER == 14
VLAN == 4
MPLS == 4
LLCSNAP == 8
IEEE80211 == 30
PPP == 2
PPPOE == 6
CHDLC == 4
PPP_HDLC == 4
ATM_CELL == 4
SLL == 16
\* With the two bytes that sa_family_t has on Linux.
PFLOG == 49
PRISM == 144
IP == 20
IP6 == 40
IP6_FRAG == 8
UDP == 8
TCP == 20
ICMP == 8
GRE == 4

----------------------------------------------------------------------------
(* Reading the packet.                                                     *)

\* Where header number i starts; behind the last one, where the packet ends.
Offset(p, i) ==
  LET last == p.headers[Len(p.headers)]
  IN IF i <= Len(p.headers) THEN p.headers[i].at ELSE last.at + last.size

Kinds(p) == {p.headers[i].kind : i \in DOMAIN p.headers}

Length(p) == Offset(p, Len(p.headers) + 1) - p.start

\* What a read finds at an offset where no header starts.
Garbage == [kind |-> "garbage", size |-> 0, at |-> NIL, off |-> 0, more |-> FALSE]

Index(p, at) == {i \in DOMAIN p.headers : Offset(p, i) = at}
HeaderAt(p, at) ==
  IF Index(p, at) = {} THEN Garbage ELSE p.headers[CHOOSE i \in Index(p, at) : TRUE]

KindAfter(p, at) ==
  LET after == {i \in DOMAIN p.headers : i > 1 /\ i - 1 \in Index(p, at)}
  IN IF after = {} THEN "garbage" ELSE p.headers[CHOOSE i \in after : TRUE].kind

Strippable == {"vlan", "mpls", "pppoe"}
Ethertypes == {"ip", "ip6", "vlan", "mpls", "pppoe", "arp"}
Ethertype(kind) == IF kind \in Ethertypes THEN kind ELSE "0"

\* The ethertype of what follows, as PPP's protocol field tells it.
PppType(kind) == IF kind = "ip" THEN "ip" ELSE "0"

\* The version in the first four bits of a header.
VersionType(kind) == IF kind \in {"ip", "ip6"} THEN kind ELSE "0"

\* An unsigned number that went below zero.  2^30 stands for 2^32, which TLC's
\* integers do not reach.
WORD == 2^30
Unsigned(n) == IF n < 0 THEN n + WORD ELSE n

Truncated(c) == [c EXCEPT !.at = NIL, !.rem = 0]

\* What a loop over headers comes to: Step steps over one header, and leaves the
\* cursor alone at which the loop ends.
Loop(p, c, Step(_)) ==
  LET after[n \in 0..(Len(p.headers) + 1)] == IF n = 0 THEN c ELSE Step(after[n - 1])
  IN after[Len(p.headers) + 1]

Skip(c, size, type) ==
  IF c.rem < size THEN Truncated(c)
  ELSE [at |-> c.at + size, type |-> type, rem |-> c.rem - size]

----------------------------------------------------------------------------
(* Metadata headers.                                                       *)

MetaTypes == {"LINUX_SLL", "80211_RADIO", "80211_PRISM", "PFLOG"}

arphrd_type_to_libtrace(kind) ==
  CASE kind = "80211" -> "80211"
    [] kind = "radiotap" -> "80211_RADIO"
    [] kind = "eth" -> "ETH"
    [] OTHER -> "NONE"

\* After an SLL header an Ethernet header is usually absent: only the
\* loopback protocol (0x0060) says that there is one.
trace_get_payload_from_linux_sll(p, c) ==
  Skip(c, SLL, arphrd_type_to_libtrace(KindAfter(p, c.at)))

trace_get_payload_from_radiotap(p, c) == Skip(c, HeaderAt(p, c.at).size, "80211")

trace_get_payload_from_prism(p, c) == Skip(c, PRISM, "80211")

trace_get_payload_from_pflog(p, c) == Skip(c, PFLOG, "NONE")

\* A truncated SLL header leaves arphrd at 0, which is no type at all.
SllType(next) == IF next.at = NIL THEN [next EXCEPT !.type = "UNKNOWN"] ELSE next
trace_get_payload_from_meta(p, c) ==
  CASE c.type = "LINUX_SLL" -> SllType(trace_get_payload_from_linux_sll(p, c))
    [] c.type = "80211_RADIO" -> trace_get_payload_from_radiotap(p, c)
    [] c.type = "80211_PRISM" -> trace_get_payload_from_prism(p, c)
    [] c.type = "PFLOG" -> trace_get_payload_from_pflog(p, c)
    [] OTHER -> [c EXCEPT !.at = NIL]

----------------------------------------------------------------------------
(* Layer 2 and what is between it and layer 3.                             *)

\* trace_strip_packet writes the type field.
trace_get_payload_from_ethernet(p, c) ==
  Skip(c, ETHER, IF p.ether_type # "" THEN p.ether_type ELSE Ethertype(KindAfter(p, c.at)))

trace_get_payload_from_vlan_KeepsRem(p, c) ==
  [Skip(c, VLAN, Ethertype(KindAfter(p, c.at))) EXCEPT !.rem = c.rem]
trace_get_payload_from_vlan(p, c) == Skip(c, VLAN, Ethertype(KindAfter(p, c.at)))

\* Guesses what follows the last label from its first byte, if captured.
MplsType(p, c) ==
  IF KindAfter(p, c.at) = "mpls" THEN "mpls"
  ELSE IF c.rem >= MPLS + 1 THEN VersionType(KindAfter(p, c.at)) ELSE c.type
trace_get_payload_from_mpls(p, c) ==
  IF c.rem < MPLS THEN [c EXCEPT !.at = NIL, !.type = MplsType(p, c)]
  ELSE Skip(c, MPLS, MplsType(p, c))

trace_get_payload_from_llcsnap(p, c) == Skip(c, LLCSNAP, Ethertype(KindAfter(p, c.at)))

trace_get_payload_from_ppp(p, c) == Skip(c, PPP, PppType(KindAfter(p, c.at)))

IfCaptured(c, Go(_)) == IF c.at = NIL THEN c ELSE Go(c)
trace_get_payload_from_pppoe(p, c) ==
  IfCaptured(Skip(c, PPPOE, c.type), LAMBDA ppp : trace_get_payload_from_ppp(p, ppp))

trace_get_payload_from_chdlc(p, c) == Skip(c, CHDLC, Ethertype(KindAfter(p, c.at)))

trace_get_payload_from_ppp_hdlc(p, c) == Skip(c, PPP_HDLC, PppType(KindAfter(p, c.at)))

trace_get_payload_from_atm(p, c) == Skip(c, ATM_CELL, c.type)

\* The header of a data frame has 24 to 32 bytes, and what follows it may be read
\* where nothing is captured: the buffer has these bytes still, or others (p.lost).
\* An LLC/SNAP header is skipped without counting the 802.11 header before it.
trace_get_payload_from_80211(p, c) ==
  LET wifi == HeaderAt(p, c.at)
      eth == c.at + wifi.size
      next == IF p.lost /\ c.rem < wifi.size + 2 THEN Garbage ELSE HeaderAt(p, eth)
  IN IF c.rem < IEEE80211 THEN Truncated(c)
     ELSE IF wifi.kind # "80211" THEN [c EXCEPT !.at = NIL]
     ELSE IF next.kind = "llcsnap"
          THEN trace_get_payload_from_llcsnap(p, [c EXCEPT !.at = eth])
          ELSE [at |-> eth + 2, type |-> IF next = Garbage THEN "0" ELSE Ethertype(KindAfter(p, eth)),
                rem |-> Unsigned(c.rem - wifi.size - 2)]

trace_get_payload_from_layer2(p, c) ==
  CASE c.type = "80211" -> trace_get_payload_from_80211(p, c)
    [] c.type = "ETH" -> trace_get_payload_from_ethernet(p, c)
    [] c.type = "NONE" -> [c EXCEPT !.type = VersionType(HeaderAt(p, c.at).kind)]
    [] c.type = "PPP" -> trace_get_payload_from_ppp(p, c)
    [] c.type = "ATM" ->
         IfCaptured(trace_get_payload_from_atm(p, c), LAMBDA l : trace_get_payload_from_llcsnap(p, l))
    [] c.type = "LLCSNAP" -> trace_get_payload_from_llcsnap(p, c)
    [] c.type = "HDLC_POS" -> trace_get_payload_from_chdlc(p, c)
    [] c.type = "POS" -> trace_get_payload_from_ppp_hdlc(p, c)
    [] c.type = "OPENBSD_LOOP" ->
         [c EXCEPT !.at = @ + 4, !.type = VersionType(HeaderAt(p, c.at + 4).kind)]
    [] OTHER -> [c EXCEPT !.at = NIL]

Stay(c, l) == IF l.at = NIL THEN [l EXCEPT !.at = c.at] ELSE l
SkipMeta(p, c) == Loop(p, c, LAMBDA h : Stay(h, trace_get_payload_from_meta(p, h)))

trace_get_payload_from_link(p, c) == trace_get_payload_from_layer2(p, SkipMeta(p, c))

\* The loop of trace_get_layer3.  The test for an Ethernet header inside MPLS
\* compares the pointer ethertype with 0 and so never holds.
SkipTag(p, c) ==
  IF c.at = NIL \/ c.rem = 0 THEN c
  ELSE CASE c.type = "vlan" -> trace_get_payload_from_vlan(p, c)
         [] c.type = "mpls" -> trace_get_payload_from_mpls(p, c)
         [] c.type = "pppoe" -> trace_get_payload_from_pppoe(p, c)
         [] OTHER -> c
SkipTags(p, c) == Loop(p, c, LAMBDA h : SkipTag(p, h))

----------------------------------------------------------------------------
(* Layer 3 and above.                                                      *)

trace_get_payload_from_ip_AnyFragment(p, c) ==
  IF HeaderAt(p, c.at).kind # "ip" THEN [c EXCEPT !.at = NIL]
  ELSE Skip(c, HeaderAt(p, c.at).size, KindAfter(p, c.at))
\* Only the first fragment has a transport header.
trace_get_payload_from_ip(p, c) ==
  LET ip == HeaderAt(p, c.at) IN
  IF ip.kind # "ip" THEN [c EXCEPT !.at = NIL]
  ELSE IF ip.off # 0 THEN Truncated(c)
  ELSE Skip(c, ip.size, KindAfter(p, c.at))

ExtensionHeaders == {"hopopts", "routing", "ah", "dstopts"}

SkipExtension(p, c) ==
  CASE c.at = NIL -> c
    [] c.at # NIL /\ c.type \in ExtensionHeaders -> Skip(c, HeaderAt(p, c.at).size, KindAfter(p, c.at))
    [] c.at # NIL /\ c.type = "frag" -> Skip(c, IP6_FRAG, KindAfter(p, c.at))
    [] OTHER -> c

trace_get_payload_from_ip6(p, c) ==
  Loop(p, Skip(c, IP6, KindAfter(p, c.at)), LAMBDA h : SkipExtension(p, h))

trace_get_payload_from_udp(p, c) == Skip(c, UDP, c.type)

trace_get_payload_from_tcp_NoOptions(p, c) == Skip(c, TCP, c.type)
trace_get_payload_from_tcp(p, c) == Skip(c, HeaderAt(p, c.at).size, c.type)

trace_get_payload_from_icmp(p, c) == Skip(c, ICMP, c.type)

trace_get_payload_from_icmp6(p, c) == Skip(c, ICMP, c.type)

\* A checksum, a key and a sequence number add four bytes each.
trace_get_payload_from_gre(p, c) ==
  IF c.rem < GRE THEN Truncated(c) ELSE Skip(c, HeaderAt(p, c.at).size, c.type)
=============================================================================
