----------------------------- MODULE MCDecoding -----------------------------
(* Packets and calculations for which TLC checks Decoding and Calculations *)
(* (a behaviour is one or the other).  Packets are stacks of headers, each *)
(* captured up to and one byte around every boundary between two of them.  *)
EXTENDS Headers, FiniteSets, TLC

VARIABLES k, calc
vars == <<k, calc>>

H(kind, size) == [kind |-> kind, size |-> size, at |-> 0, off |-> 0, more |-> FALSE]

Eth == H("eth", ETHER)
Ip == H("ip", 20)
IpOptions == H("ip", 24)
Fragment(off, more) == [Ip EXCEPT !.off = off, !.more = more]
Ip6 == H("ip6", IP6)
Tcp == H("tcp", 32)
Udp == H("udp", UDP)
Data == H("data", 6)
Pad == H("pad", 4)

Carried == {<<Ip, Tcp, Data>>, <<IpOptions, Udp, Data, Pad>>, <<Ip, H("icmp", 8), Data>>,
            <<Ip, H("ospf", 24), Data>>, <<Fragment(8, TRUE), Data>>, <<Ip, H("gre", 8), Data>>,
            <<Ip6, Udp, Data>>, <<Ip6, H("icmp6", 8), Data>>, <<Ip, Ip6, Tcp, Data>>,
            <<H("arp", 28), Pad>>}
Extended == {<<Ip6, H("hopopts", 16), H("dstopts", 8), Tcp, Data>>, <<Ip6, H("frag", 8), Udp, Data>>}
Simple == {<<Ip, Udp, Data>>, <<Ip6, Tcp, Data>>}

Placed(headers) ==
  LET place[i \in 1..Len(headers)] == IF i = 1 THEN 0 ELSE place[i - 1] + headers[i - 1].size
  IN [i \in DOMAIN headers |-> [headers[i] EXCEPT !.at = place[i]]]
Stack(link, headers) == [link |-> link, headers |-> Placed(headers), start |-> 0, ether_type |-> "",
                         lost |-> FALSE]
Stacks ==
  {Stack("ETH", <<Eth>> \o c) : c \in Carried \cup Extended} \cup
  {Stack("ETH", <<Eth>> \o tags \o c) :
     tags \in {<<H("vlan", 4)>>, <<H("vlan", 4), H("mpls", 4), H("mpls", 4)>>}, c \in Simple} \cup
  {Stack("ETH", <<Eth, H("pppoe", 6), H("ppp", 2), Ip, Udp, Data>>)} \cup
  {Stack(pair[1], <<H(pair[2], pair[3]), Ip, Udp, Data>>) :
     pair \in {<<"HDLC_POS", "hdlc", 4>>, <<"POS", "hdlc", 4>>, <<"PPP", "ppp", 2>>,
               <<"LLCSNAP", "llcsnap", 8>>}} \cup
  {Stack("ATM", <<H("atm", 4), H("llcsnap", 8), Ip, Udp, Data>>),
   Stack("NONE", <<Ip6, Udp, Data>>)}

\* Frames of 802.11 with headers of every size.
Wifi(size) == <<H("80211", size), H("type", 2), Ip, Udp, Data>>
Frames == {Stack("80211", Wifi(size)) : size \in {24, 26, 30, 32}} \cup
          {Stack("80211", <<H("80211ack", 30)>>),
           Stack("80211", <<H("80211", 26), H("llcsnap", 8), Ip, Udp, Data>>)}

\* Packets with metadata in front.
Metadata == {
  Stack("LINUX_SLL", <<H("sll", SLL), Ip, Udp, Data>>),
  Stack("LINUX_SLL", <<H("sll", SLL), Eth, H("vlan", 4), Ip6, Tcp, Data>>),
  Stack("LINUX_SLL", <<H("sll", SLL), H("radiotap", 14)>> \o Wifi(32)),
  Stack("80211_RADIO", <<H("radiotap", 26)>> \o Wifi(30)),
  Stack("80211_PRISM", <<H("prism", PRISM), H("80211", 26), H("type", 2), Ip6, Udp, Data>>),
  Stack("PFLOG", <<H("pflog", PFLOG), Ip, Udp, Data>>),
  Stack("OPENBSD_LOOP", <<H("loop", 4), Ip, Udp, Data>>)}

\* One byte of padding behind the packet too.
Captures(stacks) ==
  UNION {{s @@ [cap |-> Offset(s, i) + d, wire |-> Length(s)] :
            i \in 2..(Len(s.headers) + 1), d \in {-1, 0, 1}} : s \in stacks}

Packets == Captures(Stacks \cup Metadata \cup Frames \cup {[s EXCEPT !.lost = TRUE] : s \in Frames})

\* Behind the link header of most packets, within the next one or the one after it.
Sizes == {30, 40}
D == INSTANCE Decoding

----------------------------------------------------------------------------
(* Calculations.                                                           *)

SECOND == 22
MICROS == 4
THOUSAND == 5
HASH_BYTES == 2
KEY_BYTES == 10
C == INSTANCE Calculations

Upto(values, n) == UNION {[1..i -> values] : i \in 0..n}

\* Sums with and without carries, of even and odd lengths; two carries.
Checksums == {[what |-> "checksum", bytes |-> b] :
                b \in Upto({0, 1, 255}, 5) \cup {<<255, 255, 255, 255, 2, 0>>}}
Addresses == {<<10, 0, 255, 1>>, <<0, 0, 0, 0>>, <<255, 255, 255, 254>>}
Long(address) == address \o address \o address \o address
Ip4s == {[version |-> 4, src |-> s, dst |-> d, proto |-> 17, hl |-> 20, len |-> len] :
           s \in Addresses, d \in Addresses, len \in {20, 40, 300, 65535}}
Ip6s == {[version |-> 6, src |-> Long(s), dst |-> Long(d), proto |-> 6, plen |-> len] :
           s \in Addresses, d \in Addresses, len \in {0, 300, 65535}}
Pseudo == {[what |-> "pseudo", ip |-> ip, header |-> <<9, 200>>, payload |-> b] :
             ip \in Ip4s \cup Ip6s, b \in Upto({0, 129}, 2)}

\* Bits 16 at a time, most significant first.
Bits(n) == [j \in 1..16 |-> (n \div 2^(16 - j)) % 2]
AnyKey == [j \in 1..(8 * KEY_BYTES) |-> ((j * j) \div 3) % 2]
Flows == {[what |-> "hash", key |-> AnyKey, bi_key |-> Bits(key), src |-> Bits(s), dst |-> Bits(d), sport |-> Bits(sp),
           dport |-> Bits(dp)] :
            key \in {27996, 1}, s \in {2561, 0}, d \in {2561, 43690}, sp \in {80, 65535}, dp \in {80, 49155}}

PortNumbers == {0, 1, 511, 512, 513, 1023, 1024, 4999, 5000, 5001, 49152, 65535}
Ports == {[what |-> "port", source |-> s, dest |-> d] : s \in PortNumbers, d \in PortNumbers}

\* Pairs of times at most a second apart, the first not after the second.
TimesOf(kind, unit) ==
  {[what |-> "time", kind |-> kind, first |-> [sec |-> 1, frac |-> f], second |-> [sec |-> s, frac |-> g]] :
     f \in 0..(unit - 1), s \in {1, 2}, g \in 0..(unit - 1)}
Times ==
  {t \in TimesOf("erf", SECOND) \cup TimesOf("timeval", MICROS) \cup
          TimesOf("timespec", MICROS * THOUSAND) \cup TimesOf("seconds", 1) :
     t.first.sec < t.second.sec \/ t.first.frac <= t.second.frac}

FieldNames == {C!Fields[i] : i \in DOMAIN C!Fields}
SetsOf(n) == {S \in SUBSET FieldNames : Cardinality(S) <= n}
Radiotaps == {[what |-> "radiotap", links |-> l, rtap |-> [present |-> S, ext |-> e]] :
                l \in {<<"80211_RADIO">>, <<"LINUX_SLL", "80211_RADIO">>}, S \in SetsOf(3), e \in {0, 2}}

Walk(w) == w @@ [seen |-> <<>>, ret |-> 1]
Options == {Walk([what |-> "options", bytes |-> b, ptr |-> 1, rem |-> Len(b)]) : b \in Upto({0, 1, 2, 3, 7}, 5)}

Item(length, valid) == [length |-> length, valid |-> valid]
ItemLists == Upto({Item(20, TRUE), Item(36, TRUE), Item(24, FALSE)}, 3)
OspfOf(kind, items) ==
  LET w == [what |-> "ospf", kind |-> kind, items |-> items, ptr |-> 0, body |-> -1]
      ends == {C!ItemStart(w, n) : n \in 1..(Len(items) + 1)} \cup {C!OSPF_HEADER}
      caps == {e + d : e \in ends, d \in {-1, 0, 1}} \cap 0..C!ItemStart(w, Len(items) + 1)
  IN {Walk(w @@ [cap |-> n, rem |-> n]) : n \in caps}
Ospf == UNION {OspfOf(kind, items) : kind \in {"update", "db_desc", "router"}, items \in ItemLists}

Rings == {[what |-> "ring", pagesize |-> 4096, mtu |-> mtu, order |-> order] :
            mtu \in {68, 1500, 4032, 4033, 9000, 65535}, order \in 0..11}

Inputs == Checksums \cup Pseudo \cup Flows \cup Ports \cup Times \cup Radiotaps \cup Options \cup Ospf \cup
            Rings

----------------------------------------------------------------------------
None == [none |-> TRUE]

Init ==
  \/ D!Init /\ calc = None
  \/ C!Init(Inputs) /\ k = None

Asks == k # None /\ D!Ask /\ UNCHANGED calc
Truncates == k # None /\ D!Truncate /\ UNCHANGED calc
Strips == k # None /\ D!Strip /\ UNCHANGED calc
WalksOptions == calc # None /\ C!NextOption /\ UNCHANGED k
FindsFirst == calc # None /\ C!FindFirst /\ UNCHANGED k
WalksItems == calc # None /\ C!NextItem /\ UNCHANGED k

Next == Asks \/ Truncates \/ Strips \/ WalksOptions \/ FindsFirst \/ WalksItems

Spec == Init /\ [][Next]_vars
=============================================================================
