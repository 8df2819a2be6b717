----------------------------- MODULE LinkTypes -----------------------------
(* The tables of linktypes.c between libtrace's link types, pcap's data     *)
(* link types, the types of ERF records and ARP hardware types.  A result   *)
(* outside a table is the "not known" value of the C function.              *)
EXTENDS Integers, Sequences

\* pcap: two numbers stand for raw IP, the DLT and the one used in files.
pcap_linktype_to_libtrace(dlt) ==
  CASE dlt \in {"RAW", "LINKTYPE_RAW"} -> "NONE"
    [] dlt = "EN10MB" -> "ETH"
    [] dlt = "IEEE802_11" -> "80211"
    [] dlt = "LINUX_SLL" -> "LINUX_SLL"
    [] dlt = "PFLOG" -> "PFLOG"
    [] dlt = "IEEE802_11_RADIO" -> "80211_RADIO"
    [] dlt = "ATM_RFC1483" -> "LLCSNAP"
    [] dlt = "PPP" -> "PPP"
    [] dlt = "PPP_SERIAL" -> "POS"
    [] dlt = "C_HDLC" -> "HDLC_POS"
    [] dlt = "OPENBSD_LOOP" -> "OPENBSD_LOOP"
    [] OTHER -> "UNKNOWN"

libtrace_to_pcap_dlt(type) ==
  CASE type = "NONE" -> "RAW"
    [] type = "ETH" -> "EN10MB"
    [] type = "80211" -> "IEEE802_11"
    [] type = "LINUX_SLL" -> "LINUX_SLL"
    [] type = "PFLOG" -> "PFLOG"
    [] type = "80211_RADIO" -> "IEEE802_11_RADIO"
    [] type = "LLCSNAP" -> "ATM_RFC1483"
    [] type = "PPP" -> "PPP"
    [] type = "HDLC_POS" -> "C_HDLC"
    [] type = "POS" -> "PPP_SERIAL"
    [] type = "OPENBSD_LOOP" -> "OPENBSD_LOOP"
    [] OTHER -> "ERROR"

pcap_dlt_to_pcap_linktype(dlt) == IF dlt = "RAW" THEN "LINKTYPE_RAW" ELSE dlt
libtrace_to_pcap_linktype(type) == pcap_dlt_to_pcap_linktype(libtrace_to_pcap_dlt(type))

\* An RT type is a range, by the source of the packet, and a number in it.
pcap_linktype_to_rt(dlt) == <<"DLT", pcap_dlt_to_pcap_linktype(dlt)>>
bpf_linktype_to_rt(dlt) == <<"BPF", pcap_dlt_to_pcap_linktype(dlt)>>
rt_to_pcap_linktype(rt) == rt[2]

erf_type_to_libtrace(erf) ==
  CASE erf = "HDLC_POS" -> "HDLC_POS"
    [] erf \in {"ETH", "DSM_COLOR_ETH"} -> "ETH"
    [] erf = "ATM" -> "ATM"
    [] erf = "AAL5" -> "AAL5"
    [] erf \in {"IPV4", "IPV6"} -> "NONE"
    [] OTHER -> "UNKNOWN"

libtrace_to_erf_type(type) ==
  CASE type \in {"HDLC_POS", "ETH", "ATM", "AAL5"} -> type
    [] type = "NONE" -> "IPV4"
    [] OTHER -> "255"

arphrd_type_to_libtrace(arphrd) ==
  CASE arphrd \in {"ETHER", "EETHER", "LOOPBACK"} -> "ETH"
    [] arphrd = "IEEE80211" -> "80211"
    [] arphrd = "IEEE80211_RADIOTAP" -> "80211_RADIO"
    [] arphrd \in {"PPP", "NONE"} -> "NONE"
    [] OTHER -> "UNKNOWN"

libtrace_to_arphrd_type(type) ==
  CASE type = "ETH" -> "ETHER"
    [] type = "80211" -> "IEEE80211"
    [] type = "80211_RADIO" -> "IEEE80211_RADIOTAP"
    [] OTHER -> "UNKNOWN"
=============================================================================
