----------------------------- MODULE MCRtClient -----------------------------
(* Servers and programs for which TLC checks RtClient.                     *)
EXTENDS RtClient

Send(type, length) == [type |-> type, length |-> length]
\* A program that finishes packets before it uses them again, as threads do.
Reader ==
  [messages |-> <<Send("erf", 2), Send("status", 1), Send("pcap", 4), Send("erf", 1), Send("end", 0)>>,
   style |-> "finish", reliable |-> TRUE, filter |-> FALSE, faults |-> {}, restarts |-> 0,
   max |-> 8, each |-> 7, nodes |-> 4, spurious |-> FALSE]
PassConfigs == {
  [Reader EXCEPT !.filter = TRUE],
  \* Failing connections and acknowledgements, signals, and a second connection.
  [Reader EXCEPT !.messages = <<Send("erf", 1), Send("pcap", 4), Send("legacy", 1), Send("erf", 2)>>,
                 !.faults = {"connect", "ack", "eintr"}, !.restarts = 1],
  \* Events.
  [Reader EXCEPT !.style = "event",
                 !.messages = <<Send("pcap", 3), Send("keychange", 0), Send("duck", 1), Send("unknown", 1), Send("erf", 4)>>],
  [Reader EXCEPT !.style = "event", !.filter = TRUE, !.reliable = FALSE,
                 !.messages = <<Send("pcap", 3), Send("legacy", 1), Send("erf", 4)>>],
  \* A program that reads into the same packets.
  [Reader EXCEPT !.style = "reuse",
                 !.messages = <<Send("status", 2), Send("pcap", 4), Send("erf", 1)>>] }
ReuseConfigs == {[Reader EXCEPT !.style = "reuse"]}
=============================================================================
