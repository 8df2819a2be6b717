--------------------------- MODULE MCLiveCapture ---------------------------
(* Programs and machines for which TLC checks LiveCapture.                 *)
EXTENDS LiveCapture

One == <<<<"a", "b">>>>
Two == <<<<"a">>, <<"b">>>>
Plain == [fmt |-> "int", parallel |-> FALSE, packets |-> One, batch |-> 1, calls |-> {},
          frames |-> 3, frame_nr |-> 2, early |-> 0, order |-> 3, options |-> {}, match |-> {1, 3},
          uri |-> 1, cpus |-> 5, max_streams |-> 2, clock |-> {1}, handle |-> 1, faults |-> {}]
Of(fmt) == [Plain EXCEPT !.fmt = fmt]
Parallel(fmt) == [Of(fmt) EXCEPT !.parallel = TRUE, !.packets = Two, !.uri = 2, !.calls = {"message", "pause"}]
Filter == {<<"FILTER", [flag |-> FALSE, good |-> TRUE]>>}

SocketConfigs == {
  \* Counters, a filter and frames that come before it.
  [Plain EXCEPT !.calls = {"stats", "miss"}, !.packets = <<<<"a">>>>, !.options = Filter, !.early = 1, !.faults = {"proc"}],
  \* What may fail, and a restart.
  [Plain EXCEPT !.calls = {"pause", "restart", "interrupt", "event"}, !.faults = {"socket", "bind", "poll"},
                !.options = {<<"FILTER", [flag |-> FALSE, good |-> FALSE]>>, <<"SNAPLEN", 100>>}, !.frames = 2],
  [Plain EXCEPT !.calls = {"output", "lengths"}, !.faults = {"write"}, !.frames = 2, !.packets = <<<<"a">>>>],
  [Plain EXCEPT !.calls = {"pause"}, !.faults = {"hwaddr"}, !.options = Filter, !.frames = 2],
  [Plain EXCEPT !.calls = {"output", "only output"}, !.faults = {"socket"}],
  [Parallel("int") EXCEPT !.faults = {"fanout", "bind"}, !.frames = 3],
  \* Two packets in use and a ring of three slots.
  [Of("ring") EXCEPT !.frame_nr = 3, !.frames = 5, !.calls = {"event", "interrupt", "lengths"}],
  [Of("ring") EXCEPT !.frame_nr = 3, !.calls = {"pause", "restart", "stats"}, !.order = 1],
  [Of("ring") EXCEPT !.frames = 4, !.packets = <<<<"a">>>>, !.calls = {"output"}, !.faults = {"poll"}],
  [Of("ring") EXCEPT !.frames = 5, !.calls = {"output", "only output"}, !.faults = {"send", "socket", "tpacket"}],
  [Parallel("ring") EXCEPT !.frames = 1, !.faults = {"fanout", "socket"}],
  [Parallel("ring") EXCEPT !.frames = 4, !.faults = {"tpacket", "bind"}] }
CardConfigs == {
  [Of("odp") EXCEPT !.frames = 4, !.frame_nr = 3, !.calls = {"lengths"}],
  [Of("odp") EXCEPT !.frames = 1, !.faults = {"bind", "queue"}],
  [Of("odp") EXCEPT !.calls = {"only output", "output"}, !.faults = {"write", "bind", "open"}],
  \* Reports on the clock; a trace that writes to the same card.
  [Of("dag") EXCEPT !.calls = {"output", "pause"}, !.frames = 3, !.faults = {"attach"}, !.packets = <<<<"a">>>>],
  [Of("dag") EXCEPT !.calls = {"output", "pause"}, !.frames = 2, !.faults = {"open", "start"}, !.packets = <<<<"a">>>>],
  [Of("dag") EXCEPT !.calls = {"event", "interrupt"}, !.frame_nr = 3,
                    !.options = {<<"META_FREQ", 1>>}, !.faults = {"duck"}],
  [Of("dag") EXCEPT !.calls = {"event"}, !.frames = 4, !.frame_nr = 3, !.options = Filter,
                    !.faults = {"stream poll", "advance"}],
  [Of("dag") EXCEPT !.calls = {"pause", "restart", "message"}, !.frames = 4, !.frame_nr = 3],
  [Parallel("dag") EXCEPT !.calls = {"message", "pause"}, !.frame_nr = 2],
  [Parallel("dag") EXCEPT !.calls = {"stats"}],
  \* Batches that go on past what may be read before memory is released.
  [Parallel("dag") EXCEPT !.packets = <<<<"a", "b">>, <<"c", "d">>>>, !.batch = 2, !.frames = 4, !.uri = 1,
                          !.frame_nr = 3, !.faults = {"advance", "stream poll"}],
  [Parallel("dag") EXCEPT !.frames = 1, !.faults = {"attach"}],
  [Of("dag24") EXCEPT !.calls = {"event", "pause", "restart"}, !.frames = 4,
                      !.options = {<<"META_FREQ", 1>>}],
  [Of("dpdk") EXCEPT !.calls = {"pause", "restart", "interrupt", "lengths"}, !.frame_nr = 3, !.clock = {1, 2},
                     !.frames = 3, !.options = {<<"SNAPLEN", 100>>}],
  [Parallel("dpdk") EXCEPT !.packets = <<<<"a", "b">>, <<"c", "d">>>>, !.batch = 2, !.frames = 4,
                           !.frame_nr = 3, !.calls = {"pause", "message"}],
  [Of("dpdk") EXCEPT !.frames = 1, !.faults = {"eal", "pool", "queue", "start"}],
  [Parallel("dpdk") EXCEPT !.frames = 1, !.faults = {"pool", "start"}],
  [Of("bpf") EXCEPT !.calls = {"stats", "event"}, !.frames = 3],
  [Of("bpf") EXCEPT !.calls = {"event", "lengths"}, !.frames = 4, !.options = Filter],
  [Of("bpf") EXCEPT !.calls = {"pause", "restart", "interrupt"}, !.faults = {"open", "bind", "poll"}] }
LiveConfigs == SocketConfigs \cup CardConfigs
=============================================================================
