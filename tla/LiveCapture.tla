---------------------------- MODULE LiveCapture ----------------------------
(* A program that captures from an interface or a card, alone or with       *)
(* several threads, while frames arrive.  conf, taken from Configs, says    *)
(*   fmt, parallel    the format, and whether trace_pstart is used          *)
(*   packets          for each thread asked for, the packets it reads into  *)
(*   batch            packets in one read of a thread                       *)
(*   calls            what the program does besides create, start, read and *)
(*                    destroy                                               *)
(*   frames           how many frames arrive; the remaining fields are the  *)
(*                    machine's and are copied into s, described in TraceBase*)
(* A frame is a number, in the order of arrival.  The reads of one thread   *)
(* have two steps, since a reader waits: CallRead and Read.                 *)
EXTENDS FormatLinux, FormatOdp, FormatDag, FormatDpdk, FormatBpf, SequencesExt

CONSTANT Configs

VARIABLES
  conf, s,
  next,         \* the number of the next frame
  acc, log,     \* for each stream, the frames the kernel took and those that were read
  reading,      \* for each thread, the packets of the read it is in
  recent,       \* for each thread, the packets of its last read
  truth, said,  \* what really arrived since the start, and the last statistics
  written
vars == <<conf, s, next, acc, log, reading, recent, truth, said, written>>

(* ---- the formats' tables ---- *)
Linux == {"int", "ring"}
Table(fmt) ==
  CASE fmt = "int" -> linuxnative [] fmt = "ring" -> linuxring [] fmt = "odp" -> lodp
    [] fmt = "dag" -> dag [] fmt = "dag24" -> dag24 [] fmt = "dpdk" -> dpdk [] fmt = "bpf" -> bpf
Has(t, op) == op \in Table(t.fmt)
init_input(t) ==
  CASE t.fmt \in Linux -> linuxcommon_init_input(t)
    [] t.fmt = "odp" -> {Out([o.s EXCEPT !.st = <<[up |-> FALSE]>>], o.ret) : o \in lodp_init_input(t)}
    [] t.fmt = "dag" -> dag_init_input(t) [] t.fmt = "dag24" -> dag24_init_input(t)
    [] t.fmt = "dpdk" -> dpdk_init_input(t) [] t.fmt = "bpf" -> bpf_init_input(t)
config_input(t, option, value) ==
  CASE t.fmt \in Linux -> linuxcommon_config_input(t, option, value)
    [] t.fmt = "dag" -> dag_config_input(t, option, value)
    [] t.fmt = "dag24" -> dag24_config_input(t, option, value)
    [] t.fmt = "dpdk" -> dpdk_config_input(t, option, value)
    [] t.fmt = "bpf" -> bpf_config_input(t, option, value)
start_input(t) ==
  CASE t.fmt \in Linux -> linux_start_input(t)
    [] t.fmt = "odp" -> lodp_start_input(t)
    [] t.fmt = "dag" -> dag_start_input(t) [] t.fmt = "dag24" -> dag24_start_input(t)
    [] t.fmt = "dpdk" -> dpdk_start_input(t) [] t.fmt = "bpf" -> bpf_start_input(t)
pstart_input(t) ==
  CASE t.fmt \in Linux -> linuxcommon_pstart_input(t)
    [] t.fmt = "dag" -> dag_pstart_input(t) [] t.fmt = "dpdk" -> dpdk_pstart_input(t)
pause_input(t) ==
  CASE t.fmt \in Linux -> linuxcommon_pause_input(t)
    [] t.fmt = "dag" -> dag_pause_input(t) [] t.fmt = "dag24" -> dag24_pause_input(t)
    [] t.fmt = "dpdk" -> dpdk_pause_input(t) [] t.fmt = "bpf" -> bpf_pause_input(t)
fin_input(t) ==
  CASE t.fmt \in Linux -> linuxcommon_fin_input(t)
    [] t.fmt = "odp" -> lodp_fin_input(t)
    [] t.fmt = "dag" -> dag_fin_input(t) [] t.fmt = "dag24" -> dag24_fin_input(t)
    [] t.fmt = "dpdk" -> dpdk_fin_input(t) [] t.fmt = "bpf" -> bpf_fin_input(t)
pregister_thread(t, i, r) ==
  CASE t.fmt \in Linux -> linuxcommon_pregister_thread(t, i, r)
    [] t.fmt = "dag" -> dag_pregister_thread(t, i, r) [] t.fmt = "dpdk" -> dpdk_pregister_thread(t, i, r)
arrive(t, i, n) ==
  CASE t.fmt \in Linux -> linux_arrive(t, i, n)
    [] t.fmt = "odp" -> lodp_arrive(t, n)
    [] t.fmt \in {"dag", "dag24"} -> dag_arrive(t, i, n)
    [] t.fmt = "dpdk" -> dpdk_arrive(t, i, n) [] t.fmt = "bpf" -> bpf_arrive(t, n)
read_begin(t, p) ==
  CASE t.fmt = "odp" -> lodp_read_begin(t, p) [] t.fmt = "bpf" -> bpf_read_begin(t) [] OTHER -> t
read_packet(t, p) ==
  CASE t.fmt \in Linux -> linux_read_stream(t, p, 1, NULL)
    [] t.fmt = "odp" -> lodp_read_packet(t, p)
    [] t.fmt = "dag" -> dag_read_packet(t, p) [] t.fmt = "dag24" -> dag24_read_packet(t, p)
    [] t.fmt = "dpdk" -> dpdk_read_packet(t, p) [] t.fmt = "bpf" -> bpf_read_packet(t, p)
\* The Linux formats read one packet whatever they are asked for.
pread_packets(t, ps, i) ==
  CASE t.fmt \in Linux -> {IF o.ret > 0 THEN Out(o.s, 1) ELSE o :
                             o \in linux_read_stream(t, ps[1], t.reg[i], i)}
    [] t.fmt = "dag" -> dag_pread_packets(t, ps, i)
    [] t.fmt = "dpdk" -> dpdk_pread_packets(t, ps, i)
fin_packet(t, p) ==
  CASE t.fmt = "ring" -> linuxring_fin_packet(t, p)
    [] t.fmt = "odp" -> lodp_fin_packet(t, p) [] t.fmt = "dpdk" -> dpdk_fin_packet(t, p)
    [] OTHER -> t
\* format_helper.c: the descriptor is ready when the kernel has something, whatever is left
\* of an earlier read.  An error is printed and cleared.
trace_event_device(t, p) ==
  IF t.k[1].q = <<>> THEN Return(t, "IOWAIT")
  ELSE {IF o.ret < 1 THEN Out(trace_set_err(o.s, "NOERROR"), "TERMINATE") ELSE Out(o.s, "PACKET") :
          o \in read_packet(read_begin(t, p), p)}
event(t, p) ==
  CASE t.fmt \in {"int", "bpf"} -> trace_event_device(t, p)
    [] t.fmt = "ring" -> linuxring_event(t, p)
    [] t.fmt = "dag" -> trace_event_dag(t, p) [] t.fmt = "dag24" -> dag24_trace_event(t, p)

get_capture_length(t, p) ==
  CASE t.fmt \in Linux -> linux_get_capture_length(t.pk[p].hdr)
    [] t.fmt = "odp" -> lodp_get_capture_length(t, p)
    [] t.fmt = "dpdk" -> dpdk_get_capture_length(t.pk[p].hdr) [] t.fmt = "bpf" -> bpf_get_capture_length(t.pk[p].hdr)
get_wire_length(t, p) ==
  CASE t.fmt \in Linux -> linux_get_wire_length(t.pk[p].hdr)
    [] t.fmt = "odp" -> lodp_get_wire_length(t, p)
    [] t.fmt = "dpdk" -> dpdk_get_wire_length(t.pk[p].hdr) [] t.fmt = "bpf" -> bpf_get_wire_length(t.pk[p].hdr)
set_capture_length(t, p, size) ==
  IF t.fmt \in Linux THEN linux_set_capture_length(t, p, size) ELSE dpdk_set_capture_length(t, p, size)

(* ---- what trace.c and trace_parallel.c do around them ---- *)
trace_fin_packet(t, p) ==
  LET a == IF t.pk[p].trace = "in" THEN fin_packet(t, p) ELSE t
      b == IF t.fmt = "bpf" THEN bpf_release(a, p) ELSE a
  IN [trace_clear_cache(b, p) EXCEPT !.pk[p].trace = NULL, !.pk[p].hdr = NULL, !.pk[p].payload = NULL, !.pk[p].slot = NULL,
               !.pk[p].buffer = IF b.pk[p].ctrl = "packet" THEN @ ELSE NULL]
FinIfOurs(t, p) == IF t.pk[p].trace = "in" THEN trace_fin_packet(t, p) ELSE t

\* The format's options, and those that trace.c takes when the format does not.
trace_config(t, option, value) ==
  Then(IF Has(t, "config_input") THEN config_input(t, option, value) ELSE Return(t, -1), LAMBDA o :
    IF o.ret = 0 THEN {o}
    ELSE CASE option = "FILTER" -> Return([trace_set_err(o.s, "NOERROR") EXCEPT !.filter = TRUE], 0)
           [] option = "SNAPLEN" -> Return(trace_set_err(o.s, "NOERROR"), 0)
           [] OTHER -> Fail(o.s, "OPTION_UNAVAIL"))
\* The end of a turn of trace_read_packet's loop: the packet is accepted, or finished and
\* another is read.  What is no data passes every filter.
Passes(t, p) == t.filter => t.pk[p].trace # "in" \/ t.pk[p].hdr.n \in t.match
Accept(t) == [t EXCEPT !.accepted = @ + 1]
Reject(t, p) == read_begin([trace_fin_packet(t, p) EXCEPT !.pk[p].trace = "in", !.filtered = @ + 1], p)

\* trace_start; or trace_pstart, which falls back on one stream that the threads share.
\* A second start of several threads finds them registered.
TryStart(t) ==
  IF ~conf.parallel \/ ~Has(t, "pstart_input") THEN start_input(t)
  ELSE Then(pstart_input(t), LAMBDA o :
         IF o.ret = 0 THEN Return([o.s EXCEPT !.pread = TRUE], 0)
         ELSE start_input([o.s EXCEPT !.pread = FALSE]))
trace_pause(t) == IF Has(t, "pause_input") THEN pause_input(t) ELSE Return(t, 0)
trace_start(t) ==
  {IF o.ret = 0 THEN Out([o.s EXCEPT !.started = TRUE, !.state = "running"], 0)
   ELSE Out([o.s EXCEPT !.state = "failed"], -1) : o \in TryStart(t)}

(* ---- the state ---- *)
Packets == UNION {ToSet(conf.packets[t]) : t \in DOMAIN conf.packets}
Threads == DOMAIN conf.packets
Calls(c) == c \in conf.calls
Running(t) == IF s.pread THEN t <= s.nthreads /\ s.reg[t] # 0 ELSE t = 1
Showing == {p \in Packets : s.pk[p].hdr # NULL /\ s.pk[p].trace = "in"}
Busy == \E t \in Threads : reading[t] # <<>>
Unused(fmt) ==
  CASE fmt \in {"dag", "dag24"} -> Detached [] fmt = "dpdk" -> IdleQueue [] fmt = "bpf" -> Closed
    [] OTHER -> NoSocket
Quiet == [rx |-> 0, filtered |-> 0, dropped |-> 0, missed |-> 0]
NoOut == [err |-> "NOERROR", fd |-> FALSE, ring |-> FALSE, slots |-> <<>>, off |-> 1, tail |-> 1,
          queue |-> 0, sent |-> <<>>, device |-> FALSE, state |-> "none",
          open |-> FALSE, recs |-> <<>>, torn |-> FALSE, level |-> 0, compress_type |-> "none"]

Init ==
  /\ conf \in Configs
  /\ s = [fmt |-> conf.fmt, faults |-> conf.faults, frame_nr |-> conf.frame_nr, early |-> conf.early,
          order |-> conf.order, match |-> conf.match, uri |-> conf.uri, cpus |-> conf.cpus,
          max_streams |-> conf.max_streams, clock |-> conf.clock, handle |-> conf.handle, want |-> Len(conf.packets),
          nthreads |-> Len(conf.packets), pread |-> FALSE,
          state |-> "none", started |-> FALSE, err |-> "NOERROR", data |-> NULL, st |-> <<>>,
          k |-> [t \in Threads |-> Unused(conf.fmt)], rx |-> 0, miss |-> [drops |-> 0], msgs |-> {},
          halt |-> FALSE, reg |-> [t \in Threads |-> 0], core |-> [t \in Threads |-> -1],
          filter |-> FALSE, filtered |-> 0, accepted |-> 0, cut |-> {}, slips |-> {},
          lcores |-> {}, master |-> 0, mem_pools |-> [j \in 1..3 |-> NULL], npools |-> 0,
          dag |-> 0, lent |-> 0, lost |-> 0, exited |-> FALSE,
          pk |-> [p \in Packets |-> [slot |-> NULL] @@ FreshPacket], o |-> NoOut,
          held |-> {}, bad |-> {}]
  /\ next = 1 /\ truth = Quiet /\ said = NULL /\ written = <<>>
  /\ acc = [t \in Threads |-> <<>>] /\ log = [t \in Threads |-> <<>>]
  /\ reading = [t \in Threads |-> <<>>] /\ recent = [t \in Threads |-> {}]

Step(outcomes) == \E o \in outcomes : s' = o.s
Kept == UNCHANGED <<conf, next, acc, log, reading, recent, truth, said, written>>

(* ---- the program and its threads ---- *)
Create ==
  /\ s.state = "none" /\ ~Calls("only output")
  /\ Step({Out([o.s EXCEPT !.state = IF o.ret = 0 THEN "new" ELSE "failed"], o.ret) : o \in init_input(s)})
  /\ Kept
Config ==
  /\ s.state \in {"new", "paused"} /\ s.err = "NOERROR"
  /\ \E option \in conf.options : Step(trace_config(s, option[1], option[2]))
  /\ Kept
Start ==
  /\ s.state = "new" \/ (s.state = "paused" /\ Calls("restart"))
  /\ s.err = "NOERROR"
  /\ Step(trace_start(s))
  /\ acc' = [t \in Threads |-> <<>>] /\ log' = [t \in Threads |-> <<>>]
  /\ truth' = Quiet /\ said' = NULL
  /\ UNCHANGED <<conf, next, reading, recent, written>>
Register(t) ==
  /\ s.pread /\ s.state = "running" /\ t <= s.nthreads /\ s.reg[t] = 0
  /\ Step(pregister_thread(s, t, TRUE))
  /\ Kept

\* With several threads a packet comes from the freelist, and trace_free_packet has finished it.
CallRead(t) ==
  /\ s.state = "running" /\ s.err = "NOERROR" /\ Running(t) /\ reading[t] = <<>>
  /\ \E i \in 1 .. Len(conf.packets[t]) - conf.batch + 1 :
       LET ps == SubSeq(conf.packets[t], i, i + conf.batch - 1)
           fin == [FinIfOurs(s, ps[1]) EXCEPT !.pk[ps[1]].trace = "in"]
       IN /\ conf.parallel => \A p \in ToSet(ps) : s.pk[p].trace = NULL
          /\ s' = IF s.pread THEN s ELSE read_begin(fin, ps[1])
          /\ reading' = [reading EXCEPT ![t] = ps]
          /\ recent' = [recent EXCEPT ![t] = {}]
  /\ UNCHANGED <<conf, next, acc, log, truth, said, written>>

\* The frame that p shows after the read, unless it is a report on the clock.
Shown(t, p) == IF t.pk[p].trace = "in" /\ t.pk[p].hdr # NULL THEN <<t.pk[p].hdr.n>> ELSE <<>>
Delivered(o, ps, i) ==
  IF o.ret <= 0 THEN <<>>
  ELSE FoldSeq(LAMBDA p, rest : Shown(o.s, p) \o rest, <<>>, SubSeq(ps, 1, IF s.pread THEN o.ret ELSE 1))
Stream(t) == IF s.pread THEN s.reg[t] ELSE 1
\* A thread that is woken by a message takes it.
Read(t) ==
  /\ reading[t] # <<>>
  /\ \E o \in IF s.pread THEN pread_packets(s, reading[t], t) ELSE read_packet(s, reading[t][1]) :
       LET p == reading[t][1]
           got == Delivered(o, reading[t], Stream(t))
           rejected == ~s.pread /\ o.ret > 0 /\ ~Passes(o.s, p)
       IN \/ /\ rejected
             /\ s' = Reject(o.s, p)
             /\ UNCHANGED <<log, recent, reading>>
          \/ /\ ~rejected
             /\ s' = CASE o.ret = READ_MESSAGE -> [o.s EXCEPT !.msgs = @ \ {t}]
                       [] ~s.pread /\ o.ret > 0 -> Accept(o.s) [] OTHER -> o.s
             /\ log' = [log EXCEPT ![Stream(t)] = @ \o got]
             /\ recent' = [recent EXCEPT ![t] = {q \in ToSet(reading[t]) : o.s.pk[q].hdr # NULL}]
             /\ reading' = [reading EXCEPT ![t] = <<>>]
  /\ UNCHANGED <<conf, next, acc, truth, said, written>>
\* A reader of a DAG card finds nothing and looks again, which gives the card its room back.
Wait(t) ==
  /\ reading[t] # <<>> /\ s.fmt \in {"dag", "dag24"}
  /\ s' = (IF s.fmt = "dag" THEN dag_wait(s, Stream(t)) ELSE dag24_available(s))
  /\ Kept
\* trace_event, for a program with one thread.
Event ==
  /\ Calls("event") /\ ~conf.parallel /\ s.state = "running" /\ s.err = "NOERROR" /\ ~Busy
  /\ \E p \in Packets :
       \E o \in event([FinIfOurs(s, p) EXCEPT !.pk[p].trace = "in"], p) :
         LET is == o.ret = "PACKET"
             reads == s.fmt \in Linux \cup {"bpf"}       \* by trace_read_packet
             rejected == is /\ reads /\ ~Passes(o.s, p)
         IN \/ /\ rejected
               /\ s' = Reject(o.s, p) /\ reading' = [reading EXCEPT ![1] = <<p>>]
               /\ recent' = [recent EXCEPT ![1] = {}]
               /\ UNCHANGED log
            \/ /\ ~rejected
               /\ s' = IF is /\ reads THEN Accept(o.s) ELSE o.s
               /\ log' = [log EXCEPT ![1] = IF is THEN @ \o Shown(o.s, p) ELSE @]
               /\ recent' = [recent EXCEPT ![1] = {q \in {p} : is /\ o.s.pk[q].hdr # NULL}]
               /\ UNCHANGED reading
  /\ UNCHANGED <<conf, next, acc, truth, said, written>>
\* The program, or a thread, is done with a packet.
Finish(p) ==
  /\ s.state = "running"
  /\ s.pk[p].trace = "in" /\ \A t \in Threads : p \notin ToSet(reading[t])
  /\ s' = trace_fin_packet(s, p)
  /\ recent' = [t \in Threads |-> recent[t] \ {p}]
  /\ UNCHANGED <<conf, next, acc, log, reading, truth, said, written>>

\* The lengths of a packet are asked for, and kept in it; or it is cut first.
Lengths(t, p) == [t EXCEPT !.pk[p].cap = IF @ = -1 THEN get_capture_length(t, p) ELSE @,
                           !.pk[p].wire = IF @ = -1 THEN get_wire_length(t, p) ELSE @]
Ask(p) ==
  /\ Calls("lengths") /\ p \in Showing
  /\ s' = Lengths(s, p) \/ (Has(s, "set_capture_length") /\ s' = Lengths(set_capture_length(s, p, 50), p))
  /\ Kept

\* trace_interrupt, and a message to a thread.
Interrupt == Calls("interrupt") /\ ~s.halt /\ s' = [s EXCEPT !.halt = TRUE] /\ Kept
Message(t) ==
  /\ Calls("message") /\ s.pread /\ s.state = "running" /\ t \notin s.msgs
  /\ s' = [s EXCEPT !.msgs = @ \cup {t}] /\ Kept
get_statistics(t) ==
  CASE t.fmt \in Linux -> linuxcommon_get_statistics(t) [] t.fmt = "bpf" -> bpf_get_statistics(t)
    [] t.fmt = "dag" -> Return(t, [dropped |-> dag_get_statistics(t),
                                   threads |-> [i \in {j \in Threads : t.reg[j] # 0} |-> dag_get_thread_statistics(t, i)]])
GetStatistics ==
  /\ Calls("stats") /\ s.state = "running"
  /\ \E o \in get_statistics(s) : s' = o.s /\ said' = [result |-> o.ret, truth |-> truth, log |-> log]
  /\ UNCHANGED <<conf, next, acc, log, reading, recent, truth, written>>

\* No thread is in a read, and no packet shows memory of the format.
Pause ==
  /\ Calls("pause") /\ s.state = "running" /\ ~Busy /\ Showing = {}
  /\ s.pread => \A t \in 1..s.nthreads : s.reg[t] # 0
  /\ Step({Out([o.s EXCEPT !.started = FALSE, !.state = "paused"], o.ret) : o \in trace_pause(s)})
  /\ said' = NULL
  /\ UNCHANGED <<conf, next, acc, log, reading, recent, truth, written>>
Unregister(t) ==
  /\ s.pread /\ s.state = "paused" /\ s.fmt = "dpdk" /\ s.core[t] # -1 /\ ~Calls("restart")
  /\ s' = dpdk_punregister_thread(s, t)
  /\ Kept
Destroy ==
  /\ s.state \in {"failed", "paused"} \/ (s.state = "running" /\ s.err # "NOERROR")
  /\ ~Busy /\ Showing = {}
  /\ s.pread /\ s.fmt = "dpdk" => \A t \in Threads : s.core[t] = -1
  /\ Step({Out([fin_input(o.s) EXCEPT !.state = "gone", !.started = FALSE], 0) :
             o \in IF s.started THEN trace_pause(s) ELSE Return(s, 0)})
  /\ said' = NULL
  /\ UNCHANGED <<conf, next, acc, log, reading, recent, truth, written>>

(* ---- writing to the same card or interface ---- *)
init_output(t) ==
  CASE t.fmt \in Linux -> linuxcommon_init_output(t)
    [] t.fmt = "dag" -> dag_init_output(t) [] t.fmt = "odp" -> lodp_init_output(t)
start_output(t) ==
  CASE t.fmt \in Linux -> linux_start_output(t)
    [] t.fmt = "dag" -> dag_start_output(t) [] t.fmt = "odp" -> lodp_start_output(t)
write_packet(t, n) ==
  CASE t.fmt = "int" -> linuxnative_write_packet(t, n) [] t.fmt = "ring" -> linuxring_write_packet(t, n)
    [] t.fmt = "dag" -> dag_write_packet(t, n) [] t.fmt = "odp" -> lodp_write_packet(t, n)
\* A set of states.
fin_output(t) ==
  CASE t.fmt = "int" -> linuxnative_fin_output(t) [] t.fmt = "ring" -> linuxring_fin_output(t)
    [] t.fmt = "dag" -> dag_fin_output(t) [] t.fmt = "odp" -> lodp_fin_output(t)
CreateOutput ==
  /\ Calls("output") /\ s.o.state = "none" /\ (s.state # "none" \/ Calls("only output"))
  /\ Step({Out([o.s EXCEPT !.o.state = IF o.ret = 0 THEN "new" ELSE "failed"], o.ret) : o \in init_output(s)})
  /\ Kept
StartOutput ==
  /\ s.o.state = "new"
  /\ Step({Out([o.s EXCEPT !.o.state = IF o.ret = 0 THEN "open" ELSE "failed"], o.ret) : o \in start_output(s)})
  /\ Kept
ConfigOut ==
  /\ s.fmt = "odp" /\ s.o.state = "new" /\ s.o.err = "NOERROR"
  /\ \E option \in {"compress", "other"} : Step(lodp_config_output(s, option))
  /\ Kept
\* The packets are numbered, and written says of each whether its write succeeded; or what
\* the format does not write is offered.
NotWritten == CASE s.fmt \in Linux -> {NONDATA} [] s.fmt = "dag" -> {NONDATA, REFUSED} [] OTHER -> {}
Write ==
  /\ s.o.state = "open" /\ Len(written) < conf.frames
  /\ \E n \in NotWritten \cup {Len(written) + 1} : \E o \in write_packet(s, n) :
       s' = o.s /\ written' = IF n \in NotWritten THEN written ELSE Append(written, o.ret > 0)
  /\ UNCHANGED <<conf, next, acc, log, reading, recent, truth, said>>
CloseOutput ==
  /\ s.o.state \in {"open", "failed"}
  /\ \E t \in fin_output(s) : s' = [t EXCEPT !.o.state = "closed"]
  /\ Kept

(* ---- the interface ---- *)
Open(i) ==
  CASE s.fmt \in Linux -> s.st[i].fd [] s.fmt = "odp" -> s.st[i].up
    [] s.fmt \in {"dag", "dag24"} -> s.k[i].attached
    [] s.fmt = "dpdk" -> s.data.paused = "RUNNING" [] s.fmt = "bpf" -> s.st[i].fd
\* The frames that wait in stream i, in the order in which they will be read.
RECURSIVE Slots(_, _, _)
Slots(t, i, j) ==
  LET held == \E p \in DOMAIN t.pk : t.pk[p].slot = <<i, j>>
  IN IF t.k[i].slots[j] = 0 \/ held THEN <<>>
     ELSE <<t.k[i].slots[j]>> \o (IF NextSlot(t, j) = t.st[i].off THEN <<>> ELSE Slots(t, i, NextSlot(t, j)))
Waiting(t, i) ==
  CASE t.fmt = "int" -> t.k[i].q
    [] t.fmt = "ring" -> Slots(t, i, t.st[i].off)
    [] t.fmt = "odp" -> t.k[i].q
    [] t.fmt = "dag" -> SubSeq(t.k[i].recs, t.st[i].bottom + 1, Len(t.k[i].recs))
    [] t.fmt = "dag24" -> SubSeq(t.k[i].recs, t.st[i].bottom + t.st[i].processed + 1, Len(t.k[i].recs))
    [] t.fmt = "dpdk" -> (IF i = 1 THEN [j \in DOMAIN t.data.burst |-> t.data.burst[j].n] ELSE <<>>) \o t.k[i].q
    [] t.fmt = "bpf" -> t.data.left \o t.k[i].q
\* A frame comes for stream i: the filter does not want it, or there is room, or not.
Arrive(i) ==
  /\ next <= conf.frames /\ s.state = "running" /\ i <= Len(s.st)
  /\ Open(i)
  /\ LET t == arrive([s EXCEPT !.rx = @ + 1], i, next)
         taken == Waiting(t, i) # Waiting(s, i)
     IN IF Filtered(s, next)
        THEN s' = [s EXCEPT !.rx = @ + 1] /\ truth' = [truth EXCEPT !.rx = @ + 1, !.filtered = @ + 1]
             /\ UNCHANGED acc
        ELSE /\ s' = t
             /\ truth' = [truth EXCEPT !.rx = @ + 1, !.dropped = IF taken THEN @ ELSE @ + 1]
             /\ acc' = IF taken THEN [acc EXCEPT ![i] = Append(@, next)] ELSE acc
  /\ next' = next + 1
  /\ UNCHANGED <<conf, log, reading, recent, said, written>>
\* The interface itself loses a frame.
Miss ==
  /\ Calls("miss") /\ s.state = "running" /\ s.miss.drops < 1
  /\ s' = [s EXCEPT !.miss.drops = @ + 1]
  /\ truth' = [truth EXCEPT !.missed = @ + 1]
  /\ UNCHANGED <<conf, next, acc, log, reading, recent, said, written>>

Next ==
  \/ Create \/ Config \/ Start \/ Event \/ Interrupt \/ GetStatistics \/ Pause \/ Destroy \/ Miss
  \/ CreateOutput \/ ConfigOut \/ StartOutput \/ Write \/ CloseOutput
  \/ \E t \in Threads : Register(t) \/ CallRead(t) \/ Read(t) \/ Wait(t) \/ Message(t) \/ Unregister(t) \/ Arrive(t)
  \/ \E p \in Packets : Finish(p) \/ Ask(p)
Spec == Init /\ [][Next]_vars
FairSpec == Spec /\ \A t \in 1..2 : WF_vars(t \in Threads /\ Read(t))

(* ---- properties ---- *)
TypeOK ==
  /\ conf \in Configs
  /\ s.state \in {"none", "new", "running", "paused", "failed", "gone"}
  /\ next \in 1 .. conf.frames + 1
  /\ s.fmt = "ring" => /\ \A i \in 1..Len(s.st) : s.st[i].off \in 1..s.frame_nr
                       /\ \A t \in Threads : s.k[t].head \in 1..s.frame_nr
  /\ \A t \in Threads : acc[t] \in Seq(1..conf.frames) /\ reading[t] \in Seq(Packets) /\ recent[t] \subseteq Packets

\* What each failing path of the code that s.slips records leads to: a misuse, or something
\* that stays allocated.
Aftermath(slip) ==
  CASE slip = "hwaddr" -> {"leaked filter"}                     \* format_linux_common.c:96-99
    [] slip = "fanout" -> {"ring 1", "ring 2", "leaked ring 1"} \* format_linux_common.c:619-626
    [] slip = "lapped" -> {"released a frame of another packet"} \* format_linux_ring.c:474
    [] slip = "out start" -> {"used after free out_data"}       \* format_linux_ring.c:295, 312; _int.c:84
    [] slip = "dag open" -> {"used an uninitialised device", "out_data"}  \* format_dag25.c:467, 504
    [] slip = "dag start" -> {"dag stream 1", "out stream"}     \* 642-646, 673-678
    [] slip = "dag thread" -> {"dag stream 1", "dag stream 2"}  \* 816
    [] slip = "odp init" -> {"used format_data", "used after free out_data", "pktio"} \* format_odp.c:282, 310
    [] slip = "odp out" -> {"closed no file"}                   \* format_odp.c:382
    [] slip = "dpdk init" -> {"per_stream"}                     \* format_dpdk.c:828
    [] slip = "dpdk start" -> {"per_stream", "used format_data"} \* format_dpdk.c:1460, 1530
Consequences == UNION {Aftermath(slip) : slip \in s.slips}

\* No start, read, failure, pause or restart makes a format free what it does not have, use
\* what it has freed, lose track of what it allocated, or fail an assertion; but for what
\* follows the eleven paths of Aftermath.
NoMisuse == s.bad \subseteq Consequences

\* When trace_destroy has returned, and the output is closed, every socket, ring, device and
\* list is free, whichever step failed; but for what follows the paths of Aftermath.  Packets
\* keep their buffers, ODP its pool and the interface that an output has opened.
NothingHeld ==
  s.state \in {"none", "gone"} /\ s.o.state \in {"none", "closed"} =>
    s.held \subseteq {Buf(p) : p \in Packets} \cup {"odp pool", "out pktio"} \cup Consequences

\* The frames of a stream that the trace's filter wants are read once each, in the order in
\* which the kernel took them: what has been read and what waits is what was taken, whoever
\* reads and whatever is held.  Two paths of the code break it: a ring whose reader has come
\* around to a slot that is still held, and a DAG batch that ends in an error, which forgets
\* the packets read before it.
Wanted(frames) == IF s.filter THEN SelectSeq(frames, LAMBDA n : n \in s.match) ELSE frames
Forgotten == s.fmt = "dag" /\ conf.batch > 1 /\ s.err # "NOERROR"
NothingLost ==
  s.state = "running" /\ "lapped" \notin s.slips /\ ~Forgotten =>
    \A i \in 1..Len(s.st) : Open(i) => log[i] \o Wanted(Waiting(s, i)) = Wanted(acc[i])

\* What the trace counted as accepted and as filtered is what its one reader got and did not
\* get, by reads and by events, whatever order they come in.
Counted ==
  s.state = "running" /\ ~conf.parallel /\ ~Calls("restart") /\ "lapped" \notin s.slips /\ Open(1) =>
    /\ s.filtered = Len(acc[1]) - Len(Waiting(s, 1)) - Len(log[1])
    /\ <<"META_FREQ", 1>> \notin conf.options => s.accepted = Len(log[1])

\* The memory that a packet shows still has the packet's frame: a slot of the ring is not
\* given to the kernel, nor shown twice, before the packet is finished; the card may not write
\* over a record of a thread's last read; a buffer of BPF is not freed while a packet shows it.
\* Two paths of the code break it: the reader of a ring comes around to a slot that is still
\* held, and a DAG batch goes on after 4 MB, which releases the records already in it.
HeldIntact ==
  s.state = "running" /\ "lapped" \notin s.slips =>
    CASE s.fmt = "ring" -> \A p \in Showing :
           /\ s.k[s.pk[p].slot[1]].slots[s.pk[p].slot[2]] = s.pk[p].hdr.n
           /\ \A q \in Showing \ {p} : s.pk[q].slot # s.pk[p].slot
      [] s.fmt \in {"dag", "dag24"} -> \A t \in Threads \ s.cut : \A p \in recent[t] \cap Showing :
           s.pk[p].slot[2] > s.k[s.pk[p].slot[1]].released
      [] s.fmt = "bpf" -> \A p \in Showing : s.pk[p].slot[2] \in DOMAIN s.data.live
      [] OTHER -> TRUE

\* Buffers of a pool are in a queue, in the rest of a burst, or shown by a packet: however
\* packets are reused, finished and interrupted, none is forgotten and none freed twice.
BuffersCounted ==
  s.state = "running" =>
    CASE s.fmt = "dpdk" -> \A i \in 1..Len(s.st) :
           s.k[i].out = Len(Waiting(s, i)) + Cardinality({p \in Showing : s.pk[p].slot[1] = i})
      [] s.fmt = "odp" -> s.lent = Cardinality(Showing) /\ s.lost = 0
      [] s.fmt = "bpf" -> \A b \in DOMAIN s.data.live :
           s.data.live[b] = Cardinality({p \in Showing : s.pk[p].slot[2] = b})
      [] OTHER -> TRUE

\* The statistics agree with what came to the interface since the start, and with what of it
\* was filtered, dropped for want of room, or lost by the card: although reading a socket's
\* counters clears them, and although frames came before the filter was in place.  A DAG card
\* says with a record how many were lost before it, which does not count for the first.
LossesOf(frames) == MapThenSumSet(LAMBDA j : Lost(frames[j]), 2..Len(frames))
StatisticsTrue ==
  said # NULL /\ (Len(s.st) = 1 \/ s.fmt = "dag") =>
    LET is == said.result  was == said.truth
    IN CASE s.fmt \in Linux ->
              /\ is.dropped = NULL \/ is.received = NULL \/ is.dropped = was.dropped + was.missed
              /\ is.received = NULL \/ (is.received = was.rx + was.missed /\ is.captured = was.rx - was.dropped)
              /\ is.received = NULL \/ is.filtered = was.filtered
         [] s.fmt = "bpf" -> is.received = was.rx /\ is.dropped = was.dropped
         [] s.fmt = "dag" -> /\ is.dropped = MapThenSumSet(LAMBDA i : LossesOf(said.log[i]), Threads)
                             /\ \A i \in DOMAIN is.threads : is.threads[i] = LossesOf(said.log[i])

\* The lengths kept in a packet are those of the frame it shows, however often the packet was
\* reused and the frame cut, and no more is captured than was on the wire.
LengthsTrue ==
  s.state = "running" /\ s.fmt \notin {"dag", "dag24"} => \A p \in Showing :
    /\ s.pk[p].cap \in {-1, get_capture_length(s, p)} /\ s.pk[p].wire \in {-1, get_wire_length(s, p)}
    /\ get_capture_length(s, p) <= get_wire_length(s, p)
    /\ s.pk[p].wire \in {-1, FrameLength(s.pk[p].hdr.n) + (IF s.fmt = "odp" THEN 0 ELSE 4)}

\* Within a stream the times that DPDK gives to packets never go back, though the clock may.
TimesInOrder ==
  s.fmt = "dpdk" => \A p, q \in Showing :
    s.pk[p].slot = s.pk[q].slot /\ s.pk[p].hdr.n < s.pk[q].hdr.n => s.pk[p].hdr.time <= s.pk[q].hdr.time

\* DPDK's threads and streams have a logical core each, marked as used, and none has the
\* main thread's.
CoresDistinct ==
  s.fmt = "dpdk" /\ s.state = "running" =>
    /\ \A i \in 1..Len(s.st) : s.st[i].lcore \in s.lcores \ {s.master}
    /\ \A i, j \in 1..Len(s.st) : i # j => s.st[i].lcore # s.st[j].lcore
    /\ \A t \in Threads : s.pread /\ s.reg[t] # 0 => s.core[t] = s.st[t].lcore

\* Every packet whose write succeeded is sent once, in order: it has been sent or is in a
\* slot or buffer, and nothing is when the output has been closed.  One whose write failed is
\* not sent, except by a ring, which sends it when only the sendto after it failed; and what
\* waits in a ring is lost when the last sendto fails.
RECURSIVE Pending(_, _)
Pending(j, n) ==
  IF n = 0 \/ s.o.slots[j] = 0 THEN <<>> ELSE <<s.o.slots[j]>> \o Pending(NextSlot(s, j), n - 1)
Sent == IF s.fmt = "odp" THEN [j \in DOMAIN s.o.recs |-> s.o.recs[j].body] ELSE s.o.sent
Succeeded == SelectSeq([n \in DOMAIN written |-> n], LAMBDA n : written[n])
InOrder(out) ==
  /\ \A i, j \in DOMAIN out : i < j => out[i] < out[j]
  /\ IF s.fmt = "ring" /\ "send" \in s.faults
     THEN SelectSeq(out, LAMBDA n : written[n]) = Succeeded ELSE out = Succeeded
WrittenIsSent ==
  /\ s.o.state = "open" =>
       InOrder(Sent \o CASE s.fmt = "ring" -> Pending(s.o.tail, s.frame_nr)
                          [] s.fmt = "dag" -> s.o.slots [] OTHER -> <<>>)
  /\ s.o.state = "closed" =>
       IF s.fmt = "ring" /\ "send" \in s.faults
       THEN IsPrefix(SelectSeq(Sent, LAMBDA n : written[n]), Succeeded) ELSE InOrder(Sent)

\* trace_interrupt, or a message, ends the wait of a reader although no packet comes.
ReaderWakes ==
  \A t \in 1..2 : (t \in Threads /\ (s.halt \/ t \in s.msgs) /\ reading[t] # <<>>)
                    ~> (t \notin Threads \/ reading[t] = <<>>)

\* Sockets, rings, devices, pools and cores are taken and given back in pairs, through
\* failing starts, pauses and restarts, and buffers with the packets that show them.
ResourcesKept == TypeOK /\ NoMisuse /\ NothingHeld /\ BuffersCounted /\ CoresDistinct

\* Every frame passes once and in order, and is counted: from the interface to the program,
\* and from a successful write to the interface.
FramesPassOnce == NothingLost /\ Counted /\ WrittenIsSent

\* A packet in use shows its own frame, with that frame's lengths and a time in order.
PacketsTrue == HeldIntact /\ LengthsTrue /\ TimesInOrder
=============================================================================
