----------------------------- MODULE FormatDpdk -----------------------------
(* format_dpdk.c: frames that a DPDK driver puts in a receive queue for     *)
(* each thread, in buffers (mbufs) from the queue's pool.  A stream is      *)
(* [lcore, mempool, last]: last is the time given to the last burst.  For   *)
(* the driver k is [q, out]: q waits, out counts the mbufs not in the pool. *)
(* lcores is the set of logical cores in use, master the main thread's, and *)
(* core[t] thread t's; mem_pools is the process's list of unused pools.     *)
EXTENDS TraceBase

dpdk == {"init_input", "config_input", "start_input", "pause_input", "init_output",
         "start_output", "fin_input", "fin_output", "read_packet", "prepare_packet",
         "fin_packet", "write_packet", "get_link_type", "get_direction", "set_direction",
         "get_timeval", "get_timespec", "get_capture_length", "get_wire_length",
         "get_framing_length", "set_capture_length", "get_statistics", "trace_event",
         "pstart_input", "pread_packets", "ppause_input", "pfin_input", "pregister_thread",
         "punregister_thread"}

RX_MBUF_SIZE == 1514
BURST_SIZE == 2               \* 50 in the code
MAX_LCORE == 5                \* cores 0 .. MAX_LCORE - 1; RTE_MAX_LCORE in the code
DPDK_EMPTY_STREAM == [lcore |-> -1, mempool |-> NULL, last |-> 0]
IdleQueue == [q |-> <<>>, out |-> 0]

(* ---- cores and pools, shared by the process, under dpdk_lock ---- *)
dpdk_reserve_lcore_Unmarked(s, real) == [s |-> s, id |-> Min((0 .. MAX_LCORE - 1) \ s.lcores)]
\* A reading thread takes the first free core, others the last.
dpdk_reserve_lcore(s, real) ==
  LET free == (0 .. MAX_LCORE - 1) \ s.lcores
      new == IF real THEN Min(free) ELSE Max(free)
  IN IF free = {} THEN [s |-> s, id |-> -1] ELSE [s |-> [s EXCEPT !.lcores = @ \cup {new}], id |-> new]
dpdk_register_lcore(s, t, real, lcore) ==
  LET u == [s EXCEPT !.core[t] = lcore]
  IN Return(u, 0) \cup (IF real /\ "affinity" \in s.faults THEN Fail(u, "errno") ELSE {})
dpdk_move_master_lcore(s, core) ==
  IF core = s.master THEN s
  ELSE LET t == IF core \in s.lcores THEN Misuse(s, "assert the core is free") ELSE s
       IN [t EXCEPT !.lcores = (@ \ {s.master}) \cup {core}, !.master = core]

\* A stored pool that is large enough, or a new one.  The pool that takes the place of the
\* one taken is then dropped from the list, and those behind it cannot be seen.
Stored(s) == {j \in DOMAIN s.mem_pools : \A i \in 1..j : s.mem_pools[i] # NULL}
dpdk_alloc_memory(s, size) ==
  LET fits == {j \in Stored(s) : s.mem_pools[j].size >= size}
      j == Min(fits)
      last == Max(Stored(s))
      pool == [id |-> s.npools + 1, size |-> size]
  IN IF fits # {}
     THEN {[s |-> [s EXCEPT !.mem_pools = [@ EXCEPT ![j] = NULL, ![last] = NULL]], pool |-> s.mem_pools[j]]}
     ELSE {[s |-> [s EXCEPT !.npools = @ + 1], pool |-> pool]} \cup
          (IF "pool" \in s.faults THEN {[s |-> s, pool |-> NULL]} ELSE {})
dpdk_free_memory(s, pool) ==
  LET free == {j \in DOMAIN s.mem_pools : s.mem_pools[j] = NULL}
  IN IF pool = NULL THEN Misuse(s, "audited no pool")
     ELSE IF free = {} THEN s
     ELSE [s EXCEPT !.mem_pools[Min(free)] = pool]

(* ---- the environment ---- *)
\* The URI, the core, the device and the library; then only the main thread has a core, the
\* last that is detected: s.cpus of them are.
dpdk_init_environment(s) ==
  LET up == dpdk_move_master_lcore([s EXCEPT !.lcores = {0}, !.master = 0], s.cpus - 1)
  IN Return(up, 0) \cup (IF "eal" \in s.faults THEN Return(s, -1) \cup Return(up, -1) ELSE {})
DpdkData == [paused |-> "NEVER_STARTED", snaplen |-> 0, promisc |-> -1, pool |-> NULL, burst |-> <<>>,
             filter |-> NULL]
\* The list of streams is left behind when this fails.
dpdk_init_input(s) ==
  Then(dpdk_init_environment([Acquire(Acquire(s, "format_data"), "per_stream") EXCEPT
                                !.st = <<DPDK_EMPTY_STREAM>>, !.data = DpdkData]), LAMBDA o :
    IF o.ret = 0 THEN {o}
    ELSE Fail([Slip(Release(o.s, "format_data"), "dpdk init") EXCEPT !.data = NULL], "INIT_FAILED"))

dpdk_config_input(s, option, value) ==
  CASE option = "SNAPLEN" ->
         IF s.data.paused = "NEVER_STARTED" THEN Return([s EXCEPT !.data.snaplen = value], 0) ELSE Return(s, -1)
    [] option = "PROMISC" -> Return([s EXCEPT !.data.promisc = value], 0)
    [] option = "HASHER" -> Return(s, 0)
    [] OTHER -> Return(s, -1)

(* ---- starting ---- *)
\* Queue i: a stream, a core and a pool, and the driver takes its mbufs from there.
RECURSIVE Queues(_, _, _)
Queues(s0, i, n) ==
  LET s1 == IF Len(s0.st) < i THEN [s0 EXCEPT !.st = Append(@, DPDK_EMPTY_STREAM)] ELSE s0
      r == IF s1.st[i].lcore = -1 THEN dpdk_reserve_lcore(s1, TRUE) ELSE [s |-> s1, id |-> s1.st[i].lcore]
      s2 == [r.s EXCEPT !.st[i].lcore = r.id]
      got == IF s2.st[i].mempool # NULL THEN {[s |-> s2, pool |-> s2.st[i].mempool]}
             ELSE dpdk_alloc_memory(s2, 2)
  IN IF i > n THEN Return(s0, 0)
     ELSE IF r.id = -1 THEN Return(s1, -1)
     ELSE UNION {IF g.pool = NULL THEN Return(g.s, -1)
                 ELSE (IF "queue" \in s0.faults THEN Return(g.s, -1) ELSE {}) \cup
                      Queues([g.s EXCEPT !.st[i].mempool = g.pool, !.k[i] = IdleQueue], i + 1, n) : g \in got}
dpdk_start_streams(s, n) ==
  LET first == s.data.paused = "NEVER_STARTED"
      sized == IF first /\ s.data.snaplen = 0 THEN [s EXCEPT !.data.snaplen = RX_MBUF_SIZE] ELSE s
      pools == IF first THEN dpdk_alloc_memory(sized, 1) ELSE {[s |-> sized, pool |-> s.data.pool]}
      Up(t) == [t EXCEPT !.data.paused = "RUNNING", !.data.promisc = IF @ = -1 THEN 1 ELSE @]
  IN IF s.data.paused = "RUNNING" THEN Return(s, 0)
     ELSE UNION {IF g.pool = NULL THEN Return(g.s, -1)
                 ELSE (IF "start" \in s.faults THEN Return(g.s, -1) ELSE {}) \cup
                      {IF o.ret = 0 THEN Out(Up(o.s), 0) ELSE o :
                         o \in Queues([g.s EXCEPT !.data.pool = g.pool], 1, n)} : g \in pools}
\* On failure the data is freed, and what it refers to is not.
Started(outcomes) ==
  Then(outcomes, LAMBDA o :
    IF o.ret = 0 THEN {o}
    ELSE Fail([Slip(Release(o.s, "format_data"), "dpdk start") EXCEPT !.data = NULL], "INIT_FAILED"))
dpdk_start_input(s) ==
  IF s.data = NULL THEN Return(Misuse(s, "used format_data"), -1) ELSE Started(dpdk_start_streams(s, 1))
\* No more threads than the card has queues, or than there are cores for.
dpdk_pstart_input(s0) ==
  LET s == dpdk_move_master_lcore(s0, MAX_LCORE - 1)
      cores == Cardinality((0 .. s.cpus - 1) \ s.lcores) +
               Cardinality({i \in DOMAIN s.st : s.st[i].lcore # -1})
      tot == MinOf(MinOf(s.want, s.max_streams), cores)
  IN {IF o.ret = 0 THEN Out([o.s EXCEPT !.nthreads = tot], 0) ELSE o : o \in Started(dpdk_start_streams(s, tot))}

\* A thread that reads has the core of its stream, another gets one.
dpdk_pregister_thread(s, t, reading) ==
  IF reading
  THEN IF t > Len(s.st) THEN Return(Misuse(s, "list index out of range"), -1)
       ELSE dpdk_register_lcore([s EXCEPT !.reg[t] = t], t, TRUE, s.st[t].lcore)
  ELSE LET r == dpdk_reserve_lcore(s, FALSE)
       IN IF r.id = -1 THEN Fail(s, "INIT_FAILED") ELSE dpdk_register_lcore(r.s, t, FALSE, r.id)
dpdk_punregister_thread(s, t) ==
  IF s.core[t] = s.master THEN s
  ELSE LET u == [s EXCEPT !.lcores = @ \ {s.core[t]}, !.core[t] = -1]
       IN IF s.core[t] \in s.lcores /\ u.lcores # {} THEN u ELSE Misuse(u, "assert lcore_count >= 1")

\* The driver gives back what is in its queues, and the format what is left of a burst.
dpdk_pause_input(s) ==
  IF s.data.paused # "RUNNING" THEN Return(s, 0)
  ELSE Return([s EXCEPT
         !.data.paused = "PAUSED", !.data.burst = <<>>,
         !.k = [i \in DOMAIN s.k |-> [q |-> <<>>,
                  out |-> s.k[i].out - Len(s.k[i].q) - (IF i = 1 THEN Len(s.data.burst) ELSE 0)]],
         !.st = [i \in DOMAIN s.st |-> [s.st[i] EXCEPT !.last = 0]]], 0)
RECURSIVE FreePools(_, _)
FreePools(s, i) ==
  IF i > Len(s.st) THEN s
  ELSE FreePools(IF s.st[i].mempool = NULL THEN s ELSE dpdk_free_memory(s, s.st[i].mempool), i + 1)
dpdk_fin_input(s) ==
  IF s.data = NULL THEN s
  ELSE [Release(Release(FreePools(dpdk_free_memory(s, s.data.pool), 1), "per_stream"), "format_data")
          EXCEPT !.data = NULL]

(* ---- the driver ---- *)
dpdk_arrive(s, i, n) ==
  IF s.k[i].out < s.frame_nr /\ FrameLength(n) <= s.data.snaplen
  THEN [s EXCEPT !.k[i].q = Append(@, n), !.k[i].out = @ + 1] ELSE s

(* ---- reading ---- *)
BurstTime_Clock(last, now) == now
\* A burst has one time: the clock's, or just after the last if the clock says less.
BurstTime(last, now) == IF last >= now THEN last + 1 ELSE now
dpdk_ready_pkts(s, i, ns, now) ==
  LET time == BurstTime(s.st[i].last, now)
  IN [s |-> [s EXCEPT !.st[i].last = time], burst |-> [j \in DOMAIN ns |-> [n |-> ns[j], time |-> time]]]
dpdk_read_packet_stream(s, i, t, most) ==
  LET m == MinOf(most, Len(s.k[i].q))
      took == [s EXCEPT !.k[i].q = SubSeq(@, m + 1, Len(@))]
  IN IF m = 0 THEN {[s |-> o.s, ret |-> o.ret, burst |-> <<>>] : o \in Idle(s, t)}
     ELSE {LET r == dpdk_ready_pkts(took, i, SubSeq(s.k[i].q, 1, m), now)
           IN [s |-> r.s, ret |-> m, burst |-> r.burst] : now \in s.clock}

\* The packet should be finished.
dpdk_read_begin(s, p) ==
  LET t == IF s.pk[p].buffer = NULL THEN s
           ELSE IF s.pk[p].ctrl = "packet" THEN Release(s, s.pk[p].buffer)
           ELSE Misuse(s, "assert buf_control == TRACE_CTRL_PACKET")
  IN [t EXCEPT !.pk[p].buffer = NULL, !.pk[p].ctrl = "external", !.pk[p].type = "DPDK"]
dpdk_prepare_packet(s, p, i, m) ==
  [Lend(s, p, "mbuf", [n |-> m.n, time |-> m.time, caplen |-> FrameLength(m.n)])
     EXCEPT !.pk[p].slot = <<i, 0>>, !.pk[p].trace = "in"]
dpdk_read_packet(s0, p) ==
  LET s == dpdk_read_begin(s0, p)
      b == s.data.burst
  IN IF b # <<>> THEN Return([dpdk_prepare_packet(s, p, 1, b[1]) EXCEPT !.data.burst = Tail(b)], 1)
     ELSE {IF r.ret > 0 THEN Out([dpdk_prepare_packet(r.s, p, 1, r.burst[1]) EXCEPT
                                    !.data.burst = Tail(r.burst)], 1)
           ELSE Out(r.s, r.ret) : r \in dpdk_read_packet_stream(s, 1, NULL, BURST_SIZE)}
RECURSIVE PrepareAll(_, _, _, _)
PrepareAll(s, ps, i, burst) ==
  IF burst = <<>> THEN s
  ELSE PrepareAll(dpdk_prepare_packet(dpdk_read_begin(s, Head(ps)), Head(ps), i, Head(burst)),
                  Tail(ps), i, Tail(burst))
dpdk_pread_packets(s, ps, t) ==
  {Out(PrepareAll(r.s, ps, s.reg[t], r.burst), r.ret) :
     r \in dpdk_read_packet_stream(s, s.reg[t], t, Len(ps))}
dpdk_fin_packet_Keeps(s, p) ==
  IF s.pk[p].ctrl # "external" THEN s ELSE [s EXCEPT !.pk[p].buffer = NULL, !.pk[p].slot = NULL]
dpdk_fin_packet(s, p) ==
  IF s.pk[p].ctrl # "external" \/ s.pk[p].buffer = NULL THEN s
  ELSE [s EXCEPT !.k[s.pk[p].slot[1]].out = @ - 1, !.pk[p].buffer = NULL, !.pk[p].slot = NULL]

dpdk_get_capture_length(hdr) == hdr.caplen
dpdk_get_wire_length(hdr) == FrameLength(hdr.n) + 4
dpdk_set_capture_length(s, p, size) ==
  IF size > s.pk[p].hdr.caplen THEN s
  ELSE [s EXCEPT !.pk[p].cap = -1, !.pk[p].hdr.caplen = size]
=============================================================================
