----------------------------- MODULE FormatBpf -----------------------------
(* format_bpf.c: frames that a BSD packet filter collects.  Every read of   *)
(* the device fills a new buffer with all that waits, and packets are       *)
(* shown in the buffer, which a bucket frees when the last packet of it is  *)
(* finished.  data.buffer is the number of the current buffer, data.left    *)
(* what has not been shown of it, and data.live counts the packets that     *)
(* show each buffer that is not freed: the promise of Buckets.              *)
EXTENDS TraceBase, Functions

bpf == {"probe_filename", "init_input", "config_input", "start_input", "pause_input",
        "fin_input", "read_packet", "prepare_packet", "get_link_type", "get_direction",
        "get_timeval", "get_capture_length", "get_wire_length", "get_framing_length",
        "get_statistics", "get_fd", "trace_event"}

Closed == [q |-> <<>>, recv |-> 0, drop |-> 0]
bpf_init_input(s) ==
  Return([Acquire(Acquire(s, "format_data"), "bucket") EXCEPT
            !.st = <<[fd |-> FALSE]>>,
            !.data = [promisc |-> 0, snaplen |-> 65536, valid |-> {}, recv |-> 0, drop |-> 0,
                      buffer |-> 0, left |-> <<>>, live |-> <<>>, filter |-> NULL]], 0)
\* After a failure the descriptor is closed and its number kept.
bpf_start_input(s) ==
  LET opened == [Acquire(s, "bpf") EXCEPT !.st[1].fd = TRUE, !.k[1] = Closed]
  IN Return([opened EXCEPT !.data.left = <<>>, !.data.valid = {}], 0) \cup
     (IF "open" \in s.faults THEN Fail(s, "INIT_FAILED") ELSE {}) \cup
     (IF "bind" \in s.faults THEN Fail(Release(opened, "bpf"), "errno") ELSE {})
bpf_pause_input(s) == Return([Release(s, "bpf") EXCEPT !.st[1].fd = FALSE, !.k[1] = Closed], 0)
bpf_fin_input(s) == [Release(Release(s, "bucket"), "format_data") EXCEPT !.data = NULL]
bpf_config_input(s, option, value) ==
  CASE option = "SNAPLEN" -> Return([s EXCEPT !.data.snaplen = value], 0)
    [] option = "PROMISC" -> Return([s EXCEPT !.data.promisc = value], 0)
    [] OTHER -> Return(s, -1)

bpf_arrive(s, n) ==
  LET counted == [s EXCEPT !.k[1].recv = @ + 1]
  IN IF Len(s.k[1].q) < s.frame_nr THEN [counted EXCEPT !.k[1].q = Append(@, n)]
     ELSE [counted EXCEPT !.k[1].drop = @ + 1]

\* The counters are fetched together, and again when one of them is asked for a second time.
Refresh(s, bit) ==
  IF s.data.valid = {} \/ bit \in s.data.valid
  THEN [s EXCEPT !.data.recv = s.k[1].recv, !.data.drop = s.k[1].drop, !.data.valid = @ \cup {bit}]
  ELSE s
bpf_get_received_packets(s) == Refresh(s, "received")
bpf_get_dropped_packets(s) == Refresh(s, "dropped")
bpf_get_statistics(s) ==
  IF ~s.st[1].fd THEN Return(s, [received |-> NULL, dropped |-> NULL])
  ELSE LET t == bpf_get_received_packets(bpf_get_dropped_packets(s))
       IN Return(t, [received |-> t.data.recv, dropped |-> t.data.drop])

\* libtrace_create_new_bucket: a buffer that no packet was shown in goes.
NewBuffer(s) ==
  LET kept == {b \in DOMAIN s.data.live : s.data.live[b] > 0}
      b == Min((1 .. Cardinality(kept) + 1) \ kept)
  IN [s EXCEPT !.data.buffer = b,
               !.data.live = [x \in kept \cup {b} |-> IF x = b THEN 0 ELSE s.data.live[x]]]
\* Before the wait.
bpf_read_begin(s) == IF s.data.left = <<>> THEN NewBuffer(s) ELSE s
bpf_prepare_packet(s, p, n) ==
  [Lend(s, p, "bpf", [n |-> n, caplen |-> FrameLength(n), datalen |-> FrameLength(n)])
     EXCEPT !.pk[p].slot = <<1, s.data.buffer>>, !.pk[p].trace = "in"]
bpf_read_packet(s0, p) ==
  LET s == IF s0.data.left = <<>> THEN [s0 EXCEPT !.data.left = s0.k[1].q, !.k[1].q = <<>>] ELSE s0
      n == Head(s.data.left)
      freed == IF s.pk[p].buffer # NULL /\ s.pk[p].ctrl = "packet" THEN Release(s, s.pk[p].buffer) ELSE s
      shown == bpf_prepare_packet(freed, p, n)
  IN IF s.data.left = <<>> THEN Idle(s, NULL)
     ELSE Return([shown EXCEPT !.data.live[s.data.buffer] = @ + 1, !.data.left = Tail(@)],
                 FrameLength(n) + 18)
bpf_release_First(s, p) ==
  IF s.pk[p].slot = NULL THEN s
  ELSE [s EXCEPT !.data.live = Restrict(@, DOMAIN @ \ {s.pk[p].slot[2]}), !.pk[p].slot = NULL]
\* libtrace_release_bucket_id, which trace_fin_packet calls.
bpf_release(s, p) ==
  IF s.pk[p].slot = NULL THEN s
  ELSE LET b == s.pk[p].slot[2]
           t == [s EXCEPT !.data.live[b] = @ - 1, !.pk[p].slot = NULL]
       IN IF t.data.live[b] = 0 /\ b # t.data.buffer
          THEN [t EXCEPT !.data.live = Restrict(@, DOMAIN @ \ {b})] ELSE t

\* The checksum is not in what was captured, yet both lengths count it.
bpf_get_capture_length(hdr) == hdr.caplen + 4
bpf_get_wire_length(hdr) == hdr.datalen + 4
=============================================================================
