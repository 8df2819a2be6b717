----------------------------- MODULE TraceBase -----------------------------
(* What trace.c and the capture formats share.  A trace, its packets and    *)
(* its input are one record s, and a C function is an operator from s, and  *)
(* its arguments, to the set of its outcomes [s, ret].  s.held is the set   *)
(* of resources that are allocated and s.bad the misuses met so far.        *)
EXTENDS Integers, Sequences, FiniteSets, FiniteSetsExt

CONSTANT NULL

BUFSIZE == 65536              \* LIBTRACE_PACKET_BUFSIZE
MinOf(a, b) == IF a < b THEN a ELSE b

Out(s, ret) == [s |-> s, ret |-> ret]
Return(s, ret) == {Out(s, ret)}
Then(outcomes, F(_)) == UNION {F(o) : o \in outcomes}

Misuse(s, what) == [s EXCEPT !.bad = @ \cup {what}]
Acquire(s, r) ==
  IF r \in s.held THEN Misuse(s, "leaked " \o r) ELSE [s EXCEPT !.held = @ \cup {r}]
Release(s, r) ==
  IF r \in s.held THEN [s EXCEPT !.held = @ \ {r}] ELSE Misuse(s, "freed twice " \o r)
\* The last pointer to a resource goes away.
Lose(s, r) == IF r \in s.held THEN [Misuse(s, "leaked " \o r) EXCEPT !.held = @ \ {r}] ELSE s
Uses(s, r) == IF r \in s.held THEN s ELSE Misuse(s, "used after free " \o r)
\* A path of the code after which what follows is not in order; s.slips says which.
Slip(s, what) == [s EXCEPT !.slips = @ \cup {what}]

trace_set_err(s, e) == [s EXCEPT !.err = e]
trace_set_err_out(s, e) == [s EXCEPT !.o.err = e]
Fail(s, e) == Return(trace_set_err(s, e), -1)
FailOut(s, e) == Return(trace_set_err_out(s, e), -1)
\* errno after a call that did not fail is what an earlier call left, perhaps 0:
\* trace_set_err asserts that it is not.
FailStale(s) == UNION {Fail(s, e) : e \in s.stale_errno}

(* ---- packets ---- *)
\* A buffer is named after the packet it was allocated for; "ext" is memory of the format.
Buf(p) == "buffer of " \o p
\* hdr is the format's header in the buffer, payload the data after it: a record of a number
\* that identifies it and of what the library finds when it looks inside.
Blank == [n |-> 0, dir |-> "UNKNOWN", next |-> "IP", fcs |-> FALSE, ip |-> FALSE, start |-> "other"]
FreshPacket == [trace |-> NULL, ctrl |-> "packet", buffer |-> NULL, room |-> 0, hdr |-> NULL,
                payload |-> NULL, type |-> "none", cap |-> -1, wire |-> -1, link |-> NULL,
                order |-> -1]

trace_clear_cache(s, p) ==
  [s EXCEPT !.pk[p].cap = -1, !.pk[p].wire = -1, !.pk[p].link = NULL]

\* packet->buffer = malloc(...), unless the packet has a buffer of its own.
OwnBuffer(s, p) ==
  IF s.pk[p].buffer = NULL \/ s.pk[p].ctrl = "external"
  THEN [Acquire(s, Buf(p)) EXCEPT !.pk[p].buffer = Buf(p), !.pk[p].room = BUFSIZE]
  ELSE Uses(s, s.pk[p].buffer)
\* n bytes are read into the packet's buffer.
Fill(s, p, n) == IF n <= s.pk[p].room THEN s ELSE Misuse(s, "overran a buffer")

\* The start of every prepare_packet: the packet's buffer becomes `buffer`.
TakeBuffer(s, p, buffer, ctrl) ==
  LET freed == IF s.pk[p].buffer # buffer /\ s.pk[p].ctrl = "packet" /\ s.pk[p].buffer # NULL
               THEN Release(s, s.pk[p].buffer) ELSE s
  IN [freed EXCEPT !.pk[p].buffer = buffer, !.pk[p].ctrl = ctrl]

(* ---- libwandio, an external library, over a file of s.file.recs ---- *)
\* How the file ends: "clean", inside a "header", or inside the last "body".
wandio_create(s) ==
  {[Acquire(s, "io") EXCEPT !.io = TRUE]} \cup (IF "open" \in s.faults THEN {s} ELSE {})
wandio_destroy(s) == [Release(s, "io") EXCEPT !.io = FALSE]

NextRecord(s) == s.file.recs[s.file.pos + 1]
ReadHeader(s) ==
  (IF "read" \in s.faults THEN {"error"} ELSE {}) \cup
  {CASE s.file.pos < Len(s.file.recs) -> "full"
     [] s.file.pos = Len(s.file.recs) /\ s.file.end = "header" -> "short"
     [] OTHER -> "eof"}
\* Reading n bytes of a record's body: 0 is also what asking for nothing gives.
ReadBody(s, n) ==
  IF n = 0 THEN {"eof"}
  ELSE (IF "read" \in s.faults THEN {"error"} ELSE {}) \cup
       (IF s.file.pos + 1 = Len(s.file.recs) /\ s.file.end = "body" THEN {"short", "eof"}
        ELSE {"full"})
\* The position after a record of which n bytes of body were read.
Advance(s, n) ==
  IF n = NextRecord(s).body THEN [s EXCEPT !.file.pos = @ + 1]
  ELSE Misuse([s EXCEPT !.file.pos = @ + 1], "lost its place in the file")

(* ---- format_helper.c: files ---- *)
trace_open_file(s) ==
  UNION {IF t.io THEN {t}
         ELSE {trace_set_err(t, e) : e \in {"errno", "UNSUPPORTED_COMPRESS"}} : t \in wandio_create(s)}

\* s.o is the trace for writing, s.o.recs what is in its file.
wandio_wcreate(s) ==
  {[Acquire(s, "out") EXCEPT !.o.open = TRUE]} \cup (IF "open" \in s.faults THEN {s} ELSE {})
wandio_wdestroy(s) ==
  IF s.o.open THEN [Release(s, "out") EXCEPT !.o.open = FALSE] ELSE Misuse(s, "closed no file")
\* A record is written in two calls, header and body, of which either may fail.
WriteRecord(s, hdr, body) ==
  {[ok |-> TRUE, s |-> [s EXCEPT !.o.recs = Append(@, [hdr |-> hdr, body |-> body])]]} \cup
  (IF "write" \in s.faults THEN {[ok |-> FALSE, s |-> [s EXCEPT !.o.torn = TRUE]]} ELSE {})

CompressTypes == {"none", "zlib", "bz2", "lzo", "lzma"}
trace_open_file_out(s, compress_type, level) ==
  IF level \notin 0..9 \/ compress_type \notin CompressTypes
  THEN {trace_set_err_out(s, "UNSUPPORTED_COMPRESS")}
  ELSE {IF t.o.open THEN t ELSE trace_set_err_out(t, "errno") : t \in wandio_wcreate(s)}

\* The options that every format with an output takes.
ConfigOutput(s, option, value) ==
  CASE option = "compress" -> Return([s EXCEPT !.o.level = value], 0)
    [] option = "compresstype" -> Return([s EXCEPT !.o.compress_type = value], 0)
    [] option = "fileflags" -> Return([s EXCEPT !.o.flags = value], 0)
    [] OTHER -> FailOut(s, "UNKNOWN_OPTION")

-----------------------------------------------------------------------------
(* The formats that capture from an interface or a card.  For them the      *)
(* record s has in addition:                                                *)
(*   st        the format's per_stream list                                 *)
(*   k         what the kernel or the card keeps for each stream            *)
(*   rx        the number of frames that came to the interface, and of      *)
(*   miss      them those that were not taken: by a filter, for want of room*)
(*   msgs      the threads with a message waiting, halt: libtrace_halt      *)
(*   want, nthreads   threads asked for, perpkt_thread_count                *)
(*   filter    whether the trace has a filter of its own, and filtered and  *)
(*             accepted the packets counted by it                           *)
(*   slips     the failing paths taken that leave something behind          *)
(* A frame is a number; it was given out for the first time when it arrived.*)
(* A read that has to wait has no outcome.                                  *)

READ_EOF == 0
READ_ERROR == -1
READ_MESSAGE == -2
\* A packet to write that is no data: it is not written, and that is no error.
NONDATA == -1

Digit == <<"1", "2", "3", "4">>
Nth(what, i) == what \o " " \o Digit[i]
FrameLength(n) == IF n % 2 = 1 THEN 60 ELSE 1500

Idle_Deaf(s, t) == IF s.halt THEN Return(s, READ_EOF) ELSE {}
\* What a reader does that finds nothing: look for a message, then for a timeout.
Idle(s, t) ==
  IF t \in s.msgs THEN Return(s, READ_MESSAGE)
  ELSE (IF s.halt THEN Return(s, READ_EOF) ELSE {}) \cup
       (IF "poll" \in s.faults THEN Fail(s, "errno") ELSE {})

\* A packet whose memory belongs to the format.
Lend(s, p, memory, hdr) ==
  [TakeBuffer(s, p, memory, "external") EXCEPT !.pk[p].hdr = hdr, !.pk[p].payload = hdr.n]

Filtered(s, n) == s.data.filter # NULL /\ n \notin s.match
=============================================================================
