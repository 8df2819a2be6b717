---------------------------- MODULE FirstPackets ----------------------------
(* The first packets of the per-packet threads (trace_parallel.c): each      *)
(* thread keeps a copy of the first packet it reads and tells the others; the *)
(* earliest of them starts the clock of a playback in trace time; a restart   *)
(* forgets them all.  Messages are those of the message queues, of which only *)
(* MESSAGE_FIRST_PACKET and MESSAGE_DO_PAUSE matter here.                     *)
EXTENDS Naturals, Sequences, FiniteSets

CONSTANTS
  Threads,      \* the per-packet threads
  Setups,       \* records of mode, and of the bounds max_clock and max_starts
  Stamps,       \* the seconds that packets may be stamped with
  SECOND,       \* a second of the system clock, in its units
  NULL

reporter == "reporter"
Askers == Threads \cup {reporter}

VARIABLES
  setup,           \* mode: each thread has its "own" input, or "fifs", they take turns at one
  first_packets,   \* struct first_packets: count, first and packets
  recorded_first,  \* of each thread
  offset,          \* tracetime_offset_usec of each thread: what it was computed from
  pc, packet,      \* where a thread is, and the packet it stores
  messages,        \* the message queue of each thread
  lock,            \* libtrace_lock: its holder, where threads take turns
  state,           \* "running", "pausing" or "paused"
  clock, starts,   \* the time, and how often the trace was started
  newest, began,   \* of this start: the last stamp and the first packet read
  shown            \* the first packets each thread was given since it last paused
vars == <<setup, first_packets, recorded_first, offset, pc, packet, messages, lock, state,
          clock, starts, newest, began, shown>>

\* What is stored of a packet, and what a thread keeps of an offset.
Packets == [sec : Nat, tv : Nat, by : Threads, start : Nat]
Offsets == [from : Packets, all : BOOLEAN, late : BOOLEAN]

\* What any trace satisfies: there are per-packet threads, as many as one likes; the reporter is
\* none of them; and NULL is no thread, no packet and no offset.
ThreadsFit ==
  /\ IsFiniteSet(Threads) /\ Threads # {} /\ reporter \notin Threads
  /\ NULL \notin Threads /\ NULL \notin Packets /\ NULL \notin Offsets
  /\ Stamps \subseteq Nat /\ SECOND \in Nat \ {0}

NoPackets == [count |-> 0, first |-> CHOOSE t \in Threads : TRUE, packets |-> [t \in Threads |-> NULL]]

Init ==
  /\ setup \in Setups
  /\ first_packets = NoPackets
  /\ recorded_first = [t \in Threads |-> FALSE]
  /\ offset = [t \in Threads |-> NULL]
  /\ pc = [t \in Askers |-> "loop"]
  /\ packet = [t \in Threads |-> NULL]
  /\ messages = [t \in Askers |-> <<>>]
  /\ lock = NULL /\ state = "running" /\ clock = 0 /\ starts = 1
  /\ newest = 0 /\ began = NULL
  /\ shown = [t \in Askers |-> {}]

Stored == {t \in Threads : first_packets.packets[t] # NULL}
Earliest == first_packets.packets[first_packets.first]

(* ---- trace_get_first_packet ---- *)
\* More than a second has passed since the packet was received.
Waited_Seconds(tv) == clock \div SECOND > tv \div SECOND
Waited(tv) ==
  /\ clock \div SECOND > tv \div SECOND
  /\ clock % SECOND > tv % SECOND \/ clock \div SECOND - tv \div SECOND > 1
AllStored == first_packets.count = Cardinality(Threads)
\* Asked for the first of all threads: the packet, and whether that is certain.
trace_get_first_packet ==
  IF first_packets.count = 0 THEN [packet |-> NULL, ret |-> 0]
  ELSE [packet |-> Earliest, ret |-> IF AllStored \/ Waited(Earliest.tv) THEN 1 ELSE 0]

(* ---- a per-packet thread ---- *)
\* Draining what the hasher left goes on after the message that the trace pauses.
Reading(t) == pc[t] = "drain" \/ (pc[t] = "loop" /\ messages[t] = <<>>)
\* Threads that take turns read one file, in the order of its time.
Lockable(t) == setup.mode = "fifs" => lock = NULL /\ pc[t] = "loop"
\* A packet is read and, if it is the thread's first, copied and timed.
Read(t) ==
  /\ Reading(t) /\ Lockable(t) /\ ~recorded_first[t]
  /\ \E sec \in Stamps :
       /\ setup.mode = "fifs" => sec >= newest
       /\ newest' = sec
       /\ packet' = [packet EXCEPT ![t] = [sec |-> sec, tv |-> clock, by |-> t, start |-> starts]]
  /\ began' = IF began = NULL THEN packet'[t] ELSE began
  /\ lock' = IF setup.mode = "fifs" THEN t ELSE lock
  /\ pc' = [pc EXCEPT ![t] = IF @ = "loop" THEN "store" ELSE "drain store"]
  /\ UNCHANGED <<setup, first_packets, recorded_first, offset, messages, state, clock, starts, shown>>

\* The section inside first_packets.lock.
Earlier_OrSame(p) == p.sec <= Earliest.sec
Earlier(p) == p.sec < Earliest.sec
StoreFirst(t) ==
  /\ pc[t] \in {"store", "drain store"}
  /\ first_packets' =
       [count |-> first_packets.count + 1,
        first |-> IF first_packets.count = 0 \/ Earlier(packet[t]) THEN t ELSE first_packets.first,
        packets |-> [first_packets.packets EXCEPT ![t] = packet[t]]]
  /\ pc' = [pc EXCEPT ![t] = IF @ = "store" THEN "tell" ELSE "drain tell"]
  /\ UNCHANGED <<setup, recorded_first, offset, packet, messages, lock, state, clock, starts,
                 newest, began, shown>>

\* The reporter and every per-packet thread, this one too, are told.
Tell(t) ==
  /\ pc[t] \in {"tell", "drain tell"}
  /\ messages' = [a \in Askers |-> Append(messages[a], "FIRST_PACKET")]
  /\ recorded_first' = [recorded_first EXCEPT ![t] = TRUE]
  /\ lock' = IF lock = t THEN NULL ELSE lock
  /\ pc' = [pc EXCEPT ![t] = IF @ = "tell" THEN "delay" ELSE "drain"]
  /\ packet' = [packet EXCEPT ![t] = NULL]
  /\ UNCHANGED <<setup, first_packets, offset, state, clock, starts, newest, began, shown>>

\* A later packet is not stored.
ReadNext(t) ==
  /\ pc[t] = "loop" /\ messages[t] = <<>> /\ Lockable(t) /\ recorded_first[t] /\ offset[t] = NULL
  /\ pc' = [pc EXCEPT ![t] = "delay"]
  /\ UNCHANGED <<setup, first_packets, recorded_first, offset, packet, messages, lock, state, clock,
                 starts, newest, began, shown>>

\* delay_tracetime: the offset is kept once the first packet is certain.
Offset(from) == [from |-> from, all |-> AllStored, late |-> clock > from.tv + SECOND]
delay_tracetime(t) ==
  /\ pc[t] = "delay"
  /\ LET answer == trace_get_first_packet
     IN offset' = IF answer.ret = 1 /\ offset[t] = NULL
                  THEN [offset EXCEPT ![t] = Offset(answer.packet)] ELSE offset
  /\ pc' = [pc EXCEPT ![t] = "loop"]
  /\ UNCHANGED <<setup, first_packets, recorded_first, packet, messages, lock, state, clock, starts,
                 newest, began, shown>>

(* ---- messages, pause and restart ---- *)
\* A callback for the message may ask for the packet, and keep it until it is told to pause.
FirstPacketMessage(a) ==
  /\ pc[a] = "loop" /\ messages[a] # <<>> /\ Head(messages[a]) = "FIRST_PACKET"
  /\ messages' = [messages EXCEPT ![a] = Tail(@)]
  /\ shown' = [shown EXCEPT ![a] = @ \cup {trace_get_first_packet.packet}]
  /\ UNCHANGED <<setup, first_packets, recorded_first, offset, pc, packet, lock, state, clock, starts,
                 newest, began>>

PauseMessage(a) ==
  /\ pc[a] = "loop" /\ messages[a] # <<>> /\ Head(messages[a]) = "DO_PAUSE"
  /\ messages' = [messages EXCEPT ![a] = Tail(@)]
  /\ shown' = [shown EXCEPT ![a] = {}]
  /\ pc' = [pc EXCEPT ![a] = IF a = reporter THEN "paused" ELSE "drain"]
  /\ UNCHANGED <<setup, first_packets, recorded_first, offset, packet, lock, state, clock, starts,
                 newest, began>>
Drained(t) ==
  /\ pc[t] = "drain"
  /\ pc' = [pc EXCEPT ![t] = "paused"]
  /\ UNCHANGED <<setup, first_packets, recorded_first, offset, packet, messages, lock, state, clock,
                 starts, newest, began, shown>>

\* trace_ppause asks the per-packet threads, then the reporter, and waits for each.
AskPerpkts ==
  /\ state = "running" /\ starts < setup.max_starts
  /\ state' = "pausing"
  /\ messages' = [a \in Askers |-> IF a = reporter THEN messages[a] ELSE Append(messages[a], "DO_PAUSE")]
  /\ UNCHANGED <<setup, first_packets, recorded_first, offset, pc, packet, lock, clock, starts, newest,
                 began, shown>>
AskReporter_AtOnce ==
  /\ state = "pausing"
  /\ state' = "reporter"
  /\ messages' = [messages EXCEPT ![reporter] = Append(@, "DO_PAUSE")]
  /\ UNCHANGED <<setup, first_packets, recorded_first, offset, pc, packet, lock, clock, starts, newest,
                 began, shown>>
AskReporter == (\A t \in Threads : pc[t] = "paused") /\ AskReporter_AtOnce
SetPaused ==
  /\ state = "reporter" /\ pc[reporter] = "paused"
  /\ state' = "paused"
  /\ UNCHANGED <<setup, first_packets, recorded_first, offset, pc, packet, messages, lock, clock, starts,
                 newest, began, shown>>

\* trace_prestart forgets the packets, the marks and the offsets; then the threads wake.
Unmarked_Keeps(marks) == marks
Unmarked(marks) == [t \in Threads |-> marks[t] /\ t \notin Stored]
trace_prestart ==
  /\ state = "paused"
  /\ first_packets' = [NoPackets EXCEPT !.count = first_packets.count - Cardinality(Stored)]
  /\ recorded_first' = Unmarked(recorded_first)
  /\ offset' = [t \in Threads |-> NULL]
  /\ pc' = [a \in Askers |-> "loop"]
  /\ state' = "running" /\ starts' = starts + 1
  /\ newest' = 0 /\ began' = NULL
  /\ UNCHANGED <<setup, packet, messages, lock, clock, shown>>

Tick == clock < setup.max_clock /\ clock' = clock + 1
        /\ UNCHANGED <<setup, first_packets, recorded_first, offset, pc, packet, messages, lock, state,
                       starts, newest, began, shown>>

Next ==
  \/ \E t \in Threads : \/ Read(t) \/ StoreFirst(t) \/ Tell(t) \/ ReadNext(t) \/ delay_tracetime(t)
                        \/ Drained(t)
  \/ \E a \in Askers : FirstPacketMessage(a) \/ PauseMessage(a)
  \/ AskPerpkts \/ AskReporter \/ SetPaused \/ trace_prestart \/ Tick

Spec == Init /\ [][Next]_vars

-----------------------------------------------------------------------------
TypeOK ==
  /\ first_packets.count \in 0 .. Cardinality(Threads) /\ first_packets.first \in Threads
  /\ recorded_first \in [Threads -> BOOLEAN]
  /\ lock \in Threads \cup {NULL}
  /\ \A a \in Askers : Len(messages[a]) <= 2 * Cardinality(Threads) + 1

\* first_packets.first is the thread with the earliest of the packets that are
\* counted, however threads store and restarts forget.
FirstIsEarliest ==
  /\ first_packets.count = Cardinality(Stored)
  /\ Stored # {} => Earliest # NULL /\ \A t \in Stored : Earliest.sec <= first_packets.packets[t].sec

\* The asserts of trace_prestart (1374, 1384) and of delay_tracetime: threads
\* that have paused have marked what they stored, and a packet that is to be
\* delayed has a first packet.
AssertsHold ==
  /\ state = "paused" => \A t \in Threads : recorded_first[t] = (t \in Stored)
  /\ \A t \in Threads : pc[t] = "delay" => Stored # {}

\* An offset kept because all threads had stored is that of the packet that is
\* first now; one kept before that is of a packet more than a second old
\* ("If a second has passed since the first entry").
OffsetsTrue ==
  \A t \in Threads : offset[t] # NULL =>
     IF offset[t].all THEN AllStored /\ offset[t].from = Earliest ELSE offset[t].late

\* "The packet and timeval returned by this function ... remain valid until
\* MESSAGE_PAUSING is received": no thread holds a packet that a restart destroyed.
ShownKept ==
  \A a \in Askers : shown[a] \ {NULL} \subseteq {first_packets.packets[t] : t \in Stored}

\* "Doing this inside the lock ensures the first packet is always recorded first".
FirstReadIsFirst == setup.mode = "fifs" /\ Stored # {} => Earliest = began

\* All of it: trace_get_first_packet, delay_tracetime and trace_prestart agree on
\* the first packet, whatever the threads, the messages and the pauses interleave.
FirstPacketsKept ==
  TypeOK /\ FirstIsEarliest /\ AssertsHold /\ OffsetsTrue /\ ShownKept /\ FirstReadIsFirst

\* "Threads should use trace_get_first_packet() to access the packet that
\* triggered this message": there should be one.
MessageHasPacket == \A a \in Askers : NULL \notin shown[a]
=============================================================================
