------------------------- MODULE FirstPacketsProofs -------------------------
(* The inductive invariant of module FirstPackets, the proof that every step  *)
(* keeps each part of it, and what follows for the first packets and the      *)
(* offsets of the threads.                                                    *)
EXTENDS FirstPackets, Integers, TLAPS

Storing == {"store", "drain store"}
Telling == {"tell", "drain tell"}
Leaving == {"drain", "drain store", "drain tell", "paused"}
Labels == Storing \cup Telling \cup Leaving \cup {"loop", "delay"}

Kinds == {"FIRST_PACKET", "DO_PAUSE"}

\* Messages of which one asks for a pause, and of which at most one does.
Asks(s) == \E k \in DOMAIN s : s[k] = "DO_PAUSE"
Once(s) == \A j, k \in DOMAIN s : s[j] = "DO_PAUSE" /\ s[k] = "DO_PAUSE" => j = k

(* ---- the inductive invariant, part by part ---- *)
\* The types of all variables.
Types ==
  /\ first_packets \in [count : Int, first : Threads, packets : [Threads -> Packets \cup {NULL}]]
  /\ recorded_first \in [Threads -> BOOLEAN]
  /\ offset \in [Threads -> Offsets \cup {NULL}]
  /\ pc \in [Askers -> Labels] /\ pc[reporter] \in {"loop", "paused"}
  /\ packet \in [Threads -> Packets \cup {NULL}]
  /\ messages \in [Askers -> Seq(Kinds)]
  /\ lock \in Threads \cup {NULL}
  /\ state \in {"running", "pausing", "reporter", "paused"}
  /\ clock \in Nat /\ starts \in Nat /\ newest \in Nat
  /\ began \in Packets \cup {NULL}
  /\ shown \in [Askers -> SUBSET (Packets \cup {NULL})]

\* A pause asks each thread once: it has the message still, or it is leaving; the
\* reporter is asked when every thread has paused.
Phases ==
  /\ \A a \in Askers : Once(messages[a])
  /\ state = "running" => \A a \in Askers : ~Asks(messages[a]) /\ pc[a] \notin Leaving
  /\ state = "pausing" => /\ \A t \in Threads : Asks(messages[t]) <=> pc[t] \notin Leaving
                          /\ ~Asks(messages[reporter]) /\ pc[reporter] = "loop"
  /\ state = "reporter" => /\ \A t \in Threads : pc[t] = "paused" /\ ~Asks(messages[t])
                           /\ Asks(messages[reporter]) <=> pc[reporter] = "loop"
  /\ state = "paused" => \A a \in Askers : pc[a] = "paused" /\ ~Asks(messages[a])

\* A thread has stored a packet when it has marked that or is about to; it does so
\* once; and it holds the packet until then.
Marks ==
  \A t \in Threads :
    /\ t \in Stored <=> recorded_first[t] \/ pc[t] \in Telling
    /\ pc[t] \in Storing \cup Telling => ~recorded_first[t] /\ packet[t] \in Packets
    /\ pc[t] = "delay" => recorded_first[t]

\* A thread is told of each first packet of this start, and of those stored in the last start
\* after it had been asked to pause.
Told == {t \in Threads : recorded_first[t]}
Bounded(s, leaves, n, c) ==
  /\ Len(s) <= n + c + (IF Asks(s) THEN 1 ELSE 0)
  /\ \A k \in DOMAIN s : s[k] = "DO_PAUSE" => Len(s) - k <= c
  /\ leaves => Len(s) <= c
Waiting ==
  \A a \in Askers :
    Bounded(messages[a], pc[a] \in Leaving, Cardinality(Threads), Cardinality(Told))

\* A thread that leaves was given nothing that it still holds.
Shown == ShownKept /\ \A a \in Askers : pc[a] \in Leaving => shown[a] = {}

\* Where threads take turns, the lock is held from the read of a first packet until it is
\* told; stamps rise; and nobody has stored before the thread that read first.
Turns ==
  setup.mode = "fifs" =>
    /\ \A t \in Threads : pc[t] \in Storing \cup Telling <=> lock = t
    /\ began = NULL => Stored = {} /\ lock = NULL
    /\ began # NULL =>
         /\ began.sec <= newest
         /\ Stored = {} => lock # NULL /\ packet[lock] = began
         /\ Stored # {} => Earliest = began
         /\ \A t \in Threads : pc[t] \in Storing \cup Telling => packet[t].sec >= began.sec

Inv == /\ Types /\ Phases /\ Marks /\ Waiting /\ FirstIsEarliest /\ OffsetsTrue /\ Shown /\ Turns

\* What is used of sets of threads and their sizes.
Sized ==
  /\ Cardinality({}) = 0 /\ Cardinality(Threads) \in Nat
  /\ \A S \in SUBSET Threads :
       /\ IsFiniteSet(S) /\ Cardinality(S) \in 0 .. Cardinality(Threads)
       /\ S = {} <=> Cardinality(S) = 0
       /\ Cardinality(S) = Cardinality(Threads) => S = Threads
       /\ \A t \in Threads \ S : Cardinality(S \cup {t}) = Cardinality(S) + 1

-----------------------------------------------------------------------------
(* Lemmas about queues of messages, sets of threads and the clock.           *)

\* A queue that a message was appended to, and one whose head was taken.
LEMMA Appended ==
  ASSUME NEW s \in Seq(Kinds)
  PROVE  /\ Append(s, "FIRST_PACKET") \in Seq(Kinds) /\ Append(s, "DO_PAUSE") \in Seq(Kinds)
         /\ Asks(Append(s, "FIRST_PACKET")) <=> Asks(s)
         /\ Once(s) => Once(Append(s, "FIRST_PACKET"))
         /\ Asks(Append(s, "DO_PAUSE"))
         /\ ~Asks(s) => Once(Append(s, "DO_PAUSE"))
  BY DEF Asks, Once, Kinds

LEMMA Taken ==
  ASSUME NEW s \in Seq(Kinds), s # <<>>, Once(s)
  PROVE  /\ Tail(s) \in Seq(Kinds)
         /\ Once(Tail(s))
         /\ Head(s) = "FIRST_PACKET" => (Asks(Tail(s)) <=> Asks(s))
         /\ Head(s) = "DO_PAUSE" => Asks(s) /\ ~Asks(Tail(s))
<1>1. /\ Tail(s) \in Seq(Kinds)
      /\ DOMAIN s = 1 .. Len(s) /\ DOMAIN Tail(s) = 1 .. Len(s) - 1
      /\ \A k \in DOMAIN Tail(s) : Tail(s)[k] = s[k + 1] /\ k + 1 \in DOMAIN s
      /\ Head(s) = s[1] /\ 1 \in DOMAIN s /\ Len(s) \in Nat
  OBVIOUS
<1>2. Once(Tail(s))
  BY <1>1 DEF Once
<1>3. ASSUME Head(s) = "FIRST_PACKET" PROVE Asks(Tail(s)) <=> Asks(s)
  <2>1. ASSUME NEW k \in DOMAIN s, s[k] = "DO_PAUSE" PROVE Asks(Tail(s))
    <3>1. k - 1 \in DOMAIN Tail(s) /\ Tail(s)[k - 1] = s[k]
      BY <1>1, <1>3, <2>1
    <3> QED  BY <3>1, <2>1, Zenon DEF Asks
  <2> QED  BY <2>1, <1>1, Zenon DEF Asks
<1>4. ASSUME Head(s) = "DO_PAUSE" PROVE Asks(s) /\ ~Asks(Tail(s))
  BY <1>1, <1>4 DEF Asks, Once
<1> QED  BY <1>1, <1>2, <1>3, <1>4, Zenon

\* The threads that have stored are finitely many; there are none if the count is 0.
LEMMA StoredCounted ==
  ASSUME ThreadsFit, Sized
  PROVE  /\ IsFiniteSet(Stored) /\ Cardinality(Stored) \in 0 .. Cardinality(Threads)
         /\ Cardinality(Threads) \in Nat
         /\ Stored = {} <=> Cardinality(Stored) = 0
         /\ Cardinality(Stored) = Cardinality(Threads) => Stored = Threads
<1>1. IsFiniteSet(Threads) /\ Stored \in SUBSET Threads
  BY Zenon DEF ThreadsFit, Stored
<1> QED  BY <1>1, Zenon DEF Sized

\* Waited: by then the clock is more than a second past the packet.
LEMMA WaitedIsLate ==
  ASSUME NEW tv \in Nat, clock \in Nat, SECOND \in Nat \ {0}, Waited(tv)
  PROVE  clock > tv + SECOND
<1> DEFINE q == clock \div SECOND
           r == clock % SECOND
           p == tv \div SECOND
           o == tv % SECOND
<1>1. /\ q \in Nat /\ r \in 0 .. SECOND - 1 /\ clock = SECOND * q + r
      /\ p \in Nat /\ o \in 0 .. SECOND - 1 /\ tv = SECOND * p + o
  OBVIOUS
<1>2. q > p /\ (r > o \/ q - p > 1)
  BY Zenon DEF Waited
<1> HIDE DEF q, r, p, o
<1>3. SECOND * q >= SECOND * (p + 1) /\ (q - p > 1 => SECOND * q >= SECOND * (p + 2))
  BY <1>1, <1>2
<1>4. SECOND * (p + 1) = SECOND * p + SECOND /\ SECOND * (p + 2) = SECOND * p + SECOND + SECOND
  BY <1>1
<1> QED  BY <1>1, <1>2, <1>3, <1>4

-----------------------------------------------------------------------------
(* Types                                                                     *)

LEMMA TypesInit == ASSUME ThreadsFit, Sized, Init PROVE Types
<1>1. NoPackets \in [count : Int, first : Threads, packets : [Threads -> Packets \cup {NULL}]]
  BY DEF ThreadsFit, NoPackets
<1> QED  BY <1>1 DEF Init, Types, Askers, Labels, Storing, Telling, Leaving


\* Where a thread goes.
LEMMA Goes ==
  ASSUME ThreadsFit, Sized, Types, NEW t \in Threads, NEW l \in Labels, pc' = [pc EXCEPT ![t] = l]
  PROVE  pc' \in [Askers -> Labels] /\ pc'[reporter] \in {"loop", "paused"}
  BY SMTT(30) DEF ThreadsFit, Types, Askers

LEMMA TypesStep == ASSUME ThreadsFit, Sized, Types, FirstIsEarliest, [Next]_vars PROVE Types'
<1> USE DEF Types
<1> DEFINE PcTyped == pc' \in [Askers -> Labels] /\ pc'[reporter] \in {"loop", "paused"}
<1>0. /\ {"loop", "store", "tell", "delay", "drain", "drain store", "drain tell", "paused"} \subseteq Labels
      /\ Threads \subseteq Askers /\ reporter \in Askers
  BY Zenon DEF Labels, Storing, Telling, Leaving, Askers
<1>1. ASSUME NEW t \in Threads, Read(t) PROVE Types'
  <2>1. PICK sec \in Stamps : /\ newest' = sec
                              /\ packet' = [packet EXCEPT ![t] = [sec |-> sec, tv |-> clock, by |-> t, start |-> starts]]
    BY <1>1, Zenon DEF Read
  <2>2. [sec |-> sec, tv |-> clock, by |-> t, start |-> starts] \in Packets
    BY Zenon DEF ThreadsFit, Packets
  <2>3. packet' \in [Threads -> Packets \cup {NULL}] /\ packet'[t] \in Packets /\ newest' \in Nat
    BY <2>1, <2>2, Zenon DEF ThreadsFit
  <2>4. PcTyped
    BY <1>0, <1>1, Goes, Zenon DEF Read
  <2> QED  BY <1>1, <2>3, <2>4, Zenon DEF Read
<1>2. ASSUME NEW t \in Threads, StoreFirst(t) PROVE Types'
  <2>1. PcTyped
    BY <1>0, <1>2, Goes, Zenon DEF StoreFirst
  <2>2. first_packets' \in [count : Int, first : Threads, packets : [Threads -> Packets \cup {NULL}]]
    <3>1. /\ first_packets.count \in Int /\ first_packets.first \in Threads
          /\ first_packets.packets \in [Threads -> Packets \cup {NULL}]
          /\ packet[t] \in Packets \cup {NULL}
      BY Zenon
    <3> DEFINE f == IF first_packets.count = 0 \/ Earlier(packet[t]) THEN t ELSE first_packets.first
               g == [first_packets.packets EXCEPT ![t] = packet[t]]
    <3>2. g \in [Threads -> Packets \cup {NULL}]
      BY <3>1, Zenon
    <3>3. first_packets' = [count |-> first_packets.count + 1, first |-> f, packets |-> g]
      BY <1>2, Zenon DEF StoreFirst
    <3>4. f \in Threads
      BY <3>1, Zenon
    <3> HIDE DEF f, g
    <3> QED  BY <3>1, <3>2, <3>3, <3>4
  <2> QED  BY <1>2, <2>1, <2>2, Zenon DEF StoreFirst
<1>3. ASSUME NEW t \in Threads, Tell(t) PROVE Types'
  <2>1. messages' \in [Askers -> Seq(Kinds)]
    BY <1>3, Appended, Zenon DEF Tell
  <2>2. PcTyped
    BY <1>0, <1>3, Goes, Zenon DEF Tell
  <2> QED  BY <1>3, <2>1, <2>2, Zenon DEF Tell
<1>4. ASSUME NEW t \in Threads, ReadNext(t) PROVE Types'
  <2>1. PcTyped
    BY <1>0, <1>4, Goes, Zenon DEF ReadNext
  <2> QED  BY <1>4, <2>1, Zenon DEF ReadNext
<1>5. ASSUME NEW t \in Threads, delay_tracetime(t) PROVE Types'
  <2>1. PcTyped
    BY <1>0, <1>5, Goes, Zenon DEF delay_tracetime
  <2>2. offset' \in [Threads -> Offsets \cup {NULL}]
    <3> DEFINE answer == trace_get_first_packet
    <3>1. CASE answer.ret = 1 /\ offset[t] = NULL
      <4>1. answer.packet \in Packets \cup {NULL}
        BY Zenon DEF trace_get_first_packet, Earliest
      <4>2. answer.packet # NULL
        BY <3>1, StoredCounted DEF trace_get_first_packet, FirstIsEarliest
      <4>3. Offset(answer.packet) \in Offsets
        BY <4>1, <4>2 DEF Offset, Offsets, AllStored
      <4> QED  BY <1>5, <3>1, <4>3, Zenon DEF delay_tracetime
    <3>2. CASE ~(answer.ret = 1 /\ offset[t] = NULL)
      BY <1>5, <3>2, Zenon DEF delay_tracetime
    <3> QED  BY <3>1, <3>2, Zenon
  <2> QED  BY <1>5, <2>1, <2>2, Zenon DEF delay_tracetime
<1>6. ASSUME NEW t \in Threads, Drained(t) PROVE Types'
  <2>1. PcTyped
    BY <1>0, <1>6, Goes, Zenon DEF Drained
  <2> QED  BY <1>6, <2>1, Zenon DEF Drained
<1>7. ASSUME NEW a \in Askers, FirstPacketMessage(a) PROVE Types'
  <2>1. trace_get_first_packet.packet \in Packets \cup {NULL}
    BY Zenon DEF trace_get_first_packet, Earliest
  <2>2. messages' \in [Askers -> Seq(Kinds)]
    BY <1>7 DEF FirstPacketMessage
  <2> QED  BY <1>7, <2>1, <2>2, Zenon DEF FirstPacketMessage
<1>8. ASSUME NEW a \in Askers, PauseMessage(a) PROVE Types'
  <2>1. messages' \in [Askers -> Seq(Kinds)]
    BY <1>8 DEF PauseMessage
  <2>2. PcTyped
    <3>1. CASE a = reporter
      BY <1>0, <1>8, <3>1, Zenon DEF PauseMessage
    <3>2. CASE a \in Threads
      BY <1>0, <1>8, <3>2, Goes, Zenon DEF PauseMessage, ThreadsFit
    <3> QED  BY <3>1, <3>2, Zenon DEF Askers
  <2> QED  BY <1>8, <2>1, <2>2, Zenon DEF PauseMessage
<1>9. CASE AskPerpkts
  <2>1. messages' \in [Askers -> Seq(Kinds)]
    BY <1>9, Appended, Zenon DEF AskPerpkts
  <2> QED  BY <1>9, <2>1, Zenon DEF AskPerpkts
<1>10. CASE AskReporter
  <2>1. messages' \in [Askers -> Seq(Kinds)]
    BY <1>0, <1>10, Appended, Zenon DEF AskReporter, AskReporter_AtOnce
  <2> QED  BY <1>10, <2>1, Zenon DEF AskReporter, AskReporter_AtOnce
<1>11. CASE SetPaused
  BY <1>11, Zenon DEF SetPaused
<1>12. CASE trace_prestart
  <2>1. Cardinality(Stored) \in Nat
    BY StoredCounted
  <2>2. first_packets' \in [count : Int, first : Threads, packets : [Threads -> Packets \cup {NULL}]]
    <3> DEFINE n == first_packets.count - Cardinality(Stored)
               f == CHOOSE t \in Threads : TRUE
    <3>1. n \in Int /\ f \in Threads
      BY <2>1 DEF ThreadsFit
    <3>2. first_packets' = [count |-> n, first |-> f, packets |-> [t \in Threads |-> NULL]]
      BY <1>12, Zenon DEF trace_prestart, NoPackets
    <3> HIDE DEF n, f
    <3> QED  BY <3>1, <3>2, Zenon
  <2>3. PcTyped
    BY <1>0, <1>12, Zenon DEF trace_prestart
  <2>4. recorded_first' \in [Threads -> BOOLEAN]
    BY <1>12, Zenon DEF trace_prestart, Unmarked
  <2>5. offset' \in [Threads -> Offsets \cup {NULL}]
    BY <1>12, Zenon DEF trace_prestart
  <2>6. /\ state' = "running" /\ starts' \in Nat /\ newest' \in Nat /\ began' = NULL
        /\ UNCHANGED <<packet, messages, lock, clock, shown>>
    BY <1>12 DEF trace_prestart
  <2> QED  BY <2>2, <2>3, <2>4, <2>5, <2>6, Zenon
<1>13. CASE Tick
  BY <1>13 DEF Tick
<1>14. CASE UNCHANGED vars
  BY <1>14, Zenon DEF vars
<1> QED
  BY <1>1, <1>2, <1>3, <1>4, <1>5, <1>6, <1>7, <1>8, <1>9, <1>10, <1>11, <1>12, <1>13, <1>14, Zenon DEF Next

-----------------------------------------------------------------------------
(* Phases: who was asked to pause, and who leaves.                           *)

LEMMA PhasesInit == ASSUME ThreadsFit, Sized, Init PROVE Phases
<1>1. Once(<<>>) /\ ~Asks(<<>>)
  BY DEF Once, Asks
<1>2. state = "running" /\ \A a \in Askers : messages[a] = <<>> /\ pc[a] = "loop"
  BY Zenon DEF Init
<1> QED  BY <1>1, <1>2, Zenon DEF Phases, Leaving

\* A step of a thread that neither takes a message nor begins or ends a pause.
LEMMA PhasesKept ==
  ASSUME ThreadsFit, Sized, Types, Phases, NEW t \in Threads, NEW l \in Labels,
         pc[t] # "paused", pc[t] \in Leaving <=> l \in Leaving,
         pc' = [pc EXCEPT ![t] = l], state' = state,
         \A a \in Askers : Once(messages'[a]) /\ (Asks(messages'[a]) <=> Asks(messages[a]))
  PROVE  Phases'
  BY Zenon DEF ThreadsFit, Types, Phases, Askers

LEMMA PhasesStep == ASSUME ThreadsFit, Sized, Types, Phases, [Next]_vars PROVE Phases'
<1>0. /\ {"loop", "store", "tell", "delay", "drain", "drain store", "drain tell", "paused"} \subseteq Labels
      /\ Threads \subseteq Askers /\ reporter \in Askers /\ reporter \notin Threads
      /\ "drain" \in Leaving /\ "drain store" \in Leaving /\ "drain tell" \in Leaving /\ "paused" \in Leaving
      /\ "loop" \notin Leaving /\ "store" \notin Leaving /\ "tell" \notin Leaving /\ "delay" \notin Leaving
  BY Zenon DEF Labels, Storing, Telling, Leaving, Askers, ThreadsFit
<1>00. /\ \A a \in Askers : Once(messages[a]) /\ messages[a] \in Seq(Kinds) /\ pc[a] \in Labels
       /\ pc \in [Askers -> Labels] /\ messages \in [Askers -> Seq(Kinds)]
  BY Zenon DEF Types, Phases
<1>1. ASSUME NEW t \in Threads, Read(t) PROVE Phases'
  BY <1>0, <1>00, <1>1, PhasesKept, Zenon DEF Read, Reading
<1>2. ASSUME NEW t \in Threads, StoreFirst(t) PROVE Phases'
  BY <1>0, <1>00, <1>2, PhasesKept, Zenon DEF StoreFirst
<1>3. ASSUME NEW t \in Threads, Tell(t) PROVE Phases'
  <2>1. \A a \in Askers : Once(messages'[a]) /\ (Asks(messages'[a]) <=> Asks(messages[a]))
    BY <1>00, <1>3, Appended, Zenon DEF Tell
  <2> QED  BY <1>0, <1>00, <1>3, <2>1, PhasesKept, Zenon DEF Tell
<1>4. ASSUME NEW t \in Threads, ReadNext(t) PROVE Phases'
  BY <1>0, <1>00, <1>4, PhasesKept, Zenon DEF ReadNext
<1>5. ASSUME NEW t \in Threads, delay_tracetime(t) PROVE Phases'
  BY <1>0, <1>00, <1>5, PhasesKept, Zenon DEF delay_tracetime
<1>6. ASSUME NEW t \in Threads, Drained(t) PROVE Phases'
  BY <1>0, <1>00, <1>6, PhasesKept, Zenon DEF Drained
<1>7. ASSUME NEW a \in Askers, FirstPacketMessage(a) PROVE Phases'
  <2>1. \A x \in Askers : Once(messages'[x]) /\ (Asks(messages'[x]) <=> Asks(messages[x]))
    BY <1>00, <1>7, Taken, Zenon DEF FirstPacketMessage
  <2> QED  BY <1>0, <1>7, <2>1, Zenon DEF FirstPacketMessage, Phases
<1>8. ASSUME NEW a \in Askers, PauseMessage(a) PROVE Phases'
  <2>1. Asks(messages[a]) /\ ~Asks(messages'[a]) /\ \A x \in Askers : Once(messages'[x])
    BY <1>00, <1>8, Taken, Zenon DEF PauseMessage
  <2>2. \A x \in Askers \ {a} : messages'[x] = messages[x] /\ pc'[x] = pc[x]
    BY <1>00, <1>8, Zenon DEF PauseMessage
  <2>3. pc'[a] = IF a = reporter THEN "paused" ELSE "drain"
    BY <1>00, <1>8, Zenon DEF PauseMessage
  <2>4. pc[a] = "loop" /\ state' = state
    BY <1>8, Zenon DEF PauseMessage
  <2> QED  BY <1>0, <2>1, <2>2, <2>3, <2>4, Zenon DEF Phases, Askers
<1>9. CASE AskPerpkts
  <2>1. \A a \in Askers : Once(messages'[a]) /\ (Asks(messages'[a]) <=> a # reporter)
    BY <1>00, <1>9, Appended, Zenon DEF AskPerpkts, Phases
  <2> QED  BY <1>0, <1>00, <1>9, <2>1, Zenon DEF AskPerpkts, Phases, Types
<1>10. CASE AskReporter
  <2>1. /\ Once(messages'[reporter]) /\ Asks(messages'[reporter])
        /\ \A t \in Threads : messages'[t] = messages[t]
    <3>1. messages' = [messages EXCEPT ![reporter] = Append(@, "DO_PAUSE")] /\ state = "pausing"
      BY <1>10, Zenon DEF AskReporter, AskReporter_AtOnce
    <3>2. messages'[reporter] = Append(messages[reporter], "DO_PAUSE") /\ ~Asks(messages[reporter])
      BY <1>0, <1>00, <3>1, Zenon DEF Phases
    <3>3. /\ Once(Append(messages[reporter], "DO_PAUSE"))
          /\ Asks(Append(messages[reporter], "DO_PAUSE"))
      BY <1>0, <1>00, <3>2, Appended, Zenon
    <3> QED  BY <1>0, <1>00, <3>1, <3>2, <3>3, Zenon
  <2>2. state = "pausing" /\ state' = "reporter" /\ pc' = pc /\ \A t \in Threads : pc[t] = "paused"
    BY <1>10, Zenon DEF AskReporter, AskReporter_AtOnce
  <2> QED  BY <1>0, <1>00, <2>1, <2>2, Zenon DEF Phases, Askers
<1>11. CASE SetPaused
  BY <1>0, <1>11, Zenon DEF SetPaused, Phases, Askers
<1>12. CASE trace_prestart
  BY <1>0, <1>00, <1>12, Zenon DEF trace_prestart, Phases
<1>13. CASE Tick
  BY <1>13, Zenon DEF Tick, Phases
<1>14. CASE UNCHANGED vars
  BY <1>14, Zenon DEF vars, Phases
<1> QED
  BY <1>1, <1>2, <1>3, <1>4, <1>5, <1>6, <1>7, <1>8, <1>9, <1>10, <1>11, <1>12, <1>13, <1>14, Zenon DEF Next

-----------------------------------------------------------------------------
(* Marks: a thread stores once.                                              *)

LEMMA MarksInit == ASSUME ThreadsFit, Sized, Init PROVE Marks
  BY Zenon DEF ThreadsFit, Init, Marks, Stored, NoPackets, Storing, Telling, Askers

\* A step that concerns one thread only, as far as marks go.
LEMMA MarksKept ==
  ASSUME ThreadsFit, Sized, Types, Marks, NEW t \in Threads,
         \A u \in Threads \ {t} : /\ first_packets'.packets[u] = first_packets.packets[u]
                                  /\ recorded_first'[u] = recorded_first[u]
                                  /\ pc'[u] = pc[u] /\ packet'[u] = packet[u],
         first_packets'.packets[t] # NULL <=> recorded_first'[t] \/ pc'[t] \in Telling,
         pc'[t] \in Storing \cup Telling => ~recorded_first'[t] /\ packet'[t] \in Packets,
         pc'[t] = "delay" => recorded_first'[t]
  PROVE  Marks'
  BY Zenon DEF Marks, Stored

LEMMA MarksStep == ASSUME ThreadsFit, Sized, Types, Phases, Marks, [Next]_vars PROVE Marks'
<1>0. Threads \subseteq Askers /\ reporter \notin Threads
  BY Zenon DEF Askers, ThreadsFit
<1>00. /\ pc \in [Askers -> Labels] /\ packet \in [Threads -> Packets \cup {NULL}]
       /\ recorded_first \in [Threads -> BOOLEAN]
       /\ first_packets.packets \in [Threads -> Packets \cup {NULL}]
  BY Zenon DEF Types
<1>1. ASSUME NEW t \in Threads, Read(t) PROVE Marks'
  <2>1. PICK sec \in Stamps : packet' = [packet EXCEPT ![t] = [sec |-> sec, tv |-> clock, by |-> t, start |-> starts]]
    BY <1>1, Zenon DEF Read
  <2>2. [sec |-> sec, tv |-> clock, by |-> t, start |-> starts] \in Packets
    BY Zenon DEF ThreadsFit, Packets, Types
  <2>3. packet'[t] \in Packets /\ \A u \in Threads \ {t} : packet'[u] = packet[u]
    BY <1>00, <2>1, <2>2, Zenon
  <2>4. pc'[t] \in Storing /\ pc[t] \in {"loop", "drain"} /\ \A u \in Threads \ {t} : pc'[u] = pc[u]
    BY <1>0, <1>00, <1>1, Zenon DEF Read, Reading, Storing
  <2>5. ~recorded_first[t] /\ UNCHANGED <<first_packets, recorded_first>>
    BY <1>1, Zenon DEF Read
  <2> QED  BY <2>3, <2>4, <2>5, MarksKept, Zenon DEF Marks, Stored, Storing, Telling
<1>2. ASSUME NEW t \in Threads, StoreFirst(t) PROVE Marks'
  <2>1. pc[t] \in Storing /\ pc'[t] \in Telling /\ \A u \in Threads \ {t} : pc'[u] = pc[u]
    BY <1>0, <1>00, <1>2, Zenon DEF StoreFirst, Storing, Telling
  <2>2. first_packets'.packets = [first_packets.packets EXCEPT ![t] = packet[t]]
    BY <1>2, Zenon DEF StoreFirst
  <2>3. ~recorded_first[t] /\ packet[t] \in Packets /\ packet[t] # NULL
    BY <2>1, Zenon DEF Marks, ThreadsFit
  <2>4. UNCHANGED <<recorded_first, packet>>
    BY <1>2, Zenon DEF StoreFirst
  <2> QED  BY <1>00, <2>1, <2>2, <2>3, <2>4, MarksKept, Zenon DEF Telling
<1>3. ASSUME NEW t \in Threads, Tell(t) PROVE Marks'
  <2>1. pc[t] \in Telling /\ pc'[t] \in {"delay", "drain"} /\ \A u \in Threads \ {t} : pc'[u] = pc[u]
    BY <1>0, <1>00, <1>3, Zenon DEF Tell, Telling
  <2>2. recorded_first'[t] /\ \A u \in Threads \ {t} : recorded_first'[u] = recorded_first[u] /\ packet'[u] = packet[u]
    BY <1>00, <1>3, Zenon DEF Tell
  <2>3. UNCHANGED first_packets
    BY <1>3, Zenon DEF Tell
  <2> QED  BY <2>1, <2>2, <2>3, MarksKept, Zenon DEF Marks, Stored, Storing, Telling
<1>4. ASSUME NEW t \in Threads, ReadNext(t) PROVE Marks'
  <2>1. pc[t] = "loop" /\ pc'[t] = "delay" /\ recorded_first[t] /\ \A u \in Threads \ {t} : pc'[u] = pc[u]
    BY <1>0, <1>00, <1>4, Zenon DEF ReadNext
  <2>2. UNCHANGED <<recorded_first, packet, first_packets>>
    BY <1>4, Zenon DEF ReadNext
  <2> QED  BY <2>1, <2>2, MarksKept, Zenon DEF Marks, Stored, Storing, Telling
<1>5. ASSUME NEW t \in Threads, delay_tracetime(t) PROVE Marks'
  <2>1. pc[t] = "delay" /\ pc'[t] = "loop" /\ \A u \in Threads \ {t} : pc'[u] = pc[u]
    BY <1>0, <1>00, <1>5, Zenon DEF delay_tracetime
  <2>2. UNCHANGED <<recorded_first, packet, first_packets>>
    BY <1>5, Zenon DEF delay_tracetime
  <2> QED  BY <2>1, <2>2, MarksKept, Zenon DEF Marks, Stored, Storing, Telling
<1>6. ASSUME NEW t \in Threads, Drained(t) PROVE Marks'
  <2>1. pc[t] = "drain" /\ pc'[t] = "paused" /\ \A u \in Threads \ {t} : pc'[u] = pc[u]
    BY <1>0, <1>00, <1>6, Zenon DEF Drained
  <2>2. UNCHANGED <<recorded_first, packet, first_packets>>
    BY <1>6, Zenon DEF Drained
  <2> QED  BY <2>1, <2>2, MarksKept, Zenon DEF Marks, Stored, Storing, Telling
<1>7. ASSUME NEW a \in Askers, FirstPacketMessage(a) PROVE Marks'
  BY <1>7, Zenon DEF FirstPacketMessage, Marks, Stored
<1>8. ASSUME NEW a \in Askers, PauseMessage(a) PROVE Marks'
  <2>1. UNCHANGED <<recorded_first, packet, first_packets>>
    BY <1>8, Zenon DEF PauseMessage
  <2>2. \A t \in Threads : pc'[t] = pc[t] \/ (pc[t] = "loop" /\ pc'[t] = "drain")
    BY <1>0, <1>00, <1>8, Zenon DEF PauseMessage
  <2> QED  BY <2>1, <2>2, Zenon DEF Marks, Stored, Storing, Telling
<1>9. CASE AskPerpkts
  BY <1>9, Zenon DEF AskPerpkts, Marks, Stored
<1>10. CASE AskReporter
  BY <1>10, Zenon DEF AskReporter, AskReporter_AtOnce, Marks, Stored
<1>11. CASE SetPaused
  BY <1>11, Zenon DEF SetPaused, Marks, Stored
<1>12. CASE trace_prestart
  <2>1. \A t \in Threads : pc'[t] = "loop" /\ first_packets'.packets[t] = NULL
    BY <1>0, <1>12, Zenon DEF trace_prestart, NoPackets
  <2>2. \A t \in Threads : pc[t] = "paused" /\ (t \in Stored <=> recorded_first[t])
    BY <1>0, <1>12, Zenon DEF trace_prestart, Phases, Marks, Telling
  <2>3. \A t \in Threads : ~recorded_first'[t]
    BY <1>12, <2>2, Zenon DEF trace_prestart, Unmarked
  <2> QED  BY <2>1, <2>3, Zenon DEF Marks, Stored, Storing, Telling
<1>13. CASE Tick
  BY <1>13, Zenon DEF Tick, Marks, Stored
<1>14. CASE UNCHANGED vars
  BY <1>14, Zenon DEF vars, Marks, Stored
<1> QED
  BY <1>1, <1>2, <1>3, <1>4, <1>5, <1>6, <1>7, <1>8, <1>9, <1>10, <1>11, <1>12, <1>13, <1>14, Zenon DEF Next

-----------------------------------------------------------------------------
(* Waiting: how many messages wait for a thread.                             *)

LEMMA ToldCounted == ASSUME ThreadsFit, Sized PROVE IsFiniteSet(Told) /\ Cardinality(Told) \in 0 .. Cardinality(Threads)
<1>1. IsFiniteSet(Threads) /\ Told \in SUBSET Threads
  BY Zenon DEF ThreadsFit, Told
<1> QED  BY <1>1, Zenon DEF Sized

LEMMA WaitingInit == ASSUME ThreadsFit, Sized, Init PROVE Waiting
<1>1. \A a \in Askers : messages[a] = <<>> /\ pc[a] = "loop"
  BY Zenon DEF Init
<1>2. Cardinality(Threads) \in Nat /\ Cardinality(Told) \in Nat
  BY ToldCounted DEF Sized
<1>3. \A n, c \in Nat : Bounded(<<>>, FALSE, n, c)
  BY DEF Bounded, Asks
<1>4. \A a \in Askers : pc[a] \notin Leaving
  BY <1>1, Zenon DEF Leaving
<1> QED  BY <1>1, <1>2, <1>3, <1>4, Zenon DEF Waiting, Bounded

\* A step that sends and takes no message.
LEMMA WaitingKept ==
  ASSUME Waiting, UNCHANGED <<recorded_first, messages>>,
         \A a \in Askers : pc'[a] \in Leaving => pc[a] \in Leaving
  PROVE  Waiting'
<1>1. Told' = Told
  BY Zenon DEF Told
<1> QED  BY <1>1, Zenon DEF Waiting, Bounded

LEMMA BoundedAppend ==
  ASSUME NEW s \in Seq(Kinds), NEW leaves, NEW n \in Nat, NEW c \in Nat, Bounded(s, leaves, n, c)
  PROVE  /\ Bounded(Append(s, "FIRST_PACKET"), leaves, n, c + 1)
         /\ ~Asks(s) /\ ~leaves => Bounded(Append(s, "DO_PAUSE"), leaves, n, c)
<1> USE DEF Kinds
<1>1. /\ Len(Append(s, "FIRST_PACKET")) = Len(s) + 1 /\ Len(Append(s, "DO_PAUSE")) = Len(s) + 1
      /\ Len(s) \in Nat
  OBVIOUS
<1>2. Bounded(Append(s, "FIRST_PACKET"), leaves, n, c + 1)
  <2>1. Asks(Append(s, "FIRST_PACKET")) <=> Asks(s)
    BY Appended, Zenon
  <2>2. ASSUME NEW k \in DOMAIN Append(s, "FIRST_PACKET"), Append(s, "FIRST_PACKET")[k] = "DO_PAUSE"
        PROVE  Len(s) + 1 - k <= c + 1
    <3>1. k \in DOMAIN s /\ s[k] = "DO_PAUSE" /\ k \in Nat
      BY <2>2
    <3> QED  BY <1>1, <3>1 DEF Bounded
  <2> QED  BY <1>1, <2>1, <2>2 DEF Bounded
<1>3. ASSUME ~Asks(s), ~leaves PROVE Bounded(Append(s, "DO_PAUSE"), leaves, n, c)
  <2>1. Asks(Append(s, "DO_PAUSE"))
    BY Appended, Zenon
  <2>2. ASSUME NEW k \in DOMAIN Append(s, "DO_PAUSE"), Append(s, "DO_PAUSE")[k] = "DO_PAUSE"
        PROVE  k = Len(s) + 1
    BY <1>3, <2>2 DEF Asks
  <2> QED  BY <1>1, <1>3, <2>1, <2>2 DEF Bounded
<1> QED  BY <1>2, <1>3, Zenon

LEMMA BoundedTail ==
  ASSUME NEW s \in Seq(Kinds), s # <<>>, Once(s), NEW leaves, NEW n \in Nat, NEW c \in Nat,
         Bounded(s, leaves, n, c)
  PROVE  /\ Head(s) = "FIRST_PACKET" => Bounded(Tail(s), leaves, n, c)
         /\ Head(s) = "DO_PAUSE" => Bounded(Tail(s), TRUE, n, c)
<1>1. /\ Len(s) \in Nat \ {0} /\ Len(Tail(s)) = Len(s) - 1
      /\ DOMAIN s = 1 .. Len(s) /\ DOMAIN Tail(s) = 1 .. Len(s) - 1
      /\ \A k \in DOMAIN Tail(s) : Tail(s)[k] = s[k + 1] /\ k + 1 \in DOMAIN s
      /\ Head(s) = s[1] /\ 1 \in DOMAIN s
  OBVIOUS
<1>2. ASSUME NEW k \in DOMAIN Tail(s), Tail(s)[k] = "DO_PAUSE" PROVE Len(Tail(s)) - k <= c
  <2>1. k \in Nat /\ k + 1 \in DOMAIN s /\ s[k + 1] = "DO_PAUSE"
    BY <1>1, <1>2
  <2> QED  BY <1>1, <2>1 DEF Bounded
<1>3. CASE Head(s) = "FIRST_PACKET"
  <2>1. Asks(Tail(s)) <=> Asks(s)
    BY <1>3, Taken, Zenon
  <2> QED  BY <1>1, <1>2, <1>3, <2>1 DEF Bounded
<1>4. CASE Head(s) = "DO_PAUSE"
  <2>1. ~Asks(Tail(s)) /\ Len(s) - 1 <= c
    BY <1>1, <1>4, Taken, Zenon DEF Bounded
  <2> QED  BY <1>1, <1>2, <1>4, <2>1 DEF Bounded
<1> QED  BY <1>3, <1>4, Zenon

LEMMA WaitingStep == ASSUME ThreadsFit, Sized, Types, Phases, Marks, Waiting, [Next]_vars PROVE Waiting'
<1> DEFINE n == Cardinality(Threads)
           c == Cardinality(Told)
<1>0. Threads \subseteq Askers /\ reporter \in Askers /\ reporter \notin Threads
  BY Zenon DEF Askers, ThreadsFit
<1>00. /\ pc \in [Askers -> Labels] /\ messages \in [Askers -> Seq(Kinds)]
       /\ recorded_first \in [Threads -> BOOLEAN]
  BY Zenon DEF Types
<1>000. n \in Nat /\ c \in Nat /\ c <= n
  BY ToldCounted DEF Sized
<1>1. ASSUME NEW t \in Threads, Read(t) PROVE Waiting'
  BY <1>0, <1>00, <1>1, WaitingKept, Zenon DEF Read, Reading, Leaving
<1>2. ASSUME NEW t \in Threads, StoreFirst(t) PROVE Waiting'
  BY <1>0, <1>00, <1>2, WaitingKept, Zenon DEF StoreFirst, Leaving
<1>3. ASSUME NEW t \in Threads, Tell(t) PROVE Waiting'
  <2>1. t \notin Told /\ Told' = Told \cup {t}
    BY <1>00, <1>3, Zenon DEF Tell, Marks, Told, Storing, Telling
  <2>2. Cardinality(Told') = c + 1
    <3>1. Told \in SUBSET Threads
      BY Zenon DEF Told
    <3> QED  BY <2>1, <3>1, Zenon DEF Sized
  <2>3. ASSUME NEW a \in Askers PROVE pc'[a] \in Leaving => pc[a] \in Leaving
    BY <1>0, <1>00, <1>3, Zenon DEF Tell, Leaving
  <2>4. ASSUME NEW a \in Askers PROVE Bounded(messages'[a], pc[a] \in Leaving, n, c + 1)
    BY <1>00, <1>000, <1>3, BoundedAppend, Zenon DEF Tell, Waiting
  <2> QED  BY <2>2, <2>3, <2>4, Zenon DEF Waiting, Bounded
<1>4. ASSUME NEW t \in Threads, ReadNext(t) PROVE Waiting'
  BY <1>0, <1>00, <1>4, WaitingKept, Zenon DEF ReadNext, Leaving
<1>5. ASSUME NEW t \in Threads, delay_tracetime(t) PROVE Waiting'
  BY <1>0, <1>00, <1>5, WaitingKept, Zenon DEF delay_tracetime, Leaving
<1>6. ASSUME NEW t \in Threads, Drained(t) PROVE Waiting'
  BY <1>0, <1>00, <1>6, WaitingKept, Zenon DEF Drained, Leaving
<1>7. ASSUME NEW a \in Askers, FirstPacketMessage(a) PROVE Waiting'
  <2>1. Told' = Told /\ pc' = pc
    BY <1>7, Zenon DEF FirstPacketMessage, Told
  <2>2. Bounded(Tail(messages[a]), pc[a] \in Leaving, n, c)
    BY <1>00, <1>000, <1>7, BoundedTail, Zenon DEF FirstPacketMessage, Waiting, Phases
  <2> QED  BY <1>00, <1>7, <2>1, <2>2, Zenon DEF FirstPacketMessage, Waiting
<1>8. ASSUME NEW a \in Askers, PauseMessage(a) PROVE Waiting'
  <2>1. Told' = Told
    BY <1>8, Zenon DEF PauseMessage, Told
  <2>2. Bounded(Tail(messages[a]), TRUE, n, c)
    BY <1>00, <1>000, <1>8, BoundedTail, Zenon DEF PauseMessage, Waiting, Phases
  <2>3. (pc'[a] \in Leaving) = TRUE /\ messages'[a] = Tail(messages[a])
    BY <1>00, <1>8, Zenon DEF PauseMessage, Leaving
  <2>4. ASSUME NEW x \in Askers \ {a} PROVE pc'[x] = pc[x] /\ messages'[x] = messages[x]
    BY <1>00, <1>8, Zenon DEF PauseMessage
  <2> QED  BY <2>1, <2>2, <2>3, <2>4, Zenon DEF Waiting
<1>9. CASE AskPerpkts
  <2>1. Told' = Told /\ pc' = pc
    BY <1>9, Zenon DEF AskPerpkts, Told
  <2>2. ASSUME NEW a \in Askers PROVE ~Asks(messages[a]) /\ pc[a] \notin Leaving
    BY <1>9, Zenon DEF AskPerpkts, Phases
  <2>3. ASSUME NEW a \in Askers PROVE Bounded(messages'[a], pc[a] \in Leaving, n, c)
    BY <1>00, <1>000, <1>9, <2>2, BoundedAppend, Zenon DEF AskPerpkts, Waiting
  <2> QED  BY <2>1, <2>3, Zenon DEF Waiting
<1>10. CASE AskReporter
  <2>1. Told' = Told /\ pc' = pc
    BY <1>10, Zenon DEF AskReporter, AskReporter_AtOnce, Told
  <2>2. ~Asks(messages[reporter]) /\ pc[reporter] \notin Leaving
    BY <1>10, Zenon DEF AskReporter, AskReporter_AtOnce, Phases, Leaving
  <2>3. Bounded(Append(messages[reporter], "DO_PAUSE"), pc[reporter] \in Leaving, n, c)
    BY <1>0, <1>00, <1>000, <2>2, BoundedAppend, Zenon DEF Waiting
  <2> QED  BY <1>00, <1>10, <2>1, <2>3, Zenon DEF AskReporter, AskReporter_AtOnce, Waiting
<1>11. CASE SetPaused
  BY <1>11, WaitingKept, Zenon DEF SetPaused
<1>12. CASE trace_prestart
  <2>1. Cardinality(Told') = 0
    <3>1. Told' = {}
      BY <1>0, <1>12, Zenon DEF trace_prestart, Unmarked, Told, Phases, Marks, Telling
    <3> QED  BY <3>1, Zenon DEF Sized
  <2>2. ASSUME NEW a \in Askers PROVE Bounded(messages[a], FALSE, n, 0)
    <3>1. pc[a] \in Leaving /\ ~Asks(messages[a])
      BY <1>12, Zenon DEF trace_prestart, Phases, Leaving
    <3>2. Len(messages[a]) <= c /\ Len(messages[a]) \in Nat
      BY <1>00, <3>1 DEF Waiting, Bounded
    <3> QED  BY <1>000, <3>1, <3>2 DEF Bounded, Asks
  <2>3. ASSUME NEW a \in Askers PROVE (pc'[a] \in Leaving) = FALSE /\ messages'[a] = messages[a]
    BY <1>12 DEF trace_prestart, Leaving
  <2> QED  BY <2>1, <2>2, <2>3, Zenon DEF Waiting
<1>13. CASE Tick
  BY <1>13, WaitingKept, Zenon DEF Tick
<1>14. CASE UNCHANGED vars
  BY <1>14, WaitingKept, Zenon DEF vars
<1> QED
  BY <1>1, <1>2, <1>3, <1>4, <1>5, <1>6, <1>7, <1>8, <1>9, <1>10, <1>11, <1>12, <1>13, <1>14, Zenon DEF Next

-----------------------------------------------------------------------------
(* The first packet is the earliest.                                         *)

LEMMA EarliestInit == ASSUME ThreadsFit, Sized, Init PROVE FirstIsEarliest
<1>1. Stored = {} /\ first_packets.count = 0
  BY Zenon DEF Init, NoPackets, Stored
<1> QED  BY <1>1, Zenon DEF FirstIsEarliest, Sized

\* What a thread that stores its packet makes of the first packets.
LEMMA StoreFirstDoes ==
  ASSUME ThreadsFit, Sized, Types, Marks, FirstIsEarliest, NEW t \in Threads, StoreFirst(t)
  PROVE  /\ t \notin Stored /\ Stored' = Stored \cup {t}
         /\ packet[t] \in Packets
         /\ first_packets'.count = first_packets.count + 1
         /\ first_packets'.packets[t] = packet[t]
         /\ \A u \in Threads \ {t} : first_packets'.packets[u] = first_packets.packets[u]
         /\ Earliest' = IF Stored = {} \/ Earlier(packet[t]) THEN packet[t] ELSE Earliest
<1>1. t \notin Stored /\ packet[t] \in Packets /\ packet[t] # NULL
  BY Zenon DEF StoreFirst, Marks, Storing, Telling, ThreadsFit
<1> DEFINE f == IF first_packets.count = 0 \/ Earlier(packet[t]) THEN t ELSE first_packets.first
           g == [first_packets.packets EXCEPT ![t] = packet[t]]
<1>2. first_packets' = [count |-> first_packets.count + 1, first |-> f, packets |-> g]
  BY Zenon DEF StoreFirst
<1>3. first_packets.packets \in [Threads -> Packets \cup {NULL}] /\ first_packets.first \in Threads
  BY Zenon DEF Types
<1>4. g[t] = packet[t] /\ \A u \in Threads \ {t} : g[u] = first_packets.packets[u]
  BY <1>3, Zenon
<1>5. first_packets.count = 0 <=> Stored = {}
  BY StoredCounted, Zenon DEF FirstIsEarliest
<1>6. Stored' = Stored \cup {t}
  BY <1>1, <1>2, <1>4, Zenon DEF Stored
<1>7. Stored # {} => first_packets.first # t
  BY <1>1, Zenon DEF FirstIsEarliest, Stored, Earliest
<1>8. g[f] = IF Stored = {} \/ Earlier(packet[t]) THEN packet[t] ELSE Earliest
  BY <1>3, <1>4, <1>5, <1>7, Zenon DEF Earliest
<1>9. Earliest' = g[f]
  BY <1>2, Zenon DEF Earliest
<1> HIDE DEF f, g
<1> QED  BY <1>1, <1>2, <1>4, <1>6, <1>8, <1>9, Zenon

\* Every other step leaves the first packets alone; a restart forgets them.
LEMMA OnlyStoreFirst ==
  ASSUME [Next]_vars
  PROVE  \/ first_packets' = first_packets
         \/ \E t \in Threads : StoreFirst(t)
         \/ trace_prestart
  BY Zenon DEF Next, Read, Tell, ReadNext, delay_tracetime, Drained, FirstPacketMessage,
         PauseMessage, AskPerpkts, AskReporter, AskReporter_AtOnce, SetPaused, Tick, vars

LEMMA Forgotten ==
  ASSUME ThreadsFit, Sized, Types, FirstIsEarliest, trace_prestart
  PROVE  Stored' = {} /\ first_packets'.count = 0
<1>1. first_packets'.count = first_packets.count - Cardinality(Stored)
  BY Zenon DEF trace_prestart, NoPackets
<1>2. \A t \in Threads : first_packets'.packets[t] = NULL
  BY Zenon DEF trace_prestart, NoPackets
<1>3. first_packets'.count = 0
  BY <1>1, StoredCounted DEF FirstIsEarliest
<1> QED  BY <1>2, <1>3, Zenon DEF Stored

LEMMA EarliestStep ==
  ASSUME ThreadsFit, Sized, Types, Marks, FirstIsEarliest, [Next]_vars
  PROVE  FirstIsEarliest'
<1>1. CASE first_packets' = first_packets
  BY <1>1, Zenon DEF FirstIsEarliest, Stored, Earliest
<1>2. ASSUME NEW t \in Threads, StoreFirst(t) PROVE FirstIsEarliest'
  <2>1. first_packets'.count = Cardinality(Stored')
    <3>1. Stored \in SUBSET Threads
      BY Zenon DEF Stored
    <3>2. t \in Threads \ Stored
      BY <1>2, StoreFirstDoes, Zenon
    <3>3. Cardinality(Stored \cup {t}) = Cardinality(Stored) + 1
      BY <3>1, <3>2, Zenon DEF Sized
    <3> QED  BY <1>2, <3>3, StoreFirstDoes, Zenon DEF FirstIsEarliest
  <2>2. \A u \in Stored : first_packets.packets[u] \in Packets /\ first_packets'.packets[u] = first_packets.packets[u]
    BY <1>2, StoreFirstDoes, Zenon DEF Stored, Types
  <2>3. \A p \in Packets : p.sec \in Nat /\ p # NULL
    BY Zenon DEF Packets, ThreadsFit
  <2>4. Stored # {} => Earliest \in Packets
    BY Zenon DEF FirstIsEarliest, Earliest, Types
  <2>5. Earliest' # NULL
    BY <1>2, <2>3, <2>4, StoreFirstDoes, Zenon
  <2>6. ASSUME NEW u \in Stored' PROVE Earliest'.sec <= first_packets'.packets[u].sec
    <3>1. CASE Stored = {}
      BY <1>2, <2>3, <2>6, <3>1, StoreFirstDoes
    <3>2. CASE Stored # {} /\ u = t
      BY <1>2, <2>3, <2>4, <3>2, StoreFirstDoes DEF Earlier
    <3>3. CASE Stored # {} /\ u \in Stored
      <4>1. Earliest.sec <= first_packets'.packets[u].sec
        BY <2>2, <3>3, Zenon DEF FirstIsEarliest
      <4>2. Earliest'.sec <= Earliest.sec
        BY <1>2, <2>3, <2>4, <3>3, StoreFirstDoes DEF Earlier
      <4>3. Earliest' \in Packets /\ Earliest \in Packets /\ first_packets'.packets[u] \in Packets
        BY <1>2, <2>2, <2>4, <3>3, StoreFirstDoes, Zenon
      <4> QED  BY <2>3, <4>1, <4>2, <4>3
    <3> QED  BY <1>2, <2>6, <3>1, <3>2, <3>3, StoreFirstDoes, Zenon
  <2> QED  BY <2>1, <2>5, <2>6, Zenon DEF FirstIsEarliest
<1>3. CASE trace_prestart
  BY <1>3, Forgotten, Zenon DEF FirstIsEarliest, Sized
<1> QED  BY <1>1, <1>2, <1>3, OnlyStoreFirst, Zenon

-----------------------------------------------------------------------------
(* Offsets, what threads were shown, and turns.                              *)

LEMMA OffsetsInit == ASSUME Init PROVE OffsetsTrue
  BY Zenon DEF Init, OffsetsTrue

\* Steps other than delay_tracetime and a restart leave the offsets alone.
LEMMA OnlyDelay ==
  ASSUME [Next]_vars
  PROVE  \/ offset' = offset
         \/ \E t \in Threads : delay_tracetime(t)
         \/ trace_prestart
  BY Zenon DEF Next, Read, StoreFirst, Tell, ReadNext, Drained, FirstPacketMessage, PauseMessage,
         AskPerpkts, AskReporter, AskReporter_AtOnce, SetPaused, Tick, vars

\* The fields of an offset.
LEMMA OffsetFields ==
  ASSUME NEW p
  PROVE  /\ Offset(p).from = p
         /\ Offset(p).all <=> AllStored
         /\ Offset(p).late <=> clock > p.tv + SECOND
<1> DEFINE all == AllStored
           late == clock > p.tv + SECOND
<1>1. all \in BOOLEAN /\ late \in BOOLEAN
  BY DEF AllStored
<1>2. Offset(p) = [from |-> p, all |-> all, late |-> late]
  BY Zenon DEF Offset
<1> HIDE DEF all, late
<1>3. Offset(p).from = p /\ Offset(p).all = all /\ Offset(p).late = late
  BY <1>1, <1>2
<1> QED  BY <1>3, Zenon DEF all, late

LEMMA OffsetsStep ==
  ASSUME ThreadsFit, Sized, Types, Marks, FirstIsEarliest, OffsetsTrue, [Next]_vars
  PROVE  OffsetsTrue'
<1>1. CASE trace_prestart
  BY <1>1, Zenon DEF trace_prestart, OffsetsTrue
<1>2. ASSUME NEW t \in Threads, delay_tracetime(t) PROVE OffsetsTrue'
  <2> DEFINE answer == trace_get_first_packet
  <2>1. UNCHANGED first_packets /\ offset \in [Threads -> Offsets \cup {NULL}]
    BY <1>2, Zenon DEF delay_tracetime, Types
  <2>2. AllStored' = AllStored /\ Earliest' = Earliest
    BY <2>1, Zenon DEF AllStored, Earliest
  <2>3. CASE ~(answer.ret = 1 /\ offset[t] = NULL)
    <3>1. offset' = offset
      BY <1>2, <2>3, Zenon DEF delay_tracetime
    <3> QED  BY <2>2, <3>1, Zenon DEF OffsetsTrue
  <2>4. CASE answer.ret = 1 /\ offset[t] = NULL
    <3>1. answer.packet = Earliest /\ (AllStored \/ Waited(Earliest.tv)) /\ Earliest \in Packets
      <4>1. first_packets.count # 0 /\ answer.packet = Earliest /\ (AllStored \/ Waited(Earliest.tv))
        BY <2>4 DEF trace_get_first_packet
      <4>2. Earliest \in Packets
        BY <4>1, StoredCounted, Zenon DEF FirstIsEarliest, Earliest, Types
      <4> QED  BY <4>1, <4>2, Zenon
    <3>2. offset'[t] = Offset(Earliest) /\ \A u \in Threads \ {t} : offset'[u] = offset[u]
      BY <1>2, <2>1, <2>4, <3>1, Zenon DEF delay_tracetime
    <3>3. /\ offset'[t].all <=> AllStored
          /\ offset'[t].from = Earliest
          /\ offset'[t].late <=> clock > Earliest.tv + SECOND
      BY <3>2, OffsetFields, Zenon
    <3>4. ~AllStored => clock > Earliest.tv + SECOND
      BY <3>1, WaitedIsLate, Zenon DEF Packets, Types, ThreadsFit
    <3> QED  BY <2>2, <3>2, <3>3, <3>4, Zenon DEF OffsetsTrue
  <2> QED  BY <2>3, <2>4, Zenon
<1>3. CASE offset' = offset /\ ~trace_prestart
  <2>1. CASE first_packets' = first_packets
    BY <1>3, <2>1, Zenon DEF OffsetsTrue, AllStored, Earliest
  <2>2. ASSUME NEW t \in Threads, StoreFirst(t) PROVE OffsetsTrue'
    <3>1. ~AllStored
      BY <2>2, StoreFirstDoes, StoredCounted, Zenon DEF AllStored, FirstIsEarliest
    <3> QED  BY <1>3, <3>1, Zenon DEF OffsetsTrue
  <2> QED  BY <1>3, <2>1, <2>2, OnlyStoreFirst, Zenon
<1> QED  BY <1>1, <1>2, <1>3, OnlyDelay, Zenon

LEMMA ShownInit == ASSUME Init PROVE Shown
  BY Zenon DEF Init, Shown, ShownKept, Leaving

\* Packets that were stored stay stored until a restart.
LEMMA StoredStay ==
  ASSUME ThreadsFit, Sized, Types, Marks, FirstIsEarliest, [Next]_vars, ~trace_prestart
  PROVE  \A p \in {first_packets.packets[t] : t \in Stored} : p \in {first_packets.packets[t] : t \in Stored}'
<1>1. CASE first_packets' = first_packets
  BY <1>1, Zenon DEF Stored
<1>2. ASSUME NEW t \in Threads, StoreFirst(t)
      PROVE  \A p \in {first_packets.packets[u] : u \in Stored} : p \in {first_packets.packets[u] : u \in Stored}'
  BY <1>2, StoreFirstDoes, Zenon DEF Stored
<1> QED  BY <1>1, <1>2, OnlyStoreFirst, Zenon

LEMMA ShownStep ==
  ASSUME ThreadsFit, Sized, Types, Phases, Marks, FirstIsEarliest, Shown, [Next]_vars
  PROVE  Shown'
<1> DEFINE Kept == {first_packets.packets[t] : t \in Stored}
<1>0. Threads \subseteq Askers /\ reporter \in Askers /\ reporter \notin Threads
  BY Zenon DEF Askers, ThreadsFit
<1>00. pc \in [Askers -> Labels] /\ shown \in [Askers -> SUBSET (Packets \cup {NULL})]
  BY Zenon DEF Types
<1>1. CASE trace_prestart
  <2>1. \A a \in Askers : shown'[a] = {}
    BY <1>1, Zenon DEF trace_prestart, Phases, Shown, Leaving
  <2> QED  BY <2>1, Zenon DEF Shown, ShownKept
<1>2. ASSUME NEW a \in Askers, FirstPacketMessage(a) PROVE Shown'
  <2>1. /\ first_packets' = first_packets /\ pc' = pc /\ pc[a] = "loop"
        /\ \A x \in Askers \ {a} : shown'[x] = shown[x]
        /\ shown'[a] = shown[a] \cup {trace_get_first_packet.packet}
    BY <1>00, <1>2, Zenon DEF FirstPacketMessage
  <2>2. trace_get_first_packet.packet \in Kept \cup {NULL}
    <3>1. first_packets.count # 0 => Earliest # NULL
      BY StoredCounted, Zenon DEF FirstIsEarliest
    <3>2. first_packets.count # 0 => Earliest \in Kept
      BY <3>1, Zenon DEF Earliest, Stored, Types
    <3> QED  BY <3>2, Zenon DEF trace_get_first_packet
  <2> QED  BY <2>1, <2>2, Zenon DEF Shown, ShownKept, Stored, Leaving
<1>3. ASSUME NEW a \in Askers, PauseMessage(a) PROVE Shown'
  <2>1. /\ first_packets' = first_packets /\ shown'[a] = {}
        /\ \A x \in Askers \ {a} : shown'[x] = shown[x] /\ pc'[x] = pc[x]
    BY <1>00, <1>3, Zenon DEF PauseMessage
  <2> QED  BY <2>1 DEF Shown, ShownKept, Stored
<1>4. CASE /\ ~trace_prestart /\ shown' = shown
           /\ \A a \in Askers : pc'[a] \in Leaving => pc[a] \in Leaving
  BY <1>4, StoredStay, Zenon DEF Shown, ShownKept
<1>5. ASSUME NEW t \in Threads,
             Read(t) \/ StoreFirst(t) \/ Tell(t) \/ ReadNext(t) \/ delay_tracetime(t) \/ Drained(t)
      PROVE  shown' = shown /\ \A a \in Askers : pc'[a] \in Leaving => pc[a] \in Leaving
  BY <1>0, <1>00, <1>5, Zenon DEF Read, Reading, StoreFirst, Tell, ReadNext, delay_tracetime, Drained, Leaving
<1>6. CASE AskPerpkts \/ AskReporter \/ SetPaused \/ Tick \/ UNCHANGED vars
  <2>1. shown' = shown /\ pc' = pc
    BY <1>6, Zenon DEF AskPerpkts, AskReporter, AskReporter_AtOnce, SetPaused, Tick, vars
  <2> QED  BY <1>1, <1>4, <2>1, Zenon
<1> QED  BY <1>1, <1>2, <1>3, <1>4, <1>5, <1>6, Zenon DEF Next

LEMMA TurnsInit == ASSUME ThreadsFit, Sized, Init PROVE Turns
<1>1. Stored = {} /\ began = NULL /\ lock = NULL /\ \A t \in Threads : pc[t] = "loop"
  BY Zenon DEF Init, NoPackets, Stored, Askers
<1> QED  BY <1>1, Zenon DEF Turns, Storing, Telling, ThreadsFit

LEMMA TurnsStep ==
  ASSUME ThreadsFit, Sized, Types, Phases, Marks, FirstIsEarliest, Turns, [Next]_vars
  PROVE  Turns'
<1>0. setup' = setup
  BY Zenon DEF Next, Read, StoreFirst, Tell, ReadNext, delay_tracetime, Drained, FirstPacketMessage, PauseMessage,
         AskPerpkts, AskReporter, AskReporter_AtOnce, SetPaused, trace_prestart, Tick, vars
<1> SUFFICES ASSUME setup.mode = "fifs" PROVE Turns'
  BY <1>0, Zenon DEF Turns
<1> DEFINE Busy == Storing \cup Telling
<1>00. /\ Threads \subseteq Askers /\ NULL \notin Threads
       /\ pc \in [Askers -> Labels] /\ packet \in [Threads -> Packets \cup {NULL}]
       /\ began \in Packets \cup {NULL} /\ newest \in Nat /\ lock \in Threads \cup {NULL}
       /\ \A p \in Packets : p.sec \in Nat /\ p # NULL
  BY Zenon DEF Askers, ThreadsFit, Types, Packets
<1>1. ASSUME NEW t \in Threads, Read(t) PROVE Turns'
  <2>1. PICK sec \in Stamps :
          /\ sec >= newest /\ newest' = sec
          /\ packet' = [packet EXCEPT ![t] = [sec |-> sec, tv |-> clock, by |-> t, start |-> starts]]
    BY <1>1, Zenon DEF Read
  <2>2. packet'[t].sec = sec /\ packet'[t] \in Packets /\ sec \in Nat
        /\ \A u \in Threads \ {t} : packet'[u] = packet[u]
    BY <1>00, <2>1, Zenon DEF Packets, Types, ThreadsFit
  <2>3. /\ lock = NULL /\ lock' = t /\ pc'[t] \in Busy
        /\ \A u \in Threads \ {t} : pc'[u] = pc[u]
        /\ began' = IF began = NULL THEN packet'[t] ELSE began
        /\ first_packets' = first_packets
    BY <1>00, <1>1, Zenon DEF Read, Reading, Lockable, Storing, Telling
  <2>4. Stored' = Stored /\ Earliest' = Earliest
    BY <2>3, Zenon DEF Stored, Earliest
  <2>5. \A u \in Threads \ {t} : pc[u] \notin Busy
    BY <1>00, <2>3, Zenon DEF Turns
  <2>6. began # NULL => Stored # {}
    BY <2>3, Zenon DEF Turns
  <2>7. CASE began = NULL
    BY <1>00, <2>1, <2>2, <2>3, <2>4, <2>5, <2>7 DEF Turns
  <2>8. CASE began # NULL
    <3>1. began.sec <= newest' /\ packet'[t].sec >= began.sec
      BY <1>00, <2>1, <2>2, <2>8 DEF Turns
    <3> QED  BY <1>00, <2>3, <2>4, <2>5, <2>6, <2>8, <3>1, Zenon DEF Turns
  <2> QED  BY <2>7, <2>8, Zenon
<1>2. ASSUME NEW t \in Threads, StoreFirst(t) PROVE Turns'
  <2>1. /\ pc[t] \in Storing /\ pc'[t] \in Telling /\ \A u \in Threads \ {t} : pc'[u] = pc[u]
        /\ UNCHANGED <<lock, packet, newest, began>>
    BY <1>00, <1>2, Zenon DEF StoreFirst, Storing, Telling
  <2>2. lock = t /\ began # NULL /\ packet[t].sec >= began.sec
    BY <1>00, <2>1, Zenon DEF Turns
  <2>3. Stored' # {} /\ Earliest' = began
    <3>1. CASE Stored = {}
      BY <1>2, <2>2, <3>1, StoreFirstDoes, Zenon DEF Turns
    <3>2. CASE Stored # {}
      <4>1. Earliest = began /\ packet[t] \in Packets
        BY <1>2, <2>2, <3>2, StoreFirstDoes, Zenon DEF Turns
      <4>2. ~Earlier(packet[t])
        BY <1>00, <2>2, <4>1 DEF Earlier
      <4> QED  BY <1>2, <3>2, <4>1, <4>2, StoreFirstDoes, Zenon
    <3> QED  BY <3>1, <3>2, Zenon
  <2> QED  BY <1>00, <2>1, <2>2, <2>3, Zenon DEF Turns
<1>3. ASSUME NEW t \in Threads, Tell(t) PROVE Turns'
  <2>1. /\ pc[t] \in Telling /\ pc'[t] \notin Busy /\ \A u \in Threads \ {t} : pc'[u] = pc[u] /\ packet'[u] = packet[u]
        /\ lock' = IF lock = t THEN NULL ELSE lock
        /\ UNCHANGED <<first_packets, newest, began>>
    BY <1>00, <1>3, Zenon DEF Tell, Storing, Telling
  <2>2. lock = t /\ \A u \in Threads \ {t} : pc[u] \notin Busy
    BY <1>00, <2>1, Zenon DEF Turns
  <2>3. t \in Stored /\ Stored' = Stored /\ Earliest' = Earliest
    BY <2>1, Zenon DEF Marks, Stored, Earliest
  <2> QED  BY <1>00, <2>1, <2>2, <2>3, Zenon DEF Turns
<1>4. CASE trace_prestart
  <2>1. \A t \in Threads : pc[t] = "paused" /\ pc'[t] = "loop"
    BY <1>00, <1>4, Zenon DEF trace_prestart, Phases
  <2>2. lock' = NULL /\ began' = NULL /\ Stored' = {}
    <3>1. lock = NULL
      BY <1>00, <2>1, Zenon DEF Turns, Storing, Telling
    <3> QED  BY <1>4, <3>1, Forgotten, Zenon DEF trace_prestart
  <2> QED  BY <1>00, <2>1, <2>2, Zenon DEF Turns, Storing, Telling
<1>5. CASE /\ UNCHANGED <<first_packets, lock, packet, newest, began>>
           /\ \A t \in Threads : pc'[t] \in Busy <=> pc[t] \in Busy
  <2>1. Stored' = Stored /\ Earliest' = Earliest
    BY <1>5, Zenon DEF Stored, Earliest
  <2> QED  BY <1>5, <2>1, Zenon DEF Turns
<1>6. ASSUME NEW t \in Threads, ReadNext(t) \/ delay_tracetime(t) \/ Drained(t) PROVE Turns'
  BY <1>00, <1>5, <1>6, Zenon DEF ReadNext, delay_tracetime, Drained, Storing, Telling
<1>7. ASSUME NEW a \in Askers, FirstPacketMessage(a) \/ PauseMessage(a) PROVE Turns'
  BY <1>00, <1>5, <1>7, Zenon DEF FirstPacketMessage, PauseMessage, Storing, Telling
<1>8. CASE AskPerpkts \/ AskReporter \/ SetPaused \/ Tick \/ UNCHANGED vars
  BY <1>5, <1>8, Zenon DEF AskPerpkts, AskReporter, AskReporter_AtOnce, SetPaused, Tick, vars
<1> QED  BY <1>1, <1>2, <1>3, <1>4, <1>6, <1>7, <1>8, SMTT(30) DEF Next

-----------------------------------------------------------------------------
(* The theorem                                                               *)

\* The inductive invariant says what is promised.
LEMMA InvImplies == ASSUME ThreadsFit, Sized, Inv PROVE FirstPacketsKept
<1> USE DEF Inv
<1>1. TypeOK
  <2>1. \A a \in Askers : Len(messages[a]) <= 2 * Cardinality(Threads) + 1
    <3> TAKE a \in Askers
    <3>1. Len(messages[a]) <= Cardinality(Threads) + Cardinality(Told) + 1 /\ Len(messages[a]) \in Nat
      <4>1. Cardinality(Threads) \in Nat /\ Cardinality(Told) \in Nat /\ messages[a] \in Seq(Kinds)
        BY ToldCounted, StoredCounted DEF Types
      <4> QED  BY <4>1 DEF Waiting, Bounded
    <3> QED  BY <3>1, ToldCounted, StoredCounted
  <2> QED  BY <2>1, StoredCounted, Zenon DEF TypeOK, Types, FirstIsEarliest
<1>2. AssertsHold
  <2>1. state = "paused" => \A t \in Threads : recorded_first[t] = (t \in Stored)
    <3> SUFFICES ASSUME state = "paused", NEW t \in Threads PROVE recorded_first[t] = (t \in Stored)
      BY Zenon
    <3>1. pc[t] = "paused" /\ recorded_first[t] \in BOOLEAN
      BY Zenon DEF Phases, Types, Askers
    <3>2. t \in Stored <=> recorded_first[t]
      BY <3>1, Zenon DEF Marks, Telling
    <3>3. CASE recorded_first[t]
      BY <3>1, <3>2, <3>3, Zenon
    <3>4. CASE ~recorded_first[t]
      BY <3>1, <3>2, <3>4
    <3> QED  BY <3>3, <3>4, Zenon
  <2>2. \A t \in Threads : pc[t] = "delay" => Stored # {}
    BY Zenon DEF Marks
  <2> QED  BY <2>1, <2>2, Zenon DEF AssertsHold
<1>3. FirstReadIsFirst
  BY Zenon DEF Turns, FirstReadIsFirst
<1> QED  BY <1>1, <1>2, <1>3, Zenon DEF FirstPacketsKept, Shown

-----------------------------------------------------------------------------
(* The theorem.                                                              *)
Sets == INSTANCE FiniteSetTheorems

\* Sets!IsFiniteSet and Sets!Cardinality are those of module FiniteSets.
LEMMA SameSets ==
  /\ \A S : Sets!IsFiniteSet(S) <=> IsFiniteSet(S)
  /\ \A S : Sets!Cardinality(S) = Cardinality(S)
BY Zenon DEF IsFiniteSet, Cardinality, Sets!IsFiniteSet, Sets!Cardinality

LEMMA ThreadsAreSized == ASSUME ThreadsFit PROVE Sized
<1>1. IsFiniteSet(Threads)
  BY Zenon DEF ThreadsFit
<1>2. Cardinality({}) = 0 /\ Cardinality(Threads) \in Nat
  BY <1>1, SameSets, Sets!FS_EmptySet, Sets!FS_CardinalityType, Zenon
<1>3. ASSUME NEW S \in SUBSET Threads
      PROVE  /\ IsFiniteSet(S) /\ Cardinality(S) \in 0 .. Cardinality(Threads)
             /\ S = {} <=> Cardinality(S) = 0
             /\ Cardinality(S) = Cardinality(Threads) => S = Threads
             /\ \A t \in Threads \ S : Cardinality(S \cup {t}) = Cardinality(S) + 1
  <2>1. IsFiniteSet(S) /\ Cardinality(S) \in Nat /\ Cardinality(S) <= Cardinality(Threads)
    BY <1>1, SameSets, Sets!FS_Subset, Sets!FS_CardinalityType, Zenon
  <2>2. Cardinality(S) = Cardinality(Threads) => S = Threads
    BY <1>1, SameSets, Sets!FS_Subset, Zenon
  <2>3. S = {} <=> Cardinality(S) = 0
    BY <2>1, SameSets, Sets!FS_EmptySet, Zenon
  <2>4. \A t \in Threads \ S : Cardinality(S \cup {t}) = Cardinality(S) + 1
    BY <2>1, SameSets, Sets!FS_AddElement, Zenon
  <2> QED  BY <1>2, <2>1, <2>2, <2>3, <2>4
<1> QED  BY <1>2, <1>3, Zenon DEF Sized

\* However many per-packet threads there are, and however their reads, messages, pauses and
\* restarts interleave: the first packet that trace_get_first_packet gives is the earliest one
\* stored and, where threads take turns, the first one read; the asserts of trace_prestart and
\* delay_tracetime hold; every offset that is kept is right or a second late; no thread holds
\* a packet that trace_prestart has destroyed; and the message queues stay bounded.
THEOREM FirstPacketsAgreed == ASSUME ThreadsFit PROVE Spec => []FirstPacketsKept
<1>0. Sized
  BY ThreadsAreSized, Zenon
<1>1. Init => Inv
  BY <1>0, TypesInit, PhasesInit, MarksInit, WaitingInit, EarliestInit, OffsetsInit, ShownInit, TurnsInit DEF Inv
<1>2. Inv /\ [Next]_vars => Inv'
  BY <1>0, TypesStep, PhasesStep, MarksStep, WaitingStep, EarliestStep, OffsetsStep, ShownStep, TurnsStep DEF Inv
<1>3. Inv => FirstPacketsKept
  BY <1>0, InvImplies, Zenon
<1> QED  BY <1>1, <1>2, <1>3, PTL DEF Spec
=============================================================================
