----------------------------- MODULE Combiners -----------------------------
(***************************************************************************)
(* lib/combiner_ordered.c, combiner_sorted.c and combiner_unordered.c: how *)
(* the results that per-packet threads publish reach the reporter.  Every  *)
(* thread has a queue.  The reporter reads the queues while threads        *)
(* publish, and once more (read_final) when all of them have ended.        *)
(* A queue's calls are atomic (LinkedLists, Vector); the reporter's steps  *)
(* between them are not.                                                   *)
(***************************************************************************)
EXTENDS Integers, Sequences, SequencesExt, FiniteSets, FiniteSetsExt

CONSTANTS
  N,             \* trace_get_perpkt_threads
  Setups,        \* records: combiner, parallel (trace_is_parallel), the kinds of
                 \* result and the keys a thread publishes, how many at most, and
                 \* whether it publishes that many (exact)
  ElementSize    \* sizeof(libtrace_result_t)

Threads == 0 .. N - 1
UINT64_MAX == 1000    \* above every key that is published

VARIABLES
  setup,
  queues,            \* c->queues, first result first
  published,         \* every result of each thread, in order
  ended,             \* the threads that will publish no more
  last_ts_tick, last_count_tick,
  out,               \* the results the reporter's callback has been given
  pc, reader         \* the reporter, and the local variables of read_internal

vars == <<setup, queues, published, ended, last_ts_tick, last_count_tick, out, pc, reader>>

Result(type, key) == [type |-> type, key |-> key]
Less(a, b) == a.key < b.key
LOCAL INSTANCE VectorOps WITH StartSize <- 4, Garbage <- Result("data", 0)

NoRead == [final |-> FALSE, i |-> 0, allactive |-> TRUE, live |-> {},
           key |-> [t \in Threads |-> 0], min_key |-> UINT64_MAX, min_queue |-> -1]

Init ==
  /\ setup \in Setups
  /\ queues = [t \in Threads |-> <<>>] /\ published = queues
  /\ ended = {} /\ out = <<>>
  /\ last_ts_tick = 0 /\ last_count_tick = 0
  /\ pc = "rest" /\ reader = NoRead

-----------------------------------------------------------------------------
(* A thread publishes results; an ordered combiner wants its keys strictly *)
(* ascending, and the ticks of every thread are in order.                  *)

KeysOf(t, type) == {published[t][i].key : i \in {j \in DOMAIN published[t] : published[t][j].type = type}}

publish(t) ==
  /\ t \notin ended /\ Len(published[t]) < setup.each
  /\ \E type \in setup.types, key \in setup.keys :
       /\ (type # "data" \/ setup.combiner = "ordered") => \A k \in KeysOf(t, type) : k < key
       \* Threads that read from one hasher see its count ticks in packet order.
       /\ type = "count" => \A k \in KeysOf(t, "data") : k <= key
       /\ type = "data" => \A k \in KeysOf(t, "count") : k <= key
       /\ queues' = [queues EXCEPT ![t] = Append(@, Result(type, key))]
       /\ published' = [published EXCEPT ![t] = Append(@, Result(type, key))]
  /\ UNCHANGED <<setup, ended, last_ts_tick, last_count_tick, out, pc, reader>>

End(t) ==
  /\ t \notin ended /\ ended' = ended \cup {t}
  /\ setup.exact => Len(published[t]) = setup.each
  /\ UNCHANGED <<setup, queues, published, last_ts_tick, last_count_tick, out, pc, reader>>

-----------------------------------------------------------------------------
(* combiner_ordered.  What a look at the head of a queue does: show is     *)
(* peek_queue's return value; a tick may be passed on or dropped at once.  *)

State(q) == [q |-> q, ts |-> last_ts_tick, count |-> last_count_tick, sent |-> <<>>, show |-> FALSE]

\* Mutant: ticks are not compared with the last one.
peek_queue_EveryTick(s) ==
  LET r == Head(s.q) IN
  IF r.type = "data" THEN [s EXCEPT !.show = TRUE]
  ELSE [s EXCEPT !.q = Tail(@), !.sent = Append(@, r), !.show = FALSE]
\* Mutant: a tick that was seen before stays in its queue.
peek_queue_Stays(s) ==
  LET r == Head(s.q)
      pass == [s EXCEPT !.q = Tail(@), !.sent = Append(@, r), !.show = FALSE]
  IN CASE r.type = "ts"    -> IF r.key > s.ts THEN [pass EXCEPT !.ts = r.key] ELSE s
       [] r.type = "count" -> IF r.key > s.count THEN [pass EXCEPT !.count = r.key] ELSE s
       [] OTHER            -> [s EXCEPT !.show = TRUE]
peek_queue(s) ==
  LET r == Head(s.q)
      pass == [s EXCEPT !.q = Tail(@), !.sent = Append(@, r), !.show = FALSE]
      drop == [s EXCEPT !.q = Tail(@), !.show = FALSE]
  IN CASE r.type = "ts"    -> IF r.key > s.ts THEN [pass EXCEPT !.ts = r.key] ELSE drop
       [] r.type = "count" -> IF r.key <= s.count THEN drop
                              ELSE IF setup.parallel THEN [pass EXCEPT !.count = r.key]
                              ELSE [s EXCEPT !.count = r.key, !.show = TRUE]
       [] OTHER            -> [s EXCEPT !.show = TRUE]

\* next_message looks until something is shown or the queue is empty.
next_message(s) ==
  LET look[k \in 0 .. Len(s.q)] ==
        IF k = 0 THEN s
        ELSE IF look[k - 1].show \/ look[k - 1].q = <<>> THEN look[k - 1]
        ELSE peek_queue(look[k - 1])
  IN look[Len(s.q)]

Looked(t, s) ==
  /\ queues' = [queues EXCEPT ![t] = s.q]
  /\ last_ts_tick' = s.ts /\ last_count_tick' = s.count

\* read, or one round of read_final
StartRead ==
  /\ setup.combiner = "ordered" /\ pc = "rest"
  /\ pc' = "scan"
  /\ reader' = [NoRead EXCEPT !.final = ended = Threads]
  /\ UNCHANGED <<setup, queues, published, ended, last_ts_tick, last_count_tick, out>>

\* The first loop of read_internal: one queue.
Scan ==
  LET t == reader.i
      s == IF queues[t] = <<>> THEN State(<<>>) ELSE peek_queue(State(queues[t]))
      k == IF s.show THEN Head(s.q).key ELSE 0
      better == s.show /\ (t = 0 \/ reader.min_key > k)
  IN /\ pc = "scan" /\ t < N
     /\ Looked(t, s)
     /\ out' = out \o s.sent
     /\ reader' = [reader EXCEPT !.i = t + 1,
                                 !.allactive = @ /\ s.show,
                                 !.live = IF s.show THEN @ \cup {t} ELSE @,
                                 !.key[t] = k,
                                 !.min_key = IF better THEN k ELSE @,
                                 !.min_queue = IF better THEN t ELSE @]
     /\ UNCHANGED <<setup, published, ended, pc>>

\* "Check all find the smallest again": the last of the live queues that have
\* the least key, no greater than the one to begin with.
Smallest(live, key, from) ==
  LET least == Min({key[t] : t \in live} \cup {from.min_key})
      best == {t \in live : key[t] = least}
  IN [min_key |-> least, min_queue |-> IF best = {} THEN from.min_queue ELSE Max(best)]

\* Mutant: the queue just read is taken to be the smallest still.
Following_Same(t, s) ==
  LET k == IF s.show THEN Head(s.q).key ELSE 0
      live == IF k # 0 THEN reader.live ELSE reader.live \ {t}
  IN [reader EXCEPT !.key[t] = k, !.live = live, !.allactive = @ /\ k # 0,
                    !.min_key = k,
                    !.min_queue = IF k # 0 THEN t ELSE IF live = {} THEN -1 ELSE Max(live)]
\* The reader after it has taken a result from t and looked at the next, s.  A
\* key of 0 is how next_message says that the queue is empty.
Following(t, s) ==
  LET k == IF s.show THEN Head(s.q).key ELSE 0
      keys == [reader.key EXCEPT ![t] = k]
      least == IF k # 0
               THEN IF k <= reader.min_key THEN [min_key |-> k, min_queue |-> t]
                    ELSE Smallest(reader.live, keys, [min_key |-> k, min_queue |-> t])
               ELSE Smallest(reader.live \ {t}, keys, [min_key |-> UINT64_MAX, min_queue |-> -1])
  IN [reader EXCEPT !.key = keys,
                    !.live = IF k # 0 THEN @ ELSE @ \ {t},
                    !.allactive = @ /\ k # 0,
                    !.min_key = least.min_key,
                    !.min_queue = least.min_queue]

\* Mutant: the last read goes on while a queue may have something.
Going_Final == reader.allactive \/ reader.final
Going == reader.allactive \/ (reader.live # {} /\ reader.final)

\* The second loop of read_internal: the smallest is passed on.
Take ==
  LET t == reader.min_queue
      r == Head(queues[t])
      s == next_message(State(Tail(queues[t])))
  IN /\ pc = "scan" /\ reader.i = N /\ Going
     /\ Looked(t, s)
     /\ out' = Append(out, r) \o s.sent
     /\ reader' = Following(t, s)
     /\ UNCHANGED <<setup, published, ended, pc>>

\* Mutant: read_final reads once.
Emptied_Once == TRUE
Emptied == \A t \in Threads : queues[t] = <<>>

\* read_final repeats until every queue is empty.
Finish ==
  /\ pc = "scan" /\ reader.i = N /\ ~Going
  /\ pc' = IF reader.final /\ Emptied THEN "done" ELSE "rest"
  /\ reader' = NoRead
  /\ UNCHANGED <<setup, queues, published, ended, last_ts_tick, last_count_tick, out>>

-----------------------------------------------------------------------------
(* combiner_sorted and combiner_unordered                                  *)

\* combiner_sorted, read_final: all vectors are appended to the first, which is
\* sorted and passed on without its ticks.
SortedReadFinal ==
  /\ setup.combiner = "sorted" /\ pc = "rest" /\ ended = Threads
  /\ \E first \in {Pushed(queues[0])} :
     \E all \in {libtrace_vector_append(first, Pushed(FlattenSeq([t \in 1 .. N - 1 |-> queues[t]])))[1]} :
     \E sorted \in {libtrace_vector_qsort(all)} :
       out' = SelectSeq(Items(sorted), LAMBDA r : r.type = "data")
  /\ queues' = [t \in Threads |-> <<>>]
  /\ pc' = "done"
  /\ UNCHANGED <<setup, published, ended, last_ts_tick, last_count_tick, reader>>

\* Mutant: one last tick for both kinds.
Old_Shared(r) == r.type # "data" /\ r.key <= Max({last_ts_tick, last_count_tick})
Old(r) == \/ r.type = "ts" /\ r.key <= last_ts_tick
          \/ r.type = "count" /\ r.key <= last_count_tick

\* combiner_unordered, read: one result of one queue.  A tick that is not newer
\* than the last is dropped.
UnorderedRead ==
  \E t \in Threads :
    LET r == Head(queues[t])
        old == Old(r)
    IN /\ setup.combiner = "unordered" /\ pc = "rest" /\ queues[t] # <<>>
       /\ queues' = [queues EXCEPT ![t] = Tail(@)]
       /\ out' = IF old THEN out ELSE Append(out, r)
       /\ last_ts_tick' = IF r.type = "ts" /\ ~old THEN r.key ELSE last_ts_tick
       /\ last_count_tick' = IF r.type = "count" /\ ~old THEN r.key ELSE last_count_tick
       /\ UNCHANGED <<setup, published, ended, pc, reader>>

UnorderedFinish ==
  /\ setup.combiner = "unordered" /\ pc = "rest"
  /\ ended = Threads /\ Emptied
  /\ pc' = "done"
  /\ UNCHANGED <<setup, queues, published, ended, last_ts_tick, last_count_tick, out, reader>>

Reporter == StartRead \/ Scan \/ Take \/ Finish \/ SortedReadFinal \/ UnorderedRead \/ UnorderedFinish
Next == \/ \E t \in Threads : publish(t) \/ End(t)
        \/ Reporter
        \/ pc = "done" /\ UNCHANGED vars

Spec == Init /\ [][Next]_vars

-----------------------------------------------------------------------------
TypeOK ==
  /\ pc \in {"rest", "scan", "done"}
  /\ last_ts_tick \in Nat /\ last_count_tick \in Nat
  /\ reader.i \in 0 .. N /\ reader.live \subseteq Threads

Data(s) == SelectSeq(s, LAMBDA r : r.type = "data")
Ascending(s) == \A i, j \in DOMAIN s : i < j => s[i].key <= s[j].key

\* "Takes ordered input and produces ordered output" (libtrace_parallel.h):
\* results leave in the order of their keys, though threads publish while the
\* reporter reads.
OrderedOutput == setup.combiner = "ordered" => Ascending(Data(out))

\* So it is as long as no thread publishes a tick, and "the results are sorted
\* in ascending order" by the sorted combiner if there are as many as
\* libtrace_vector_qsort sorts.
InKeyOrder ==
  \/ setup.combiner = "ordered" /\ setup.types = {"data"}
  \/ setup.combiner = "sorted" /\ setup.exact /\ setup.each * N = ElementSize
  => Ascending(Data(out))

\* A queue is popped only while it has a result (the asserts on
\* libtrace_deque_pop_front).
PopsSomething ==
  pc = "scan" /\ reader.i = N /\ Going => /\ reader.min_queue \in Threads
                                          /\ queues[reader.min_queue] # <<>>

\* When the reporter is done, every result that was published has been given to
\* it, once, and nothing is left in a queue (the asserts of destroy).
AllDelivered ==
  pc = "done" => /\ \A t \in Threads : queues[t] = <<>>
                 /\ \A r \in UNION {Range(published[t]) : t \in Threads} : r.type = "data" =>
                      Len(SelectSeq(out, LAMBDA x : x = r))
                        = FoldSet(LAMBDA t, n : n + Len(SelectSeq(published[t], LAMBDA x : x = r)), 0, Threads)

\* "every thread will produce an equivalent tick and we should really combine
\* those into a single tick" (combiner_ordered.c): no tick reaches the reporter
\* twice, and ticks reach it in order.
TicksOnce ==
  \A i, j \in DOMAIN out : i < j /\ out[i].type # "data" /\ out[i].type = out[j].type => out[i].key < out[j].key

\* The other half of that comment: a tick that every thread produced does reach
\* the reporter.
TicksArrive ==
  pc = "done" /\ setup.combiner # "sorted" =>
    \A r \in UNION {Range(published[t]) : t \in Threads} :
      r.type # "data" /\ (\A t \in Threads : r \in Range(published[t])) => r \in Range(out)

\* Once all threads have ended, read_final comes to an end, ticks and equal keys
\* or not.
ReadEnds == ended = Threads ~> pc = "done"
=============================================================================
