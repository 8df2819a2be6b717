----------------------------- MODULE RingBuffer -----------------------------
(***************************************************************************)
(* The ring buffer of lib/data-struct/ring_buffer.c: the queue between the *)
(* hasher and each per-packet thread, and the shared part of the packet    *)
(* object cache.                                                           *)
(*                                                                         *)
(* All reading and writing calls of the file are the two bulk calls with   *)
(* particular arguments: write(v) is write_bulk with nb = min = 1,         *)
(* try_write(v) is write_bulk with nb = 1 and min = 0, and the s- variants *)
(* put wlock (rlock) around them after an unlocked early check.  A call is *)
(* therefore a record of nb, min and, for a writer, the values.            *)
(*                                                                         *)
(* One step is one access to what the threads share: an index, a slot, a   *)
(* lock or a condition variable.  Writers and readers are mirror images,   *)
(* so the steps that only wait, lock and notify are written once, for any  *)
(* thread t, in terms of the index t owns and the index it watches.        *)
(***************************************************************************)
EXTENDS Integers, Sequences

CONSTANTS
  Writers,      \* threads that write
  Readers,      \* threads that read
  Capacity,     \* the size asked of libtrace_ringbuffer_init
  Values,       \* what can be stored
  NULL,         \* the content of a slot that was never written
  NoThread,     \* the owner of a free lock
  Modes,        \* the modes the ring may be initialised with
  SafeW, SafeR, \* TRUE: the thread-safe (s-) variants of the calls are used
  MaxBulk,      \* the largest nb_buffers of a call
  DoubleLoad,   \* TRUE: nb_full and nb_empty load the other side's volatile
                \* index twice, as ring_buffer.c:125-128 and 133-136 do;
                \* FALSE: once, as the forms commented out at 129 and 137 do
  Word          \* size_t arithmetic is modulo Word

Threads == Writers \cup Readers

BLOCKING == "blocking"
POLLING  == "polling"

ASSUME RingAssumption ==
  /\ Writers \cap Readers = {}
  /\ NoThread \notin Threads
  /\ NULL \notin Values
  /\ Modes \subseteq {BLOCKING, POLLING}
  /\ SafeW \in BOOLEAN /\ SafeR \in BOOLEAN /\ DoubleLoad \in BOOLEAN
  /\ Capacity \in Nat \ {0}
  /\ MaxBulk \in Nat \ {0}
  /\ Word \in Nat /\ Word > 2 * (Capacity + MaxBulk + 1)
  \* "This assumes only one thread writing at once" (ring_buffer.c:212)
  /\ ~SafeW => \A v, w \in Writers : v = w
  /\ ~SafeR => \A q, r \in Readers : q = r

\* libtrace_ringbuffer_init allocates one slot more than was asked for.
Size == Capacity + 1
Slots == 0 .. Capacity

VARIABLES
  mode,      \* rb->mode
  start,     \* rb->start, the oldest item
  end,       \* rb->end, the first free slot
  elements,  \* rb->elements
  lock,      \* the owners of wlock, rlock, empty_lock and full_lock
  pc,        \* where each thread is in its call
  op,        \* the arguments of each thread's call
  i,         \* the items a call has moved so far
  nb_ready,  \* where the current copying loop stops
  pos,       \* the register copy of the thread's own index while copying
  low,       \* the outcome of the comparison in nb_full / nb_empty
  vals,      \* what a reader has copied out in its current call
  torn       \* history: a count of three or more items was torn (see Count)

vars == <<mode, start, end, elements, lock, pc, op, i, nb_ready, pos, low, vals, torn>>

PCs == {"idle", "lock", "check", "wait", "test", "tosleep", "sleep",
        "compare", "count", "copy", "notify", "unlock"}

Locks == {"w", "r", "empty", "full"}

\* A thread that is not in a call; a reader passes no values.
NoOp == [nb |-> 1, min |-> 0, values |-> <<>>]

-----------------------------------------------------------------------------
(* What a writer and a reader see as mirror images.                        *)

Dir(t)      == IF t \in Writers THEN "w" ELSE "r"
Safe(t)     == IF t \in Writers THEN SafeW ELSE SafeR
\* The condition t waits for, and the one it notifies.
Awaited(t)  == IF t \in Writers THEN "empty" ELSE "full"
Notified(t) == IF t \in Writers THEN "full" ELSE "empty"
Partners(t) == IF t \in Writers THEN Readers ELSE Writers
OwnIndex(t) == IF t \in Writers THEN end ELSE start

Succ(k) == (k + 1) % Size

is_empty == start = end
is_full  == start = Succ(end)

\* What keeps t waiting: wait_for_empty tests is_full, wait_for_full is_empty.
Blocked(t) == IF t \in Writers THEN is_full ELSE is_empty

\* size_t subtraction wraps below zero.
Wrap(x) == IF x < 0 THEN x + Word ELSE x

\* The comparison that selects a branch of nb_empty or nb_full.
Compares(t) == IF t \in Writers THEN start <= end ELSE end < start

\* Mutant: nb_empty forgets that one slot stays unused.
Available_AllSlots(t, branch) ==
  IF t \in Writers
  THEN IF branch THEN Wrap(start + Size - end) ELSE Wrap(start - end)
  ELSE IF branch THEN Wrap(end + Size - start) ELSE Wrap(end - start)

\* The value of the selected branch of nb_empty (a writer) or nb_full.
Available(t, branch) ==
  IF t \in Writers
  THEN IF branch THEN Wrap(start + Size - end - 1) ELSE Wrap(start - end - 1)
  ELSE IF branch THEN Wrap(end + Size - start) ELSE Wrap(end - start)

Lesser(a, b) == IF a < b THEN a ELSE b

-----------------------------------------------------------------------------
Init ==
  /\ mode \in Modes
  /\ start = 0
  /\ end = 0
  /\ elements = [k \in Slots |-> NULL]
  /\ lock = [l \in Locks |-> NoThread]
  /\ pc = [t \in Threads |-> "idle"]
  /\ op = [t \in Threads |-> NoOp]
  /\ i = [t \in Threads |-> 0]
  /\ nb_ready = [t \in Threads |-> 0]
  /\ pos = [t \in Threads |-> 0]
  /\ low = [t \in Threads |-> FALSE]
  /\ vals = [t \in Threads |-> <<>>]
  /\ torn = FALSE

ring == <<mode, start, end, elements, torn>>
locals == <<op, i, nb_ready, pos, low, vals>>

Goto(t, label) == pc' = [pc EXCEPT ![t] = label]
Acquire(l, t) == lock[l] = NoThread /\ lock' = [lock EXCEPT ![l] = t]
Release(l) == lock' = [lock EXCEPT ![l] = NoThread]

\* A call begins.  The s- variants look before they lock and give up early.
Call(t) ==
  /\ pc[t] = "idle"
  /\ \E nb \in 1 .. MaxBulk : \E min \in 0 .. nb :
       \E values \in IF t \in Writers THEN [1 .. nb -> Values] ELSE {<<>>} :
         /\ ~(Safe(t) /\ min = 0 /\ Blocked(t))
         /\ op' = [op EXCEPT ![t] = [nb |-> nb, min |-> min, values |-> values]]
  /\ Goto(t, IF Safe(t) THEN "lock" ELSE "check")
  /\ UNCHANGED <<ring, lock, i, nb_ready, pos, low, vals>>

\* Mutant: the s- variants do not lock.
Lock_Skipped(t) ==
  /\ pc[t] = "lock"
  /\ Goto(t, "check")
  /\ UNCHANGED <<ring, lock, locals>>

\* LOCK(w), LOCK(r); TRY_LOCK is pthread_mutex_lock too.
Lock(t) ==
  /\ pc[t] = "lock"
  /\ Acquire(Dir(t), t)
  /\ Goto(t, "check")
  /\ UNCHANGED <<ring, locals>>

\* The check on entry: a call with min = 0 does not wait.
Check(t) ==
  /\ pc[t] = "check"
  /\ Goto(t, IF op[t].min = 0 /\ Blocked(t) THEN "unlock" ELSE "wait")
  /\ UNCHANGED <<ring, lock, locals>>

\* wait_for_empty and wait_for_full, polling: sched_yield until not blocked.
Spin(t) ==
  /\ pc[t] = "wait" /\ mode = POLLING
  /\ ~Blocked(t)
  /\ Goto(t, "compare")
  /\ UNCHANGED <<ring, lock, locals>>

\* The same, blocking: take empty_lock (full_lock), also when woken.
EnterWait(t) ==
  /\ pc[t] = "wait" /\ mode = BLOCKING
  /\ Acquire(Awaited(t), t)
  /\ Goto(t, "test")
  /\ UNCHANGED <<ring, locals>>

\* The loop condition, tested with the lock held.
Test(t) ==
  /\ pc[t] = "test"
  /\ IF Blocked(t)
     THEN Goto(t, "tosleep") /\ UNCHANGED lock
     ELSE Goto(t, "compare") /\ Release(Awaited(t))
  /\ UNCHANGED <<ring, locals>>

\* pthread_cond_wait releases the lock and starts to wait in one step.
Sleep(t) ==
  /\ pc[t] = "tosleep"
  /\ Release(Awaited(t))
  /\ Goto(t, "sleep")
  /\ UNCHANGED <<ring, locals>>

\* pthread_cond_wait may return without a broadcast.
SpuriousWakeup(t) ==
  /\ pc[t] = "sleep"
  /\ Goto(t, "wait")
  /\ UNCHANGED <<ring, lock, locals>>

\* nb_empty, nb_full: the comparison is the first load of the other index.
Compare(t) ==
  /\ pc[t] = "compare"
  /\ low' = [low EXCEPT ![t] = Compares(t)]
  /\ Goto(t, "count")
  /\ UNCHANGED <<ring, lock, op, i, nb_ready, pos, vals>>

\* The chosen branch loads it again; then MIN with what is left of the call.
\* When the other index wrapped between the loads the branch is the wrong one
\* and its difference wraps too, so that MIN yields all that is left of the
\* call.  A wrapped index leaves at least two slots: for three or more items
\* the count is torn.
Count(t) ==
  /\ pc[t] = "count"
  /\ LET branch == IF DoubleLoad THEN low[t] ELSE Compares(t)
     IN nb_ready' = [nb_ready EXCEPT
          ![t] = i[t] + Lesser(Available(t, branch), op[t].nb - i[t])]
  /\ pos' = [pos EXCEPT ![t] = OwnIndex(t)]
  /\ low' = [low EXCEPT ![t] = FALSE]
  /\ torn' = (torn \/ (DoubleLoad /\ low[t] # Compares(t) /\ op[t].nb - i[t] > 2))
  /\ Goto(t, "copy")
  /\ UNCHANGED <<mode, start, end, elements, lock, op, i, vals>>

\* One turn of the copying loop of write_bulk.
WriteSlot(t) ==
  /\ t \in Writers
  /\ pc[t] = "copy" /\ i[t] < nb_ready[t]
  /\ elements' = [elements EXCEPT ![pos[t]] = op[t].values[i[t] + 1]]
  /\ i' = [i EXCEPT ![t] = @ + 1]
  /\ pos' = [pos EXCEPT ![t] = Succ(@)]
  /\ UNCHANGED <<mode, start, end, lock, pc, op, nb_ready, low, vals, torn>>

\* One turn of the copying loop of read_bulk.
ReadSlot(t) ==
  /\ t \in Readers
  /\ pc[t] = "copy" /\ i[t] < nb_ready[t]
  /\ vals' = [vals EXCEPT ![t] = Append(@, elements[pos[t]])]
  /\ i' = [i EXCEPT ![t] = @ + 1]
  /\ pos' = [pos EXCEPT ![t] = Succ(@)]
  /\ UNCHANGED <<ring, lock, pc, op, nb_ready, low>>

\* while (i < min_nb_buffers): wait for more, or leave.
Again(t) == IF i[t] < op[t].min THEN "wait" ELSE "unlock"

\* rb->end = end or rb->start = start: the moved items change hands.
Publish(t) ==
  /\ pc[t] = "copy" /\ i[t] >= nb_ready[t]
  /\ IF t \in Writers
     THEN end' = pos[t] /\ UNCHANGED start
     ELSE start' = pos[t] /\ UNCHANGED end
  /\ pos' = [pos EXCEPT ![t] = 0]
  /\ nb_ready' = [nb_ready EXCEPT ![t] = 0]
  /\ Goto(t, IF mode = BLOCKING THEN "notify" ELSE Again(t))
  /\ UNCHANGED <<mode, elements, lock, op, i, low, vals, torn>>

\* Mutant: the broadcast is sent without the lock.
Notify_Unlocked(t) ==
  /\ pc[t] = "notify"
  /\ pc' = [u \in Threads |->
              IF u = t THEN Again(t)
              ELSE IF u \in Partners(t) /\ pc[u] = "sleep" THEN "wait"
              ELSE pc[u]]
  /\ UNCHANGED <<ring, lock, locals>>

\* notify_full, notify_empty: broadcast while holding the other side's lock.
Notify(t) ==
  /\ pc[t] = "notify"
  /\ lock[Notified(t)] = NoThread
  /\ pc' = [u \in Threads |->
              IF u = t THEN Again(t)
              ELSE IF u \in Partners(t) /\ pc[u] = "sleep" THEN "wait"
              ELSE pc[u]]
  /\ UNCHANGED <<ring, lock, locals>>

\* UNLOCK and return; the items read are the caller's.
Return(t) ==
  /\ pc[t] = "unlock"
  /\ IF Safe(t) THEN Release(Dir(t)) ELSE UNCHANGED lock
  /\ Goto(t, "idle")
  /\ op' = [op EXCEPT ![t] = NoOp]
  /\ i' = [i EXCEPT ![t] = 0]
  /\ vals' = [vals EXCEPT ![t] = <<>>]
  /\ UNCHANGED <<ring, nb_ready, pos, low>>

\* libtrace_ringbuffer_destroy and a later init, once nobody uses the ring.
Reinit ==
  /\ \A t \in Threads : pc[t] = "idle"
  /\ mode' \in Modes
  /\ start' = 0
  /\ end' = 0
  /\ elements' = [k \in Slots |-> NULL]
  /\ torn' = FALSE
  /\ UNCHANGED <<lock, pc, locals>>

Step(t) ==
  \/ Lock(t) \/ Check(t) \/ Spin(t) \/ EnterWait(t) \/ Test(t) \/ Sleep(t)
  \/ Compare(t) \/ Count(t) \/ WriteSlot(t) \/ ReadSlot(t) \/ Publish(t)
  \/ Notify(t) \/ Return(t)

Next ==
  \/ \E t \in Threads : Call(t) \/ Step(t) \/ SpuriousWakeup(t)
  \/ Reinit

Spec == Init /\ [][Next]_vars

\* A thread inside a call keeps running; callers need not call.  A step that
\* needs a lock competes with holders that release it within their own steps.
Fairness == \A t \in Threads : WF_vars(Step(t))

FairSpec == Spec /\ Fairness

-----------------------------------------------------------------------------
(* The items in the ring, as slots and as a queue.                         *)

\* How far it is from index a forward to index b.
Dist(a, b) == IF b < a THEN b + Size - a ELSE b - a

\* The slots that hold items nobody has taken yet.
Occupied == {k \in Slots : Dist(start, k) < Dist(start, end)}

Queue == [k \in 1 .. Dist(start, end) |-> elements[(start + k - 1) % Size]]

\* The part of what reader r copied out that it has taken from the ring.
Taken(r) ==
  SubSeq(vals[r], 1,
         i[r] - (IF pc[r] = "copy" THEN Dist(start, pos[r]) ELSE 0))

Fifo == INSTANCE BoundedFifo WITH
          queue <- Queue,
          out <- [r \in Readers |-> Taken(r)]

-----------------------------------------------------------------------------
(* Properties.                                                             *)

Ops == [nb : 1 .. MaxBulk, min : 0 .. MaxBulk, values : Seq(Values)]

\* Types: both indices stay inside the allocation of libtrace_ringbuffer_init,
\* and no copying loop leaves it either.
TypeOK ==
  /\ mode \in Modes
  /\ start \in Slots /\ end \in Slots
  /\ elements \in [Slots -> Values \cup {NULL}]
  /\ lock \in [Locks -> Threads \cup {NoThread}]
  /\ pc \in [Threads -> PCs]
  /\ op \in [Threads -> Ops]
  /\ i \in [Threads -> 0 .. MaxBulk]
  /\ nb_ready \in [Threads -> 0 .. MaxBulk]
  /\ pos \in [Threads -> Slots]
  /\ low \in [Threads -> BOOLEAN]
  /\ vals \in [Threads -> Seq(Values \cup {NULL})]
  /\ torn \in BOOLEAN

\* A slot that holds an item before and after a step holds the same item.
KeepsItems == \A k \in Occupied \cap Occupied' : elements'[k] = elements[k]

\* "all methods are no clobber i.e. will not overwrite old items with new
\* ones" (ring_buffer.c:41).  It is true of calls of one or two items; from
\* three on a torn count breaks it.
NoClobber == [][KeepsItems]_vars

\* The slot a writer is about to fill is free, and the slot a reader is about
\* to copy holds an item, whatever the other side does meanwhile: the copying
\* loops of write_bulk and read_bulk meet on a slot only after a torn count,
\* and nothing but a torn count makes them.
SlotsDisjoint ==
  ~torn =>
    \A t \in Threads :
      pc[t] = "copy" /\ i[t] < nb_ready[t] =>
        (t \in Readers <=> pos[t] \in Occupied)

\* "We need to ensure that broadcasts dont get lost hence these locks below"
\* (ring_buffer.h:23): whoever sleeps on a condition that already holds, or has
\* decided to, will be woken, because a partner is still to broadcast.
NoLostWakeup ==
  \A t \in Threads :
    pc[t] \in {"tosleep", "sleep"} /\ ~Blocked(t) =>
      \E u \in Partners(t) : pc[u] = "notify"

\* The ring is a bounded first-in first-out queue: every item published is
\* taken once, in order, by one reader.
IsFifo == Fifo!Spec

\* wait_for_empty and wait_for_full end once there is a slot or an item, in
\* both modes.  (A torn count may take the slot or the item away again.)
WaitEnds ==
  \A t \in Threads :
    (pc[t] \in {"wait", "test", "tosleep", "sleep"} /\ ~Blocked(t))
      ~> (pc[t] = "compare" \/ torn)

-----------------------------------------------------------------------------
(* The inductive invariant behind the theorems of RingBufferProofs.        *)

\* The bulk sizes for which no count can be torn.
BulkSafe == MaxBulk <= 2 \/ ~DoubleLoad

\* t is past the lock of its side.
Inside(t) == pc[t] \notin {"idle", "lock"}

\* One thread at a time is inside each side.
OneInside ==
  /\ \A t \in Threads : Inside(t) /\ Safe(t) => lock[Dir(t)] = t
  /\ \A t \in Threads : pc[t] \in {"test", "tosleep"} => lock[Awaited(t)] = t
  /\ \A t \in Threads : pc[t] \in {"test", "tosleep", "sleep"} => mode = BLOCKING

OpOK ==
  \A t \in Threads :
    /\ op[t].min <= op[t].nb
    /\ t \in Writers /\ pc[t] # "idle" => Len(op[t].values) = op[t].nb
    /\ i[t] <= op[t].nb
    /\ pc[t] = "idle" => i[t] = 0
    /\ pc[t] = "copy" => nb_ready[t] <= op[t].nb

\* What a writer knows of the free slots, from the test in wait_for_empty on.
WriterView(w) ==
  ~torn =>
    /\ pc[w] \in {"compare", "count"} => Dist(start, end) < Capacity
    /\ pc[w] = "count" => IF low[w] THEN start <= end ELSE end + 2 <= Capacity
    /\ pc[w] = "copy" =>
         /\ i[w] <= nb_ready[w]
         /\ Dist(end, pos[w]) + (nb_ready[w] - i[w]) + Dist(start, end) <= Capacity

\* What a reader knows of the items, from the test in wait_for_full on.
ReaderView(r) ==
  ~torn =>
    /\ pc[r] \in {"compare", "count"} => Dist(start, end) > 0
    /\ pc[r] = "count" => IF low[r] THEN end < start ELSE start + 1 <= Capacity
    /\ pc[r] = "copy" =>
         /\ i[r] <= nb_ready[r]
         /\ Dist(start, pos[r]) + (nb_ready[r] - i[r]) <= Dist(start, end)

IInv ==
  /\ TypeOK
  /\ OneInside
  /\ OpOK
  /\ \A w \in Writers : WriterView(w)
  /\ \A r \in Readers : ReaderView(r)
  /\ NoLostWakeup
=============================================================================
