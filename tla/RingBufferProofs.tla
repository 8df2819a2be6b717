-------------------------- MODULE RingBufferProofs --------------------------
(***************************************************************************)
(* Theorems about RingBuffer, for every number of writers and readers,     *)
(* every capacity, both modes and every bulk size.  What a torn count can  *)
(* break is claimed for as long as no count was torn, and calls of at most *)
(* two items never tear one.                                               *)
(***************************************************************************)
EXTENDS RingBuffer, TLAPS

\* What most steps need of RingAssumption.
LEMMA ConstantFacts ==
  /\ Capacity \in Nat \ {0} /\ MaxBulk \in Nat \ {0}
  /\ Writers \cap Readers = {} /\ NoThread \notin Threads
BY RingAssumption, Zenon

USE ConstantFacts

\* Succ wraps at the last slot.
LEMMA SuccWraps ==
  ASSUME NEW k \in Slots
  PROVE  /\ Succ(k) = IF k = Capacity THEN 0 ELSE k + 1
         /\ Succ(k) \in Slots
BY DEF Succ, Size, Slots

\* Two threads of one side are never both past their lock.
LEMMA Unique ==
  ASSUME OneInside, NEW t \in Threads, NEW u \in Threads,
         Inside(t), Inside(u), t \in Writers <=> u \in Writers
  PROVE  t = u
BY RingAssumption, Zenon DEF OneInside, Threads, Safe, Dir

\* Dist counts the slots from one index forward to another.
LEMMA DistRange ==
  ASSUME NEW a \in Slots, NEW b \in Slots
  PROVE  /\ Dist(a, b) \in 0 .. Capacity
         /\ Dist(a, b) = 0 <=> a = b
         /\ Dist(a, b) = Capacity <=> a = Succ(b)
BY SuccWraps DEF Dist, Size, Slots

LEMMA DistSucc ==
  ASSUME NEW a \in Slots, NEW b \in Slots, Dist(a, b) < Capacity
  PROVE  Dist(a, Succ(b)) = Dist(a, b) + 1
BY SuccWraps DEF Dist, Size, Slots

LEMMA DistAdd ==
  ASSUME NEW a \in Slots, NEW b \in Slots, NEW c \in Slots
  PROVE  /\ Dist(a, b) + Dist(b, c) <= Capacity => Dist(a, c) = Dist(a, b) + Dist(b, c)
         /\ Dist(a, b) <= Dist(a, c) => Dist(b, c) = Dist(a, c) - Dist(a, b)
BY DEF Dist, Size, Slots

\* nb_empty counts no more than the free slots, as far as the call uses them.
LEMMA CountFree ==
  ASSUME NEW s \in Slots, NEW e \in Slots, NEW n \in 0 .. MaxBulk, NEW b \in BOOLEAN,
         Dist(s, e) < Capacity,
         \/ b /\ s <= e
         \/ ~b /\ e < s
         \/ ~b /\ e + 2 <= Capacity /\ n <= 2
  PROVE  LET room == IF b THEN Wrap(s + Size - e - 1) ELSE Wrap(s - e - 1)
         IN  Lesser(room, n) \in 0 .. n /\ Lesser(room, n) + Dist(s, e) <= Capacity
BY RingAssumption DEF Dist, Size, Slots, Wrap, Lesser

\* nb_full counts no more than the items, as far as the call uses them.
LEMMA CountItems ==
  ASSUME NEW s \in Slots, NEW e \in Slots, NEW n \in 0 .. MaxBulk, NEW b \in BOOLEAN,
         Dist(s, e) > 0,
         \/ b /\ e < s
         \/ ~b /\ s <= e
         \/ ~b /\ s + 1 <= Capacity /\ n <= 2
  PROVE  LET items == IF b THEN Wrap(e + Size - s) ELSE Wrap(e - s)
         IN  Lesser(items, n) \in 0 .. n /\ Lesser(items, n) <= Dist(s, e)
BY RingAssumption DEF Dist, Size, Slots, Wrap, Lesser

LEMMA InitInv == Init => IInv
<1> SUFFICES ASSUME Init PROVE IInv
  BY Zenon
<1>1. TypeOK
  BY DEF Init, TypeOK, Slots, PCs, NoOp, Ops
<1>2. OneInside
  BY Zenon DEF Init, OneInside, Inside
<1>3. OpOK
  BY DEF Init, OpOK, NoOp
<1>4. (\A w \in Writers : WriterView(w)) /\ (\A r \in Readers : ReaderView(r))
  BY Zenon DEF Init, WriterView, ReaderView, Threads
<1>5. NoLostWakeup
  BY Zenon DEF Init, NoLostWakeup
<1> QED
  BY <1>1, <1>2, <1>3, <1>4, <1>5, Zenon DEF IInv

\* A call that begins has not passed its lock; without one it is alone.
LEMMA CallInv ==
  ASSUME IInv, NEW t \in Threads, Call(t)
  PROVE  IInv'
<1> USE DEF IInv, Call, Goto, ring
<1>1. PICK nb \in 1 .. MaxBulk : \E min \in 0 .. nb :
        \E values \in IF t \in Writers THEN [1 .. nb -> Values] ELSE {<<>>} :
          op' = [op EXCEPT ![t] = [nb |-> nb, min |-> min, values |-> values]]
  BY Zenon
<1>2. PICK min \in 0 .. nb,
           values \in IF t \in Writers THEN [1 .. nb -> Values] ELSE {<<>>} :
        op' = [op EXCEPT ![t] = [nb |-> nb, min |-> min, values |-> values]]
  BY <1>1, Zenon
<1>3. values \in Seq(Values) /\ (t \in Writers => Len(values) = nb)
  <2>1. CASE t \in Writers
    <3>1. values \in [1 .. nb -> Values]
      BY <2>1, Zenon
    <3> QED
      BY <3>1
  <2>2. CASE t \notin Writers
    <3>1. values = <<>>
      BY <2>2, Zenon
    <3> QED
      BY <2>2, <3>1
  <2> QED
    BY <2>1, <2>2, Zenon
<1>4. TypeOK'
  <2>1. [nb |-> nb, min |-> min, values |-> values] \in Ops
    BY <1>3 DEF Ops
  <2>2. op' \in [Threads -> Ops]
    BY <1>2, <2>1, Zenon DEF TypeOK
  <2> QED
    BY <2>2, Zenon DEF TypeOK, PCs
<1>5. OneInside'
  <2>1. pc' = [pc EXCEPT ![t] = "lock"] \/ (pc' = [pc EXCEPT ![t] = "check"] /\ ~Safe(t))
    BY Zenon
  <2> QED
    BY <2>1, Zenon DEF TypeOK, OneInside, Inside, Safe
<1>6. OpOK'
  BY <1>2, <1>3 DEF TypeOK, OpOK
<1>7. \A w \in Writers : WriterView(w)'
  BY Zenon DEF TypeOK, WriterView, Threads
<1>8. \A r \in Readers : ReaderView(r)'
  BY Zenon DEF TypeOK, ReaderView, Threads
<1>9. NoLostWakeup'
  BY Zenon DEF TypeOK, NoLostWakeup, Blocked, is_full, is_empty, Partners, Threads
<1> QED
  BY <1>4, <1>5, <1>6, <1>7, <1>8, <1>9, Zenon

\* A step that only moves t's program counter and changes the owner of a lock.
LEMMA MoveInv ==
  ASSUME IInv, NEW t \in Threads, NEW label \in PCs \ {"idle", "count", "copy"},
         pc' = [pc EXCEPT ![t] = label], pc[t] \notin {"idle", "notify"},
         UNCHANGED <<mode, start, end, elements, op, i, nb_ready, pos, low, vals, torn>>,
         label = "compare" => ~Blocked(t),
         label \in {"tosleep", "sleep"} => Blocked(t) \/ pc[t] \in {"tosleep", "sleep"},
         lock' \in [Locks -> Threads \cup {NoThread}], OneInside'
  PROVE  IInv'
<1> USE DEF IInv
<1>1. TypeOK'
  BY Zenon DEF TypeOK
<1>2. OpOK'
  BY Zenon DEF TypeOK, OpOK
<1>3. start \in Slots /\ end \in Slots /\ pc \in [Threads -> PCs]
  BY Zenon DEF TypeOK
<1>4. \A w \in Writers : WriterView(w)'
  <2> SUFFICES ASSUME NEW w \in Writers PROVE WriterView(w)'
    BY Zenon
  <2>1. CASE w = t
    BY <1>3, <2>1, DistRange DEF WriterView, Blocked, is_full, Dist
  <2>2. CASE w # t
    BY <1>3, <2>2, Zenon DEF WriterView, Dist, Threads
  <2> QED
    BY <2>1, <2>2, Zenon
<1>5. \A r \in Readers : ReaderView(r)'
  <2> SUFFICES ASSUME NEW r \in Readers PROVE ReaderView(r)'
    BY Zenon
  <2>1. CASE r = t
    BY <1>3, <2>1, DistRange DEF ReaderView, Blocked, is_empty, Dist
  <2>2. CASE r # t
    BY <1>3, <2>2, Zenon DEF ReaderView, Dist, Threads
  <2> QED
    BY <2>1, <2>2, Zenon
<1>6. NoLostWakeup'
  BY <1>3, Zenon DEF NoLostWakeup, Blocked, is_full, is_empty, Partners, Threads
<1> QED
  BY <1>1, <1>2, <1>4, <1>5, <1>6, Zenon

\* The lock of its side was free, so no other thread of the side is inside.
LEMMA LockInv ==
  ASSUME IInv, NEW t \in Threads, Lock(t)
  PROVE  IInv'
<1>1. /\ pc[t] = "lock" /\ pc' = [pc EXCEPT ![t] = "check"]
      /\ lock[Dir(t)] = NoThread /\ lock' = [lock EXCEPT ![Dir(t)] = t]
      /\ UNCHANGED <<mode, start, end, elements, op, i, nb_ready, pos, low, vals, torn>>
  BY Zenon DEF Lock, Goto, Acquire, ring, locals
<1>2. /\ pc \in [Threads -> PCs] /\ lock \in [Locks -> Threads \cup {NoThread}]
      /\ OneInside /\ Dir(t) \in Locks
  BY Zenon DEF IInv, TypeOK, Dir, Locks
<1>3. OneInside'
  BY <1>1, <1>2, Zenon DEF OneInside, Inside, Dir, Awaited, Safe, Locks
<1> QED
  BY <1>1, <1>2, <1>3, MoveInv, Zenon DEF PCs

\* The early check moves no item.
LEMMA CheckInv ==
  ASSUME IInv, NEW t \in Threads, Check(t)
  PROVE  IInv'
<1>1. PICK label \in {"unlock", "wait"} : pc' = [pc EXCEPT ![t] = label]
  BY Zenon DEF Check, Goto
<1>2. pc[t] = "check" /\ UNCHANGED <<ring, lock, locals>>
  BY Zenon DEF Check
<1>3. /\ pc \in [Threads -> PCs] /\ lock \in [Locks -> Threads \cup {NoThread}]
      /\ OneInside
  BY Zenon DEF IInv, TypeOK
<1>4. OneInside'
  BY <1>1, <1>2, <1>3, Zenon DEF OneInside, Inside, ring
<1> QED
  BY <1>1, <1>2, <1>3, <1>4, MoveInv, Zenon DEF PCs, ring, locals

\* A polling thread goes on when it sees a slot or an item.
LEMMA SpinInv ==
  ASSUME IInv, NEW t \in Threads, Spin(t)
  PROVE  IInv'
<1>1. /\ pc[t] = "wait" /\ ~Blocked(t) /\ pc' = [pc EXCEPT ![t] = "compare"]
      /\ UNCHANGED <<mode, start, end, elements, lock, op, i, nb_ready, pos, low, vals, torn>>
  BY Zenon DEF Spin, Goto, ring, locals
<1>2. /\ pc \in [Threads -> PCs] /\ lock \in [Locks -> Threads \cup {NoThread}]
      /\ OneInside
  BY Zenon DEF IInv, TypeOK
<1>3. OneInside'
  BY <1>1, <1>2, Zenon DEF OneInside, Inside
<1> QED
  BY <1>1, <1>2, <1>3, MoveInv, Zenon DEF PCs

\* The condition's lock was free, so nobody else is testing the condition.
LEMMA EnterWaitInv ==
  ASSUME IInv, NEW t \in Threads, EnterWait(t)
  PROVE  IInv'
<1>1. /\ pc[t] = "wait" /\ mode = BLOCKING /\ pc' = [pc EXCEPT ![t] = "test"]
      /\ lock[Awaited(t)] = NoThread /\ lock' = [lock EXCEPT ![Awaited(t)] = t]
      /\ UNCHANGED <<mode, start, end, elements, op, i, nb_ready, pos, low, vals, torn>>
  BY Zenon DEF EnterWait, Goto, Acquire, ring, locals
<1>2. /\ pc \in [Threads -> PCs] /\ lock \in [Locks -> Threads \cup {NoThread}]
      /\ OneInside /\ Awaited(t) \in Locks
  BY Zenon DEF IInv, TypeOK, Awaited, Locks
<1>3. \A u \in Threads : pc'[u] \in {"test", "tosleep"} => lock'[Awaited(u)] = u
  BY <1>1, <1>2 DEF OneInside, Awaited, Locks
<1>4. \A u \in Threads : Inside(u)' /\ Safe(u) => lock'[Dir(u)] = u
  BY <1>1, <1>2, Zenon DEF OneInside, Inside, Awaited, Dir, Locks
<1>5. OneInside'
  BY <1>1, <1>2, <1>3, <1>4, Zenon DEF OneInside, Awaited, Dir, Safe
<1> QED
  BY <1>1, <1>2, <1>5, MoveInv, Zenon DEF PCs

\* The condition is tested with the lock that the notifier needs, and the lock
\* is kept exactly when the test says to wait.
LEMMA TestInv ==
  ASSUME IInv, NEW t \in Threads, Test(t)
  PROVE  IInv'
<1>1. /\ pc[t] = "test"
      /\ UNCHANGED <<mode, start, end, elements, op, i, nb_ready, pos, low, vals, torn>>
  BY Zenon DEF Test, ring, locals
<1>2. /\ pc \in [Threads -> PCs] /\ lock \in [Locks -> Threads \cup {NoThread}]
      /\ OneInside /\ Awaited(t) \in Locks
  BY DEF IInv, TypeOK, Awaited, Locks
<1>3. CASE Blocked(t)
  <2>1. pc' = [pc EXCEPT ![t] = "tosleep"] /\ lock' = lock
    BY <1>3, Zenon DEF Test, Goto
  <2>2. OneInside'
    BY <1>1, <1>2, <2>1, Zenon DEF OneInside, Inside
  <2> QED
    BY <1>1, <1>2, <1>3, <2>1, <2>2, MoveInv, Zenon DEF PCs
<1>4. CASE ~Blocked(t)
  <2>1. /\ pc' = [pc EXCEPT ![t] = "compare"]
        /\ lock' = [lock EXCEPT ![Awaited(t)] = NoThread]
    BY <1>4, Zenon DEF Test, Goto, Release
  <2>2. OneInside'
    BY <1>1, <1>2, <2>1, Zenon DEF OneInside, Inside, Awaited, Dir, Safe, Locks
  <2> QED
    BY <1>1, <1>2, <1>4, <2>1, <2>2, MoveInv, Zenon DEF PCs
<1> QED
  BY <1>3, <1>4, Zenon

\* Going to sleep gives the lock back in the same step.
LEMMA SleepInv ==
  ASSUME IInv, NEW t \in Threads, Sleep(t)
  PROVE  IInv'
<1>1. /\ pc[t] = "tosleep" /\ pc' = [pc EXCEPT ![t] = "sleep"]
      /\ lock' = [lock EXCEPT ![Awaited(t)] = NoThread]
      /\ UNCHANGED <<mode, start, end, elements, op, i, nb_ready, pos, low, vals, torn>>
  BY Zenon DEF Sleep, Goto, Release, ring, locals
<1>2. /\ pc \in [Threads -> PCs] /\ lock \in [Locks -> Threads \cup {NoThread}]
      /\ OneInside /\ Awaited(t) \in Locks
  BY DEF IInv, TypeOK, Awaited, Locks
<1>3. OneInside'
  BY <1>1, <1>2, Zenon DEF OneInside, Inside, Awaited, Dir, Safe, Locks
<1> QED
  BY <1>1, <1>2, <1>3, MoveInv, Zenon DEF PCs

\* Whoever wakes tests the condition again.
LEMMA SpuriousWakeupInv ==
  ASSUME IInv, NEW t \in Threads, SpuriousWakeup(t)
  PROVE  IInv'
<1>1. /\ pc[t] = "sleep" /\ pc' = [pc EXCEPT ![t] = "wait"]
      /\ UNCHANGED <<mode, start, end, elements, lock, op, i, nb_ready, pos, low, vals, torn>>
  BY Zenon DEF SpuriousWakeup, Goto, ring, locals
<1>2. /\ pc \in [Threads -> PCs] /\ lock \in [Locks -> Threads \cup {NoThread}]
      /\ OneInside
  BY DEF IInv, TypeOK
<1>3. OneInside'
  BY <1>1, <1>2, Zenon DEF OneInside, Inside
<1> QED
  BY <1>1, <1>2, <1>3, MoveInv, Zenon DEF PCs

\* The first load: what it shows can only change in the thread's favour.
LEMMA CompareInv ==
  ASSUME IInv, NEW t \in Threads, Compare(t)
  PROVE  IInv'
<1> USE DEF IInv, Compare, Goto, ring
<1>1. TypeOK'
  <2>1. Compares(t) \in BOOLEAN
    <3>1. (start <= end) \in BOOLEAN /\ (end < start) \in BOOLEAN
      BY DEF TypeOK, Slots
    <3> QED
      BY <3>1, Zenon DEF Compares
  <2> QED
    BY <2>1, Zenon DEF TypeOK, PCs
<1>2. OneInside'
  BY Zenon DEF TypeOK, OneInside, Inside, Locks, Dir, Awaited, Safe, Threads
<1>3. OpOK'
  BY Zenon DEF TypeOK, OpOK
<1>4. \A w \in Writers : WriterView(w)'
  <2> SUFFICES ASSUME NEW w \in Writers, ~torn PROVE WriterView(w)'
    BY Zenon DEF WriterView
  <2>1. CASE w = t
    <3>1. Dist(start, end) < Capacity /\ start \in Slots /\ end \in Slots
      BY <2>1, Zenon DEF TypeOK, WriterView
    <3>2. IF start <= end THEN TRUE ELSE end + 2 <= Capacity
      BY <3>1 DEF Dist, Slots, Size
    <3>3. pc'[w] = "count" /\ low'[w] = (start <= end)
      BY <2>1, Zenon DEF TypeOK, Compares
    <3> QED
      BY <3>1, <3>2, <3>3, Zenon DEF WriterView, Dist
  <2>2. CASE w # t
    BY <2>2, Unique, Zenon DEF TypeOK, WriterView, Threads, Inside
  <2> QED
    BY <2>1, <2>2, Zenon
<1>5. \A r \in Readers : ReaderView(r)'
  <2> SUFFICES ASSUME NEW r \in Readers, ~torn PROVE ReaderView(r)'
    BY Zenon DEF ReaderView
  <2>1. CASE r = t
    <3>1. Dist(start, end) > 0 /\ start \in Slots /\ end \in Slots
      BY <2>1, Zenon DEF TypeOK, ReaderView
    <3>2. IF end < start THEN TRUE ELSE start + 1 <= Capacity
      BY <3>1 DEF Dist, Slots, Size
    <3>3. pc'[r] = "count" /\ low'[r] = (end < start)
      BY <2>1, Zenon DEF TypeOK, Compares
    <3> QED
      BY <3>1, <3>2, <3>3, Zenon DEF ReaderView, Dist
  <2>2. CASE r # t
    BY <2>2, Unique, Zenon DEF TypeOK, ReaderView, Threads, Inside
  <2> QED
    BY <2>1, <2>2, Zenon
<1>6. NoLostWakeup'
  BY Zenon DEF TypeOK, OneInside, NoLostWakeup, Blocked, is_full, is_empty, Partners, Threads
<1> QED
  BY <1>1, <1>2, <1>3, <1>4, <1>5, <1>6, Zenon

-----------------------------------------------------------------------------
(* The steps that move items, and what the invariant means                 *)

\* The second load: the loop bound never exceeds the free slots or the items,
\* unless the count is torn; it never exceeds the call.
LEMMA CountInv ==
  ASSUME IInv, NEW t \in Threads, Count(t)
  PROVE  IInv'
<1> USE DEF IInv
<1> DEFINE branch == IF DoubleLoad THEN low[t] ELSE Compares(t)
           left == op[t].nb - i[t]
           took == Lesser(Available(t, branch), left)
<1>1. /\ pc[t] = "count"
      /\ nb_ready' = [nb_ready EXCEPT ![t] = i[t] + took]
      /\ pos' = [pos EXCEPT ![t] = OwnIndex(t)]
      /\ low' = [low EXCEPT ![t] = FALSE]
      /\ pc' = [pc EXCEPT ![t] = "copy"]
      /\ torn' = (torn \/ (DoubleLoad /\ low[t] # Compares(t) /\ left > 2))
      /\ UNCHANGED <<mode, start, end, elements, lock, op, i, vals>>
  BY Zenon DEF Count, Goto, ring
<1>2. /\ start \in Slots /\ end \in Slots /\ OwnIndex(t) \in Slots
      /\ left \in 0 .. MaxBulk /\ i[t] \in 0 .. MaxBulk /\ op[t].nb \in 1 .. MaxBulk
  BY DEF TypeOK, OwnIndex, OpOK, Ops
<1>3. branch \in BOOLEAN
  <2>1. (start <= end) \in BOOLEAN /\ (end < start) \in BOOLEAN
    BY <1>2 DEF Slots
  <2>2. Compares(t) \in BOOLEAN
    BY <2>1, Zenon DEF Compares
  <2> QED
    BY <2>2, Zenon DEF TypeOK
<1>4. ASSUME t \in Writers, ~torn'
      PROVE  took + Dist(start, end) <= Capacity
  <2>1. Dist(start, end) < Capacity
    BY <1>1, <1>4, Zenon DEF WriterView
  <2>2. \/ branch /\ start <= end
        \/ ~branch /\ end < start
        \/ ~branch /\ end + 2 <= Capacity /\ left <= 2
    <3>1. CASE DoubleLoad
      <4>1. /\ branch = low[t]
            /\ branch = Compares(t) \/ ~(left > 2)
            /\ IF branch THEN start <= end ELSE end + 2 <= Capacity
        BY <1>1, <1>4, <3>1, Zenon DEF WriterView
      <4>2. Compares(t) = (start <= end)
        BY <1>4, Zenon DEF Compares
      <4> QED
        BY <1>2, <1>3, <4>1, <4>2 DEF Slots
    <3>2. CASE ~DoubleLoad
      BY <1>2, <1>4, <3>2 DEF Compares, Slots
    <3> QED
      BY <3>1, <3>2, Zenon
  <2> QED
    BY <1>2, <1>3, <1>4, <2>1, <2>2, CountFree, Zenon DEF Available
<1>5. ASSUME t \notin Writers, ~torn'
      PROVE  took <= Dist(start, end)
  <2>1. Dist(start, end) > 0
    BY <1>1, <1>5, Zenon DEF ReaderView, Threads
  <2>2. \/ branch /\ end < start
        \/ ~branch /\ start <= end
        \/ ~branch /\ start + 1 <= Capacity /\ left <= 2
    <3>1. CASE DoubleLoad
      <4>1. /\ branch = low[t]
            /\ branch = Compares(t) \/ ~(left > 2)
            /\ IF branch THEN end < start ELSE start + 1 <= Capacity
        BY <1>1, <1>5, <3>1, Zenon DEF ReaderView, Threads
      <4>2. Compares(t) = (end < start)
        BY <1>5, Zenon DEF Compares
      <4> QED
        BY <1>2, <1>3, <4>1, <4>2 DEF Slots
    <3>2. CASE ~DoubleLoad
      BY <1>2, <1>5, <3>2 DEF Compares, Slots
    <3> QED
      BY <3>1, <3>2, Zenon
  <2> QED
    BY <1>2, <1>3, <1>5, <2>1, <2>2, CountItems, Zenon DEF Available
<1>6. took \in 0 .. left
  <2>1. Available(t, branch) \in Nat
    BY <1>2, RingAssumption DEF Available, Wrap, Size, Slots
  <2> QED
    BY <1>2, <2>1 DEF Lesser
<1> HIDE DEF took
<1>7. TypeOK'
  <2>1. i[t] + took \in 0 .. MaxBulk
    BY <1>2, <1>6
  <2>2. nb_ready' \in [Threads -> 0 .. MaxBulk] /\ pos' \in [Threads -> Slots]
    BY <1>1, <1>2, <2>1, Zenon DEF TypeOK
  <2> QED
    BY <1>1, <2>2, Zenon DEF TypeOK, PCs
<1>8. OneInside'
  BY <1>1, Zenon DEF TypeOK, OneInside, Inside, Safe, Awaited, Dir
<1>9. OpOK'
  BY <1>1, <1>2, <1>6 DEF TypeOK, OpOK
<1>10. \A w \in Writers : WriterView(w)'
  <2> SUFFICES ASSUME NEW w \in Writers PROVE WriterView(w)'
    BY Zenon
  <2>1. CASE w = t
    BY <1>1, <1>2, <1>4, <1>6, <2>1, DistRange DEF TypeOK, WriterView, OwnIndex, Dist, Threads
  <2>2. CASE w # t
    BY <1>1, <2>2, Unique, Zenon DEF TypeOK, WriterView, Threads, Inside
  <2> QED
    BY <2>1, <2>2, Zenon
<1>11. \A r \in Readers : ReaderView(r)'
  <2> SUFFICES ASSUME NEW r \in Readers PROVE ReaderView(r)'
    BY Zenon
  <2>1. CASE r = t
    BY <1>1, <1>2, <1>5, <1>6, <2>1, DistRange DEF TypeOK, ReaderView, OwnIndex, Dist, Threads
  <2>2. CASE r # t
    BY <1>1, <2>2, Unique, Zenon DEF TypeOK, ReaderView, Threads, Inside
  <2> QED
    BY <2>1, <2>2, Zenon
<1>12. NoLostWakeup'
  BY <1>1, Zenon DEF TypeOK, NoLostWakeup, Blocked, is_full, is_empty, Partners, Threads
<1> QED
  BY <1>7, <1>8, <1>9, <1>10, <1>11, <1>12, Zenon

\* Filling a slot uses up one of the free slots that Count found.
LEMMA WriteSlotInv ==
  ASSUME IInv, NEW t \in Threads, WriteSlot(t)
  PROVE  IInv'
<1>1. /\ TypeOK /\ OneInside /\ OpOK /\ NoLostWakeup
      /\ \A w \in Writers : WriterView(w)
      /\ \A r \in Readers : ReaderView(r)
  BY Zenon DEF IInv
<1>2. /\ t \in Writers /\ pc[t] = "copy" /\ i[t] < nb_ready[t]
      /\ elements' = [elements EXCEPT ![pos[t]] = op[t].values[i[t] + 1]]
      /\ i' = [i EXCEPT ![t] = @ + 1]
      /\ pos' = [pos EXCEPT ![t] = Succ(@)]
      /\ UNCHANGED <<mode, start, end, lock, pc, op, nb_ready, low, vals, torn>>
  BY Zenon DEF WriteSlot
<1>3. /\ start \in Slots /\ end \in Slots /\ pos[t] \in Slots
      /\ op[t].values \in Seq(Values) /\ op[t].nb \in 1 .. MaxBulk
      /\ i[t] \in 0 .. MaxBulk /\ nb_ready[t] \in 0 .. MaxBulk
  BY <1>1, Zenon DEF TypeOK, Ops
<1>4. nb_ready[t] <= op[t].nb /\ Len(op[t].values) = op[t].nb
  BY <1>1, <1>2, Zenon DEF OpOK
<1>5. /\ op[t].values[i[t] + 1] \in Values
      /\ i[t] + 1 \in 0 .. MaxBulk /\ Succ(pos[t]) \in Slots
  BY <1>2, <1>3, <1>4, SuccWraps
<1>6. /\ i' \in [Threads -> 0 .. MaxBulk] /\ i'[t] = i[t] + 1
      /\ pos' \in [Threads -> Slots] /\ pos'[t] = Succ(pos[t])
      /\ \A u \in Threads \ {t} : i'[u] = i[u] /\ pos'[u] = pos[u]
  BY <1>1, <1>2, <1>5, Zenon DEF TypeOK
<1>7. TypeOK'
  BY <1>1, <1>2, <1>5, <1>6, Zenon DEF TypeOK
<1>8. OneInside'
  BY <1>1, <1>2, Zenon DEF OneInside, Inside
<1>9. OpOK'
  BY <1>1, <1>2, <1>3, <1>4, <1>6 DEF OpOK
<1>10. \A w \in Writers : WriterView(w)'
  <2> SUFFICES ASSUME NEW w \in Writers, ~torn PROVE WriterView(w)'
    BY <1>2, Zenon DEF WriterView
  <2>1. CASE w = t
    <3>1. Dist(end, pos[t]) + (nb_ready[t] - i[t]) + Dist(start, end) <= Capacity
      BY <1>1, <1>2, Zenon DEF WriterView
    <3>2. Dist(end, pos[t]) \in 0 .. Capacity /\ Dist(start, end) \in 0 .. Capacity
      BY <1>3, DistRange, Zenon
    <3>3. Dist(end, Succ(pos[t])) = Dist(end, pos[t]) + 1
      <4>1. Dist(end, pos[t]) < Capacity
        BY <1>2, <1>3, <3>1, <3>2
      <4> QED
        BY <1>3, <4>1, DistSucc, Zenon
    <3>4. Dist(end, pos[t])' = Dist(end, pos[t]) + 1 /\ Dist(start, end)' = Dist(start, end)
      BY <1>2, <1>6, <3>3, Zenon DEF Dist
    <3>5. /\ pc'[t] = "copy" /\ nb_ready'[t] = nb_ready[t] /\ i'[t] = i[t] + 1
          /\ i[t] < nb_ready[t] /\ i[t] \in Int /\ nb_ready[t] \in Int
      BY <1>2, <1>3, <1>6
    <3> QED
      BY <2>1, <3>1, <3>2, <3>4, <3>5 DEF WriterView
  <2>2. CASE w # t
    BY <1>1, <1>2, <2>2, Unique, Zenon DEF WriterView, Threads, Inside
  <2> QED
    BY <2>1, <2>2, Zenon
<1>11. \A r \in Readers : ReaderView(r)'
  BY <1>1, <1>2, <1>6 DEF ReaderView, Threads, Dist
<1>12. NoLostWakeup'
  BY <1>1, <1>2, Zenon DEF NoLostWakeup, Blocked, is_full, is_empty
<1> QED
  BY <1>7, <1>8, <1>9, <1>10, <1>11, <1>12, Zenon DEF IInv

\* Copying an item out uses up one of the items that Count found.
LEMMA ReadSlotInv ==
  ASSUME IInv, NEW t \in Threads, ReadSlot(t)
  PROVE  IInv'
<1>1. /\ TypeOK /\ OneInside /\ OpOK /\ NoLostWakeup
      /\ \A w \in Writers : WriterView(w)
      /\ \A r \in Readers : ReaderView(r)
  BY DEF IInv
<1>2. /\ t \in Readers /\ pc[t] = "copy" /\ i[t] < nb_ready[t]
      /\ vals' = [vals EXCEPT ![t] = Append(@, elements[pos[t]])]
      /\ i' = [i EXCEPT ![t] = @ + 1]
      /\ pos' = [pos EXCEPT ![t] = Succ(@)]
      /\ UNCHANGED <<mode, start, end, elements, lock, pc, op, nb_ready, low, torn>>
  BY Zenon DEF ReadSlot, ring
<1>3. /\ start \in Slots /\ end \in Slots /\ pos[t] \in Slots
      /\ op[t].nb \in 1 .. MaxBulk
      /\ i[t] \in 0 .. MaxBulk /\ nb_ready[t] \in 0 .. MaxBulk
  BY <1>1, Zenon DEF TypeOK, Ops
<1>4. nb_ready[t] <= op[t].nb
  BY <1>1, <1>2, Zenon DEF OpOK
<1>5. i[t] + 1 \in 0 .. MaxBulk /\ Succ(pos[t]) \in Slots
  BY <1>2, <1>3, <1>4, SuccWraps
<1>6. /\ i' \in [Threads -> 0 .. MaxBulk] /\ i'[t] = i[t] + 1
      /\ pos' \in [Threads -> Slots] /\ pos'[t] = Succ(pos[t])
      /\ \A u \in Threads \ {t} : i'[u] = i[u] /\ pos'[u] = pos[u]
  BY <1>1, <1>2, <1>5, Zenon DEF TypeOK
<1>7. TypeOK'
  <2>1. Append(vals[t], elements[pos[t]]) \in Seq(Values \cup {NULL})
    BY <1>1, <1>3 DEF TypeOK
  <2> QED
    BY <1>1, <1>2, <1>6, <2>1, Zenon DEF TypeOK
<1>8. OneInside'
  BY <1>1, <1>2, Zenon DEF OneInside, Inside
<1>9. OpOK'
  BY <1>1, <1>2, <1>3, <1>4, <1>6 DEF OpOK
<1>10. \A w \in Writers : WriterView(w)'
  BY <1>1, <1>2, <1>6 DEF WriterView, Threads, Dist
<1>11. \A r \in Readers : ReaderView(r)'
  <2> SUFFICES ASSUME NEW r \in Readers, ~torn PROVE ReaderView(r)'
    BY <1>2, Zenon DEF ReaderView
  <2>1. CASE r = t
    <3>1. Dist(start, pos[t]) + (nb_ready[t] - i[t]) <= Dist(start, end)
      BY <1>1, <1>2, Zenon DEF ReaderView
    <3>2. Dist(start, pos[t]) \in 0 .. Capacity /\ Dist(start, end) \in 0 .. Capacity
      BY <1>3, DistRange, Zenon
    <3>3. Dist(start, Succ(pos[t])) = Dist(start, pos[t]) + 1
      <4>1. Dist(start, pos[t]) < Capacity
        BY <1>2, <1>3, <3>1, <3>2
      <4> QED
        BY <1>3, <4>1, DistSucc, Zenon
    <3>4. Dist(start, pos[t])' = Dist(start, pos[t]) + 1 /\ Dist(start, end)' = Dist(start, end)
      BY <1>2, <1>6, <3>3, Zenon DEF Dist
    <3>5. /\ pc'[t] = "copy" /\ nb_ready'[t] = nb_ready[t] /\ i'[t] = i[t] + 1
          /\ i[t] < nb_ready[t] /\ i[t] \in Int /\ nb_ready[t] \in Int
      BY <1>2, <1>3, <1>6
    <3> DEFINE behind == Dist(start, pos[t])
               items == Dist(start, end)
    <3>6. /\ behind \in Int /\ items \in Int /\ behind + (nb_ready[t] - i[t]) <= items
          /\ behind' = behind + 1 /\ items' = items
      BY <3>1, <3>2, <3>4
    <3> HIDE DEF behind, items
    <3>7. i'[t] <= nb_ready'[t] /\ behind' + (nb_ready'[t] - i'[t]) <= items'
      BY <3>5, <3>6
    <3> QED
      BY <2>1, <3>5, <3>7, Zenon DEF ReaderView, behind, items
  <2>2. CASE r # t
    BY <1>1, <1>2, <2>2, Unique, Zenon DEF ReaderView, Threads, Inside
  <2> QED
    BY <2>1, <2>2, Zenon
<1>12. NoLostWakeup'
  BY <1>1, <1>2, Zenon DEF NoLostWakeup, Blocked, is_full, is_empty
<1> QED
  BY <1>7, <1>8, <1>9, <1>10, <1>11, <1>12 DEF IInv

\* The filled slots become items, or the copied items become free slots: the
\* other side only gains, and a sleeper of the other side is owed a broadcast.
LEMMA PublishInv ==
  ASSUME IInv, NEW t \in Threads, Publish(t)
  PROVE  IInv'
<1> USE DEF IInv
<1>1. /\ pc[t] = "copy" /\ i[t] >= nb_ready[t]
      /\ pos' = [pos EXCEPT ![t] = 0]
      /\ nb_ready' = [nb_ready EXCEPT ![t] = 0]
      /\ UNCHANGED <<mode, elements, lock, op, i, low, vals, torn>>
  BY Zenon DEF Publish
<1>2. PICK next \in {"notify", "wait", "unlock"} :
        /\ pc' = [pc EXCEPT ![t] = next]
        /\ mode = BLOCKING => next = "notify"
  BY Zenon DEF Publish, Goto, Again
<1>3. /\ start \in Slots /\ end \in Slots /\ pos[t] \in Slots
      /\ i[t] \in Int /\ nb_ready[t] \in Int
  BY DEF TypeOK
<1>4. \A u \in Threads : u # t /\ Dir(u) = Dir(t) => ~Inside(u)
  BY <1>1, Unique, Zenon DEF Inside, Dir
<1>5. TypeOK'
  <2>1. start' \in Slots /\ end' \in Slots
    BY <1>3, Zenon DEF Publish
  <2>2. pc' \in [Threads -> PCs]
    BY <1>2, Zenon DEF TypeOK, PCs
  <2>3. 0 \in Slots /\ 0 \in 0 .. MaxBulk
    BY DEF Slots
  <2> QED
    BY <1>1, <2>1, <2>2, <2>3, Zenon DEF TypeOK
<1>6. OneInside'
  BY <1>1, <1>2, Zenon DEF TypeOK, OneInside, Inside
<1>7. OpOK'
  BY <1>1, <1>2, Zenon DEF TypeOK, OpOK
<1>8. NoLostWakeup'
  <2> SUFFICES ASSUME NEW u \in Threads, pc'[u] \in {"tosleep", "sleep"}
               PROVE  \E v \in Partners(u) : pc'[v] = "notify"
    BY Zenon DEF NoLostWakeup
  <2>1. u # t /\ pc[u] \in {"tosleep", "sleep"}
    BY <1>2, Zenon DEF TypeOK
  <2>2. t \in Partners(u)
    BY <1>4, <2>1, Zenon DEF Inside, Dir, Partners, Threads
  <2>3. pc'[t] = "notify"
    BY <1>2, <2>1, Zenon DEF TypeOK, OneInside
  <2> QED
    BY <2>2, <2>3, Zenon
<1>11. CASE torn
  <2>1. torn'
    BY <1>1, <1>11, Zenon
  <2> QED
    BY <1>5, <1>6, <1>7, <1>8, <2>1, Zenon DEF WriterView, ReaderView
<1>9. CASE ~torn /\ t \in Writers
  <2>1. end' = pos[t] /\ start' = start
    BY <1>9, Zenon DEF Publish
  <2>2. /\ Dist(end, pos[t]) + Dist(start, end) <= Capacity
        /\ Dist(end, pos[t]) \in 0 .. Capacity /\ Dist(start, end) \in 0 .. Capacity
    <3>1. /\ i[t] = nb_ready[t]
          /\ Dist(end, pos[t]) + (nb_ready[t] - i[t]) + Dist(start, end) <= Capacity
      <4>1. /\ i[t] <= nb_ready[t]
            /\ Dist(end, pos[t]) + (nb_ready[t] - i[t]) + Dist(start, end) <= Capacity
        BY <1>1, <1>9, Zenon DEF WriterView
      <4> QED
        BY <1>1, <1>3, <4>1
    <3>2. Dist(end, pos[t]) \in 0 .. Capacity /\ Dist(start, end) \in 0 .. Capacity
      BY <1>3, DistRange, Zenon
    <3> QED
      BY <1>3, <3>1, <3>2
  <2>3. Dist(start, pos[t]) = Dist(start, end) + Dist(end, pos[t])
    BY <1>3, <2>2, DistAdd
  <2>4. \A w \in Writers : WriterView(w)'
    <3> SUFFICES ASSUME NEW w \in Writers PROVE pc'[w] \notin {"compare", "count", "copy"}
      BY Zenon DEF WriterView
    <3> QED
      BY <1>2, <1>4, <1>9, Zenon DEF TypeOK, Threads, Inside, Dir
  <2>5. \A r \in Readers : ReaderView(r)'
    <3> SUFFICES ASSUME NEW r \in Readers PROVE ReaderView(r)'
      BY Zenon
    <3>1. r # t /\ r \in Threads
      BY <1>9, Zenon DEF Threads
    <3>2. pc'[r] = pc[r] /\ pos'[r] = pos[r] /\ nb_ready'[r] = nb_ready[r]
      BY <1>1, <1>2, <3>1, Zenon DEF TypeOK
    <3>3. /\ Dist(start, end)' = Dist(start, pos[t])
          /\ Dist(start, pos[r])' = Dist(start, pos[r])
      BY <2>1, <3>2, Zenon DEF Dist
    <3>4. pos[r] \in Slots /\ i[r] \in Int /\ nb_ready[r] \in Int
      BY <3>1 DEF TypeOK
    <3>5. Dist(start, pos[r]) \in Int
      BY <1>3, <3>4, DistRange
    <3>6. end < start => pos[t] < start
      BY <1>3, <2>2 DEF Dist, Slots, Size
    <3> QED
      BY <1>1, <1>3, <2>1, <2>2, <2>3, <3>2, <3>3, <3>4, <3>5, <3>6, SMTT(30) DEF ReaderView
  <2> QED
    BY <1>5, <1>6, <1>7, <1>8, <2>4, <2>5, Zenon
<1>10. CASE ~torn /\ t \notin Writers
  <2>1. start' = pos[t] /\ end' = end /\ t \in Readers
    BY <1>10, Zenon DEF Publish, Threads
  <2>2. /\ Dist(start, pos[t]) <= Dist(start, end)
        /\ Dist(start, pos[t]) \in 0 .. Capacity /\ Dist(start, end) \in 0 .. Capacity
    <3>1. /\ i[t] = nb_ready[t]
          /\ Dist(start, pos[t]) + (nb_ready[t] - i[t]) <= Dist(start, end)
      <4>1. /\ i[t] <= nb_ready[t]
            /\ Dist(start, pos[t]) + (nb_ready[t] - i[t]) <= Dist(start, end)
        BY <1>1, <1>10, <2>1, Zenon DEF ReaderView
      <4> QED
        BY <1>1, <1>3, <4>1
    <3>2. Dist(start, pos[t]) \in 0 .. Capacity /\ Dist(start, end) \in 0 .. Capacity
      BY <1>3, DistRange, Zenon
    <3> QED
      BY <1>3, <3>1, <3>2
  <2>3. Dist(pos[t], end) = Dist(start, end) - Dist(start, pos[t])
    BY <1>3, <2>2, DistAdd, Zenon
  <2>4. \A r \in Readers : ReaderView(r)'
    <3> SUFFICES ASSUME NEW r \in Readers PROVE pc'[r] \notin {"compare", "count", "copy"}
      BY Zenon DEF ReaderView
    <3> QED
      BY <1>2, <1>4, <2>1, Zenon DEF TypeOK, Threads, Inside, Dir
  <2>5. \A w \in Writers : WriterView(w)'
    <3> SUFFICES ASSUME NEW w \in Writers PROVE WriterView(w)'
      BY Zenon
    <3>1. w # t /\ w \in Threads
      BY <1>10, Zenon DEF Threads
    <3>2. pc'[w] = pc[w] /\ pos'[w] = pos[w] /\ nb_ready'[w] = nb_ready[w]
      BY <1>1, <1>2, <3>1, Zenon DEF TypeOK
    <3>3. /\ Dist(start, end)' = Dist(pos[t], end)
          /\ Dist(end, pos[w])' = Dist(end, pos[w])
      BY <2>1, <3>2, Zenon DEF Dist
    <3>4. pos[w] \in Slots /\ i[w] \in Int /\ nb_ready[w] \in Int
      BY <3>1 DEF TypeOK
    <3>5. Dist(end, pos[w]) \in Int
      BY <1>3, <3>4, DistRange
    <3>6. start <= end => pos[t] <= end
      BY <1>3, <2>2 DEF Dist, Slots, Size
    <3> QED
      BY <1>1, <1>3, <2>1, <2>2, <2>3, <3>2, <3>3, <3>4, <3>5, <3>6, SMTT(30) DEF WriterView
  <2> QED
    BY <1>5, <1>6, <1>7, <1>8, <2>4, <2>5, Zenon
<1> QED
  BY <1>9, <1>10, <1>11, Zenon

\* The notifier holds the lock its partners test under, so none of them is
\* between the test and the wait: the broadcast reaches every sleeper.
LEMMA NotifyInv ==
  ASSUME IInv, NEW t \in Threads, Notify(t)
  PROVE  IInv'
<1> USE DEF IInv, Notify, ring, locals
<1>1. Again(t) \in {"wait", "unlock"}
  BY Zenon DEF Again
<1> HIDE DEF Again
<1>2. \A u \in Partners(t) : u \in Threads /\ pc'[u] \notin {"tosleep", "sleep"}
  BY <1>1, Zenon DEF OneInside, Partners, Notified, Awaited, Threads
<1>3. \A u \in Threads : u # t => pc'[u] = pc[u] \/ (pc[u] = "sleep" /\ pc'[u] = "wait")
  BY Zenon
<1>4. TypeOK'
  BY <1>1, Zenon DEF TypeOK, PCs
<1>5. OneInside'
  BY <1>1, <1>3, Zenon DEF TypeOK, OneInside, Inside
<1>6. OpOK'
  BY <1>1, Zenon DEF OpOK
<1>7. (\A w \in Writers : WriterView(w)') /\ (\A r \in Readers : ReaderView(r)')
  BY <1>1, Zenon DEF WriterView, ReaderView, Threads
<1>8. NoLostWakeup'
  <2> SUFFICES ASSUME NEW u \in Threads, pc'[u] \in {"tosleep", "sleep"}, ~Blocked(u)'
               PROVE  \E v \in Partners(u) : pc'[v] = "notify"
    BY Zenon DEF NoLostWakeup
  <2>1. u \notin Partners(t) /\ u # t /\ pc[u] = pc'[u]
    BY <1>1, <1>2, Zenon
  <2>2. FALSE
    BY <2>1, Unique, Zenon DEF Partners, Threads, Inside
  <2> QED
    BY <2>2, Zenon
<1> QED
  BY <1>4, <1>5, <1>6, <1>7, <1>8, Zenon

\* A call that returns gives its lock back and forgets its items.
LEMMA ReturnInv ==
  ASSUME IInv, NEW t \in Threads, Return(t)
  PROVE  IInv'
<1> USE DEF IInv, Return, Goto, ring
<1>1. lock' = IF Safe(t) THEN [lock EXCEPT ![Dir(t)] = NoThread] ELSE lock
  BY Zenon DEF Release
<1>2. TypeOK'
  <2>1. lock' \in [Locks -> Threads \cup {NoThread}]
    BY <1>1, Zenon DEF TypeOK, Locks, Dir
  <2>2. NoOp \in Ops
    BY DEF NoOp, Ops
  <2>3. <<>> \in Seq(Values \cup {NULL}) /\ 0 \in 0 .. MaxBulk
    OBVIOUS
  <2> QED
    BY <2>1, <2>2, <2>3, Zenon DEF TypeOK, PCs
<1>3. OneInside'
  <2>1. \A u \in Threads : u # t /\ Dir(u) = Dir(t) => ~Inside(u)
    BY Unique, Zenon DEF Inside, Dir
  <2> QED
    BY <1>1, <2>1, Zenon DEF TypeOK, OneInside, Inside, Safe, Dir, Awaited, Locks
<1>4. OpOK'
  BY DEF TypeOK, OpOK, NoOp
<1>5. (\A w \in Writers : WriterView(w)') /\ (\A r \in Readers : ReaderView(r)')
  BY Zenon DEF TypeOK, WriterView, ReaderView, Threads
<1>6. NoLostWakeup'
  BY Zenon DEF TypeOK, NoLostWakeup, Blocked, is_full, is_empty, Partners, Threads
<1> QED
  BY <1>2, <1>3, <1>4, <1>5, <1>6, Zenon

\* The ring is made anew only while nobody uses it.
LEMMA ReinitInv ==
  ASSUME IInv, Reinit
  PROVE  IInv'
<1> USE DEF IInv, Reinit, locals
<1>1. TypeOK'
  <2>1. 0 \in Slots
    BY DEF Slots
  <2> QED
    BY <2>1, Zenon DEF TypeOK
<1>2. OneInside'
  BY Zenon DEF OneInside, Inside
<1>3. OpOK'
  BY Zenon DEF OpOK
<1>4. (\A w \in Writers : WriterView(w)') /\ (\A r \in Readers : ReaderView(r)')
  BY Zenon DEF WriterView, ReaderView, Threads
<1>5. NoLostWakeup'
  BY Zenon DEF NoLostWakeup
<1> QED
  BY <1>1, <1>2, <1>3, <1>4, <1>5, Zenon

LEMMA StutterInv ==
  ASSUME IInv, UNCHANGED vars
  PROVE  IInv'
<1> USE DEF IInv, vars
<1>1. TypeOK'
  BY Zenon DEF TypeOK
<1>2. OneInside' /\ OpOK'
  BY Zenon DEF OneInside, Inside, OpOK
<1>3. (\A w \in Writers : WriterView(w)') /\ (\A r \in Readers : ReaderView(r)')
  BY Zenon DEF WriterView, ReaderView, Dist
<1>4. NoLostWakeup'
  BY Zenon DEF NoLostWakeup, Blocked, is_full, is_empty
<1> QED
  BY <1>1, <1>2, <1>3, <1>4, Zenon

LEMMA NextInv ==
  ASSUME IInv, [Next]_vars
  PROVE  IInv'
<1>1. ASSUME NEW t \in Threads, Call(t) \/ Step(t) \/ SpuriousWakeup(t)
      PROVE  IInv'
  BY <1>1, CallInv, LockInv, CheckInv, SpinInv, EnterWaitInv, TestInv, SleepInv,
     SpuriousWakeupInv, CompareInv, CountInv, WriteSlotInv, ReadSlotInv,
     PublishInv, NotifyInv, ReturnInv, Zenon DEF Step
<1> QED
  BY <1>1, ReinitInv, StutterInv, Zenon DEF Next

\* The invariant holds in every state of every ring.
THEOREM RingInvariant == Spec => []IInv
<1>1. IInv /\ [Next]_vars => IInv'
  BY NextInv, Zenon
<1> QED
  BY <1>1, InitInv, PTL DEF Spec

\* Both indices and every copying loop stay inside the allocation of
\* libtrace_ringbuffer_init, whatever the bulk size and torn or not.
THEOREM TypeCorrect == Spec => []TypeOK
<1>1. IInv => TypeOK
  BY Zenon DEF IInv
<1> QED
  BY <1>1, RingInvariant, PTL

\* As long as no count is torn, libtrace_ringbuffer_write_bulk and read_bulk
\* never work on the same slot.
LEMMA ViewsDisjoint == IInv => SlotsDisjoint
<1> SUFFICES ASSUME IInv, ~torn, NEW t \in Threads, pc[t] = "copy", i[t] < nb_ready[t]
             PROVE  t \in Readers <=> pos[t] \in Occupied
  BY Zenon DEF SlotsDisjoint
<1>1. /\ start \in Slots /\ end \in Slots /\ pos[t] \in Slots
      /\ i[t] \in Int /\ nb_ready[t] \in Int
  BY DEF IInv, TypeOK
<1>2. /\ Dist(start, end) \in Int /\ Dist(end, pos[t]) \in 0 .. Capacity
      /\ Dist(start, pos[t]) \in Int
  BY <1>1, DistRange
<1>3. CASE t \in Writers
  <2>1. Dist(end, pos[t]) + (nb_ready[t] - i[t]) + Dist(start, end) <= Capacity
    BY <1>3, Zenon DEF IInv, WriterView
  <2>2. Dist(start, pos[t]) = Dist(start, end) + Dist(end, pos[t])
    BY <1>1, <1>2, <2>1, DistAdd
  <2>3. pos[t] \notin Occupied
    BY <1>1, <1>2, <2>2 DEF Occupied
  <2> QED
    BY <1>3, <2>3, Zenon
<1>4. CASE t \notin Writers
  <2>1. t \in Readers
    BY <1>4, Zenon DEF Threads
  <2>2. Dist(start, pos[t]) + (nb_ready[t] - i[t]) <= Dist(start, end)
    BY <2>1, Zenon DEF IInv, ReaderView
  <2> QED
    BY <1>1, <1>2, <2>1, <2>2 DEF Occupied
<1> QED
  BY <1>3, <1>4, Zenon

THEOREM SlotsAreDisjoint == Spec => []SlotsDisjoint
BY ViewsDisjoint, RingInvariant, PTL

\* "broadcasts dont get lost" (ring_buffer.h:23), for any number of threads
\* and any bulk size, torn counts included.
THEOREM WakeupsAreKept == Spec => []NoLostWakeup
<1>1. IInv => NoLostWakeup
  BY Zenon DEF IInv
<1> QED
  BY <1>1, RingInvariant, PTL

\* Only a write changes a slot, and only the making of a ring besides.
LEMMA KeepStep ==
  ASSUME IInv, ~torn, [Next]_vars
  PROVE  [KeepsItems]_vars
<1>1. CASE elements' = elements
  BY <1>1, Zenon DEF KeepsItems
<1>2. ASSUME NEW t \in Threads, WriteSlot(t)
      PROVE  KeepsItems
  <2>1. pos[t] \notin Occupied
    BY <1>2, ViewsDisjoint, Zenon DEF SlotsDisjoint, WriteSlot
  <2> QED
    BY <1>2, <2>1, Zenon DEF KeepsItems, WriteSlot, Occupied, IInv, TypeOK
<1>3. CASE Reinit
  <2>1. Occupied' = {}
    BY <1>3, DistRange DEF Reinit, Occupied, Dist, Slots
  <2> QED
    BY <2>1, Zenon DEF KeepsItems
<1>4. elements' = elements \/ Reinit \/ \E t \in Threads : WriteSlot(t)
  BY Zenon DEF Next, Step, vars, ring, Call, Lock, Check, Spin, EnterWait, Test, Sleep,
     SpuriousWakeup, Compare, Count, ReadSlot, Publish, Notify, Return
<1> QED
  BY <1>1, <1>2, <1>3, <1>4, Zenon

\* "will not overwrite old items with new ones" (ring_buffer.c:41), for every
\* bulk size, as long as no count was torn.
THEOREM ItemsAreKept == Spec => [][~torn => KeepsItems]_vars
<1>1. IInv /\ [Next]_vars => [~torn => KeepsItems]_vars
  BY KeepStep, Zenon
<1> QED
  BY <1>1, RingInvariant, PTL DEF Spec

\* A call of at most two items never tears a count.
LEMMA TornStep ==
  ASSUME IInv, BulkSafe, ~torn, [Next]_vars
  PROVE  ~torn'
<1>1. ASSUME NEW t \in Threads, Count(t)
      PROVE  ~torn'
  <2>1. torn' = (torn \/ (DoubleLoad /\ low[t] # Compares(t) /\ op[t].nb - i[t] > 2))
    BY <1>1, Zenon DEF Count
  <2>2. op[t].nb \in 1 .. MaxBulk /\ i[t] \in 0 .. MaxBulk
    BY Zenon DEF IInv, TypeOK, Ops
  <2>3. CASE MaxBulk <= 2
    <3>1. ~(op[t].nb - i[t] > 2)
      BY <2>2, <2>3
    <3> QED
      BY <2>1, <3>1, Zenon
  <2> QED
    BY <2>1, <2>3, Zenon DEF BulkSafe
<1>2. torn' = torn \/ torn' = FALSE \/ \E t \in Threads : Count(t)
  BY Zenon DEF Next, Step, vars, ring, Call, Lock, Check, Spin, EnterWait, Test, Sleep,
     SpuriousWakeup, Compare, WriteSlot, ReadSlot, Publish, Notify, Return, Reinit
<1> QED
  BY <1>1, <1>2, Zenon

\* With calls of at most two items, or with the single load of the forms
\* commented out at ring_buffer.c:129 and 137, no item is ever overwritten.
THEOREM SmallBulksKeepItems == BulkSafe /\ Spec => NoClobber
<1>1. ASSUME BulkSafe PROVE Init /\ [][Next]_vars => NoClobber
  <2>1. Init => ~torn
    BY Zenon DEF Init
  <2>2. IInv /\ ~torn /\ [Next]_vars => ~torn'
    BY <1>1, TornStep, Zenon
  <2>3. IInv /\ ~torn /\ [Next]_vars => [KeepsItems]_vars
    BY KeepStep, Zenon
  <2> QED
    BY <2>1, <2>2, <2>3, RingInvariant, PTL DEF Spec, NoClobber
<1> QED
  BY <1>1, Zenon DEF Spec
=============================================================================
