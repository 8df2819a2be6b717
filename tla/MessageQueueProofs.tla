------------------------- MODULE MessageQueueProofs -------------------------
(***************************************************************************)
(* Theorems about MessageQueue, for any finite number of threads and any   *)
(* size of the pipe.                                                       *)
(***************************************************************************)
EXTENDS MessageQueue, FiniteSetTheorems, TLAPS

LEMMA FiniteThreads ==
  /\ IsFiniteSet(Uncounted) /\ Cardinality(Uncounted) \in Nat
  /\ IsFiniteSet(Waiting) /\ Cardinality(Waiting) \in Nat
<1>1. IsFiniteSet(Threads)
  BY QueueAssumption, FS_Union, Zenon DEF Threads
<1>2. Uncounted \subseteq Threads /\ Waiting \subseteq Threads
  BY Zenon DEF Uncounted, Waiting
<1> QED
  BY <1>1, <1>2, FS_Subset, FS_CardinalityType, Zenon

\* What a step of t does to the two sets that the accounting counts.
LEMMA CountMoves ==
  ASSUME NEW t \in Threads, NEW label \in PCs, pc \in [Threads -> PCs],
         pc' = [pc EXCEPT ![t] = label]
  PROVE  /\ label = "count" /\ pc[t] # "count" => Cardinality(Uncounted') = Cardinality(Uncounted) + 1
         /\ label # "count" /\ pc[t] = "count" => Cardinality(Uncounted') = Cardinality(Uncounted) - 1
         /\ (label = "count" <=> pc[t] = "count") => Cardinality(Uncounted') = Cardinality(Uncounted)
         /\ label \in {"read", "tryread"} /\ pc[t] \notin {"read", "tryread"}
              => Cardinality(Waiting') = Cardinality(Waiting) + 1
         /\ label \notin {"read", "tryread"} /\ pc[t] \in {"read", "tryread"}
              => Cardinality(Waiting') = Cardinality(Waiting) - 1
         /\ (label \in {"read", "tryread"} <=> pc[t] \in {"read", "tryread"})
              => Cardinality(Waiting') = Cardinality(Waiting)
<1>1. /\ label = "count" /\ pc[t] # "count" => Cardinality(Uncounted') = Cardinality(Uncounted) + 1
      /\ label # "count" /\ pc[t] = "count" => Cardinality(Uncounted') = Cardinality(Uncounted) - 1
      /\ (label = "count" <=> pc[t] = "count") => Cardinality(Uncounted') = Cardinality(Uncounted)
  <2>1. ASSUME label = "count", pc[t] # "count" PROVE Uncounted' = Uncounted \cup {t} /\ t \notin Uncounted
    BY <2>1, Zenon DEF Uncounted
  <2>2. ASSUME label # "count", pc[t] = "count" PROVE Uncounted' = Uncounted \ {t} /\ t \in Uncounted
    BY <2>2, Zenon DEF Uncounted
  <2>3. ASSUME label = "count" <=> pc[t] = "count" PROVE Uncounted' = Uncounted
    BY <2>3, Zenon DEF Uncounted
  <2>4. t \notin Uncounted => Cardinality(Uncounted \cup {t}) = Cardinality(Uncounted) + 1
    BY FiniteThreads, FS_AddElement, Zenon
  <2>5. t \in Uncounted => Cardinality(Uncounted \ {t}) = Cardinality(Uncounted) - 1
    BY FiniteThreads, FS_RemoveElement, Zenon
  <2> QED
    BY <2>1, <2>2, <2>3, <2>4, <2>5, Zenon
<1>2. /\ label \in {"read", "tryread"} /\ pc[t] \notin {"read", "tryread"} => Cardinality(Waiting') = Cardinality(Waiting) + 1
      /\ label \notin {"read", "tryread"} /\ pc[t] \in {"read", "tryread"} => Cardinality(Waiting') = Cardinality(Waiting) - 1
      /\ (label \in {"read", "tryread"} <=> pc[t] \in {"read", "tryread"}) => Cardinality(Waiting') = Cardinality(Waiting)
  <2>1. ASSUME label \in {"read", "tryread"}, pc[t] \notin {"read", "tryread"} PROVE Waiting' = Waiting \cup {t} /\ t \notin Waiting
    BY <2>1, Zenon DEF Waiting
  <2>2. ASSUME label \notin {"read", "tryread"}, pc[t] \in {"read", "tryread"} PROVE Waiting' = Waiting \ {t} /\ t \in Waiting
    BY <2>2, Zenon DEF Waiting
  <2>3. ASSUME label \in {"read", "tryread"} <=> pc[t] \in {"read", "tryread"} PROVE Waiting' = Waiting
    BY <2>3, Zenon DEF Waiting
  <2>4. t \notin Waiting => Cardinality(Waiting \cup {t}) = Cardinality(Waiting) + 1
    BY FiniteThreads, FS_AddElement, Zenon
  <2>5. t \in Waiting => Cardinality(Waiting \ {t}) = Cardinality(Waiting) - 1
    BY FiniteThreads, FS_RemoveElement, Zenon
  <2> QED
    BY <2>1, <2>2, <2>3, <2>4, <2>5, Zenon
<1> QED
  BY <1>1, <1>2, Zenon

LEMMA InitInv == Init => IInv
<1> SUFFICES ASSUME Init PROVE IInv
  BY Zenon
<1>1. TypeOK
  BY QueueAssumption DEF Init, TypeOK, PCs
<1>2. Accounting
  <2>1. Uncounted = {} /\ Waiting = {}
    BY Zenon DEF Init, Uncounted, Waiting
  <2> QED
    BY <2>1, FS_EmptySet DEF Init, Accounting
<1> QED
  BY <1>1, <1>2, QueueAssumption, Zenon DEF Init, IInv

\* A step that touches neither the pipe nor the counter, and that is no part of
\* the critical section.
LEMMA QuietInv ==
  ASSUME IInv, NEW t \in Threads, NEW label \in {"idle", "write", "uncount", "confirm", "done"},
         pc[t] \in {"idle", "confirm", "done"}, pc' = [pc EXCEPT ![t] = label],
         ret' \in [Threads -> Int \cup {FAILED}],
         UNCHANGED <<pipe, message_count, spin, last>>
  PROVE  IInv'
<1>1. TypeOK'
  BY Zenon DEF IInv, TypeOK, PCs
<1>2. Accounting'
  <2>1. Cardinality(Uncounted') = Cardinality(Uncounted) /\ Cardinality(Waiting') = Cardinality(Waiting)
    BY CountMoves, Zenon DEF IInv, TypeOK, PCs
  <2>2. Len(pipe') = Len(pipe) /\ message_count' = message_count /\ message_count \in Int /\ Len(pipe) \in Int
    BY DEF IInv, TypeOK
  <2> QED
    BY <2>1, <2>2, FiniteThreads, Zenon DEF IInv, Accounting
<1> QED
  BY <1>1, <1>2, Zenon DEF IInv, TypeOK

LEMMA WriteInv ==
  ASSUME IInv, NEW t \in Threads, Write(t)
  PROVE  IInv'
<1> USE DEF IInv
<1>1. /\ pc[t] = "write" /\ pc' = [pc EXCEPT ![t] = "count"]
      /\ Len(pipe) < PipeSize /\ last' = (IF last = Numbers THEN 1 ELSE last + 1)
      /\ pipe' = Append(pipe, last')
      /\ UNCHANGED <<message_count, spin, ret>>
  BY Zenon DEF Write, Goto
<1>2. last' \in 1 .. Numbers
  BY <1>1, QueueAssumption DEF TypeOK
<1>3. pipe' \in Seq(1 .. Numbers) /\ Len(pipe') = Len(pipe) + 1
  BY <1>1, <1>2 DEF TypeOK
<1>4. TypeOK'
  BY <1>1, <1>2, <1>3, QueueAssumption DEF TypeOK, PCs
<1>5. Accounting'
  <2>1. Cardinality(Uncounted') = Cardinality(Uncounted) + 1 /\ Cardinality(Waiting') = Cardinality(Waiting)
    BY <1>1, CountMoves, Zenon DEF TypeOK, PCs
  <2>2. Len(pipe') = Len(pipe) + 1 /\ message_count' = message_count /\ message_count \in Int /\ Len(pipe) \in Int
    BY <1>1, <1>3 DEF TypeOK
  <2> QED
    BY <2>1, <2>2, FiniteThreads DEF Accounting
<1> QED
  BY <1>1, <1>4, <1>5, Zenon DEF TypeOK

LEMMA CountPutInv ==
  ASSUME IInv, NEW t \in Threads, CountPut(t)
  PROVE  IInv'
<1> USE DEF IInv, CountPut, Goto, Returns
<1>1. TypeOK'
  BY DEF TypeOK, PCs
<1>2. Accounting'
  <2>1. Cardinality(Uncounted') = Cardinality(Uncounted) - 1 /\ Cardinality(Waiting') = Cardinality(Waiting)
    BY CountMoves, Zenon DEF TypeOK, PCs
  <2>2. Len(pipe') = Len(pipe) /\ message_count' = message_count + 1 /\ message_count \in Int /\ Len(pipe) \in Int
    BY DEF TypeOK
  <2> QED
    BY <2>1, <2>2, FiniteThreads DEF Accounting
<1> QED
  BY <1>1, <1>2, Zenon DEF TypeOK

LEMMA CountGetInv ==
  ASSUME IInv, NEW t \in Threads, CountGet(t)
  PROVE  IInv'
<1> USE DEF IInv, CountGet, Goto, Returns
<1>1. TypeOK'
  BY DEF TypeOK, PCs
<1>2. Accounting'
  <2>1. Cardinality(Uncounted') = Cardinality(Uncounted) /\ Cardinality(Waiting') = Cardinality(Waiting) + 1
    BY CountMoves, Zenon DEF TypeOK, PCs
  <2>2. Len(pipe') = Len(pipe) /\ message_count' = message_count - 1 /\ message_count \in Int /\ Len(pipe) \in Int
    BY DEF TypeOK
  <2> QED
    BY <2>1, <2>2, FiniteThreads DEF Accounting
<1> QED
  BY <1>1, <1>2, Zenon DEF TypeOK

\* Both reads take one message and one waiting thread away.
LEMMA ReadInv ==
  ASSUME IInv, NEW t \in Threads, Read(t) \/ TryRead(t)
  PROVE  IInv'
<1> USE DEF IInv
<1>1. /\ pc[t] \in {"read", "tryread"} /\ pc' = [pc EXCEPT ![t] = "done"]
      /\ pipe # <<>> /\ pipe' = Tail(pipe)
      /\ spin' = (IF pc[t] = "read" THEN spin ELSE NoThread)
      /\ UNCHANGED <<message_count, last, ret>>
  BY Zenon DEF Read, TryRead, Goto
<1>2. pipe' \in Seq(1 .. Numbers) /\ Len(pipe') = Len(pipe) - 1
  BY <1>1 DEF TypeOK
<1>3. TypeOK'
  BY <1>1, <1>2, QueueAssumption DEF TypeOK, PCs
<1>4. Accounting'
  <2>1. Cardinality(Uncounted') = Cardinality(Uncounted) /\ Cardinality(Waiting') = Cardinality(Waiting) - 1
    BY <1>1, CountMoves, Zenon DEF TypeOK, PCs
  <2>2. Len(pipe') = Len(pipe) - 1 /\ message_count' = message_count /\ message_count \in Int /\ Len(pipe) \in Int
    BY <1>1, <1>2 DEF TypeOK
  <2> QED
    BY <2>1, <2>2, FiniteThreads DEF Accounting
<1>5. \A u \in Threads : pc'[u] = "tryread" <=> spin' = u
  BY <1>1, QueueAssumption, Zenon DEF TypeOK
<1> QED
  BY <1>1, <1>3, <1>4, <1>5, Zenon

LEMMA ConfirmInv ==
  ASSUME IInv, NEW t \in Threads, Confirm(t)
  PROVE  IInv'
<1> USE DEF IInv
<1>1. CASE message_count > 0
  <2>1. /\ pc[t] = "confirm" /\ pc' = [pc EXCEPT ![t] = "tryread"]
        /\ spin = NoThread /\ spin' = t
        /\ message_count' = message_count - 1
        /\ ret' = [ret EXCEPT ![t] = message_count']
        /\ UNCHANGED <<pipe, last>>
    BY <1>1, Zenon DEF Confirm, Goto, Returns
  <2>2. TypeOK'
    BY <2>1 DEF TypeOK, PCs
  <2>3. Accounting'
    <3>1. Cardinality(Uncounted') = Cardinality(Uncounted) /\ Cardinality(Waiting') = Cardinality(Waiting) + 1
      BY <2>1, CountMoves, Zenon DEF TypeOK, PCs
    <3>2. Len(pipe') = Len(pipe) /\ message_count' = message_count - 1 /\ message_count \in Int /\ Len(pipe) \in Int
      BY <2>1 DEF TypeOK
    <3> QED
      BY <3>1, <3>2, FiniteThreads DEF Accounting
  <2>4. \A u \in Threads : pc'[u] = "tryread" <=> spin' = u
    BY <2>1, QueueAssumption, Zenon DEF TypeOK
  <2>5. message_count' >= 0
    BY <1>1, <2>1 DEF TypeOK
  <2> QED
    BY <2>2, <2>3, <2>4, <2>5, Zenon
<1>2. CASE ~(message_count > 0)
  BY <1>2, QuietInv DEF Confirm, Goto, Returns, TypeOK
<1> QED
  BY <1>1, <1>2, Zenon

LEMMA ReinitInv ==
  ASSUME IInv, Reinit
  PROVE  IInv'
<1>1. Uncounted' = {} /\ Waiting' = {}
  BY Zenon DEF Reinit, Uncounted, Waiting
<1>2. Accounting'
  BY <1>1, FS_EmptySet DEF Reinit, Accounting
<1>3. TypeOK'
  BY QueueAssumption DEF IInv, Reinit, TypeOK
<1> QED
  BY <1>2, <1>3, QueueAssumption, Zenon DEF IInv, Reinit

LEMMA NextInv == IInv /\ [Next]_vars => IInv'
<1> SUFFICES ASSUME IInv, [Next]_vars PROVE IInv'
  BY Zenon
<1>1. ASSUME NEW t \in Threads, CallPut(t) \/ CallGet(t) \/ CallTryGet(t) \/ Return(t)
      PROVE  IInv'
  <2>1. CASE CallPut(t) \/ CallGet(t)
    BY <2>1, QuietInv DEF CallPut, CallGet, Goto, IInv, TypeOK
  <2>2. CASE CallTryGet(t)
    BY <2>2, QuietInv DEF CallTryGet, Goto, Returns, IInv, TypeOK
  <2>3. CASE Return(t)
    <3>1. ret' \in [Threads -> Int \cup {FAILED}]
      BY <2>3 DEF Return, Returns, IInv, TypeOK
    <3> QED
      BY <2>3, <3>1, QuietInv, Zenon DEF Return, Goto
  <2> QED
    BY <1>1, <2>1, <2>2, <2>3, Zenon
<1>2. ASSUME NEW t \in Threads, Step(t)
      PROVE  IInv'
  BY <1>1, <1>2, WriteInv, CountPutInv, CountGetInv, ReadInv, ConfirmInv, Zenon DEF Step
<1>3. CASE UNCHANGED vars
  BY <1>3, Zenon DEF vars, IInv, TypeOK, Accounting, Uncounted, Waiting
<1> QED
  BY <1>1, <1>2, <1>3, ReinitInv, Zenon DEF Next

THEOREM QueueInvariant == Spec => []IInv
BY InitInv, NextInv, PTL DEF Spec

\* message_count is the messages in the pipe, less the threads that wait, less
\* the puts that have not counted, in every state.
THEOREM CountIsAccurate == Spec => []Accounting
<1>1. IInv => Accounting
  BY Zenon DEF IInv
<1> QED
  BY <1>1, QueueInvariant, PTL

\* try_get finds the message it confirmed: the read inside the spin lock of
\* libtrace_message_queue_try_get never blocks.
THEOREM TryGetNeverBlocks == Spec => []TryGetReads
<1>1. ASSUME IInv PROVE TryGetReads
  <2>1. ASSUME NEW t \in Threads, pc[t] = "tryread"
        PROVE  pipe # <<>>
    <3>1. message_count >= 0
      BY <1>1, <2>1, QueueAssumption, Zenon DEF IInv
    <3>2. t \in Waiting
      BY <2>1, Zenon DEF Waiting
    <3>3. Cardinality(Waiting) # 0
      BY <3>2, FiniteThreads, FS_EmptySet, Zenon
    <3>4. Len(pipe) > 0
      BY <1>1, <3>1, <3>3, FiniteThreads DEF IInv, Accounting, TypeOK
    <3> QED
      BY <3>4
  <2>2. spin # NoThread => pc[spin] = "tryread"
    BY <1>1, Zenon DEF IInv, TypeOK
  <2> QED
    BY <2>1, <2>2, Zenon DEF TryGetReads
<1> QED
  BY <1>1, QueueInvariant, PTL
=============================================================================
