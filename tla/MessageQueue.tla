---------------------------- MODULE MessageQueue ----------------------------
(***************************************************************************)
(* The message queue of lib/data-struct/message_queue.c: a pipe, and a     *)
(* counter under a spin lock.  Every thread of a parallel trace owns one;  *)
(* any thread may put to it.  The counter is not updated together with the *)
(* pipe: put writes first and counts afterwards, get counts first and      *)
(* reads afterwards, so a getter that waits makes the counter negative.    *)
(***************************************************************************)
EXTENDS Integers, Sequences, FiniteSets

CONSTANTS
  Senders,      \* threads that put
  Receivers,    \* threads that get and try to get
  Numbers,      \* bound: messages are numbered 1 .. Numbers, then again from 1
  PipeSize,     \* the messages that fit in the pipe
  NoThread,     \* the owner of the free spin lock
  FAILED        \* LIBTRACE_MQ_FAILED

Threads == Senders \cup Receivers

ASSUME QueueAssumption ==
  /\ IsFiniteSet(Senders) /\ IsFiniteSet(Receivers)
  /\ Senders \cap Receivers = {}
  /\ NoThread \notin Threads
  /\ PipeSize \in Nat \ {0}
  /\ Numbers \in Nat /\ Numbers > PipeSize
  /\ FAILED \notin Int

VARIABLES
  pipe,           \* the messages written and not read, oldest first
  message_count,  \* mq->message_count
  spin,           \* the owner of mq->spin
  last,           \* the number of the last message written
  pc,             \* where each thread is in its call
  ret             \* the value each thread's call returns

vars == <<pipe, message_count, spin, last, pc, ret>>

PCs == {"idle", "write", "count", "uncount", "read", "confirm", "tryread", "done"}

Init ==
  /\ pipe = <<>>
  /\ message_count = 0
  /\ spin = NoThread
  /\ last = 0
  /\ pc = [t \in Threads |-> "idle"]
  /\ ret = [t \in Threads |-> 0]

Goto(t, label) == pc' = [pc EXCEPT ![t] = label]
Returns(t, value) == ret' = [ret EXCEPT ![t] = value]

-----------------------------------------------------------------------------
(* libtrace_message_queue_put                                              *)

CallPut(t) ==
  /\ t \in Senders /\ pc[t] = "idle"
  /\ Goto(t, "write")
  /\ UNCHANGED <<pipe, message_count, spin, last, ret>>

\* write(2) blocks while the pipe is full.
Write(t) ==
  /\ pc[t] = "write"
  /\ Len(pipe) < PipeSize
  /\ last' = IF last = Numbers THEN 1 ELSE last + 1
  /\ pipe' = Append(pipe, last')
  /\ Goto(t, "count")
  /\ UNCHANGED <<message_count, spin, ret>>

\* Mutant: the counter counts no message.
CountPut_Lost(t) ==
  /\ pc[t] = "count"
  /\ spin = NoThread
  /\ UNCHANGED message_count
  /\ Returns(t, message_count')
  /\ Goto(t, "done")
  /\ UNCHANGED <<pipe, spin, last>>

\* "Update after we've written".
CountPut(t) ==
  /\ pc[t] = "count"
  /\ spin = NoThread
  /\ message_count' = message_count + 1
  /\ Returns(t, message_count')
  /\ Goto(t, "done")
  /\ UNCHANGED <<pipe, spin, last>>

-----------------------------------------------------------------------------
(* libtrace_message_queue_get                                              *)

CallGet(t) ==
  /\ t \in Receivers /\ pc[t] = "idle"
  /\ Goto(t, "uncount")
  /\ UNCHANGED <<pipe, message_count, spin, last, ret>>

\* "this might make us negative".
CountGet(t) ==
  /\ pc[t] = "uncount"
  /\ spin = NoThread
  /\ Returns(t, message_count)
  /\ message_count' = message_count - 1
  /\ Goto(t, "read")
  /\ UNCHANGED <<pipe, spin, last>>

\* read(2) blocks while the pipe is empty.
Read(t) ==
  /\ pc[t] = "read"
  /\ pipe # <<>>
  /\ pipe' = Tail(pipe)
  /\ Goto(t, "done")
  /\ UNCHANGED <<message_count, spin, last, ret>>

-----------------------------------------------------------------------------
(* libtrace_message_queue_try_get                                          *)

\* Mutant: the fast path also gives up on the last message.
CallTryGet_OffByOne(t) ==
  /\ t \in Receivers /\ pc[t] = "idle"
  /\ IF message_count <= 1
     THEN Returns(t, FAILED) /\ Goto(t, "done")
     ELSE Goto(t, "confirm") /\ UNCHANGED ret
  /\ UNCHANGED <<pipe, message_count, spin, last>>

\* "Fast path avoid the lock".
CallTryGet(t) ==
  /\ t \in Receivers /\ pc[t] = "idle"
  /\ IF message_count <= 0
     THEN Returns(t, FAILED) /\ Goto(t, "done")
     ELSE Goto(t, "confirm") /\ UNCHANGED ret
  /\ UNCHANGED <<pipe, message_count, spin, last>>

\* Mutant: the lock is not held across the read.
Confirm_Unlocked(t) ==
  /\ pc[t] = "confirm"
  /\ spin = NoThread
  /\ IF message_count > 0
     THEN /\ message_count' = message_count - 1
          /\ Returns(t, message_count')
          /\ Goto(t, "tryread")
     ELSE /\ Returns(t, FAILED)
          /\ Goto(t, "done")
          /\ UNCHANGED message_count
  /\ UNCHANGED <<pipe, spin, last>>

\* "grab lock and confirm this is so".
Confirm(t) ==
  /\ pc[t] = "confirm"
  /\ spin = NoThread
  /\ IF message_count > 0
     THEN /\ spin' = t
          /\ message_count' = message_count - 1
          /\ Returns(t, message_count')
          /\ Goto(t, "tryread")
     ELSE /\ Returns(t, FAILED)
          /\ Goto(t, "done")
          /\ UNCHANGED <<spin, message_count>>
  /\ UNCHANGED <<pipe, last>>

\* "read(...) needs to be done within the *spin* lock".
TryRead(t) ==
  /\ pc[t] = "tryread"
  /\ pipe # <<>>
  /\ pipe' = Tail(pipe)
  /\ spin' = NoThread
  /\ Goto(t, "done")
  /\ UNCHANGED <<message_count, last, ret>>

-----------------------------------------------------------------------------
\* The call returns; the caller handles the message and may call again.
Return(t) ==
  /\ pc[t] = "done"
  /\ Returns(t, 0)
  /\ Goto(t, "idle")
  /\ UNCHANGED <<pipe, message_count, spin, last>>

\* libtrace_message_queue_destroy, and init for the next trace, once the
\* threads that used the queue have gone.
Reinit ==
  /\ \A t \in Threads : pc[t] = "idle"
  /\ pipe' = <<>>
  /\ message_count' = 0
  /\ spin' = NoThread
  /\ last' = 0
  /\ UNCHANGED <<pc, ret>>

Step(t) ==
  \/ Write(t) \/ CountPut(t)
  \/ CountGet(t) \/ Read(t)
  \/ Confirm(t) \/ TryRead(t)
  \/ Return(t)

Next ==
  \/ \E t \in Threads : CallPut(t) \/ CallGet(t) \/ CallTryGet(t) \/ Step(t)
  \/ Reinit

Spec == Init /\ [][Next]_vars

\* The per-packet, hasher and reporter loops come back to try_get (or, for a
\* reporter without polling, to get) until they are told to stop.
Fairness ==
  /\ \A t \in Threads : WF_vars(Step(t))
  /\ \A t \in Receivers : WF_vars(CallTryGet(t))

FairSpec == Spec /\ Fairness

-----------------------------------------------------------------------------
(* Properties.                                                             *)

\* Types; the pipe never exceeds its size.
TypeOK ==
  /\ pipe \in Seq(1 .. Numbers) /\ Len(pipe) <= PipeSize
  /\ message_count \in Int
  /\ spin \in Threads \cup {NoThread}
  /\ last \in 0 .. Numbers
  /\ pc \in [Threads -> PCs]
  /\ ret \in [Threads -> Int \cup {FAILED}]

\* Puts that have written and not counted; gets that have counted and not read.
Uncounted == {t \in Threads : pc[t] = "count"}
Waiting   == {t \in Threads : pc[t] \in {"read", "tryread"}}

\* The counter is "the number of messages ... less any threads waiting"
\* (message_queue.c:63), up to the puts that have not counted yet.
Accounting ==
  Len(pipe) = message_count + Cardinality(Uncounted) + Cardinality(Waiting)

\* try_get "will not block" (message_queue.c:82): the message it confirmed is
\* there when it reads, whichever blocking gets read before it; so nobody ever
\* blocks inside the spin lock.
TryGetReads ==
  /\ \A t \in Threads : pc[t] = "tryread" => pipe # <<>>
  /\ spin # NoThread => pc[spin] = "tryread"

\* Every message is read in the end, whoever also waits in a blocking get.
Delivered ==
  \A m \in 1 .. Numbers :
    (\E k \in DOMAIN pipe : pipe[k] = m) ~> ~(\E k \in DOMAIN pipe : pipe[k] = m)

-----------------------------------------------------------------------------
\* The inductive invariant behind the theorems of MessageQueueProofs: who holds
\* the spin lock has left the counter at zero or more.
IInv ==
  /\ TypeOK
  /\ Accounting
  /\ \A t \in Threads : pc[t] = "tryread" <=> spin = t
  /\ spin # NoThread => message_count >= 0
=============================================================================
