---------------------------- MODULE BoundedFifo ----------------------------
(***************************************************************************)
(* What ring_buffer.c promises its users: "a FIFO queue ... a fixed size   *)
(* and all methods are no clobber".  Items go in at the back in batches    *)
(* that fit, and leave from the front, each to one reader's call.          *)
(***************************************************************************)
EXTENDS Integers, Sequences

CONSTANTS Readers, Capacity, Values

VARIABLES
  queue,  \* the items nobody has taken
  out     \* the items each reader's current call has taken

Init ==
  /\ queue = <<>>
  /\ out = [r \in Readers |-> <<>>]

\* A writer adds a batch that fits.
Put ==
  /\ \E n \in 1 .. Capacity - Len(queue) : \E batch \in [1 .. n -> Values] :
       queue' = queue \o batch
  /\ UNCHANGED out

\* A reader's call takes some of the oldest items.
Take(r) ==
  \E n \in 1 .. Len(queue) :
    /\ out' = [out EXCEPT ![r] = @ \o SubSeq(queue, 1, n)]
    /\ queue' = SubSeq(queue, n + 1, Len(queue))

\* The call returns what it has taken.
Deliver(r) ==
  /\ out' = [out EXCEPT ![r] = <<>>]
  /\ UNCHANGED queue

\* The queue is destroyed and made anew.
Reset ==
  /\ queue' = <<>>
  /\ UNCHANGED out

Next == Put \/ Reset \/ \E r \in Readers : Take(r) \/ Deliver(r)

Spec == Init /\ [][Next]_<<queue, out>>
=============================================================================
