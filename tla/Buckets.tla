------------------------------ MODULE Buckets ------------------------------
(***************************************************************************)
(* lib/data-struct/buckets.c: many packets share one receive buffer, and   *)
(* the buffer is freed when the last of them is released.  The reader of a *)
(* trace opens a bucket for a buffer and pushes packets into it; every     *)
(* push gives the packet an id, which is later released by any thread.     *)
(* Ids wrap.  A reader that meets an id in use waits for it, and then goes *)
(* on without the mutex, since the wait loop unlocks it.                   *)
(***************************************************************************)
EXTENDS Integers, Sequences, SequencesExt, FiniteSets, FiniteSetsExt

CONSTANTS
  Setups,       \* records: max (MAX_OUTSTANDING), each (packets in a bucket, at most),
                \* nodes (bound: buckets that exist at once), spurious (wakeups happen)
  SlotStep,     \* slots are added in tens
  NULL

VARIABLES
  setup,
  b,            \* nextid, node, packets, nodelist
  node,         \* the allocated nodes: startindex, released, activemembers, slots
  pc,           \* where the reader is in libtrace_push_into_bucket
  slot, load,   \* its locals: the slot found before the wait (First in a new node),
                \* and the count it has loaded without the mutex
  held,         \* ids given to packets that have not been released, with their node
  given,        \* how many packets the open bucket has been given
  failed,       \* whether an assert has failed
  raced         \* history: a packet of the open bucket was released during a push that waits

locals == <<slot, load>>
vars == <<setup, b, node, pc, locals, held, given, failed, raced>>

Ids == 1 .. setup.max - 1
Nodes == 1 .. setup.nodes
Free == Nodes \ DOMAIN node
First == -1

Init ==
  /\ setup \in Setups
  /\ b = [nextid |-> setup.max - 1, node |-> NULL, packets |-> [i \in Ids |-> NULL], nodelist |-> <<>>]
  /\ node = <<>>
  /\ pc = "idle" /\ slot = First /\ load = 0
  /\ held = {} /\ given = 0 /\ failed = FALSE /\ raced = FALSE

-----------------------------------------------------------------------------
(* The reader                                                              *)

\* A node that was never used goes, with its buffer.
Unused == b.node # NULL /\ node[b.node].startindex = 0

libtrace_create_new_bucket ==
  LET kept == IF Unused THEN DOMAIN node \ {b.node} ELSE DOMAIN node
      list == IF Unused THEN Front(b.nodelist) ELSE b.nodelist
  IN /\ pc = "idle" /\ Free # {}
     /\ \E n \in {CHOOSE n \in Free : TRUE} :
          /\ node' = [m \in kept \cup {n} |->
                        IF m = n THEN [startindex |-> 0, released |-> [i \in 0 .. SlotStep - 1 |-> 0],
                                       activemembers |-> 0, slots |-> SlotStep]
                                 ELSE node[m]]
          /\ b' = [b EXCEPT !.node = n, !.nodelist = Append(list, n)]
     /\ given' = 0
     /\ UNCHANGED <<setup, pc, locals, held, failed, raced>>

\* The place of an id in its node, which ids that have wrapped continue.
\* Mutant: the wrapped ids start over.
Slot_NoWrap(id, start) == IF id < start THEN id - 1 ELSE id - start
Slot(id, start) == IF id < start THEN (setup.max - start) + id - 1 ELSE id - start

Wrapped(id) == IF id >= setup.max THEN 1 ELSE id

\* The node with room for slot s.
Roomy(n, s) ==
  IF s < n.slots THEN n
  ELSE [n EXCEPT !.slots = @ + SlotStep,
                 !.released = [i \in 0 .. n.slots + SlotStep - 1 |-> IF i < n.slots THEN @[i] ELSE 0]]

\* The slot of the next id in the open node.
NextSlot(id) ==
  IF node[b.node].startindex = 0 THEN First ELSE Slot(id, node[b.node].startindex)

\* The node after it has been given an id in slot s; count is its activemembers.
\* Mutant: the count is not kept.
Member_Uncounted(n, id, s, count) ==
  IF s = First THEN [n EXCEPT !.startindex = id, !.activemembers = 1, !.released[0] = 1]
  ELSE [Roomy(n, s) EXCEPT !.released[s] = 1]
Member(n, id, s, count) ==
  IF s = First THEN [n EXCEPT !.startindex = id, !.activemembers = 1, !.released[0] = 1]
  ELSE [Roomy(n, s) EXCEPT !.activemembers = count + 1, !.released[s] = 1]

\* The packet has its id.
Returns(id) ==
  /\ held' = held \cup {[id |-> id, node |-> b.node]}
  /\ given' = given + 1

Give(id, s) ==
  /\ node' = [node EXCEPT ![b.node] = Member(@, id, s, @.activemembers)]
  /\ b' = [b EXCEPT !.nextid = id + 1, !.packets[id] = b.node]
  /\ Returns(id)

\* libtrace_push_into_bucket, when the next id is free: all of it under the mutex.
libtrace_push_into_bucket ==
  LET id == Wrapped(b.nextid) IN
  /\ pc = "idle" /\ b.node # NULL /\ given < setup.each
  /\ b.packets[id] = NULL
  /\ Give(id, NextSlot(id))
  /\ UNCHANGED <<setup, pc, locals, failed, raced>>

\* The id is in use: the reader finds the slot, makes room for it and waits on
\* the condition, in one of two loops.
PushWaits ==
  LET id == Wrapped(b.nextid) IN
  /\ pc = "idle" /\ b.node # NULL /\ given < setup.each
  /\ b.packets[id] # NULL
  /\ b' = [b EXCEPT !.nextid = id]
  /\ slot' = NextSlot(id)
  /\ node' = IF slot' = First THEN node ELSE [node EXCEPT ![b.node] = Roomy(@, slot')]
  /\ pc' = "wait"
  /\ UNCHANGED <<setup, load, held, given, failed, raced>>

\* The loop unlocks the mutex and tests again; the id is in use still: another
\* wait, with a mutex that is not held, so that a release may come between the
\* test and the wait.
PushRetest ==
  /\ pc = "unlocked" /\ b.packets[b.nextid] # NULL
  /\ pc' = "again"
  /\ UNCHANGED <<setup, b, node, locals, held, given, failed, raced>>

PushWaitsAgain ==
  /\ pc = "again" /\ pc' = "wait"
  /\ UNCHANGED <<setup, b, node, locals, held, given, failed, raced>>

SpuriousWakeup ==
  /\ setup.spurious /\ pc = "wait" /\ pc' = "unlocked"
  /\ UNCHANGED <<setup, b, node, locals, held, given, failed, raced>>

\* The id is free.  After the first loop the node has no packet that another
\* thread could release.
PushFirst ==
  /\ pc = "unlocked" /\ b.packets[b.nextid] = NULL /\ slot = First
  /\ Give(b.nextid, First)
  /\ pc' = "idle"
  /\ UNCHANGED <<setup, locals, failed, raced>>

\* After the second, everything is done without the mutex, with the slot from
\* before the wait: the packet's node, the count, its slot, the next id.
PushFree ==
  /\ pc = "unlocked" /\ b.packets[b.nextid] = NULL /\ slot # First
  /\ pc' = "free"
  /\ UNCHANGED <<setup, b, node, locals, held, given, failed, raced>>

PushPacket ==
  /\ pc = "free"
  /\ b' = [b EXCEPT !.packets[b.nextid] = b.node]
  /\ pc' = "entered"
  /\ UNCHANGED <<setup, node, locals, held, given, failed, raced>>

PushLoad ==
  /\ pc = "entered"
  /\ load' = node[b.node].activemembers
  /\ pc' = "loaded"
  /\ UNCHANGED <<setup, b, node, slot, held, given, failed, raced>>

PushStore ==
  /\ pc = "loaded"
  /\ node' = [node EXCEPT ![b.node] = Member(@, b.nextid, slot, load)]
  /\ pc' = "stored"
  /\ UNCHANGED <<setup, b, locals, held, given, failed, raced>>

\* nextid is read again: the id that is returned is one less than it then is.
PushReturnsId ==
  /\ pc = "stored"
  /\ b' = [b EXCEPT !.nextid = @ + 1]
  /\ Returns(b.nextid)
  /\ pc' = "idle"
  /\ UNCHANGED <<setup, node, locals, failed, raced>>

-----------------------------------------------------------------------------
(* libtrace_release_bucket_id, by any thread that has finished a packet    *)

\* The last id given is taken back; another is only marked.
Released(id) ==
  LET x == b.packets[id]
      s == Slot(id, node[x].startindex)
      previd == IF b.nextid = 1 THEN setup.max - 1 ELSE b.nextid - 1
      undo == x = b.node /\ id = previd
      fewer == [node EXCEPT ![x].activemembers = @ - 1]
  IN IF undo
     THEN [b |-> [b EXCEPT !.packets[id] = NULL, !.nextid = previd],
           node |-> [fewer EXCEPT ![x].released[s] = 0,
                                  ![x].startindex = IF id = @ THEN 0 ELSE @]]
     ELSE [b |-> b, node |-> [fewer EXCEPT ![x].released[s] = 2]]

\* Mutant: a node goes whose packets are in use.
Finished_Any(r) == Front(r.b.nodelist)
\* The nodes before the first one with a member in use; never the open one.
Finished(r) ==
  LET list == r.b.nodelist
      busy == {i \in DOMAIN list : r.node[list[i]].activemembers > 0 \/ list[i] = r.b.node}
  IN SubSeq(list, 1, (IF busy = {} THEN Len(list) ELSE Min(busy)) - 1)

\* Mutant: an id one past the wrap becomes 0.
Marked_Zero(n) ==
  {LET index == i + n.startindex IN IF index >= setup.max THEN index - setup.max ELSE index :
     i \in {j \in 0 .. n.slots - 1 : n.released[j] = 2}}
\* The ids of a node's released slots.
Marked(n) ==
  {LET index == i + n.startindex IN IF index >= setup.max THEN index - (setup.max - 1) ELSE index :
     i \in {j \in 0 .. n.slots - 1 : n.released[j] = 2}}

ReleaseId(h) ==
  LET x == b.packets[h.id]
      s == Slot(h.id, node[x].startindex)
      sound == x \in DOMAIN node /\ s \in 0 .. node[x].slots - 1 /\ node[x].released[s] = 1
  IN /\ held' = held \ {h}
     /\ IF ~sound THEN failed' = TRUE /\ UNCHANGED <<b, node, pc>>
        ELSE \E r \in {Released(h.id)} : \E gone \in {Finished(r)} :
             LET ids == UNION {Marked(r.node[gone[i]]) : i \in DOMAIN gone}
             IN /\ node' = [m \in DOMAIN node \ ToSet(gone) |-> r.node[m]]
                /\ b' = [r.b EXCEPT !.nodelist = SubSeq(@, Len(gone) + 1, Len(@)),
                                    !.packets = [i \in Ids |-> IF i \in ids THEN NULL ELSE @[i]]]
                /\ pc' = IF pc = "wait" /\ gone # <<>> THEN "unlocked" ELSE pc
                /\ UNCHANGED failed
     /\ raced' = (raced \/ (pc # "idle" /\ h.node = b.node))
     /\ UNCHANGED <<setup, locals, given>>
libtrace_release_bucket_id == \E h \in held : ReleaseId(h)

\* A reader that has waited goes on.
Resume ==
  \/ PushRetest \/ PushWaitsAgain \/ PushFirst \/ PushFree
  \/ PushPacket \/ PushLoad \/ PushStore \/ PushReturnsId

Next ==
  \/ libtrace_create_new_bucket \/ libtrace_push_into_bucket
  \/ PushWaits \/ SpuriousWakeup \/ Resume
  \/ libtrace_release_bucket_id

Spec == Init /\ [][Next]_vars

-----------------------------------------------------------------------------
TypeOK ==
  /\ pc \in {"idle", "wait", "unlocked", "again", "free", "entered", "loaded", "stored"}
  /\ slot \in {First} \cup Nat
  /\ b.nextid \in 1 .. setup.max /\ b.packets \in [Ids -> Nodes \cup {NULL}]
  /\ ToSet(b.nodelist) = DOMAIN node

\* The buffer of a packet stays until it is released: its node is allocated and
\* is the one its id leads to.
BufferKept == \A h \in held : h.node \in DOMAIN node /\ b.packets[h.id] = h.node

\* A node counts exactly its packets in use, so that its buffer is freed with
\* the last of them and no id is given twice; the one whose push has counted it
\* and not returned is in use.
MembersCounted ==
  \A n \in DOMAIN node :
    node[n].activemembers = Cardinality({h \in held : h.node = n})
                              + (IF pc = "stored" /\ n = b.node THEN 1 ELSE 0)

\* The asserts of libtrace_release_bucket_id hold for every packet that is
\* released once.
AssertsHold == ~failed

\* A reader that waits for an id gets one when packets are released, as long as
\* no wakeup is spurious, no bucket takes all the ids and no assert fails.
PushReturns == pc = "wait" /\ ~setup.spurious ~> pc = "idle" \/ failed = TRUE

\* All of it, as long as no packet of the open bucket is released while a push
\* waits: such a release moves nextid and startindex under the push, whose slot
\* is then another's.
BucketsKept == ~raced => TypeOK /\ BufferKept /\ MembersCounted /\ AssertsHold
=============================================================================
