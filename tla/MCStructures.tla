---------------------------- MODULE MCStructures ----------------------------
(* One instance of each small structure of lib/data-struct, of the combiners *)
(* and of the first packets.  which says whose behaviour this is; the variables of the      *)
(* others stay None.                                                         *)
EXTENDS Integers, Sequences

CONSTANT None

VARIABLES
  which,
  kind, list, cell, content,                                  \* LinkedLists
  vec, stored,                                                \* Vector
  window, pending,                                            \* SlidingWindow
  bsetup, b, node, bpc, slot, load, held, given, failed, raced,   \* Buckets
  setup, queues, published, ended, last_ts_tick, last_count_tick, out, pc, reader,  \* Combiners
  fsetup, first_packets, recorded_first, offset, fpc, packet, messages, lock, state,
  clock, starts, newest, began, shown                         \* FirstPackets

L == INSTANCE LinkedLists WITH Nodes <- 1 .. 4, Items <- {"a", "b"}, NULL <- 0
V == INSTANCE Vector WITH Ids <- 1 .. 2, Values <- 1 .. 2, StartSize <- 1, ElementSize <- 4,
                          SortSizes <- {4}, MaxElements <- 5
W == INSTANCE SlidingWindow WITH WindowSize <- 3, Width <- 3, Contents <- {1, 2}, Empty <- 0
B == INSTANCE Buckets WITH
       setup <- bsetup, pc <- bpc, SlotStep <- 2, NULL <- 0,
       Setups <- {[max |-> 3, each |-> 1, nodes |-> 3, spurious |-> TRUE],
                  [max |-> 3, each |-> 1, nodes |-> 3, spurious |-> FALSE],
                  [max |-> 4, each |-> 2, nodes |-> 3, spurious |-> FALSE],
                  [max |-> 8, each |-> 3, nodes |-> 2, spurious |-> FALSE]}

Publishing(combiner, parallel, types, keys, each) ==
  [combiner |-> combiner, parallel |-> parallel, types |-> types, keys |-> keys, each |-> each,
   exact |-> combiner = "sorted"]
C == INSTANCE Combiners WITH
       N <- 2, ElementSize <- 4,
       Setups <- {Publishing("ordered", TRUE, {"data", "ts"}, 1 .. 2, 2),
                  Publishing("ordered", TRUE, {"data", "count"}, 1 .. 2, 2),
                  Publishing("ordered", FALSE, {"data"}, 1 .. 3, 2),
                  Publishing("unordered", TRUE, {"data", "ts", "count"}, 1 .. 2, 2),
                  Publishing("sorted", TRUE, {"data", "ts"}, 1 .. 2, 2)}

F == INSTANCE FirstPackets WITH
       setup <- fsetup, pc <- fpc, NULL <- None, Threads <- {"one", "two"}, Stamps <- 1 .. 2, SECOND <- 2,
       Setups <- {[mode |-> "own", max_clock |-> 4, max_starts |-> 1],
                  [mode |-> "own", max_clock |-> 0, max_starts |-> 2],
                  [mode |-> "fifs", max_clock |-> 0, max_starts |-> 2]}

\* What the theorems about sliding windows and first packets take for granted.
ASSUME InstancesFit == W!WindowFits /\ F!ThreadsFit

Lvars == <<kind, list, cell, content>>
Vvars == <<vec, stored>>
Wvars == <<window, pending>>
Bvars == <<bsetup, b, node, bpc, slot, load, held, given, failed, raced>>
Cvars == <<setup, queues, published, ended, last_ts_tick, last_count_tick, out, pc, reader>>
Fvars == <<fsetup, first_packets, recorded_first, offset, fpc, packet, messages, lock, state,
           clock, starts, newest, began, shown>>
vars == <<which, Lvars, Vvars, Wvars, Bvars, Cvars, Fvars>>

NoList == kind = None /\ list = None /\ cell = None /\ content = None
NoVector == vec = None /\ stored = None
NoWindow == window = None /\ pending = None
NoBucket ==
  /\ bsetup = None /\ b = None /\ node = None /\ bpc = None /\ slot = None
  /\ load = None /\ held = None /\ given = None /\ failed = None /\ raced = None
NoCombiner ==
  /\ setup = None /\ queues = None /\ published = None /\ ended = None /\ last_ts_tick = None
  /\ last_count_tick = None /\ out = None /\ pc = None /\ reader = None
NoFirst ==
  /\ fsetup = None /\ first_packets = None /\ recorded_first = None /\ offset = None /\ fpc = None
  /\ packet = None /\ messages = None /\ lock = None /\ state = None /\ clock = None
  /\ starts = None /\ newest = None /\ began = None /\ shown = None

Init ==
  \/ which = "list"     /\ L!Init /\ NoVector /\ NoWindow /\ NoBucket /\ NoCombiner /\ NoFirst
  \/ which = "vector"   /\ V!Init /\ NoList /\ NoWindow /\ NoBucket /\ NoCombiner /\ NoFirst
  \/ which = "window"   /\ W!Init /\ NoList /\ NoVector /\ NoBucket /\ NoCombiner /\ NoFirst
  \/ which = "bucket"   /\ B!Init /\ NoList /\ NoVector /\ NoWindow /\ NoCombiner /\ NoFirst
  \/ which = "combiner" /\ C!Init /\ NoList /\ NoVector /\ NoWindow /\ NoBucket /\ NoFirst
  \/ which = "first"    /\ F!Init /\ NoList /\ NoVector /\ NoWindow /\ NoBucket /\ NoCombiner

List(A) == which = "list" /\ A /\ UNCHANGED <<which, Vvars, Wvars, Bvars, Cvars, Fvars>>
Vector(A) == which = "vector" /\ A /\ UNCHANGED <<which, Lvars, Wvars, Bvars, Cvars, Fvars>>
Window(A) == which = "window" /\ A /\ UNCHANGED <<which, Lvars, Vvars, Bvars, Cvars, Fvars>>
Bucket(A) == which = "bucket" /\ A /\ UNCHANGED <<which, Lvars, Vvars, Wvars, Cvars, Fvars>>
Combiner(A) == which = "combiner" /\ A /\ UNCHANGED <<which, Lvars, Vvars, Wvars, Bvars, Fvars>>
First(A) == which = "first" /\ A /\ UNCHANGED <<which, Lvars, Vvars, Wvars, Bvars, Cvars>>

Next == \/ List(L!Next) \/ Vector(V!Next) \/ Window(W!Next) \/ Bucket(B!Next) \/ Combiner(C!Next)
        \/ First(F!Next)

Spec == Init /\ [][Next]_vars

\* The reader of a bucket runs and packets are released at some time; the
\* reporter runs.
FairSpec ==
  /\ Spec
  /\ WF_vars(Bucket(B!Resume)) /\ WF_vars(Bucket(B!libtrace_release_bucket_id))
  /\ WF_vars(Combiner(C!Reporter))

\* A deque, a list, a vector and a sliding window give back the items put into
\* them, in order, whatever calls of deque.c, linked_list.c, vector.c and
\* sliding_window.c were made: links agree in both directions, a vector grows
\* without losing an item, and numbers of the window wrap.
ContainersKeepOrder ==
  /\ which = "list" => L!TypeOK /\ L!IsSequence
  /\ which = "vector" => V!TypeOK /\ V!HoldsItems
  /\ which = "window" => W!TypeOK /\ W!InOrder

\* Buckets: a packet's buffer is not freed before the packet is released, a bucket
\* counts its packets in use, and the asserts of libtrace_release_bucket_id hold; as
\* long as no packet of the open bucket is released while a push into it waits.
BucketsKept == which = "bucket" => B!BucketsKept

\* The asserts should hold whichever packet is released when.
BucketAssertsHold == which = "bucket" => B!AssertsHold

\* "Takes ordered input and produces ordered output" (libtrace_parallel.h)
\* should hold with ticks too.
CombinerOrderedOutput == which = "combiner" => C!OrderedOutput

\* Combiners: every result is delivered once, and results without ticks in the order
\* of their keys; no tick is delivered twice, and each tick of all threads is; and a
\* queue is popped only while it has something (the asserts of read_internal), while
\* threads go on publishing.
CombinersDeliver ==
  which = "combiner" =>
    /\ C!TypeOK /\ C!PopsSomething /\ C!AllDelivered /\ C!InKeyOrder
    /\ C!TicksOnce /\ C!TicksArrive

\* First packets: the first is the earliest, whichever thread stores it when, and where
\* threads take turns the first that was read; the asserts of trace_prestart hold; an
\* offset into trace time that a thread keeps is of that packet, or of one a second old;
\* and a packet given to a thread is not destroyed before the thread pauses.
FirstPacketsKept == which = "first" => F!FirstPacketsKept

\* A message that a first packet was seen should find one (libtrace_parallel.h).
FirstMessageHasPacket == which = "first" => F!MessageHasPacket

\* A reader that waits for a bucket id gets one, and the last read of a combiner
\* ends.
CallsReturn == (which = "bucket" => B!PushReturns) /\ (which = "combiner" => C!ReadEnds)
=============================================================================
