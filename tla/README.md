# Specifications of libtrace

TLA+ models of the library under `src/lib`: its parallel traces and the data structures
below them, sequential and written traces with the file formats, live capture, the client of
the RT protocol and the decoders of packets; the TLC runs that check them; and TLAPS proofs
about the ring buffer, the message queue, the object cache, the sliding window, the first
packets of the threads and the threads of a parallel trace.

## The system

A program **creates** a trace from a URI, configures and **starts** it, and **reads** packets;
it may copy, cut, filter and **write** them to another trace. A trace calls its *format*
through a table of functions; packets point into a buffer that belongs to the packet, to the
format or to a device. A packet caches its lengths, its link type and the layers found in it;
*decoders* walk from its link layer to its payload.

With `trace_pstart` several threads work for a trace:

* **per-packet threads** read packets, run the packet callback and publish results;
* an optional **hasher** reads all packets and deals them out, through one *ring
  buffer* per per-packet thread;
* an optional **reporter** takes results from a *combiner* and runs the result callback;
* an optional **keepalive** thread sends interval ticks;
* the program's own **main** thread pauses, restarts, stops, joins and destroys.

They share `libtrace_lock` with the condition `perpkt_cond`, a *message queue* per
thread, the counts `perpkt_thread_states`, and the *object cache* that packets come
from. `PROJECT.json` lists every part with its status, maps every definition to its lines, and
lists the hazards of the code with the properties that would show them.

## Modules

| module | models | uses |
|---|---|---|
| `RingBuffer` | `data-struct/ring_buffer.c` | |
| `BoundedFifo` | what the comment at the top of that file promises | implemented by `RingBuffer` |
| `RingBufferProofs` | proofs about the ring | `RingBuffer`, TLAPS |
| `MessageQueue` | `data-struct/message_queue.c` and the pipe below it | |
| `MessageQueueProofs` | proofs about the queue | `MessageQueue`, TLAPS |
| `ParallelTrace` | the threads of `trace_parallel.c` | ring and queue by what they promise |
| `ParallelTraceProofs` | proofs about the threads | `ParallelTrace`, TLAPS |
| `FirstPackets` | the first packets of the threads and playback in trace time (`trace_parallel.c`) | queues as sequences |
| `FirstPacketsProofs` | proofs about them | `FirstPackets`, TLAPS |
| `ObjectCache` | `data-struct/object_cache.c` | the ring by what it promises |
| `ObjectCacheMoves`, `ObjectCacheSteps`, `ObjectCacheProofs` | proofs about the cache: its invariant and what moves objects; the other steps; counting and the theorems | `ObjectCache`, TLAPS |
| `LinkedLists` | `data-struct/deque.c`, `linked_list.c` | |
| `VectorOps`, `Vector` | `data-struct/vector.c`: its calls as operators, and two vectors with their locks | |
| `SlidingWindow` | `data-struct/sliding_window.c` | |
| `SlidingWindowProofs` | proofs about the window | `SlidingWindow`, TLAPS |
| `Combiners` | `combiner_ordered.c`, `combiner_sorted.c`, `combiner_unordered.c` | deques as sequences, `VectorOps` |
| `Buckets` | `data-struct/buckets.c` | |
| `TraceBase` | what `trace.c` and the formats share (`format_helper.c`, buffers, errors), and what the capture formats share | |
| `LinkTypes` | the tables and demotions of `linktypes.c` | |
| `FormatErf`, `FormatPcapfile`, `FormatPcap` | `format_erf.c`, `format_pcapfile.c`, `format_pcap.c` | `TraceBase`, `LinkTypes` |
| `FormatsFixed` | `format_tsh.c`, `format_duck.c`, `format_atmhdr.c`, `format_legacy.c` | `TraceBase` |
| `TraceCalls` | the calls of `trace.c` on packets, on traces that are read, and on traces that are written | the file formats |
| `Trace` | a program that makes those calls | `TraceCalls` |
| `FormatLinux`, `FormatOdp`, `FormatDag`, `FormatDpdk`, `FormatBpf` | `format_linux_{common,int,ring}.c`, `format_odp.c`, `format_dag24.c` and `format_dag25.c`, `format_dpdk.c`, `format_bpf.c` | `TraceBase` |
| `LiveCapture` | a program with one or several threads that captures, and the frames that arrive | the capture formats |
| `RtClient` | `format_rt.c` and the stream it reads | `Buckets` by what it promises |
| `Headers` | the steps of the decoders from one header to the next (`protocols_*.c`) | |
| `Decoding` | a program that asks for layers, strips and truncates, with the caches of the packet | `Headers` |
| `Calculations` | checksums, hash, ports, times, radiotap fields, walks over options and OSPF items, ring geometry, each beside a reference definition | |
| `MC...` | the instances that TLC checks; `MCStructures` joins the containers, buckets, combiners and first packets, `MCDecoding` joins `Decoding` and `Calculations`, and `MCPrograms` joins these and `Trace` | |

### RingBuffer

Every reading and writing call of the file is a bulk call with particular arguments, so
`Call(t)` picks a record of `nb`, `min` and values. A step is one access to something
shared: `Lock` and `Return` are the `s-` variants' mutex, `EnterWait`, `Test`, `Sleep`
and `SpuriousWakeup` are `wait_for_empty` and `wait_for_full`, `Compare` and `Count` are the two
loads of the other side's index in `nb_empty` and `nb_full`, `WriteSlot` and `ReadSlot`
copy one item, `Publish` stores the index, `Notify` signals. A writer and a reader
are mirror images and share the steps that do not touch slots. `DoubleLoad = FALSE` is the
form of `nb_full` that is commented out in the source. The indices and slots are
sequentially consistent, which is stronger than `volatile` on weakly ordered machines.

When the index moves past the wrap between `Compare` and `Count`, the count is too large by the size of
the ring. The model goes on with it as the code does, and the history variable `torn` says
that it happened; a call of one or two items never asks for more than there is even then. The object
cache makes larger calls (object_cache.c:302, 320, 410, 428).

`BoundedFifo` is refined through the sequence of occupied slots.

### MessageQueue

`put` writes to the pipe and then counts; `get` counts and then reads; `try_get` looks at
the counter without the lock, and again with it, and reads inside the lock. Each is a
step, and so a message can be in the pipe while the counter does not say so. The pipe is
external: a bounded FIFO queue, `Write` blocks when it is full, `Read` when it is empty.

### ParallelTrace

`pc[t]` says where a thread is. A section that takes `libtrace_lock` and gives it
back without blocking is one step with the guard `Free`; where the code blocks or calls
out with the lock held, `lock` names the holder. `asleep` is the set of threads waiting on
`perpkt_cond`; a waiter may also wake by itself (`SpuriousWakeup`).

* main: `Pstart`, `PstartFails`/`Cleanup`, `Restart` (`trace_prestart`), `CallPpause` and
  the steps of `trace_ppause` in order (`AskHasher`, `WaitHasher`, `AskPerpkt`, `Nudge`,
  `WaitPerpkts`, `AskReporter`, `WaitReporter`, `PauseInput`, `SetPaused`), then for
  `trace_pstop` `SendStop` and `SetFinishing`; `CallJoin` and the joins; `Destroy`.
* per-packet: `Begin`, `Register`, `Loop` (messages), one of three readers (`ReadRing` and
  `ReadMore`; `ReadLock` and `ReadLocked`; `ReadFormat`), `Dispatch`, `Delay`, `Publish`, the pause
  (`DrainBatch`, `DrainRing`, `DrainDone`, `ThreadPause`, `Resume`), `Eof`, `Error`, `Finish`, `Post`.
  A registration that fails (`RegisterFails`) changes the thread's state without the lock (629), and so each
  load and store of a count is a step there; `UpdateLost` says that one has overwritten another's.
* hasher: `HasherLoop`, `HasherRead`, `HasherWrite`, `HasherTick`, `Broadcast`, `BroadcastWrite`.
* reporter: `ReporterLoop`, `ReporterGet`, `ReporterFinal`. keepalive: `KeepaliveLoop`.

A packet is the value `PKT`; `TICK`, `MSG`, `EOF` and `ERR` are the values of
`packet->error` that control depends on. The combiner is a number of results: the
unordered combiner passes on whatever is there. An assert that fails puts its name in
`failed` and the thread goes on, as in a build with `NDEBUG`.

The variable `conf` never changes after `Init`, which takes it from the constant `Configs`: a record of how packets are read
(`mode`), what is configured (`options`, `ring_size`, `burst`), what the input is (`input`,
`live`), what may fail (`failures`) and what the program calls (`calls`, `settle`,
`max_pauses`). One run so covers several configurations. `MCParallelTrace` defines them.
`Trace`, `LiveCapture`, `RtClient` and `ObjectCache` have a `conf` of the same kind, and
`Buckets` and `Combiners` a `setup`.

### FirstPackets

`store_first_packet` is three steps: `Read` copies and times the packet, `StoreFirst` is the
section in the spin lock, `Tell` sends the messages and marks the thread. Where threads take turns
`libtrace_lock` is held over all three. Only the messages that matter here are in the queues.

### ObjectCache and the structures

`ObjectCache` follows an `alloc` or a `free` through the thread's cache, the ring and the
allocator: `AllocFromCache`, `ReadRing`, `Reserve`; `FreeToCache`, `WriteRing`; and
`Unregister` (under the spin lock) and `Destroy`. Objects are identities, so that a copy which
forgets to remove shows as an object in two places. `Tear` happens where one thread reads from the ring
and another writes to it and one of the two calls is of three items or more: that is where `RingBuffer`
says a count may be torn, what the ring does then is anything, and the model ends.

In `LinkedLists` a node is a cell with two links, and a call relinks the cells as the code does;
the abstract content is the sequence the caller has in mind. `SlidingWindow`'s numbers and
`Buckets`' ids wrap at small widths. The wait loops of `libtrace_push_into_bucket` give up the mutex. Which
of the two loops it is, and the slot, are settled before the wait and kept in `slot`; what follows the second loop
is a step for each access (`PushPacket`, `PushLoad`, `PushStore`, `PushReturnsId`), between which packets are released.
`raced` says that one of the open bucket was.

In `Combiners` a queue's calls are atomic and the reporter's steps between them are not: `read` of the
ordered combiner scans the queues one at a time while threads publish.

### Trace and the file formats

A C function is an operator from a state record `s` (the trace, the packets, the file that is read and
the one that is written) and arguments to the *set* of its outcomes `[s, ret]`; failures of
the calls below are outcomes. `s.held` is the set of resources allocated and `s.bad`
collects misuses: a close of what is not open, a read through a packet whose trace or buffer
is gone, the last pointer to a buffer overwritten, a failed assert. The code itself does some of these; `Slips` says in which calls
and when, and `ResourcesKept` that a call misuses exactly what `Slips` says. `Trace` has one action per call of the library, and history
variables of what the program has been shown. A file is a sequence of records
whose headers carry the fields that control depends on (type, lengths, byte order,
version), cut off anywhere that `file` says; a payload is a number, and so a packet shown twice, out
of order, or with another packet's content is seen. Formats are what their tables in the source provide.

### LiveCapture and the capture formats

The same style, with in `s.k` what the kernel, the card, the driver or the ODP scheduler keeps of each stream (all external, and modelled
from how the formats use them). Frames are numbered in the order they arrive and
spread over the streams. A read has two steps, `CallRead` and `Read`: it waits in between and
has no outcome until there is a frame, a message or an interrupt. A frame in memory the
device owns can be overwritten as soon as the format has given it back.

Failures of sockets, rings, devices, pools, queues, sends and the filter are outcomes. Where the code then
goes on with something half done, `Slip` records the path, and the table `Aftermath` says what may be misused or
left over because of it: nothing else may be. A reader of a Linux ring may come around to a frame that is still held
(`Lapped`), and a DAG batch may release the records that are already in it (`s.cut`).

### RtClient

Bytes have positions and a buffer is the sequence of positions in it, so framing, copying
to a new buffer and lost bytes are seen. `Arrives` delivers any piece of the stream. Ids of packets come from the buckets.
A pause may come in the middle of a message; the piece stays in the buffer, a restart appends a new stream to it, and
what the client reads from there on is `"garbled"`, which ends the model.

### Headers, Decoding, Calculations

A packet is the sequence of its headers with their sizes, its capture length and its wire
length; a pointer is an offset; a cursor carries a pointer, a type and the bytes said to
remain, as the C functions do through their out-parameters. `Decoding` asks any of twenty
questions in any order, and cuts and strips in between, at any time; the reference
answers are computed from the stack alone. Where a step reads bytes that are not captured, both what it may find
there and its absence are in the packets (`lost`).

`Calculations` has a state machine only for the walks that a program makes one call at a time; the
others are operators checked against reference definitions on enumerated inputs.

## Runs

| run | configurations | shows |
|---|---|---|
| `ring_shared` | two writers and two readers, the locked calls, blocking and polling | a FIFO queue (refinement of `BoundedFifo`), nothing overwritten, no lost wakeup |
| `ring_bulk` | one writer, one reader, bulk calls of up to three items, the index loaded twice | their slots are disjoint until a count is torn, a waiter whose condition holds leaves its wait |
| `ring_torn` | the same, with three slots | **violation**: a torn count makes a bulk call of three items copy slots it does not own |
| `queue_shared` | two putters, two getters | the counter agrees with the pipe up to calls in progress; `try_get` never blocks with the spin lock; every message is read |
| `trace_safety` | the seven `SafetyConfigs` | the counts are right as long as none is overwritten, a pause is quiet, no packet and no result is lost, no assert fails, a finished trace is done and its file read |
| `trace_liveness` | the four `LivenessConfigs` | pause, stop, join and a failed start return, and the reporter ends |
| `trace_pause_error` | a stop after the end of the file | **violation**: `trace_ppause` keeps the lock when it fails, and `trace_join` never returns |
| `cache_shared` | two threads, with and without a limit, thread caches of 0, 1 and 2 | as long as the ring is not torn: objects are conserved and limited, `free` finds room, `alloc` returns what it was asked for, and always if there are enough objects |
| `structures` | one of each structure at a time | containers give back what was put in, buckets keep a buffer as long as its packets (unless one of the open bucket is released during a push that waits), combiners deliver every result once and in order, the first packet is the earliest and outlives its readers; waits end |
| `programs` | programs over twelve formats with files that fail; stacks of headers captured up to and around every boundary; inputs of the calculations | packets arrive once and in order, say the truth about themselves, read back as they were written; calls leak and misuse exactly what `Slips` says; decoders find what is captured whatever was asked before; checksums, hashes, ports, times, radiotap fields, walks and ring sizes agree with their references |
| `live_capture` | Linux sockets and rings, ODP, DAG, DPDK, BPF, one or two threads | every frame taken is read once and in order, memory shown stays valid, counters add up, failures leave nothing behind but what `Aftermath` says, an interrupt or a message ends a wait |
| `rt_client` | a stream cut up in any way | every message is shown once, in order, intact until it is finished, and acknowledged; a program that reads on sees all; until a restart garbles the stream |

A property that names several conjuncts groups the facts about one subject; each conjunct is a
definition of its module with its own comment.

`ring_torn` and `trace_pause_error` state what a comment of the repository says, and TLC shows the code does otherwise;
`findings` in `PROJECT.json` quotes both. Where the code does something that spoils what comes after it, the
passing runs either go through it, record that it happened and say what still holds (next table), or
choose configurations under which it does not occur (the list after it).

**Recorded defects.** Each of these happens in a passing run; the properties named are stated with the exception.

| record | where | properties | what happens |
|---|---|---|---|
| `torn` | `RingBuffer`, `ObjectCache` | `SlotsDisjoint`, `WaitEnds`; `ObjectsKept`, `FreeFindsRoom`, `AllocReturns` hold until then | two loads of an index (ring_buffer.c:125, 133) |
| `UpdateLost`, `Leaving` | `ParallelTrace` | `StatesCounted` | `thread_change_state` without the lock (trace_parallel.c:629, against the comment at 320-322: "This should always be done when the lock is held") |
| `raced` | `Buckets` | `BucketsKept` | a release moves `nextid` or `startindex` under a push that goes on without the mutex (buckets.c:136-146) |
| `Slips` | `Trace` | `ResourcesKept` says exactly when each occurs | the format's name leaked or printed after it was freed (trace.c:322, 339, 344, 483, 504), a destroyed mutex locked (691, 706), files closed that never opened (format_duck.c:140, format_atmhdr.c:89, format_legacy.c:213, format_pcap.c:375), a handle forgotten (format_pcap.c:147) or used unopened (588) |
| `Aftermath` | `LiveCapture` | `ResourcesKept` | what a failed filter, fanout, output, DAG open or start, ODP and DPDK initialisation leaves or misuses; the table names the lines |
| `"lapped"` | `LiveCapture` | `FramesPassOnce`, `PacketsTrue` | the reader of a ring comes around to a frame that is held and shows it again (format_linux_ring.c:480) |
| `cut`, `Forgotten` | `LiveCapture` | `PacketsTrue`, `FramesPassOnce` | looking for another packet of a DAG batch releases the records of the batch (format_dag25.c:1368); an error forgets those read before it (1359) |
| failed sends | `LiveCapture` | `FramesPassOnce` | a write whose `sendto` fails has put its frame in the ring, and the frame is sent later (format_linux_ring.c:690-699) |
| `"garbled"` | `RtClient` | `StreamKept`, `AllShown` | a piece of a message stays in the buffer over a pause (format_rt.c:291-307) |
| `Mistyped` | `Decoding` | `SameAnswer` | a kept header behind metadata gets the type of the metadata (protocols_l2.c:452, against libtrace.h.in:2023) |
| `AsKept` | `Decoding` | `SameAnswer` | a packet cut after a header was kept answers as if it were not |
| `Misjudged` | `Decoding` | `HeadersFound` | 802.11 headers of 24 and 26 bytes refused (protocols_l2.c:267), the count behind longer ones wraps (301), LLC/SNAP and OpenBSD's loopback header not counted |
| IPv6 extensions | `Decoding` | `PayloadLengthTrue` | counted as payload (protocols_transport.c:99, against libtrace.h.in:3177) |
| capture padding | `Decoding` | `StripKeepsLayer3` | becomes part of a stripped packet |

**Other counterexamples.** These are not runs. Each is had with the constant, property and
specification named, in a configuration otherwise like that of the module's run.

| module | constant | property, specification | what happens |
|---|---|---|---|
| `MCParallelTrace` | `BroadcastConfigs` | `NoWaitWithLock`, `Spec` | the hasher waits for room in a ring inside the lock (trace_parallel.c:867) |
| | `TickBatchConfigs` | `FileIsRead`, `Spec` | a tick inside a batch ends the trace (967) |
| | `RepauseConfigs` | `PausedIsQuiet`, `Spec` | a second pause leaves packets in a ring (2022) |
| | `FinishedPausedConfigs` | `FinishedIsFinal`, `Spec` | PAUSED overwrites FINISHED (2072) |
| | `FifsFilterConfigs` | `NoSelfDeadlock`, `Spec` | a filtered packet locks the lock its thread holds (trace.c:945) |
| | `HasherStopConfigs` | `AssertsHold`, `Spec` | `trace_pstop` sends `DO_STOP` to a hasher whose assert (815) wants the trace FINISHED already |
| | `PauseAtEofConfigs` | `PauseReturns`, `FairSpec` | a thread that keeps an EOF cannot take the nudge from its ring, and its pause spins (580) |
| | `StartConfigs` | `AssertsHold`, `Spec` | a failed start expects no thread to be counted as running, and counts threads that were never counted in |
| | `StartConfigs` | `AbortedStart`, `Spec` | the last per-packet thread to leave turns ERROR into FINISHED (349); a thread that looks later enters its loop |
| | `RegisterConfigs` | `ReporterEnds`, `FairSpec` | the last thread leaves by a failed registration and does not wake the reporter (629) |
| | `LostUpdateConfigs` | `UpdatesKept`, `Spec` | two threads whose registrations fail overwrite each other's count |
| `MCStructures` | | `BucketAssertsHold`, `Spec` | a packet released during a push that waits has another's slot, and the assert of its release fails (buckets.c:164, 173, 174) |
| | | `CombinerOrderedOutput`, `Spec` | with ticks the ordered combiner's output is not ordered (combiner_ordered.c:137, against libtrace_parallel.h:1365) |
| | | `FirstMessageHasPacket`, `Spec` | a message that a first packet was seen waits in the queue of a paused thread; after the restart there is no such packet (trace_parallel.c:1021, against libtrace_parallel.h:196) |
| `MCRtClient` | `Configs <- ReuseConfigs` | `ReadFinishes`, `Spec` | reading into a packet of another trace does not finish it, and its bucket id is never given back (trace.c:921, against the comment at 918) |

### What the configurations leave out because of a defect

* **ParallelTrace**: a program that pauses or stops a
  trace which is not running, or pauses it before its threads have woken from the last
  pause (the first of `SafetyConfigs`, where there is no ring to leave a packet in, does so); pauses of a
  file; `trace_pstop` with a hasher and its assert; count ticks with a batch of more
  than one; a hasher at the end of a file whose rings may be full; a filter with threads that take
  turns.
* **Object cache**: `AllocReturns` is about caches with enough objects for what every thread may keep;
  with fewer, a thread waits for objects idle in the caches of others.
* **Buckets**: a spurious wakeup with a lost signal; one bucket with all ids.
* **Combiners**: the key 0 (taken for an empty queue) and the largest key; `InKeyOrder` is about
  results without ticks, because a count tick is recorded when it is looked at and not when it is
  taken. `vector_qsort` is given the size of an element as the number of
  elements (vector.c:137), and so a vector is sorted only up to that size.
* **FirstPackets**: a batch that begins with a tick, whose next packet is delayed with no
  first packet (the assert of `delay_tracetime`).
* **Trace**: reading a packet of another trace, which is not finished first; a short read that leaves `errno` 0,
  for which `trace_set_err` asserts; a truncated DUCK or ATM record, returned with an error set;
  legacy captures of 64 bytes; a pcap file of mixed link types; zero-length pcap captures;
  a pcap file restarted after a
  pause, which is read from its start; a copy of an ERF packet with a receive error; packets used after their trace is
  destroyed; a filter over several link types; an event waiting while the trace is paused, and an event read into a
  packet with its own buffer; SLL conversions, which change the wire length each time.
* **LiveCapture**: statistics
  of several streams, each of which overwrites the one before; packets finished after a pause; halting ODP and DAG 2.4
  reads; DAG batches held over the next read; restarted DAG threads; DPDK sequential
  restarts, events, and several streams of output; BPF packets that own a buffer.
* **RtClient**: packets reused from another trace, events with a filter, empty
  messages other than the end, and failing connections.
* **Decoding**: AH; the last LSA of an OSPF update, for which
  a pointer is compared with zero and 1 is returned (against libtrace.h.in:2784); LSAs shorter than their header.

## Bounds

* Rings have capacity two or three, so that indices wrap within a few calls, and two threads on
  each side compete for each lock; `ring_bulk` and `ring_torn` have one value, since their properties are about
  indices, and calls of three items, the least that a torn count misleads. The pipe holds two messages, so that it fills.
* Traces have two per-packet threads (the least for which one may finish, pause or wake before
  another), rings of two slots with batches of two (a batch and a ring can both be half full), files
  of two or three packets, two results waiting, one tick waiting. Two pauses have a restart in
  between, and a stop may follow. `input`, `max_pauses`, `MaxResults` and `MaxTicks` are bounds of the
  models, not of the code.
* Caches have four objects with a limit and three without, and rings of one or three: a
  thread cache, the ring and the allocator can each be the one that runs out.
* Lists have four nodes (a middle with two ends), vectors start with one element and
  grow to five (several doublings), the window has three slots and 3-bit numbers, buckets two or three nodes with ids
  that wrap at 3, 4 or 8 (at 4, a push waits in a bucket that has a packet), combiners two queues of two results.
* First packets: two threads, two stamps, a clock of two units to the second that runs for two seconds, or two starts.
* Trace files have one to three records, with a cut anywhere; up to two packets, one copy and one output.
* Live captures have up to five frames, rings of two or three slots (so that they wrap), two packets and
  two streams.
* The RT stream has messages of up to five units, a header of two, a buffer of eight and an
  acknowledgement every two messages, so that a message straddles a buffer.
* Packets have every header that has a step of its own, metadata, 802.11 headers of all four sizes and padding among them, and captures
  that end at, one before and one behind every boundary; a truncation is to 30 or 40 bytes.
  Constants of the calculations are scaled down (`SECOND = 22`, `MICROS = 4`, `THOUSAND = 5`, `HASH_BYTES = 2`, `KEY_BYTES = 10`); the
  definitions use them by name.

## Fairness

* Ring, queue, ParallelTrace and ObjectCache: weak fairness of every thread's own steps: the
  operating system runs every runnable thread, and no thread stops in the middle of a call. The
  program is fair only in that it joins a trace it has stopped or that has finished. None is
  assumed for the environment (arrival of packets, failures) nor for mutexes: `WaitEnds` is about a
  waiter that is alone on its side of the ring. The configurations of `trace_liveness` have no
  keepalive thread: a clock may tick any number of times between two steps in the model, which says
  nothing about the program.
* Structures: the bucket's reader and the reporter run, and packets are released at some time.
* LiveCapture: a read that has been called goes on when it can. Frames need not arrive: `ReaderWakes` is about interrupts and messages.
* RtClient: strong fairness of `Arrives` (TCP delivers what was sent as long as the client keeps asking), weak
  fairness of the client's calls: a program that reads on.
* Programs (`Trace`, `Decoding`): none; their properties are safety.

## Deadlock

Checked, except where a program may end (`cache_shared`, `structures`, `programs`,
`live_capture`, `rt_client`: the trace is destroyed, the walk is over, the stream has ended;
in `cache_shared` an `alloc` may also wait for objects that nobody gives back) and in
`trace_pause_error`, which shows that the program does stop.

## Proofs

`RingBufferProofs` proves for every number of writers and readers, every capacity and
every call size, from `RingAssumption`: `TypeCorrect` and `WakeupsAreKept`, whatever was torn; `SlotsAreDisjoint` and `ItemsAreKept`
until a count is torn; and, from `BulkSafe` (bulk calls of at most two items, or the index loaded once),
`SmallBulksKeepItems`: no count is ever torn and so `NoClobber` holds without exception.

They rest on `IInv` (`RingInvariant`), which adds to `TypeOK`, `NoLostWakeup` and the slots'
disjointness what makes them inductive: at most one writer (reader) is past its lock
(`OneInside`); the arguments of a call fit its progress (`OpOK`); and what a thread in
the middle of a copy knows of the distance between the indices (`WriterView`,
`ReaderView`), which only grows in its favour when the other side moves, and which is
claimed only while nothing is torn.

`MessageQueueProofs` proves for every number of threads `CountIsAccurate` (`Accounting`)
and `TryGetNeverBlocks` (`TryGetReads`): the counter plus the getters that have counted
and not read is the pipe's length less the putters that have written and not counted.

`SlidingWindowProofs` proves `WindowReadsInOrder` (`InOrder` of `SlidingWindow`, a conjunct of
`ContainersKeepOrder`) for every size of window and every width of numbers with `WindowFits`. `TypeOK /\
InOrder` is inductive as it stands; the work is in the arithmetic of two
rings that turn together, slots and numbers: `Distance`, `OnlyOne`, `MoveOn`, `NextSlot` and `LastSlot` say what
moving the start by one does to the distance of a slot and of a number from it.

`ObjectCacheProofs` proves, for every number of threads and objects and every sizes of ring and
caches that `CacheAssumption` allows, `ObjectsConserved` (`ObjectsKept`) and `FreeNeverBlocks`
(`FreeFindsRoom`): each object is in one place, no more are made than the limit, an `alloc`
returns no fewer than its minimum, `destroy` finds every object, and a `free` always finds room in
the ring; all of it as long as no call on the ring may be torn. `Inv`, in `ObjectCacheMoves`, adds to `OnePlace`, `LimitKept` and `NothingLeaks` what makes them
inductive: what a call under way has got and still needs (`AllocStage`, `FreeStage`: without them nothing
says that an `alloc` that gives up has its minimum), that a cache which holds objects is on the list
that `destroy` walks (`Listed`), and that nobody holds anything once the cache is destroyed (`Ends`).
`FreeFindsRoom` is no part of it: it follows from counting, since an object that is about to be
written is one of at most `max_allocations` live ones and so not in the ring. The assumption adds
to what the code checks only that there is a thread and that objects are finitely many.

`FirstPacketsProofs` proves `FirstPacketsAgreed` (`FirstPacketsKept` of `FirstPackets`, which
`MCStructures` checks under the same name) for every set of threads and every packets and stamps
with `ThreadsFit`. Its `Inv` relates the messages to the program counters: a pause asks each
thread once (`Phases`), a thread is marked when it has stored or is about to say so (`Marks`), and
the queue of a thread has room for what the others will tell it (`Waiting`); with turns, that the
lock is held from the read of a first packet until it is told (`Turns`).

`ParallelTraceProofs` proves about the threads of a trace, for every number of per-packet threads
and every set of configurations that `TraceAssumption` allows (any sizes of ring and batch, any
input, any of the options and of the failures but `"register"`, and programs that pause whenever they like):

* in every configuration, `CountsAreTrue` (`StatesCounted`); `PausedThreadsRest`, the part of
  `PausedIsQuiet` about per-packet threads and their batches; and `FinishIsTrue`, the parts
  `FinishedIsDone` and `ResultsReported` of `EndIsComplete`;
* without a hasher, `PausesAreQuiet` (`PausedIsQuiet`), `EndComplete` (`EndIsComplete`),
  `NoAssertFails` (`AssertsHold`) unless starting threads fails, and `NoPacketLost` (`NothingLost`)
  unless reads fail while messages interrupt batches (`tracetime`): then a thread that is told to
  stop drops the batch it had put off. With a hasher these are model-checked only, for the
  configurations of `trace_safety`: as they stand most of them are false of it (see "Other
  counterexamples": a second pause, `trace_pstop`'s message to the hasher, a tick inside a batch).

`IInv` has three parts. `Control` is about states, counts and program counters: what `t->state` says of
where a thread is (`Matches`), that the counts are the sizes of the sets of threads (`Counts`; a
start that failed does not set them, but those that have finished are counted always), that the
trace's state says how far `trace_ppause` is unless all threads have ended (`Pauses`: from the
wait for the threads on none runs, because a paused thread goes back to its loop only in a state that
`trace_ppause` has left), and who has left when `trace_join` goes on (`Joins`) and when the
reporter does (`Reported`). `Room` says where a batch is empty. `Alone` is about traces without a
hasher: unless reads fail, a thread that is asked to stop has no packets, and while the format is
not started no thread is about to read (`Started`: nobody runs, or everyone has been asked to stop or
is ending), which is why no read fails by itself, and why the end of a thread means the end
of the file. The assumptions say no more than that the threads are distinct, that there is a
per-packet thread, and what `verify_configuration` and the modelled options are. That no registration
fails is the premise of every theorem because a failing one changes the counts without the lock, and a count that is overwritten
is what all of `Control` rests on; `trace_safety` checks such registrations up to then.

Only model-checked: `IsFifo` (its mapping builds a sequence from the indices, and needs
induction over data), all liveness (fairness is out of the prover's reach; `AllocReturns` among
it), a trace with a hasher beyond what is said above, the other structures, `Trace`, `LiveCapture`, `RtClient` and
the decoders, several of which are written with recursive operators over data.

## Not modelled

* `ParallelTrace`: `trace_interrupt`, a worker that pauses its own trace, a restart whose
  `start_input` fails.
* `object_cache.c`: `resize_memory_caches` (more than sixteen caches in one thread).
* `trace.c`, file formats: seeking (format_erf.c 285-386), time stamps other than as the order
  of packets, statistics objects, `promote_packet` (linktypes.c 247-310), whose sizes depend on
  the width of long; libpcap's own directions and statistics (format_pcap.c 614-636, 758-777).
* Capture formats: parsing of device names and addresses, driver tables, and what sockets and
  cards do when they are set up.
* Decoders: addresses as text, OSPF metrics, and getters that read one field and branch on nothing.
* The BPF code generator (`bpf-jit`), which calls LLVM; `libpacketdump`, which prints; the
  tools and examples, clients of the library whose calls the models enumerate; and replacements for
  missing C library calls.
