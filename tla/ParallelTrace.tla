--------------------------- MODULE ParallelTrace ---------------------------
(***************************************************************************)
(* The life of a parallel trace (lib/trace_parallel.c): the main thread    *)
(* starts, pauses, restarts, stops, joins and destroys the trace, while    *)
(* the per-packet threads, the hasher, the reporter and the keepalive      *)
(* thread run their loops.                                                 *)
(*                                                                         *)
(* The threads share libtrace_lock and perpkt_cond, a message queue each   *)
(* (module MessageQueue: put and try_get take effect in one step), and,    *)
(* with a hasher, a ring buffer per per-packet thread (module RingBuffer:  *)
(* a bounded FIFO queue whose write blocks when it is full).  A section    *)
(* that takes libtrace_lock and gives it back without blocking in between  *)
(* is one step that needs the lock to be free; where the code blocks or    *)
(* calls out with the lock held, lock names the holder.                    *)
(*                                                                         *)
(* A failing assert adds its name to failed and the thread goes on, as it  *)
(* does in a build with NDEBUG (ASSERT_RET still runs its call there).     *)
(***************************************************************************)
EXTENDS Integers, Sequences, FiniteSets

CONSTANTS
  main, hasher, reporter, keepalive,  \* the threads that are not per-packet
  NoThread,      \* the holder of the free lock
  N,             \* perpkt_thread_count
  Configs,       \* the configurations and programs to consider (see conf)
  MaxResults,    \* bound: results waiting in the combiner
  MaxTicks       \* bound: interval ticks waiting for a per-packet thread

Perpkts == 1 .. N

ASSUME TraceAssumption ==
  /\ N \in Nat \ {0} /\ MaxResults \in Nat
  /\ {main, hasher, reporter, keepalive, NoThread} \cap Perpkts = {}
  /\ hasher # main /\ reporter \notin {main, hasher} /\ keepalive \notin {main, hasher, reporter}
  /\ NoThread \notin {main, hasher, reporter, keepalive}
  /\ \A c \in Configs :
       /\ c.ring_size \in Nat \ {0} /\ c.burst \in Nat \ {0} /\ c.input \in Nat
       /\ c.mode \in {"hasher", "fifs", "format"}
       \* verify_configuration: a hasher is for more than one thread; so is fifs.
       /\ c.mode # "format" => N > 1
       /\ c.options \subseteq {"reporter", "keepalive", "polling", "ticks", "tracetime", "filter"}
       /\ "ticks" \in c.options => c.mode = "hasher"
       /\ c.failures \subseteq {"start", "register", "read"}
       /\ c.calls \subseteq {"ppause", "pstop", "join"}

VARIABLES
  conf,                  \* the configuration and the program; it never changes
  state,                 \* libtrace->state
  started,               \* libtrace->started
  lock,                  \* the holder of libtrace_lock
  asleep,                \* the threads waiting on perpkt_cond
  tstate,                \* t->state of every thread
  perpkt_thread_states,  \* the number of per-packet threads in each state
  messages,              \* t->messages
  rbuffer,               \* t->rbuffer of every per-packet thread
  format_data,           \* t->format_data: an EOF or error kept for later
  packets,               \* what a per-packet thread read and not dispatched
  pc,                    \* where every thread is
  i,                     \* the loop index of main and hasher; the count that
                         \* a per-packet thread loaded without the lock
  error,                 \* packet->error of the hasher's last read
  results,               \* the results in the combiner's queues
  left,                  \* the packets of the file nobody has read
  pauses,                \* the pauses so far
  stopping,              \* TRUE: the program has called trace_pstop
  lost,                  \* TRUE: a packet was destroyed and never dispatched
  failed                 \* the asserts that failed, and "lost_update": a count
                         \* was stored over one newer than the one loaded

vars == <<conf, state, started, lock, asleep, tstate, perpkt_thread_states, messages,
          rbuffer, format_data, packets, pc, i, error, results, left, pauses,
          stopping, lost, failed>>

\* The fields of conf: how a per-packet thread reads ("hasher": from its ring;
\* "fifs": under the lock; "format": from the format) and libtrace->config, ...
Mode         == conf.mode
RingSize     == conf.ring_size              \* hasher_queue_size
Burst        == conf.burst                  \* burst_size
HasReporter  == "reporter" \in conf.options
HasKeepalive == "keepalive" \in conf.options
Polling      == "polling" \in conf.options  \* reporter_polling
Ticks        == "ticks" \in conf.options    \* tick_count is 1: every packet ticks
Tracetime    == "tracetime" \in conf.options  \* messages interrupt packets' delays
Filter       == "filter" \in conf.options
\* ... the input (a file of so many packets, or one that does not end), what
\* may fail, what the program calls, whether it calls trace_ppause only while
\* the trace and all its threads run, and how many times.
Input     == conf.input
Live      == conf.live
Failures  == conf.failures
Calls     == conf.calls
Settle    == conf.settle
MaxPauses == conf.max_pauses

Workers == Perpkts
           \cup (IF Mode = "hasher" THEN {hasher} ELSE {})
           \cup (IF HasReporter THEN {reporter} ELSE {})
           \cup (IF HasKeepalive THEN {keepalive} ELSE {})
Threads == Workers \cup {main}

TStates == {"RUNNING", "PAUSED", "FINISHED"}
States  == {"NEW", "RUNNING", "PAUSING", "PAUSED", "ERROR", "FINISHING",
            "FINISHED", "JOINED", "DESTROYED"}
\* packet->error: a packet, READ_TICK, READ_MESSAGE, READ_EOF, READ_ERROR.
Items == {"PKT", "TICK", "MSG", "EOF", "ERR"}
None == "NULL"

\* What thread_change_state writes, what the threads read from, and the rest.
status  == <<state, asleep, tstate, perpkt_thread_states>>
buffers == <<rbuffer, format_data, packets>>
locals  == <<i, error>>
program == <<started, pauses, stopping>>
record  == <<results, left, lost, failed>>

Init ==
  /\ conf \in Configs
  /\ state = "NEW"
  /\ started = FALSE
  /\ lock = NoThread
  /\ asleep = {}
  /\ tstate = [t \in Workers |-> "RUNNING"]
  /\ perpkt_thread_states = [s \in TStates |-> 0]
  /\ messages = [t \in Workers |-> <<>>]
  /\ rbuffer = [p \in Perpkts |-> <<>>]
  /\ format_data = [p \in Perpkts |-> None]
  /\ packets = [p \in Perpkts |-> <<>>]
  /\ pc = [t \in Threads |-> IF t = main THEN "user" ELSE "none"]
  /\ i = [t \in {main, hasher} \cup Perpkts |-> 0]
  /\ error = "PKT"
  /\ results = 0
  /\ left = Input
  /\ pauses = 0
  /\ stopping = FALSE
  /\ lost = FALSE
  /\ failed = {}

-----------------------------------------------------------------------------
(* Helpers.                                                                *)

Goto(t, label) == pc' = [pc EXCEPT ![t] = label]
Free == lock = NoThread
Asserts(label, condition) == failed' = IF condition THEN failed ELSE failed \cup {label}

trace_has_finished == state \in {"FINISHED", "JOINED"}

\* libtrace_change_state: set the state and broadcast perpkt_cond.
libtrace_change_state(s) == state' = s /\ asleep' = {}

\* Mutant: the previous state's count is not decremented.
Recount_NoDecrement(t, s) ==
  IF t \notin Perpkts THEN perpkt_thread_states
  ELSE [perpkt_thread_states EXCEPT ![s] = @ + 1]

\* What perpkt_thread_states is once t has gone from its state to s.
Recount(t, s) ==
  IF t \notin Perpkts THEN perpkt_thread_states
  ELSE [r \in TStates |-> perpkt_thread_states[r] - (IF r = tstate[t] THEN 1 ELSE 0)
                                                  + (IF r = s THEN 1 ELSE 0)]

\* Mutant: one thread too early.
StateAfter_Early(counts) == IF counts["FINISHED"] = N - 1 THEN "FINISHED" ELSE state

\* The trace state after thread_change_state has updated the counts.
StateAfter(counts) == IF counts["FINISHED"] = N THEN "FINISHED" ELSE state

\* thread_change_state: set, count, finish the trace with its last thread,
\* and broadcast.
thread_change_state(t, s) ==
  /\ tstate' = [tstate EXCEPT ![t] = s]
  /\ perpkt_thread_states' = Recount(t, s)
  /\ state' = StateAfter(perpkt_thread_states')
  /\ asleep' = {}

\* trace_message_thread, and trace_message_perpkts, which skips the threads
\* that have finished.
Send(t, m) == messages' = [messages EXCEPT ![t] = Append(@, m)]
SendPerpkts(m) ==
  messages' = [t \in Workers |->
    IF t \in Perpkts /\ tstate[t] \in {"RUNNING", "PAUSED"}
    THEN Append(messages[t], m) ELSE messages[t]]

Full(p) == Len(rbuffer[p]) = RingSize
HasPacket(s) == \E k \in DOMAIN s : s[k] = "PKT"

-----------------------------------------------------------------------------
(* trace_pstart.  The lock is held throughout: the new threads wait for it.*)

Pstart ==
  /\ pc[main] = "user" /\ state = "NEW" /\ Free
  /\ perpkt_thread_states' = [perpkt_thread_states EXCEPT !["RUNNING"] = N]
  /\ started' = TRUE
  /\ libtrace_change_state("RUNNING")
  /\ pc' = [t \in Threads |-> IF t = main THEN "user" ELSE "start"]
  /\ UNCHANGED <<lock, tstate, messages, buffers, locals, pauses, stopping, record>>

\* The order in which the threads are started.
Rank(t) == CASE t = hasher -> 0 [] t = reporter -> N + 1 [] t = keepalive -> N + 2
             [] OTHER -> t

\* Mutant: the threads are joined with the lock held.
PstartFails_Locked ==
  /\ "start" \in Failures
  /\ pc[main] = "user" /\ state = "NEW" /\ Free
  /\ lock' = main
  /\ pc' = [t \in Threads |-> IF t = main THEN "cleanup" ELSE "start"]
  /\ perpkt_thread_states' = [perpkt_thread_states EXCEPT !["RUNNING"] = N]
  /\ libtrace_change_state("ERROR")
  /\ UNCHANGED <<tstate, messages, buffers, locals, program, record>>

\* cleanup_threads: what comes after the threads of rank k and below fails.
\* The counts are set only when every thread has been started.
PstartFails ==
  /\ "start" \in Failures
  /\ pc[main] = "user" /\ state = "NEW" /\ Free
  /\ \E k \in 0 .. N + 2 :
       LET begun == {t \in Workers : Rank(t) <= k} IN
       /\ pc' = [t \in Threads |-> IF t = main THEN "cleanup"
                                    ELSE IF t \in begun THEN "start" ELSE "none"]
       /\ perpkt_thread_states' = [perpkt_thread_states EXCEPT
            !["RUNNING"] = IF begun = Workers THEN N ELSE 0]
  /\ libtrace_change_state("ERROR")
  /\ UNCHANGED <<lock, tstate, messages, buffers, locals, program, record>>

\* It joins the threads it has started, and gives up.
Cleanup ==
  /\ pc[main] = "cleanup" /\ Free
  /\ \A t \in Workers : pc[t] \in {"none", "exit"}
  /\ libtrace_change_state("NEW")
  /\ Asserts("cleanup_running", perpkt_thread_states["RUNNING"] = 0)
  /\ perpkt_thread_states' = [perpkt_thread_states EXCEPT !["FINISHED"] = 0]
  /\ Goto(main, "end")
  /\ UNCHANGED <<lock, tstate, messages, buffers, locals, program, results, left, lost>>

\* trace_prestart, for a paused trace.
Restart ==
  /\ pc[main] = "user" /\ state = "PAUSED" /\ ~stopping /\ Free
  /\ Asserts("prestart_running", perpkt_thread_states["RUNNING"] = 0)
  /\ started' = TRUE
  /\ libtrace_change_state("RUNNING")
  /\ UNCHANGED <<lock, tstate, perpkt_thread_states, messages, buffers, pc, locals,
                 pauses, stopping, results, left, lost>>

-----------------------------------------------------------------------------
(* trace_ppause, called by the program and by trace_pstop.                 *)

\* Where ppause returns to: the program, or the rest of trace_pstop.
PauseReturn(stop) == IF stop THEN "sendstop" ELSE "user"

CallPpause(stop) ==
  /\ pc[main] = "user" /\ state # "NEW" /\ ~stopping
  /\ (IF stop THEN "pstop" ELSE "ppause") \in Calls
  /\ Settle => state = "PAUSED" \/ (state = "RUNNING" /\ \A t \in Workers : tstate[t] # "PAUSED")
  /\ Free
  /\ stopping' = stop
  /\ \/ /\ state = "PAUSED"
        /\ Goto(main, PauseReturn(stop))
        /\ UNCHANGED <<lock, state, asleep, i, pauses>>
     \* The error is returned with the lock held.
     \/ /\ state # "PAUSED" /\ (~started \/ state # "RUNNING")
        /\ lock' = main
        /\ UNCHANGED <<state, asleep, pc, i, pauses>>
     \/ /\ started /\ state = "RUNNING" /\ (stop \/ pauses < MaxPauses)
        /\ libtrace_change_state("PAUSING")
        /\ pauses' = IF stop THEN pauses ELSE pauses + 1
        /\ i' = [i EXCEPT ![main] = 1]
        /\ Goto(main, IF Mode = "hasher" THEN "askhasher" ELSE "askperpkt")
        /\ UNCHANGED lock
  /\ UNCHANGED <<started, tstate, perpkt_thread_states, messages, buffers, error, record>>

\* A message to the hasher or to the reporter, whether it still runs or not.
Ask(t, from, to) ==
  /\ pc[main] = from
  /\ Send(t, "DO_PAUSE")
  /\ Goto(main, to)
  /\ UNCHANGED <<status, lock, buffers, locals, program, record>>

\* while (condition) pthread_cond_wait(...), for main.
Await(label, done, next) ==
  /\ pc[main] = label /\ main \notin asleep /\ Free
  /\ IF done THEN Goto(main, next) /\ UNCHANGED asleep
     ELSE asleep' = asleep \cup {main} /\ UNCHANGED pc
  /\ UNCHANGED <<state, tstate, perpkt_thread_states, lock, messages, buffers, locals,
                 program, record>>

AskHasher == Ask(hasher, "askhasher", "waithasher")
\* Mutant: the hasher is not waited for.
WaitHasher_Skipped == Await("waithasher", TRUE, "askperpkt")

WaitHasher == Await("waithasher", tstate[hasher] # "RUNNING", "askperpkt")

AskPerpkt ==
  /\ pc[main] = "askperpkt"
  /\ IF i[main] <= N
     THEN /\ Send(i[main], "DO_PAUSE")
          /\ IF Mode = "hasher"
             THEN Goto(main, "nudge") /\ UNCHANGED i
             ELSE i' = [i EXCEPT ![main] = @ + 1] /\ UNCHANGED pc
     ELSE Goto(main, "waitperpkts") /\ UNCHANGED <<messages, i>>
  /\ UNCHANGED <<status, lock, buffers, error, program, record>>

\* Mutants: no message packet; a write that does not wait for room.
Nudge_Missing ==
  /\ pc[main] = "nudge"
  /\ i' = [i EXCEPT ![main] = @ + 1]
  /\ Goto(main, "askperpkt")
  /\ UNCHANGED <<status, lock, messages, buffers, error, program, record>>
Nudge_NoWait ==
  /\ pc[main] = "nudge"
  /\ rbuffer' = [rbuffer EXCEPT ![i[main]] = Append(@, "MSG")]
  /\ i' = [i EXCEPT ![main] = @ + 1]
  /\ Goto(main, "askperpkt")
  /\ UNCHANGED <<status, lock, messages, format_data, packets, error, program, record>>

\* A message packet, so that a thread that waits for its ring looks up.
Nudge ==
  /\ pc[main] = "nudge" /\ ~Full(i[main])
  /\ rbuffer' = [rbuffer EXCEPT ![i[main]] = Append(@, "MSG")]
  /\ i' = [i EXCEPT ![main] = @ + 1]
  /\ Goto(main, "askperpkt")
  /\ UNCHANGED <<status, lock, messages, format_data, packets, error, program, record>>

WaitPerpkts ==
  Await("waitperpkts", perpkt_thread_states["RUNNING"] = 0,
        IF HasReporter THEN "askreporter" ELSE "pauseinput")

AskReporter == Ask(reporter, "askreporter", "waitreporter")
WaitReporter == Await("waitreporter", tstate[reporter] # "RUNNING", "pauseinput")

\* The format is paused: ppause_input, or trace_pause.
PauseInput ==
  /\ pc[main] = "pauseinput"
  /\ started' = FALSE
  /\ Goto(main, "setpaused")
  /\ UNCHANGED <<status, lock, messages, buffers, locals, pauses, stopping, record>>

SetState(label, s, next) ==
  /\ pc[main] = label /\ Free
  /\ libtrace_change_state(s)
  /\ Goto(main, next)
  /\ UNCHANGED <<lock, tstate, perpkt_thread_states, messages, buffers, locals, program, record>>

SetPaused == SetState("setpaused", "PAUSED", PauseReturn(stopping))

\* trace_pstop: DO_STOP to the per-packet threads that run, to the hasher,
\* and to every per-packet thread once more.
SendStop ==
  /\ pc[main] = "sendstop"
  /\ messages' = [t \in Workers |->
       CASE t \in Perpkts /\ tstate[t] # "FINISHED" -> messages[t] \o <<"DO_STOP", "DO_STOP">>
         [] t \in Perpkts \/ t = hasher -> Append(messages[t], "DO_STOP")
         [] OTHER -> messages[t]]
  /\ Goto(main, "setfinishing")
  /\ UNCHANGED <<status, lock, buffers, locals, program, record>>

SetFinishing == SetState("setfinishing", "FINISHING", "user")

-----------------------------------------------------------------------------
(* trace_join and trace_destroy.                                           *)

CallJoin ==
  /\ pc[main] = "user" /\ "join" \in Calls
  /\ stopping \/ trace_has_finished \/ (~Live /\ state \notin {"NEW", "PAUSED"})
  /\ i' = [i EXCEPT ![main] = 1]
  /\ Goto(main, "joinperpkt")
  /\ UNCHANGED <<status, lock, messages, buffers, error, program, record>>

\* "do our best effort to empty the queue": its packets are destroyed.
JoinPerpkt ==
  /\ pc[main] = "joinperpkt" /\ i[main] <= N /\ pc[i[main]] = "exit"
  /\ Asserts("join_perpkt", tstate[i[main]] = "FINISHED")
  /\ lost' = (lost \/ HasPacket(rbuffer[i[main]]))
  /\ rbuffer' = [rbuffer EXCEPT ![i[main]] = <<>>]
  /\ i' = [i EXCEPT ![main] = @ + 1]
  /\ UNCHANGED <<status, lock, messages, format_data, packets, pc, error, program, results, left>>

\* The hasher, and the rings once it has gone.
JoinHasher ==
  /\ pc[main] = "joinperpkt" /\ i[main] > N
  /\ Mode = "hasher" => pc[hasher] = "exit"
  /\ Asserts("join_hasher", Mode = "hasher" => tstate[hasher] = "FINISHED")
  /\ lost' = (lost \/ \E p \in Perpkts : HasPacket(rbuffer[p]))
  /\ rbuffer' = [p \in Perpkts |-> <<>>]
  /\ Goto(main, "joinreporter")
  /\ UNCHANGED <<status, lock, messages, format_data, packets, locals, program, results, left>>

JoinReporter ==
  /\ pc[main] = "joinreporter"
  /\ HasReporter => pc[reporter] = "exit"
  /\ Asserts("join_reporter", HasReporter => tstate[reporter] = "FINISHED")
  /\ IF HasKeepalive THEN Send(keepalive, "DO_STOP") ELSE UNCHANGED messages
  /\ Goto(main, "joinkeepalive")
  /\ UNCHANGED <<status, lock, buffers, locals, program, results, left, lost>>

JoinKeepalive ==
  /\ HasKeepalive => pc[keepalive] = "exit"
  /\ SetState("joinkeepalive", "JOINED", "joined")

\* trace_destroy; the combiner expects its queues to be empty.
Destroy ==
  /\ pc[main] = "joined"
  /\ failed' = failed \cup (IF Free THEN {} ELSE {"destroy_lock"})
                      \cup (IF HasReporter /\ results > 0 THEN {"destroy_combiner"} ELSE {})
  /\ state' = "DESTROYED"
  /\ Goto(main, "end")
  /\ UNCHANGED <<started, lock, asleep, tstate, perpkt_thread_states, messages, buffers,
                 locals, pauses, stopping, results, left, lost>>

-----------------------------------------------------------------------------
(* What the threads have in common.                                        *)

\* Every entry function takes the lock once, and leaves if the start failed.
Begin(t) ==
  /\ pc[t] = "start" /\ Free
  /\ IF state = "ERROR"
     THEN thread_change_state(t, "FINISHED") /\ Goto(t, "exit")
     ELSE UNCHANGED status /\ Goto(t, IF t \in Perpkts THEN "register" ELSE "loop")
  /\ UNCHANGED <<lock, messages, buffers, locals, program, record>>

\* trace_thread_pause: PAUSED, wait, RUNNING, all under the lock.  A thread
\* that need not wait is back in RUNNING before anybody sees it.
ThreadPause(t) ==
  /\ pc[t] = "pause" /\ Free
  /\ state' = StateAfter(Recount(t, "PAUSED"))
  /\ IF state' \in {"PAUSED", "PAUSING"}
     THEN /\ tstate' = [tstate EXCEPT ![t] = "PAUSED"]
          /\ perpkt_thread_states' = Recount(t, "PAUSED")
          /\ asleep' = {t}
          /\ Goto(t, "paused")
     ELSE asleep' = {} /\ Goto(t, "loop") /\ UNCHANGED <<tstate, perpkt_thread_states>>
  /\ UNCHANGED <<lock, messages, buffers, locals, program, record>>

Resume(t) ==
  /\ pc[t] = "paused" /\ t \notin asleep /\ Free
  /\ IF state \in {"PAUSED", "PAUSING"}
     THEN asleep' = asleep \cup {t} /\ UNCHANGED <<state, tstate, perpkt_thread_states, pc>>
     ELSE thread_change_state(t, "RUNNING") /\ Goto(t, "loop")
  /\ UNCHANGED <<lock, messages, buffers, locals, program, record>>

Finish(t) ==
  /\ pc[t] = "finish" /\ Free
  /\ thread_change_state(t, "FINISHED")
  /\ Goto(t, IF t \in Perpkts THEN "post" ELSE "exit")
  /\ UNCHANGED <<lock, messages, buffers, locals, program, record>>

\* pthread_cond_wait may return without a broadcast.
SpuriousWakeup(t) ==
  /\ t \in asleep
  /\ asleep' = asleep \ {t}
  /\ UNCHANGED <<conf, state, tstate, perpkt_thread_states, lock, messages, buffers, pc,
                 locals, program, record>>

\* The outcomes of a read of the format, and what they leave of the file.
Reads(x) ==
  \/ started /\ x = "PKT" /\ (Live \/ left > 0) /\ left' = IF Live THEN left ELSE left - 1
  \/ started /\ x = "EOF" /\ ~Live /\ left = 0 /\ UNCHANGED left
  \/ ("read" \in Failures \/ ~started) /\ x = "ERR" /\ UNCHANGED left

\* trace_read_packet and filter_packets: a packet that does not match the
\* filter goes through trace_fin_packet, which takes libtrace_lock; then the
\* next one is read, unless packets of the same batch are left.
Refuse(t) ==
  /\ pc[t] = "refuse" /\ Free
  /\ Goto(t, CASE Mode = "fifs" -> "reading"
               [] Mode = "format" /\ packets[t] # <<>> -> "dispatch"
               [] OTHER -> "read")
  /\ UNCHANGED <<status, lock, messages, buffers, locals, program, record>>

-----------------------------------------------------------------------------
(* perpkt_threads_entry                                                    *)

\* format->pregister_thread.
Register(p) ==
  /\ pc[p] = "register"
  /\ Goto(p, "loop")
  /\ UNCHANGED <<status, lock, messages, buffers, locals, program, record>>

\* --perpkt_thread_states[s] and ++perpkt_thread_states[s] without the lock: a
\* load and a store, between which other threads may count.  (A thread that
\* holds the lock counts in one step: whichever of two updates is lost, the
\* count that is left is the same.)
LoadCount(p, from, s, to) ==
  /\ pc[p] = from
  /\ i' = [i EXCEPT ![p] = perpkt_thread_states[s]]
  /\ Goto(p, to)
  /\ UNCHANGED <<status, failed>>
StoreCount(p, from, s, d, to) ==
  /\ pc[p] = from
  /\ perpkt_thread_states' = [perpkt_thread_states EXCEPT ![s] = i[p] + d]
  /\ Asserts("lost_update", perpkt_thread_states[s] = i[p])
  /\ Goto(p, to)
  /\ UNCHANGED <<state, asleep, tstate, i>>

\* It fails, and thread_change_state(trace, t, THREAD_FINISHED, false) is
\* called although the lock is not held: every access is a step of its own.
RegisterFails(p) ==
  /\ "register" \in Failures
  /\ \/ /\ pc[p] = "register"
        /\ tstate' = [tstate EXCEPT ![p] = "FINISHED"]
        /\ Goto(p, "load_running")
        /\ UNCHANGED <<state, asleep, perpkt_thread_states, i, failed>>
     \/ LoadCount(p, "load_running", "RUNNING", "store_running")
     \/ StoreCount(p, "store_running", "RUNNING", -1, "load_finished")
     \/ LoadCount(p, "load_finished", "FINISHED", "store_finished")
     \/ StoreCount(p, "store_finished", "FINISHED", 1, "compare")
     \/ /\ pc[p] = "compare"
        /\ state' = StateAfter(perpkt_thread_states)
        /\ asleep' = {}
        /\ i' = [i EXCEPT ![p] = 0]
        /\ Goto(p, "exit")
        /\ UNCHANGED <<tstate, perpkt_thread_states, failed>>
  /\ UNCHANGED <<lock, messages, buffers, error, program, results, left, lost>>

\* Mutant: every message falls through to DO_STOP.
Loop_FallThrough(p) ==
  /\ pc[p] = "loop"
  /\ IF messages[p] # <<>>
     THEN /\ messages' = [messages EXCEPT ![p] = Tail(@)]
          /\ Goto(p, IF Head(messages[p]) = "DO_PAUSE" THEN "drain" ELSE "eof")
     ELSE /\ Goto(p, IF packets[p] = <<>> THEN "read" ELSE "dispatch")
          /\ UNCHANGED messages
  /\ UNCHANGED <<status, lock, buffers, locals, program, record>>

\* The head of the loop: messages first; then read, unless a batch is left.
Loop(p) ==
  /\ pc[p] = "loop"
  /\ IF messages[p] # <<>>
     THEN /\ messages' = [messages EXCEPT ![p] = Tail(@)]
          /\ Goto(p, CASE Head(messages[p]) = "DO_PAUSE" -> "drain"
                       [] Head(messages[p]) = "DO_STOP" -> "eof"
                       [] OTHER -> "loop")
     ELSE /\ Goto(p, IF packets[p] = <<>> THEN "read" ELSE "dispatch")
          /\ UNCHANGED messages
  /\ UNCHANGED <<status, lock, buffers, locals, program, record>>

\* Where the loop goes on what pread returned.
After(x) == CASE x = "EOF" -> "eof" [] x = "MSG" -> "loop" [] OTHER -> "error"

\* trace_pread_packet_hasher_thread: the kept EOF, or the next of the ring.
ReadRing(p) ==
  /\ Mode = "hasher" /\ pc[p] = "read"
  /\ IF format_data[p] # None
     THEN Goto(p, After(format_data[p])) /\ UNCHANGED <<rbuffer, packets>>
     ELSE /\ rbuffer[p] # <<>>
          /\ rbuffer' = [rbuffer EXCEPT ![p] = Tail(@)]
          /\ IF Head(rbuffer[p]) \in {"PKT", "TICK"}
             THEN packets' = [packets EXCEPT ![p] = <<Head(rbuffer[p])>>] /\ Goto(p, "more")
             ELSE Goto(p, After(Head(rbuffer[p]))) /\ UNCHANGED packets
  /\ UNCHANGED <<status, lock, messages, format_data, locals, program, record>>

\* Mutants: the rest of the batch is not tested; an EOF is returned at once.
ReadMore_NoTest(p) ==
  /\ pc[p] = "more"
  /\ IF Len(packets[p]) = Burst \/ rbuffer[p] = <<>>
     THEN Goto(p, "dispatch") /\ UNCHANGED buffers
     ELSE /\ rbuffer' = [rbuffer EXCEPT ![p] = Tail(@)]
          /\ packets' = [packets EXCEPT ![p] = Append(@, Head(rbuffer[p]))]
          /\ UNCHANGED <<format_data, pc>>
  /\ UNCHANGED <<status, lock, messages, locals, program, record>>
ReadMore_EofNow(p) ==
  /\ pc[p] = "more"
  /\ IF Len(packets[p]) = Burst \/ rbuffer[p] = <<>>
     THEN Goto(p, "dispatch") /\ UNCHANGED buffers
     ELSE LET x == Head(rbuffer[p]) IN
          /\ rbuffer' = [rbuffer EXCEPT ![p] = Tail(@)]
          /\ IF x = "PKT"
             THEN packets' = [packets EXCEPT ![p] = Append(@, x)] /\ UNCHANGED pc
             ELSE Goto(p, After(x)) /\ UNCHANGED packets
          /\ UNCHANGED format_data
  /\ UNCHANGED <<status, lock, messages, locals, program, record>>

\* The rest of the batch.  The test is on the first packet, not on this one.
ReadMore(p) ==
  /\ pc[p] = "more"
  /\ IF Len(packets[p]) = Burst \/ rbuffer[p] = <<>>
     THEN Goto(p, "dispatch") /\ UNCHANGED buffers
     ELSE LET x == Head(rbuffer[p]) IN
          /\ rbuffer' = [rbuffer EXCEPT ![p] = Tail(@)]
          /\ IF x # "PKT" /\ packets[p][1] # "TICK"
             THEN /\ format_data' = [format_data EXCEPT ![p] = IF x = "MSG" THEN @ ELSE x]
                  /\ Goto(p, "dispatch")
                  /\ UNCHANGED packets
             ELSE /\ packets' = [packets EXCEPT ![p] = Append(@, x)]
                  /\ UNCHANGED <<format_data, pc>>
  /\ UNCHANGED <<status, lock, messages, locals, program, record>>

\* trace_pread_packet_wrapper.  format->pread_packets returns up to Burst
\* packets, of which the filter lets m through ...
ReadFormat(p) ==
  /\ Mode = "format" /\ pc[p] = "read" /\ started
  /\ \E n \in 1 .. Burst :
       /\ Live \/ n <= left
       /\ left' = IF Live THEN left ELSE left - n
       /\ \E m \in 0 .. n :
            /\ m < n => Filter
            /\ packets' = [packets EXCEPT ![p] = [k \in 1 .. m |-> "PKT"]]
            /\ Goto(p, IF m = n THEN "dispatch" ELSE "refuse")
  /\ UNCHANGED <<status, lock, messages, rbuffer, format_data, locals, program, results,
                 lost, failed>>

\* ... or an EOF or an error, or READ_MESSAGE when a message arrives while it
\* waits for packets.
ReadNone(p) ==
  /\ Mode = "format" /\ pc[p] = "read"
  /\ \E x \in {"EOF", "ERR", "MSG"} :
       /\ IF x = "MSG" THEN messages[p] # <<>> /\ UNCHANGED left ELSE Reads(x)
       /\ Goto(p, After(x))
  /\ UNCHANGED <<status, lock, messages, buffers, locals, program, results, lost, failed>>

\* trace_pread_packet_first_in_first_served: read a batch under the lock.
ReadLock(p) ==
  /\ Mode = "fifs" /\ pc[p] = "read" /\ Free
  /\ lock' = p
  /\ Goto(p, "reading")
  /\ UNCHANGED <<status, messages, buffers, locals, program, record>>

\* One read of the batch.  An EOF after packets is met again by the next read.
ReadLocked(p) ==
  /\ pc[p] = "reading"
  /\ \E x \in {"PKT", "EOF", "ERR"} :
       /\ Reads(x)
       /\ \/ /\ x = "PKT" /\ Filter
             /\ Goto(p, "refuse") /\ UNCHANGED <<packets, lock>>
          \/ /\ x = "PKT"
             /\ packets' = [packets EXCEPT ![p] = Append(@, x)]
             /\ IF Len(packets[p]) + 1 = Burst
                THEN lock' = NoThread /\ Goto(p, "dispatch")
                ELSE UNCHANGED <<lock, pc>>
          \/ /\ x # "PKT"
             /\ lock' = NoThread
             /\ Goto(p, IF packets[p] = <<>> THEN After(x) ELSE "dispatch")
             /\ UNCHANGED packets
  /\ UNCHANGED <<status, messages, rbuffer, format_data, locals, program, results, lost, failed>>

\* trace_publish_result from a callback: the combiner posts to the reporter
\* when the queue has reached its threshold.  Or the callback does nothing.
Publish ==
  \/ UNCHANGED <<results, messages>>
  \/ /\ HasReporter /\ results < MaxResults
     /\ results' = results + 1
     /\ IF results' = MaxResults /\ tstate[reporter] # "FINISHED"
        THEN Send(reporter, "POST") ELSE UNCHANGED messages

\* dispatch_packet: the callback and trace_fin_packet, or a tick.
DispatchOne(p) ==
  /\ packets[p] # <<>>
  /\ IF Head(packets[p]) = "PKT"
     THEN Free /\ Publish /\ UNCHANGED failed
     ELSE /\ Asserts("dispatch_tick", Head(packets[p]) = "TICK")
          /\ UNCHANGED <<results, messages>>
  /\ packets' = [packets EXCEPT ![p] = Tail(@)]
  /\ UNCHANGED <<status, lock, rbuffer, format_data, locals, program, left, lost>>

Dispatch(p) ==
  /\ pc[p] = "dispatch"
  /\ DispatchOne(p)
  /\ Goto(p, IF Len(packets[p]) = 1 THEN "loop" ELSE "dispatch")

\* delay_tracetime gives way to a message; the batch is taken up again later.
Delay(p) ==
  /\ Tracetime /\ pc[p] = "dispatch" /\ messages[p] # <<>> /\ Head(packets[p]) = "PKT"
  /\ Goto(p, "loop")
  /\ UNCHANGED <<status, lock, messages, buffers, locals, program, record>>

\* trace_perpkt_thread_pause: the rest of the batch, ...
DrainBatch(p) ==
  /\ pc[p] = "drain"
  /\ DispatchOne(p)
  /\ UNCHANGED pc

\* ... then, with a hasher, the ring, one at a time.  A message is ignored;
\* at an EOF or an error the pause fails.  With a kept EOF pread returns that
\* and takes nothing from the ring: the loop that empties the ring ends only
\* if it is empty.
DrainRing(p) ==
  /\ pc[p] = "drain" /\ packets[p] = <<>>
  /\ Mode = "hasher" /\ (rbuffer[p] # <<>> \/ format_data[p] # None)
  /\ IF format_data[p] # None
     THEN /\ rbuffer[p] = <<>>
          /\ Asserts("pause_read", format_data[p] \in {"EOF", "ERR"})
          /\ Goto(p, "error")
          /\ UNCHANGED <<rbuffer, packets>>
     ELSE LET x == Head(rbuffer[p]) IN
          IF x \in {"EOF", "ERR"}
          THEN /\ rbuffer' = [rbuffer EXCEPT ![p] = <<>>]
               /\ Asserts("pause_data", ~HasPacket(rbuffer[p]))
               /\ Goto(p, "error")
               /\ UNCHANGED packets
          ELSE /\ rbuffer' = [rbuffer EXCEPT ![p] = Tail(@)]
               /\ packets' = [packets EXCEPT ![p] = IF x = "MSG" THEN @ ELSE <<x>>]
               /\ UNCHANGED <<failed, pc>>
  /\ UNCHANGED <<status, lock, messages, format_data, locals, program, results, left, lost>>

DrainDone(p) ==
  /\ pc[p] = "drain" /\ packets[p] = <<>>
  /\ Mode = "hasher" => rbuffer[p] = <<>> /\ format_data[p] = None
  /\ Goto(p, "pause")
  /\ UNCHANGED <<status, lock, messages, buffers, locals, program, record>>

\* error: every per-packet thread is told to stop.
Error(p) ==
  /\ pc[p] = "error"
  /\ SendPerpkts("DO_STOP")
  /\ Goto(p, "eof")
  /\ UNCHANGED <<status, lock, buffers, locals, program, record>>

\* eof: the stopping callback, and the packets that are left are freed.
Eof(p) ==
  /\ pc[p] = "eof"
  /\ Publish
  /\ lost' = (lost \/ HasPacket(packets[p]))
  /\ packets' = [packets EXCEPT ![p] = <<>>]
  /\ Goto(p, "finish")
  /\ UNCHANGED <<status, lock, rbuffer, format_data, locals, program, left, failed>>

\* Mutant: the reporter is not told.
Post_Missing(p) ==
  /\ pc[p] = "post"
  /\ Goto(p, "exit")
  /\ UNCHANGED <<status, lock, messages, buffers, locals, program, record>>

\* "Make sure the reporter sees we have finished".
Post(p) ==
  /\ pc[p] = "post"
  /\ IF HasReporter /\ tstate[reporter] # "FINISHED"
     THEN Send(reporter, "POST") ELSE UNCHANGED messages
  /\ Goto(p, "exit")
  /\ UNCHANGED <<status, lock, buffers, locals, program, record>>

PerpktStep(p) ==
  \/ Register(p) \/ RegisterFails(p) \/ Loop(p) \/ ReadRing(p) \/ ReadMore(p)
  \/ ReadFormat(p) \/ ReadNone(p) \/ ReadLock(p) \/ ReadLocked(p) \/ Dispatch(p) \/ Delay(p)
  \/ DrainBatch(p) \/ DrainRing(p) \/ DrainDone(p) \/ Error(p) \/ Eof(p) \/ Post(p)

-----------------------------------------------------------------------------
(* hasher_entry                                                            *)

HasherLoop ==
  /\ pc[hasher] = "loop"
  /\ IF messages[hasher] # <<>>
     THEN /\ messages' = [messages EXCEPT ![hasher] = Tail(@)]
          /\ IF Head(messages[hasher]) = "DO_PAUSE"
             THEN Goto(hasher, "pause") /\ UNCHANGED failed
             ELSE /\ failed' = failed \cup (IF started THEN {"hasher_started"} ELSE {})
                                      \cup (IF state = "FINISHED" THEN {} ELSE {"hasher_finished"})
                  /\ UNCHANGED pc
     ELSE Goto(hasher, "read") /\ UNCHANGED <<messages, failed>>
  /\ UNCHANGED <<status, lock, buffers, locals, program, results, left, lost>>

\* A packet goes to the thread its hash chooses; EOF and errors to everyone.
HasherRead ==
  /\ pc[hasher] = "read"
  /\ \E x \in {"PKT", "EOF", "ERR"} :
       /\ Reads(x)
       /\ error' = x
       /\ \/ /\ x = "PKT" /\ Filter
             /\ Goto(hasher, "refuse") /\ UNCHANGED <<i, failed, lost>>
          \/ /\ x = "PKT"
             /\ \E p \in Perpkts :
                  IF tstate[p] = "FINISHED"
                  THEN /\ Asserts("dropping_a_packet", FALSE)
                       /\ lost' = TRUE
                       /\ Goto(hasher, "loop") /\ UNCHANGED i
                  ELSE /\ i' = [i EXCEPT ![hasher] = p]
                       /\ Goto(hasher, "write") /\ UNCHANGED <<failed, lost>>
          \/ /\ x # "PKT"
             /\ i' = [i EXCEPT ![hasher] = 1]
             /\ Goto(hasher, "bcast") /\ UNCHANGED <<failed, lost>>
  /\ UNCHANGED <<status, lock, messages, buffers, program, results>>

HasherWrite ==
  /\ pc[hasher] = "write" /\ ~Full(i[hasher])
  /\ rbuffer' = [rbuffer EXCEPT ![i[hasher]] = Append(@, "PKT")]
  /\ i' = [i EXCEPT ![hasher] = 1]
  /\ Goto(hasher, IF Ticks THEN "tick" ELSE "loop")
  /\ UNCHANGED <<status, lock, messages, format_data, packets, error, program, record>>

\* "Write ticks to everyone else".
HasherTick ==
  /\ pc[hasher] = "tick" /\ ~Full(i[hasher])
  /\ rbuffer' = [rbuffer EXCEPT ![i[hasher]] = Append(@, "TICK")]
  /\ i' = [i EXCEPT ![hasher] = @ + 1]
  /\ Goto(hasher, IF i[hasher] = N THEN "loop" ELSE "tick")
  /\ UNCHANGED <<status, lock, messages, format_data, packets, error, program, record>>

\* Mutant: the last thread is left out.
Broadcast_OffByOne ==
  /\ pc[hasher] = "bcast"
  /\ IF i[hasher] >= N
     THEN Goto(hasher, "finish") /\ UNCHANGED <<lock, i>>
     ELSE /\ Free
          /\ IF tstate[i[hasher]] # "FINISHED"
             THEN lock' = hasher /\ Goto(hasher, "bwrite") /\ UNCHANGED i
             ELSE i' = [i EXCEPT ![hasher] = @ + 1] /\ UNCHANGED <<lock, pc>>
  /\ UNCHANGED <<status, messages, buffers, error, program, record>>

\* Broadcast the last failed read: under the lock, to a thread that is not
\* finished, with a write that blocks while the ring is full.
Broadcast ==
  /\ pc[hasher] = "bcast"
  /\ IF i[hasher] > N
     THEN Goto(hasher, "finish") /\ UNCHANGED <<lock, i>>
     ELSE /\ Free
          /\ IF tstate[i[hasher]] # "FINISHED"
             THEN lock' = hasher /\ Goto(hasher, "bwrite") /\ UNCHANGED i
             ELSE i' = [i EXCEPT ![hasher] = @ + 1] /\ UNCHANGED <<lock, pc>>
  /\ UNCHANGED <<status, messages, buffers, error, program, record>>

BroadcastWrite ==
  /\ pc[hasher] = "bwrite" /\ ~Full(i[hasher])
  /\ rbuffer' = [rbuffer EXCEPT ![i[hasher]] = Append(@, error)]
  /\ i' = [i EXCEPT ![hasher] = @ + 1]
  /\ lock' = NoThread
  /\ Goto(hasher, "bcast")
  /\ UNCHANGED <<status, messages, format_data, packets, error, program, record>>

HasherStep ==
  \/ HasherLoop \/ HasherRead \/ HasherWrite \/ HasherTick
  \/ Broadcast \/ BroadcastWrite

-----------------------------------------------------------------------------
(* reporter_entry                                                          *)

ReporterLoop ==
  /\ pc[reporter] = "loop"
  /\ Goto(reporter, IF trace_has_finished THEN "final" ELSE "get")
  /\ UNCHANGED <<status, lock, messages, buffers, locals, program, record>>

\* A message, or with polling POST when there is none.  The combiner's read
\* and its pause take every result it holds.
ReporterGet ==
  /\ pc[reporter] = "get"
  /\ Polling \/ messages[reporter] # <<>>
  /\ LET m == IF messages[reporter] = <<>> THEN "POST" ELSE Head(messages[reporter]) IN
     /\ results' = 0
     /\ Goto(reporter, IF m = "DO_PAUSE" THEN "pause" ELSE "loop")
  /\ messages' = [messages EXCEPT ![reporter] = IF @ = <<>> THEN @ ELSE Tail(@)]
  /\ UNCHANGED <<status, lock, buffers, locals, program, left, lost, failed>>

\* Mutant: nothing is read once the trace has finished.
ReporterFinal_NoRead ==
  /\ pc[reporter] = "final"
  /\ Goto(reporter, "finish")
  /\ UNCHANGED <<status, lock, messages, buffers, locals, program, record>>

\* read_final.
ReporterFinal ==
  /\ pc[reporter] = "final"
  /\ results' = 0
  /\ Goto(reporter, "finish")
  /\ UNCHANGED <<status, lock, messages, buffers, locals, program, left, lost, failed>>

-----------------------------------------------------------------------------
(* keepalive_entry                                                         *)

\* The wait ends with DO_STOP, or with the interval: then a tick is sent.
KeepaliveLoop ==
  /\ pc[keepalive] = "loop"
  /\ \/ /\ state = "FINISHED"
        /\ Goto(keepalive, "finish") /\ UNCHANGED messages
     \/ /\ state # "FINISHED" /\ messages[keepalive] # <<>>
        /\ messages' = [messages EXCEPT ![keepalive] = Tail(@)]
        /\ Goto(keepalive, "finish")
     \/ /\ state = "RUNNING" /\ messages[keepalive] = <<>>
        /\ \A p \in Perpkts : Cardinality({k \in DOMAIN messages[p] : messages[p][k] = "TICK"}) < MaxTicks
        /\ SendPerpkts("TICK")
        /\ UNCHANGED pc
  /\ UNCHANGED <<status, lock, buffers, locals, program, record>>

-----------------------------------------------------------------------------
MainStep ==
  /\ UNCHANGED conf
  /\ \/ Cleanup \/ AskHasher \/ WaitHasher \/ AskPerpkt \/ Nudge \/ WaitPerpkts
     \/ AskReporter \/ WaitReporter \/ PauseInput \/ SetPaused \/ SendStop
     \/ SetFinishing \/ JoinPerpkt \/ JoinHasher \/ JoinReporter \/ JoinKeepalive
     \/ Destroy

Join == CallJoin /\ UNCHANGED conf

MainCall ==
  /\ UNCHANGED conf
  /\ \/ Pstart \/ PstartFails \/ Restart
     \/ \E stop \in BOOLEAN : CallPpause(stop)

\* The steps of one worker.
WorkerStep(t) ==
  /\ t \in Workers /\ UNCHANGED conf
  /\ \/ Begin(t) \/ ThreadPause(t) \/ Resume(t) \/ Finish(t) \/ Refuse(t)
     \/ t \in Perpkts /\ PerpktStep(t)
     \/ t = hasher /\ HasherStep
     \/ t = reporter /\ (ReporterLoop \/ ReporterGet \/ ReporterFinal)
     \/ t = keepalive /\ KeepaliveLoop

\* The program has ended.
Ended ==
  /\ pc[main] = "end"
  /\ UNCHANGED vars

Next ==
  \/ MainCall \/ Join \/ MainStep
  \/ \E t \in Workers : WorkerStep(t)
  \/ \E t \in Threads : SpuriousWakeup(t)
  \/ Ended

Spec == Init /\ [][Next]_vars

\* Every thread keeps running: no call of the library is left half way, and
\* a program that has called trace_pstop calls trace_join.  The lock is held
\* across steps only by a hasher that ends and by "fifs" readers.
Fairness ==
  /\ WF_vars(MainStep) /\ WF_vars(Join)
  /\ \A t \in Perpkts \cup {hasher, reporter, keepalive} : WF_vars(WorkerStep(t))

FairSpec == Spec /\ Fairness

-----------------------------------------------------------------------------
(* Properties.                                                             *)

\* Types.
TypeOK ==
  /\ conf \in Configs
  /\ state \in States /\ started \in BOOLEAN
  /\ lock \in Threads \cup {NoThread}
  /\ asleep \subseteq Threads
  /\ tstate \in [Workers -> TStates]
  /\ perpkt_thread_states \in [TStates -> Int]
  /\ \A t \in Workers : \A k \in DOMAIN messages[t] :
       messages[t][k] \in {"DO_PAUSE", "DO_STOP", "POST", "TICK"}
  /\ \A p \in Perpkts :
       /\ Len(rbuffer[p]) <= RingSize /\ \A k \in DOMAIN rbuffer[p] : rbuffer[p][k] \in Items
       /\ Len(packets[p]) <= Burst /\ \A k \in DOMAIN packets[p] : packets[p][k] \in Items
       /\ format_data[p] \in {None, "TICK", "EOF", "ERR"}
  /\ results \in 0 .. MaxResults
  /\ left \in 0 .. Input

\* Where a thread is that counts itself out without the lock.
Leaving == {"load_running", "store_running", "load_finished", "store_finished", "compare"}
UpdateLost == "lost_update" \in failed

\* perpkt_thread_states, which trace_ppause waits on and which decides that
\* the trace has finished, counts the threads in each state, when no thread is
\* about to change it without the lock, and as long as none that did has
\* overwritten a count that another changed in between.
StatesCounted ==
  /\ TypeOK
  /\ /\ state \notin {"NEW", "ERROR"} /\ pc[main] # "cleanup"
     /\ ~UpdateLost /\ \A p \in Perpkts : pc[p] \notin Leaving
     => \A s \in TStates : perpkt_thread_states[s] = Cardinality({p \in Perpkts : tstate[p] = s})

\* A thread that has stopped reading: it waits to be resumed, or it is ending.
Quiet(t) == pc[t] \in {"paused", "eof", "finish", "post", "exit"} \cup Leaving

\* "Ensure all threads have paused and the underlying trace format has been
\* closed and all packets associated are cleaned up": from the time the format
\* is paused until the trace is restarted or stopped nobody reads, and no ring
\* and no batch holds a packet.  (An update of the counts that is lost leaves the
\* count of the threads that run too high: the pause waits too long.)
PausedIsQuiet ==
  pc[main] \in {"pauseinput", "setpaused", "sendstop", "setfinishing"} \/ state = "PAUSED" =>
    /\ \A p \in Perpkts : Quiet(p) /\ ~HasPacket(rbuffer[p]) /\ packets[p] = <<>>
    /\ Mode = "hasher" => Quiet(hasher)

\* No packet that was read is thrown away: the pause before a stop empties
\* every ring, and threads end after the packets before the EOF.
NothingLost == ~lost

\* No assert of the threads and of the calls fails, even when the count of the
\* threads that run has lost an update.
AssertsHold == failed \subseteq {"lost_update"}

\* The reporter has passed on every result when it ends: read_final comes
\* after the last thread that could publish.
ResultsReported ==
  HasReporter /\ pc[reporter] \in {"finish", "exit"} /\ state # "ERROR" => results = 0

\* trace_has_finished: "true if the trace has finished reading packets".
FinishedIsDone ==
  trace_has_finished => \A p \in Perpkts : pc[p] \in {"none", "compare", "post", "exit"}

\* The same, for a file nobody stops: its threads end at its end.
FileIsRead ==
  trace_has_finished /\ ~Live /\ ~stopping /\ Failures = {} => left = 0

\* When the trace has finished no thread reads, the file has been read to its
\* end and the reporter has passed on all results: what the last thread to
\* leave announces holds for all of them.
EndIsComplete == FinishedIsDone /\ FileIsRead /\ ResultsReported

\* A trace that has finished stays so until it is joined.
FinishedIsFinal == [][state = "FINISHED" => state' \in {"FINISHED", "JOINED"}]_state

\* trace_ppause and trace_pstop return.
PauseReturns == state = "PAUSING" ~> pc[main] \in {"user", "end"}

\* trace_join "waits for a trace to finish, whether this be due to an error
\* occurring, an EOF or trace_pstop", and returns.
JoinReturns == pc[main] = "joinperpkt" ~> state = "JOINED"

\* A start that fails returns: the threads it has begun all leave, whichever
\* of them sees the state change first.
FailedStartReturns == pc[main] = "cleanup" ~> pc[main] = "end"

\* Every call of the program that waits for threads returns, whatever they are
\* doing when it begins.
CallsReturn == PauseReturns /\ JoinReturns /\ FailedStartReturns

\* "Make sure the reporter sees we have finished".
ReporterEnds == trace_has_finished ~> (HasReporter => pc[reporter] \in {"none", "exit"})

\* "Unlock early otherwise we could deadlock": the hasher does not wait for
\* room in a ring while it holds libtrace_lock.
NoWaitWithLock == Mode = "hasher" /\ pc[hasher] = "bwrite" => ~Full(i[hasher])

\* "Threads are expected to wait": a start that failed lets no thread into its
\* loop, because what the loops use is not initialised.
AbortedStart ==
  pc[main] = "cleanup" => \A t \in Workers : pc[t] \in {"none", "start", "exit"}

\* A thread that refuses a packet takes libtrace_lock: it must not hold it.
NoSelfDeadlock == \A t \in Workers : pc[t] = "refuse" => lock # t
=============================================================================
