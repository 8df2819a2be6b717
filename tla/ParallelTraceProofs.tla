------------------------ MODULE ParallelTraceProofs ------------------------
(* The threads of a parallel trace, for every number of per-packet threads   *)
(* and every configuration: the counts of their states, pauses, and the end  *)
(* of the trace; and, without a hasher, that no packet is lost and no assert *)
(* fails.                                                                    *)
EXTENDS ParallelTrace, TLAPS

(* ---- the inductive invariant, part by part ---- *)
Messages == {"DO_PAUSE", "DO_STOP", "POST", "TICK"}

\* The types of the variables; and no registration of a thread fails.
Types ==
  /\ conf \in Configs /\ "register" \notin Failures
  /\ state \in States /\ started \in BOOLEAN /\ stopping \in BOOLEAN
  /\ tstate \in [Workers -> TStates] /\ perpkt_thread_states \in [TStates -> Int]
  /\ DOMAIN pc = Threads /\ DOMAIN i = {main, hasher} \cup Perpkts /\ i[main] \in Nat
Others ==
  /\ lock \in Threads \cup {NoThread} /\ asleep \subseteq Threads
  /\ error \in {"PKT", "EOF", "ERR"} /\ lost \in BOOLEAN
  /\ results \in 0 .. MaxResults /\ left \in 0 .. Input
Queues ==
  /\ messages \in [Workers -> Seq(Messages)]
  /\ rbuffer \in [Perpkts -> Seq(Items)] /\ packets \in [Perpkts -> Seq(Items)]
  /\ format_data \in [Perpkts -> {None, "TICK", "EOF", "ERR"}]

\* A batch fits, and a thread that reads, pauses or has ended has none.
Fits(p) ==
  /\ Len(rbuffer[p]) <= RingSize /\ Len(packets[p]) <= Burst
  /\ pc[p] \in {"none", "start", "register", "read", "pause", "paused", "finish", "post", "exit"}
       => packets[p] = <<>>
  /\ pc[p] = "more" => packets[p] # <<>>
  /\ pc[p] = "reading" => Mode = "fifs" /\ Len(packets[p]) < Burst
  /\ pc[p] = "refuse" => Mode \in {"fifs", "format"} /\ Len(packets[p]) < Burst
Room == \A p \in Perpkts : Fits(p)

\* t->state says where a thread is.
Matches ==
  \A t \in Workers :
    /\ tstate[t] = "PAUSED" <=> pc[t] = "paused"
    /\ tstate[t] = "FINISHED" <=> pc[t] \in {"post", "exit"}

\* The counts.  They are not set when not every thread could be started; but those
\* that have finished are counted always.
InState(s) == {p \in Perpkts : tstate[p] = s}
Counts ==
  /\ state \notin {"NEW", "ERROR"} /\ pc[main] # "cleanup" =>
       \A s \in TStates : perpkt_thread_states[s] = Cardinality(InState(s))
  /\ pc[main] = "cleanup" => perpkt_thread_states["FINISHED"] = Cardinality(InState("FINISHED"))

AllDone == \A p \in Perpkts : tstate[p] = "FINISHED"
Still   == \A p \in Perpkts : tstate[p] # "RUNNING"

\* Before the start, and after one that failed, no thread runs.
Starts ==
  /\ state = "ERROR" => pc[main] = "cleanup"
  /\ state = "NEW" => \/ /\ pc[main] = "user" /\ ~stopping /\ ~started /\ results = 0
                         /\ \A t \in Workers : pc[t] = "none"
                         /\ \A s \in TStates : perpkt_thread_states[s] = 0
                      \/ pc[main] = "end"
  /\ pc[main] = "end" => \A t \in Workers : pc[t] \in {"none", "exit"}
  /\ pc[main] = "cleanup" =>
       /\ \A p \in Perpkts : pc[p] \in {"none", "start", "exit"}
       /\ results = 0 /\ ~started /\ ~stopping /\ "start" \in Failures
       /\ state \in {"ERROR", "FINISHED"}
  /\ trace_has_finished => AllDone

\* While the trace pauses, is paused or is about to be stopped, its state says so
\* unless all threads have ended; and from the wait on, no per-packet thread runs.
Asking   == {"askhasher", "waithasher", "askperpkt", "nudge", "waitperpkts"}
Closing  == {"askreporter", "waitreporter", "pauseinput", "setpaused"}
Stopping == {"sendstop", "setfinishing"}
Pauses ==
  /\ pc[main] \in Asking \cup Closing => state \in {"PAUSING", "FINISHED"}
  /\ state = "PAUSING" => pc[main] \in Asking \cup Closing
  /\ pc[main] \in Stopping => state \in {"PAUSED", "FINISHED"} /\ stopping
  /\ pc[main] \in Closing \cup Stopping \/ state = "PAUSED" => Still

\* trace_join goes on past threads that have ended.
Joins ==
  /\ pc[main] = "joinperpkt" => i[main] \in 1 .. N + 1 /\ \A p \in Perpkts : p < i[main] => pc[p] = "exit"
  /\ pc[main] \in {"joinreporter", "joinkeepalive", "joined"} =>
       (\A p \in Perpkts : pc[p] = "exit") /\ (Mode = "hasher" => pc[hasher] = "exit")
  /\ pc[main] \in {"joinkeepalive", "joined"} /\ HasReporter => pc[reporter] = "exit"
  /\ pc[main] = "joined" => (HasKeepalive => pc[keepalive] = "exit") /\ Free

\* The reporter leaves after the last thread that publishes, and with every result.
Reported ==
  HasReporter =>
    /\ pc[reporter] = "final" => AllDone
    /\ pc[reporter] \in {"finish", "exit"} => results = 0 /\ (AllDone \/ pc[main] \in {"cleanup", "end"})

Control == Matches /\ Counts /\ Starts /\ Pauses /\ Joins /\ Reported

(* ... and without a hasher. *)

\* What a sequence holds.
Has(s, x)  == \E k \in DOMAIN s : s[k] = x
HasStop(p) == Has(messages[p], "DO_STOP")

ReadsWork == "read" \notin Failures
Ending    == {"eof", "finish", "post", "exit"}

\* A thread's batch is of packets; it is empty when the thread ends, unless a message
\* interrupted it.  Unless reads fail, only trace_pstop asks a thread to stop, when it
\* has no packets; a thread reads while the format is started, and ends at the end of
\* the file or when it is stopped.
Own(p) ==
  /\ pc[p] # "more" /\ rbuffer[p] = <<>> /\ \A x : Has(packets[p], x) => x = "PKT"
  /\ ~Tracetime /\ pc[p] = "loop" => packets[p] = <<>>
  /\ pc[p] \in {"eof", "error"} /\ (~Tracetime \/ ReadsWork) => packets[p] = <<>>
  /\ ReadsWork =>
       /\ pc[p] # "error"
       /\ HasStop(p) => /\ packets[p] = <<>> /\ stopping
                        /\ pc[p] \in {"loop", "drain", "pause", "paused"} \cup Ending
       /\ pc[p] \in {"start", "register", "read", "reading", "refuse", "dispatch"} =>
            started \/ pc[main] = "cleanup"
       /\ pc[p] \in Ending /\ Failures = {} /\ ~Live /\ ~stopping => left = 0

\* While the format is not started no thread is about to read.
Started ==
  ReadsWork /\ ~started =>
    \/ state = "NEW" \/ pc[main] \in {"cleanup", "end"} \/ AllDone
    \/ Still /\ (pc[main] = "setpaused" \/ (state = "PAUSED" /\ pc[main] # "setfinishing"))
    \/ \A p \in Perpkts : HasStop(p) \/ pc[p] \in Ending

\* No packet has been lost and no assert has failed.
Clean ==
  /\ ~Tracetime \/ ReadsWork => ~lost
  /\ "start" \notin Failures => failed = {}

Alone ==
  Mode # "hasher" =>
    /\ \A p \in Perpkts : Own(p)
    /\ pc[main] \notin {"askhasher", "waithasher", "nudge"} /\ Started /\ Clean

-----------------------------------------------------------------------------
(* Threads and sets of them.                                                 *)

\* What is used of sets of per-packet threads and their sizes.
Sized ==
  /\ Cardinality({}) = 0 /\ Cardinality(Perpkts) = N
  /\ \A S \in SUBSET Perpkts :
       /\ Cardinality(S) \in Nat /\ (Cardinality(S) = 0 => S = {})
       /\ Cardinality(S) = N => S = Perpkts
       /\ \A p \in Perpkts \ S : Cardinality(S \cup {p}) = Cardinality(S) + 1

\* Who is a thread.
LEMMA Who ==
  /\ Perpkts \subseteq Workers /\ Workers \subseteq Threads /\ main \in Threads \ Workers
  /\ Mode = "hasher" <=> hasher \in Workers
  /\ HasReporter <=> reporter \in Workers
  /\ HasKeepalive <=> keepalive \in Workers
  /\ {main, hasher, reporter, keepalive} \cap Perpkts = {}
  /\ hasher # main /\ reporter \notin {main, hasher} /\ keepalive \notin {main, hasher, reporter}
  /\ Threads = Workers \cup {main}
BY TraceAssumption, Zenon DEF Workers, Threads

\* No thread counts itself out without the lock.
LEMMA RegistersWork ==
  ASSUME Types
  PROVE  \A p \in Perpkts : ~RegisterFails(p)
BY Zenon DEF Types, RegisterFails

\* What the configuration says does not change.
LEMMA ConfKept ==
  ASSUME UNCHANGED conf
  PROVE  /\ Workers' = Workers /\ Threads' = Threads
         /\ Mode' = Mode /\ RingSize' = RingSize /\ Burst' = Burst /\ HasReporter' = HasReporter
         /\ HasKeepalive' = HasKeepalive /\ Tracetime' = Tracetime /\ Input' = Input
         /\ Live' = Live /\ Failures' = Failures
BY Zenon DEF Workers, Threads, Mode, RingSize, Burst, HasReporter, HasKeepalive, Tracetime, Input, Live, Failures

\* A thread that goes to another state is counted in that one.
LEMMA Recounted ==
  ASSUME Sized, NEW f \in [Workers -> TStates], NEW p \in Perpkts, NEW s \in TStates, NEW r \in TStates
  PROVE  Cardinality({q \in Perpkts : [f EXCEPT ![p] = s][q] = r})
           = Cardinality({q \in Perpkts : f[q] = r})
               - (IF r = f[p] THEN 1 ELSE 0) + (IF r = s THEN 1 ELSE 0)
<1> DEFINE old == {q \in Perpkts : f[q] = r}
           new == {q \in Perpkts : [f EXCEPT ![p] = s][q] = r}
<1>1. \A q \in Perpkts : q \in Workers /\ [f EXCEPT ![p] = s][q] = IF q = p THEN s ELSE f[q]
  BY Who, Zenon
<1>2. old \in SUBSET Perpkts /\ new \in SUBSET Perpkts
  BY Zenon
<1>3. Cardinality(old) \in Nat /\ Cardinality(new) \in Nat
  BY <1>2, Zenon DEF Sized
<1>4. CASE r = f[p] /\ r # s
  <2>1. p \notin new /\ old = new \cup {p}
    BY <1>1, <1>4, Zenon
  <2>2. Cardinality(old) = Cardinality(new) + 1
    BY <1>2, <2>1, Zenon DEF Sized
  <2> QED  BY <1>3, <1>4, <2>2
<1>5. CASE r # f[p] /\ r = s
  <2>1. p \notin old /\ new = old \cup {p}
    BY <1>1, <1>5, Zenon
  <2>2. Cardinality(new) = Cardinality(old) + 1
    BY <1>2, <2>1 DEF Sized
  <2> QED  BY <1>3, <1>5, <2>2
<1>6. CASE r = f[p] <=> r = s
  <2>1. new = old
    BY <1>1, <1>6, Zenon
  <2> QED  BY <1>3, <1>6, <2>1
<1> QED  BY <1>4, <1>5, <1>6, Zenon

-----------------------------------------------------------------------------
(* What a step of a worker does to the states and the counters.              *)

GoesTo(t, s) ==
  /\ tstate' = [tstate EXCEPT ![t] = s]
  /\ perpkt_thread_states' = Recount(t, s)
  /\ state' = StateAfter(Recount(t, s))

Running(l) == l \notin {"paused", "post", "exit"}

StatusStep(t) ==
  \/ /\ UNCHANGED <<state, tstate, perpkt_thread_states>>
     /\ \/ Running(pc[t]) /\ Running(pc'[t])
        \/ pc[t] = "paused" /\ pc'[t] = "paused"
        \/ pc[t] = "post" /\ pc'[t] = "exit"
  \/ /\ pc[t] = "pause" /\ pc'[t] = "paused"
     /\ GoesTo(t, "PAUSED") /\ state' \in {"PAUSED", "PAUSING"}
  \/ /\ pc[t] = "pause" /\ pc'[t] = "loop"
     /\ UNCHANGED <<tstate, perpkt_thread_states>> /\ state' = StateAfter(Recount(t, "PAUSED"))
  \/ /\ pc[t] = "paused" /\ pc'[t] = "loop" /\ state \notin {"PAUSED", "PAUSING"}
     /\ GoesTo(t, "RUNNING")
  \/ /\ Running(pc[t]) /\ pc'[t] \in {"post", "exit"}
     /\ GoesTo(t, "FINISHED")

\* What it leaves alone, who publishes, and how the reporter ends.
Frame(t) ==
  /\ UNCHANGED <<conf, started, pauses, stopping>>
  /\ DOMAIN i' = DOMAIN i /\ i'[main] = i[main]
  /\ DOMAIN pc' = Threads /\ \A u \in Threads \ {t} : pc'[u] = pc[u]
  /\ pc[t] \notin {"none", "exit"}
  /\ results' = results \/ results' = 0 \/ (t \in Perpkts /\ pc[t] \in {"dispatch", "drain", "eof"})
  /\ pc[t] = "start" => pc'[t] = IF state = "ERROR" THEN "exit" ELSE IF t \in Perpkts THEN "register" ELSE "loop"
  /\ t = reporter =>
       /\ pc'[t] = "final" => trace_has_finished
       /\ pc'[t] \in {"finish", "exit"} =>
            \/ pc[t] = "final" /\ results' = 0
            \/ pc[t] = "finish" /\ results' = results
            \/ pc[t] = "start" /\ state = "ERROR" /\ results' = results

LEMMA Goes ==
  ASSUME DOMAIN pc = Threads, NEW t \in Threads, NEW l, Goto(t, l)
  PROVE  DOMAIN pc' = Threads /\ pc'[t] = l /\ \A u \in Threads \ {t} : pc'[u] = pc[u]
BY Zenon DEF Goto

LEMMA GoesTyped ==
  ASSUME Types, NEW t \in Workers, NEW s \in TStates
  PROVE  /\ Recount(t, s) \in [TStates -> Int]
         /\ [tstate EXCEPT ![t] = s] \in [Workers -> TStates]
         /\ StateAfter(Recount(t, s)) \in States
BY DEF Types, Recount, StateAfter, States

LEMMA StatusTyped ==
  ASSUME Types, NEW t \in Workers, StatusStep(t), Frame(t)
  PROVE  Types'
<1>1. \A s \in TStates : GoesTo(t, s) => /\ state' \in States /\ tstate' \in [Workers -> TStates]
                                         /\ perpkt_thread_states' \in [TStates -> Int]
  BY GoesTyped DEF GoesTo
<1>2. StateAfter(Recount(t, "PAUSED")) \in States
  BY GoesTyped, Zenon DEF TStates
<1>3. /\ state' \in States /\ tstate' \in [Workers -> TStates]
      /\ perpkt_thread_states' \in [TStates -> Int]
  BY <1>1, <1>2, Zenon DEF StatusStep, Types, TStates
<1> QED  BY <1>3, ConfKept, Zenon DEF Frame, Types

\* The steps that all threads share.
LEMMA CommonStep ==
  ASSUME Types, Others, NEW t \in Workers, UNCHANGED conf,
         Begin(t) \/ ThreadPause(t) \/ Resume(t) \/ Finish(t) \/ Refuse(t)
  PROVE  StatusStep(t) /\ Frame(t) /\ Others'
<1> USE Who DEF status, buffers, locals, program, record
<1>0. DOMAIN pc = Threads /\ t \in Threads
  BY Zenon DEF Types
<1>00. Workers' = Workers /\ Threads' = Threads /\ Input' = Input
  BY ConfKept, Zenon
<1>1. CASE Begin(t)
  <2>1. StatusStep(t)
    BY <1>0, <1>1, Goes DEF Begin, StatusStep, GoesTo, Running, thread_change_state
  <2>2. Frame(t)
    BY <1>0, <1>1, Goes DEF Begin, Frame
  <2>3. Others'
    BY <1>00, <1>1, Zenon DEF Begin, Others, thread_change_state
  <2> QED  BY <2>1, <2>2, <2>3, Zenon
<1>2. CASE ThreadPause(t)
  <2>1. StatusStep(t)
    BY <1>0, <1>2, Goes, Zenon DEF ThreadPause, StatusStep, GoesTo, Running
  <2>2. Frame(t)
    BY <1>0, <1>2, Goes DEF ThreadPause, Frame
  <2>3. Others'
    BY <1>0, <1>00, <1>2, Zenon DEF ThreadPause, Others
  <2> QED  BY <2>1, <2>2, <2>3
<1>3. CASE Resume(t)
  <2>1. StatusStep(t)
    BY <1>0, <1>3, Goes, Zenon DEF Resume, StatusStep, GoesTo, Running, thread_change_state
  <2>2. Frame(t)
    BY <1>0, <1>3, Goes DEF Resume, Frame
  <2>3. Others'
    BY <1>0, <1>00, <1>3, Zenon DEF Resume, Others, thread_change_state
  <2> QED  BY <2>1, <2>2, <2>3
<1>4. CASE Finish(t)
  <2>1. StatusStep(t)
    BY <1>0, <1>4, Goes, Zenon DEF Finish, StatusStep, GoesTo, Running, thread_change_state
  <2>2. Frame(t)
    BY <1>0, <1>4, Goes DEF Finish, Frame
  <2>3. Others'
    BY <1>0, <1>00, <1>4, Zenon DEF Finish, Others, thread_change_state
  <2> QED  BY <2>1, <2>2, <2>3
<1>5. CASE Refuse(t)
  <2>0. \E l \in {"reading", "dispatch", "read"} : Goto(t, l)
    BY <1>5, Zenon DEF Refuse
  <2>1. StatusStep(t)
    BY <1>0, <1>5, <2>0, Goes, Zenon DEF Refuse, StatusStep, Running
  <2>2. Frame(t)
    BY <1>0, <1>5, <2>0, Goes, Zenon DEF Refuse, Frame
  <2>3. Others'
    BY <1>0, <1>00, <1>5, Zenon DEF Refuse, Others
  <2> QED  BY <2>1, <2>2, <2>3
<1> QED  BY <1>1, <1>2, <1>3, <1>4, <1>5, Zenon

LEMMA ReadsTyped ==
  ASSUME Types, Others
  PROVE  (UNCHANGED left \/ \E x \in Items : Reads(x)) => left' \in 0 .. Input
<1>1. Input \in Nat
  BY TraceAssumption, Zenon DEF Types, Input
<1> QED  BY <1>1 DEF Others, Reads

LEMMA PublishTyped ==
  ASSUME Others
  PROVE  Publish \/ UNCHANGED results => results' \in 0 .. MaxResults
BY TraceAssumption DEF Others, Publish

\* A per-packet thread reads.
LEMMA ReadStep ==
  ASSUME Types, Others, NEW p \in Perpkts, UNCHANGED conf,
         Register(p) \/ Loop(p) \/ ReadRing(p) \/ ReadMore(p) \/ ReadFormat(p) \/ ReadNone(p)
         \/ ReadLock(p) \/ ReadLocked(p)
  PROVE  StatusStep(p) /\ Frame(p) /\ Others'
<1> USE Who DEF status, buffers, locals, program, record
<1>0. DOMAIN pc = Threads /\ p \in Threads
  BY Zenon DEF Types
<1>00. Workers' = Workers /\ Threads' = Threads /\ Input' = Input
  BY ConfKept, Zenon
<1>1. CASE Register(p)
  <2>1. StatusStep(p)
    BY <1>0, <1>1, Goes DEF Register, StatusStep, Running
  <2>2. Frame(p)
    BY <1>0, <1>1, Goes, Zenon DEF Register, Frame
  <2>3. Others'
    BY <1>0, <1>00, <1>1, Zenon DEF Register, Others
  <2> QED  BY <2>1, <2>2, <2>3, Zenon
<1>2. CASE Loop(p)
  <2>1. StatusStep(p)
    BY <1>0, <1>2, Goes DEF Loop, StatusStep, Running
  <2>2. Frame(p)
    BY <1>0, <1>2, Goes, Zenon DEF Loop, Frame
  <2>3. Others'
    BY <1>0, <1>00, <1>2, Zenon DEF Loop, Others
  <2> QED  BY <2>1, <2>2, <2>3
<1>3. CASE ReadRing(p)
  <2>1. StatusStep(p)
    BY <1>0, <1>3, Goes DEF ReadRing, StatusStep, After, Running
  <2>2. Frame(p)
    BY <1>0, <1>3, Goes, Zenon DEF ReadRing, After, Frame
  <2>3. Others'
    BY <1>0, <1>00, <1>3, Zenon DEF ReadRing, Others
  <2> QED  BY <2>1, <2>2, <2>3
<1>4. CASE ReadMore(p)
  <2>1. StatusStep(p)
    BY <1>0, <1>4, Goes DEF ReadMore, StatusStep, Running
  <2>2. Frame(p)
    BY <1>0, <1>4, Goes, Zenon DEF ReadMore, Frame
  <2>3. Others'
    BY <1>0, <1>00, <1>4, Zenon DEF ReadMore, Others
  <2> QED  BY <2>1, <2>2, <2>3
<1>5. CASE ReadFormat(p)
  <2>1. StatusStep(p)
    <3>1. \E l \in {"dispatch", "refuse"} : Goto(p, l)
      BY <1>5, Zenon DEF ReadFormat
    <3> QED  BY <1>0, <1>5, <3>1, Goes, Zenon DEF ReadFormat, StatusStep, Running
  <2>2. Frame(p)
    <3>1. \E l \in {"dispatch", "refuse"} : Goto(p, l)
      BY <1>5, Zenon DEF ReadFormat
    <3> QED  BY <1>0, <1>5, <3>1, Goes, Zenon DEF ReadFormat, Frame
  <2>3. Others'
    <3>1. left' \in 0 .. Input
      <4>1. Input \in Nat /\ Burst \in Nat /\ left \in 0 .. Input
        BY TraceAssumption, Zenon DEF Types, Input, Burst, Others
      <4>2. \E n \in 1 .. Burst : (Live \/ n <= left) /\ left' = IF Live THEN left ELSE left - n
        BY <1>5, Zenon DEF ReadFormat
      <4> QED  BY <4>1, <4>2
    <3> QED  BY <1>00, <1>5, <3>1, Zenon DEF ReadFormat, Others
  <2> QED  BY <2>1, <2>2, <2>3
<1>8. CASE ReadNone(p)
  <2>1. StatusStep(p)
    BY <1>0, <1>8, Goes DEF ReadNone, StatusStep, After, Running
  <2>2. Frame(p)
    BY <1>0, <1>8, Goes, Zenon DEF ReadNone, After, Frame
  <2>3. Others'
    BY <1>00, <1>8, ReadsTyped, Zenon DEF ReadNone, Items, Others
  <2> QED  BY <2>1, <2>2, <2>3
<1>6. CASE ReadLock(p)
  <2>1. StatusStep(p)
    BY <1>0, <1>6, Goes DEF ReadLock, StatusStep, Running
  <2>2. Frame(p)
    BY <1>0, <1>6, Goes, Zenon DEF ReadLock, Frame
  <2>3. Others'
    BY <1>0, <1>00, <1>6, Zenon DEF ReadLock, Others
  <2> QED  BY <2>1, <2>2, <2>3
<1>7. CASE ReadLocked(p)
  <2>1. StatusStep(p)
    BY <1>0, <1>7, Goes DEF ReadLocked, StatusStep, After, Running
  <2>2. Frame(p)
    BY <1>0, <1>7, Goes, Zenon DEF ReadLocked, After, Frame
  <2>3. Others'
    BY <1>00, <1>7, ReadsTyped, Zenon DEF ReadLocked, Items, Others
  <2> QED  BY <2>1, <2>2, <2>3
<1> QED  BY <1>1, <1>2, <1>3, <1>4, <1>5, <1>6, <1>7, <1>8, Zenon

\* A per-packet thread dispatches, pauses or ends.
LEMMA DispatchStep ==
  ASSUME Types, Others, NEW p \in Perpkts, UNCHANGED conf,
         Dispatch(p) \/ Delay(p) \/ DrainBatch(p) \/ DrainRing(p) \/ DrainDone(p) \/ Error(p) \/ Eof(p) \/ Post(p)
  PROVE  StatusStep(p) /\ Frame(p) /\ Others'
<1> USE Who DEF status, buffers, locals, program, record
<1>0. DOMAIN pc = Threads /\ p \in Threads
  BY Zenon DEF Types
<1>00. Workers' = Workers /\ Threads' = Threads /\ Input' = Input
  BY ConfKept, Zenon
<1>1. CASE Dispatch(p)
  <2>1. StatusStep(p)
    BY <1>0, <1>1, Goes DEF Dispatch, StatusStep, DispatchOne, Running
  <2>2. Frame(p)
    BY <1>0, <1>1, Goes, Zenon DEF Dispatch, DispatchOne, Frame
  <2>3. Others'
    BY <1>00, <1>1, PublishTyped, Zenon DEF Dispatch, DispatchOne, Others
  <2> QED  BY <2>1, <2>2, <2>3, Zenon
<1>2. CASE Delay(p)
  <2>1. StatusStep(p)
    BY <1>0, <1>2, Goes DEF Delay, StatusStep, Running
  <2>2. Frame(p)
    BY <1>0, <1>2, Goes, Zenon DEF Delay, Frame
  <2>3. Others'
    BY <1>0, <1>00, <1>2, Zenon DEF Delay, Others
  <2> QED  BY <2>1, <2>2, <2>3
<1>3. CASE DrainBatch(p)
  <2>1. StatusStep(p)
    BY <1>0, <1>3, Goes, Zenon DEF DrainBatch, StatusStep, DispatchOne, Running
  <2>2. Frame(p)
    BY <1>0, <1>3, Goes, Zenon DEF DrainBatch, DispatchOne, Frame
  <2>3. Others'
    BY <1>00, <1>3, PublishTyped, Zenon DEF DrainBatch, DispatchOne, Others
  <2> QED  BY <2>1, <2>2, <2>3
<1>4. CASE DrainRing(p)
  <2>1. StatusStep(p)
    BY <1>0, <1>4, Goes DEF DrainRing, StatusStep, Running
  <2>2. Frame(p)
    BY <1>0, <1>4, Goes, Zenon DEF DrainRing, Frame
  <2>3. Others'
    BY <1>0, <1>00, <1>4, Zenon DEF DrainRing, Others
  <2> QED  BY <2>1, <2>2, <2>3
<1>5. CASE DrainDone(p)
  <2>1. StatusStep(p)
    BY <1>0, <1>5, Goes DEF DrainDone, StatusStep, Running
  <2>2. Frame(p)
    BY <1>0, <1>5, Goes, Zenon DEF DrainDone, Frame
  <2>3. Others'
    BY <1>0, <1>00, <1>5, Zenon DEF DrainDone, Others
  <2> QED  BY <2>1, <2>2, <2>3
<1>6. CASE Error(p)
  <2>1. StatusStep(p)
    BY <1>0, <1>6, Goes DEF Error, StatusStep, Running
  <2>2. Frame(p)
    BY <1>0, <1>6, Goes, Zenon DEF Error, Frame
  <2>3. Others'
    BY <1>0, <1>00, <1>6, Zenon DEF Error, Others
  <2> QED  BY <2>1, <2>2, <2>3
<1>7. CASE Eof(p)
  <2>1. StatusStep(p)
    BY <1>0, <1>7, Goes DEF Eof, StatusStep, Running
  <2>2. Frame(p)
    BY <1>0, <1>7, Goes, Zenon DEF Eof, Frame
  <2>3. Others'
    BY <1>00, <1>7, PublishTyped, Zenon DEF Eof, Others
  <2> QED  BY <2>1, <2>2, <2>3
<1>8. CASE Post(p)
  <2>1. StatusStep(p)
    BY <1>0, <1>8, Goes, Zenon DEF Post, StatusStep, Running
  <2>2. Frame(p)
    BY <1>0, <1>8, Goes, Zenon DEF Post, Frame
  <2>3. Others'
    BY <1>0, <1>00, <1>8, Zenon DEF Post, Others
  <2> QED  BY <2>1, <2>2, <2>3
<1> QED  BY <1>1, <1>2, <1>3, <1>4, <1>5, <1>6, <1>7, <1>8, Zenon

\* The hasher.
LEMMA HasherStepDoes ==
  ASSUME Types, Others, hasher \in Workers, UNCHANGED conf,
         HasherLoop \/ HasherRead \/ HasherWrite \/ HasherTick \/ Broadcast \/ BroadcastWrite
  PROVE  StatusStep(hasher) /\ Frame(hasher) /\ Others'
<1> USE Who DEF status, buffers, locals, program, record
<1>0. DOMAIN pc = Threads /\ hasher \in Threads /\ DOMAIN i = {main, hasher} \cup Perpkts
  BY Zenon DEF Types
<1>00. Workers' = Workers /\ Threads' = Threads /\ Input' = Input
  BY ConfKept, Zenon
<1>1. CASE HasherLoop
  <2>1. StatusStep(hasher)
    BY <1>0, <1>1, Goes DEF HasherLoop, StatusStep, Running
  <2>2. Frame(hasher)
    BY <1>0, <1>1, Goes, Zenon DEF HasherLoop, Frame
  <2>3. Others'
    BY <1>00, <1>1, Zenon DEF HasherLoop, Others
  <2> QED  BY <2>1, <2>2, <2>3, Zenon
<1>2. CASE HasherRead
  <2>0. \E l \in {"refuse", "loop", "write", "bcast"} : Goto(hasher, l)
    BY <1>2, Zenon DEF HasherRead
  <2>1. StatusStep(hasher)
    BY <1>0, <1>2, <2>0, Goes, Zenon DEF HasherRead, StatusStep, Running
  <2>2. Frame(hasher)
    BY <1>0, <1>2, Goes, Zenon DEF HasherRead, Frame
  <2>3. Others'
    BY <1>00, <1>2, ReadsTyped, Zenon DEF HasherRead, Items, Others
  <2> QED  BY <2>1, <2>2, <2>3
<1>3. CASE HasherWrite
  <2>1. StatusStep(hasher)
    BY <1>0, <1>3, Goes DEF HasherWrite, StatusStep, Running
  <2>2. Frame(hasher)
    BY <1>0, <1>3, Goes, Zenon DEF HasherWrite, Frame
  <2>3. Others'
    BY <1>00, <1>3, Zenon DEF HasherWrite, Others
  <2> QED  BY <2>1, <2>2, <2>3
<1>4. CASE HasherTick
  <2>1. StatusStep(hasher)
    BY <1>0, <1>4, Goes DEF HasherTick, StatusStep, Running
  <2>2. Frame(hasher)
    BY <1>0, <1>4, Goes, Zenon DEF HasherTick, Frame
  <2>3. Others'
    BY <1>00, <1>4, Zenon DEF HasherTick, Others
  <2> QED  BY <2>1, <2>2, <2>3
<1>5. CASE Broadcast
  <2>1. StatusStep(hasher)
    BY <1>0, <1>5, Goes DEF Broadcast, StatusStep, Running
  <2>2. Frame(hasher)
    BY <1>0, <1>5, Goes DEF Broadcast, Frame
  <2>3. Others'
    BY <1>00, <1>5, Zenon DEF Broadcast, Others
  <2> QED  BY <2>1, <2>2, <2>3
<1>6. CASE BroadcastWrite
  <2>1. StatusStep(hasher)
    BY <1>0, <1>6, Goes DEF BroadcastWrite, StatusStep, Running
  <2>2. Frame(hasher)
    BY <1>0, <1>6, Goes, Zenon DEF BroadcastWrite, Frame
  <2>3. Others'
    BY <1>00, <1>6, Zenon DEF BroadcastWrite, Others
  <2> QED  BY <2>1, <2>2, <2>3
<1> QED  BY <1>1, <1>2, <1>3, <1>4, <1>5, <1>6, Zenon

\* The reporter.
LEMMA ReporterStepDoes ==
  ASSUME Types, Others, reporter \in Workers, UNCHANGED conf,
         ReporterLoop \/ ReporterGet \/ ReporterFinal
  PROVE  StatusStep(reporter) /\ Frame(reporter) /\ Others'
<1> USE Who DEF status, buffers, locals, program, record
<1>0. DOMAIN pc = Threads /\ reporter \in Threads /\ DOMAIN i = {main, hasher} \cup Perpkts
  BY Zenon DEF Types
<1>00. Workers' = Workers /\ Threads' = Threads /\ Input' = Input
  BY ConfKept, Zenon
<1>1. CASE ReporterLoop
  <2>1. StatusStep(reporter)
    BY <1>0, <1>1, Goes DEF ReporterLoop, StatusStep, Running
  <2>2. Frame(reporter)
    BY <1>0, <1>1, Goes DEF ReporterLoop, Frame
  <2>3. Others'
    BY <1>00, <1>1, Zenon DEF ReporterLoop, Others
  <2> QED  BY <2>1, <2>2, <2>3, Zenon
<1>2. CASE ReporterGet
  <2>0. \E l \in {"pause", "loop"} : Goto(reporter, l)
    BY <1>2, Zenon DEF ReporterGet
  <2>1. StatusStep(reporter)
    BY <1>0, <1>2, <2>0, Goes, Zenon DEF ReporterGet, StatusStep, Running
  <2>2. Frame(reporter)
    BY <1>0, <1>2, <2>0, Goes, Zenon DEF ReporterGet, Frame
  <2>3. Others'
    BY <1>00, <1>2, TraceAssumption DEF ReporterGet, Others
  <2> QED  BY <2>1, <2>2, <2>3
<1>3. CASE ReporterFinal
  <2>1. StatusStep(reporter)
    BY <1>0, <1>3, Goes DEF ReporterFinal, StatusStep, Running
  <2>2. Frame(reporter)
    BY <1>0, <1>3, Goes DEF ReporterFinal, Frame
  <2>3. Others'
    BY <1>00, <1>3, TraceAssumption DEF ReporterFinal, Others
  <2> QED  BY <2>1, <2>2, <2>3
<1> QED  BY <1>1, <1>2, <1>3, Zenon

\* The keepalive thread.
LEMMA KeepaliveStepDoes ==
  ASSUME Types, Others, keepalive \in Workers, UNCHANGED conf,
         KeepaliveLoop
  PROVE  StatusStep(keepalive) /\ Frame(keepalive) /\ Others'
<1> USE Who DEF status, buffers, locals, program, record
<1>0. DOMAIN pc = Threads /\ keepalive \in Threads /\ DOMAIN i = {main, hasher} \cup Perpkts
  BY Zenon DEF Types
<1>00. Workers' = Workers /\ Threads' = Threads /\ Input' = Input
  BY ConfKept, Zenon
<1>1. CASE KeepaliveLoop
  <2>1. StatusStep(keepalive)
    BY <1>0, <1>1, Goes DEF KeepaliveLoop, StatusStep, Running
  <2>2. Frame(keepalive)
    BY <1>0, <1>1, Goes, Zenon DEF KeepaliveLoop, Frame
  <2>3. Others'
    BY <1>00, <1>1, Zenon DEF KeepaliveLoop, Others
  <2> QED  BY <2>1, <2>2, <2>3, Zenon
<1> QED  BY <1>1, Zenon

LEMMA WorkerStepDoes ==
  ASSUME Types, Others, NEW t \in Workers, WorkerStep(t)
  PROVE  StatusStep(t) /\ Frame(t) /\ Types' /\ Others'
<1>1. StatusStep(t) /\ Frame(t) /\ Others'
  BY RegistersWork, CommonStep, ReadStep, DispatchStep, HasherStepDoes, ReporterStepDoes, KeepaliveStepDoes, Zenon
     DEF WorkerStep, PerpktStep, HasherStep
<1> QED  BY <1>1, StatusTyped, Zenon

-----------------------------------------------------------------------------
(* A step of a worker preserves what is said of the control.                 *)

LEMMA WorkerMatches ==
  ASSUME Types, NEW t \in Workers, StatusStep(t), Frame(t), Matches
  PROVE  /\ Matches'
         /\ \A p \in Perpkts :
              /\ tstate[p] = "FINISHED" => tstate'[p] = "FINISHED"
              /\ tstate'[p] = "RUNNING" => tstate[p] = "RUNNING" \/ state \notin {"PAUSED", "PAUSING"}
<1>0. Workers' = Workers /\ Workers \subseteq Threads /\ Perpkts \subseteq Workers
  BY Who, ConfKept, Zenon DEF Frame
<1>1. \A u \in Workers \ {t} : pc'[u] = pc[u] /\ tstate'[u] = tstate[u]
  BY <1>0, Zenon DEF StatusStep, GoesTo, Frame, Types
<1>2. /\ tstate'[t] = "PAUSED" <=> pc'[t] = "paused"
      /\ tstate'[t] = "FINISHED" <=> pc'[t] \in {"post", "exit"}
      /\ tstate[t] = "FINISHED" => tstate'[t] = "FINISHED"
      /\ tstate'[t] = "RUNNING" => tstate[t] = "RUNNING" \/ state \notin {"PAUSED", "PAUSING"}
  <2>1. /\ tstate[t] = "PAUSED" <=> pc[t] = "paused"
        /\ tstate[t] = "FINISHED" <=> pc[t] \in {"post", "exit"}
        /\ tstate[t] \in TStates
    BY Zenon DEF Matches, Types
  <2>2. CASE UNCHANGED <<state, tstate, perpkt_thread_states>>
    BY <2>1, <2>2, Zenon DEF StatusStep, Running, GoesTo, Types
  <2>3. CASE pc[t] = "pause" /\ pc'[t] = "paused" /\ GoesTo(t, "PAUSED")
    BY <2>1, <2>3, Zenon DEF GoesTo, Types
  <2>4. CASE pc[t] = "pause" /\ pc'[t] = "loop" /\ UNCHANGED tstate
    BY <2>1, <2>4, Zenon
  <2>5. CASE pc[t] = "paused" /\ pc'[t] = "loop" /\ state \notin {"PAUSED", "PAUSING"} /\ GoesTo(t, "RUNNING")
    BY <2>1, <2>5, Zenon DEF GoesTo, Types
  <2>6. CASE Running(pc[t]) /\ pc'[t] \in {"post", "exit"} /\ GoesTo(t, "FINISHED")
    BY <2>1, <2>6, Zenon DEF GoesTo, Types, Running
  <2> QED  BY <2>2, <2>3, <2>4, <2>5, <2>6, Zenon DEF StatusStep
<1> QED  BY <1>0, <1>1, <1>2 DEF Matches

\* When the count says so all per-packet threads have finished.
LEMMA CountedDone ==
  ASSUME Sized, NEW f, Cardinality({p \in Perpkts : f[p] = "FINISHED"}) = N
  PROVE  \A p \in Perpkts : f[p] = "FINISHED"
<1> DEFINE done == {p \in Perpkts : f[p] = "FINISHED"}
<1>1. done \in SUBSET Perpkts
  BY Zenon
<1>2. done = Perpkts
  BY <1>1, Zenon DEF Sized
<1> QED  BY <1>2, Zenon

\* The counts after a thread went to s are those of the states after it.
LEMMA CountsMove ==
  ASSUME Types, Sized, NEW t \in Workers, NEW s \in TStates, NEW r \in TStates,
         perpkt_thread_states[r] = Cardinality(InState(r))
  PROVE  Recount(t, s)[r] = Cardinality({p \in Perpkts : [tstate EXCEPT ![t] = s][p] = r})
<1>1. CASE t \in Perpkts
  <2>1. tstate \in [Workers -> TStates]
    BY Zenon DEF Types
  <2>2. Cardinality({p \in Perpkts : [tstate EXCEPT ![t] = s][p] = r})
          = Cardinality(InState(r)) - (IF r = tstate[t] THEN 1 ELSE 0) + (IF r = s THEN 1 ELSE 0)
    BY <1>1, <2>1, Recounted DEF InState
  <2> QED  BY <1>1, <2>2, Zenon DEF Recount
<1>2. CASE t \notin Perpkts
  <2>1. \A p \in Perpkts : [tstate EXCEPT ![t] = s][p] = tstate[p]
    BY <1>2, Who, Zenon DEF Types
  <2>2. {p \in Perpkts : [tstate EXCEPT ![t] = s][p] = r} = InState(r)
    BY <2>1, Zenon DEF InState
  <2> QED  BY <1>2, <2>2, Zenon DEF Recount
<1> QED  BY <1>1, <1>2, Zenon

\* The counts stay right, and the trace is finished only with its last thread.
LEMMA WorkerCounts ==
  ASSUME Types, Sized, NEW t \in Workers, StatusStep(t), Frame(t), Matches, Counts, Starts
  PROVE  Counts' /\ (state' = state \/ (state' = "FINISHED" /\ AllDone'))
<1>1. t \in Threads /\ t # main /\ pc'[main] = pc[main] /\ pc[t] \notin {"none", "exit"}
  BY Who, Zenon DEF Frame
<1>2. pc[main] # "end" /\ state # "NEW" /\ (state = "ERROR" => pc[main] = "cleanup")
  BY <1>1, Zenon DEF Starts
<1>3. \A r \in TStates : r = "FINISHED" \/ pc[main] # "cleanup" =>
        perpkt_thread_states[r] = Cardinality(InState(r))
  BY <1>2, Zenon DEF Counts
<1>4. "FINISHED" \in TStates /\ "PAUSED" \in TStates /\ "RUNNING" \in TStates
  BY Zenon DEF TStates
<1>5. ASSUME NEW s \in TStates, GoesTo(t, s)
      PROVE  /\ \A r \in TStates : r = "FINISHED" \/ pc[main] # "cleanup" =>
                   perpkt_thread_states'[r] = Cardinality(InState(r)')
             /\ state' = state \/ (state' = "FINISHED" /\ AllDone')
  <2>1. \A r \in TStates : r = "FINISHED" \/ pc[main] # "cleanup" =>
          perpkt_thread_states'[r] = Cardinality(InState(r)')
    <3> TAKE r \in TStates
    <3> HAVE r = "FINISHED" \/ pc[main] # "cleanup"
    <3>1. perpkt_thread_states[r] = Cardinality(InState(r))
      BY <1>3, Zenon
    <3>2. Recount(t, s)[r] = Cardinality({p \in Perpkts : [tstate EXCEPT ![t] = s][p] = r})
      BY <3>1, CountsMove, Zenon
    <3>3. InState(r)' = {p \in Perpkts : [tstate EXCEPT ![t] = s][p] = r}
      BY <1>5, Zenon DEF GoesTo, InState
    <3> QED  BY <1>5, <3>2, <3>3, Zenon DEF GoesTo
  <2>2. Cardinality(InState("FINISHED")') = N => AllDone'
    BY CountedDone, Zenon DEF InState, AllDone
  <2> QED  BY <1>4, <1>5, <2>1, <2>2, Zenon DEF GoesTo, StateAfter
<1>6. CASE UNCHANGED <<state, tstate, perpkt_thread_states>>
  <2>1. \A r \in TStates : r = "FINISHED" \/ pc[main] # "cleanup" =>
          perpkt_thread_states'[r] = Cardinality(InState(r)')
    BY <1>3, <1>6, Zenon DEF InState
  <2> QED  BY <1>1, <1>4, <1>6, <2>1, Zenon DEF Counts
<1>7. CASE \E s \in TStates : GoesTo(t, s)
  BY <1>1, <1>4, <1>5, <1>7, Zenon DEF Counts
<1>8. CASE /\ pc[t] = "pause" /\ UNCHANGED <<tstate, perpkt_thread_states>>
           /\ state' = StateAfter(Recount(t, "PAUSED"))
  <2>1. \A r \in TStates : r = "FINISHED" \/ pc[main] # "cleanup" =>
          perpkt_thread_states'[r] = Cardinality(InState(r)')
    BY <1>3, <1>8, Zenon DEF InState
  <2>2. perpkt_thread_states["FINISHED"] = N => AllDone
    BY <1>3, <1>4, CountedDone, Zenon DEF InState, AllDone
  <2>3. AllDone' <=> AllDone
    BY <1>8, Zenon DEF AllDone
  <2>4. perpkt_thread_states["FINISHED"] \in Int /\ tstate[t] # "FINISHED"
    BY <1>4, <1>8, Zenon DEF Types, Matches
  <2>5. Recount(t, "PAUSED")["FINISHED"] = perpkt_thread_states["FINISHED"]
    BY <1>4, <2>4 DEF Recount
  <2> QED  BY <1>1, <1>4, <1>8, <2>1, <2>2, <2>3, <2>5, Zenon DEF Counts, StateAfter
<1> QED  BY <1>4, <1>6, <1>7, <1>8, Zenon DEF StatusStep

LEMMA WorkerControl ==
  ASSUME Types, Others, Sized, Control, NEW t \in Workers, WorkerStep(t)
  PROVE  Control'
<1> DEFINE Moved == state' = state \/ (state' = "FINISHED" /\ AllDone')
           Ended1 == \A p \in Perpkts : tstate[p] = "FINISHED" => tstate'[p] = "FINISHED"
           Rests == \A p \in Perpkts : tstate'[p] = "RUNNING" =>
                      tstate[p] = "RUNNING" \/ state \notin {"PAUSED", "PAUSING"}
<1>1. StatusStep(t) /\ Frame(t)
  BY WorkerStepDoes, Zenon
<1>2. Matches' /\ Ended1 /\ Rests
  BY <1>1, WorkerMatches, Zenon DEF Control
<1>3. Counts' /\ Moved
  BY <1>1, WorkerCounts, Zenon DEF Control
<1>4. /\ t \in Threads /\ t # main /\ pc'[main] = pc[main] /\ i'[main] = i[main]
      /\ started' = started /\ stopping' = stopping
      /\ pc[t] \notin {"none", "exit"} /\ \A u \in Workers \ {t} : pc'[u] = pc[u]
      /\ Perpkts \subseteq Workers
  BY <1>1, Who, Zenon DEF Frame
<1>5. AllDone => AllDone'
  BY <1>2, Zenon DEF AllDone
<1>6. AllDone /\ t \in Perpkts => pc[t] = "post"
  BY <1>4, Zenon DEF AllDone, Control, Matches
<1>7. /\ pc[main] # "end" /\ state # "NEW" /\ (state = "ERROR" => pc[main] = "cleanup")
      /\ trace_has_finished => AllDone
  BY <1>4, Zenon DEF Control, Starts
<1>8. \A u \in Workers : pc[u] = "exit" => pc'[u] = "exit"
  BY <1>4, Zenon
<1>c. /\ Workers' = Workers /\ Mode' = Mode /\ HasReporter' = HasReporter
      /\ HasKeepalive' = HasKeepalive /\ Failures' = Failures
  BY <1>1, ConfKept, Zenon DEF Frame
<1>9. Starts'
  <2>1. pc[main] = "cleanup" => \A p \in Perpkts : pc'[p] \in {"none", "start", "exit"}
    <3> SUFFICES ASSUME pc[main] = "cleanup", t \in Perpkts
                 PROVE  pc'[t] = "exit"
      BY <1>4, Zenon DEF Control, Starts
    <3>1. pc[t] = "start" /\ state \in {"ERROR", "FINISHED"}
      BY <1>4, Zenon DEF Control, Starts
    <3>2. state = "ERROR"
      BY <1>6, <1>7, <3>1, Zenon DEF trace_has_finished
    <3> QED  BY <1>1, <3>1, <3>2, Zenon DEF Frame
  <2>2. pc[main] = "cleanup" => results' = 0
    BY <1>1, <1>4, Zenon DEF Control, Starts, Frame
  <2>3. trace_has_finished' => AllDone'
    BY <1>3, <1>5, <1>7, Zenon DEF trace_has_finished
  <2> QED  BY <1>3, <1>4, <1>7, <1>c, <2>1, <2>2, <2>3, Zenon DEF Control, Starts
<1>10. Pauses'
  <2>1. pc[main] \in Closing \cup Stopping \/ state = "PAUSED" => Still /\ state \in {"PAUSED", "PAUSING", "FINISHED"}
    BY Zenon DEF Control, Pauses
  <2>2. pc[main] \in Closing \cup Stopping \/ state = "PAUSED" => Still'
    <3>1. Still /\ state \in {"PAUSED", "PAUSING"} => Still'
      BY <1>2, Zenon DEF Still
    <3>2. state = "FINISHED" => Still'
      BY <1>5, <1>7, Zenon DEF Still, AllDone, trace_has_finished
    <3> QED  BY <2>1, <3>1, <3>2, Zenon
  <2> QED  BY <1>3, <1>4, <2>2, Zenon DEF Control, Pauses, Asking, Closing, Stopping
<1>11. Joins'
  <2>1. pc[main] = "joined" => \A u \in Workers : pc[u] = "exit"
    BY Zenon DEF Control, Joins, Workers
  <2>2. pc[main] # "joined"
    BY <1>4, <2>1, Zenon
  <2> QED  BY <1>4, <1>8, <1>c, <2>2, Who, Zenon DEF Control, Joins
<1>12. Reported'
  <2> SUFFICES ASSUME HasReporter, reporter \in Workers, reporter # main, reporter \notin Perpkts
               PROVE  /\ pc'[reporter] = "final" => AllDone'
                      /\ pc'[reporter] \in {"finish", "exit"} => results' = 0 /\ (AllDone' \/ pc'[main] \in {"cleanup", "end"})
    BY <1>c, Who, Zenon DEF Reported
  <2>1. CASE t = reporter
    <3>1. /\ pc'[t] = "final" => trace_has_finished
          /\ pc'[t] \in {"finish", "exit"} =>
               \/ pc[t] = "final" /\ results' = 0
               \/ pc[t] = "finish" /\ results' = results
               \/ pc[t] = "start" /\ state = "ERROR" /\ results' = results
      BY <1>1, <2>1, Zenon DEF Frame
    <3> QED  BY <1>4, <1>5, <1>7, <2>1, <3>1, Zenon DEF Control, Reported, Starts
  <2>2. CASE t # reporter
    <3>1. results' = results \/ results' = 0 \/ (t \in Perpkts /\ pc[t] \in {"dispatch", "drain", "eof"})
      BY <1>1, Zenon DEF Frame
    <3>2. pc[main] = "cleanup" /\ t \in Perpkts => pc[t] \notin {"dispatch", "drain", "eof"}
      BY Zenon DEF Control, Starts
    <3> QED  BY <1>4, <1>5, <1>6, <1>7, <2>2, <3>1, <3>2, Zenon DEF Control, Reported
  <2> QED  BY <2>1, <2>2, Zenon
<1> QED  BY <1>2, <1>3, <1>9, <1>10, <1>11, <1>12, Zenon DEF Control

-----------------------------------------------------------------------------
(* So does a step of the main thread.                                        *)

\* What most of its steps leave alone.
Apart ==
  /\ UNCHANGED <<conf, tstate, perpkt_thread_states, results>>
  /\ DOMAIN pc' = Threads /\ \A u \in Workers : pc'[u] = pc[u]

LEMMA ApartKeeps ==
  ASSUME Types, Control, Apart
  PROVE  /\ Matches' /\ (AllDone' <=> AllDone) /\ (Still' <=> Still)
         /\ (pc[main] \in {"cleanup", "end"} => pc'[main] \in {"cleanup", "end"}) => Reported'
         /\ pc[main] \notin {"cleanup", "end"} /\ pc'[main] # "cleanup" /\ state \notin {"NEW", "ERROR"} => Counts'
<1>1. Workers' = Workers /\ HasReporter' = HasReporter
  BY ConfKept, Zenon DEF Apart
<1>2. \A u \in Workers : pc'[u] = pc[u] /\ tstate'[u] = tstate[u]
  BY Zenon DEF Apart
<1>3. Matches'
  BY <1>1, <1>2, Zenon DEF Control, Matches
<1>4. (AllDone' <=> AllDone) /\ (Still' <=> Still)
  BY Zenon DEF Apart, AllDone, Still
<1>5. (pc[main] \in {"cleanup", "end"} => pc'[main] \in {"cleanup", "end"}) => Reported'
  BY <1>1, <1>2, <1>4, Who, Zenon DEF Apart, Control, Reported
<1>6. \A s : InState(s)' = InState(s)
  BY Zenon DEF Apart, InState
<1>7. pc[main] \notin {"cleanup", "end"} /\ pc'[main] # "cleanup" /\ state \notin {"NEW", "ERROR"} => Counts'
  BY <1>6, Zenon DEF Apart, Control, Counts
<1> QED  BY <1>3, <1>4, <1>5, <1>7, Zenon

\* trace_pstart.
LEMMA PstartControl ==
  ASSUME Types, Others, Sized, Control, UNCHANGED conf, Pstart \/ PstartFails
  PROVE  Types' /\ Others' /\ Control'
<1> USE Who DEF status, buffers, locals, program, record, libtrace_change_state
<1>0. Workers' = Workers /\ Threads' = Threads /\ Input' = Input /\ Mode' = Mode /\ Failures' = Failures
      /\ HasReporter' = HasReporter /\ HasKeepalive' = HasKeepalive
  BY ConfKept, Zenon
<1>1. /\ pc[main] = "user" /\ state = "NEW" /\ ~stopping /\ ~started /\ results = 0
      /\ \A t \in Workers : pc[t] = "none"
      /\ \A s \in TStates : perpkt_thread_states[s] = 0
  BY Zenon DEF Pstart, PstartFails, Control, Starts
<1>2. UNCHANGED <<tstate, results, stopping, lock, error, lost, left, i>>
  BY Zenon DEF Pstart, PstartFails
<1>3. \A t \in Workers : tstate[t] = "RUNNING"
  BY <1>1, Zenon DEF Types, TStates, Control, Matches
<1>4. InState("RUNNING") = Perpkts /\ InState("PAUSED") = {} /\ InState("FINISHED") = {}
  BY <1>3, Zenon DEF InState
<1>5. \A s : InState(s)' = InState(s)
  BY <1>2, Zenon DEF InState
<1>7. CASE Pstart
  <2>1. pc'[main] = "user" /\ (\A t \in Workers : pc'[t] = "start") /\ state' = "RUNNING"
        /\ DOMAIN pc' = Threads
    BY <1>7, Zenon DEF Pstart
  <2>2. perpkt_thread_states' = [s \in TStates |-> IF s = "RUNNING" THEN N ELSE 0]
    BY <1>1, <1>7, Zenon DEF Pstart, Types, TStates
  <2>3. Types' /\ Others'
    BY <1>0, <1>2, <1>7, <2>1, <2>2, TraceAssumption DEF Pstart, Types, Others, TStates, States
  <2>4. Matches'
    BY <1>0, <1>2, <1>3, <2>1, Zenon DEF Matches
  <2>5. Counts'
    BY <1>4, <1>5, <2>1, <2>2, Zenon DEF Counts, Sized, TStates
  <2>6. Starts' /\ Pauses' /\ Joins' /\ Reported'
    BY <1>0, <2>1, Zenon DEF Starts, Pauses, Joins, Reported, Asking, Closing, Stopping, trace_has_finished
  <2> QED  BY <2>3, <2>4, <2>5, <2>6, Zenon DEF Control
<1>8. CASE PstartFails
  <2>1. pc'[main] = "cleanup" /\ (\A t \in Workers : pc'[t] \in {"none", "start"}) /\ state' = "ERROR"
        /\ DOMAIN pc' = Threads /\ "start" \in Failures /\ started' = started
    BY <1>8, Zenon DEF PstartFails
  <2>2. \E n \in {0, N} : perpkt_thread_states' = [s \in TStates |-> IF s = "RUNNING" THEN n ELSE 0]
    <3>1. PICK n \in {0, N} : perpkt_thread_states' = [perpkt_thread_states EXCEPT !["RUNNING"] = n]
      BY <1>8, Zenon DEF PstartFails
    <3>2. perpkt_thread_states \in [TStates -> Int] /\ \A s \in TStates : perpkt_thread_states[s] = 0
      BY <1>1, Zenon DEF Types
    <3>3. perpkt_thread_states' = [s \in TStates |-> IF s = "RUNNING" THEN n ELSE 0]
      BY <3>1, <3>2, Zenon
    <3> QED  BY <3>3, Zenon
  <2>3. Types' /\ Others'
    BY <1>0, <1>2, <1>8, <2>1, <2>2, TraceAssumption DEF PstartFails, Types, Others, TStates, States
  <2>4. Matches'
    BY <1>0, <1>2, <1>3, <2>1, Zenon DEF Matches
  <2>5. Counts'
    <3>1. perpkt_thread_states'["FINISHED"] = 0
      BY <2>2, Zenon DEF TStates
    <3> QED  BY <1>4, <1>5, <2>1, <3>1, Zenon DEF Counts, Sized
  <2>6. Starts' /\ Pauses' /\ Joins' /\ Reported'
    BY <1>0, <1>1, <1>2, <2>1, Zenon DEF Starts, Pauses, Joins, Reported, Asking, Closing, Stopping, trace_has_finished
  <2> QED  BY <2>3, <2>4, <2>5, <2>6 DEF Control
<1> QED  BY <1>7, <1>8, Zenon

\* A step from one place in trace_ppause to another.
Onward ==
  /\ Apart /\ UNCHANGED <<state, stopping, lock, error, lost, left>>
  /\ started' \in BOOLEAN /\ asleep' \subseteq Threads
  /\ DOMAIN i' = {main, hasher} \cup Perpkts /\ i'[main] \in Nat
  /\ pc[main] \in Asking \cup Closing /\ pc'[main] \in Asking \cup Closing
  /\ pc'[main] \in Closing => pc[main] \in Closing

LEMMA OnwardControl ==
  ASSUME Types, Others, Control, Onward
  PROVE  Types' /\ Others' /\ Control'
<1>0. /\ Workers' = Workers /\ Threads' = Threads /\ Input' = Input /\ Failures' = Failures
      /\ UNCHANGED <<conf, tstate, perpkt_thread_states, results>> /\ DOMAIN pc' = Threads
  BY ConfKept, Zenon DEF Onward, Apart
<1>1. Types' /\ Others'
  <2>1. /\ UNCHANGED <<state, stopping, lock, error, lost, left>>
        /\ started' \in BOOLEAN /\ asleep' \subseteq Threads
        /\ DOMAIN i' = {main, hasher} \cup Perpkts /\ i'[main] \in Nat
    BY Zenon DEF Onward
  <2> QED  BY <1>0, <2>1, Zenon DEF Types, Others
<1>2. /\ pc[main] \in Asking \cup Closing /\ pc'[main] \in Asking \cup Closing
      /\ pc'[main] \in Closing => pc[main] \in Closing
      /\ state' = state /\ stopping' = stopping
  BY Zenon DEF Onward
<1>3. state \in {"PAUSING", "FINISHED"} /\ (pc[main] \in Closing => Still) /\ (trace_has_finished => AllDone)
  BY <1>2, Zenon DEF Control, Pauses, Starts
<1>4. \A l \in Asking \cup Closing :
        l \notin {"user", "end", "cleanup", "joinperpkt", "joinreporter", "joinkeepalive", "joined"} \cup Stopping
  BY Zenon DEF Asking, Closing, Stopping
<1>5. pc[main] \notin {"cleanup", "end"} /\ pc'[main] # "cleanup" /\ state \notin {"NEW", "ERROR"}
  BY <1>2, <1>3, <1>4, Zenon
<1>6. Matches' /\ (AllDone' <=> AllDone) /\ (Still' <=> Still) /\ Reported' /\ Counts'
  BY <1>5, ApartKeeps, Zenon DEF Onward
<1>7. Starts'
  BY <1>2, <1>3, <1>4, <1>6, Zenon DEF Starts, trace_has_finished
<1>8. Pauses' /\ Joins'
  BY <1>2, <1>3, <1>4, <1>6, Zenon DEF Pauses, Joins
<1> QED  BY <1>1, <1>6, <1>7, <1>8, Zenon DEF Control

\* trace_ppause, from its call to the end of its waits.
LEMMA AskingControl ==
  ASSUME Types, Others, Sized, Control, UNCHANGED conf,
         AskHasher \/ WaitHasher \/ AskPerpkt \/ Nudge \/ AskReporter \/ WaitReporter \/ PauseInput
  PROVE  Types' /\ Others' /\ Control'
<1>0. /\ DOMAIN pc = Threads /\ main \in Threads /\ main \notin Workers /\ Workers \subseteq Threads
      /\ DOMAIN i = {main, hasher} \cup Perpkts /\ i[main] \in Nat /\ started \in BOOLEAN /\ asleep \subseteq Threads
  BY Who, Zenon DEF Types, Others
<1>1. /\ UNCHANGED <<conf, tstate, perpkt_thread_states, results, state, stopping, lock, error, lost, left>>
      /\ started' \in BOOLEAN /\ asleep' \subseteq Threads
  <2>1. UNCHANGED <<tstate, perpkt_thread_states, results, state, stopping, lock, error, lost, left>>
    BY Zenon DEF AskHasher, WaitHasher, AskPerpkt, Nudge, AskReporter, WaitReporter, PauseInput, Ask, Await,
       status, locals, program, record
  <2>2. started' = started \/ started' = FALSE
    BY Zenon DEF AskHasher, WaitHasher, AskPerpkt, Nudge, AskReporter, WaitReporter, PauseInput, Ask, Await, program
  <2>3. asleep' = asleep \/ asleep' = asleep \cup {main}
    BY Zenon DEF AskHasher, WaitHasher, AskPerpkt, Nudge, AskReporter, WaitReporter, PauseInput, Ask, Await, status
  <2> QED  BY <1>0, <2>1, <2>2, <2>3, Zenon
<1>2. DOMAIN i' = {main, hasher} \cup Perpkts /\ i'[main] \in Nat
  <2>1. i' = i \/ i' = [i EXCEPT ![main] = @ + 1]
    BY Zenon DEF AskHasher, WaitHasher, AskPerpkt, Nudge, AskReporter, WaitReporter, PauseInput, Ask, Await, locals
  <2>2. i[main] + 1 \in Nat
    BY <1>0
  <2> QED  BY <1>0, <2>1, <2>2, Zenon
<1>3. \/ pc' = pc /\ pc[main] \in {"waithasher", "askperpkt", "waitreporter"}
      \/ pc[main] = "askhasher" /\ Goto(main, "waithasher")
      \/ pc[main] = "waithasher" /\ Goto(main, "askperpkt")
      \/ pc[main] = "askperpkt" /\ (Goto(main, "nudge") \/ Goto(main, "waitperpkts"))
      \/ pc[main] = "nudge" /\ Goto(main, "askperpkt")
      \/ pc[main] = "askreporter" /\ Goto(main, "waitreporter")
      \/ pc[main] = "waitreporter" /\ Goto(main, "pauseinput")
      \/ pc[main] = "pauseinput" /\ Goto(main, "setpaused")
  BY Zenon DEF AskHasher, WaitHasher, AskPerpkt, Nudge, AskReporter, WaitReporter, PauseInput, Ask, Await
<1>4. DOMAIN pc' = Threads /\ \A u \in Workers : pc'[u] = pc[u]
  BY <1>0, <1>3, Goes, Zenon
<1>5. \/ pc[main] \in Asking /\ pc'[main] \in Asking
      \/ pc[main] \in Closing /\ pc'[main] \in Closing
  <2>1. /\ \A l \in {"askhasher", "waithasher", "askperpkt", "nudge", "waitperpkts"} : l \in Asking
        /\ \A l \in {"askreporter", "waitreporter", "pauseinput", "setpaused"} : l \in Closing
    BY Zenon DEF Asking, Closing
  <2>2. \A l : Goto(main, l) => pc'[main] = l
    BY <1>0, Goes, Zenon
  <2> QED  BY <1>3, <2>1, <2>2, Zenon
<1>6. \A l \in Asking : l \notin Closing
  BY Zenon DEF Asking, Closing
<1>7. Onward
  BY <1>1, <1>2, <1>4, <1>5, <1>6, Zenon DEF Onward, Apart
<1> QED  BY <1>7, OnwardControl, Zenon

\* trace_pstop, trace_join and trace_destroy.
LEMMA JoinControl ==
  ASSUME Types, Others, Sized, Control, UNCHANGED conf,
         SendStop \/ CallJoin \/ JoinPerpkt \/ JoinHasher \/ JoinReporter
  PROVE  Types' /\ Others' /\ Control'
<1> USE Who DEF status, buffers, locals, program, record, libtrace_change_state, Ask, Await, SetState, Send
<1>0. Workers' = Workers /\ Threads' = Threads /\ Input' = Input /\ Mode' = Mode /\ Failures' = Failures
      /\ HasReporter' = HasReporter /\ HasKeepalive' = HasKeepalive
  BY ConfKept, Zenon
<1>00. DOMAIN pc = Threads /\ main \in Threads /\ main \notin Workers
  BY Zenon DEF Types
<1>1. CASE SendStop
  <2>0. /\ pc[main] = "sendstop" /\ pc'[main] = "setfinishing"
        /\ UNCHANGED <<state, started, stopping, lock, asleep, i, error, left, lost>>
    BY <1>00, <1>1, Goes, Zenon DEF SendStop
  <2>1. Apart
    BY <1>00, <1>1, Goes, Zenon DEF SendStop, Apart
  <2>2. Types' /\ Others'
    BY <1>0, <2>0, <2>1, Zenon DEF Apart, Types, Others
  <2>a. state \in {"PAUSED", "FINISHED"} /\ stopping /\ Still
    BY <2>0, Zenon DEF Control, Pauses, Stopping
  <2>3. Matches' /\ (AllDone' <=> AllDone) /\ (Still' <=> Still) /\ Reported' /\ Counts'
    BY <2>0, <2>1, <2>a, ApartKeeps, Zenon
  <2>4. Starts' /\ Pauses' /\ Joins'
    BY <2>0, <2>3, <2>a, Zenon DEF Control, Starts, Pauses, Joins, Asking, Closing, Stopping, trace_has_finished
  <2> QED  BY <2>2, <2>3, <2>4, Zenon DEF Control
<1>2. CASE CallJoin
  <2>0. /\ pc[main] = "user" /\ pc'[main] = "joinperpkt" /\ UNCHANGED <<state, started, stopping, lock>>
        /\ i'[main] = 1 /\ state # "NEW"
    BY <1>00, <1>2, Goes, Zenon DEF CallJoin, Types, Control, Starts, trace_has_finished
  <2>1. Apart
    BY <1>00, <1>2, Goes, Zenon DEF CallJoin, Apart
  <2>2. Types' /\ Others'
    BY <1>0, <2>1, <1>2, Zenon DEF CallJoin, Apart, Types, Others
  <2>3. Matches' /\ (AllDone' <=> AllDone) /\ (Still' <=> Still) /\ Reported' /\ Counts'
    BY <2>0, <2>1, ApartKeeps, Zenon DEF Control, Starts
  <2>4. Starts' /\ Pauses'
    BY <1>0, <2>0, <2>1, <2>3, Zenon DEF Control, Starts, Pauses, Asking, Closing, Stopping, trace_has_finished
  <2>5. Joins'
    BY <1>0, <2>0, <2>1, TraceAssumption DEF Control, Apart, Joins, Perpkts
  <2> QED  BY <2>2, <2>3, <2>4, <2>5, Zenon DEF Control
<1>3. CASE JoinPerpkt
  <2>0. /\ pc[main] = "joinperpkt" /\ pc'[main] = "joinperpkt" /\ UNCHANGED <<state, started, stopping, lock>>
        /\ i[main] <= N /\ i'[main] = i[main] + 1 /\ pc[i[main]] = "exit"
    BY <1>00, <1>3, Goes, Zenon DEF JoinPerpkt, Types
  <2>1. Apart
    BY <1>00, <1>3, Goes, Zenon DEF JoinPerpkt, Apart
  <2>2. Types' /\ Others'
    BY <1>0, <2>1, <1>3 DEF JoinPerpkt, Apart, Types, Others
  <2>3. Matches' /\ (AllDone' <=> AllDone) /\ (Still' <=> Still) /\ Reported' /\ Counts'
    BY <2>0, <2>1, ApartKeeps, Zenon DEF Control, Starts
  <2>4. Starts' /\ Pauses'
    BY <1>0, <2>0, <2>1, <2>3, Zenon DEF Control, Starts, Pauses, Asking, Closing, Stopping, trace_has_finished
  <2>5. Joins'
    BY <1>0, <2>0, <2>1, TraceAssumption DEF Control, Apart, Joins, Perpkts
  <2> QED  BY <2>2, <2>3, <2>4, <2>5 DEF Control
<1>4. CASE JoinHasher
  <2>0. /\ pc[main] = "joinperpkt" /\ pc'[main] = "joinreporter" /\ UNCHANGED <<state, started, stopping, lock>>
        /\ i[main] > N /\ (Mode = "hasher" => pc[hasher] = "exit")
    BY <1>00, <1>4, Goes, Zenon DEF JoinHasher, Types
  <2>1. Apart
    BY <1>00, <1>4, Goes, Zenon DEF JoinHasher, Apart
  <2>2. Types' /\ Others'
    BY <1>0, <2>1, <1>4, Zenon DEF JoinHasher, Apart, Types, Others
  <2>3. Matches' /\ (AllDone' <=> AllDone) /\ (Still' <=> Still) /\ Reported' /\ Counts'
    BY <2>0, <2>1, ApartKeeps, Zenon DEF Control, Starts
  <2>4. Starts' /\ Pauses'
    BY <1>0, <2>0, <2>1, <2>3, Zenon DEF Control, Starts, Pauses, Asking, Closing, Stopping, trace_has_finished
  <2>5. Joins'
    BY <1>0, <2>0, <2>1, TraceAssumption DEF Control, Apart, Joins, Perpkts
  <2> QED  BY <2>2, <2>3, <2>4, <2>5 DEF Control
<1>5. CASE JoinReporter
  <2>0. /\ pc[main] = "joinreporter" /\ pc'[main] = "joinkeepalive" /\ UNCHANGED <<state, started, stopping, lock>>
        /\ HasReporter => pc[reporter] = "exit"
    BY <1>00, <1>5, Goes, Zenon DEF JoinReporter, Types
  <2>1. Apart
    BY <1>00, <1>5, Goes, Zenon DEF JoinReporter, Apart
  <2>2. Types' /\ Others'
    BY <1>0, <2>1, <1>5, Zenon DEF JoinReporter, Apart, Types, Others
  <2>3. Matches' /\ (AllDone' <=> AllDone) /\ (Still' <=> Still) /\ Reported' /\ Counts'
    BY <2>0, <2>1, ApartKeeps, Zenon DEF Control, Starts
  <2>4. Starts' /\ Pauses'
    BY <1>0, <2>0, <2>1, <2>3, Zenon DEF Control, Starts, Pauses, Asking, Closing, Stopping, trace_has_finished
  <2>5. Joins'
    BY <1>0, <2>0, <2>1, Zenon DEF Control, Apart, Joins
  <2> QED  BY <2>2, <2>3, <2>4, <2>5 DEF Control
<1> QED  BY <1>1, <1>2, <1>3, <1>4, <1>5, Zenon

\* The state changes of trace_ppause, trace_pstop, trace_join and trace_destroy.
LEMMA SettingControl ==
  ASSUME Types, Others, Sized, Control, UNCHANGED conf,
         WaitPerpkts \/ SetPaused \/ SetFinishing \/ JoinKeepalive \/ Destroy \/ Restart
  PROVE  Types' /\ Others' /\ Control'
<1> USE Who DEF status, buffers, locals, program, record, libtrace_change_state, Await, SetState
<1>0. Workers' = Workers /\ Threads' = Threads /\ Input' = Input /\ Mode' = Mode /\ Failures' = Failures
      /\ HasReporter' = HasReporter /\ HasKeepalive' = HasKeepalive
  BY ConfKept, Zenon
<1>00. DOMAIN pc = Threads /\ main \in Threads /\ main \notin Workers
  BY Zenon DEF Types
<1>1. CASE WaitPerpkts
  <2>1. Apart /\ UNCHANGED <<state, started, stopping, lock>> /\ pc[main] = "waitperpkts"
    BY <1>00, <1>1, Goes, Zenon DEF WaitPerpkts, Apart
  <2>2. Types' /\ Others'
    BY <1>0, <2>1, <1>1, Zenon DEF WaitPerpkts, Apart, Types, Others
  <2>3. perpkt_thread_states["RUNNING"] = 0 => Still
    <3>1. perpkt_thread_states["RUNNING"] = Cardinality(InState("RUNNING"))
      BY <2>1, Zenon DEF Control, Counts, Pauses, Asking, TStates
    <3>2. InState("RUNNING") \in SUBSET Perpkts
      BY Zenon DEF InState
    <3>3. perpkt_thread_states["RUNNING"] = 0 => InState("RUNNING") = {}
      BY <3>1, <3>2, Zenon DEF Sized
    <3> QED  BY <3>3, Zenon DEF InState, Still
  <2>4. pc'[main] = "waitperpkts" \/ (pc'[main] \in {"askreporter", "pauseinput"} /\ Still)
    BY <1>00, <1>1, <2>3, Goes, Zenon DEF WaitPerpkts
  <2>5. Matches' /\ (AllDone' <=> AllDone) /\ (Still' <=> Still) /\ Reported' /\ Counts'
    BY <2>1, <2>4, ApartKeeps, Zenon DEF Control, Pauses, Asking
  <2>6. Starts' /\ Pauses' /\ Joins'
    BY <1>0, <2>1, <2>4, <2>5, Zenon DEF Control, Starts, Pauses, Joins, Asking, Closing, Stopping, trace_has_finished
  <2> QED  BY <2>2, <2>5, <2>6, Zenon DEF Control
<1>2. CASE SetPaused
  <2>1. /\ Apart /\ UNCHANGED <<started, stopping, lock>> /\ pc[main] = "setpaused"
        /\ state' = "PAUSED" /\ pc'[main] = IF stopping THEN "sendstop" ELSE "user"
    BY <1>00, <1>2, Goes, Zenon DEF SetPaused, Apart, PauseReturn
  <2>2. Types' /\ Others'
    BY <1>0, <2>1, <1>2, Zenon DEF SetPaused, Apart, Types, Others, States
  <2>3. Matches' /\ (AllDone' <=> AllDone) /\ (Still' <=> Still) /\ Reported' /\ Counts'
    BY <2>1, ApartKeeps, Zenon DEF Control, Pauses, Closing
  <2>4. Starts' /\ Pauses' /\ Joins'
    BY <1>0, <2>1, <2>3, Zenon DEF Control, Starts, Pauses, Joins, Asking, Closing, Stopping, trace_has_finished
  <2> QED  BY <2>2, <2>3, <2>4 DEF Control
<1>3. CASE SetFinishing
  <2>1. /\ Apart /\ UNCHANGED <<started, stopping, lock>> /\ pc[main] = "setfinishing"
        /\ state' = "FINISHING" /\ pc'[main] = "user"
    BY <1>00, <1>3, Goes, Zenon DEF SetFinishing, Apart
  <2>2. Types' /\ Others'
    BY <1>0, <2>1, <1>3, Zenon DEF SetFinishing, Apart, Types, Others, States
  <2>3. Matches' /\ (AllDone' <=> AllDone) /\ (Still' <=> Still) /\ Reported' /\ Counts'
    BY <2>1, ApartKeeps, Zenon DEF Control, Pauses, Stopping
  <2>4. Starts' /\ Pauses' /\ Joins'
    BY <1>0, <2>1, <2>3, Zenon DEF Control, Starts, Pauses, Joins, Asking, Closing, Stopping, trace_has_finished
  <2> QED  BY <2>2, <2>3, <2>4 DEF Control
<1>4. CASE JoinKeepalive
  <2>1. /\ Apart /\ UNCHANGED <<started, stopping, lock>> /\ pc[main] = "joinkeepalive"
        /\ state' = "JOINED" /\ pc'[main] = "joined" /\ Free /\ (HasKeepalive => pc[keepalive] = "exit")
    BY <1>00, <1>4, Goes, Zenon DEF JoinKeepalive, Apart
  <2>2. Types' /\ Others'
    BY <1>0, <2>1, <1>4, Zenon DEF JoinKeepalive, Apart, Types, Others, States
  <2>3. Matches' /\ (AllDone' <=> AllDone) /\ (Still' <=> Still) /\ Reported' /\ Counts'
    BY <2>1, ApartKeeps, Zenon DEF Control, Starts
  <2>4. AllDone
    BY <2>1, Zenon DEF Control, Joins, Matches, AllDone
  <2>5. Starts' /\ Pauses'
    BY <1>0, <2>1, <2>3, <2>4, Zenon DEF Control, Starts, Pauses, Asking, Closing, Stopping, trace_has_finished
  <2>6. Joins'
    BY <1>0, <2>1, Zenon DEF Control, Joins, Apart, Free
  <2> QED  BY <2>2, <2>3, <2>5, <2>6, Zenon DEF Control
<1>5. CASE Destroy
  <2>1. /\ Apart /\ UNCHANGED <<started, stopping, lock>> /\ pc[main] = "joined"
        /\ state' = "DESTROYED" /\ pc'[main] = "end"
    BY <1>00, <1>5, Goes, Zenon DEF Destroy, Apart
  <2>2. Types' /\ Others'
    BY <1>0, <2>1, <1>5, Zenon DEF Destroy, Apart, Types, Others, States
  <2>3. Matches' /\ (AllDone' <=> AllDone) /\ (Still' <=> Still) /\ Reported' /\ Counts'
    BY <2>1, ApartKeeps, Zenon DEF Control, Starts
  <2>4. \A u \in Workers : pc[u] = "exit"
    BY <2>1, Zenon DEF Control, Joins, Workers
  <2>5. Starts' /\ Pauses' /\ Joins'
    BY <1>0, <2>1, <2>4, Zenon DEF Starts, Pauses, Joins, Apart, Asking, Closing, Stopping, trace_has_finished
  <2> QED  BY <2>2, <2>3, <2>5 DEF Control
<1>6. CASE Restart
  <2>1. /\ Apart /\ UNCHANGED <<stopping, lock>> /\ pc[main] = "user"
        /\ state = "PAUSED" /\ state' = "RUNNING" /\ pc'[main] = "user"
    BY <1>00, <1>6, Zenon DEF Restart, Apart
  <2>2. Types' /\ Others'
    BY <1>0, <2>1, <1>6, Zenon DEF Restart, Apart, Types, Others, States
  <2>3. Matches' /\ (AllDone' <=> AllDone) /\ (Still' <=> Still) /\ Reported' /\ Counts'
    BY <2>1, ApartKeeps, Zenon DEF Control, Starts
  <2>4. Starts' /\ Pauses' /\ Joins'
    BY <1>0, <2>1, <2>3, Zenon DEF Control, Starts, Pauses, Joins, Asking, Closing, Stopping, trace_has_finished
  <2> QED  BY <2>2, <2>3, <2>4 DEF Control
<1> QED  BY <1>1, <1>2, <1>3, <1>4, <1>5, <1>6, Zenon

\* A call of trace_ppause or trace_pstop, and the end of a start that failed.
LEMMA CallControl ==
  ASSUME Types, Others, Sized, Control, UNCHANGED conf,
         Cleanup \/ \E stop \in BOOLEAN : CallPpause(stop)
  PROVE  Types' /\ Others' /\ Control'
<1> USE Who DEF status, buffers, locals, program, record, libtrace_change_state
<1>0. Workers' = Workers /\ Threads' = Threads /\ Input' = Input /\ Mode' = Mode /\ Failures' = Failures
      /\ HasReporter' = HasReporter /\ HasKeepalive' = HasKeepalive
  BY ConfKept, Zenon
<1>00. DOMAIN pc = Threads /\ main \in Threads /\ main \notin Workers
  BY Zenon DEF Types
<1>1. CASE Cleanup
  <2>1. /\ UNCHANGED <<tstate, results, lock, started, stopping, i, error, left, lost>>
        /\ state' = "NEW" /\ asleep' = {} /\ pc[main] = "cleanup" /\ pc'[main] = "end"
        /\ DOMAIN pc' = Threads /\ \A u \in Workers : pc'[u] = pc[u] /\ pc[u] \in {"none", "exit"}
    BY <1>00, <1>1, Goes, Zenon DEF Cleanup
  <2>2. perpkt_thread_states' \in [TStates -> Int]
    <3>1. perpkt_thread_states' = [perpkt_thread_states EXCEPT !["FINISHED"] = 0]
      BY <1>1, Zenon DEF Cleanup
    <3>2. perpkt_thread_states \in [TStates -> Int] /\ 0 \in Int
      BY DEF Types
    <3> QED  BY <3>1, <3>2, Zenon
  <2>3. Types' /\ Others'
    BY <1>0, <2>1, <2>2, Zenon DEF Types, Others, States
  <2>4. Matches' /\ Counts'
    BY <1>0, <2>1, Zenon DEF Control, Matches, Counts
  <2>5. Starts' /\ Pauses' /\ Joins'
    BY <1>0, <2>1, Zenon DEF Control, Starts, Pauses, Joins, Asking, Closing, Stopping, trace_has_finished
  <2>6. Reported'
    BY <1>0, <2>1, Zenon DEF Control, Starts, Reported
  <2> QED  BY <2>3, <2>4, <2>5, <2>6, Zenon DEF Control
<1>2. ASSUME NEW stop \in BOOLEAN, CallPpause(stop)
      PROVE  Types' /\ Others' /\ Control'
  <2>1. /\ UNCHANGED <<started, tstate, perpkt_thread_states, error, results, left, lost>>
        /\ pc[main] = "user" /\ state # "NEW" /\ stopping' = stop /\ lock' \in {lock, main}
        /\ asleep' \in {asleep, {}} /\ DOMAIN i' = {main, hasher} \cup Perpkts /\ i'[main] \in Nat
        /\ \/ /\ state = "PAUSED" /\ state' = "PAUSED"
              /\ pc'[main] = IF stop THEN "sendstop" ELSE "user"
           \/ state # "PAUSED" /\ state' = state /\ pc'[main] = "user"
           \/ state = "RUNNING" /\ state' = "PAUSING" /\ pc'[main] \in {"askhasher", "askperpkt"}
        /\ Apart
    <3>1. UNCHANGED <<started, tstate, perpkt_thread_states, error, results, left, lost>>
          /\ pc[main] = "user" /\ state # "NEW" /\ stopping' = stop /\ lock' \in {lock, main}
          /\ asleep' \in {asleep, {}}
      BY <1>2, Zenon DEF CallPpause
    <3>2. DOMAIN i' = {main, hasher} \cup Perpkts /\ i'[main] \in Nat
      BY <1>2 DEF CallPpause, Types
    <3>3. /\ \/ /\ state = "PAUSED" /\ state' = "PAUSED"
                /\ pc'[main] = IF stop THEN "sendstop" ELSE "user"
             \/ state # "PAUSED" /\ state' = state /\ pc'[main] = "user"
             \/ state = "RUNNING" /\ state' = "PAUSING" /\ pc'[main] \in {"askhasher", "askperpkt"}
          /\ DOMAIN pc' = Threads /\ \A u \in Workers : pc'[u] = pc[u]
      BY <1>00, <1>2, Goes, Zenon DEF CallPpause, PauseReturn
    <3> QED  BY <3>1, <3>2, <3>3, Zenon DEF Apart
  <2>2. Types' /\ Others'
    BY <1>0, <2>1 DEF Apart, Types, Others, States
  <2>3. Matches' /\ (AllDone' <=> AllDone) /\ (Still' <=> Still) /\ Reported' /\ Counts'
    BY <2>1, ApartKeeps, Zenon DEF Control, Starts
  <2>4. Starts'
    BY <1>0, <2>1, <2>3, Zenon DEF Control, Starts, trace_has_finished
  <2>5. Pauses' /\ Joins'
    BY <1>0, <2>1, <2>3, Zenon DEF Control, Pauses, Joins, Asking, Closing, Stopping
  <2> QED  BY <2>2, <2>3, <2>4, <2>5, Zenon DEF Control
<1> QED  BY <1>1, <1>2, Zenon

-----------------------------------------------------------------------------
(* Every step.                                                               *)

LEMMA InitControl ==
  ASSUME Sized, Init, "register" \notin Failures
  PROVE  Types /\ Others /\ Control
<1>1. /\ state = "NEW" /\ pc[main] = "user" /\ DOMAIN pc = Threads /\ \A t \in Workers : pc[t] = "none"
      /\ ~stopping /\ ~started /\ results = 0 /\ tstate = [t \in Workers |-> "RUNNING"]
      /\ perpkt_thread_states = [s \in TStates |-> 0] /\ i = [t \in {main, hasher} \cup Perpkts |-> 0]
  BY Who, Zenon DEF Init
<1>2. Types
  <2>1. conf \in Configs /\ started \in BOOLEAN /\ stopping \in BOOLEAN
    BY Zenon DEF Init
  <2>2. 0 \in Int /\ 0 \in Nat
    OBVIOUS
  <2>3. tstate \in [Workers -> TStates] /\ perpkt_thread_states \in [TStates -> Int]
    BY <1>1, <2>2, Zenon DEF TStates
  <2>4. DOMAIN i = {main, hasher} \cup Perpkts /\ i[main] \in Nat
    BY <1>1, <2>2, Zenon
  <2> QED  BY <1>1, <2>1, <2>3, <2>4, Zenon DEF Types, States
<1>3. Others
  <2>1. Input \in Nat /\ MaxResults \in Nat
    BY <1>2, TraceAssumption, Zenon DEF Types, Input
  <2>2. lock = NoThread /\ asleep = {} /\ error = "PKT" /\ lost = FALSE /\ results = 0 /\ left = Input
    BY Zenon DEF Init
  <2>3. results \in 0 .. MaxResults /\ left \in 0 .. Input
    BY <2>1, <2>2
  <2> QED  BY <2>2, <2>3, Zenon DEF Others
<1>4. Matches /\ Counts
  BY <1>1, Zenon DEF Matches, Counts
<1>5. Starts /\ Pauses /\ Joins /\ Reported
  BY <1>1, Who, Zenon DEF Starts, Pauses, Joins, Reported, Asking, Closing, Stopping, trace_has_finished
<1> QED  BY <1>2, <1>3, <1>4, <1>5, Zenon DEF Control

LEMMA NextControl ==
  ASSUME Types, Others, Sized, Control, [Next]_vars
  PROVE  Types' /\ Others' /\ Control'
<1>1. ASSUME NEW t \in Workers, WorkerStep(t)
      PROVE  Types' /\ Others' /\ Control'
  BY <1>1, WorkerStepDoes, WorkerControl, Zenon
<1>2. CASE MainStep
  BY <1>2, CallControl, AskingControl, JoinControl, SettingControl, Zenon DEF MainStep
<1>3. CASE MainCall
  BY <1>3, CallControl, PstartControl, SettingControl, Zenon DEF MainCall
<1>4. CASE Join
  BY <1>4, JoinControl, Zenon DEF Join
<1>5. CASE UNCHANGED vars \/ \E t \in Threads : SpuriousWakeup(t)
  <2>1. UNCHANGED <<conf, state, started, lock, tstate, perpkt_thread_states, pc, i, error, results,
                    left, stopping, lost>> /\ asleep' \subseteq asleep
    BY <1>5, Zenon DEF SpuriousWakeup, vars, buffers, locals, program, record
  <2>2. /\ Workers' = Workers /\ Threads' = Threads /\ Input' = Input /\ Mode' = Mode /\ Failures' = Failures
        /\ HasReporter' = HasReporter /\ HasKeepalive' = HasKeepalive
    BY <2>1, ConfKept, Zenon
  <2>3. Types' /\ Others'
    BY <2>1, <2>2, Zenon DEF Types, Others
  <2>4. /\ (AllDone' <=> AllDone) /\ (Still' <=> Still) /\ (trace_has_finished' <=> trace_has_finished)
        /\ (Free' <=> Free) /\ \A s : InState(s)' = InState(s)
    BY <2>1, Zenon DEF AllDone, Still, trace_has_finished, Free, InState
  <2>5. Matches' /\ Counts'
    BY <2>1, <2>2, <2>4, Zenon DEF Control, Matches, Counts
  <2>6. Starts' /\ Pauses'
    BY <2>1, <2>2, <2>4, Zenon DEF Control, Starts, Pauses, Asking, Closing, Stopping
  <2>7. Joins' /\ Reported'
    BY <2>1, <2>2, <2>4, Zenon DEF Control, Joins, Reported
  <2> QED  BY <2>3, <2>5, <2>6, <2>7, Zenon DEF Control
<1> QED  BY <1>1, <1>2, <1>3, <1>4, <1>5, Zenon DEF Next, Ended

-----------------------------------------------------------------------------
(* Queues.                                                                   *)

LEMMA EmptyHas == \A x : ~Has(<<>>, x)
BY DEF Has

LEMMA TailHas ==
  ASSUME NEW S, NEW s \in Seq(S), s # <<>>
  PROVE  /\ Tail(s) \in Seq(S) /\ Len(Tail(s)) = Len(s) - 1 /\ Head(s) \in S /\ Has(s, Head(s))
         /\ \A x : Has(Tail(s), x) => Has(s, x)
         /\ \A x : Has(s, x) => Head(s) = x \/ Has(Tail(s), x)
<1>1. /\ Tail(s) \in Seq(S) /\ Len(Tail(s)) = Len(s) - 1 /\ Head(s) \in S /\ Head(s) = s[1]
      /\ Len(s) \in Nat \ {0} /\ DOMAIN s = 1 .. Len(s) /\ DOMAIN Tail(s) = 1 .. Len(s) - 1
      /\ \A k \in 1 .. Len(s) - 1 : Tail(s)[k] = s[k + 1]
  OBVIOUS
<1>2. Has(s, Head(s))
  BY <1>1 DEF Has
<1>3. ASSUME NEW x, Has(Tail(s), x)
      PROVE  Has(s, x)
  <2>1. PICK k \in 1 .. Len(s) - 1 : s[k + 1] = x
    BY <1>1, <1>3, Zenon DEF Has
  <2>2. k + 1 \in 1 .. Len(s)
    BY <1>1
  <2> QED  BY <1>1, <2>1, <2>2, Zenon DEF Has
<1>4. ASSUME NEW x, Has(s, x), Head(s) # x
      PROVE  Has(Tail(s), x)
  <2>1. PICK k \in 1 .. Len(s) : s[k] = x /\ k # 1
    BY <1>1, <1>4, Zenon DEF Has
  <2>2. k - 1 \in 1 .. Len(s) - 1 /\ k = (k - 1) + 1
    BY <1>1, <2>1
  <2>3. Tail(s)[k - 1] = x
    BY <1>1, <2>1, <2>2, Zenon
  <2> QED  BY <1>1, <2>2, <2>3, Zenon DEF Has
<1> QED  BY <1>1, <1>2, <1>3, <1>4, Zenon

LEMMA AppendHas ==
  ASSUME NEW S, NEW s \in Seq(S), NEW y \in S
  PROVE  /\ Append(s, y) \in Seq(S) /\ Len(Append(s, y)) = Len(s) + 1 /\ Append(s, y) # <<>>
         /\ \A x : Has(Append(s, y), x) <=> Has(s, x) \/ x = y
<1> DEFINE a == Append(s, y)
<1>1. /\ a \in Seq(S) /\ Len(a) = Len(s) + 1 /\ a # <<>> /\ Len(s) \in Nat
      /\ DOMAIN s = 1 .. Len(s) /\ DOMAIN a = 1 .. Len(s) + 1
      /\ \A k \in 1 .. Len(s) + 1 : a[k] = IF k = Len(s) + 1 THEN y ELSE s[k]
  OBVIOUS
<1> HIDE DEF a
<1>2. Len(s) + 1 \in 1 .. Len(s) + 1 /\ \A k \in 1 .. Len(s) : k \in 1 .. Len(s) + 1 /\ k # Len(s) + 1
  BY <1>1
<1>3. \A k \in 1 .. Len(s) + 1 : k = Len(s) + 1 \/ k \in 1 .. Len(s)
  BY <1>1
<1>4. \A x : Has(a, x) <=> Has(s, x) \/ x = y
  BY <1>1, <1>2, <1>3, Zenon DEF Has
<1> QED  BY <1>1, <1>4, Zenon DEF a

\* Messages are sent.
LEMMA SentTyped ==
  ASSUME Queues, NEW m \in Messages
  PROVE  /\ \A t : Send(t, m) => messages' \in [Workers -> Seq(Messages)]
         /\ SendPerpkts(m) => messages' \in [Workers -> Seq(Messages)]
<1>1. messages \in [Workers -> Seq(Messages)]
  BY Zenon DEF Queues
<1>2. \A t \in Workers : Append(messages[t], m) \in Seq(Messages)
  BY <1>1, AppendHas, Zenon
<1>3. \A t : Send(t, m) => messages' \in [Workers -> Seq(Messages)]
  BY <1>1, <1>2, Zenon DEF Send
<1>4. SendPerpkts(m) => messages' \in [Workers -> Seq(Messages)]
  BY <1>1, <1>2, Zenon DEF SendPerpkts
<1> QED  BY <1>3, <1>4, Zenon

LEMMA PublishedTyped ==
  ASSUME Queues, Publish
  PROVE  messages' \in [Workers -> Seq(Messages)]
BY SentTyped, Zenon DEF Publish, Messages, Queues

\* The steps of per-packet threads that move what is queued.
LEMMA PerpktQueues ==
  ASSUME Types, Queues, NEW p \in Perpkts, UNCHANGED conf, PerpktStep(p)
  PROVE  Queues'
<1> USE DEF status, buffers, locals, program, record
<1>0. /\ Workers' = Workers /\ p \in Workers /\ messages[p] \in Seq(Messages)
      /\ rbuffer[p] \in Seq(Items) /\ packets[p] \in Seq(Items)
  BY ConfKept, Who, Zenon DEF Queues
<1>t. /\ messages[p] # <<>> => Tail(messages[p]) \in Seq(Messages)
      /\ rbuffer[p] # <<>> => Tail(rbuffer[p]) \in Seq(Items) /\ Head(rbuffer[p]) \in Items
      /\ packets[p] # <<>> => Tail(packets[p]) \in Seq(Items)
      /\ \A x \in Items : Append(packets[p], x) \in Seq(Items)
  BY <1>0, TailHas, AppendHas, Zenon
<1>1. CASE UNCHANGED <<messages, buffers>>
  BY <1>0, <1>1, Zenon DEF Queues
<1>2. CASE Loop(p)
  <2>1. messages' \in [Workers -> Seq(Messages)] /\ UNCHANGED buffers
    BY <1>2, <1>t, Zenon DEF Loop, Queues
  <2> QED  BY <1>0, <2>1, Zenon DEF Queues
<1>3. CASE ReadRing(p)
  <2>1. UNCHANGED <<messages, format_data>>
    BY <1>3, Zenon DEF ReadRing
  <2>2. rbuffer' \in [Perpkts -> Seq(Items)]
    BY <1>3, <1>t, Zenon DEF ReadRing, Queues
  <2>3. packets' \in [Perpkts -> Seq(Items)]
    <3>1. rbuffer[p] # <<>> => <<Head(rbuffer[p])>> \in Seq(Items)
      BY <1>t
    <3> QED  BY <1>3, <3>1, Zenon DEF ReadRing, Queues
  <2> QED  BY <1>0, <2>1, <2>2, <2>3, Zenon DEF Queues
<1>4. CASE ReadMore(p)
  <2>1. UNCHANGED messages
    BY <1>4, Zenon DEF ReadMore
  <2>2. rbuffer' \in [Perpkts -> Seq(Items)]
    BY <1>4, <1>t, Zenon DEF ReadMore, Queues
  <2>3. packets' \in [Perpkts -> Seq(Items)]
    BY <1>4, <1>t, Zenon DEF ReadMore, Queues
  <2>4. format_data' \in [Perpkts -> {None, "TICK", "EOF", "ERR"}]
    <3>1. rbuffer[p] # <<>> /\ Head(rbuffer[p]) # "PKT" =>
            \A y \in {None, "TICK", "EOF", "ERR"} :
              (IF Head(rbuffer[p]) = "MSG" THEN y ELSE Head(rbuffer[p])) \in {None, "TICK", "EOF", "ERR"}
      BY <1>t, Zenon DEF Items
    <3> QED  BY <1>4, <3>1, Zenon DEF ReadMore, Queues
  <2> QED  BY <1>0, <2>1, <2>2, <2>3, <2>4, Zenon DEF Queues
<1>5. CASE ReadFormat(p)
  <2>1. \A n \in 1 .. Burst : \A m \in 0 .. n : [k \in 1 .. m |-> "PKT"] \in Seq(Items)
    BY DEF Items
  <2>2. UNCHANGED <<messages, rbuffer, format_data>>
    BY <1>5, Zenon DEF ReadFormat
  <2>3. packets' \in [Perpkts -> Seq(Items)]
    <3>1. PICK n \in 1 .. Burst : \E m \in 0 .. n : packets' = [packets EXCEPT ![p] = [k \in 1 .. m |-> "PKT"]]
      BY <1>5, Zenon DEF ReadFormat
    <3>2. PICK m \in 0 .. n : packets' = [packets EXCEPT ![p] = [k \in 1 .. m |-> "PKT"]]
      BY <3>1, Zenon
    <3>3. [k \in 1 .. m |-> "PKT"] \in Seq(Items)
      BY <2>1, Zenon
    <3> QED  BY <3>2, <3>3, Zenon DEF Queues
  <2> QED  BY <1>0, <2>2, <2>3, Zenon DEF Queues
<1>6. CASE ReadLocked(p)
  <2>1. "PKT" \in Items
    BY Zenon DEF Items
  <2>2. UNCHANGED <<messages, rbuffer, format_data>>
    BY <1>6, Zenon DEF ReadLocked
  <2>3. packets' \in [Perpkts -> Seq(Items)]
    <3>1. packets' = packets \/ packets' = [packets EXCEPT ![p] = Append(@, "PKT")]
      BY <1>6, Zenon DEF ReadLocked
    <3>2. packets \in [Perpkts -> Seq(Items)] /\ Append(packets[p], "PKT") \in Seq(Items)
      BY <2>1, <1>t, Zenon DEF Queues
    <3> QED  BY <3>1, <3>2, Zenon
  <2> QED  BY <1>0, <2>2, <2>3, Zenon DEF Queues
<1>7. CASE DispatchOne(p)
  <2>1. packets' \in [Perpkts -> Seq(Items)] /\ UNCHANGED <<rbuffer, format_data>>
    BY <1>7, <1>t, Zenon DEF DispatchOne, Queues
  <2>2. messages' \in [Workers -> Seq(Messages)]
    BY <1>7, PublishedTyped, Zenon DEF DispatchOne, Queues
  <2> QED  BY <1>0, <2>1, <2>2, Zenon DEF Queues
<1>8. CASE DrainRing(p)
  <2>1. UNCHANGED <<messages, format_data>>
    BY <1>8, Zenon DEF DrainRing
  <2>2. rbuffer' \in [Perpkts -> Seq(Items)] /\ packets' \in [Perpkts -> Seq(Items)]
    <3>1. rbuffer[p] # <<>> => <<Head(rbuffer[p])>> \in Seq(Items) /\ Tail(rbuffer[p]) \in Seq(Items)
      BY <1>t
    <3>2. <<>> \in Seq(Items)
      OBVIOUS
    <3> QED  BY <1>0, <1>8, <3>1, <3>2, Zenon DEF DrainRing, Queues
  <2> QED  BY <1>0, <2>1, <2>2, Zenon DEF Queues
<1>9. CASE Error(p)
  <2>1. messages' \in [Workers -> Seq(Messages)] /\ UNCHANGED buffers
    BY <1>9, SentTyped, Zenon DEF Error, Messages
  <2> QED  BY <1>0, <2>1, Zenon DEF Queues
<1>10. CASE Eof(p)
  <2>1. messages' \in [Workers -> Seq(Messages)] /\ UNCHANGED <<rbuffer, format_data>>
    BY <1>10, PublishedTyped, Zenon DEF Eof
  <2>2. <<>> \in Seq(Items)
    OBVIOUS
  <2>3. packets' \in [Perpkts -> Seq(Items)]
    BY <1>10, <2>2, Zenon DEF Eof, Queues
  <2> QED  BY <1>0, <2>1, <2>3, Zenon DEF Queues
<1>11. CASE Post(p)
  <2>1. messages' \in [Workers -> Seq(Messages)] /\ UNCHANGED buffers
    BY <1>11, SentTyped, Zenon DEF Post, Messages, Queues
  <2> QED  BY <1>0, <2>1, Zenon DEF Queues
<1> QED  BY <1>1, <1>2, <1>3, <1>4, <1>5, <1>6, <1>7, <1>8, <1>9, <1>10, <1>11, RegistersWork, Zenon
         DEF PerpktStep, Register, ReadNone, ReadLock, Dispatch, Delay, DrainBatch, DrainDone

\* So do those of the hasher, the reporter and the keepalive thread, ...
LEMMA WorkerQueues ==
  ASSUME Types, Others, Queues, NEW t \in Workers, WorkerStep(t)
  PROVE  Queues'
<1> USE DEF status, buffers, locals, program, record
<1>0. /\ Workers' = Workers /\ messages[t] \in Seq(Messages)
      /\ messages[t] # <<>> => Tail(messages[t]) \in Seq(Messages)
      /\ \A p \in Perpkts, x \in Items : Append(rbuffer[p], x) \in Seq(Items)
  BY ConfKept, TailHas, AppendHas, Zenon DEF Queues, WorkerStep
<1>1. CASE UNCHANGED <<messages, buffers>>
  BY <1>0, <1>1, Zenon DEF Queues
<1>2. CASE t \in Perpkts /\ PerpktStep(t)
  BY <1>2, PerpktQueues, Zenon DEF WorkerStep
<1>3. CASE (t = hasher /\ HasherLoop) \/ (t = reporter /\ ReporterGet)
  <2>1. messages' \in [Workers -> Seq(Messages)] /\ UNCHANGED buffers
    BY <1>0, <1>3, Zenon DEF HasherLoop, ReporterGet, Queues
  <2> QED  BY <1>0, <2>1, Zenon DEF Queues
<1>4. CASE t = hasher /\ (HasherWrite \/ HasherTick \/ BroadcastWrite)
  <2>1. {"PKT", "TICK", error} \subseteq Items
    BY Zenon DEF Items, Others
  <2>2. UNCHANGED <<messages, format_data, packets>>
    BY <1>4, Zenon DEF HasherWrite, HasherTick, BroadcastWrite
  <2>3. \E x \in {"PKT", "TICK", error} : rbuffer' = [rbuffer EXCEPT ![i[hasher]] = Append(@, x)]
    BY <1>4, Zenon DEF HasherWrite, HasherTick, BroadcastWrite
  <2>a. \A q : \A x \in Items : [rbuffer EXCEPT ![q] = Append(@, x)] \in [Perpkts -> Seq(Items)]
    BY <1>0, Zenon DEF Queues
  <2>4. rbuffer' \in [Perpkts -> Seq(Items)]
    BY <2>1, <2>3, <2>a
  <2> QED  BY <1>0, <2>2, <2>4, Zenon DEF Queues
<1>5. CASE t = keepalive /\ KeepaliveLoop
  <2>1. messages' \in [Workers -> Seq(Messages)] /\ UNCHANGED buffers
    BY <1>0, <1>5, SentTyped, Zenon DEF KeepaliveLoop, Messages, Queues
  <2> QED  BY <1>0, <2>1, Zenon DEF Queues
<1>6. CASE Begin(t) \/ ThreadPause(t) \/ Resume(t) \/ Finish(t) \/ Refuse(t)
  BY <1>1, <1>6, Zenon DEF Begin, ThreadPause, Resume, Finish, Refuse
<1>7. CASE HasherRead \/ Broadcast \/ ReporterLoop \/ ReporterFinal
  BY <1>1, <1>7, Zenon DEF HasherRead, Broadcast, ReporterLoop, ReporterFinal
<1> QED  BY <1>2, <1>3, <1>4, <1>5, <1>6, <1>7, Zenon DEF WorkerStep, HasherStep

\* ... and those of the main thread.
LEMMA NextQueues ==
  ASSUME Types, Others, Queues, [Next]_vars
  PROVE  Queues'
<1> USE DEF status, buffers, locals, program, record
<1>0. Workers' = Workers
  BY ConfKept, Zenon DEF Next, MainCall, MainStep, Join, WorkerStep, SpuriousWakeup, Ended, vars
<1>1. CASE UNCHANGED <<messages, buffers>>
  BY <1>0, <1>1, Zenon DEF Queues
<1>2. ASSUME NEW t \in Workers, WorkerStep(t)
      PROVE  Queues'
  BY <1>2, WorkerQueues, Zenon
<1>3. CASE AskHasher \/ AskReporter \/ AskPerpkt \/ JoinReporter
  <2>1. messages' \in [Workers -> Seq(Messages)] /\ UNCHANGED buffers
    BY <1>3, SentTyped, Zenon DEF AskHasher, AskReporter, AskPerpkt, JoinReporter, Ask, Messages, Queues
  <2> QED  BY <1>0, <2>1, Zenon DEF Queues
<1>4. CASE SendStop
  <2>1. \A m \in Seq(Messages) : /\ Append(m, "DO_STOP") \in Seq(Messages)
                                 /\ m \o <<"DO_STOP", "DO_STOP">> \in Seq(Messages)
    BY DEF Messages
  <2>2. messages' \in [Workers -> Seq(Messages)] /\ UNCHANGED buffers
    BY <1>4, <2>1, Zenon DEF SendStop, Queues
  <2> QED  BY <1>0, <2>2, Zenon DEF Queues
<1>5. CASE Nudge \/ JoinPerpkt \/ JoinHasher
  <2>1. <<>> \in Seq(Items) /\ \A p \in Perpkts : Append(rbuffer[p], "MSG") \in Seq(Items)
    BY DEF Queues, Items
  <2>2. UNCHANGED <<messages, format_data, packets>>
    BY <1>5, Zenon DEF Nudge, JoinPerpkt, JoinHasher
  <2>3. CASE rbuffer' = [rbuffer EXCEPT ![i[main]] = Append(@, "MSG")]
    BY <1>0, <2>1, <2>2, <2>3, Zenon DEF Queues
  <2>4. CASE rbuffer' = [rbuffer EXCEPT ![i[main]] = <<>>]
    BY <1>0, <2>1, <2>2, <2>4, Zenon DEF Queues
  <2>5. CASE rbuffer' = [p \in Perpkts |-> <<>>]
    BY <1>0, <2>1, <2>2, <2>5, Zenon DEF Queues
  <2> QED  BY <1>5, <2>3, <2>4, <2>5, Zenon DEF Nudge, JoinPerpkt, JoinHasher
<1>6. CASE MainStep
  BY <1>6, <1>1, <1>3, <1>4, <1>5, Zenon
     DEF MainStep, Cleanup, WaitHasher, WaitPerpkts, WaitReporter, PauseInput, SetPaused, SetFinishing,
         JoinKeepalive, Destroy, Await, SetState
<1>7. CASE MainCall \/ Join
  BY <1>7, <1>1, Zenon DEF MainCall, Join, CallJoin, Pstart, PstartFails, Restart, CallPpause
<1>8. CASE UNCHANGED vars \/ \E t \in Threads : SpuriousWakeup(t)
  BY <1>8, <1>1, Zenon DEF vars, SpuriousWakeup
<1> QED  BY <1>2, <1>6, <1>7, <1>8, Zenon DEF Next, Ended

-----------------------------------------------------------------------------
(* What a step of a worker does to the others' queues.                       *)

Mild(t) ==
  /\ \A p \in Perpkts \ {t} :
       /\ packets'[p] = packets[p] /\ Len(rbuffer'[p]) <= RingSize
       /\ Mode # "hasher" => rbuffer'[p] = rbuffer[p]
       /\ HasStop(p) => HasStop(p)'
       /\ HasStop(p)' => HasStop(p) \/ (t \in Perpkts /\ pc[t] = "error")
  /\ ~Live /\ left = 0 => left' = 0

\* Which is nothing, in most steps.
LEMMA MildQuiet ==
  ASSUME Room, NEW t, UNCHANGED <<messages, rbuffer, packets>>, ~Live /\ left = 0 => left' = 0
  PROVE  Mild(t)
BY Zenon DEF Mild, Room, Fits, HasStop

\* A thread's own queues, its messages and the reporter's.
LEMMA MildOwn ==
  ASSUME Queues, Room, NEW p \in Perpkts, ~Live /\ left = 0 => left' = 0,
         \A q \in Perpkts \ {p} : /\ packets'[q] = packets[q] /\ rbuffer'[q] = rbuffer[q]
                                  /\ messages'[q] = messages[q]
  PROVE  Mild(p)
BY Zenon DEF Mild, Room, Fits, HasStop

LEMMA ReadsLeft ==
  ASSUME Others, NEW x, Reads(x)
  PROVE  ~Live /\ left = 0 => left' = 0
BY DEF Reads, Others

\* The reporter's messages are its own.
LEMMA PublishApart ==
  ASSUME Queues, Publish
  PROVE  \A q \in Perpkts : messages'[q] = messages[q]
BY Who, Zenon DEF Publish, Send, Queues

LEMMA PerpktMild ==
  ASSUME Types, Others, Queues, Room, NEW p \in Perpkts, UNCHANGED conf, PerpktStep(p)
  PROVE  Mild(p)
<1> USE DEF status, buffers, locals, program, record
<1>0. /\ Perpkts \subseteq Workers /\ reporter \notin Perpkts
      /\ \A q \in Perpkts : q \in Workers /\ messages[q] \in Seq(Messages)
  BY Who, Zenon DEF Queues
<1>1. CASE Register(p) \/ ReadLock(p) \/ Delay(p) \/ DrainDone(p)
  BY <1>1, MildQuiet, Zenon DEF Register, ReadLock, Delay, DrainDone
<1>2. CASE Loop(p)
  BY <1>0, <1>2, MildOwn, Zenon DEF Loop, Queues
<1>3. CASE ReadRing(p)
  BY <1>3, MildOwn, Zenon DEF ReadRing, Queues
<1>4. CASE ReadMore(p)
  BY <1>4, MildOwn, Zenon DEF ReadMore, Queues
<1>5. CASE ReadFormat(p)
  <2>1. ~Live /\ left = 0 => left' = 0
    <3>1. \E n \in 1 .. Burst : (Live \/ n <= left) /\ left' = IF Live THEN left ELSE left - n
      BY <1>5, Zenon DEF ReadFormat
    <3>2. Burst \in Nat
      BY TraceAssumption, Zenon DEF Types, Burst
    <3> QED  BY <3>1, <3>2
  <2> QED  BY <1>5, <2>1, MildOwn, Zenon DEF ReadFormat, Queues
<1>n. CASE ReadNone(p)
  BY <1>n, MildQuiet, ReadsLeft, Zenon DEF ReadNone, Items
<1>6. CASE ReadLocked(p)
  BY <1>6, MildOwn, ReadsLeft, Zenon DEF ReadLocked, Queues
<1>7. CASE DispatchOne(p)
  BY <1>7, MildOwn, PublishApart, Zenon DEF DispatchOne, Queues
<1>8. CASE DrainRing(p)
  BY <1>8, MildOwn, Zenon DEF DrainRing, Queues
<1>9. CASE Error(p)
  <2>1. UNCHANGED <<rbuffer, packets, left>> /\ pc[p] = "error"
    BY <1>9, Zenon DEF Error
  <2>2. \A q \in Perpkts : messages'[q] \in {messages[q], Append(messages[q], "DO_STOP")}
    BY <1>0, <1>9, Zenon DEF Error, SendPerpkts
  <2>3. ASSUME NEW q \in Perpkts, HasStop(q)
        PROVE  HasStop(q)'
    <3>1. "DO_STOP" \in Messages
      BY Zenon DEF Messages
    <3>2. Has(Append(messages[q], "DO_STOP"), "DO_STOP")
      BY <1>0, <3>1, AppendHas, Zenon
    <3> QED  BY <2>2, <2>3, <3>2, Zenon DEF HasStop
  <2> QED  BY <2>1, <2>3, Zenon DEF Mild, Room, Fits
<1>10. CASE Eof(p)
  BY <1>10, MildOwn, PublishApart, Zenon DEF Eof, Queues
<1>11. CASE Post(p)
  BY <1>0, <1>11, MildOwn, Zenon DEF Post, Send, Queues
<1> QED  BY <1>1, <1>2, <1>3, <1>4, <1>5, <1>n, RegistersWork, <1>6, <1>7, <1>8, <1>9, <1>10, <1>11, Zenon
         DEF PerpktStep, Dispatch, DrainBatch

LEMMA WorkerMild ==
  ASSUME Types, Others, Queues, Room, NEW t \in Workers, WorkerStep(t)
  PROVE  Mild(t)
<1> USE DEF status, buffers, locals, program, record
<1>0. /\ {hasher, reporter, keepalive} \cap Perpkts = {} /\ UNCHANGED conf
      /\ \A q \in Perpkts : q \in Workers /\ messages[q] \in Seq(Messages) /\ rbuffer[q] \in Seq(Items)
      /\ Mode = "hasher" <=> hasher \in Workers
  BY Who, Zenon DEF Queues, WorkerStep
<1>1. CASE t \in Perpkts /\ PerpktStep(t)
  BY <1>0, <1>1, PerpktMild, Zenon
<1>2. CASE Begin(t) \/ ThreadPause(t) \/ Resume(t) \/ Finish(t) \/ Refuse(t)
  BY <1>2, MildQuiet, Zenon DEF Begin, ThreadPause, Resume, Finish, Refuse
<1>3. CASE HasherRead \/ Broadcast \/ ReporterLoop \/ ReporterFinal
  BY <1>3, MildQuiet, ReadsLeft, Zenon DEF HasherRead, Broadcast, ReporterLoop, ReporterFinal
<1>4. CASE HasherLoop \/ ReporterGet
  <2>1. UNCHANGED <<rbuffer, packets, left>> /\ \A q \in Perpkts : messages'[q] = messages[q]
    BY <1>0, <1>4, Zenon DEF HasherLoop, ReporterGet, Queues
  <2> QED  BY <2>1, Zenon DEF Mild, Room, Fits, HasStop
<1>5. CASE t = hasher /\ (HasherWrite \/ HasherTick \/ BroadcastWrite)
  <2>1. UNCHANGED <<messages, packets, left>>
    BY <1>5, Zenon DEF HasherWrite, HasherTick, BroadcastWrite
  <2>2. ~Full(i[hasher]) /\ \E x \in {"PKT", "TICK", error} :
                              rbuffer' = [rbuffer EXCEPT ![i[hasher]] = Append(@, x)]
    BY <1>5, Zenon DEF HasherWrite, HasherTick, BroadcastWrite
  <2>3. ASSUME NEW q \in Perpkts
        PROVE  Len(rbuffer'[q]) <= RingSize
    <3>1. CASE q # i[hasher]
      BY <2>2, <3>1, Zenon DEF Queues, Room, Fits
    <3>2. CASE q = i[hasher]
      <4>1. PICK x \in {"PKT", "TICK", error} : rbuffer'[q] = Append(rbuffer[q], x)
        BY <2>2, <3>2, Zenon DEF Queues
      <4>2. Len(rbuffer[q]) # RingSize /\ Len(rbuffer[q]) <= RingSize /\ rbuffer[q] \in Seq(Items)
        BY <1>0, <2>2, <3>2, Zenon DEF Full, Room, Fits
      <4>3. RingSize \in Nat /\ x \in Items
        BY TraceAssumption, Zenon DEF Types, Others, RingSize, Items
      <4> QED  BY <4>1, <4>2, <4>3
    <3> QED  BY <3>1, <3>2, Zenon
  <2> QED  BY <1>0, <1>5, <2>1, <2>3, Zenon DEF Mild, HasStop
<1>6. CASE KeepaliveLoop
  <2>1. UNCHANGED <<rbuffer, packets, left>>
    BY <1>6, Zenon DEF KeepaliveLoop
  <2>2. \A q \in Perpkts : messages'[q] \in {messages[q], Append(messages[q], "TICK")}
    BY <1>0, <1>6, Zenon DEF KeepaliveLoop, SendPerpkts, Queues
  <2>3. ASSUME NEW q \in Perpkts
        PROVE  HasStop(q)' <=> HasStop(q)
    <3>1. "TICK" \in Messages
      BY Zenon DEF Messages
    <3>2. Has(Append(messages[q], "TICK"), "DO_STOP") <=> Has(messages[q], "DO_STOP")
      BY <1>0, <3>1, AppendHas
    <3> QED  BY <2>2, <3>2, Zenon DEF HasStop
  <2> QED  BY <2>1, <2>3, Zenon DEF Mild, Room, Fits
<1> QED  BY <1>1, <1>2, <1>3, <1>4, <1>5, <1>6, Zenon DEF WorkerStep, HasherStep

\* What a thread has does not depend on the others' steps.
LEMMA OthersMild ==
  ASSUME Types, Others, Queues, Room, NEW t \in Workers, WorkerStep(t), NEW p \in Perpkts, p # t
  PROVE  /\ Fits(p)'
         /\ Mode # "hasher" /\ Own(p) /\ (t \in Perpkts => Own(t)) => Own(p)'
<1>1. Mild(t) /\ Frame(t) /\ t # main /\ t \in Threads /\ p \in Threads
  BY WorkerMild, WorkerStepDoes, Who, Zenon
<1>2. UNCHANGED <<conf, started, stopping>> /\ pc'[p] = pc[p] /\ pc'[main] = pc[main]
  BY <1>1, Who, Zenon DEF Frame
<1>3. /\ packets'[p] = packets[p] /\ Len(rbuffer'[p]) <= RingSize
      /\ Mode # "hasher" => rbuffer'[p] = rbuffer[p]
      /\ HasStop(p)' => HasStop(p) \/ (t \in Perpkts /\ pc[t] = "error")
      /\ ~Live /\ left = 0 => left' = 0
  BY <1>1, Zenon DEF Mild
<1>4. /\ Mode' = Mode /\ RingSize' = RingSize /\ Burst' = Burst /\ Tracetime' = Tracetime
      /\ Live' = Live /\ Failures' = Failures /\ (ReadsWork' <=> ReadsWork)
  BY <1>2, ConfKept, Zenon DEF ReadsWork
<1>5. Fits(p)'
  BY <1>2, <1>3, <1>4, Zenon DEF Room, Fits
<1>6. Mode # "hasher" /\ Own(p) /\ (t \in Perpkts => Own(t)) => Own(p)'
  BY <1>2, <1>3, <1>4, Zenon DEF Own
<1> QED  BY <1>5, <1>6, Zenon

-----------------------------------------------------------------------------
(* What it does to its own.                                                  *)

\* Without a hasher; and once it was asked to stop a thread stops.
Single(p) == Mode # "hasher" /\ Own(p) /\ Started /\ Clean
StopKept(p) ==
  /\ HasStop(p) => HasStop(p)' \/ pc'[p] \in Ending
  /\ pc[p] \in Ending => pc'[p] \in Ending

\* What all steps of a per-packet thread have in common.
LEMMA OwnFacts ==
  ASSUME Types, Others, Queues, Room, Control, NEW p \in Perpkts, WorkerStep(p)
  PROVE  /\ DOMAIN pc = Threads /\ p \in Threads /\ p \in Workers
         /\ UNCHANGED <<conf, started, stopping>> /\ pc'[main] = pc[main]
         /\ Mode' = Mode /\ RingSize' = RingSize /\ Burst' = Burst /\ Tracetime' = Tracetime
         /\ Live' = Live /\ Failures' = Failures /\ (ReadsWork' <=> ReadsWork)
         /\ (~Live /\ left = 0 => left' = 0)
         /\ Burst \in Nat \ {0} /\ RingSize \in Nat \ {0}
         /\ messages[p] \in Seq(Messages) /\ packets[p] \in Seq(Items) /\ rbuffer[p] \in Seq(Items)
         /\ Fits(p)
         /\ pc[main] = "cleanup" => pc[p] = "start"
         /\ state = "ERROR" => "start" \in Failures
         /\ Single(p) /\ ReadsWork /\ ~started =>
              HasStop(p) \/ pc[p] \in Ending \cup {"start", "paused"}
<1>1. Frame(p) /\ Mild(p) /\ p \in Workers /\ p \in Threads /\ p # main /\ main \in Threads
  BY WorkerStepDoes, WorkerMild, Who, Zenon
<1>2. UNCHANGED <<conf, started, stopping>> /\ pc'[main] = pc[main] /\ pc[p] \notin {"none", "exit"}
  BY <1>1, Zenon DEF Frame
<1>3. /\ Mode' = Mode /\ RingSize' = RingSize /\ Burst' = Burst /\ Tracetime' = Tracetime
      /\ Live' = Live /\ Failures' = Failures /\ (ReadsWork' <=> ReadsWork)
  BY <1>2, ConfKept, Zenon DEF ReadsWork
<1>4. Burst \in Nat \ {0} /\ RingSize \in Nat \ {0}
  BY TraceAssumption, Zenon DEF Types, Burst, RingSize
<1>5. messages[p] \in Seq(Messages) /\ packets[p] \in Seq(Items) /\ rbuffer[p] \in Seq(Items)
  BY <1>1, Zenon DEF Queues
<1>6. /\ pc[main] = "cleanup" => pc[p] = "start"
      /\ state = "ERROR" => "start" \in Failures
      /\ pc[main] # "end" /\ state # "NEW"
  BY <1>1, <1>2, Zenon DEF Control, Starts
<1>7. (AllDone \/ Still => pc[p] \in {"paused", "post"})
  <2>1. /\ tstate[p] = "PAUSED" <=> pc[p] = "paused"
        /\ tstate[p] = "FINISHED" <=> pc[p] \in {"post", "exit"}
        /\ tstate[p] \in TStates
    BY <1>1, Zenon DEF Control, Matches, Types
  <2> QED  BY <1>2, <2>1, Zenon DEF AllDone, Still, TStates
<1>8. Single(p) /\ ReadsWork /\ ~started => HasStop(p) \/ pc[p] \in Ending \cup {"start", "paused"}
  BY <1>6, <1>7, Zenon DEF Single, Started, Ending
<1>9. ~Live /\ left = 0 => left' = 0
  BY <1>1, Zenon DEF Mild
<1> QED  BY <1>1, <1>2, <1>3, <1>4, <1>5, <1>6, <1>8, <1>9, Zenon DEF Types, Room

LEMMA CommonOwn ==
  ASSUME Types, Others, Queues, Room, Control, NEW p \in Perpkts, WorkerStep(p),
         Begin(p) \/ ThreadPause(p) \/ Resume(p) \/ Finish(p) \/ Refuse(p)
         \/ Register(p) \/ ReadLock(p) \/ Delay(p) \/ DrainDone(p) \/ Post(p)
  PROVE  /\ Fits(p)' /\ (Single(p) => Own(p)' /\ Clean' /\ StopKept(p))
<1> USE DEF status, buffers, locals, program, record
<1>0. DOMAIN pc = Threads /\ p \in Threads /\ p \in Workers
  BY OwnFacts, Zenon
<1>c. /\ UNCHANGED <<conf, started, stopping>> /\ pc'[main] = pc[main]
      /\ Mode' = Mode /\ RingSize' = RingSize /\ Burst' = Burst /\ Tracetime' = Tracetime
      /\ Live' = Live /\ Failures' = Failures /\ (ReadsWork' <=> ReadsWork)
  BY OwnFacts, Zenon
<1>f. /\ Fits(p)
      /\ pc[main] = "cleanup" => pc[p] = "start"
      /\ state = "ERROR" => "start" \in Failures
      /\ Single(p) /\ ReadsWork /\ ~started =>
           HasStop(p) \/ pc[p] \in Ending \cup {"start", "paused"}
  BY OwnFacts, Zenon
<1>1. CASE Begin(p)
  <2>1. /\ pc[p] = "start" /\ UNCHANGED <<messages, rbuffer, packets, left, lost, failed>>
        /\ pc'[p] = IF state = "ERROR" THEN "exit" ELSE "register"
    BY <1>0, <1>1, Goes, Zenon DEF Begin
  <2>f. Fits(p)'
    BY <1>c, <1>f, <2>1, Zenon DEF Fits
  <2>o. Single(p) => Own(p)' /\ Clean' /\ StopKept(p)
    BY <1>c, <1>f, <2>1, Zenon DEF Single, Own, Clean, StopKept, HasStop, Ending
  <2> QED  BY <2>f, <2>o, Zenon DEF Single
<1>2. CASE ThreadPause(p)
  <2>1. /\ pc[p] = "pause" /\ UNCHANGED <<messages, rbuffer, packets, left, lost, failed>>
        /\ pc'[p] \in {"paused", "loop"}
    BY <1>0, <1>2, Goes, Zenon DEF ThreadPause
  <2>f. Fits(p)'
    BY <1>c, <1>f, <2>1, Zenon DEF Fits
  <2>o. Single(p) => Own(p)' /\ Clean' /\ StopKept(p)
    BY <1>c, <1>f, <2>1, Zenon DEF Single, Own, Clean, StopKept, HasStop, Ending, Fits
  <2> QED  BY <2>f, <2>o, Zenon DEF Single
<1>3. CASE Resume(p)
  <2>1. /\ pc[p] = "paused" /\ UNCHANGED <<messages, rbuffer, packets, left, lost, failed>>
        /\ pc'[p] \in {"paused", "loop"}
    BY <1>0, <1>3, Goes, Zenon DEF Resume
  <2>f. Fits(p)'
    BY <1>c, <1>f, <2>1, Zenon DEF Fits
  <2>o. Single(p) => Own(p)' /\ Clean' /\ StopKept(p)
    BY <1>c, <1>f, <2>1, Zenon DEF Single, Own, Clean, StopKept, HasStop, Ending, Fits
  <2> QED  BY <2>f, <2>o, Zenon DEF Single
<1>4. CASE Finish(p)
  <2>1. /\ pc[p] = "finish" /\ UNCHANGED <<messages, rbuffer, packets, left, lost, failed>>
        /\ pc'[p] = "post"
    BY <1>0, <1>4, Goes, Zenon DEF Finish
  <2>f. Fits(p)'
    BY <1>c, <1>f, <2>1, Zenon DEF Fits
  <2>o. Single(p) => Own(p)' /\ Clean' /\ StopKept(p)
    BY <1>c, <1>f, <2>1, Zenon DEF Single, Own, Clean, StopKept, HasStop, Ending
  <2> QED  BY <2>f, <2>o, Zenon DEF Single
<1>5. CASE Refuse(p)
  <2>1. /\ pc[p] = "refuse" /\ UNCHANGED <<messages, rbuffer, packets, left, lost, failed>>
        /\ pc'[p] = CASE Mode = "fifs" -> "reading"
                      [] Mode = "format" /\ packets[p] # <<>> -> "dispatch"
                      [] OTHER -> "read"
    BY <1>0, <1>5, Goes, Zenon DEF Refuse
  <2>f. Fits(p)'
    BY <1>c, <1>f, <2>1, Zenon DEF Fits
  <2>o. Single(p) => Own(p)' /\ Clean' /\ StopKept(p)
    BY <1>c, <1>f, <2>1, Zenon DEF Single, Own, Clean, StopKept, HasStop, Ending
  <2> QED  BY <2>f, <2>o, Zenon DEF Single
<1>6. CASE Register(p)
  <2>1. /\ pc[p] = "register" /\ UNCHANGED <<messages, rbuffer, packets, left, lost, failed>>
        /\ pc'[p] = "loop"
    BY <1>0, <1>6, Goes, Zenon DEF Register
  <2>f. Fits(p)'
    BY <1>c, <1>f, <2>1, Zenon DEF Fits
  <2>o. Single(p) => Own(p)' /\ Clean' /\ StopKept(p)
    BY <1>c, <1>f, <2>1, Zenon DEF Single, Own, Clean, StopKept, HasStop, Ending, Fits
  <2> QED  BY <2>f, <2>o, Zenon DEF Single
<1>7. CASE ReadLock(p)
  <2>1. /\ pc[p] = "read" /\ UNCHANGED <<messages, rbuffer, packets, left, lost, failed>>
        /\ pc'[p] = "reading" /\ Mode = "fifs"
    BY <1>0, <1>7, Goes, Zenon DEF ReadLock
  <2>2. Len(packets[p]) < Burst
    <3>1. packets[p] = <<>> /\ Burst \in Nat \ {0}
      BY <1>f, <2>1, OwnFacts, Zenon DEF Fits
    <3>2. Len(<<>>) < Burst
      BY <3>1
    <3> QED  BY <3>1, <3>2, Zenon
  <2>f. Fits(p)'
    BY <1>c, <1>f, <2>1, <2>2, Zenon DEF Fits
  <2>o. Single(p) => Own(p)' /\ Clean' /\ StopKept(p)
    BY <1>c, <1>f, <2>1, Zenon DEF Single, Own, Clean, StopKept, HasStop, Ending
  <2> QED  BY <2>f, <2>o, Zenon DEF Single
<1>8. CASE Delay(p)
  <2>1. /\ pc[p] = "dispatch" /\ UNCHANGED <<messages, rbuffer, packets, left, lost, failed>>
        /\ pc'[p] = "loop" /\ Tracetime
    BY <1>0, <1>8, Goes, Zenon DEF Delay
  <2>f. Fits(p)'
    BY <1>c, <1>f, <2>1, Zenon DEF Fits
  <2>o. Single(p) => Own(p)' /\ Clean' /\ StopKept(p)
    BY <1>c, <1>f, <2>1, Zenon DEF Single, Own, Clean, StopKept, HasStop, Ending
  <2> QED  BY <2>f, <2>o, Zenon DEF Single
<1>9. CASE DrainDone(p)
  <2>1. /\ pc[p] = "drain" /\ UNCHANGED <<messages, rbuffer, packets, left, lost, failed>>
        /\ pc'[p] = "pause" /\ packets[p] = <<>>
    BY <1>0, <1>9, Goes, Zenon DEF DrainDone
  <2>f. Fits(p)'
    BY <1>c, <1>f, <2>1, Zenon DEF Fits
  <2>o. Single(p) => Own(p)' /\ Clean' /\ StopKept(p)
    BY <1>c, <1>f, <2>1, Zenon DEF Single, Own, Clean, StopKept, HasStop, Ending
  <2> QED  BY <2>f, <2>o, Zenon DEF Single
<1>10. CASE Post(p)
  <2>1. /\ pc[p] = "post" /\ UNCHANGED <<rbuffer, packets, left, lost, failed>>
        /\ pc'[p] = "exit" /\ messages'[p] = messages[p]
    BY <1>0, <1>10, Goes, Who, Zenon DEF Post, Send, Queues
  <2>f. Fits(p)'
    BY <1>c, <1>f, <2>1, Zenon DEF Fits
  <2>o. Single(p) => Own(p)' /\ Clean' /\ StopKept(p)
    BY <1>c, <1>f, <2>1, Zenon DEF Single, Own, Clean, StopKept, HasStop, Ending
  <2> QED  BY <2>f, <2>o, Zenon DEF Single
<1> QED  BY <1>1, <1>2, <1>3, <1>4, <1>5, <1>6, <1>7, <1>8, <1>9, <1>10, Zenon

\* The head of the loop.
LEMMA LoopOwn ==
  ASSUME Types, Others, Queues, Room, Control, NEW p \in Perpkts, WorkerStep(p), Loop(p)
  PROVE  /\ Fits(p)' /\ (Single(p) => Own(p)' /\ Clean' /\ StopKept(p))
<1> USE DEF status, buffers, locals, program, record
<1>0. DOMAIN pc = Threads /\ p \in Threads /\ p \in Workers /\ messages[p] \in Seq(Messages)
  BY OwnFacts, Zenon
<1>c. /\ UNCHANGED <<conf, started, stopping>> /\ pc'[main] = pc[main]
      /\ Mode' = Mode /\ RingSize' = RingSize /\ Burst' = Burst /\ Tracetime' = Tracetime
      /\ Live' = Live /\ Failures' = Failures /\ (ReadsWork' <=> ReadsWork)
  BY OwnFacts, Zenon
<1>f. /\ Fits(p)
      /\ pc[main] = "cleanup" => pc[p] = "start"
      /\ Single(p) /\ ReadsWork /\ ~started =>
           HasStop(p) \/ pc[p] \in Ending \cup {"start", "paused"}
  BY OwnFacts, Zenon
<1>1. pc[p] = "loop" /\ UNCHANGED <<rbuffer, packets, left, lost, failed>>
  BY Zenon DEF Loop
<1>2. \/ pc'[p] = "eof" /\ HasStop(p) /\ (HasStop(p)' => HasStop(p))
      \/ pc'[p] \in {"drain", "loop"} /\ (HasStop(p)' <=> HasStop(p))
      \/ /\ pc'[p] \in {"read", "dispatch"} /\ ~HasStop(p) /\ ~HasStop(p)'
         /\ pc'[p] = "read" => packets[p] = <<>>
  <2>1. CASE messages[p] # <<>>
    <3>1. /\ messages'[p] = Tail(messages[p])
          /\ pc'[p] = CASE Head(messages[p]) = "DO_PAUSE" -> "drain"
                        [] Head(messages[p]) = "DO_STOP" -> "eof"
                        [] OTHER -> "loop"
      BY <1>0, <2>1, Goes, Zenon DEF Loop, Queues
    <3>2. /\ Has(messages[p], Head(messages[p]))
          /\ \A x : Has(Tail(messages[p]), x) => Has(messages[p], x)
          /\ \A x : Has(messages[p], x) => Head(messages[p]) = x \/ Has(Tail(messages[p]), x)
      BY <1>0, <2>1, TailHas, Zenon
    <3>3. CASE Head(messages[p]) = "DO_STOP"
      BY <3>1, <3>2, <3>3, Zenon DEF HasStop
    <3>4. CASE Head(messages[p]) # "DO_STOP"
      BY <3>1, <3>2, <3>4, Zenon DEF HasStop
    <3> QED  BY <3>3, <3>4, Zenon
  <2>2. CASE messages[p] = <<>>
    <3>1. messages' = messages /\ pc'[p] = IF packets[p] = <<>> THEN "read" ELSE "dispatch"
      BY <1>0, <2>2, Goes, Zenon DEF Loop
    <3> QED  BY <2>2, <3>1, EmptyHas, Zenon DEF HasStop
  <2> QED  BY <2>1, <2>2, Zenon
<1>3. Fits(p)'
  BY <1>c, <1>f, <1>1, <1>2, Zenon DEF Fits
<1>4. Single(p) => Own(p)'
  BY <1>c, <1>f, <1>1, <1>2, Zenon DEF Single, Own, Ending
<1>5. Single(p) => Clean' /\ StopKept(p)
  BY <1>c, <1>1, <1>2, Zenon DEF Single, Clean, StopKept, Ending
<1> QED  BY <1>3, <1>4, <1>5, Zenon

LEMMA ReadOwn ==
  ASSUME Types, Others, Queues, Room, Control, NEW p \in Perpkts, WorkerStep(p),
         ReadFormat(p) \/ ReadNone(p) \/ ReadLocked(p)
  PROVE  /\ Fits(p)' /\ (Single(p) => Own(p)' /\ Clean' /\ StopKept(p))
<1> USE DEF status, buffers, locals, program, record
<1>0. DOMAIN pc = Threads /\ p \in Threads /\ p \in Workers /\ packets[p] \in Seq(Items) /\ "PKT" \in Items
      /\ Burst \in Nat \ {0}
  BY OwnFacts, Zenon DEF Items
<1>c. /\ UNCHANGED <<conf, started, stopping>> /\ pc'[main] = pc[main]
      /\ Mode' = Mode /\ RingSize' = RingSize /\ Burst' = Burst /\ Tracetime' = Tracetime
      /\ Live' = Live /\ Failures' = Failures /\ (ReadsWork' <=> ReadsWork)
      /\ UNCHANGED <<messages, rbuffer, lost, failed>>
  BY OwnFacts, Zenon DEF ReadFormat, ReadNone, ReadLocked
<1>f. /\ Fits(p)
      /\ pc[main] = "cleanup" => pc[p] = "start"
      /\ Single(p) /\ ReadsWork /\ ~started =>
           HasStop(p) \/ pc[p] \in Ending \cup {"start", "paused"}
  BY OwnFacts, Zenon
<1>1. /\ pc[p] \in {"read", "reading"} /\ Mode \in {"fifs", "format"}
      /\ pc[p] = "reading" => Mode = "fifs"
      /\ \/ /\ pc'[p] \in {"refuse", "loop", "dispatch"} /\ packets'[p] = packets[p]
            /\ pc'[p] = "loop" => packets[p] = <<>>
         \/ /\ pc[p] = "read" /\ started
            /\ \E n \in 1 .. Burst : \E m \in 0 .. n :
                 /\ packets'[p] = [k \in 1 .. m |-> "PKT"]
                 /\ pc'[p] = IF m = n THEN "dispatch" ELSE "refuse"
         \/ /\ packets'[p] = Append(packets[p], "PKT") /\ pc[p] = "reading"
            /\ pc'[p] = IF Len(packets[p]) + 1 = Burst THEN "dispatch" ELSE "reading"
         \/ pc'[p] = "eof" /\ packets'[p] = packets[p] /\ packets[p] = <<>> /\ left' = 0
         \/ /\ pc'[p] = "error" /\ packets'[p] = packets[p] /\ packets[p] = <<>>
            /\ ~ReadsWork \/ ~started
  <2>1. CASE ReadFormat(p)
    <3>1. PICK n \in 1 .. Burst : \E m \in 0 .. n :
            /\ packets' = [packets EXCEPT ![p] = [k \in 1 .. m |-> "PKT"]]
            /\ Goto(p, IF m = n THEN "dispatch" ELSE "refuse")
      BY <2>1, Zenon DEF ReadFormat
    <3>2. PICK m \in 0 .. n :
            /\ packets' = [packets EXCEPT ![p] = [k \in 1 .. m |-> "PKT"]]
            /\ Goto(p, IF m = n THEN "dispatch" ELSE "refuse")
      BY <3>1, Zenon
    <3>3. packets'[p] = [k \in 1 .. m |-> "PKT"] /\ pc'[p] = IF m = n THEN "dispatch" ELSE "refuse"
      BY <1>0, <3>2, Goes, Zenon DEF Queues
    <3> QED  BY <2>1, <3>3, Zenon DEF ReadFormat
  <2>3. CASE ReadNone(p)
    <3>0. pc[p] = "read" /\ Mode = "format" /\ packets[p] = <<>> /\ UNCHANGED packets
      BY <1>f, <2>3, Zenon DEF ReadNone, Fits
    <3>1. PICK x \in {"EOF", "ERR", "MSG"} :
            /\ IF x = "MSG" THEN UNCHANGED left ELSE Reads(x)
            /\ Goto(p, After(x))
      BY <2>3, Zenon DEF ReadNone
    <3>3. CASE x = "EOF"
      BY <1>0, <3>0, <3>1, <3>3, Goes, Zenon DEF Reads, After
    <3>4. CASE x = "MSG"
      BY <1>0, <3>0, <3>1, <3>4, Goes, Zenon DEF After
    <3>5. CASE x = "ERR"
      BY <1>0, <3>0, <3>1, <3>5, Goes, Zenon DEF Reads, After, ReadsWork
    <3> QED  BY <3>3, <3>4, <3>5, Zenon
  <2>2. CASE ReadLocked(p)
    <3>0. pc[p] = "reading" /\ Mode = "fifs"
      BY <1>f, <2>2, Zenon DEF ReadLocked, Fits
    <3>1. PICK x \in {"PKT", "EOF", "ERR"} :
            /\ Reads(x)
            /\ \/ x = "PKT" /\ Goto(p, "refuse") /\ UNCHANGED packets
               \/ /\ x = "PKT" /\ packets' = [packets EXCEPT ![p] = Append(@, x)]
                  /\ IF Len(packets[p]) + 1 = Burst THEN Goto(p, "dispatch") ELSE UNCHANGED pc
               \/ x # "PKT" /\ Goto(p, IF packets[p] = <<>> THEN After(x) ELSE "dispatch") /\ UNCHANGED packets
      BY <2>2, Zenon DEF ReadLocked
    <3>2. After("EOF") = "eof" /\ After("ERR") = "error"
      BY Zenon DEF After
    <3>3. CASE x = "PKT" /\ UNCHANGED packets
      <4>1. pc'[p] = "refuse" \/ (packets' = [packets EXCEPT ![p] = Append(@, x)]
              /\ pc'[p] = IF Len(packets[p]) + 1 = Burst THEN "dispatch" ELSE "reading")
        BY <1>0, <3>0, <3>1, <3>3, Goes, Zenon
      <4>2. packets' = [packets EXCEPT ![p] = Append(@, x)] => packets'[p] = Append(packets[p], x)
        BY <1>0, Zenon DEF Queues
      <4> QED  BY <3>0, <3>3, <4>1, <4>2, Zenon
    <3>4. CASE /\ x = "PKT" /\ packets' = [packets EXCEPT ![p] = Append(@, x)]
               /\ IF Len(packets[p]) + 1 = Burst THEN Goto(p, "dispatch") ELSE UNCHANGED pc
      <4>1. packets'[p] = Append(packets[p], "PKT")
        BY <1>0, <3>4, Zenon DEF Queues
      <4>2. pc'[p] = IF Len(packets[p]) + 1 = Burst THEN "dispatch" ELSE "reading"
        BY <1>0, <3>0, <3>4, Goes, Zenon
      <4> QED  BY <3>0, <4>1, <4>2, Zenon
    <3>5. CASE x # "PKT"
      <4>1. UNCHANGED packets /\ pc'[p] = IF packets[p] = <<>> THEN After(x) ELSE "dispatch"
        BY <1>0, <3>1, <3>5, Goes, Zenon
      <4>2. (x = "EOF" => left' = 0) /\ (x = "ERR" => ~ReadsWork \/ ~started)
        BY <3>1, Zenon DEF Reads, ReadsWork
      <4> QED  BY <3>0, <3>1, <3>2, <3>5, <4>1, <4>2, Zenon
    <3> QED  BY <3>1, <3>3, <3>4, <3>5, Zenon
  <2> QED  BY <2>1, <2>2, <2>3, Zenon
<1>2. /\ Len(packets'[p]) <= Burst /\ (pc'[p] = "reading" => Len(packets'[p]) < Burst)
      /\ pc'[p] = "refuse" => Len(packets'[p]) < Burst
  <2>1. Len(packets[p]) \in Nat /\ Len(packets[p]) <= Burst
        /\ (pc[p] = "reading" => Len(packets[p]) < Burst) /\ (pc[p] = "read" => packets[p] = <<>>)
    BY <1>0, <1>f DEF Fits
  <2>2. Len(<<>>) = 0 /\ Len(Append(packets[p], "PKT")) = Len(packets[p]) + 1
    BY <1>0
  <2>3. CASE packets'[p] = packets[p]
    BY <1>0, <1>1, <2>1, <2>2, <2>3
  <2>4. CASE \E n \in 1 .. Burst : \E m \in 0 .. n :
               /\ packets'[p] = [k \in 1 .. m |-> "PKT"]
               /\ pc'[p] = IF m = n THEN "dispatch" ELSE "refuse"
    <3>n. PICK n \in 1 .. Burst : \E m \in 0 .. n :
            /\ packets'[p] = [k \in 1 .. m |-> "PKT"]
            /\ pc'[p] = IF m = n THEN "dispatch" ELSE "refuse"
      BY <2>4, Zenon
    <3>1. PICK m \in 0 .. n :
            /\ packets'[p] = [k \in 1 .. m |-> "PKT"]
            /\ pc'[p] = IF m = n THEN "dispatch" ELSE "refuse"
      BY <3>n, Zenon
    <3>2. Len(packets'[p]) = m
      BY <1>0, <3>1
    <3> QED  BY <1>0, <3>1, <3>2
  <2>5. CASE /\ packets'[p] = Append(packets[p], "PKT") /\ pc[p] = "reading"
             /\ pc'[p] = IF Len(packets[p]) + 1 = Burst THEN "dispatch" ELSE "reading"
    BY <1>0, <2>1, <2>2, <2>5
  <2> QED  BY <1>1, <2>3, <2>4, <2>5, Zenon
<1>3. Fits(p)'
  BY <1>c, <1>f, <1>1, <1>2, Zenon DEF Fits
<1>4. (\A x : Has(packets[p], x) => x = "PKT") => \A x : Has(packets'[p], x) => x = "PKT"
  <2>1. \A x : Has(Append(packets[p], "PKT"), x) <=> Has(packets[p], x) \/ x = "PKT"
    BY <1>0, AppendHas
  <2>2. ASSUME NEW m, packets'[p] = [k \in 1 .. m |-> "PKT"]
        PROVE  \A x : Has(packets'[p], x) => x = "PKT"
    <3>1. DOMAIN packets'[p] = 1 .. m /\ \A k \in 1 .. m : packets'[p][k] = "PKT"
      BY <2>2, Zenon
    <3> QED  BY <3>1, Zenon DEF Has
  <2>3. \/ packets'[p] = packets[p] \/ packets'[p] = Append(packets[p], "PKT")
        \/ \E m : packets'[p] = [k \in 1 .. m |-> "PKT"]
    BY <1>1, Zenon
  <2> QED  BY <2>1, <2>2, <2>3, Zenon
<1>5. Single(p) => Own(p)'
  BY <1>c, <1>f, <1>1, <1>4, Zenon DEF Single, Own, Ending, HasStop
<1>6. Single(p) => Clean' /\ StopKept(p)
  BY <1>c, <1>1, Zenon DEF Single, Clean, StopKept, Ending, HasStop
<1> QED  BY <1>3, <1>5, <1>6, Zenon

\* The ring, with a hasher.
LEMMA RingOwn ==
  ASSUME Types, Others, Queues, Room, Control, NEW p \in Perpkts, WorkerStep(p),
         ReadRing(p) \/ ReadMore(p) \/ DrainRing(p)
  PROVE  /\ Fits(p)' /\ ~Single(p)
<1> USE DEF status, buffers, locals, program, record
<1>0. /\ DOMAIN pc = Threads /\ p \in Threads /\ p \in Workers
      /\ packets[p] \in Seq(Items) /\ rbuffer[p] \in Seq(Items) /\ messages[p] \in Seq(Messages)
      /\ Burst \in Nat \ {0} /\ RingSize \in Nat \ {0}
  BY OwnFacts, Zenon
<1>c. /\ UNCHANGED <<conf, started, stopping>> /\ pc'[main] = pc[main]
      /\ Mode' = Mode /\ RingSize' = RingSize /\ Burst' = Burst /\ Tracetime' = Tracetime
      /\ Live' = Live /\ Failures' = Failures /\ (ReadsWork' <=> ReadsWork)
  BY OwnFacts, Zenon
<1>f. /\ Fits(p) /\ Len(packets[p]) <= Burst /\ Len(rbuffer[p]) <= RingSize
      /\ pc[main] = "cleanup" => pc[p] = "start"
  BY OwnFacts, Zenon DEF Fits
<1>1. ~Single(p)
  BY Zenon DEF Single, Own, ReadRing, ReadMore, DrainRing
<1>2. rbuffer[p] # <<>> => Tail(rbuffer[p]) \in Seq(Items) /\ Len(Tail(rbuffer[p])) = Len(rbuffer[p]) - 1
                           /\ Head(rbuffer[p]) \in Items
  BY <1>0, TailHas, Zenon
<1>3. Len(rbuffer'[p]) <= RingSize
  <2>1. rbuffer'[p] = rbuffer[p] \/ (rbuffer[p] # <<>> /\ rbuffer'[p] \in {Tail(rbuffer[p]), <<>>})
    BY Zenon DEF ReadRing, ReadMore, DrainRing, Queues
  <2>2. Len(rbuffer[p]) \in Nat /\ Len(<<>>) = 0
    BY <1>0
  <2>3. CASE rbuffer[p] # <<>> /\ rbuffer'[p] = Tail(rbuffer[p])
    BY <1>0, <1>2, <1>f, <2>2, <2>3
  <2> QED  BY <1>0, <1>f, <2>1, <2>2, <2>3
<1>4. CASE ReadRing(p)
  <2>1. /\ pc[p] = "read" /\ packets[p] = <<>>
        /\ \/ packets'[p] = packets[p] /\ pc'[p] \in {"eof", "loop", "error"}
           \/ packets'[p] = <<Head(rbuffer[p])>> /\ pc'[p] = "more"
    BY <1>0, <1>4, <1>f, Goes, Zenon DEF ReadRing, After, Queues, Fits
  <2>2. Len(packets'[p]) <= Burst /\ (pc'[p] = "more" => packets'[p] # <<>>)
    <3>1. Len(<<>>) <= Burst /\ \A x : Len(<<x>>) <= Burst /\ <<x>> # <<>>
      BY <1>0
    <3> QED  BY <2>1, <3>1, Zenon
  <2> QED  BY <1>1, <1>3, <1>c, <2>1, <2>2, Zenon DEF Fits
<1>5. CASE ReadMore(p)
  <2>1. /\ pc[p] = "more"
        /\ \/ packets'[p] = packets[p] /\ pc'[p] = "dispatch"
           \/ /\ packets'[p] = Append(packets[p], Head(rbuffer[p])) /\ pc'[p] = "more"
              /\ Len(packets[p]) # Burst /\ rbuffer[p] # <<>>
    BY <1>0, <1>5, Goes, Zenon DEF ReadMore, Queues
  <2>2. rbuffer[p] # <<>> => Len(Append(packets[p], Head(rbuffer[p]))) = Len(packets[p]) + 1
                             /\ Append(packets[p], Head(rbuffer[p])) # <<>>
    <3> SUFFICES ASSUME rbuffer[p] # <<>>
                 PROVE  Len(Append(packets[p], Head(rbuffer[p]))) = Len(packets[p]) + 1
                        /\ Append(packets[p], Head(rbuffer[p])) # <<>>
      BY Zenon
    <3>1. Head(rbuffer[p]) \in Items
      BY <1>2, Zenon
    <3> QED  BY <1>0, <3>1, AppendHas
  <2>3. Len(packets'[p]) <= Burst /\ (pc'[p] = "more" => packets'[p] # <<>>)
    BY <1>0, <1>f, <2>1, <2>2
  <2> QED  BY <1>1, <1>3, <1>c, <2>1, <2>3, Zenon DEF Fits
<1>6. CASE DrainRing(p)
  <2>1. /\ packets'[p] \in {<<>>, <<Head(rbuffer[p])>>} /\ pc'[p] \in {"drain", "error"}
    BY <1>0, <1>6, Goes, Zenon DEF DrainRing, Queues
  <2>2. Len(packets'[p]) <= Burst
    <3>1. Len(<<>>) <= Burst /\ \A x : Len(<<x>>) <= Burst
      BY <1>0
    <3> QED  BY <2>1, <3>1, Zenon
  <2> QED  BY <1>1, <1>3, <1>c, <2>1, <2>2, Zenon DEF Fits
<1> QED  BY <1>1, <1>4, <1>5, <1>6, Zenon

\* Packets are dispatched, and what is left is freed at the end.
LEMMA DispatchOwn ==
  ASSUME Types, Others, Queues, Room, Control, NEW p \in Perpkts, WorkerStep(p),
         Dispatch(p) \/ DrainBatch(p) \/ Error(p) \/ Eof(p)
  PROVE  /\ Fits(p)' /\ (Single(p) => Own(p)' /\ Clean' /\ StopKept(p))
<1> USE DEF status, buffers, locals, program, record
<1>0. /\ DOMAIN pc = Threads /\ p \in Threads /\ p \in Workers
      /\ packets[p] \in Seq(Items) /\ rbuffer[p] \in Seq(Items) /\ messages[p] \in Seq(Messages)
      /\ Burst \in Nat \ {0} /\ RingSize \in Nat \ {0}
  BY OwnFacts, Zenon
<1>c. /\ UNCHANGED <<conf, started, stopping>> /\ pc'[main] = pc[main]
      /\ Mode' = Mode /\ RingSize' = RingSize /\ Burst' = Burst /\ Tracetime' = Tracetime
      /\ Live' = Live /\ Failures' = Failures /\ (ReadsWork' <=> ReadsWork)
  BY OwnFacts, Zenon
<1>f. /\ Fits(p) /\ Len(packets[p]) <= Burst /\ Len(rbuffer[p]) <= RingSize
      /\ pc[main] = "cleanup" => pc[p] = "start"
  BY OwnFacts, Zenon DEF Fits
<1>1. CASE Dispatch(p) \/ DrainBatch(p)
  <2>1. DispatchOne(p) /\ packets[p] # <<>>
    BY <1>1, Zenon DEF Dispatch, DrainBatch, DispatchOne
  <2>2. /\ UNCHANGED <<rbuffer, left, lost>> /\ messages'[p] = messages[p]
        /\ packets'[p] = Tail(packets[p])
        /\ Head(packets[p]) = "PKT" => UNCHANGED failed
    BY <2>1, PublishApart, Zenon DEF DispatchOne, Queues
  <2>3. /\ \/ pc[p] = "dispatch" /\ pc'[p] = IF Len(packets[p]) = 1 THEN "loop" ELSE "dispatch"
           \/ pc[p] = "drain" /\ pc'[p] = "drain"
    BY <1>0, <1>1, Goes, Zenon DEF Dispatch, DrainBatch
  <2>4. /\ Len(Tail(packets[p])) = Len(packets[p]) - 1 /\ Has(packets[p], Head(packets[p]))
        /\ Tail(packets[p]) \in Seq(Items) /\ \A x : Has(Tail(packets[p]), x) => Has(packets[p], x)
    BY <1>0, <2>1, TailHas, Zenon
  <2>5. Len(packets'[p]) <= Burst /\ (Len(packets[p]) = 1 => packets'[p] = <<>>)
    <3> DEFINE s == packets[p]
               r == Tail(packets[p])
    <3>1. s \in Seq(Items) /\ r \in Seq(Items) /\ Len(r) = Len(s) - 1 /\ Len(s) <= Burst
      BY <1>0, <1>f, <2>4, Zenon
    <3> HIDE DEF s, r
    <3>2. Len(s) \in Nat /\ Len(r) \in Nat /\ (Len(r) = 0 => r = <<>>)
      BY <3>1
    <3>3. Len(r) <= Burst /\ (Len(s) = 1 => r = <<>>)
      BY <1>0, <3>1, <3>2
    <3> QED  BY <2>2, <3>3, Zenon DEF s, r
  <2>6. Fits(p)'
    BY <1>c, <1>f, <2>2, <2>3, <2>5, Zenon DEF Fits
  <2>7. Single(p) => Own(p)'
    BY <1>c, <1>f, <2>1, <2>2, <2>3, <2>4, <2>5, Zenon DEF Single, Own, Ending, HasStop
  <2>8. Single(p) => Clean' /\ StopKept(p)
    BY <1>c, <2>2, <2>3, <2>4, Zenon DEF Single, Own, Clean, StopKept, Ending, HasStop
  <2> QED  BY <2>6, <2>7, <2>8, Zenon
<1>2. CASE Error(p)
  <2>1. pc[p] = "error" /\ pc'[p] = "eof" /\ UNCHANGED <<rbuffer, packets, left, lost, failed>>
    BY <1>0, <1>2, Goes, Zenon DEF Error
  <2>2. Fits(p)'
    BY <1>c, <1>f, <2>1, Zenon DEF Fits
  <2>3. Single(p) => Own(p)' /\ Clean' /\ StopKept(p)
    BY <1>c, <2>1, Zenon DEF Single, Own, Clean, StopKept, Ending
  <2> QED  BY <2>2, <2>3, Zenon
<1>3. CASE Eof(p)
  <2>1. /\ pc[p] = "eof" /\ pc'[p] = "finish" /\ UNCHANGED <<rbuffer, left, failed>>
        /\ packets'[p] = <<>> /\ messages'[p] = messages[p]
        /\ lost' = (lost \/ HasPacket(packets[p]))
    BY <1>0, <1>3, Goes, PublishApart, Zenon DEF Eof, Queues
  <2>2. Len(<<>>) <= Burst
    BY <1>0
  <2>3. Fits(p)'
    BY <1>c, <1>f, <2>1, <2>2, Zenon DEF Fits
  <2>4. Single(p) => Own(p)' /\ StopKept(p)
    BY <1>c, <2>1, EmptyHas, Zenon DEF Single, Own, StopKept, Ending, HasStop
  <2>5. packets[p] = <<>> => ~HasPacket(packets[p])
    BY EmptyHas, Zenon DEF HasPacket, Has
  <2>6. Single(p) => Clean'
    BY <1>c, <2>1, <2>5, Zenon DEF Single, Own, Clean
  <2> QED  BY <2>3, <2>4, <2>6, Zenon
<1> QED  BY <1>1, <1>2, <1>3, Zenon

\* Every step of a per-packet thread.
LEMMA OwnStep ==
  ASSUME Types, Others, Queues, Room, Control, NEW p \in Perpkts, WorkerStep(p)
  PROVE  /\ Fits(p)' /\ (Single(p) => Own(p)' /\ Clean' /\ StopKept(p))
<1>1. p \notin {hasher, reporter, keepalive}
  BY Who, Zenon
<1> QED  BY <1>1, RegistersWork, CommonOwn, LoopOwn, ReadOwn, RingOwn, DispatchOwn, Zenon DEF WorkerStep, PerpktStep

-----------------------------------------------------------------------------
(* A step preserves what is said of the batches, and of a trace without a    *)
(* hasher.                                                                   *)

\* The steps of the workers.
LEMMA WorkerAlone ==
  ASSUME Types, Others, Queues, Sized, Room, Control, Alone, NEW t \in Workers, WorkerStep(t)
  PROVE  Room' /\ Alone'
<1>0. /\ UNCHANGED <<conf, started>> /\ pc'[main] = pc[main] /\ Mode' = Mode /\ Tracetime' = Tracetime
      /\ Failures' = Failures /\ (ReadsWork' <=> ReadsWork) /\ pc[t] \notin {"none", "exit"}
      /\ \A p \in Perpkts : p # t => pc'[p] = pc[p]
      /\ Mode = "hasher" <=> hasher \in Workers
  <2>1. Frame(t) /\ t # main /\ t \in Threads /\ Perpkts \subseteq Threads /\ main \in Threads
    BY WorkerStepDoes, Who, Zenon
  <2>2. UNCHANGED conf
    BY <2>1, Zenon DEF Frame
  <2> QED  BY <2>1, <2>2, ConfKept, Who, Zenon DEF Frame, ReadsWork
<1>1. Room'
  BY OthersMild, OwnStep, Zenon DEF Room
<1> SUFFICES ASSUME Mode # "hasher"
             PROVE  /\ \A p \in Perpkts : Own(p)'
                    /\ pc[main] \notin {"askhasher", "waithasher", "nudge"} /\ Started' /\ Clean'
  BY <1>0, <1>1, Zenon DEF Alone
<1>2. /\ \A p \in Perpkts : Own(p) /\ Single(p)
      /\ pc[main] \notin {"askhasher", "waithasher", "nudge"} /\ Started /\ Clean
  BY Zenon DEF Alone, Single
<1>3. \A p \in Perpkts : Own(p)'
  <2> TAKE p \in Perpkts
  <2>1. CASE p = t
    BY <1>2, <2>1, OwnStep, Zenon
  <2>2. CASE p # t
    BY <1>2, <2>2, OthersMild, Zenon
  <2> QED  BY <2>1, <2>2, Zenon
<1>4. Clean'
  <2>1. CASE t \in Perpkts
    BY <1>2, <2>1, OwnStep, Zenon
  <2>2. CASE t \notin Perpkts
    <3>1. UNCHANGED <<lost, failed>>
      BY <1>0, <2>2, Zenon DEF WorkerStep, Begin, ThreadPause, Resume, Finish, Refuse, ReporterLoop,
         ReporterGet, ReporterFinal, KeepaliveLoop, record
    <3> QED  BY <1>0, <1>2, <3>1, Zenon DEF Clean
  <2> QED  BY <2>1, <2>2, Zenon
<1>5. Started'
  <2> SUFFICES ASSUME ReadsWork, ~started
               PROVE  \/ pc[main] \in {"cleanup", "end"} \/ AllDone'
                      \/ Still' /\ (pc[main] = "setpaused" \/ (state' = "PAUSED" /\ pc[main] # "setfinishing"))
                      \/ \A p \in Perpkts : HasStop(p)' \/ pc'[p] \in Ending
    BY <1>0, Zenon DEF Started
  <2>1. Control' /\ (AllDone => AllDone') /\ (state' = state \/ AllDone')
    <3>1. StatusStep(t) /\ Frame(t)
      BY WorkerStepDoes, Zenon
    <3>2. \A p \in Perpkts : tstate[p] = "FINISHED" => tstate'[p] = "FINISHED"
      BY <3>1, WorkerMatches, Zenon DEF Control
    <3>3. state' = state \/ AllDone'
      BY <3>1, WorkerCounts, Zenon DEF Control
    <3> QED  BY <3>2, <3>3, WorkerControl, Zenon DEF AllDone
  <2>2. state # "NEW" \/ pc[main] = "end"
    BY <1>0, Zenon DEF Control, Starts
  <2>3. CASE pc[main] = "setpaused" \/ (state = "PAUSED" /\ pc[main] # "setfinishing")
    BY <1>0, <2>1, <2>3, Zenon DEF Control, Pauses, Closing
  <2>4. CASE \A p \in Perpkts : HasStop(p) \/ pc[p] \in Ending
    <3>1. \A p \in Perpkts : p # t => HasStop(p)' \/ pc'[p] \in Ending
      BY <1>0, <2>4, WorkerMild, Zenon DEF Mild
    <3>2. t \in Perpkts => HasStop(t)' \/ pc'[t] \in Ending
      BY <1>2, <2>4, OwnStep, Zenon DEF StopKept
    <3> QED  BY <3>1, <3>2, Zenon
  <2> QED  BY <1>2, <2>1, <2>2, <2>3, <2>4, Zenon DEF Started
<1> QED  BY <1>2, <1>3, <1>4, <1>5, Zenon

\* What the main thread's steps have in common: no thread moves, and none is asked
\* to stop.
Aside ==
  /\ UNCHANGED <<conf, packets, left, tstate>> /\ (stopping => stopping')
  /\ \A p \in Perpkts :
       /\ pc'[p] = pc[p] /\ (rbuffer'[p] = rbuffer[p] \/ rbuffer'[p] = <<>>)
       /\ HasStop(p)' <=> HasStop(p)

LEMMA AsideKeeps ==
  ASSUME Types, Room, Aside
  PROVE  /\ Room'
         /\ \/ pc[main] # "cleanup" /\ (started => started')
            \/ \A p \in Perpkts : pc[p] \in {"none", "paused", "post", "exit"}
            => \A p \in Perpkts : Own(p) => Own(p)'
<1>1. /\ Mode' = Mode /\ RingSize' = RingSize /\ Burst' = Burst /\ Tracetime' = Tracetime
      /\ Live' = Live /\ Failures' = Failures /\ (ReadsWork' <=> ReadsWork)
  BY ConfKept, Zenon DEF Aside, ReadsWork
<1>2. RingSize \in Nat \ {0}
  BY TraceAssumption, Zenon DEF Types, RingSize
<1>3. Len(<<>>) <= RingSize
  BY <1>2
<1>4. Room'
  <2> SUFFICES ASSUME NEW p \in Perpkts
               PROVE  Fits(p)'
    BY Zenon DEF Room
  <2>1. packets'[p] = packets[p] /\ pc'[p] = pc[p] /\ (rbuffer'[p] = rbuffer[p] \/ rbuffer'[p] = <<>>)
    BY Zenon DEF Aside
  <2>2. Fits(p)
    BY Zenon DEF Room
  <2> QED  BY <1>1, <1>3, <2>1, <2>2, Zenon DEF Fits
<1>5. ASSUME NEW p \in Perpkts, Own(p),
             \/ pc[main] # "cleanup" /\ (started => started')
             \/ pc[p] \in {"none", "paused", "post", "exit"}
      PROVE  Own(p)'
  <2>1. /\ packets'[p] = packets[p] /\ pc'[p] = pc[p] /\ (rbuffer'[p] = rbuffer[p] \/ rbuffer'[p] = <<>>)
        /\ (HasStop(p)' <=> HasStop(p)) /\ left' = left /\ (stopping => stopping')
    BY Zenon DEF Aside
  <2> QED  BY <1>1, <1>5, <2>1, Zenon DEF Own
<1> QED  BY <1>4, <1>5, Zenon

LEMMA AsideStarted ==
  ASSUME Aside, Started, started' = started, state' = state,
         pc[main] \notin {"cleanup", "end", "setpaused"}, pc'[main] # "setfinishing"
  PROVE  Started'
<1>1. (ReadsWork' <=> ReadsWork) /\ (AllDone' <=> AllDone) /\ (Still' <=> Still)
  BY ConfKept, Zenon DEF Aside, ReadsWork, AllDone, Still
<1>2. \A p \in Perpkts : pc'[p] = pc[p] /\ (HasStop(p)' <=> HasStop(p))
  BY Zenon DEF Aside
<1> QED  BY <1>1, <1>2, Zenon DEF Started

LEMMA CleanKept ==
  ASSUME Clean, UNCHANGED <<conf, lost, failed>>
  PROVE  Clean'
BY ConfKept, Zenon DEF Clean, ReadsWork

\* Messages that ask nobody to stop.
LEMMA SentHas ==
  ASSUME Types, Queues, NEW t, NEW m \in Messages, Send(t, m), m # "DO_STOP" \/ t \notin Perpkts, UNCHANGED conf
  PROVE  \A p \in Perpkts : HasStop(p)' <=> HasStop(p)
<1> TAKE p \in Perpkts
<1>1. p \in Workers /\ messages \in [Workers -> Seq(Messages)]
  BY Who, Zenon DEF Queues
<1>2. messages'[p] = IF p = t THEN Append(messages[p], m) ELSE messages[p]
  BY <1>1, Zenon DEF Send
<1>3. \A x : Has(Append(messages[p], m), x) <=> Has(messages[p], x) \/ x = m
  <2>1. messages[p] \in Seq(Messages)
    BY <1>1, Zenon
  <2> QED  BY <2>1, AppendHas, Zenon
<1> QED  BY <1>2, <1>3, Zenon DEF HasStop

LEMMA QuietStop ==
  ASSUME UNCHANGED messages
  PROVE  \A p \in Perpkts : HasStop(p)' <=> HasStop(p)
BY Zenon DEF HasStop

LEMMA AsideAlone ==
  ASSUME Types, Room, Alone, Aside, started' = started, state' = state,
         pc[main] \notin {"cleanup", "end", "setpaused"}, pc'[main] # "setfinishing",
         Mode # "hasher" => pc'[main] \notin {"askhasher", "waithasher", "nudge"},
         Mode # "hasher" /\ Clean => Clean'
  PROVE  Room' /\ Alone'
<1>1. Room' /\ \A p \in Perpkts : Own(p) => Own(p)'
  BY AsideKeeps, Zenon
<1>2. Started => Started'
  BY AsideStarted, Zenon
<1>3. Mode' = Mode
  BY ConfKept, Zenon DEF Aside
<1> QED  BY <1>1, <1>2, <1>3, Zenon DEF Alone

\* The messages and the waits of trace_ppause.
LEMMA AskingAlone ==
  ASSUME Types, Queues, Room, Control, Alone, UNCHANGED conf,
         AskHasher \/ WaitHasher \/ AskPerpkt \/ WaitPerpkts \/ AskReporter \/ WaitReporter
  PROVE  Room' /\ Alone'
<1> USE DEF status, buffers, locals, program, record
<1>0. DOMAIN pc = Threads /\ main \in Threads /\ main \notin Workers /\ Perpkts \subseteq Threads
      /\ main \notin Perpkts /\ hasher \notin Perpkts /\ reporter \notin Perpkts
  BY Who, Zenon DEF Types
<1>1. /\ UNCHANGED <<packets, rbuffer, left, tstate, stopping, started, state, lost, failed>>
      /\ pc[main] \in Asking \cup {"askreporter", "waitreporter"}
      /\ \/ pc' = pc
         \/ \E l \in {"waithasher", "askperpkt", "nudge", "waitperpkts", "askreporter", "waitreporter", "pauseinput"} :
              /\ Goto(main, l)
              /\ l \in {"waithasher", "nudge"} => pc[main] = "askhasher" \/ Mode = "hasher"
  BY Zenon DEF AskHasher, WaitHasher, AskPerpkt, WaitPerpkts, AskReporter, WaitReporter, Ask, Await, Asking
<1>2. \A p \in Perpkts : HasStop(p)' <=> HasStop(p)
  <2>1. UNCHANGED messages \/ \E t : Send(t, "DO_PAUSE")
    BY Zenon DEF AskHasher, WaitHasher, AskPerpkt, WaitPerpkts, AskReporter, WaitReporter, Ask, Await
  <2>2. "DO_PAUSE" \in Messages /\ "DO_PAUSE" # "DO_STOP"
    BY Zenon DEF Messages
  <2> QED  BY <2>1, <2>2, SentHas, QuietStop, Zenon
<1>3. (\A p \in Perpkts : pc'[p] = pc[p])
      /\ (pc'[main] = pc[main] \/ (/\ pc'[main] \notin {"setfinishing", "askhasher"}
                                   /\ pc'[main] \in {"waithasher", "nudge"} => pc[main] = "askhasher" \/ Mode = "hasher"))
  BY <1>0, <1>1, Goes, Zenon
<1>4. Aside
  BY <1>1, <1>2, <1>3, Zenon DEF Aside
<1>5. Mode # "hasher" => pc'[main] \notin {"askhasher", "waithasher", "nudge"}
  BY <1>3, Zenon DEF Alone
<1>6. pc[main] \notin {"cleanup", "end", "setpaused", "setfinishing"}
  BY <1>1, Zenon DEF Asking
<1>7. Clean => Clean'
  BY <1>1, CleanKept, Zenon
<1> QED  BY <1>1, <1>3, <1>4, <1>5, <1>6, <1>7, AsideAlone, Zenon

\* A message packet is written when the ring has room.
LEMMA NudgeAlone ==
  ASSUME Types, Queues, Room, Control, Alone, UNCHANGED conf, Nudge
  PROVE  Room' /\ Alone'
<1> USE DEF status, buffers, locals, program, record
<1>0. DOMAIN pc = Threads /\ main \in Threads /\ Perpkts \subseteq Threads /\ main \notin Perpkts
      /\ Mode' = Mode /\ RingSize' = RingSize /\ Burst' = Burst
  BY Who, ConfKept, Zenon DEF Types
<1>1. RingSize \in Nat \ {0}
  BY TraceAssumption, Zenon DEF Types, RingSize
<1>2. Mode = "hasher" /\ UNCHANGED packets /\ \A p \in Perpkts : pc'[p] = pc[p]
  BY <1>0, Goes, Zenon DEF Nudge, Alone
<1>3. ASSUME NEW p \in Perpkts
      PROVE  Fits(p)'
  <2>1. Fits(p) /\ packets'[p] = packets[p] /\ pc'[p] = pc[p] /\ rbuffer[p] \in Seq(Items)
    BY <1>2, Zenon DEF Room, Queues
  <2>2. \/ rbuffer'[p] = rbuffer[p]
        \/ rbuffer'[p] = Append(rbuffer[p], "MSG") /\ Len(rbuffer[p]) # RingSize
    BY Zenon DEF Nudge, Full, Queues
  <2>3. Len(Append(rbuffer[p], "MSG")) = Len(rbuffer[p]) + 1 /\ Len(rbuffer[p]) \in Nat
    BY <2>1 DEF Items
  <2>4. Len(rbuffer[p]) <= RingSize
    BY <2>1, Zenon DEF Fits
  <2>5. Len(rbuffer'[p]) <= RingSize
    BY <1>1, <2>2, <2>3, <2>4
  <2> QED  BY <1>0, <2>1, <2>5, Zenon DEF Fits
<1> QED  BY <1>0, <1>2, <1>3, Zenon DEF Room, Alone

\* trace_join, up to the keepalive thread.  Without a hasher the rings are empty.
LEMMA JoinAlone ==
  ASSUME Types, Others, Queues, Room, Control, Alone, UNCHANGED conf,
         CallJoin \/ JoinPerpkt \/ JoinHasher \/ JoinReporter
  PROVE  Room' /\ Alone'
<1> USE DEF status, buffers, locals, program, record
<1>0. DOMAIN pc = Threads /\ main \in Threads /\ Perpkts \subseteq Threads /\ main \notin Perpkts
      /\ keepalive \notin Perpkts /\ Mode' = Mode
  BY Who, ConfKept, Zenon DEF Types
<1>1. /\ UNCHANGED <<packets, left, tstate, stopping, started, state>>
      /\ pc[main] \in {"user", "joinperpkt", "joinreporter"}
      /\ pc' = pc \/ \E l \in {"joinperpkt", "joinreporter", "joinkeepalive"} : Goto(main, l)
  BY Zenon DEF CallJoin, JoinPerpkt, JoinHasher, JoinReporter
<1>2. \A p \in Perpkts : HasStop(p)' <=> HasStop(p)
  <2>1. UNCHANGED messages \/ Send(keepalive, "DO_STOP")
    BY Zenon DEF CallJoin, JoinPerpkt, JoinHasher, JoinReporter
  <2>2. "DO_STOP" \in Messages
    BY Zenon DEF Messages
  <2> QED  BY <1>0, <2>1, <2>2, SentHas, QuietStop, Zenon
<1>3. /\ \A p \in Perpkts : pc'[p] = pc[p]
      /\ pc'[main] \in {"user", "joinperpkt", "joinreporter", "joinkeepalive"}
  BY <1>0, <1>1, Goes, Zenon
<1>4. \A p \in Perpkts : rbuffer'[p] = rbuffer[p] \/ rbuffer'[p] = <<>>
  BY Zenon DEF CallJoin, JoinPerpkt, JoinHasher, JoinReporter, Queues
<1>5. Aside
  BY <1>1, <1>2, <1>3, <1>4, Zenon DEF Aside
<1>6. ASSUME Mode # "hasher"
      PROVE  UNCHANGED <<lost, failed>>
  <2>1. \A p \in Perpkts : rbuffer[p] = <<>>
    BY <1>6, Zenon DEF Alone, Own
  <2>2. \A p \in Perpkts : ~HasPacket(rbuffer[p])
    BY <2>1, EmptyHas, Zenon DEF HasPacket, Has
  <2>3. CASE JoinPerpkt
    <3>1. i[main] \in Perpkts
      <4>1. i[main] \in 1 .. N + 1 /\ i[main] <= N /\ N \in Nat
        BY <2>3, TraceAssumption, Zenon DEF JoinPerpkt, Control, Joins
      <4> QED  BY <4>1 DEF Perpkts
    <3>2. tstate[i[main]] = "FINISHED"
      BY <2>3, <3>1, Who, Zenon DEF JoinPerpkt, Control, Matches
    <3>3. lost' = (lost \/ FALSE) /\ failed' = failed
      BY <2>2, <2>3, <3>1, <3>2, Zenon DEF JoinPerpkt, Asserts
    <3> QED  BY <3>3, Zenon DEF Others
  <2>4. CASE JoinHasher
    <3>1. lost' = (lost \/ FALSE) /\ failed' = failed
      BY <1>6, <2>2, <2>4, Zenon DEF JoinHasher, Asserts
    <3> QED  BY <3>1, Zenon DEF Others
  <2>5. CASE JoinReporter
    <3>1. HasReporter => tstate[reporter] = "FINISHED"
      BY <2>5, Who, Zenon DEF JoinReporter, Control, Matches
    <3> QED  BY <2>5, <3>1, Zenon DEF JoinReporter, Asserts
  <2>6. CASE CallJoin
    BY <2>6, Zenon DEF CallJoin
  <2> QED  BY <2>3, <2>4, <2>5, <2>6, Zenon
<1>7. Mode # "hasher" /\ Clean => Clean'
  BY <1>6, CleanKept, Zenon
<1> QED  BY <1>1, <1>3, <1>5, <1>7, AsideAlone, Zenon

\* The steps that change the state, and the input's pause.
LEMMA SettingAlone ==
  ASSUME Types, Queues, Room, Control, Alone, UNCHANGED conf,
         PauseInput \/ SetPaused \/ SetFinishing \/ JoinKeepalive \/ Destroy
  PROVE  Room' /\ Alone'
<1> USE DEF status, buffers, locals, program, record, libtrace_change_state
<1>0. DOMAIN pc = Threads /\ main \in Threads /\ Perpkts \subseteq Threads /\ main \notin Perpkts
      /\ Mode' = Mode /\ Perpkts \subseteq Workers
  BY Who, ConfKept, Zenon DEF Types
<1>1. UNCHANGED <<packets, rbuffer, left, tstate, stopping, messages, lost>>
  BY Zenon DEF PauseInput, SetPaused, SetFinishing, JoinKeepalive, Destroy, SetState
<1>2. \/ /\ PauseInput /\ pc[main] = "pauseinput" /\ pc'[main] = "setpaused" /\ ~started' /\ failed' = failed
      \/ /\ SetPaused /\ pc[main] = "setpaused" /\ pc'[main] \in {"sendstop", "user"}
         /\ state' = "PAUSED" /\ UNCHANGED <<started, failed>>
      \/ /\ SetFinishing /\ pc[main] = "setfinishing" /\ pc'[main] = "user" /\ UNCHANGED <<started, failed>>
      \/ /\ JoinKeepalive /\ pc[main] = "joinkeepalive" /\ pc'[main] = "joined" /\ UNCHANGED <<started, failed>>
      \/ /\ Destroy /\ pc[main] = "joined" /\ pc'[main] = "end" /\ UNCHANGED started
  <2>1. CASE PauseInput
    BY <1>0, <2>1, Goes, Zenon DEF PauseInput
  <2>2. CASE SetPaused
    BY <1>0, <2>2, Goes, Zenon DEF SetPaused, SetState, PauseReturn
  <2>3. CASE SetFinishing
    BY <1>0, <2>3, Goes, Zenon DEF SetFinishing, SetState
  <2>4. CASE JoinKeepalive
    BY <1>0, <2>4, Goes, Zenon DEF JoinKeepalive, SetState
  <2>5. CASE Destroy
    BY <1>0, <2>5, Goes, Zenon DEF Destroy
  <2> QED  BY <2>1, <2>2, <2>3, <2>4, <2>5, Zenon
<1>3. \A p \in Perpkts : pc'[p] = pc[p]
  BY <1>0, Goes, Zenon DEF PauseInput, SetPaused, SetFinishing, JoinKeepalive, Destroy, SetState
<1>4. Aside
  BY <1>1, <1>3, QuietStop, Zenon DEF Aside
<1>5. pc[main] \in {"pauseinput", "setpaused", "setfinishing"} => Still
  BY Zenon DEF Control, Pauses, Closing, Stopping
<1>6. pc[main] \in {"joinkeepalive", "joined"} => \A p \in Perpkts : pc[p] = "exit"
  BY Zenon DEF Control, Joins
<1>7. \A p \in Perpkts : pc[p] \in {"none", "paused", "post", "exit"}
  <2>1. Still => \A p \in Perpkts : tstate[p] \in {"PAUSED", "FINISHED"}
    BY <1>0, Zenon DEF Still, Types, TStates
  <2> QED  BY <1>0, <1>2, <1>5, <1>6, <2>1, Zenon DEF Control, Matches
<1>8. Room' /\ \A p \in Perpkts : Own(p) => Own(p)'
  BY <1>4, <1>7, AsideKeeps, Zenon
<1>9. Mode # "hasher" => Clean'
  <2>1. failed' = failed
    <3>1. CASE Destroy
      <4>1. Free /\ (HasReporter => results = 0)
        BY <1>2, <3>1, Zenon DEF Destroy, Control, Joins, Reported
      <4>2. ~(HasReporter /\ results > 0)
        BY <4>1
      <4> QED  BY <3>1, <4>1, <4>2, Zenon DEF Destroy
    <3> QED  BY <1>2, <3>1, Zenon
  <2> QED  BY <1>1, <2>1, CleanKept, Zenon DEF Alone
<1>10. Mode # "hasher" => Started'
  <2>1. (ReadsWork' <=> ReadsWork) /\ (AllDone' <=> AllDone) /\ (Still' <=> Still)
    BY <1>1, ConfKept, Zenon DEF ReadsWork, AllDone, Still
  <2>2. \A p \in Perpkts : HasStop(p)' <=> HasStop(p)
    BY <1>1, QuietStop, Zenon
  <2>3. pc[main] = "joinkeepalive" => AllDone
    BY <1>0, <1>6, Zenon DEF AllDone, Control, Matches
  <2>4. pc[main] = "setfinishing" => state # "NEW"
    BY Zenon DEF Control, Pauses, Stopping
  <2> QED  BY <1>2, <1>3, <1>5, <2>1, <2>2, <2>3, <2>4, Zenon DEF Alone, Started
<1> QED  BY <1>0, <1>2, <1>8, <1>9, <1>10, Zenon DEF Alone

\* trace_pstop's messages go to threads that have no packets and read none.
LEMMA SendStopAlone ==
  ASSUME Types, Queues, Room, Control, Alone, UNCHANGED conf, SendStop
  PROVE  Room' /\ Alone'
<1> USE DEF status, buffers, locals, program, record, libtrace_change_state
<1>0. DOMAIN pc = Threads /\ main \in Threads /\ Perpkts \subseteq Threads /\ main \notin Perpkts
      /\ Mode' = Mode /\ Perpkts \subseteq Workers /\ (ReadsWork' <=> ReadsWork) /\ Failures' = Failures
      /\ Tracetime' = Tracetime
  BY Who, ConfKept, Zenon DEF Types, ReadsWork
<1>1. /\ UNCHANGED <<packets, rbuffer, left, tstate, stopping, started, state, lost, failed>>
      /\ pc[main] = "sendstop" /\ pc'[main] = "setfinishing" /\ \A p \in Perpkts : pc'[p] = pc[p]
  BY <1>0, Goes, Zenon DEF SendStop
<1>2. \A p \in Perpkts : pc[p] \in {"paused", "post", "exit"} /\ packets[p] = <<>>
  <2>1. \A p \in Perpkts : tstate[p] \in {"PAUSED", "FINISHED"}
    BY <1>0, <1>1, Zenon DEF Control, Pauses, Stopping, Still, Types, TStates
  <2>2. \A p \in Perpkts : pc[p] \in {"paused", "post", "exit"}
    BY <1>0, <2>1, Zenon DEF Control, Matches
  <2> QED  BY <2>2, Zenon DEF Room, Fits
<1>3. stopping
  BY <1>1, Zenon DEF Control, Pauses, Stopping
<1>4. ASSUME NEW p \in Perpkts
      PROVE  HasStop(p)'
  <2>1. messages[p] \in Seq(Messages) /\ p \in Workers
    BY <1>0, Zenon DEF Queues
  <2>2. \/ messages'[p] = messages[p] \o <<"DO_STOP", "DO_STOP">>
        \/ messages'[p] = Append(messages[p], "DO_STOP")
    BY <2>1 DEF SendStop
  <2>3. "DO_STOP" \in Messages
    BY Zenon DEF Messages
  <2>4. Has(Append(messages[p], "DO_STOP"), "DO_STOP")
    BY <2>1, <2>3, AppendHas, Zenon
  <2>5. Has(messages[p] \o <<"DO_STOP", "DO_STOP">>, "DO_STOP")
    <3> DEFINE s == messages[p]
               c == s \o <<"DO_STOP", "DO_STOP">>
    <3>1. s \in Seq(Messages)
      BY <2>1, Zenon
    <3> HIDE DEF s
    <3>2. Len(s) + 1 \in DOMAIN c /\ c[Len(s) + 1] = "DO_STOP"
      BY <3>1
    <3> QED  BY <3>2, Zenon DEF Has, s
  <2> QED  BY <2>2, <2>4, <2>5, Zenon DEF HasStop
<1>5. Room'
  <2>1. RingSize' = RingSize /\ Burst' = Burst
    BY ConfKept, Zenon
  <2> QED  BY <1>0, <1>1, <2>1, Zenon DEF Room, Fits
<1>6. ASSUME NEW p \in Perpkts, Own(p)
      PROVE  Own(p)'
  <2>1. packets'[p] = packets[p] /\ pc'[p] = pc[p] /\ rbuffer'[p] = rbuffer[p] /\ left' = left
        /\ stopping' = stopping /\ started' = started
    BY <1>1, Zenon
  <2>2. Live' = Live
    BY ConfKept, Zenon
  <2> QED  BY <1>0, <1>2, <1>3, <1>6, <2>1, <2>2, Zenon DEF Own, Ending
<1>7. Started'
  BY <1>4, Zenon DEF Started
<1>8. Clean => Clean'
  BY <1>1, CleanKept, Zenon
<1> QED  BY <1>0, <1>1, <1>5, <1>6, <1>7, <1>8, Zenon DEF Alone

\* trace_ppause is called.
LEMMA CallPpauseAlone ==
  ASSUME Types, Queues, Room, Control, Alone, UNCHANGED conf, NEW stop \in BOOLEAN, CallPpause(stop)
  PROVE  Room' /\ Alone'
<1> USE DEF status, buffers, locals, program, record, libtrace_change_state
<1>0. DOMAIN pc = Threads /\ main \in Threads /\ Perpkts \subseteq Threads /\ main \notin Perpkts
      /\ Mode' = Mode /\ Perpkts \subseteq Workers /\ (ReadsWork' <=> ReadsWork) /\ Failures' = Failures
      /\ Tracetime' = Tracetime
  BY Who, ConfKept, Zenon DEF Types, ReadsWork
<1>1. /\ UNCHANGED <<packets, rbuffer, left, tstate, started, messages, lost, failed>>
      /\ pc[main] = "user" /\ ~stopping
  BY Zenon DEF CallPpause
<1>2. \/ state' = state /\ Goto(main, PauseReturn(stop))
      \/ state' = state /\ pc' = pc
      \/ started /\ Goto(main, IF Mode = "hasher" THEN "askhasher" ELSE "askperpkt")
  BY Zenon DEF CallPpause
<1>3. /\ \A p \in Perpkts : pc'[p] = pc[p]
      /\ \/ state' = state /\ pc'[main] \in {"sendstop", "user"}
         \/ started /\ (Mode = "hasher" \/ pc'[main] = "askperpkt")
  BY <1>0, <1>1, <1>2, Goes, Zenon DEF PauseReturn
<1>4. Aside
  BY <1>1, <1>3, QuietStop, Zenon DEF Aside
<1>5. Room' /\ \A p \in Perpkts : Own(p) => Own(p)'
  BY <1>1, <1>4, AsideKeeps, Zenon
<1>6. Clean => Clean'
  BY <1>1, CleanKept, Zenon
<1>7. Started => Started'
  BY <1>0, <1>1, <1>3, <1>4, AsideStarted, Zenon DEF Started
<1> QED  BY <1>0, <1>3, <1>5, <1>6, <1>7, Zenon DEF Alone

\* trace_prestart: the threads that are paused are counted so.
LEMMA RestartAlone ==
  ASSUME Types, Queues, Sized, Room, Control, Alone, UNCHANGED conf, Restart
  PROVE  Room' /\ Alone'
<1> USE DEF status, buffers, locals, program, record, libtrace_change_state
<1>0. DOMAIN pc = Threads /\ main \in Threads /\ Perpkts \subseteq Threads /\ main \notin Perpkts
      /\ Mode' = Mode /\ Perpkts \subseteq Workers /\ (ReadsWork' <=> ReadsWork) /\ Failures' = Failures
      /\ Tracetime' = Tracetime
  BY Who, ConfKept, Zenon DEF Types, ReadsWork
<1>1. /\ UNCHANGED <<packets, rbuffer, left, tstate, stopping, messages, lost, pc>>
      /\ pc[main] = "user" /\ state = "PAUSED" /\ started'
  BY Zenon DEF Restart
<1>2. Aside
  BY <1>1, QuietStop, Zenon DEF Aside
<1>3. Room' /\ \A p \in Perpkts : Own(p) => Own(p)'
  BY <1>1, <1>2, AsideKeeps, Zenon
<1>4. failed' = failed
  <2>1. InState("RUNNING") = {}
    BY <1>1, Zenon DEF InState, Control, Pauses, Still
  <2>2. "RUNNING" \in TStates /\ state \notin {"NEW", "ERROR"} /\ pc[main] # "cleanup"
    BY <1>1, Zenon DEF TStates
  <2>3. perpkt_thread_states["RUNNING"] = 0
    BY <2>1, <2>2, Zenon DEF Control, Counts, Sized
  <2> QED  BY <2>3, Zenon DEF Restart, Asserts
<1>5. Clean => Clean'
  BY <1>1, <1>4, CleanKept, Zenon
<1> QED  BY <1>0, <1>1, <1>3, <1>5, Zenon DEF Alone, Started

\* trace_pstart, and its failure.
LEMMA PstartAlone ==
  ASSUME Types, Queues, Room, Control, Alone, UNCHANGED conf, Pstart \/ PstartFails
  PROVE  Room' /\ Alone'
<1> USE DEF status, buffers, locals, program, record, libtrace_change_state
<1>0. DOMAIN pc = Threads /\ main \in Threads /\ Perpkts \subseteq Threads /\ main \notin Perpkts
      /\ Mode' = Mode /\ Perpkts \subseteq Workers /\ (ReadsWork' <=> ReadsWork) /\ Failures' = Failures
      /\ Tracetime' = Tracetime
  BY Who, ConfKept, Zenon DEF Types, ReadsWork
<1>1. /\ UNCHANGED <<packets, rbuffer, left, stopping, messages, lost, failed>>
      /\ pc[main] = "user" /\ state = "NEW"
      /\ pc'[main] = "cleanup" \/ (pc'[main] = "user" /\ started')
      /\ \A p \in Perpkts : pc'[p] \in {"none", "start"}
  <2>1. CASE Pstart
    BY <1>0, <2>1, Zenon DEF Pstart
  <2>2. CASE PstartFails
    BY <1>0, <2>2, Zenon DEF PstartFails
  <2> QED  BY <2>1, <2>2, Zenon
<1>2. \A p \in Perpkts : pc[p] = "none" /\ packets[p] = <<>>
  <2>1. \A p \in Perpkts : pc[p] = "none"
    BY <1>0, <1>1, Zenon DEF Control, Starts
  <2> QED  BY <2>1, Zenon DEF Room, Fits
<1>3. Room'
  <2>1. RingSize' = RingSize /\ Burst' = Burst
    BY ConfKept, Zenon
  <2> QED  BY <1>0, <1>1, <1>2, <2>1, Zenon DEF Room, Fits
<1>4. ASSUME NEW p \in Perpkts, Own(p)
      PROVE  Own(p)'
  <2>1. packets'[p] = packets[p] /\ rbuffer'[p] = rbuffer[p] /\ messages'[p] = messages[p]
        /\ pc'[p] \in {"none", "start"} /\ pc[p] = "none" /\ packets[p] = <<>>
        /\ (started' \/ pc'[main] = "cleanup")
    BY <1>1, <1>2, Zenon
  <2> QED  BY <1>0, <1>4, <2>1, Zenon DEF Own, HasStop, Ending
<1>5. Started' /\ (Clean => Clean')
  BY <1>1, CleanKept, Zenon DEF Started
<1> QED  BY <1>0, <1>1, <1>3, <1>4, <1>5, Zenon DEF Alone

\* After a start that failed.
LEMMA CleanupAlone ==
  ASSUME Types, Queues, Room, Control, Alone, UNCHANGED conf, Cleanup
  PROVE  Room' /\ Alone'
<1> USE DEF status, buffers, locals, program, record, libtrace_change_state
<1>0. DOMAIN pc = Threads /\ main \in Threads /\ Perpkts \subseteq Threads /\ main \notin Perpkts
      /\ Mode' = Mode /\ Perpkts \subseteq Workers /\ (ReadsWork' <=> ReadsWork) /\ Failures' = Failures
      /\ Tracetime' = Tracetime
  BY Who, ConfKept, Zenon DEF Types, ReadsWork
<1>1. /\ UNCHANGED <<packets, rbuffer, left, tstate, stopping, messages, lost>>
      /\ pc[main] = "cleanup" /\ pc'[main] = "end" /\ \A p \in Perpkts : pc'[p] = pc[p] /\ pc[p] \in {"none", "exit"}
  BY <1>0, Goes, Zenon DEF Cleanup
<1>2. Aside
  BY <1>1, QuietStop, Zenon DEF Aside
<1>3. Room' /\ \A p \in Perpkts : Own(p) => Own(p)'
  BY <1>1, <1>2, AsideKeeps, Zenon
<1>4. Clean => Clean'
  BY <1>0, <1>1, Zenon DEF Clean, Control, Starts
<1>5. Started'
  BY <1>1, Zenon DEF Started
<1> QED  BY <1>0, <1>1, <1>3, <1>4, <1>5, Zenon DEF Alone

LEMMA QuietAlone ==
  ASSUME Room, Alone,
         UNCHANGED <<conf, state, started, tstate, messages, buffers, pc, left, stopping, lost, failed>>
  PROVE  Room' /\ Alone'
<1>1. /\ Mode' = Mode /\ RingSize' = RingSize /\ Burst' = Burst /\ Tracetime' = Tracetime
      /\ Live' = Live /\ Failures' = Failures /\ (ReadsWork' <=> ReadsWork)
  BY ConfKept, Zenon DEF ReadsWork
<1>2. Room'
  BY <1>1, Zenon DEF Room, Fits, buffers
<1>3. \A p \in Perpkts : (HasStop(p)' <=> HasStop(p)) /\ (Own(p) => Own(p)')
  BY <1>1, Zenon DEF Own, HasStop, buffers
<1>4. Started => Started'
  BY <1>1, <1>3, Zenon DEF Started, AllDone, Still
<1>5. Clean => Clean'
  BY CleanKept, Zenon
<1> QED  BY <1>1, <1>2, <1>3, <1>4, <1>5, Zenon DEF Alone

LEMMA InitAlone ==
  ASSUME Init
  PROVE  Queues /\ Room /\ Alone
<1>1. /\ conf \in Configs /\ state = "NEW" /\ lost = FALSE /\ failed = {}
      /\ pc[main] = "user" /\ \A p \in Perpkts : pc[p] = "none" /\ p \in Workers
      /\ \A p \in Perpkts : rbuffer[p] = <<>> /\ packets[p] = <<>> /\ messages[p] = <<>>
  BY Who, Zenon DEF Init
<1>2. Queues
  <2>1. <<>> \in Seq(Messages) /\ <<>> \in Seq(Items)
    OBVIOUS
  <2> QED  BY <2>1, Zenon DEF Init, Queues
<1>3. Len(<<>>) <= RingSize /\ Len(<<>>) <= Burst
  <2>1. RingSize \in Nat \ {0} /\ Burst \in Nat \ {0}
    BY <1>1, TraceAssumption, Zenon DEF RingSize, Burst
  <2> QED  BY <2>1
<1>4. Room
  BY <1>1, <1>3, Zenon DEF Room, Fits
<1>5. \A p \in Perpkts : Own(p)
  BY <1>1, EmptyHas, Zenon DEF Own, HasStop, Ending
<1> QED  BY <1>1, <1>2, <1>4, <1>5, Zenon DEF Alone, Started, Clean

\* Every step.
LEMMA NextAlone ==
  ASSUME Types, Others, Queues, Sized, Room, Control, Alone, [Next]_vars
  PROVE  Room' /\ Alone'
<1>1. CASE MainCall
  BY <1>1, PstartAlone, RestartAlone, CallPpauseAlone, Zenon DEF MainCall
<1>2. CASE Join
  BY <1>2, JoinAlone, Zenon DEF Join
<1>3. CASE MainStep
  BY <1>3, CleanupAlone, AskingAlone, NudgeAlone, SettingAlone, SendStopAlone, JoinAlone, Zenon DEF MainStep
<1>4. CASE \E t \in Workers : WorkerStep(t)
  BY <1>4, WorkerAlone, Zenon
<1>5. CASE (\E t \in Threads : SpuriousWakeup(t)) \/ Ended \/ UNCHANGED vars
  BY <1>5, QuietAlone, Zenon DEF SpuriousWakeup, Ended, vars, record, program, buffers
<1> QED  BY <1>1, <1>2, <1>3, <1>4, <1>5, Zenon DEF Next

-----------------------------------------------------------------------------
(* The theorems                                                              *)

Sets == INSTANCE FiniteSetTheorems

\* Sets!IsFiniteSet and Sets!Cardinality are those of module FiniteSets.
LEMMA SameSets ==
  /\ \A S : Sets!IsFiniteSet(S) <=> IsFiniteSet(S)
  /\ \A S : Sets!Cardinality(S) = Cardinality(S)
BY Zenon DEF IsFiniteSet, Cardinality, Sets!IsFiniteSet, Sets!Cardinality

\* Sets of per-packet threads are finite, and have the sizes the lemmas count on.
LEMMA PerpktsAreSized == Sized
<1>0. N \in Nat \ {0} /\ N \in Int /\ 1 \in Int
  BY TraceAssumption
<1>1. IsFiniteSet(Perpkts) /\ Cardinality(Perpkts) = N
  <2>1. IsFiniteSet(Perpkts) /\ Cardinality(Perpkts) = IF 1 > N THEN 0 ELSE N - 1 + 1
    BY <1>0, SameSets, Sets!FS_Interval, Zenon DEF Perpkts
  <2> QED  BY <1>0, <2>1
<1>2. Cardinality({}) = 0
  BY SameSets, Sets!FS_EmptySet, Zenon
<1>3. ASSUME NEW S \in SUBSET Perpkts
      PROVE  /\ Cardinality(S) \in Nat /\ (Cardinality(S) = 0 => S = {})
             /\ Cardinality(S) = N => S = Perpkts
             /\ \A p \in Perpkts \ S : Cardinality(S \cup {p}) = Cardinality(S) + 1
  <2>1. IsFiniteSet(S) /\ (Cardinality(S) = N => S = Perpkts)
    BY <1>1, SameSets, Sets!FS_Subset, Zenon
  <2>2. Cardinality(S) \in Nat
    BY <2>1, SameSets, Sets!FS_CardinalityType, Zenon
  <2>3. Cardinality(S) = 0 => S = {}
    BY <2>1, SameSets, Sets!FS_EmptySet, Zenon
  <2>4. \A p \in Perpkts \ S : Cardinality(S \cup {p}) = Cardinality(S) + 1
    BY <2>1, SameSets, Sets!FS_AddElement, Zenon
  <2> QED  BY <2>1, <2>2, <2>3, <2>4, Zenon
<1> QED  BY <1>1, <1>2, <1>3, Zenon DEF Sized

\* The inductive invariant.
IInv == Types /\ Others /\ Queues /\ Room /\ Control /\ Alone

LEMMA Invariance == Spec => []("register" \notin Failures => IInv)
<1>1. Init => ("register" \notin Failures => IInv)
  BY PerpktsAreSized, InitControl, InitAlone, Zenon DEF IInv
<1>2. ("register" \notin Failures => IInv) /\ [Next]_vars => ("register" \notin Failures => IInv)'
  <2>1. [Next]_vars => Failures' = Failures
    BY Zenon DEF Next, MainCall, Join, MainStep, WorkerStep, SpuriousWakeup, Ended, vars, Failures
  <2> QED  BY <2>1, PerpktsAreSized, NextControl, NextQueues, NextAlone, Zenon DEF IInv
<1> QED  BY <1>1, <1>2, PTL DEF Spec

\* While the trace is paused its per-packet threads rest.
LEMMA StillQuiet ==
  ASSUME IInv, pc[main] \in {"pauseinput", "setpaused", "sendstop", "setfinishing"} \/ state = "PAUSED"
  PROVE  \A p \in Perpkts : Quiet(p) /\ packets[p] = <<>>
<1>1. \A p \in Perpkts : tstate[p] \in {"PAUSED", "FINISHED"} /\ p \in Workers
  BY Who, Zenon DEF IInv, Control, Pauses, Closing, Stopping, Still, Types, TStates
<1>2. \A p \in Perpkts : pc[p] \in {"paused", "post", "exit"}
  BY <1>1, Zenon DEF IInv, Control, Matches
<1> QED  BY <1>2, Zenon DEF IInv, Room, Fits, Quiet

\* For any number of threads and every configuration in which no format->pregister_thread
\* fails (a thread whose registration failed calls thread_change_state without the lock),
\* perpkt_thread_states counts the per-packet threads in each state; and no batch is
\* larger than burst_size and no ring than hasher_queue_size.
THEOREM CountsAreTrue == Spec => []("register" \notin Failures => StatesCounted)
<1>1. IInv => StatesCounted
  <2> SUFFICES ASSUME IInv
               PROVE  StatesCounted
    BY Zenon
  <2>1. \A s \in Seq(Messages) : \A k \in DOMAIN s : s[k] \in {"DO_PAUSE", "DO_STOP", "POST", "TICK"}
    BY DEF Messages
  <2>2. \A s \in Seq(Items) : \A k \in DOMAIN s : s[k] \in Items
    OBVIOUS
  <2>3. TypeOK
    BY <2>1, <2>2, Zenon DEF IInv, Types, Others, Queues, Room, Fits, TypeOK
  <2> QED  BY <2>3, Zenon DEF IInv, Control, Counts, InState, StatesCounted
<1> QED  BY <1>1, Invariance, PTL

\* For any number of threads, with a hasher or without, and unless a registration fails: from the
\* time trace_ppause pauses the format until the trace is restarted or stopped no
\* per-packet thread reads, and none has a packet.
THEOREM PausedThreadsRest ==
  Spec => []("register" \notin Failures =>
    (pc[main] \in {"pauseinput", "setpaused", "sendstop", "setfinishing"} \/ state = "PAUSED"
       => \A p \in Perpkts : Quiet(p) /\ packets[p] = <<>>))
<1>1. IInv => (pc[main] \in {"pauseinput", "setpaused", "sendstop", "setfinishing"} \/ state = "PAUSED"
                 => \A p \in Perpkts : Quiet(p) /\ packets[p] = <<>>)
  BY StillQuiet, Zenon
<1> QED  BY <1>1, Invariance, PTL

\* Without a hasher that is all trace_ppause promises: a paused trace is quiet.
THEOREM PausesAreQuiet ==
  Spec => []("register" \notin Failures => (Mode # "hasher" => PausedIsQuiet))
<1>1. IInv => (Mode # "hasher" => PausedIsQuiet)
  <2> SUFFICES ASSUME IInv, Mode # "hasher"
               PROVE  PausedIsQuiet
    BY Zenon
  <2>1. \A p \in Perpkts : ~HasPacket(rbuffer[p])
    BY EmptyHas, Zenon DEF IInv, Alone, Own, HasPacket, Has
  <2> QED  BY <2>1, StillQuiet, Zenon DEF PausedIsQuiet
<1> QED  BY <1>1, Invariance, PTL

\* Without a hasher, for any number of threads, perpkt_threads_entry throws no packet
\* away that it has read - unless a read of the format fails while messages may
\* interrupt a batch (tracetime): then the other threads are stopped where they are.
THEOREM NoPacketLost ==
  Spec => []("register" \notin Failures =>
    (Mode # "hasher" /\ (~Tracetime \/ "read" \notin Failures) => NothingLost))
<1>1. IInv => (Mode # "hasher" /\ (~Tracetime \/ "read" \notin Failures) => NothingLost)
  BY Zenon DEF IInv, Alone, Clean, ReadsWork, NothingLost
<1> QED  BY <1>1, Invariance, PTL

\* Without a hasher, and when all threads can be started and registered, no assert of the threads, of
\* trace_prestart, trace_join and trace_destroy fails.
THEOREM NoAssertFails ==
  Spec => []("register" \notin Failures => (Mode # "hasher" /\ "start" \notin Failures => AssertsHold))
<1>1. IInv => (Mode # "hasher" /\ "start" \notin Failures => AssertsHold)
  BY Zenon DEF IInv, Alone, Clean, AssertsHold
<1> QED  BY <1>1, Invariance, PTL

\* Unless a registration fails all per-packet threads have left their loops when the trace
\* says it has finished, and the reporter ends with every result passed on.
THEOREM FinishIsTrue == Spec => []("register" \notin Failures => FinishedIsDone /\ ResultsReported)
<1>1. IInv => FinishedIsDone /\ ResultsReported
  <2> SUFFICES ASSUME IInv
               PROVE  FinishedIsDone /\ ResultsReported
    BY Zenon
  <2>1. FinishedIsDone
    BY Who, Zenon DEF IInv, Control, Starts, Matches, AllDone, FinishedIsDone
  <2>2. ResultsReported
    BY Zenon DEF IInv, Control, Reported, ResultsReported
  <2> QED  BY <2>1, <2>2, Zenon
<1> QED  BY <1>1, Invariance, PTL

\* Without a hasher, moreover, a file that nobody stops has been read to its end.
THEOREM EndComplete == Spec => []("register" \notin Failures => (Mode # "hasher" => EndIsComplete))
<1>1. IInv => (Mode # "hasher" => FileIsRead)
  <2> SUFFICES ASSUME IInv, Mode # "hasher", trace_has_finished, ~Live, ~stopping, Failures = {}
               PROVE  left = 0
    BY Zenon DEF FileIsRead
  <2>1. 1 \in Perpkts
    BY TraceAssumption DEF Perpkts
  <2>2. tstate[1] = "FINISHED" /\ 1 \in Workers
    BY <2>1, Who, Zenon DEF IInv, Control, Starts, AllDone
  <2>3. pc[1] \in Ending
    BY <2>2, Zenon DEF IInv, Control, Matches, Ending
  <2>4. ReadsWork /\ Own(1)
    BY <2>1, Zenon DEF IInv, Alone, ReadsWork
  <2> QED  BY <2>3, <2>4, Zenon DEF Own
<1>2. FinishedIsDone /\ ResultsReported /\ (Mode # "hasher" => FileIsRead) => (Mode # "hasher" => EndIsComplete)
  BY Zenon DEF EndIsComplete
<1> QED  BY <1>1, <1>2, Invariance, FinishIsTrue, PTL

=============================================================================
