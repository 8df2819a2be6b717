-------------------------- MODULE MCParallelTrace --------------------------
(* Configurations and programs for which TLC checks ParallelTrace.         *)
EXTENDS ParallelTrace, TLC

\* A file, read by the format, with a reporter that waits for messages.
File == [mode |-> "format", options |-> {"reporter"}, ring_size |-> 2, burst |-> 2,
         input |-> 3, live |-> FALSE, failures |-> {}, calls |-> {"join"},
         settle |-> TRUE, max_pauses |-> 2]
Capture == [File EXCEPT !.live = TRUE, !.calls = {"ppause", "pstop", "join"}]
Hashed(c) == [c EXCEPT !.mode = "hasher"]
WithOptions(c, extra) == [c EXCEPT !.options = @ \cup extra]

SafetyConfigs == {
  \* Pauses at any time, ticks, delays and a filter; and with a reporter.
  [Capture EXCEPT !.options = {"keepalive", "tracetime", "filter"}, !.settle = FALSE],
  [WithOptions(Capture, {"tracetime", "filter"}) EXCEPT !.settle = FALSE],
  \* A hasher whose rings fill up; one packet in two is refused.
  [Hashed(WithOptions(Capture, {"filter"})) EXCEPT !.calls = {"ppause"}],
  \* Count ticks, read one at a time.
  [Hashed(WithOptions(Capture, {"ticks"})) EXCEPT !.calls = {"ppause"}, !.burst = 1, !.max_pauses = 1],
  \* A file to its end: polling, through a hasher with room for all of it.
  WithOptions(File, {"keepalive", "polling"}),
  [Hashed(File) EXCEPT !.ring_size = 5],
  \* Threads that take turns.
  [WithOptions(Capture, {"tracetime"}) EXCEPT !.mode = "fifs"],
  \* Reads that fail, and registrations.
  [WithOptions(Capture, {"polling"}) EXCEPT !.failures = {"read"}, !.max_pauses = 1],
  [WithOptions(Capture, {"polling"}) EXCEPT !.failures = {"register"}] }

LivenessConfigs == {
  [Capture EXCEPT !.max_pauses = 1],
  [Hashed(Capture) EXCEPT !.options = {}, !.burst = 1, !.max_pauses = 1],
  [Hashed(File) EXCEPT !.ring_size = 4, !.input = 2],
  [File EXCEPT !.failures = {"start"}] }

\* The instances of the runs that end in a counterexample.
PauseErrorConfigs == {[File EXCEPT !.calls = {"pstop", "join"}, !.settle = FALSE]}
BroadcastConfigs == {Hashed(File)}
TickBatchConfigs == {[Hashed(WithOptions(File, {"ticks"})) EXCEPT !.ring_size = 3]}
RepauseConfigs == {[Hashed(Capture) EXCEPT !.calls = {"ppause"}, !.settle = FALSE]}
FinishedPausedConfigs == {[File EXCEPT !.calls = {"ppause", "join"}]}
FifsFilterConfigs == {[WithOptions(File, {"filter"}) EXCEPT !.mode = "fifs"]}
HasherStopConfigs == {[Hashed(Capture) EXCEPT !.calls = {"pstop", "join"}]}
PauseAtEofConfigs == {[Hashed(File) EXCEPT !.options = {}, !.ring_size = 6, !.input = 2,
                                           !.calls = {"ppause", "join"}, !.max_pauses = 1]}
StartConfigs == {[Capture EXCEPT !.failures = {"start"}, !.calls = {}]}
RegisterConfigs == {[Capture EXCEPT !.failures = {"register"}]}
\* "This should always be done when the lock is held" (trace_parallel.c:320): no change of
\* perpkt_thread_states overwrites another.
UpdatesKept == ~UpdateLost
LostUpdateConfigs == {[Capture EXCEPT !.options = {}, !.failures = {"register"}]}
=============================================================================
