----------------------- MODULE MCSingleThreadExecutor -----------------------
(* Instantiations of SingleThreadExecutor for TLC. *)
EXTENDS SingleThreadExecutor

CONSTANTS t1, t2, t3

\* Safety: three schedule_delayed calls, so that a batch of two tasks can
\* be popped while a third is queued, scheduled or cancelled.
SafetyTasks == {t1, t2, t3}
SafetyMaxTime == 1

\* Liveness: two calls and a longer clock, so that a task waits for a
\* later deadline while the other runs.
LivenessTasks == {t1, t2}
LivenessMaxTime == 2

MCDelays == {0, 1}
MCPriorities == {0, 1}
MCMaxStops == 2

=============================================================================
