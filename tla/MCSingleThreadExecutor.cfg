\* Safety of the executor: three schedule_delayed calls with delays {0,1}
\* and priorities {0,1}, a clock up to 1, two stop() calls.
CONSTANTS
    t1 = t1
    t2 = t2
    t3 = t3
    Tasks <- SafetyTasks
    Delays <- MCDelays
    Priorities <- MCPriorities
    MaxTime <- SafetyMaxTime
    MaxStops <- MCMaxStops
    NoTimeout = NoTimeout

SPECIFICATION Spec

INVARIANT ExecutedInKeyOrder
INVARIANT CancelledNeverRuns
INVARIANT AbruptStopRunsNoQueuedTask

\* run() waits on the condition for ever once no caller schedules or stops:
\* the executor's idle state, not a deadlock.
CHECK_DEADLOCK FALSE
