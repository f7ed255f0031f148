\* Liveness of the executor: two schedule_delayed calls with delays {0,1}
\* and priorities {0,1}, a clock up to 2, two stop() calls.
CONSTANTS
    t1 = t1
    t2 = t2
    t3 = t3
    Tasks <- LivenessTasks
    Delays <- MCDelays
    Priorities <- MCPriorities
    MaxTime <- LivenessMaxTime
    MaxStops <- MCMaxStops
    NoTimeout = NoTimeout

SPECIFICATION Spec

INVARIANT TypeOK

PROPERTY QueuedTaskIsPopped
PROPERTY PoppedTaskSettles
PROPERTY StopTakesEffect
PROPERTY ImplementsExecutorAbstract

\* run() waits on the condition for ever once no caller schedules or stops:
\* the executor's idle state, not a deadlock.
CHECK_DEADLOCK FALSE
