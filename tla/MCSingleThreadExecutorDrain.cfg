\* stop(sync=True) against tasks popped before it: two schedule_delayed
\* calls, delays {0,1}, priorities {0,1}, clock up to 2, two stop() calls.
CONSTANTS
    t1 = t1
    t2 = t2
    t3 = t3
    Tasks <- LivenessTasks
    Delays <- MCDelays
    Priorities <- MCPriorities
    MaxTime <- LivenessMaxTime
    MaxStops <- MCMaxStops
    NoTimeout = NoTimeout

SPECIFICATION Spec

INVARIANT DrainFinishesQueuedTasks


\* run() waits on the condition for ever once no caller schedules or stops:
\* the executor's idle state, not a deadlock.
CHECK_DEADLOCK FALSE
