\* Three Host.execute tasks scheduled in one clock tick.
CONSTANTS
    TaskSet <- MCExecutes
    Ordered <- MCOrdered
    MaxTime = 2

SPECIFICATION Spec

INVARIANT NoTaskLost

\* The tasks are a finite set: once all are scheduled and popped and the
\* clock is at its bound, nothing is left to do.
CHECK_DEADLOCK FALSE
