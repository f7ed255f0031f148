\* Four frames for one interface, two per clock tick: equal keys are ordered by their bytes.
CONSTANTS
    TaskSet <- MCFrames
    Ordered <- MCOrdered
    MaxTime = 2

SPECIFICATION Spec

INVARIANT EqualKeysInInsertionOrder

\* The tasks are a finite set: once all are scheduled and popped and the
\* clock is at its bound, nothing is left to do.
CHECK_DEADLOCK FALSE
