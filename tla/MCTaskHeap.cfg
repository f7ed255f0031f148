\* Frames and timer tasks whose comparisons never raise: each pop_tasks_till_timestamp hands out the due tasks sorted and leaves none behind.
CONSTANTS
    TaskSet <- MCDistinct
    Ordered <- MCOrdered
    MaxTime = 2

SPECIFICATION Spec

INVARIANT TypeOK
PROPERTY PopsDueInOrder

\* The tasks are a finite set: once all are scheduled and popped and the
\* clock is at its bound, nothing is left to do.
CHECK_DEADLOCK FALSE
