----------------------------- MODULE MCTaskHeap -----------------------------
(* Instances of TaskHeap: frames for NetIf.input_data, whose bytearray     *)
(* args compare, and Host.execute actions, whose lambdas do not.           *)
EXTENDS TaskHeap

\* Four frames handed to one interface: abs_time 0 or 1, priority TOP_PRIO.
\* Two share abs_time 0 with the larger byte string first by id.
MCFrames == {[id |-> 1, t |-> 0, p |-> 0, act |-> "input_data", arg |-> 2],
             [id |-> 2, t |-> 0, p |-> 0, act |-> "input_data", arg |-> 1],
             [id |-> 3, t |-> 1, p |-> 0, act |-> "input_data", arg |-> 3],
             [id |-> 4, t |-> 1, p |-> 0, act |-> "input_data", arg |-> 0]}

\* Frames and timer tasks at distinct times or with distinct bytes, and a
\* task of lower priority: no comparison reaches an incomparable field.
MCDistinct == {[id |-> 1, t |-> 0, p |-> 0, act |-> "input_data", arg |-> 2],
               [id |-> 2, t |-> 0, p |-> 0, act |-> "input_data", arg |-> 1],
               [id |-> 3, t |-> 1, p |-> 0, act |-> "input_data", arg |-> 0],
               [id |-> 4, t |-> 0, p |-> 1, act |-> "execute", arg |-> 0],
               [id |-> 5, t |-> 2, p |-> 0, act |-> "execute", arg |-> 0]}

\* Three Host.execute tasks scheduled in one clock tick (the lambdas of
\* the app), each a different function.
MCExecutes == {[id |-> i, t |-> 0, p |-> 0, act |-> "execute" \o ToString(i),
                arg |-> 0] : i \in 1..3}

MCOrdered == {"input_data"}
====
