--------------------------- MODULE ExecutorAbstract ---------------------------
(***************************************************************************)
(* What a SingleThreadExecutor promises its callers (spec.md 4.3 and 6),   *)
(* without the heap, the clock, the condition or the drain counter:        *)
(*                                                                         *)
(*  - schedule_delayed is accepted exactly while the executor is Running;  *)
(*  - stop(sync) chooses StoppedSync only while accepted work remains;     *)
(*  - the worker takes accepted tasks only before it has seen Stopped, and *)
(*    runs each taken task at most once, one at a time, never a cancelled  *)
(*    one, each to completion;                                             *)
(*  - the worker leaves run() only between tasks, after a stop.            *)
(*                                                                         *)
(* It does not promise that a drain finishes the counted tasks, nor that a *)
(* stop made before run() began stays in force: run() entry moves Stopped  *)
(* to Running whatever came before (4.3).                                  *)
(***************************************************************************)
EXTENDS FiniteSets

CONSTANT Tasks

VARIABLES
    status,   \* "Running" | "Stopped" | "StoppedSync" (DrainAndStop)
    fut,      \* t -> the state of t's Future, or "unsched" / "rejected"
    taken,    \* the tasks the worker has taken from the queue
    worker    \* "new" (run() not entered) | "running" | "exited"

avars == <<status, fut, taken, worker>>

Accepted == {t \in Tasks : fut[t] \notin {"unsched", "rejected"}}
Waiting == {t \in Accepted \ taken : fut[t] = "pending"}

Init ==
    /\ status = "Stopped"
    /\ fut = [t \in Tasks |-> "unsched"]
    /\ taken = {}
    /\ worker = "new"

Schedule(t) ==
    /\ fut[t] = "unsched"
    /\ fut' = [fut EXCEPT ![t] = IF status = "Running" THEN "pending"
                                                       ELSE "rejected"]
    /\ UNCHANGED <<status, taken, worker>>

Cancel(t) ==
    /\ fut[t] = "pending"
    /\ fut' = [fut EXCEPT ![t] = "cancelled"]
    /\ UNCHANGED <<status, taken, worker>>

Stop ==
    /\ \/ status' = "Stopped"
       \/ status' = "StoppedSync" /\ Waiting # {}
    /\ UNCHANGED <<fut, taken, worker>>

Begin ==
    /\ worker = "new"
    /\ worker' = "running" /\ status' = "Running"
    /\ UNCHANGED <<fut, taken>>

Take(S) ==
    /\ worker = "running" /\ status # "Stopped"
    /\ S # {} /\ S \subseteq Accepted \ taken
    /\ taken' = taken \cup S
    /\ UNCHANGED <<status, fut, worker>>

Busy == \E t \in Tasks : fut[t] = "running"

Start(t) ==
    /\ t \in taken /\ fut[t] = "pending" /\ ~Busy
    /\ fut' = [fut EXCEPT ![t] = "running"]
    /\ UNCHANGED <<status, taken, worker>>

Complete(t) ==
    /\ fut[t] = "running"
    /\ \E outcome \in {"done", "failed"} : fut' = [fut EXCEPT ![t] = outcome]
    /\ UNCHANGED <<status, taken, worker>>

(* Leaving run(): when Stopped, or at the end of a drain, which sets       *)
(* Stopped.                                                                *)
Exit ==
    /\ worker = "running" /\ ~Busy
    /\ status \in {"Stopped", "StoppedSync"}
    /\ \A t \in taken : fut[t] # "pending"
    /\ status' = "Stopped" /\ worker' = "exited"
    /\ UNCHANGED <<fut, taken>>

Next ==
    \/ \E t \in Tasks : Schedule(t) \/ Cancel(t) \/ Start(t) \/ Complete(t)
    \/ \E S \in SUBSET Tasks : Take(S)
    \/ Stop \/ Begin \/ Exit

(* A taken task runs to completion, and a worker in run() after a stop     *)
(* leaves it.                                                              *)
Spec ==
    /\ Init /\ [][Next]_avars
    /\ WF_avars(\E t \in Tasks : Start(t) \/ Complete(t))
    /\ WF_avars(Exit)

====
