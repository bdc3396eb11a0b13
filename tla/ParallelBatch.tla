---------------------------- MODULE ParallelBatch ----------------------------
(***************************************************************************)
(* What a fan-out over goroutines with a WaitGroup promises its caller.    *)
(*                                                                         *)
(* A batch of tasks is accepted or refused as a whole.  Every task of an   *)
(* accepted batch settles exactly once, in any order and with one outcome  *)
(* that never changes, and the caller gets its answer only when all have   *)
(* settled.  How many tasks run at a time, and the order in which they     *)
(* settle, are left open.                                                  *)
(***************************************************************************)
CONSTANTS
    Task,       \* everything that could be asked for
    Outcome,    \* the outcomes a task may settle with
    Pending     \* no outcome yet, which is not an outcome

VARIABLES
    phase,      \* idle, running, finished
    batch,      \* the tasks of the accepted batch
    outcome     \* what each task settled with

vars == <<phase, batch, outcome>>

Init ==
    /\ phase = "idle"
    /\ batch = {}
    /\ outcome = [t \in Task |-> Pending]

Refuse ==
    /\ phase = "idle"
    /\ phase' = "finished"
    /\ UNCHANGED <<batch, outcome>>

Accept(tasks) ==
    /\ phase = "idle"
    /\ phase' = "running"
    /\ batch' = tasks
    /\ UNCHANGED outcome

Settle(t, o) ==
    /\ phase = "running"
    /\ t \in batch
    /\ outcome[t] = Pending
    /\ outcome' = [outcome EXCEPT ![t] = o]
    /\ UNCHANGED <<phase, batch>>

Finish ==
    /\ phase = "running"
    /\ \A t \in batch : outcome[t] # Pending
    /\ phase' = "finished"
    /\ UNCHANGED <<batch, outcome>>

Next ==
    \/ Refuse
    \/ \E tasks \in SUBSET Task : Accept(tasks)
    \/ \E t \in Task, o \in Outcome : Settle(t, o)
    \/ Finish

Spec == Init /\ [][Next]_vars
=============================================================================
