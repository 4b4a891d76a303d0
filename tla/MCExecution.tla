----------------------------- MODULE MCExecution -----------------------------
(* Small instances of Execution for TLC: one actor, hosted by processes    *)
(* that contend for its assignments.                                       *)
EXTENDS Execution, TLC

CONSTANTS actor

(* Every assignment is the one actor's. *)
OneActor == [a \in Assignment |-> actor]

(* Processes and supervisors are interchangeable in the safety runs. *)
Interchangeable == Permutations(Process) \cup Permutations(Supervisor)
=============================================================================
