---------------------------- MODULE MCSupervision ----------------------------
(* Small instances of Supervision for TLC: one actor and its processes.    *)
EXTENDS Supervision

CONSTANTS actor

(* Every assignment is the one actor's. *)
OneActor == [a \in Assignment |-> actor]
=============================================================================
