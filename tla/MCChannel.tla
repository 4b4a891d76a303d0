----------------------------- MODULE MCChannel ------------------------------
(* The constants of Channel get their values in the configuration: two       *)
(* messages under room for one piece of work, so that the second is turned   *)
(* away, and its author has left the list of operators by then.              *)
EXTENDS Channel
=============================================================================
