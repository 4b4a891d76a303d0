----------------------------- MODULE MCRestore ------------------------------
(* Values for the constants of Restore.  Two orders of a penny each under a  *)
(* ceiling of a penny: whatever a restore loses decides what is left.        *)
EXTENDS Restore

CONSTANTS o1, o2

OnePenny == [o \in Order |-> 1]
=============================================================================
