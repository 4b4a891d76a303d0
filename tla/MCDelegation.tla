---------------------------- MODULE MCDelegation ----------------------------
(* The constants of Delegation get their values in the configuration.        *)
EXTENDS Delegation
=============================================================================
