---------------------------- MODULE MCGovernance ----------------------------
(* The constants of Governance get their values in the configuration.        *)
EXTENDS Governance, TLC

Interchangeable == Permutations(Worker) \cup Permutations(Reviewer)
=============================================================================
