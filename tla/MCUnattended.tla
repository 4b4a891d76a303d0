---------------------------- MODULE MCUnattended ----------------------------
(* One job that misses slots, two stock conditions, room for one of them.    *)
EXTENDS Unattended, TLC

CONSTANT j1

EveryTwo == j1 :> 2
=============================================================================
