---------------------------- MODULE AttemptFence ----------------------------
(***************************************************************************)
(* What the execution fence of a governed assignment promises, with no     *)
(* process, clock, lease or receipt in sight: tokens are issued in         *)
(* increasing order, only the token that holds an assignment may decide    *)
(* it, and deciding gives the assignment up, so a token decides at most    *)
(* once and a superseded token never does.                                 *)
(*                                                                         *)
(* Execution implements this module (Execution!FenceSpec).                 *)
(***************************************************************************)
EXTENDS Naturals

CONSTANTS
  Assignment,
  Token        \* positive numbers

VARIABLES
  issued,   \* the tokens issued for each assignment
  holder,   \* the token that holds each assignment, 0 when none does
  decided   \* the tokens that decided the fate of their assignment

vars == <<issued, holder, decided>>

-----------------------------------------------------------------------------

Init ==
  /\ issued = [a \in Assignment |-> {}]
  /\ holder = [a \in Assignment |-> 0]
  /\ decided = {}

(* A token newer than every token of any assignment takes the assignment. *)
Issue(a, t) ==
  /\ \A b \in Assignment : \A u \in issued[b] : u < t
  /\ issued' = [issued EXCEPT ![a] = @ \cup {t}]
  /\ holder' = [holder EXCEPT ![a] = t]
  /\ UNCHANGED decided

(* The holder, and nobody else, decides and lets go in one step. *)
Decide(a) ==
  /\ holder[a] # 0
  /\ decided' = decided \cup {holder[a]}
  /\ holder' = [holder EXCEPT ![a] = 0]
  /\ UNCHANGED issued

Next == \E a \in Assignment : Decide(a) \/ \E t \in Token : Issue(a, t)

Spec == Init /\ [][Next]_vars
=============================================================================
