----------------------------- MODULE Supervision -----------------------------
(***************************************************************************)
(* The two reconcilers supervisor.tick drives over one database: the sweep *)
(* of the mailbox and the recovery of abandoned runs.  They share the      *)
(* clock and lease_tokens, which only grow, and no table, so what either   *)
(* does is a step of that one alone.  Here one of them and its tables move *)
(* and the other's stay where they begin.                                  *)
(***************************************************************************)
EXTENDS Mailbox

CONSTANTS
  Supervisor, Actor, Assignment, ActorOf, LeaseTTL, AttemptTTL,
  ExecutionTime,   \* bound: where the clock stops when runs move
  ExecutionToken,  \* bound: tokens minted when runs move
  NoProcess, NoAssignment

VARIABLES lease, attempt, current, state, sow, receipts, disk, run, sup, moving

Runs == INSTANCE Execution WITH MaxTime <- ExecutionTime, MaxToken <- ExecutionToken

mailboxTables == <<row, copy, claiming>>
runTables == <<lease, attempt, current, state, sow, receipts, disk, run, sup>>
vars == <<now, tok, mailboxTables, runTables, moving>>

Init ==
  /\ moving \in {"MAILBOX", "RUNS"}
  /\ MailboxInit
  /\ Runs!Init

MoveMailbox ==
  /\ moving = "MAILBOX"
  /\ MailboxNext
  /\ UNCHANGED <<moving, runTables>>

MoveRuns ==
  /\ moving = "RUNS"
  /\ Runs!Next
  /\ UNCHANGED <<moving, mailboxTables>>

Next == MoveMailbox \/ MoveRuns

Spec == Init /\ [][Next]_vars

(* A supervisor's part in what moves: a sweep, or a step of a recovery.    *)
Recovers(s) == moving = "RUNS" /\ Runs!Supervise(s) /\ UNCHANGED mailboxTables

Reconciles(s) ==
  \/ moving = "MAILBOX" /\ Sweep /\ UNCHANGED sup
  \/ Recovers(s)

(* The supervisor loop keeps ticking, and from some moment on nothing but  *)
(* its own steps moves it: MailboxFairSpec when the mailbox moves, the     *)
(* FairSpec of Execution when runs move.                                   *)
FairSpec ==
  /\ Spec
  /\ \A s \in Supervisor :
       WF_<<row, sup>>(Reconciles(s)) /\ <>[][Recovers(s)]_(sup[s])

-----------------------------------------------------------------------------
(* Properties *)

(* A RUNNING assignment whose attempt expired does not keep it: its late   *)
(* worker or a supervisor decides it, whatever died meanwhile (Execution). *)
ExpiredRunEnds == Runs!ExpiredRunEnds
=============================================================================
