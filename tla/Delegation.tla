----------------------------- MODULE Delegation -----------------------------
(***************************************************************************)
(* Research work delegated by a parent: store/delegation.py over the queue *)
(* and the ledgers of assistant_work.py.  A parent has at most one child,  *)
(* under a contract that fixes a deadline and a number of model calls.     *)
(* What parent and child call is charged to one day's allowance of the     *)
(* parent's session, in the transaction that precedes the call; a call     *)
(* that is lost stays charged.                                             *)
(*                                                                         *)
(* The parents share a session.  Any number of workers run children; one   *)
(* may die anywhere, and its claim runs out.  A cancelled parent, or the   *)
(* deadline, ends the child's authority at once and the child itself at    *)
(* the next pass of any worker.                                            *)
(*                                                                         *)
(* Abstractions.  A call is estimated at a penny, so that a budget of      *)
(* pence is a number of calls.  The parent's own turn is in Orders: here   *)
(* it only charges the day.  The child's calculation is left out.          *)
(***************************************************************************)
EXTENDS Integers, FiniteSets, FiniteSetsExt

CONSTANTS
    Parent,         \* shop work of one session
    Worker,         \* processes that call delegation.run_once
    CallLimit,      \* model_calls_limit of every contract
    DayLimit,       \* assistant_daily.call_limit
    MaxDay,         \* bound: days
    MaxGeneration,  \* bound: claims of a child
    None

Day == 1..MaxDay

ASSUME DelegationAssumption ==
    /\ IsFiniteSet(Parent) /\ IsFiniteSet(Worker)
    /\ CallLimit \in Nat \ {0} /\ DayLimit \in Nat
    /\ MaxDay \in Nat \ {0} /\ MaxGeneration \in Nat
    /\ None \notin Parent

VARIABLES
    today,
    parent,  \* assistant_work of the parents
    child,   \* assistant_work and assistant_delegations of their children
    daily,   \* assistant_daily.model_calls of the session
    worker,  \* what each process holds in memory
    made     \* made[p], the calls p's child made of the model

vars == <<today, parent, child, daily, worker, made>>

Open == {"READY", "RUNNING", "BLOCKED"}
Idle == [at |-> "IDLE", parent |-> None, generation |-> 0, verdict |-> "BLOCKED"]

Init ==
    /\ today = 1
    /\ parent = [p \in Parent |-> [status |-> "READY", cancelled |-> FALSE, cost |-> 0]]
    /\ child = [p \in Parent |-> [status |-> "NONE", generation |-> 0, live |-> FALSE,
                                  overdue |-> FALSE, calls |-> 0, cost |-> 0]]
    /\ daily = [d \in Day |-> 0]
    /\ worker = [w \in Worker |-> Idle]
    /\ made = [p \in Parent |-> 0]

At(w, place) == worker[w].at = place
Goto(w, record) == worker' = [worker EXCEPT ![w] = record]
Step(w, place) == Goto(w, [worker[w] EXCEPT !.at = place])

IsOpen(p) == child[p].status \in Open

-----------------------------------------------------------------------------
(* Time.                                                                   *)

Midnight ==
    /\ today < MaxDay
    /\ today' = today + 1
    /\ UNCHANGED <<parent, child, daily, worker, made>>

DeadlinePasses(p) ==
    /\ child[p].status # "NONE" /\ ~child[p].overdue
    /\ child' = [child EXCEPT ![p].overdue = TRUE]
    /\ UNCHANGED <<today, parent, daily, worker, made>>

ClaimRunsOut(p) ==
    /\ child[p].live
    /\ child' = [child EXCEPT ![p].live = FALSE]
    /\ UNCHANGED <<today, parent, daily, worker, made>>

-----------------------------------------------------------------------------
(* The parent and its operator.                                            *)

\* The parent is claimed, finished and made ready again, as in Orders.
ParentMoves(p) ==
    /\ parent[p].status \in {"READY", "BLOCKED"}
    /\ parent' = [parent EXCEPT ![p].status = IF @ = "READY" THEN "RUNNING" ELSE "READY"]
    /\ UNCHANGED <<today, child, daily, worker, made>>

ParentFinishes(p) ==
    \E status \in {"DONE", "BLOCKED"} :
        /\ parent[p].status = "RUNNING"
        /\ parent' = [parent EXCEPT ![p].status = status]
        /\ UNCHANGED <<today, child, daily, worker, made>>

\* reserve_model_call() of shop work.
ParentReserves(p) ==
    /\ parent[p].status = "RUNNING"
    /\ daily[today] < DayLimit
    /\ daily' = [daily EXCEPT ![today] = @ + 1]
    /\ parent' = [parent EXCEPT ![p].cost = @ + 1]
    /\ UNCHANGED <<today, child, worker, made>>

\* delegate(): the key of assistant_delegations admits one child; asking again
\* with the same contract changes nothing.
Delegate(p) ==
    /\ ~parent[p].cancelled
    /\ child[p].status = "NONE"
    /\ child' = [child EXCEPT ![p].status = "READY"]
    /\ UNCHANGED <<today, parent, daily, worker, made>>

\* cancel(): a parent that is DONE keeps its result, but its child is stopped.
Cancel(p) ==
    /\ \/ parent[p].status \in Open
       \/ parent[p].status = "DONE" /\ ~parent[p].cancelled /\ IsOpen(p)
    /\ parent' = [parent EXCEPT
                    ![p].status = IF @ = "DONE" THEN @ ELSE "CANCELLED",
                    ![p].cancelled = TRUE]
    /\ UNCHANGED <<today, child, daily, worker, made>>

CancelChild(p) ==
    /\ IsOpen(p)
    /\ child' = [child EXCEPT ![p].status = "CANCELLED", ![p].generation = @ + 1,
                              ![p].live = FALSE]
    /\ UNCHANGED <<today, parent, daily, worker, made>>

-----------------------------------------------------------------------------
(* run_once()                                                              *)

\* assert_current() for the claim that w holds.
Current(w) ==
    LET p == worker[w].parent
    IN  /\ child[p].status = "RUNNING" /\ child[p].live
        /\ child[p].generation = worker[w].generation
        /\ ~child[p].overdue /\ ~parent[p].cancelled

\* Bug: a cancelled parent is left to the deadline.
ExpiredOverdue ==
    [p \in Parent |->
        IF IsOpen(p) /\ child[p].overdue
        THEN [child[p] EXCEPT !.status = "CANCELLED", !.generation = @ + 1, !.live = FALSE]
        ELSE child[p]]

\* expire()
Expired ==
    [p \in Parent |->
        IF IsOpen(p) /\ (child[p].overdue \/ parent[p].cancelled)
        THEN [child[p] EXCEPT !.status = "CANCELLED", !.generation = @ + 1, !.live = FALSE]
        ELSE child[p]]

Begin(w) ==
    /\ At(w, "IDLE")
    /\ child' = Expired
    /\ Step(w, "CLAIM")
    /\ UNCHANGED <<today, parent, daily, made>>

Claim(w, p) ==
    /\ At(w, "CLAIM")
    /\ \/ child[p].status = "READY"
       \/ child[p].status = "RUNNING" /\ ~child[p].live
    /\ child[p].generation < MaxGeneration
    /\ child' = [child EXCEPT ![p].status = "RUNNING", ![p].live = TRUE,
                              ![p].generation = @ + 1]
    /\ Goto(w, [Idle EXCEPT !.at = "LOOP", !.parent = p,
                            !.generation = child[p].generation + 1])
    /\ UNCHANGED <<today, parent, daily, made>>

\* Nothing to claim, or asked to stop.
Leave(w) ==
    /\ At(w, "CLAIM")
    /\ Goto(w, Idle)
    /\ UNCHANGED <<today, parent, child, daily, made>>

\* Bug: calls are counted when they were made, not when they were reserved.
WithinCallsMade(w) == made[worker[w].parent] < CallLimit

WithinContract(w) == child[worker[w].parent].calls < CallLimit
WithinDay == daily[today] < DayLimit

Charged(p) == [child EXCEPT ![p].calls = @ + 1, ![p].cost = @ + 1]

\* Bug: the contract is charged in a transaction of its own, before the day.
ReserveRefusedHalfway(w) ==
    /\ At(w, "LOOP")
    /\ ~(Current(w) /\ WithinContract(w) /\ WithinDay)
    /\ child' = IF Current(w) /\ WithinContract(w)
                THEN [child EXCEPT ![worker[w].parent].calls = @ + 1] ELSE child
    /\ Step(w, "STOP")
    /\ UNCHANGED <<today, parent, daily, made>>

\* reserve_model_call() of research work: contract, row and day in one.
Reserve(w) ==
    /\ At(w, "LOOP")
    /\ Current(w) /\ WithinContract(w) /\ WithinDay
    /\ child' = Charged(worker[w].parent)
    /\ daily' = [daily EXCEPT ![today] = @ + 1]
    /\ Step(w, "CALL")
    /\ UNCHANGED <<today, parent, made>>

ReserveRefused(w) ==
    /\ At(w, "LOOP")
    /\ ~(Current(w) /\ WithinContract(w) /\ WithinDay)
    /\ Step(w, "STOP")
    /\ UNCHANGED <<today, parent, child, daily, made>>

\* The call, some time after its reservation.
Call(w) ==
    /\ At(w, "CALL")
    /\ made' = [made EXCEPT ![worker[w].parent] = @ + 1]
    /\ Step(w, "REPLY")
    /\ UNCHANGED <<today, parent, child, daily>>

\* The reply is recorded, tools run, and the loop goes round or has its quote.
Observe(w) ==
    /\ At(w, "REPLY")
    /\ IF Current(w)
       THEN \/ Step(w, "LOOP")
            \/ Goto(w, [worker[w] EXCEPT !.at = "FINISH", !.verdict = "DONE"])
       ELSE Step(w, "STOP")
    /\ UNCHANGED <<today, parent, child, daily, made>>

\* A limit of the loop, a failed call or a useless reply blocks the work; a stop
\* of the process gives it back.
GiveUp(w) ==
    \E verdict \in {"BLOCKED", "READY"} :
        /\ worker[w].at \in {"LOOP", "REPLY"}
        /\ Goto(w, [worker[w] EXCEPT !.at = "FINISH", !.verdict = verdict])
        /\ UNCHANGED <<today, parent, child, daily, made>>

\* finish(), or the release of a stopped run.
Conclude(w) ==
    LET p == worker[w].parent
    IN  /\ At(w, "FINISH")
        /\ IF Current(w)
           THEN /\ child' = [child EXCEPT ![p].status = worker[w].verdict,
                                          ![p].live = FALSE]
                /\ Goto(w, Idle)
           ELSE /\ UNCHANGED child
                /\ Step(w, "STOP")
        /\ UNCHANGED <<today, parent, daily, made>>

\* except PermissionError: expire() again ...
Stop(w) ==
    /\ At(w, "STOP")
    /\ child' = Expired
    /\ Step(w, "YIELD")
    /\ UNCHANGED <<today, parent, daily, made>>

\* Bug: the work is blocked whoever holds it by now.
YieldAnyClaim(w) ==
    LET p == worker[w].parent
    IN  /\ At(w, "YIELD")
        /\ child' = IF child[p].status = "RUNNING"
                    THEN [child EXCEPT ![p].status = "BLOCKED", ![p].live = FALSE]
                    ELSE child
        /\ Goto(w, Idle)
        /\ UNCHANGED <<today, parent, daily, made>>

\* ... and finish() BLOCKED, if the claim is still this worker's.
Yield(w) ==
    LET p == worker[w].parent
    IN  /\ At(w, "YIELD")
        /\ child' = IF Current(w)
                    THEN [child EXCEPT ![p].status = "BLOCKED", ![p].live = FALSE]
                    ELSE child
        /\ Goto(w, Idle)
        /\ UNCHANGED <<today, parent, daily, made>>

Crash(w) ==
    /\ ~At(w, "IDLE")
    /\ Goto(w, Idle)
    /\ UNCHANGED <<today, parent, child, daily, made>>

-----------------------------------------------------------------------------

Ask(p) ==
    \/ ParentMoves(p) \/ ParentFinishes(p) \/ ParentReserves(p)
    \/ Delegate(p) \/ Cancel(p) \/ CancelChild(p)

Work(w) ==
    \/ Begin(w) \/ (\E p \in Parent : Claim(w, p)) \/ Leave(w)
    \/ Reserve(w) \/ ReserveRefused(w) \/ Call(w) \/ Observe(w)
    \/ GiveUp(w) \/ Conclude(w) \/ Stop(w) \/ Yield(w)

Next ==
    \/ Midnight
    \/ \E p \in Parent : DeadlinePasses(p) \/ ClaimRunsOut(p) \/ Ask(p)
    \/ \E w \in Worker : Work(w) \/ Crash(w)

Spec == Init /\ [][Next]_vars

\* The serve loop calls run_once again and again, whatever became of the last
\* one; a pass does not hang (calls have timeouts).
FairSpec == Spec /\ \A w \in Worker : SF_vars(Begin(w)) /\ WF_vars(Work(w))

-----------------------------------------------------------------------------
(* Properties.                                                             *)

TypeOK ==
    /\ today \in Day
    /\ parent \in [Parent -> [status : Open \cup {"DONE", "CANCELLED"},
                              cancelled : BOOLEAN, cost : Nat]]
    /\ child \in [Parent -> [status : Open \cup {"NONE", "DONE", "CANCELLED"},
                             generation : Nat, live : BOOLEAN, overdue : BOOLEAN,
                             calls : Nat, cost : Nat]]
    /\ daily \in [Day -> Nat]
    /\ worker \in [Worker -> [at : {"IDLE", "CLAIM", "LOOP", "CALL", "REPLY", "FINISH",
                                    "STOP", "YIELD"},
                              parent : Parent \cup {None}, generation : Nat,
                              verdict : {"DONE", "BLOCKED", "READY"}]]
    /\ made \in [Parent -> Nat]

\* Every call a child ever made was charged to its contract first, through
\* crashes, takeovers and lost answers, and contracts and days stay in bounds.
CallsStayInBounds ==
    /\ \A p \in Parent : made[p] <= child[p].calls /\ child[p].calls <= CallLimit
    /\ \A d \in Day : daily[d] <= DayLimit

\* The three ledgers of a call never part: contracts agree with the work they
\* are for, and the session's days with what parents and children were charged.
LedgersAgree ==
    /\ \A p \in Parent : child[p].calls = child[p].cost
    /\ SumFunctionOnSet(daily, Day)
         = SumFunctionOnSet([p \in Parent |-> parent[p].cost + child[p].cost], Parent)

\* A running child is given back, blocked or done by the worker of its present
\* claim only, while its parent stands and its time lasts ("A stale worker must
\* never finish or cancel a replacement's claim", delegation.py).
HolderConcludes ==
    [][\A p \in Parent :
          (child[p].status = "RUNNING" /\ child'[p].status \in {"READY", "BLOCKED", "DONE"})
          => /\ ~parent[p].cancelled /\ ~child[p].overdue
             /\ \E w \in Worker : /\ worker[w].parent = p
                                  /\ worker[w].generation = child[p].generation
                                  /\ worker'[w] # worker[w]]_vars

\* Once its parent is cancelled or its deadline is over a child is closed, also
\* one that nobody ever claimed or that a dead worker holds.
ForsakenChildIsClosed ==
    \A p \in Parent :
        (IsOpen(p) /\ (parent[p].cancelled \/ child[p].overdue)) ~> ~IsOpen(p)
=============================================================================
