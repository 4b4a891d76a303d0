----------------------------- MODULE Governance -----------------------------
(***************************************************************************)
(* One outcome and the work done for it: organization.py from create_sow   *)
(* to accept, with the store's shelf it is about and the pulse that turns  *)
(* sales into work.  Every method opens transactions of its own: verify,   *)
(* review, accept and activate read in some and write in a later one, and  *)
(* what they save is the record they read.  So it is with a run: a worker  *)
(* reads the assignment, then the SOW, takes an attempt, and then saves    *)
(* both as RUNNING in a transaction that asks for nothing.                 *)
(*                                                                         *)
(* An actor is one process at a time                                       *)
(* (docs/rulings/2026-08-26-one-process-per-actor.md), so a reviewer has   *)
(* one review in hand.  There may be several reviewers.                    *)
(*                                                                         *)
(* Abstractions.  The outcome declares one check, that the shelf is at or  *)
(* above its reorder point, and the digest of what the check saw is the    *)
(* stock.  Of the verifications of a work only the last is ever read: it   *)
(* is a field of the work.  A lease and an attempt may have run out        *)
(* whenever they are asked for, so what they refuse while they live is     *)
(* left to Execution, and so are receipts and the provider.  An attempt is *)
(* named by the worker that made it.  BLOCKED and FAILED work has no way   *)
(* on: both are ENDED.                                                     *)
(***************************************************************************)
EXTENDS Integers, Sequences, FiniteSetsExt

CONSTANTS
    Manual,     \* works the planner creates
    Effectful,  \* those that must replenish
    Signal,     \* sales, each with its signal; a pulse's work is named by it
    Operator,   \* the actor that pulses assign to, and that may replenish
    Reviewer,   \* actors with the role Sparring
    Principal,  \* the actor that accepts
    Assignee,   \* actors the planner assigns to
    Verifier,   \* actors that run checks
    Worker,     \* calls of run_assignment, each in a process of its own
    Reorder,    \* reorder point
    MaxStock,   \* bound: the money there is for stock
    MaxRuns,    \* bound: assignments, of all works
    MaxBatch,   \* bound: verifications, of all works
    MaxBusy,    \* bound: processes that are in the middle of a method
    None

Work == Manual \cup Signal

ASSUME GovernanceAssumption ==
    /\ Manual \cap Signal = {} /\ Effectful \subseteq Manual
    /\ Principal \notin Reviewer \cup {Operator} /\ Operator \notin Reviewer
    /\ Assignee \subseteq Reviewer \cup {Operator, Principal}
    /\ Reorder \in Nat /\ MaxStock \in Nat /\ MaxRuns \in Nat /\ MaxBatch \in Nat
    /\ MaxBusy \in Nat
    /\ None \notin Work \cup Reviewer \cup Worker

VARIABLES
    stock,
    sold,        \* signals of the sales so far
    outcome,     \* state of the outcome
    observation, \* its own last verification
    sow,         \* works, their assignments and last verification
    reviews,     \* the reviews of all verifications
    acceptance,  \* the works that the acceptance rests on
    worker, supervisor, planner, verifier, reviewer, accepter  \* what each process holds

ledger == <<stock, sold, outcome, observation, sow, reviews, acceptance>>
running == <<worker, supervisor>>
governing == <<planner, verifier, reviewer, accepter>>
vars == <<ledger, running, governing>>

NoBatch == [n |-> 0, run |-> 0, passed |-> FALSE]
NoWork == [state |-> "NONE", runs |-> <<>>, batch |-> NoBatch]
Working == [at |-> "IDLE", sow |-> None, run |-> 0, attempt |-> None]
Gone == [Working EXCEPT !.at = "GONE"]
Checking == [at |-> "IDLE", sow |-> None, run |-> 0, outcome |-> "ACTIVE", stock |-> 0]
Reviewing == [at |-> "IDLE", sow |-> None, batch |-> NoBatch]
Accepting == [at |-> "IDLE", sows |-> {}, stock |-> 0]

Init ==
    /\ stock = Reorder /\ sold = {}
    /\ outcome = "PROPOSED"
    /\ observation = [made |-> FALSE, passed |-> FALSE, stock |-> 0]
    /\ sow = [s \in Work |-> NoWork]
    /\ reviews = {}
    /\ acceptance = None
    /\ worker = [w \in Worker |-> Working]
    /\ supervisor = Working
    /\ planner = "IDLE"
    /\ verifier = [v \in Verifier |-> Checking]
    /\ reviewer = [r \in Reviewer |-> Reviewing]
    /\ accepter = Accepting

-----------------------------------------------------------------------------
(* What the methods ask of the ledger.                                     *)

Exists(s) == sow[s].state # "NONE"
Runs(s) == DOMAIN sow[s].runs

\* completed_assignment_for_sow(); 0 for none.
CompletedRun(s) ==
    Max({0} \cup {i \in Runs(s) : sow[s].runs[i].state = "COMPLETED"})

Performers(s) == {sow[s].runs[i].actor : i \in Runs(s)}
AllPerformers == UNION {Performers(s) : s \in Work}

Passes(units) == units >= Reorder

AllRuns == MapThenSumSet(LAMBDA s : Len(sow[s].runs), Work)

NewRun(actor) == [actor |-> actor, state |-> "CREATED", effect |-> FALSE, fence |-> None]

\* MaxBusy bounds the processes that are between two transactions at a time; none
\* of the code's conditions does.
Busy(P) == Cardinality({p \in DOMAIN P : P[p].at \notin {"IDLE", "GONE"}})

MayBegin ==
    Busy(worker) + Busy(verifier) + Busy(reviewer)
        + Busy(<<[at |-> planner], supervisor, accepter>>) < MaxBusy

-----------------------------------------------------------------------------
(* The shelf.                                                              *)

\* record_sale()
Sale(g) ==
    /\ g \notin sold /\ stock > 0
    /\ stock' = stock - 1
    /\ sold' = sold \cup {g}
    /\ UNCHANGED <<outcome, observation, sow, reviews, acceptance, running, governing>>

\* apply_restock(), once for an assignment.
Restock(s, i) ==
    /\ sow[s].runs[i].state = "COMPLETED" /\ sow[s].runs[i].actor = Operator
    /\ ~sow[s].runs[i].effect
    /\ stock < MaxStock
    /\ stock' = stock + 1
    /\ sow' = [sow EXCEPT ![s].runs[i].effect = TRUE]
    /\ UNCHANGED <<sold, outcome, observation, reviews, acceptance, running, governing>>

-----------------------------------------------------------------------------
(* The planner, and the work.                                              *)

ActivateRead ==
    /\ planner = "IDLE" /\ MayBegin
    /\ outcome \in {"PROPOSED", "VERIFYING"}
    /\ planner' = "ACTIVATE"
    /\ UNCHANGED <<ledger, running, verifier, reviewer, accepter>>

ActivateSave ==
    /\ planner = "ACTIVATE"
    /\ outcome' = "ACTIVE"
    /\ planner' = "IDLE"
    /\ UNCHANGED <<stock, sold, observation, sow, reviews, acceptance, running,
                   verifier, reviewer, accepter>>

PlannerWrites(s, record) ==
    /\ planner = "IDLE"
    /\ sow' = [sow EXCEPT ![s] = record]
    /\ UNCHANGED <<stock, sold, outcome, observation, reviews, acceptance,
                   running, governing>>

Create(s) ==
    /\ ~Exists(s)
    /\ PlannerWrites(s, [NoWork EXCEPT !.state = "DRAFT"])

Ready(s) ==
    /\ sow[s].state = "DRAFT"
    /\ PlannerWrites(s, [sow[s] EXCEPT !.state = "READY"])

Assign(s, actor) ==
    /\ sow[s].state \in {"READY", "CHANGES_REQUESTED"}
    /\ AllRuns < MaxRuns
    /\ PlannerWrites(s, [sow[s] EXCEPT !.state = "ASSIGNED",
                                       !.runs = Append(@, NewRun(actor))])

-----------------------------------------------------------------------------
(* run_assignment(), and the supervisor that ends runs whose worker is lost. *)

WorkerGoes(w, place) == worker' = [worker EXCEPT ![w].at = place]

\* What a run or its recovery writes: the run, and its work with it.
Records(s, i, state, run) == sow' = [sow EXCEPT ![s].state = state, ![s].runs[i] = run]

\* The SOW is read; it is saved two transactions later.  The assignment was read
\* before, at any time: each is CREATED at first, so that its state admitted a run.
Prepare(w, s, i) ==
    /\ worker[w].at = "IDLE" /\ MayBegin
    /\ sow[s].state = "ASSIGNED"
    /\ worker' = [worker EXCEPT ![w] = [Working EXCEPT !.at = "PREPARED", !.sow = s, !.run = i]]
    /\ UNCHANGED <<ledger, supervisor, governing>>

Fence(s, i) == sow[s].runs[i].fence

AcquireAttempt(w) ==
    /\ worker[w].at = "PREPARED"
    /\ sow' = [sow EXCEPT ![worker[w].sow].runs[worker[w].run].fence = w]
    /\ WorkerGoes(w, "ACQUIRED")
    /\ UNCHANGED <<stock, sold, outcome, observation, reviews, acceptance,
                   supervisor, governing>>

\* The attempt handed to the caller is the one that is current after the commit.
ReadBackAttempt(w) ==
    LET fence == Fence(worker[w].sow, worker[w].run)
    IN  /\ worker[w].at = "ACQUIRED"
        /\ worker' = [worker EXCEPT ![w] =
                         IF fence = None THEN Gone
                         ELSE [@ EXCEPT !.at = "HELD", !.attempt = fence]]
        /\ UNCHANGED <<ledger, supervisor, governing>>

SaveRunning(w) ==
    LET s == worker[w].sow
        i == worker[w].run
    IN  /\ worker[w].at = "HELD"
        /\ Records(s, i, "RUNNING", [sow[s].runs[i] EXCEPT !.state = "RUNNING"])
        /\ WorkerGoes(w, "RUN")
        /\ UNCHANGED <<stock, sold, outcome, observation, reviews, acceptance,
                       supervisor, governing>>

\* The terminal write, of the attempt that is current.
RunEnds(w) ==
    LET s == worker[w].sow
        i == worker[w].run
        run == [sow[s].runs[i] EXCEPT !.fence = None]
    IN  /\ worker[w].at = "RUN"
        /\ Fence(s, i) = worker[w].attempt
        /\ \/ Records(s, i, "REVIEW", [run EXCEPT !.state = "COMPLETED"])
           \/ Records(s, i, "ENDED", [run EXCEPT !.state = "ENDED"])
        /\ worker' = [worker EXCEPT ![w] = Gone]
        /\ UNCHANGED <<stock, sold, outcome, observation, reviews, acceptance,
                       supervisor, governing>>

\* Refused, or killed: nothing is undone.
WorkerLeaves(w) ==
    /\ worker[w].at \notin {"IDLE", "GONE"}
    /\ worker' = [worker EXCEPT ![w] = Gone]
    /\ UNCHANGED <<ledger, supervisor, governing>>

\* recover_abandoned_assignments() reads the run and its work ...
RecoverRead(s, i) ==
    /\ supervisor.at = "IDLE" /\ MayBegin
    /\ sow[s].runs[i].state = "RUNNING" /\ Fence(s, i) # None
    /\ sow[s].state \in {"DRAFT", "READY", "ASSIGNED", "RUNNING", "REVIEW"}
    /\ supervisor' = [at |-> "SAVE", sow |-> s, run |-> i, attempt |-> Fence(s, i)]
    /\ UNCHANGED <<ledger, worker, governing>>

\* ... and fails both if the attempt is still the run's.
RecoverSave ==
    LET s == supervisor.sow
        i == supervisor.run
    IN  /\ supervisor.at = "SAVE"
        /\ IF Fence(s, i) = supervisor.attempt
           THEN Records(s, i, "ENDED",
                        [sow[s].runs[i] EXCEPT !.state = "ENDED", !.fence = None])
           ELSE UNCHANGED sow
        /\ supervisor' = Working
        /\ UNCHANGED <<stock, sold, outcome, observation, reviews, acceptance,
                       worker, governing>>

-----------------------------------------------------------------------------
(* verify_sow(), and verify_outcome_condition() for the work None.         *)

VerifyBegin(v, s) ==
    LET run == IF s = None THEN 0 ELSE CompletedRun(s)
    IN  /\ verifier[v].at = "IDLE" /\ MayBegin
        /\ outcome \in {"ACTIVE", "VERIFYING"}
        /\ s # None => /\ run # 0
                        /\ MapThenSumSet(LAMBDA x : sow[x].batch.n, Work) < MaxBatch
        /\ verifier' = [verifier EXCEPT ![v] =
                           [Checking EXCEPT !.at = "CHECK", !.sow = s, !.run = run,
                                            !.outcome = outcome]]
        /\ UNCHANGED <<ledger, running, planner, reviewer, accepter>>

\* The outcome is saved if it was not VERIFYING when it was read; the check runs.
VerifyCheck(v) ==
    /\ verifier[v].at = "CHECK"
    /\ outcome' = IF verifier[v].outcome = "VERIFYING" THEN outcome ELSE "VERIFYING"
    /\ verifier' = [verifier EXCEPT ![v].at = "RECORD", ![v].stock = stock]
    /\ UNCHANGED <<stock, sold, observation, sow, reviews, acceptance, running,
                   planner, reviewer, accepter>>

VerifyRecord(v) ==
    LET s == verifier[v].sow
        passed == Passes(verifier[v].stock)
    IN  /\ verifier[v].at = "RECORD"
        /\ IF s = None
           THEN /\ observation' = [made |-> TRUE, passed |-> passed,
                                   stock |-> verifier[v].stock]
                /\ UNCHANGED sow
           ELSE /\ sow' = [sow EXCEPT ![s].batch =
                              [NoBatch EXCEPT !.n = sow[s].batch.n + 1,
                                              !.run = verifier[v].run, !.passed = passed]]
                /\ UNCHANGED observation
        /\ verifier' = [verifier EXCEPT ![v] = Checking]
        /\ UNCHANGED <<stock, sold, outcome, reviews, acceptance, running,
                       planner, reviewer, accepter>>

-----------------------------------------------------------------------------
(* review()                                                                *)

Decision(batch) == IF batch.passed THEN "accepted" ELSE "changes_requested"

\* Bug: any state of the work admits a decision.
ReviewBeginInAnyState(r, s) ==
    LET batch == sow[s].batch
    IN  /\ reviewer[r].at = "IDLE" /\ MayBegin
        /\ r \notin AllPerformers
        /\ batch.n > 0 /\ batch.run = CompletedRun(s)
        /\ reviewer' = [reviewer EXCEPT ![r] = [at |-> "SAVE", sow |-> s, batch |-> batch]]
        /\ UNCHANGED <<ledger, running, planner, verifier, accepter>>

\* The last verification of the work must be of its present run, and the state of
\* the work admit what it decides.
ReviewBegin(r, s) ==
    LET batch == sow[s].batch
    IN  /\ reviewer[r].at = "IDLE" /\ MayBegin
        /\ r \notin AllPerformers
        /\ batch.n > 0 /\ batch.run = CompletedRun(s)
        /\ \/ sow[s].state = "REVIEW"
           \/ sow[s].state = "CHANGES_REQUESTED" /\ ~batch.passed
        /\ reviewer' = [reviewer EXCEPT ![r] = [at |-> "SAVE", sow |-> s, batch |-> batch]]
        /\ UNCHANGED <<ledger, running, planner, verifier, accepter>>

ReviewSave(r) ==
    LET s == reviewer[r].sow
        batch == reviewer[r].batch
    IN  /\ reviewer[r].at = "SAVE"
        /\ sow' = [sow EXCEPT
              ![s].state = IF batch.passed THEN "ACCEPTED" ELSE "CHANGES_REQUESTED"]
        /\ reviews' = reviews \cup {[sow |-> s, n |-> batch.n, run |-> batch.run,
                                     decision |-> Decision(batch), by |-> r]}
        /\ reviewer' = [reviewer EXCEPT ![r] = Reviewing]
        /\ UNCHANGED <<stock, sold, outcome, observation, acceptance, running,
                       planner, verifier, accepter>>

-----------------------------------------------------------------------------
(* accept()                                                                *)

\* Bug: reviewed work is taken for accepted work.
AcceptBeginOfAnyWork ==
    LET sows == {s \in Work : Exists(s)}
    IN  /\ accepter.at = "IDLE" /\ MayBegin
        /\ outcome = "VERIFYING"
        /\ Principal \notin AllPerformers
        /\ sows # {}
        /\ Passes(stock)
        /\ accepter' = [Accepting EXCEPT !.at = "PROOF", !.sows = sows, !.stock = stock]
        /\ UNCHANGED <<ledger, running, planner, verifier, reviewer>>

AcceptBegin ==
    LET sows == {s \in Work : Exists(s)}
    IN  /\ accepter.at = "IDLE" /\ MayBegin
        /\ outcome = "VERIFYING"
        /\ Principal \notin AllPerformers
        /\ sows # {} /\ \A s \in sows : sow[s].state = "ACCEPTED"
        /\ Passes(stock)
        /\ accepter' = [Accepting EXCEPT !.at = "PROOF", !.sows = sows, !.stock = stock]
        /\ UNCHANGED <<ledger, running, planner, verifier, reviewer>>

MustReplenish(s) == s \in Effectful \cup Signal

\* What is asked of the work itself ...
Delivered(s) ==
    LET run == sow[s].runs[CompletedRun(s)]
    IN  /\ CompletedRun(s) # 0
        /\ MustReplenish(s) => run.effect

\* ... and of its verification: that somebody reviewed the last one.
Reviewed(s) == \E row \in reviews : row.sow = s /\ row.n = sow[s].batch.n

Observed == observation.made /\ observation.passed /\ observation.stock = accepter.stock

AcceptProof ==
    /\ accepter.at = "PROOF"
    /\ accepter' =
          IF (\A s \in accepter.sows : Delivered(s) /\ Reviewed(s)) /\ Observed
          THEN [accepter EXCEPT !.at = "SAVE"]
          ELSE Accepting
    /\ UNCHANGED <<ledger, running, planner, verifier, reviewer>>

AcceptSave ==
    /\ accepter.at = "SAVE"
    /\ outcome' = "ACCEPTED"
    /\ acceptance' = accepter.sows
    /\ accepter' = Accepting
    /\ UNCHANGED <<stock, sold, observation, sow, reviews, running,
                   planner, verifier, reviewer>>

-----------------------------------------------------------------------------
(* create_pulse_work(), which asks the gate under its lock and writes the   *)
(* work and its assignment in one; how a pulse comes to it is in Pulse.     *)

\* store_wake_gate()
Gate == stock <= Reorder /\ outcome = "ACTIVE"

PulseCreate(g) ==
    /\ g \in sold /\ ~Exists(g)
    /\ Gate
    /\ AllRuns < MaxRuns
    /\ sow' = [sow EXCEPT ![g] = [NoWork EXCEPT !.state = "ASSIGNED",
                                               !.runs = <<NewRun(Operator)>>]]
    /\ UNCHANGED <<stock, sold, outcome, observation, reviews, acceptance,
                   running, governing>>

\* A verifier dies when it has saved the outcome.  Of the others, one that dies
\* before it writes might as well never have begun.
Crash(v) ==
    /\ verifier[v].at = "RECORD"
    /\ verifier' = [verifier EXCEPT ![v] = Checking]
    /\ UNCHANGED <<ledger, running, planner, reviewer, accepter>>

-----------------------------------------------------------------------------

Shelf ==
    \/ \E g \in Signal : Sale(g)
    \/ \E s \in Work : \E i \in Runs(s) : Restock(s, i)

Plan ==
    \/ ActivateRead \/ ActivateSave
    \/ \E s \in Manual : Create(s) \/ Ready(s)
    \/ \E s \in Work, actor \in Assignee : Assign(s, actor)

Run(w) ==
    \/ \E s \in Work : \E i \in Runs(s) : Prepare(w, s, i)
    \/ AcquireAttempt(w) \/ ReadBackAttempt(w)
    \/ SaveRunning(w) \/ RunEnds(w) \/ WorkerLeaves(w)

Supervise == RecoverSave \/ \E s \in Work : \E i \in Runs(s) : RecoverRead(s, i)

Verify(v) ==
    \/ \E s \in Work \cup {None} : VerifyBegin(v, s)
    \/ VerifyCheck(v) \/ VerifyRecord(v)

Review(r) == (\E s \in Work : ReviewBegin(r, s)) \/ ReviewSave(r)

Accept == AcceptBegin \/ AcceptProof \/ AcceptSave

Next ==
    \/ Shelf \/ Plan \/ Supervise \/ Accept
    \/ \E w \in Worker : Run(w)
    \/ \E v \in Verifier : Verify(v) \/ Crash(v)
    \/ \E r \in Reviewer : Review(r)
    \/ \E g \in Signal : PulseCreate(g)

Spec == Init /\ [][Next]_vars

-----------------------------------------------------------------------------
(* Properties.                                                             *)

\* Every work an acceptance rests on was once accepted by a reviewer, on a run of
\* it that neither that reviewer nor the principal did, nor any run before it, and
\* was replenished if it had to be; however late runs and reviews are saved, and by
\* however many.  accept() itself asks only that the last verification has some
\* review.
AcceptanceIsEarned ==
    acceptance # None =>
        \A s \in acceptance :
            /\ MustReplenish(s) => \E i \in Runs(s) : sow[s].runs[i].effect
            /\ \E row \in reviews :
                  /\ row.sow = s /\ row.decision = "accepted" /\ row.run \in Runs(s)
                  /\ \A i \in 1..row.run : sow[s].runs[i].actor \notin {row.by, Principal}

\* Somebody who read the work before it was accepted has not written it yet.
InHand(s) ==
    \/ \E w \in Worker : worker[w].sow = s /\ worker[w].at \notin {"IDLE", "GONE"}
    \/ \E r \in Reviewer : reviewer[r].at = "SAVE" /\ reviewer[r].sow = s
    \/ supervisor.at = "SAVE" /\ supervisor.sow = s

Settled(s) == sow[s].state = "ACCEPTED" /\ ~InHand(s)

OutcomeSettled ==
    /\ outcome = "ACCEPTED" /\ planner = "IDLE"
    /\ \A v \in Verifier : verifier[v].at # "CHECK"

\* What is accepted is final, but for those who read it before: once they are
\* through or dead, no run, review, recovery, verification or plan that begins
\* later reopens the work, nor the outcome.
AcceptedSettles ==
    [][/\ \A s \in Work : Settled(s) => Settled(s)'
       /\ OutcomeSettled => OutcomeSettled']_vars
=============================================================================
