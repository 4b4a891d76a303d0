--------------------------- MODULE GovernanceProofs ---------------------------
(***************************************************************************)
(* What an acceptance rests on and what it settles, for any works, actors, *)
(* reviewers, workers and bounds.                                          *)
(*                                                                         *)
(* A work may be written back by whoever read it early, so nothing is said *)
(* of its state for long.  What is not written back is what the argument   *)
(* rests on: the runs of a work only grow, their actors and effects stay,  *)
(* and reviews are only added (Grown).  So a review of somebody who had    *)
(* done no run of the work by then remains one: RowsAreIndependent.        *)
(***************************************************************************)
EXTENDS Governance, SetFacts, TLAPS

State == {"NONE", "DRAFT", "READY", "ASSIGNED", "RUNNING", "REVIEW",
          "CHANGES_REQUESTED", "ACCEPTED", "ENDED"}
RunState == {"CREATED", "RUNNING", "COMPLETED", "ENDED"}
RunRow == [actor : Assignee \cup {Operator}, state : RunState, effect : BOOLEAN,
           fence : Worker \cup {None}]
Batch == [n : Nat, run : Nat, passed : BOOLEAN]
WorkRow == [state : State, runs : Seq(RunRow), batch : Batch]
ReviewRow == [sow : Work, n : Nat, run : Nat,
              decision : {"accepted", "changes_requested"}, by : Reviewer]
Outcomes == {"PROPOSED", "ACTIVE", "VERIFYING", "ACCEPTED"}
Place == {"IDLE", "PREPARED", "ACQUIRED", "HELD", "RUN", "GONE", "SAVE"}
InRun == [at : Place, sow : Work \cup {None}, run : Nat, attempt : Worker \cup {None}]
Check == [at : {"IDLE", "CHECK", "RECORD"}, sow : Work \cup {None}, run : Nat,
          outcome : Outcomes, stock : Nat]
InReview == [at : {"IDLE", "SAVE"}, sow : Work \cup {None}, batch : Batch]
InAcceptance == [at : {"IDLE", "PROOF", "SAVE"}, sows : SUBSET Work, stock : Nat]

TypeOK ==
    /\ stock \in Nat
    /\ outcome \in Outcomes
    /\ sow \in [Work -> WorkRow]
    /\ reviews \subseteq ReviewRow
    /\ worker \in [Worker -> InRun]
    /\ supervisor \in InRun
    /\ verifier \in [Verifier -> Check]
    /\ reviewer \in [Reviewer -> InReview]
    /\ accepter \in InAcceptance

Holds(p) == p.sow \in Work /\ p.run \in Runs(p.sow)

\* What workers and the supervisor have in hand is a run of a work.
HandsHoldRuns ==
    /\ \A w \in Worker : worker[w].at \notin {"IDLE", "GONE"} => Holds(worker[w])
    /\ supervisor.at = "SAVE" => Holds(supervisor)

UnbornIsEmpty == \A s \in Work : ~Exists(s) => sow[s] = NoWork

\* Every verification, made or in hand, is of some run.
ChecksAreOfRuns ==
    /\ \A s \in Work : sow[s].batch.n > 0 => sow[s].batch.run # 0
    /\ \A v \in Verifier : verifier[v].at # "IDLE" /\ verifier[v].sow # None =>
          /\ verifier[v].sow \in Work /\ Exists(verifier[v].sow)
          /\ verifier[v].run # 0

\* None of the runs of s up to this one was done by the actor.
Independent(s, run, actor) ==
    run \in Runs(s) /\ \A i \in 1..run : sow[s].runs[i].actor # actor

RowsAreIndependent ==
    /\ \A row \in reviews : Independent(row.sow, row.run, row.by)
    /\ \A r \in Reviewer : reviewer[r].at = "SAVE" =>
          /\ reviewer[r].sow \in Work
          /\ Independent(reviewer[r].sow, reviewer[r].batch.run, r)

AcceptedHasRow ==
    \A s \in Work : sow[s].state = "ACCEPTED" =>
        \E row \in reviews : row.sow = s /\ row.decision = "accepted"

Backed(s) ==
    \E row \in reviews : /\ row.sow = s /\ row.decision = "accepted"
                         /\ row.run \in Runs(s)
                         /\ \A i \in 1..row.run :
                               sow[s].runs[i].actor \notin {row.by, Principal}

Replenished(s) == MustReplenish(s) => \E i \in Runs(s) : sow[s].runs[i].effect

\* What the acceptance, in hand or made, rests on.
AcceptanceIsBacked ==
    /\ accepter.at # "IDLE" => \A s \in accepter.sows : Backed(s)
    /\ accepter.at = "SAVE" => \A s \in accepter.sows : Replenished(s)
    /\ acceptance # None =>
          acceptance \subseteq Work /\ \A s \in acceptance : Backed(s) /\ Replenished(s)

IInv ==
    /\ TypeOK /\ HandsHoldRuns /\ UnbornIsEmpty /\ ChecksAreOfRuns
    /\ RowsAreIndependent /\ AcceptedHasRow /\ AcceptanceIsBacked

-----------------------------------------------------------------------------
(* The runs of a work.                                                     *)

\* The last completed run is one of the work's runs, if there is one.
LEMMA CompletedRunIsCompleted ==
    ASSUME NEW s \in Work, sow[s].runs \in Seq(RunRow)
    PROVE  /\ CompletedRun(s) \in Nat
           /\ CompletedRun(s) # 0 => CompletedRun(s) \in Runs(s)
<1> DEFINE done == {i \in Runs(s) : sow[s].runs[i].state = "COMPLETED"}
<1>1. Len(sow[s].runs) \in Nat /\ Runs(s) = 1..Len(sow[s].runs)
    BY DEF Runs
<1>2. {0} \cup done \in SUBSET Nat /\ \A i \in {0} \cup done : i <= Len(sow[s].runs)
    BY <1>1
<1>3. Max({0} \cup done) \in {0} \cup done
    BY <1>1, <1>2, MaxOf
<1>4. CompletedRun(s) = Max({0} \cup done)
    BY DEF CompletedRun
<1> QED
    BY <1>2, <1>3, <1>4

\* The later runs are the earlier ones and perhaps more, by the same actors and
\* with what effects they had.
Grown(a, b) ==
    /\ DOMAIN a \subseteq DOMAIN b
    /\ \A i \in DOMAIN a : b[i].actor = a[i].actor /\ (a[i].effect => b[i].effect)

Growing == (\A s \in Work : Grown(sow[s].runs, sow'[s].runs)) /\ reviews \subseteq reviews'

LEMMA RunsAreNumbered ==
    ASSUME NEW s \in Work, sow[s] \in WorkRow, NEW run \in Runs(s)
    PROVE  run \in Nat /\ \A i \in 1..run : i \in Runs(s)
<1>1. Runs(s) = 1..Len(sow[s].runs) /\ Len(sow[s].runs) \in Nat
    BY DEF Runs, WorkRow
<1> QED
    BY <1>1

\* What is known of a run or a review stays known.
LEMMA GrowingKeeps ==
    ASSUME sow \in [Work -> WorkRow], Growing, NEW s \in Work
    PROVE  /\ \A run \in Runs(s) : run \in Runs(s)'
           /\ \A run, actor : Independent(s, run, actor) => Independent(s, run, actor)'
           /\ Backed(s) => Backed(s)'
           /\ Replenished(s) => Replenished(s)'
<1>1. Grown(sow[s].runs, sow'[s].runs) /\ reviews \subseteq reviews'
    BY DEF Growing
<1>2. \A run \in Runs(s) : /\ run \in Runs(s)'
                           /\ sow'[s].runs[run].actor = sow[s].runs[run].actor
                           /\ sow[s].runs[run].effect => sow'[s].runs[run].effect
    BY <1>1 DEF Grown, Runs
<1>3. \A run \in Runs(s) : \A i \in 1..run : i \in Runs(s)
    BY RunsAreNumbered
<1>4. ASSUME NEW run, NEW actor, Independent(s, run, actor)
      PROVE  Independent(s, run, actor)'
    BY <1>2, <1>3, <1>4 DEF Independent
<1>5. ASSUME Backed(s) PROVE Backed(s)'
  <2>1. PICK row \in reviews :
           /\ row.sow = s /\ row.decision = "accepted" /\ row.run \in Runs(s)
           /\ \A i \in 1..row.run : sow[s].runs[i].actor \notin {row.by, Principal}
    BY <1>5 DEF Backed
  <2>2. row \in reviews' /\ row.run \in Runs(s)'
    BY <1>1, <1>2, <2>1
  <2>3. \A i \in 1..row.run : sow'[s].runs[i].actor \notin {row.by, Principal}
    BY <1>2, <1>3, <2>1
  <2> QED
    BY <2>1, <2>2, <2>3 DEF Backed
<1>6. Replenished(s) => Replenished(s)'
    BY <1>2 DEF Replenished, MustReplenish
<1> QED
    BY <1>2, <1>4, <1>5, <1>6

-----------------------------------------------------------------------------
(* Steps that write no work, and steps that write one.                     *)

\* A step that leaves the works and the acceptance alone.
Unwritten == UNCHANGED <<sow, reviews, acceptance>>

\* A step that writes one work, without accepting it.
Written(s, row) ==
    /\ row \in WorkRow
    /\ sow' = [sow EXCEPT ![s] = row]
    /\ Grown(sow[s].runs, row.runs)
    /\ row.state # "NONE"
    /\ row.state = "ACCEPTED" => sow[s].state = "ACCEPTED"
    /\ row.batch.n > 0 => row.batch.run # 0
    /\ UNCHANGED <<reviews, acceptance>>

\* What either kind keeps of the invariant, whatever the processes do.
LEMMA LedgerKept ==
    ASSUME IInv, Unwritten \/ \E s \in Work : \E row : Written(s, row)
    PROVE  /\ sow' \in [Work -> WorkRow] /\ Growing
           /\ UNCHANGED <<reviews, acceptance>>
           /\ UnbornIsEmpty' /\ AcceptedHasRow'
           /\ \A s \in Work : Exists(s) => Exists(s)'
           /\ \A s \in Work : sow'[s].batch.n > 0 => sow'[s].batch.run # 0
<1>1. sow \in [Work -> WorkRow] /\ UnbornIsEmpty /\ AcceptedHasRow /\ ChecksAreOfRuns
    BY DEF IInv, TypeOK
<1>2. CASE Unwritten
  <2>1. Growing
    BY <1>2 DEF Unwritten, Growing, Grown
  <2> QED
    BY <1>1, <1>2, <2>1 DEF Unwritten, UnbornIsEmpty, AcceptedHasRow, Exists, ChecksAreOfRuns
<1>3. ASSUME NEW s \in Work, NEW row, Written(s, row)
      PROVE  /\ sow' \in [Work -> WorkRow] /\ Growing
             /\ UNCHANGED <<reviews, acceptance>>
             /\ UnbornIsEmpty' /\ AcceptedHasRow'
             /\ \A t \in Work : Exists(t) => Exists(t)'
             /\ \A t \in Work : sow'[t].batch.n > 0 => sow'[t].batch.run # 0
  <2>1. sow'[s] = row /\ \A t \in Work \ {s} : sow'[t] = sow[t]
    BY <1>1, <1>3 DEF Written
  <2>2. sow' \in [Work -> WorkRow]
    BY <1>1, <1>3 DEF Written
  <2>3. Growing
    BY <1>3, <2>1 DEF Written, Growing, Grown
  <2>4. UnbornIsEmpty' /\ \A t \in Work : Exists(t) => Exists(t)'
    BY <1>1, <1>3, <2>1 DEF Written, UnbornIsEmpty, Exists
  <2>5. AcceptedHasRow'
    BY <1>1, <1>3, <2>1 DEF Written, AcceptedHasRow
  <2>6. \A t \in Work : sow'[t].batch.n > 0 => sow'[t].batch.run # 0
    BY <1>1, <1>3, <2>1 DEF Written, ChecksAreOfRuns
  <2> QED
    BY <1>3, <2>2, <2>3, <2>4, <2>5, <2>6 DEF Written
<1> QED
    BY <1>2, <1>3

\* Steps of which only the process that takes them knows anything new.
LEMMA StepKeeps ==
    ASSUME IInv, Unwritten \/ \E s \in Work : \E row : Written(s, row),
           stock' \in Nat, outcome' \in Outcomes,
           worker' \in [Worker -> InRun], supervisor' \in InRun,
           verifier' \in [Verifier -> Check], UNCHANGED <<reviewer, accepter>>,
           HandsHoldRuns',
           \A v \in Verifier : verifier'[v].at # "IDLE" /\ verifier'[v].sow # None =>
              /\ verifier'[v].sow \in Work /\ Exists(verifier'[v].sow)
              /\ verifier'[v].run # 0
    PROVE  IInv'
<1>1. /\ sow' \in [Work -> WorkRow] /\ Growing
      /\ UNCHANGED <<reviews, acceptance>>
      /\ UnbornIsEmpty' /\ AcceptedHasRow'
      /\ \A s \in Work : Exists(s) => Exists(s)'
      /\ \A s \in Work : sow'[s].batch.n > 0 => sow'[s].batch.run # 0
    BY LedgerKept
<1>2. sow \in [Work -> WorkRow] /\ reviews \subseteq ReviewRow
    BY DEF IInv, TypeOK
<1>3. TypeOK'
    BY <1>1 DEF IInv, TypeOK
<1>4. ChecksAreOfRuns'
    BY <1>1 DEF ChecksAreOfRuns, Exists
<1>5. RowsAreIndependent'
  <2>1. ASSUME NEW row \in reviews PROVE Independent(row.sow, row.run, row.by)'
    <3>1. row.sow \in Work /\ Independent(row.sow, row.run, row.by)
      BY <1>2 DEF IInv, RowsAreIndependent, ReviewRow
    <3> QED
      BY <1>1, <1>2, <3>1, GrowingKeeps
  <2>2. ASSUME NEW r \in Reviewer, reviewer[r].at = "SAVE"
        PROVE  /\ reviewer[r].sow \in Work
               /\ Independent(reviewer[r].sow, reviewer[r].batch.run, r)'
    <3>1. /\ reviewer[r].sow \in Work
          /\ Independent(reviewer[r].sow, reviewer[r].batch.run, r)
      BY <2>2 DEF IInv, RowsAreIndependent
    <3> QED
      BY <1>1, <1>2, <3>1, GrowingKeeps
  <2> QED
    BY <1>1, <2>1, <2>2 DEF RowsAreIndependent, Independent, Runs
<1>6. AcceptanceIsBacked'
  <2>1. accepter.sows \subseteq Work
    BY DEF IInv, TypeOK, InAcceptance
  <2> QED
    BY <1>1, <1>2, <2>1, GrowingKeeps DEF IInv, AcceptanceIsBacked
<1> QED
    BY <1>1, <1>3, <1>4, <1>5, <1>6 DEF IInv

\* What hands held, they hold.
LEMMA HandsKept ==
    ASSUME IInv, Unwritten \/ \E s \in Work : \E row : Written(s, row),
           \A w \in Worker : worker'[w].at \notin {"IDLE", "GONE"} =>
              \/ /\ worker[w].at \notin {"IDLE", "GONE"}
                 /\ worker'[w].sow = worker[w].sow /\ worker'[w].run = worker[w].run
              \/ Holds(worker'[w]),
           supervisor'.at = "SAVE" => supervisor' = supervisor \/ Holds(supervisor')
    PROVE  HandsHoldRuns'
<1>1. sow \in [Work -> WorkRow] /\ Growing
    BY LedgerKept DEF IInv, TypeOK
<1>2. \A s \in Work : \A run \in Runs(s) : run \in Runs(s)'
    BY <1>1, GrowingKeeps
<1> QED
    BY <1>2 DEF IInv, HandsHoldRuns, Holds, Runs

-----------------------------------------------------------------------------
(* What each action writes.                                                *)

LEMMA NothingType == NoBatch \in Batch /\ NoWork \in WorkRow
<1>1. NoBatch \in Batch
    BY DEF NoBatch, Batch
<1>2. <<>> \in Seq(RunRow)
    OBVIOUS
<1> QED
    BY <1>1, <1>2 DEF NoWork, WorkRow, State

\* A work that is written in parts: its state and its last verification ...
LEMMA PartWritten ==
    ASSUME IInv, NEW s \in Work, NEW state \in State, NEW batch \in Batch,
           state # "NONE", state = "ACCEPTED" => sow[s].state = "ACCEPTED",
           batch.n > 0 => batch.run # 0,
           sow' = [sow EXCEPT ![s] = [sow[s] EXCEPT !.state = state, !.batch = batch]],
           UNCHANGED <<reviews, acceptance>>
    PROVE  \E row : Written(s, row)
<1> DEFINE row == [sow[s] EXCEPT !.state = state, !.batch = batch]
<1>1. sow[s] \in WorkRow
    BY DEF IInv, TypeOK
<1>2. /\ row \in WorkRow /\ row.runs = sow[s].runs
      /\ row.state = state /\ row.batch = batch
    BY <1>1 DEF WorkRow
<1>3. sow' = [sow EXCEPT ![s] = row]
    OBVIOUS
<1> HIDE DEF row
<1> QED
    BY <1>2, <1>3 DEF Written, Grown

\* ... its state and its runs ...
LEMMA RunsWritten ==
    ASSUME IInv, NEW s \in Work, NEW state \in State, NEW runs \in Seq(RunRow),
           state # "NONE", state = "ACCEPTED" => sow[s].state = "ACCEPTED",
           Grown(sow[s].runs, runs),
           sow' = [sow EXCEPT ![s] = [sow[s] EXCEPT !.state = state, !.runs = runs]],
           UNCHANGED <<reviews, acceptance>>
    PROVE  \E row : Written(s, row)
<1> DEFINE row == [sow[s] EXCEPT !.state = state, !.runs = runs]
<1>1. sow[s] \in WorkRow /\ ChecksAreOfRuns
    BY DEF IInv, TypeOK
<1>2. /\ row \in WorkRow /\ row.runs = runs
      /\ row.state = state /\ row.batch = sow[s].batch
    BY <1>1 DEF WorkRow
<1>3. sow' = [sow EXCEPT ![s] = row]
    OBVIOUS
<1> HIDE DEF row
<1> QED
    BY <1>1, <1>2, <1>3 DEF Written, ChecksAreOfRuns

\* ... and one of its runs, by the same actor.
LEMMA RunWritten ==
    ASSUME IInv, NEW s \in Work, NEW i \in Runs(s), NEW state \in State, NEW run \in RunRow,
           state # "NONE", state = "ACCEPTED" => sow[s].state = "ACCEPTED",
           run.actor = sow[s].runs[i].actor, sow[s].runs[i].effect => run.effect,
           sow' = [sow EXCEPT ![s].state = state, ![s].runs[i] = run],
           UNCHANGED <<reviews, acceptance>>
    PROVE  \E row : Written(s, row)
<1> DEFINE runs == [sow[s].runs EXCEPT ![i] = run]
<1>1. sow[s] \in WorkRow /\ sow \in [Work -> WorkRow]
    BY DEF IInv, TypeOK
<1>2. runs \in Seq(RunRow) /\ Grown(sow[s].runs, runs)
    BY <1>1 DEF WorkRow, Runs, Grown
<1>3. sow' = [sow EXCEPT ![s] = [sow[s] EXCEPT !.state = state, !.runs = runs]]
    BY <1>1 DEF WorkRow
<1> HIDE DEF runs
<1> QED
    BY <1>2, <1>3, RunsWritten

\* A run of a work is one, and the work exists.
LEMMA RunOfRow ==
    ASSUME IInv, NEW s \in Work, NEW i \in Runs(s)
    PROVE  sow[s].runs[i] \in RunRow /\ sow[s].state \in State \ {"NONE"}
<1>1. sow[s] \in WorkRow /\ UnbornIsEmpty
    BY DEF IInv, TypeOK
<1>2. sow[s].runs[i] \in RunRow
    BY <1>1 DEF WorkRow, Runs
<1>3. sow[s] # NoWork
    BY DEF NoWork, Runs
<1> QED
    BY <1>1, <1>2, <1>3 DEF WorkRow, UnbornIsEmpty, Exists

LEMMA RestockKeeps ==
    ASSUME IInv, NEW s \in Work, NEW i \in Runs(s), Restock(s, i)
    PROVE  IInv'
<1> DEFINE run == [sow[s].runs[i] EXCEPT !.effect = TRUE]
<1>1. sow \in [Work -> WorkRow] /\ sow[s].runs[i] \in RunRow /\ sow[s].state \in State \ {"NONE"}
    BY RunOfRow DEF IInv, TypeOK
<1>2. run \in RunRow /\ run.actor = sow[s].runs[i].actor /\ run.effect
    BY <1>1 DEF RunRow
<1>3. sow' = [sow EXCEPT ![s].state = sow[s].state, ![s].runs[i] = run]
    BY <1>1 DEF Restock, WorkRow
<1> HIDE DEF run
<1>4. \E row : Written(s, row)
  <2>1. UNCHANGED <<reviews, acceptance>>
    BY DEF Restock
  <2> QED
    BY <1>1, <1>2, <1>3, <2>1, RunWritten
<1>5. HandsHoldRuns'
    BY <1>4, HandsKept DEF Restock, running
<1> QED
    BY <1>4, <1>5, StepKeeps DEF Restock, running, governing, IInv, TypeOK, ChecksAreOfRuns

LEMMA PlannerKeeps ==
    ASSUME IInv,
           \/ \E s \in Manual : Create(s) \/ Ready(s)
           \/ \E s \in Work, actor \in Assignee : Assign(s, actor)
           \/ \E g \in Signal : PulseCreate(g)
    PROVE  IInv'
<1>1. sow \in [Work -> WorkRow] /\ Manual \subseteq Work /\ Signal \subseteq Work /\ UnbornIsEmpty
      /\ ChecksAreOfRuns
    BY DEF IInv, TypeOK, Work
<1>2. UNCHANGED <<stock, outcome, reviews, acceptance, running, governing>>
    BY DEF Create, Ready, Assign, PulseCreate, PlannerWrites
<1>3. ASSUME NEW s \in Manual, Create(s) PROVE \E row : Written(s, row)
  <2>1. sow[s] = NoWork /\ sow[s].state = "NONE"
    BY <1>1, <1>3 DEF Create, UnbornIsEmpty, Exists
  <2>2. sow' = [sow EXCEPT ![s] = [sow[s] EXCEPT !.state = "DRAFT", !.batch = NoBatch]]
    <3>1. [NoWork EXCEPT !.state = "DRAFT"]
             = [NoWork EXCEPT !.state = "DRAFT", !.batch = NoBatch]
      <4>1. NoWork \in WorkRow /\ NoWork.batch = NoBatch
        BY NothingType DEF NoWork
      <4> QED
        BY <4>1 DEF WorkRow
    <3> QED
      BY <1>3, <2>1, <3>1 DEF Create, PlannerWrites
  <2>3. "DRAFT" \in State /\ NoBatch \in Batch /\ ~(NoBatch.n > 0)
    BY NothingType DEF State, NoBatch
  <2>4. s \in Work /\ UNCHANGED <<reviews, acceptance>>
    BY <1>1, <1>2
  <2> QED
    BY <2>2, <2>3, <2>4, PartWritten
<1>4. ASSUME NEW s \in Manual, Ready(s) PROVE \E row : Written(s, row)
  <2>1. sow[s] \in WorkRow /\ sow[s].batch \in Batch
    BY <1>1 DEF WorkRow
  <2>2. sow' = [sow EXCEPT ![s] = [sow[s] EXCEPT !.state = "READY", !.batch = sow[s].batch]]
    BY <1>4, <2>1 DEF Ready, PlannerWrites, WorkRow
  <2>3. "READY" \in State
    BY DEF State
  <2> QED
    BY <1>1, <1>2, <2>1, <2>2, <2>3, PartWritten DEF ChecksAreOfRuns
<1>5. ASSUME NEW s \in Work, NEW actor \in Assignee \cup {Operator},
             NEW old \in Seq(RunRow), old = sow[s].runs,
             sow' = [sow EXCEPT ![s] = [sow[s] EXCEPT !.state = "ASSIGNED",
                                                      !.runs = Append(old, NewRun(actor))]]
      PROVE  \E row : Written(s, row)
  <2> DEFINE runs == Append(old, NewRun(actor))
  <2>1. NewRun(actor) \in RunRow /\ "ASSIGNED" \in State
    BY DEF NewRun, RunRow, RunState, State
  <2>2. runs \in Seq(RunRow) /\ Grown(old, runs)
    BY <2>1 DEF Grown
  <2>3. sow' = [sow EXCEPT ![s] = [sow[s] EXCEPT !.state = "ASSIGNED", !.runs = runs]]
    BY <1>5
  <2> HIDE DEF runs
  <2> QED
    BY <1>2, <1>5, <2>1, <2>2, <2>3, RunsWritten
<1>6. ASSUME NEW s \in Work, NEW actor \in Assignee, Assign(s, actor)
      PROVE  \E row : Written(s, row)
  <2>1. sow[s].runs \in Seq(RunRow)
    BY <1>1 DEF WorkRow
  <2>2. sow' = [sow EXCEPT ![s] = [sow[s] EXCEPT !.state = "ASSIGNED",
                                                 !.runs = Append(sow[s].runs, NewRun(actor))]]
    BY <1>6, <2>1, <1>1 DEF Assign, PlannerWrites, WorkRow
  <2> QED
    BY <1>5, <2>1, <2>2
<1>7. ASSUME NEW g \in Signal, PulseCreate(g) PROVE \E row : Written(g, row)
  <2>1. sow[g] = NoWork /\ g \in Work
    BY <1>1, <1>7 DEF PulseCreate, UnbornIsEmpty
  <2>2. /\ sow[g].runs = <<>> /\ <<>> \in Seq(RunRow)
        /\ Append(<<>>, NewRun(Operator)) = <<NewRun(Operator)>>
    BY <2>1 DEF NoWork
  <2>3. sow' = [sow EXCEPT ![g] = [sow[g] EXCEPT !.state = "ASSIGNED",
                                                 !.runs = Append(<<>>, NewRun(Operator))]]
    BY <1>7, <2>1, <2>2 DEF PulseCreate, NoWork
  <2> QED
    BY <1>5, <2>1, <2>2, <2>3
<1>8. \E s \in Work : \E row : Written(s, row)
    BY <1>1, <1>3, <1>4, <1>6, <1>7
<1>9. HandsHoldRuns'
    BY <1>2, <1>8, HandsKept DEF running
<1> QED
    BY <1>2, <1>8, <1>9, StepKeeps DEF running, governing, IInv, TypeOK, ChecksAreOfRuns

-----------------------------------------------------------------------------
(* The run, its supervisor, and the verification.                          *)

\* A worker goes on with what it holds, or goes.
LEMMA RunKeeps ==
    ASSUME IInv, NEW w \in Worker, Run(w)
    PROVE  IInv'
<1>1. /\ sow \in [Work -> WorkRow] /\ worker \in [Worker -> InRun] /\ supervisor \in InRun
      /\ HandsHoldRuns
    BY DEF IInv, TypeOK
<1>2. worker[w] \in InRun /\ Gone \in InRun
    BY <1>1 DEF InRun, Gone, Working, Place
<1>3. UNCHANGED <<stock, outcome, reviews, acceptance, supervisor, governing>>
    BY DEF Run, Prepare, AcquireAttempt, ReadBackAttempt, SaveRunning, RunEnds, WorkerLeaves,
           ledger
\* It is enough to know what is written and what the worker holds then.
<1>4. ASSUME UNCHANGED sow \/ (\E s \in Work : \E row : Written(s, row)),
             NEW p \in InRun, worker' = [worker EXCEPT ![w] = p],
             \/ p.at = "GONE" \/ Holds(p)
             \/ p.sow = worker[w].sow /\ p.run = worker[w].run
                   /\ worker[w].at \notin {"IDLE", "GONE"}
      PROVE  IInv'
  <2>1. Unwritten \/ \E s \in Work : \E row : Written(s, row)
    BY <1>3, <1>4 DEF Unwritten
  <2>2. HandsHoldRuns'
    BY <1>1, <1>3, <1>4, <2>1, HandsKept
  <2>3. worker' \in [Worker -> InRun]
    BY <1>1, <1>4
  <2> QED
    BY <1>1, <1>3, <2>1, <2>2, <2>3, StepKeeps, LedgerKept
       DEF governing, IInv, TypeOK, ChecksAreOfRuns
<1>5. ASSUME NEW s \in Work, NEW i \in Runs(s), Prepare(w, s, i) PROVE IInv'
  <2> DEFINE p == [Working EXCEPT !.at = "PREPARED", !.sow = s, !.run = i]
  <2>1. i \in Nat
    BY <1>1, RunsAreNumbered
  <2>2. p \in InRun /\ Holds(p)
    BY <2>1 DEF Working, InRun, Place, Holds
  <2>3. worker' = [worker EXCEPT ![w] = p] /\ UNCHANGED sow
    BY <1>5 DEF Prepare, ledger
  <2> HIDE DEF p
  <2> QED
    BY <1>4, <2>2, <2>3
<1>6. ASSUME worker[w].at \notin {"IDLE", "GONE"}
      PROVE  /\ worker[w].sow \in Work /\ worker[w].run \in Runs(worker[w].sow)
             /\ \A at \in Place : [worker[w] EXCEPT !.at = at] \in InRun
             /\ \A at \in Place : /\ [worker[w] EXCEPT !.at = at].sow = worker[w].sow
                                  /\ [worker[w] EXCEPT !.at = at].run = worker[w].run
    BY <1>1, <1>2, <1>6 DEF HandsHoldRuns, Holds, InRun
<1>7. ASSUME NEW at \in Place, WorkerGoes(w, at)
      PROVE  worker' = [worker EXCEPT ![w] = [worker[w] EXCEPT !.at = at]]
    BY <1>1, <1>7 DEF WorkerGoes, InRun
<1>8. {"ACQUIRED", "HELD", "RUN"} \subseteq Place
    BY DEF Place
<1>9. CASE AcquireAttempt(w)
  <2> DEFINE s == worker[w].sow
             i == worker[w].run
             run == [sow[s].runs[i] EXCEPT !.fence = w]
  <2>1. s \in Work /\ i \in Runs(s)
    BY <1>6, <1>9 DEF AcquireAttempt
  <2>2. sow[s].runs[i] \in RunRow /\ sow[s].state \in State \ {"NONE"}
    BY <2>1, RunOfRow
  <2>3. run \in RunRow /\ run.actor = sow[s].runs[i].actor /\ run.effect = sow[s].runs[i].effect
    BY <2>2 DEF RunRow
  <2>4. sow' = [sow EXCEPT ![s].state = sow[s].state, ![s].runs[i] = run]
    BY <1>1, <1>9, <2>1, <2>2 DEF AcquireAttempt, WorkRow
  <2> HIDE DEF run, s, i
  <2>5. \E row : Written(s, row)
    BY <1>3, <2>1, <2>2, <2>3, <2>4, RunWritten
  <2> QED
    BY <1>4, <1>6, <1>7, <1>8, <1>9, <2>1, <2>5 DEF AcquireAttempt
<1>10. CASE ReadBackAttempt(w)
  <2>1. UNCHANGED sow /\ worker[w].at = "ACQUIRED"
    BY <1>10 DEF ReadBackAttempt, ledger
  <2>2. CASE worker' = [worker EXCEPT ![w] = Gone]
    BY <1>2, <1>4, <2>1, <2>2 DEF Gone, Working
  <2>3. CASE worker' # [worker EXCEPT ![w] = Gone]
    <3> DEFINE fence == Fence(worker[w].sow, worker[w].run)
               p == [worker[w] EXCEPT !.at = "HELD", !.attempt = fence]
    <3>1. worker' = [worker EXCEPT ![w] = p]
      BY <1>10, <2>3 DEF ReadBackAttempt
    <3>2. fence \in Worker \cup {None}
      BY <1>6, <2>1, RunOfRow DEF Fence, RunRow
    <3>3. p \in InRun /\ p.sow = worker[w].sow /\ p.run = worker[w].run
      <4> HIDE DEF fence
      <4> QED
        BY <1>2, <3>2 DEF InRun, Place
    <3> HIDE DEF p
    <3> QED
      BY <1>4, <2>1, <3>1, <3>3
  <2> QED
    BY <2>2, <2>3
<1>11. ASSUME NEW s \in Work, NEW i \in Runs(s), NEW state \in State, NEW run \in RunRow,
              state \notin {"NONE", "ACCEPTED"}, Records(s, i, state, run),
              run.actor = sow[s].runs[i].actor, run.effect = sow[s].runs[i].effect
       PROVE  \E row : Written(s, row)
  <2>1. UNCHANGED <<reviews, acceptance>>
    BY <1>3
  <2> QED
    BY <1>11, <2>1, RunWritten DEF Records
<1>12. CASE SaveRunning(w)
  <2> DEFINE s == worker[w].sow
             i == worker[w].run
             run == [sow[s].runs[i] EXCEPT !.state = "RUNNING"]
  <2>1. s \in Work /\ i \in Runs(s)
    BY <1>6, <1>12 DEF SaveRunning
  <2>2. sow[s].runs[i] \in RunRow
    BY <2>1, RunOfRow
  <2>3. run \in RunRow /\ run.actor = sow[s].runs[i].actor /\ run.effect = sow[s].runs[i].effect
    BY <2>2 DEF RunRow, RunState
  <2>4. Records(s, i, "RUNNING", run) /\ "RUNNING" \in State
    BY <1>12 DEF SaveRunning, State
  <2> HIDE DEF run, s, i
  <2>5. \E row : Written(s, row)
    BY <1>11, <2>1, <2>3, <2>4
  <2> QED
    BY <1>4, <1>6, <1>7, <1>8, <1>12, <2>1, <2>5 DEF SaveRunning
<1>13. CASE RunEnds(w)
  <2> DEFINE s == worker[w].sow
             i == worker[w].run
             run(state) == [[sow[s].runs[i] EXCEPT !.fence = None] EXCEPT !.state = state]
  <2>1. s \in Work /\ i \in Runs(s)
    BY <1>6, <1>13 DEF RunEnds
  <2>2. sow[s].runs[i] \in RunRow
    BY <2>1, RunOfRow
  <2>3. \A state \in RunState : /\ run(state) \in RunRow
                                /\ run(state).actor = sow[s].runs[i].actor
                                /\ run(state).effect = sow[s].runs[i].effect
    BY <2>2 DEF RunRow
  <2>4. PICK next \in {"REVIEW", "ENDED"}, state \in {"COMPLETED", "ENDED"} :
           Records(s, i, next, run(state))
    BY <1>13 DEF RunEnds
  <2>5. state \in RunState /\ next \in State \ {"NONE", "ACCEPTED"}
    BY <2>4 DEF RunState, State
  <2>6. worker' = [worker EXCEPT ![w] = Gone]
    BY <1>13 DEF RunEnds
  <2> HIDE DEF run, s, i
  <2>7. \E row : Written(s, row)
    BY <1>11, <2>1, <2>3, <2>4, <2>5
  <2> QED
    BY <1>2, <1>4, <2>1, <2>6, <2>7 DEF Gone, Working
<1>14. CASE WorkerLeaves(w)
    BY <1>2, <1>4, <1>14 DEF WorkerLeaves, ledger, Gone, Working
<1> QED
    BY <1>5, <1>9, <1>10, <1>12, <1>13, <1>14 DEF Run

LEMMA SuperviseKeeps ==
    ASSUME IInv, Supervise
    PROVE  IInv'
<1>1. /\ sow \in [Work -> WorkRow] /\ supervisor \in InRun /\ HandsHoldRuns
      /\ Working \in InRun /\ Working.at = "IDLE"
    BY DEF IInv, TypeOK, InRun, Working, Place
<1>2. UNCHANGED <<stock, outcome, reviews, acceptance, worker, governing>>
    BY DEF Supervise, RecoverRead, RecoverSave, ledger
<1>3. ASSUME Unwritten \/ (\E s \in Work : \E row : Written(s, row)),
             supervisor' \in InRun, supervisor'.at = "SAVE" => Holds(supervisor')
      PROVE  IInv'
  <2>1. HandsHoldRuns'
    BY <1>2, <1>3, HandsKept
  <2> QED
    BY <1>2, <1>3, <2>1, StepKeeps, LedgerKept DEF governing, IInv, TypeOK, ChecksAreOfRuns
<1>4. ASSUME NEW s \in Work, NEW i \in Runs(s), RecoverRead(s, i) PROVE IInv'
  <2>1. supervisor' = [at |-> "SAVE", sow |-> s, run |-> i, attempt |-> Fence(s, i)]
    BY <1>4 DEF RecoverRead
  <2>2. i \in Nat /\ Fence(s, i) \in Worker \cup {None}
    BY <1>1, RunsAreNumbered, RunOfRow DEF Fence, RunRow
  <2>3. supervisor' \in InRun /\ Holds(supervisor')
    BY <2>1, <2>2 DEF InRun, Place, Holds
  <2>4. Unwritten
    BY <1>4 DEF RecoverRead, ledger, Unwritten
  <2> QED
    BY <1>3, <2>3, <2>4
<1>5. CASE RecoverSave
  <2> DEFINE s == supervisor.sow
             i == supervisor.run
             run == [sow[s].runs[i] EXCEPT !.state = "ENDED", !.fence = None]
  <2>1. s \in Work /\ i \in Runs(s) /\ supervisor' = Working
    BY <1>1, <1>5 DEF RecoverSave, HandsHoldRuns, Holds
  <2>2. sow[s].runs[i] \in RunRow
    BY <2>1, RunOfRow
  <2>3. run \in RunRow /\ run.actor = sow[s].runs[i].actor /\ run.effect = sow[s].runs[i].effect
    BY <2>2 DEF RunRow, RunState
  <2>4. UNCHANGED sow \/ Records(s, i, "ENDED", run)
    BY <1>5 DEF RecoverSave
  <2>5. "ENDED" \in State \ {"NONE", "ACCEPTED"}
    BY DEF State
  <2> HIDE DEF run, s, i
  <2>6. Unwritten \/ \E row : Written(s, row)
    <3>1. CASE UNCHANGED sow
      BY <1>2, <3>1 DEF Unwritten
    <3>2. CASE Records(s, i, "ENDED", run)
      BY <1>2, <2>1, <2>3, <2>5, <3>2, RunWritten DEF Records
    <3> QED
      BY <2>4, <3>1, <3>2
  <2> QED
    BY <1>1, <1>3, <2>1, <2>6
<1> QED
    BY <1>4, <1>5 DEF Supervise

\* A verifier asks for a completed run, so what it records is of some run.
LEMMA VerifyKeeps ==
    ASSUME IInv, NEW v \in Verifier, Verify(v) \/ Crash(v)
    PROVE  IInv'
<1>1. /\ sow \in [Work -> WorkRow] /\ verifier \in [Verifier -> Check]
      /\ stock \in Nat /\ outcome \in Outcomes /\ ChecksAreOfRuns
    BY DEF IInv, TypeOK
<1>2. /\ Checking \in Check /\ Checking.at = "IDLE" /\ Checking.sow = None
      /\ NoBatch \in Batch /\ verifier[v] \in Check
    BY <1>1, NothingType DEF Checking, Check, Outcomes
<1>3. UNCHANGED <<stock, reviews, acceptance, running, planner, reviewer, accepter>>
    BY DEF Verify, VerifyBegin, VerifyCheck, VerifyRecord, Crash, ledger
\* It is enough to know what is written and what the verifier holds then.
<1>4. ASSUME UNCHANGED sow \/ (\E s \in Work : \E row : Written(s, row)), outcome' \in Outcomes,
             NEW check \in Check, verifier' = [verifier EXCEPT ![v] = check],
             check.at # "IDLE" /\ check.sow # None =>
                check.sow \in Work /\ Exists(check.sow) /\ check.run # 0
      PROVE  IInv'
  <2>1. Unwritten \/ \E s \in Work : \E row : Written(s, row)
    BY <1>3, <1>4 DEF Unwritten
  <2>2. HandsHoldRuns'
    BY <1>3, <2>1, HandsKept DEF running
  <2>3. verifier' \in [Verifier -> Check]
    BY <1>1, <1>4
  <2>4. \A u \in Verifier : verifier'[u].at # "IDLE" /\ verifier'[u].sow # None =>
           /\ verifier'[u].sow \in Work /\ Exists(verifier'[u].sow) /\ verifier'[u].run # 0
    BY <1>1, <1>4 DEF ChecksAreOfRuns
  <2> QED
    BY <1>1, <1>3, <1>4, <2>1, <2>2, <2>3, <2>4, StepKeeps DEF running, IInv, TypeOK
<1>5. ASSUME NEW s \in Work \cup {None}, VerifyBegin(v, s) PROVE IInv'
  <2> DEFINE run == IF s = None THEN 0 ELSE CompletedRun(s)
             check == [Checking EXCEPT !.at = "CHECK", !.sow = s, !.run = run,
                                       !.outcome = outcome]
  <2>1. run \in Nat /\ (s # None => run # 0 /\ run = CompletedRun(s))
    BY <1>1, <1>5, CompletedRunIsCompleted DEF WorkRow, VerifyBegin
  <2>2. s # None => s \in Work /\ Exists(s)
    <3> SUFFICES ASSUME s # None PROVE Exists(s)
      OBVIOUS
    <3>1. run \in Runs(s) /\ s \in Work
      BY <1>1, <2>1, CompletedRunIsCompleted DEF WorkRow
    <3> QED
      BY <3>1, RunOfRow DEF Exists
  <2>3. verifier' = [verifier EXCEPT ![v] = check] /\ UNCHANGED <<sow, outcome>>
    BY <1>5 DEF VerifyBegin, ledger
  <2>4. check \in Check /\ check.sow = s /\ check.run = run
    <3> HIDE DEF run
    <3> QED
      BY <1>1, <1>2, <2>1 DEF Check
  <2> HIDE DEF run, check
  <2> QED
    BY <1>1, <1>4, <2>1, <2>2, <2>3, <2>4
<1>6. CASE VerifyCheck(v)
  <2> DEFINE check == [verifier[v] EXCEPT !.at = "RECORD", !.stock = stock]
  <2>1. verifier' = [verifier EXCEPT ![v] = check]
    BY <1>1, <1>6 DEF VerifyCheck, Check
  <2>2. check \in Check /\ check.sow = verifier[v].sow /\ check.run = verifier[v].run
    BY <1>1, <1>2 DEF Check
  <2>3. UNCHANGED sow /\ outcome' \in Outcomes /\ verifier[v].at = "CHECK"
    BY <1>1, <1>6 DEF VerifyCheck, Outcomes
  <2> HIDE DEF check
  <2> QED
    BY <1>1, <1>4, <2>1, <2>2, <2>3 DEF ChecksAreOfRuns
<1>7. CASE VerifyRecord(v)
  <2> DEFINE s == verifier[v].sow
             new(passed) == [NoBatch EXCEPT !.n = sow[s].batch.n + 1, !.run = verifier[v].run,
                                            !.passed = passed]
  <2>1. outcome' \in Outcomes /\ verifier' = [verifier EXCEPT ![v] = Checking]
    BY <1>1, <1>7 DEF VerifyRecord
  <2>2. CASE s = None
    BY <1>2, <1>4, <1>7, <2>1, <2>2 DEF VerifyRecord
  <2>3. CASE s # None
    <3>1. s \in Work /\ Exists(s) /\ verifier[v].run # 0 /\ verifier[v].run \in Nat
      BY <1>1, <1>2, <1>7, <2>3 DEF ChecksAreOfRuns, VerifyRecord, Check
    <3>2. sow[s] \in WorkRow /\ sow[s].batch.n + 1 \in Nat /\ sow[s].state \in State \ {"NONE"}
      BY <1>1, <3>1 DEF WorkRow, Batch, Exists
    <3>3. PICK passed \in BOOLEAN : sow' = [sow EXCEPT ![s].batch = new(passed)]
      <4>1. Passes(verifier[v].stock) \in BOOLEAN
        BY DEF Passes
      <4>2. sow' = [sow EXCEPT ![s].batch = new(Passes(verifier[v].stock))]
        BY <1>7, <2>3 DEF VerifyRecord
      <4> HIDE DEF new
      <4> QED
        BY <4>1, <4>2, Zenon
    <3>4. new(passed) \in Batch /\ new(passed).run # 0
      BY <1>2, <3>1, <3>2 DEF Batch
    <3> HIDE DEF new, s
    <3>5. sow' = [sow EXCEPT ![s] = [sow[s] EXCEPT !.state = sow[s].state, !.batch = new(passed)]]
      BY <1>1, <3>2, <3>3 DEF WorkRow
    <3>6. \E row : Written(s, row)
      BY <1>3, <3>1, <3>2, <3>4, <3>5, PartWritten
    <3> QED
      BY <1>2, <1>4, <2>1, <3>1, <3>6
  <2> QED
    BY <2>2, <2>3
<1>8. CASE Crash(v)
    BY <1>1, <1>2, <1>4, <1>8 DEF Crash, ledger
<1> QED
    BY <1>5, <1>6, <1>7, <1>8 DEF Verify

\* Sales and plans write no work.
LEMMA OthersKeep ==
    ASSUME IInv, (\E g \in Signal : Sale(g)) \/ ActivateRead \/ ActivateSave \/ UNCHANGED vars
    PROVE  IInv'
<1>1. /\ Unwritten /\ UNCHANGED <<running, verifier, reviewer, accepter>>
      /\ stock' \in Nat /\ outcome' \in Outcomes
    BY DEF Sale, ActivateRead, ActivateSave, vars, ledger, governing, Unwritten, IInv, TypeOK,
           Outcomes
<1>2. HandsHoldRuns'
    BY <1>1, HandsKept DEF running
<1> QED
    BY <1>1, <1>2, StepKeeps DEF running, IInv, TypeOK, ChecksAreOfRuns

-----------------------------------------------------------------------------
(* Review and acceptance.                                                  *)

\* A reviewer did none of the runs there are when the review begins.
LEMMA ReviewBeginKeeps ==
    ASSUME IInv, NEW r \in Reviewer, NEW s \in Work, ReviewBegin(r, s)
    PROVE  IInv'
<1> DEFINE record == [at |-> "SAVE", sow |-> s, batch |-> sow[s].batch]
<1>1. /\ sow \in [Work -> WorkRow] /\ reviewer \in [Reviewer -> InReview]
      /\ UNCHANGED <<ledger, running, planner, verifier, accepter>>
      /\ reviewer' = [reviewer EXCEPT ![r] = record]
    BY DEF IInv, TypeOK, ReviewBegin
<1>2. sow[s].batch \in Batch /\ sow[s].runs \in Seq(RunRow)
    BY <1>1 DEF WorkRow
<1>3. Independent(s, sow[s].batch.run, r)
  <2>1. sow[s].batch.run \in Runs(s)
    BY <1>2, CompletedRunIsCompleted DEF ReviewBegin, IInv, ChecksAreOfRuns
  <2>2. \A i \in Runs(s) : sow[s].runs[i].actor # r
    BY DEF ReviewBegin, AllPerformers, Performers
  <2> QED
    BY <1>1, <2>1, <2>2, RunsAreNumbered DEF Independent
<1>4. record \in InReview
    BY <1>2 DEF InReview
<1>5. TypeOK'
    BY <1>1, <1>4 DEF IInv, TypeOK, ledger, running
<1>6. RowsAreIndependent'
    BY <1>1, <1>3 DEF IInv, RowsAreIndependent, Independent, Runs, ledger
<1>7. HandsHoldRuns' /\ UnbornIsEmpty' /\ ChecksAreOfRuns' /\ AcceptedHasRow' /\ AcceptanceIsBacked'
    BY <1>1 DEF IInv, HandsHoldRuns, Holds, UnbornIsEmpty, ChecksAreOfRuns, AcceptedHasRow,
                AcceptanceIsBacked, Backed, Replenished, MustReplenish, Exists, Runs, ledger,
                running
<1> QED
    BY <1>5, <1>6, <1>7 DEF IInv

\* A review that accepts a work leaves its row, whatever became of the work.
LEMMA ReviewSaveKeeps ==
    ASSUME IInv, NEW r \in Reviewer, ReviewSave(r)
    PROVE  IInv'
<1> DEFINE s == reviewer[r].sow
           held == reviewer[r].batch
           state == IF held.passed THEN "ACCEPTED" ELSE "CHANGES_REQUESTED"
           new == [sow |-> s, n |-> held.n, run |-> held.run,
                   decision |-> Decision(held), by |-> r]
           row == [sow[s] EXCEPT !.state = state]
<1>1. /\ sow \in [Work -> WorkRow] /\ reviewer \in [Reviewer -> InReview]
      /\ reviews \subseteq ReviewRow
      /\ UNCHANGED <<stock, outcome, acceptance, running, planner, verifier, accepter>>
      /\ reviewer' = [reviewer EXCEPT ![r] = Reviewing]
      /\ reviewer[r].at = "SAVE" /\ reviews' = reviews \cup {new}
    BY DEF IInv, TypeOK, ReviewSave
<1>2. s \in Work /\ Independent(s, held.run, r) /\ held \in Batch /\ sow[s] \in WorkRow
    BY <1>1 DEF IInv, RowsAreIndependent, InReview
<1>3. sow' = [sow EXCEPT ![s] = row]
    BY <1>1, <1>2 DEF ReviewSave, WorkRow
<1>4. /\ row \in WorkRow /\ row.state = state /\ row.runs = sow[s].runs
      /\ row.batch = sow[s].batch /\ row.state # "NONE"
    BY <1>2 DEF WorkRow, State
<1>5. new \in ReviewRow /\ new.sow = s /\ new.run = held.run /\ new.by = r
    BY <1>2 DEF ReviewRow, Batch, Decision
<1>6. state = "ACCEPTED" => new.decision = "accepted"
    BY DEF Decision
<1> HIDE DEF row, new, state
<1>7. /\ sow'[s] = row /\ \A t \in Work \ {s} : sow'[t] = sow[t]
      /\ sow' \in [Work -> WorkRow]
    BY <1>1, <1>2, <1>3, <1>4
<1>8. \A t \in Work : sow'[t].runs = sow[t].runs /\ Runs(t)' = Runs(t)
    BY <1>4, <1>7 DEF Runs
<1>9. Growing
    BY <1>1, <1>8 DEF Growing, Grown
<1>10. TypeOK'
  <2>1. reviewer' \in [Reviewer -> InReview]
    BY <1>1, NothingType DEF Reviewing, InReview
  <2> QED
    BY <1>1, <1>5, <1>7, <2>1 DEF IInv, TypeOK, running
<1>11. HandsHoldRuns' /\ ChecksAreOfRuns' /\ UnbornIsEmpty'
    BY <1>1, <1>4, <1>7, <1>8 DEF IInv, HandsHoldRuns, Holds, UnbornIsEmpty, ChecksAreOfRuns, Exists,
                                 running
<1>12. RowsAreIndependent'
  <2>1. ASSUME NEW t \in Work, NEW n, NEW actor, Independent(t, n, actor)
        PROVE  Independent(t, n, actor)'
    BY <1>1, <1>9, <2>1, GrowingKeeps
  <2>2. ASSUME NEW old \in reviews'
        PROVE  Independent(old.sow, old.run, old.by)'
    <3>1. old.sow \in Work /\ Independent(old.sow, old.run, old.by)
      BY <1>1, <1>2, <1>5, <2>2 DEF IInv, RowsAreIndependent, ReviewRow
    <3> QED
      BY <2>1, <3>1
  <2>3. ASSUME NEW q \in Reviewer, reviewer'[q].at = "SAVE"
        PROVE  /\ reviewer'[q].sow \in Work
               /\ Independent(reviewer[q].sow, reviewer[q].batch.run, q)'
    <3>1. reviewer'[q] = reviewer[q]
      BY <1>1, <2>3 DEF Reviewing
    <3>2. PICK t, n : /\ t \in Work /\ t = reviewer[q].sow /\ n = reviewer[q].batch.run
                      /\ Independent(t, n, q)
      BY <2>3, <3>1 DEF IInv, RowsAreIndependent
    <3>3. Independent(t, n, q)'
      BY <2>1, <3>2
    <3> QED
      BY <3>1, <3>2, <3>3 DEF Independent, Runs
  <2> QED
    BY <2>2, <2>3 DEF RowsAreIndependent
<1>13. AcceptedHasRow'
    BY <1>1, <1>4, <1>5, <1>6, <1>7 DEF IInv, AcceptedHasRow
<1>14. AcceptanceIsBacked'
  <2>1. accepter.sows \subseteq Work
    BY DEF IInv, TypeOK, InAcceptance
  <2> QED
    BY <1>1, <1>9, <2>1, GrowingKeeps DEF IInv, AcceptanceIsBacked
<1> QED
    BY <1>10, <1>11, <1>12, <1>13, <1>14 DEF IInv

\* The principal did none of the runs there are when accept() begins, and later
\* runs come after the reviewed one.
LEMMA AcceptKeeps ==
    ASSUME IInv, Accept
    PROVE  IInv'
<1>1. /\ sow \in [Work -> WorkRow] /\ reviews \subseteq ReviewRow /\ stock \in Nat
      /\ accepter \in InAcceptance /\ Accepting \in InAcceptance
      /\ Accepting.at = "IDLE" /\ Accepting.sows = {}
    BY DEF IInv, TypeOK, InAcceptance, Accepting
<1>2. /\ UNCHANGED <<stock, sow, reviews, running, verifier, reviewer>>
      /\ outcome' \in Outcomes
    BY DEF IInv, TypeOK, Accept, AcceptBegin, AcceptProof, AcceptSave, ledger, Outcomes
<1>3. ASSUME NEW s PROVE /\ Backed(s)' <=> Backed(s)
                         /\ Replenished(s)' <=> Replenished(s)
    BY <1>2 DEF Backed, Replenished, MustReplenish, Runs
<1>4. /\ HandsHoldRuns' /\ UnbornIsEmpty' /\ ChecksAreOfRuns' /\ RowsAreIndependent'
      /\ AcceptedHasRow'
    BY <1>2 DEF IInv, HandsHoldRuns, Holds, UnbornIsEmpty, ChecksAreOfRuns, AcceptedHasRow,
                RowsAreIndependent, Independent, Exists, Runs, running
<1>5. ASSUME accepter' \in InAcceptance, AcceptanceIsBacked' PROVE IInv'
    BY <1>2, <1>4, <1>5 DEF IInv, TypeOK, running
<1>6. CASE AcceptBegin
  <2>1. PICK sows \in SUBSET Work :
           /\ accepter' = [Accepting EXCEPT !.at = "PROOF", !.sows = sows, !.stock = stock]
           /\ \A s \in sows : sow[s].state = "ACCEPTED"
    BY <1>6 DEF AcceptBegin
  <2>2. accepter' \in InAcceptance /\ accepter'.sows = sows /\ accepter'.at = "PROOF"
    BY <1>1, <2>1 DEF InAcceptance
  <2>3. ASSUME NEW s \in sows PROVE Backed(s)
    <3>1. PICK row \in reviews : row.sow = s /\ row.decision = "accepted"
      BY <2>1 DEF IInv, AcceptedHasRow
    <3>2. Independent(s, row.run, row.by)
      BY <3>1 DEF IInv, RowsAreIndependent
    <3>3. \A i \in Runs(s) : sow[s].runs[i].actor # Principal
      BY <1>6 DEF AcceptBegin, AllPerformers, Performers
    <3>4. row.run \in Runs(s) /\ \A i \in 1..row.run : i \in Runs(s)
      BY <1>1, <3>2, RunsAreNumbered DEF Independent
    <3>5. \A i \in 1..row.run : sow[s].runs[i].actor \notin {row.by, Principal}
      BY <3>2, <3>3, <3>4 DEF Independent
    <3> QED
      BY <3>1, <3>4, <3>5 DEF Backed
  <2>4. acceptance' = acceptance
    BY <1>6 DEF AcceptBegin, ledger
  <2> QED
    BY <1>3, <1>5, <2>2, <2>3, <2>4 DEF IInv, AcceptanceIsBacked
<1>7. CASE AcceptProof
  <2>1. acceptance' = acceptance /\ accepter.at = "PROOF"
    BY <1>7 DEF AcceptProof, ledger
  <2>2. CASE accepter' = Accepting
    BY <1>1, <1>3, <1>5, <2>1, <2>2 DEF IInv, AcceptanceIsBacked
  <2>3. CASE accepter' # Accepting
    <3>1. /\ \A s \in accepter.sows : Delivered(s)
          /\ accepter' = [accepter EXCEPT !.at = "SAVE"]
      BY <1>7, <2>3 DEF AcceptProof
    <3>2. /\ accepter' \in InAcceptance /\ accepter'.sows = accepter.sows
          /\ accepter.sows \subseteq Work
      BY <1>1, <3>1 DEF InAcceptance
    <3>3. ASSUME NEW s \in accepter.sows PROVE Replenished(s)
      <4>1. sow[s].runs \in Seq(RunRow)
        BY <1>1, <3>2 DEF WorkRow
      <4> QED
        BY <3>1, <3>2, <4>1, CompletedRunIsCompleted DEF Delivered, Replenished
    <3> QED
      BY <1>3, <1>5, <2>1, <3>2, <3>3 DEF IInv, AcceptanceIsBacked
  <2> QED
    BY <2>2, <2>3
<1>8. CASE AcceptSave
  <2>1. accepter' = Accepting /\ acceptance' = accepter.sows /\ accepter.at = "SAVE"
    BY <1>8 DEF AcceptSave
  <2>2. accepter.sows \subseteq Work
    BY <1>1 DEF InAcceptance
  <2> QED
    BY <1>1, <1>3, <1>5, <2>1, <2>2 DEF IInv, AcceptanceIsBacked
<1> QED
    BY <1>6, <1>7, <1>8 DEF Accept

LEMMA Kept == IInv /\ [Next]_vars => IInv'
    BY RestockKeeps, PlannerKeeps, RunKeeps, SuperviseKeeps, VerifyKeeps, OthersKeep,
       ReviewBeginKeeps, ReviewSaveKeeps, AcceptKeeps DEF Next, Shelf, Plan, Review

-----------------------------------------------------------------------------
(* Theorems.                                                               *)

\* The inductive invariant of a governed outcome, with any number of reviewers and
\* of workers that come back late.
THEOREM Invariance == Spec => []IInv
<1>1. Init => IInv
  <2> SUFFICES ASSUME Init PROVE IInv
    OBVIOUS
  <2>1. \A s \in Work : sow[s] = NoWork /\ sow[s].state = "NONE" /\ sow[s].batch.n = 0
    BY DEF Init, NoWork, NoBatch
  <2>2. TypeOK
    BY NothingType, GovernanceAssumption
       DEF Init, TypeOK, Check, Checking, InReview, Reviewing, Accepting, InAcceptance,
           Working, InRun, Place, Outcomes
  <2> QED
    BY <2>1, <2>2 DEF Init, IInv, HandsHoldRuns, UnbornIsEmpty, ChecksAreOfRuns,
       RowsAreIndependent, AcceptedHasRow, AcceptanceIsBacked, Working, Checking, Reviewing,
       Accepting
<1> QED
    BY <1>1, Kept, PTL DEF Spec

\* Every work an acceptance rests on has a review that accepted it, by somebody who
\* did no run of it up to the reviewed one, nor did the principal, and it was
\* replenished if it had to be, whoever saved what in between (organization.accept).
THEOREM AcceptancesAreEarned == Spec => []AcceptanceIsEarned
<1>1. IInv => AcceptanceIsEarned
    BY DEF IInv, AcceptanceIsBacked, Backed, Replenished, AcceptanceIsEarned
<1> QED
    BY <1>1, Invariance, PTL

\* Accepted work and an accepted outcome are reopened by nobody who came after
\* (organization.review, run_assignment, verify_sow, activate_outcome).
THEOREM AcceptedIsFinal == Spec => AcceptedSettles
<1>1. ASSUME IInv, Next, NEW t \in Work, Settled(t)
      PROVE  Settled(t)'
  <2>1. /\ sow \in [Work -> WorkRow] /\ Manual \subseteq Work /\ Signal \subseteq Work
        /\ worker \in [Worker -> InRun] /\ reviewer \in [Reviewer -> InReview]
        /\ sow[t].state = "ACCEPTED"
    BY <1>1 DEF IInv, TypeOK, Work, Settled
  <2>2. /\ \A w \in Worker : worker[w].at \notin {"IDLE", "GONE"} => worker[w].sow # t
        /\ \A r \in Reviewer : reviewer[r].at = "SAVE" => reviewer[r].sow # t
        /\ supervisor.at = "SAVE" => supervisor.sow # t
    BY <1>1 DEF Settled, InHand
  <2>3. sow'[t].state = "ACCEPTED"
    <3>1. ASSUME NEW s \in Work, NEW i \in Runs(s), Restock(s, i)
          PROVE  sow'[t].state = "ACCEPTED"
      BY <2>1, <3>1 DEF Restock, WorkRow
    <3>2. CASE Plan \/ \E g \in Signal : PulseCreate(g)
      BY <2>1, <3>2 DEF Plan, Create, Ready, Assign, PlannerWrites, PulseCreate, ActivateRead,
                        ActivateSave, Exists, ledger
    <3>3. ASSUME NEW w \in Worker, Run(w) PROVE sow'[t].state = "ACCEPTED"
      <4>1. \/ UNCHANGED sow
            \/ /\ worker[w].at \notin {"IDLE", "GONE"}
               /\ \A x \in Work : x # worker[w].sow => sow'[x] = sow[x]
        BY <2>1, <3>3 DEF Run, Prepare, AcquireAttempt, ReadBackAttempt, SaveRunning, RunEnds,
                          WorkerLeaves, Records, ledger
      <4> QED
        BY <2>1, <2>2, <4>1
    <3>4. CASE Supervise
      <4>1. \/ UNCHANGED sow
            \/ supervisor.at = "SAVE" /\ \A x \in Work : x # supervisor.sow => sow'[x] = sow[x]
        BY <2>1, <3>4 DEF Supervise, RecoverRead, RecoverSave, Records, ledger
      <4> QED
        BY <2>1, <2>2, <4>1
    <3>5. ASSUME NEW v \in Verifier, VerifyRecord(v) PROVE sow'[t].state = "ACCEPTED"
      BY <2>1, <3>5 DEF VerifyRecord, WorkRow
    <3>6. ASSUME NEW r \in Reviewer, ReviewSave(r) PROVE sow'[t].state = "ACCEPTED"
      BY <2>1, <2>2, <3>6 DEF ReviewSave
    <3>7. CASE UNCHANGED sow
      BY <2>1, <3>7
    <3> QED
      BY <1>1, <3>1, <3>2, <3>3, <3>4, <3>5, <3>6, <3>7
         DEF Next, Shelf, Sale, Verify, VerifyBegin, VerifyCheck, Crash, Review, ReviewBegin,
             Accept, AcceptBegin, AcceptProof, AcceptSave, ledger
  <2>4. ASSUME NEW w \in Worker, worker'[w].at \notin {"IDLE", "GONE"} PROVE worker'[w].sow # t
    <3>1. CASE worker'[w] = worker[w]
      BY <2>2, <2>4, <3>1
    <3>2. CASE Run(w)
      <4>1. ASSUME NEW s \in Work, NEW i \in Runs(s), Prepare(w, s, i)
            PROVE  worker'[w].sow # t
        BY <2>1, <4>1 DEF Prepare, Working
      <4>2. ASSUME AcquireAttempt(w) \/ ReadBackAttempt(w) \/ SaveRunning(w)
            PROVE  worker'[w].sow # t
        <5>1. worker[w].at \notin {"IDLE", "GONE"}
          BY <4>2 DEF AcquireAttempt, ReadBackAttempt, SaveRunning
        <5>2. worker'[w].sow = worker[w].sow \/ worker'[w] = Gone
          BY <2>1, <4>2 DEF AcquireAttempt, ReadBackAttempt, SaveRunning, WorkerGoes, InRun
        <5> QED
          BY <2>2, <2>4, <5>1, <5>2 DEF Gone, Working
      <4>3. CASE RunEnds(w) \/ WorkerLeaves(w)
        BY <2>1, <2>4, <4>3 DEF RunEnds, WorkerLeaves, Gone, Working
      <4> QED
        BY <3>2, <4>1, <4>2, <4>3 DEF Run
    <3>3. \/ UNCHANGED worker
          \/ \E u \in Worker : Run(u)
      BY <1>1 DEF Next, Shelf, Plan, Supervise, Accept, Verify, Review, Sale, Restock,
                  ActivateRead, ActivateSave, Create, Ready, Assign, PlannerWrites, RecoverRead,
                  RecoverSave, VerifyBegin, VerifyCheck, VerifyRecord, Crash, ReviewBegin,
                  ReviewSave, AcceptBegin, AcceptProof, AcceptSave, PulseCreate, running
    <3>4. ASSUME NEW u \in Worker, u # w, Run(u) PROVE worker'[w] = worker[w]
      BY <2>1, <3>4 DEF Run, Prepare, AcquireAttempt, ReadBackAttempt, SaveRunning, RunEnds,
                        WorkerLeaves, WorkerGoes
    <3> QED
      BY <3>1, <3>2, <3>3, <3>4
  <2>5. ASSUME NEW r \in Reviewer, reviewer'[r].at = "SAVE" PROVE reviewer'[r].sow # t
    <3>1. CASE UNCHANGED reviewer
      BY <2>2, <2>5, <3>1
    <3>2. ASSUME NEW q \in Reviewer, NEW s \in Work, ReviewBegin(q, s)
          PROVE  reviewer'[r].sow # t
      BY <2>1, <2>2, <2>5, <3>2 DEF ReviewBegin
    <3>3. ASSUME NEW q \in Reviewer, ReviewSave(q) PROVE reviewer'[r].sow # t
      BY <2>1, <2>2, <2>5, <3>3 DEF ReviewSave, Reviewing
    <3>4. UNCHANGED reviewer \/ \E q \in Reviewer : Review(q)
      BY <1>1 DEF Next, Shelf, Plan, Run, Supervise, Accept, Verify, Sale, Restock,
                  ActivateRead, ActivateSave, Create, Ready, Assign, PlannerWrites, Prepare,
                  AcquireAttempt, ReadBackAttempt, SaveRunning, RunEnds, WorkerLeaves, RecoverRead,
                  RecoverSave, VerifyBegin, VerifyCheck, VerifyRecord, Crash, AcceptBegin,
                  AcceptProof, AcceptSave, PulseCreate, governing
    <3> QED
      BY <3>1, <3>2, <3>3, <3>4 DEF Review
  <2>6. ASSUME supervisor'.at = "SAVE" PROVE supervisor'.sow # t
    <3>1. ASSUME NEW s \in Work, NEW i \in Runs(s), RecoverRead(s, i) PROVE supervisor'.sow # t
      BY <2>1, <3>1 DEF RecoverRead
    <3>2. UNCHANGED supervisor \/ Supervise
      BY <1>1 DEF Next, Shelf, Plan, Run, Accept, Verify, Review, Sale, Restock,
                  ActivateRead, ActivateSave, Create, Ready, Assign, PlannerWrites, Prepare,
                  AcquireAttempt, ReadBackAttempt, SaveRunning, RunEnds, WorkerLeaves,
                  VerifyBegin, VerifyCheck, VerifyRecord, Crash, ReviewBegin, ReviewSave,
                  AcceptBegin, AcceptProof, AcceptSave, PulseCreate, running
    <3>3. RecoverSave => supervisor' = Working
      BY DEF RecoverSave
    <3> QED
      BY <2>2, <2>6, <3>1, <3>2, <3>3 DEF Supervise, Working
  <2> QED
    BY <2>3, <2>4, <2>5, <2>6 DEF Settled, InHand
<1>2. ASSUME IInv, Next, OutcomeSettled PROVE OutcomeSettled'
  <2>1. /\ verifier \in [Verifier -> Check]
        /\ outcome = "ACCEPTED" /\ planner = "IDLE"
        /\ \A v \in Verifier : verifier[v].at # "CHECK"
    BY <1>2 DEF IInv, TypeOK, OutcomeSettled
  <2>2. outcome' = "ACCEPTED" /\ planner' = "IDLE"
    BY <1>2, <2>1 DEF Next, Shelf, Plan, Run, Supervise, Accept, Verify, Review, Sale, Restock,
                  ActivateRead, ActivateSave, Create, Ready, Assign, PlannerWrites, Prepare,
                  AcquireAttempt, ReadBackAttempt, SaveRunning, RunEnds, WorkerLeaves,
                  RecoverRead, RecoverSave, VerifyBegin, VerifyCheck, VerifyRecord, Crash,
                  ReviewBegin, ReviewSave, AcceptBegin, AcceptProof, AcceptSave, PulseCreate,
                  ledger, governing
  <2>3. ASSUME NEW v \in Verifier PROVE verifier'[v].at # "CHECK"
    <3>1. UNCHANGED verifier \/ \E u \in Verifier : VerifyCheck(u) \/ VerifyRecord(u) \/ Crash(u)
      BY <1>2, <2>1 DEF Next, Shelf, Plan, Run, Supervise, Accept, Verify, Review, Sale, Restock,
                  ActivateRead, ActivateSave, Create, Ready, Assign, PlannerWrites, Prepare,
                  AcquireAttempt, ReadBackAttempt, SaveRunning, RunEnds, WorkerLeaves,
                  RecoverRead, RecoverSave, VerifyBegin, ReviewBegin, ReviewSave, AcceptBegin,
                  AcceptProof, AcceptSave, PulseCreate, governing
    <3>2. ASSUME NEW u \in Verifier, VerifyCheck(u) PROVE FALSE
      BY <2>1, <3>2 DEF VerifyCheck
    <3>3. ASSUME NEW u \in Verifier, VerifyRecord(u) \/ Crash(u)
          PROVE  verifier'[v] \in {verifier[v], Checking}
      BY <2>1, <3>3 DEF VerifyRecord, Crash
    <3> QED
      BY <2>1, <3>1, <3>2, <3>3 DEF Checking
  <2> QED
    BY <2>2, <2>3 DEF OutcomeSettled
<1>3. IInv /\ [Next]_vars => [/\ \A s \in Work : Settled(s) => Settled(s)'
                              /\ OutcomeSettled => OutcomeSettled']_vars
    BY <1>1, <1>2
<1> QED
    BY <1>3, Invariance, PTL DEF Spec, AcceptedSettles
=============================================================================
