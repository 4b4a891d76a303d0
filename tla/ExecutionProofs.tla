--------------------------- MODULE ExecutionProofs ---------------------------
(***************************************************************************)
(* The safety of the execution fence for any number of processes,          *)
(* supervisors, actors and assignments, any lease and attempt durations    *)
(* and any bound on time and tokens.                                       *)
(*                                                                         *)
(* CurrentAttemptIsNewest and the other invariants of Execution are not    *)
(* inductive: a late commit is harmless only because the attempt a process *)
(* carries is an attempt of the assignment it runs, and a recovery only    *)
(* because everything on a supervisor's worklist has expired already.      *)
(* IInv says both.                                                         *)
(***************************************************************************)
EXTENDS Execution, TLAPS

(* Every attempt was given a token of the counter. *)
Minted ==
  \A t \in Token :
    /\ attempt[t].of = NoAssignment <=> attempt[t].status = "NONE"
    /\ attempt[t].of # NoAssignment => t <= tok

(* A process inside run_assignment works for an assignment, and from the   *)
(* read-back to the terminal write carries one of its attempts.            *)
RunOK(p) ==
  /\ run[p].pc \notin {"idle", "dead"} => run[p].asg \in Assignment
  /\ run[p].pc \in {"save", "invoke", "written", "commit"} =>
       run[p].att \in Token /\ attempt[run[p].att].of = run[p].asg
  /\ run[p].pc \in {"written", "commit"} => run[p].outcome \in Outcome

(* Whatever a supervisor has listed is an attempt that has expired. *)
Listed(s) == sup[s].todo \cup (IF sup[s].pc \in {"lost", "drafted"} THEN {sup[s].att} ELSE {})

SupOK(s) ==
  \A t \in Listed(s) :
    t \in Token /\ attempt[t].of \in Assignment /\ Expired(attempt[t])

FenceInv ==
  /\ CurrentAttemptIsNewest
  /\ OnlyExpiredIsSuperseded
  /\ RecoveredOnlyAfterExpiry
  /\ WorkerReceiptIsFenced

IInv ==
  /\ TypeOK
  /\ Minted
  /\ \A p \in Process : RunOK(p)
  /\ \A s \in Supervisor : SupOK(s)
  /\ FenceInv

-----------------------------------------------------------------------------
(* Typing *)

(* The ledger a new workspace starts with is well typed. *)
LEMMA InitType == ASSUME ExecutionAssumption PROVE Init => TypeOK
BY DEF ExecutionAssumption, Init, TypeOK, Token, Lease, Attempt, Row, Run, Sup,
       NoLease, NoAttempt, NotRunning, Watching, AssignmentState, SowState,
       RunStep, SupStep, Terminal

(* What a step may put into the record of a process. *)
LEMMA RunUpdates ==
  ASSUME NEW r \in Run, NEW pc \in RunStep
  PROVE  /\ NotRunning \in Run /\ Killed \in Run
         /\ [r EXCEPT !.pc = pc] \in Run
         /\ \A a \in Assignment : [r EXCEPT !.pc = pc, !.asg = a] \in Run
         /\ \A t \in Nat : [r EXCEPT !.pc = pc, !.lease = t] \in Run
         /\ \A t \in Nat : [r EXCEPT !.pc = pc, !.att = t] \in Run
         /\ \A o \in Outcome : [r EXCEPT !.pc = pc, !.outcome = o] \in Run
         /\ \A j \in ReceiptStatus \cup {"none"} : [r EXCEPT !.pc = pc, !.json = j] \in Run
<1> USE DEF Run
<1>1. NotRunning \in Run /\ Killed \in Run
  BY DEF RunStep, NotRunning, Killed
<1>2. [r EXCEPT !.pc = pc] \in Run
  OBVIOUS
<1>3. \A a \in Assignment : [r EXCEPT !.pc = pc, !.asg = a] \in Run
  OBVIOUS
<1>4. \A t \in Nat : [r EXCEPT !.pc = pc, !.lease = t] \in Run
  OBVIOUS
<1>5. \A t \in Nat : [r EXCEPT !.pc = pc, !.att = t] \in Run
  OBVIOUS
<1>6. \A o \in Outcome : [r EXCEPT !.pc = pc, !.outcome = o] \in Run
  OBVIOUS
<1>7. \A j \in ReceiptStatus \cup {"none"} : [r EXCEPT !.pc = pc, !.json = j] \in Run
  OBVIOUS
<1> QED
  BY <1>1, <1>2, <1>3, <1>4, <1>5, <1>6, <1>7

(* The places of run_assignment, spelt out for the provers. *)
LEMMA RunSteps ==
  RunStep = {"idle", "lease", "leased", "prepare", "attempt", "attempted",
             "save", "invoke", "written", "commit", "release", "dead"}
BY DEF RunStep

(* What a step may put into the record of a supervisor. *)
LEMMA SupUpdates ==
  ASSUME NEW todo \in SUBSET Token
  PROVE  /\ Watching \in Sup
         /\ Resume(todo) \in Sup
         /\ [Watching EXCEPT !.pc = "next", !.todo = todo] \in Sup
         /\ \A t \in Nat : [pc |-> "lost", att |-> t, todo |-> todo] \in Sup
BY DEF Sup, SupStep, Watching, Resume

(* Every step of a worker, a supervisor or the clock keeps the types. *)
LEMMA StepType ==
  ASSUME ExecutionAssumption, TypeOK,
         \A p \in Process : RunOK(p), \A s \in Supervisor : SupOK(s),
         [Next]_vars
  PROVE  TypeOK'
<1> USE DEF TypeOK, ledger
<1>1. CASE UNCHANGED vars
  BY <1>1 DEF vars
<1>2. CASE Tick
  BY <1>2 DEF Tick
<1>3. ASSUME NEW p \in Process, Advance(p) PROVE TypeOK'
  <2> USE DEF At, Asg, LeaseOf
  <2>1. CASE AcquireLease(p)
    <3>1. run[p].asg \in Assignment
      BY <2>1 DEF AcquireLease, RunOK
    <3>2. CASE Renew(p)
      <4>1. lease' \in [Actor -> Lease]
        BY SMTT(30), <3>1, <3>2 DEF Renew, Lease, ExecutionAssumption
      <4>2. run' \in [Process -> Run]
        BY <2>1, RunUpdates, RunSteps DEF AcquireLease, Goto
      <4> QED
        BY <2>1, <3>2, <4>1, <4>2 DEF AcquireLease, Renew
    <3>3. CASE TakeOver(p)
      <4>1. lease' \in [Actor -> Lease]
        BY <3>1, <3>3 DEF TakeOver, Lease, ExecutionAssumption
      <4>2. tok' \in 0 .. MaxToken
        BY <3>3 DEF TakeOver, ExecutionAssumption
      <4>3. run' \in [Process -> Run]
        BY <2>1, RunUpdates, RunSteps DEF AcquireLease, Goto
      <4> QED
        BY <2>1, <4>1, <4>2, <4>3 DEF AcquireLease
    <3> QED
      BY <2>1, <3>2, <3>3 DEF AcquireLease
  <2>2. CASE LeaseRefused(p)
    BY <2>2, RunUpdates, RunSteps DEF LeaseRefused
  <2>3. CASE ReadBackLease(p)
    <3>1. run[p].asg \in Assignment
      BY <2>3 DEF ReadBackLease, RunOK
    <3>2. LeaseOf(p).token \in Nat
      BY <3>1 DEF ExecutionAssumption, Lease
    <3>3. run' \in [Process -> Run]
      BY <2>3, <3>2, RunUpdates, RunSteps DEF ReadBackLease
    <3> QED
      BY <2>3, <3>3 DEF ReadBackLease
  <2>4. CASE Prepare(p)
    BY <2>4, RunUpdates, RunSteps DEF Prepare, Goto
  <2>5. CASE AcquireAttempt(p)
    <3>1. run[p].asg \in Assignment
      BY <2>5 DEF AcquireAttempt, RunOK
    <3>2. tok + 1 \in Token /\ tok' \in 0 .. MaxToken
      BY <2>5 DEF AcquireAttempt, Token, ExecutionAssumption
    <3>3. attempt' \in [Token -> Attempt]
      BY <2>5, <3>1, <3>2 DEF AcquireAttempt, Attempt, ExecutionAssumption, Run
    <3>4. current' \in [Assignment -> 0 .. MaxToken]
      BY <2>5, <3>1, <3>2 DEF AcquireAttempt, Token
    <3>5. run' \in [Process -> Run]
      BY <2>5, RunUpdates, RunSteps DEF AcquireAttempt, Goto
    <3> QED
      BY <2>5, <3>2, <3>3, <3>4, <3>5 DEF AcquireAttempt
  <2>6. CASE ReadBackAttempt(p)
    <3>1. run[p].asg \in Assignment
      BY <2>6 DEF ReadBackAttempt, RunOK
    <3>2. current[Asg(p)] \in Nat
      BY <3>1 DEF ExecutionAssumption
    <3>3. run' \in [Process -> Run]
      BY <2>6, <3>2, RunUpdates, RunSteps DEF ReadBackAttempt
    <3> QED
      BY <2>6, <3>3 DEF ReadBackAttempt
  <2>7. CASE SaveRunning(p)
    <3>1. run' \in [Process -> Run]
      BY <2>7, RunUpdates, RunSteps DEF SaveRunning, Goto
    <3>2. state' \in [Assignment -> AssignmentState] /\ sow' \in [Assignment -> SowState]
      BY <2>7 DEF SaveRunning, AssignmentState, SowState
    <3> QED
      BY <2>7, <3>1, <3>2 DEF SaveRunning
  <2>8. CASE Invoke(p)
    <3>1. PICK o \in Outcome :
            /\ disk' = [disk EXCEPT ![run[p].asg] = o]
            /\ run' = [run EXCEPT ![p] = [@ EXCEPT !.pc = "written", !.outcome = o]]
      BY <2>8 DEF Invoke
    <3>2. disk' \in [Assignment -> ReceiptStatus \cup {"none"}]
      BY <3>1 DEF ReceiptStatus
    <3>3. run' \in [Process -> Run]
      BY <3>1, RunUpdates, RunSteps
    <3> QED
      BY <2>8, <3>2, <3>3 DEF Invoke
  <2>9. CASE ReadReceipt(p)
    <3>1. disk[run[p].asg] \in ReceiptStatus \cup {"none"}
      BY <2>9 DEF ReadReceipt, RunOK
    <3>2. run' \in [Process -> Run]
      BY <2>9, <3>1, RunUpdates, RunSteps DEF ReadReceipt
    <3> QED
      BY <2>9, <3>2 DEF ReadReceipt
  <2>10. CASE SnapshotFault(p)
    <3>1. disk' \in [Assignment -> ReceiptStatus \cup {"none"}]
      BY <2>10 DEF SnapshotFault, ReceiptStatus, Outcome
    <3>2. run' \in [Process -> Run]
      BY <2>10, RunUpdates, RunSteps DEF SnapshotFault, Outcome
    <3> QED
      BY <2>10, <3>1, <3>2 DEF SnapshotFault
  <2>11. CASE Commit(p)
    <3>1. /\ run[p].asg \in Assignment
          /\ run[p].att \in Token
          /\ run[p].outcome \in Outcome
      BY <2>11 DEF Commit, RunOK
    <3>2. receipts' \in SUBSET Row
      BY <2>11, <3>1 DEF Commit, Finish, Row, Run
    <3>3. state' \in [Assignment -> AssignmentState] /\ sow' \in [Assignment -> SowState]
      BY <2>11, <3>1 DEF Commit, Finish, AssignmentAfter, SowAfter, Outcome,
                         AssignmentState, Terminal, SowState
    <3>4. attempt' \in [Token -> Attempt] /\ current' \in [Assignment -> 0 .. MaxToken]
      BY SMTT(30), <2>11, <3>1 DEF Commit, Finish, ReleaseAttempt, Attempt, ExecutionAssumption
    <3>5. run' \in [Process -> Run]
      BY <2>11, RunUpdates, RunSteps DEF Commit, Goto
    <3> QED
      BY <2>11, <3>2, <3>3, <3>4, <3>5 DEF Commit
  <2>12. CASE CommitRefused(p)
    BY <2>12, RunUpdates, RunSteps DEF CommitRefused, Goto
  <2>13. CASE Raise(p)
    BY <2>13, RunUpdates, RunSteps DEF Raise, Goto
  <2>14. CASE ReleaseLease(p)
    <3>1. lease' \in [Actor -> Lease]
      BY <2>14 DEF ReleaseLease, NoLease, Lease
    <3>2. run' \in [Process -> Run]
      BY <2>14, RunUpdates, RunSteps DEF ReleaseLease
    <3> QED
      BY <2>14, <3>1, <3>2 DEF ReleaseLease
  <2> QED
    BY <1>3, <2>1, <2>2, <2>3, <2>4, <2>5, <2>6, <2>7, <2>8, <2>9, <2>10, <2>11,
       <2>12, <2>13, <2>14 DEF Advance
<1>4. ASSUME NEW p \in Process, Kill(p) PROVE TypeOK'
  BY <1>4, RunUpdates, RunSteps DEF Kill
<1>5. ASSUME NEW p \in Process, NEW a \in Assignment, BeginRun(p, a) PROVE TypeOK'
  <2>1. run' \in [Process -> Run]
    BY <1>5, RunUpdates, RunSteps DEF BeginRun
  <2> QED
    BY <1>5, <2>1 DEF BeginRun
<1>6. ASSUME NEW s \in Supervisor, Supervise(s) PROVE TypeOK'
  <2>1. CASE ListExpired(s)
    <3>1. PICK todo \in SUBSET Token :
            sup' = [sup EXCEPT ![s] = [Watching EXCEPT !.pc = "next", !.todo = todo]]
      BY <2>1 DEF ListExpired
    <3>2. sup' \in [Supervisor -> Sup]
      BY <3>1, SupUpdates
    <3> QED
      BY <2>1, <3>2 DEF ListExpired
  <2>2. CASE ReadAssignment(s)
    <3>1. PICK t \in sup[s].todo :
            sup' = [sup EXCEPT ![s] =
                      IF state[attempt[t].of] = "RUNNING"
                        THEN [pc |-> "lost", att |-> t, todo |-> sup[s].todo \ {t}]
                        ELSE Resume(sup[s].todo \ {t})]
      BY <2>2 DEF ReadAssignment
    <3>2. t \in Nat /\ sup[s].todo \ {t} \in SUBSET Token
      BY <3>1 DEF Sup, Token, ExecutionAssumption
    <3>3. sup' \in [Supervisor -> Sup]
      BY <3>1, <3>2, SupUpdates
    <3> QED
      BY <2>2, <3>3 DEF ReadAssignment
  <2>3. CASE DraftReceipt(s)
    <3>1. disk' \in [Assignment -> ReceiptStatus \cup {"none"}]
      BY <2>3 DEF DraftReceipt, ReceiptStatus
    <3>2. [sup[s] EXCEPT !.pc = "drafted"] \in Sup /\ Watching \in Sup
      BY DEF Sup, SupStep, Watching
    <3>3. sup' \in [Supervisor -> Sup]
      BY <2>3, <3>2 DEF DraftReceipt
    <3> QED
      BY <2>3, <3>1, <3>3 DEF DraftReceipt
  <2>4. CASE Recover(s)
    <3>1. sup[s].att \in Token /\ attempt[sup[s].att].of \in Assignment
      BY <2>4 DEF Recover, SupOK, Listed
    <3>2. receipts' \in SUBSET Row
      BY <2>4, <3>1 DEF Recover, LostRow, Row, ReceiptStatus
    <3>3. attempt' \in [Token -> Attempt]
      <4>1. attempt' = [attempt EXCEPT ![sup[s].att].status = "RECOVERED"]
        BY <2>4 DEF Recover, ReleaseAttempt
      <4> QED
        BY <3>1, <4>1 DEF Attempt
    <3>4. current' \in [Assignment -> 0 .. MaxToken]
      BY <2>4, <3>1 DEF Recover, ReleaseAttempt, ExecutionAssumption
    <3>5. state' \in [Assignment -> AssignmentState] /\ sow' \in [Assignment -> SowState]
      BY <2>4 DEF Recover, AssignmentState, Terminal, SowState
    <3>6. sup' \in [Supervisor -> Sup]
      BY <2>4 DEF Recover, Resume, Watching, Sup, SupStep
    <3> QED
      BY <2>4, <3>2, <3>3, <3>4, <3>5, <3>6 DEF Recover
  <2>5. CASE RecoverLost(s)
    <3>1. sup[s].att \in Token /\ attempt[sup[s].att].of \in Assignment
      BY <2>5 DEF RecoverLost, SupOK, Listed
    <3>2. receipts' \in SUBSET Row
      BY <2>5, <3>1 DEF RecoverLost, LostRow, Row, ReceiptStatus
    <3>3. sup' \in [Supervisor -> Sup]
      BY <2>5 DEF RecoverLost, Resume, Watching, Sup, SupStep
    <3> QED
      BY <2>5, <3>2, <3>3 DEF RecoverLost
  <2> QED
    BY <1>6, <2>1, <2>2, <2>3, <2>4, <2>5 DEF Supervise
<1>7. ASSUME NEW s \in Supervisor, Restart(s) PROVE TypeOK'
  <2>1. Watching \in Sup
    BY DEF Watching, Sup, SupStep
  <2> QED
    BY <1>7, <2>1 DEF Restart
<1> QED
  BY <1>1, <1>2, <1>3, <1>4, <1>5, <1>6, <1>7 DEF Next

-----------------------------------------------------------------------------
(* What a step does to the fence: nothing, an issue or a decision.         *)

Quiet ==
  /\ UNCHANGED <<attempt, current>>
  /\ now <= now' /\ tok <= tok'
  /\ \A r \in receipts' : r.by \in Process => r \in receipts

Issued(a) ==
  /\ ~LiveAttempt(a)
  /\ tok' = tok + 1 /\ tok + 1 \in Token
  /\ \E x \in Attempt :
       /\ x.of = a /\ x.status = "ACTIVE"
       /\ attempt' = [attempt EXCEPT ![tok + 1] = x]
  /\ current' = [current EXCEPT ![a] = tok + 1]
  /\ UNCHANGED <<now, receipts>>

Finished(a) ==
  /\ current[a] # 0
  /\ ReleaseAttempt(a, current[a], "DONE")
  /\ \E r \in Row : /\ r.of = a /\ r.att = current[a]
                    /\ receipts' = receipts \cup {r}
  /\ UNCHANGED <<now, tok>>

Recovered(a) ==
  /\ current[a] # 0
  /\ Expired(attempt[current[a]])
  /\ ReleaseAttempt(a, current[a], "RECOVERED")
  /\ \A r \in receipts' : r.by \in Process => r \in receipts
  /\ UNCHANGED <<now, tok>>

Effect ==
  \/ Quiet
  \/ \E a \in Assignment : Issued(a) \/ Finished(a) \/ Recovered(a)

(* Every step has one of these effects.                                    *)
LEMMA StepEffect ==
  ASSUME ExecutionAssumption, IInv, [Next]_vars
  PROVE  Effect
<1> USE DEF TypeOK, IInv, ledger
<1>0. now \in Nat /\ tok \in Nat /\ now <= now /\ tok <= tok
  BY DEF ExecutionAssumption
<1>1. CASE UNCHANGED vars
  BY <1>0, <1>1 DEF vars, Effect, Quiet
<1>2. CASE Tick
  BY <1>0, <1>2 DEF Tick, Effect, Quiet
<1>3. ASSUME NEW p \in Process, Advance(p) PROVE Effect
  <2>1. CASE AcquireLease(p)
    BY <1>0, <2>1 DEF AcquireLease, Renew, TakeOver, Effect, Quiet
  <2>2. CASE \/ LeaseRefused(p) \/ ReadBackLease(p) \/ Prepare(p) \/ ReadBackAttempt(p)
            \/ SaveRunning(p) \/ Invoke(p) \/ ReadReceipt(p) \/ SnapshotFault(p)
            \/ CommitRefused(p) \/ Raise(p) \/ ReleaseLease(p)
    <3>1. UNCHANGED <<now, tok, attempt, current, receipts>>
      BY <2>2 DEF LeaseRefused, ReadBackLease, Prepare, ReadBackAttempt, SaveRunning,
                  Invoke, ReadReceipt, SnapshotFault, CommitRefused, Raise, ReleaseLease
    <3> QED
      BY <1>0, <3>1 DEF Effect, Quiet
  <2>3. CASE AcquireAttempt(p)
    <3> DEFINE x == [of |-> Asg(p), by |-> p, under |-> run[p].lease,
                     expires |-> now + AttemptTTL, status |-> "ACTIVE"]
    <3>1. Asg(p) \in Assignment
      BY <2>3 DEF AcquireAttempt, At, Asg, RunOK
    <3>2. tok + 1 \in Token
      BY <2>3 DEF AcquireAttempt, Token, ExecutionAssumption
    <3>3. x \in Attempt
      BY <3>1 DEF Attempt, Run, ExecutionAssumption
    <3>4. attempt' = [attempt EXCEPT ![tok + 1] = x]
      BY <2>3 DEF AcquireAttempt
    <3>5. Issued(Asg(p))
      <4> HIDE DEF x
      <4>1. x.of = Asg(p) /\ x.status = "ACTIVE"
        BY DEF x
      <4> QED
        BY <2>3, <3>2, <3>3, <3>4, <4>1 DEF AcquireAttempt, Issued
    <3> QED
      BY <3>1, <3>5 DEF Effect
  <2>4. CASE Commit(p)
    <3>1. Asg(p) \in Assignment /\ run[p].att \in Token
      BY <2>4 DEF Commit, At, Asg, RunOK
    <3>2. current[Asg(p)] = run[p].att /\ run[p].att # 0
      BY <2>4, <3>1 DEF Commit, Token
    <3> DEFINE r == [of |-> Asg(p), att |-> run[p].att, by |-> p, status |-> run[p].json]
    <3>3. r \in Row /\ r.of = Asg(p) /\ r.att = current[Asg(p)]
      BY <3>1, <3>2 DEF Row, Run
    <3>4. receipts' = receipts \cup {r}
      BY <2>4 DEF Commit, Finish
    <3>5. ReleaseAttempt(Asg(p), current[Asg(p)], "DONE") /\ UNCHANGED <<now, tok>>
      BY <2>4, <3>2 DEF Commit, Finish
    <3> HIDE DEF r
    <3> QED
      BY <3>1, <3>2, <3>3, <3>4, <3>5 DEF Effect, Finished
  <2> QED
    BY <1>3, <2>1, <2>2, <2>3, <2>4 DEF Advance
<1>4. ASSUME NEW p \in Process, Kill(p) PROVE Effect
  BY <1>0, <1>4 DEF Kill, Effect, Quiet
<1>5. ASSUME NEW p \in Process, NEW a \in Assignment, BeginRun(p, a) PROVE Effect
  BY <1>0, <1>5 DEF BeginRun, Effect, Quiet
<1>6. ASSUME NEW s \in Supervisor, Supervise(s) PROVE Effect
  <2>1. CASE ListExpired(s) \/ ReadAssignment(s) \/ DraftReceipt(s)
    <3>1. UNCHANGED <<now, tok, attempt, current, receipts>>
      BY <2>1 DEF ListExpired, ReadAssignment, DraftReceipt
    <3> QED
      BY <1>0, <3>1 DEF Effect, Quiet
  <2>2. \A r \in receipts \cup {LostRow(s)} : r.by \in Process => r \in receipts
    BY DEF LostRow, ExecutionAssumption
  <2>3. CASE Recover(s)
    <3>1. /\ sup[s].att \in Token
          /\ attempt[sup[s].att].of \in Assignment
          /\ Expired(attempt[sup[s].att])
      BY <2>3 DEF Recover, SupOK, Listed
    <3>2. sup[s].att = current[attempt[sup[s].att].of] /\ sup[s].att # 0
      BY <2>3, <3>1 DEF Recover, Token
    <3>3. Recovered(attempt[sup[s].att].of)
      BY <2>2, <2>3, <3>1, <3>2 DEF Recover, Recovered
    <3> QED
      BY <3>1, <3>3 DEF Effect
  <2>4. CASE RecoverLost(s)
    BY <1>0, <2>2, <2>4 DEF RecoverLost, Effect, Quiet
  <2> QED
    BY <1>6, <2>1, <2>3, <2>4 DEF Supervise
<1>7. ASSUME NEW s \in Supervisor, Restart(s) PROVE Effect
  BY <1>0, <1>7 DEF Restart, Effect, Quiet
<1> QED
  BY <1>1, <1>2, <1>3, <1>4, <1>5, <1>6, <1>7 DEF Next

-----------------------------------------------------------------------------
(* The inductive invariant *)

(* An attempt never changes hands, and once expired stays expired.         *)
LEMMA AttemptsKeep ==
  ASSUME ExecutionAssumption, IInv, Effect, now' \in Nat,
         NEW t \in Token, attempt[t].of \in Assignment
  PROVE  /\ attempt'[t].of = attempt[t].of
         /\ attempt'[t].expires = attempt[t].expires
         /\ Expired(attempt[t]) => Expired(attempt[t])'
<1> USE DEF IInv, TypeOK, Expired
<1>1. now \in Nat /\ tok \in Nat /\ t \in Nat /\ attempt[t].expires \in Nat /\ t <= tok
  BY DEF ExecutionAssumption, Token, Minted, Attempt
<1>2. CASE Quiet
  BY <1>1, <1>2 DEF Quiet
<1>3. ASSUME NEW a \in Assignment, Issued(a)
      PROVE  attempt'[t] = attempt[t] /\ now' = now
  BY <1>1, <1>3 DEF Issued
<1>4. ASSUME NEW a \in Assignment, Finished(a) \/ Recovered(a)
      PROVE  /\ attempt'[t].of = attempt[t].of
             /\ attempt'[t].expires = attempt[t].expires
             /\ now' = now
  BY <1>4 DEF Finished, Recovered, ReleaseAttempt, Attempt
<1> QED
  BY <1>1, <1>2, <1>3, <1>4 DEF Effect

(* No step gives out a token the counter has not minted. *)
LEMMA MintedStep ==
  ASSUME ExecutionAssumption, IInv, Effect, TypeOK'
  PROVE  Minted'
<1> USE DEF IInv, TypeOK, Minted
<1>1. tok \in Nat /\ tok' \in Nat /\ \A t \in Token : t \in Nat
  BY DEF ExecutionAssumption, Token
<1>2. CASE Quiet
  BY <1>1, <1>2 DEF Quiet
<1>3. ASSUME NEW a \in Assignment, Issued(a) PROVE Minted'
  BY <1>1, <1>3 DEF Issued, ExecutionAssumption
<1>4. ASSUME NEW a \in Assignment, Finished(a) \/ Recovered(a) PROVE Minted'
  <2>1. attempt[current[a]].status = "ACTIVE" /\ tok' = tok
    BY <1>4 DEF Finished, Recovered, FenceInv, CurrentAttemptIsNewest
  <2>2. PICK status \in {"DONE", "RECOVERED"} :
          attempt' = [attempt EXCEPT ![current[a]].status = status]
    BY <1>4 DEF Finished, Recovered, ReleaseAttempt
  <2>3. \A t \in Token :
           /\ attempt'[t].of = attempt[t].of
           /\ attempt'[t].status = "NONE" <=> attempt[t].status = "NONE"
    BY <2>1, <2>2 DEF Attempt
  <2> QED
    BY <2>1, <2>3
<1> QED
  BY <1>2, <1>3, <1>4 DEF Effect

(* Each effect a step can have on the fence keeps its four invariants. *)
LEMMA FenceStep ==
  ASSUME ExecutionAssumption, IInv, Effect, TypeOK'
  PROVE  FenceInv'
<1> USE DEF IInv, TypeOK
<1>1. /\ now \in Nat /\ now' \in Nat /\ tok \in Nat
      /\ \A t \in Token : t \in Nat /\ t # 0 /\ attempt[t].expires \in Nat
      /\ \A r \in receipts : r.att \in Token
      /\ \A r \in receipts' : r.att \in Token
      /\ \A a \in Assignment : current[a] # 0 => current[a] \in Token
  BY DEF ExecutionAssumption, Token, Attempt, Row
<1>2. CASE Quiet
  <2>1. CurrentAttemptIsNewest'
    BY <1>2 DEF Quiet, FenceInv, CurrentAttemptIsNewest
  <2>2. OnlyExpiredIsSuperseded' /\ RecoveredOnlyAfterExpiry'
    BY <1>1, <1>2 DEF Quiet, FenceInv, OnlyExpiredIsSuperseded, RecoveredOnlyAfterExpiry, Expired
  <2>3. WorkerReceiptIsFenced'
    BY <1>2 DEF Quiet, FenceInv, WorkerReceiptIsFenced
  <2> QED
    BY <2>1, <2>2, <2>3 DEF FenceInv
<1>3. ASSUME NEW a \in Assignment, Issued(a) PROVE FenceInv'
  <2>1. PICK x \in Attempt :
          /\ x.of = a /\ x.status = "ACTIVE"
          /\ attempt' = [attempt EXCEPT ![tok + 1] = x]
    BY <1>3 DEF Issued
  <2>2. /\ current' = [current EXCEPT ![a] = tok + 1]
        /\ tok + 1 \in Token
        /\ now' = now /\ receipts' = receipts
        /\ current[a] = 0 \/ Expired(attempt[current[a]])
    BY <1>3 DEF Issued, LiveAttempt
  <2>3. attempt[tok + 1].of = NoAssignment /\ attempt[tok + 1].status = "NONE"
    BY <1>1, <2>2 DEF Minted
  <2>4. \A t \in Token : attempt[t].of # NoAssignment => t <= tok
    BY DEF Minted
  <2>5. CurrentAttemptIsNewest'
    <3>1. attempt'[tok + 1].of = a /\ attempt'[tok + 1].status = "ACTIVE"
      BY <2>1, <2>2
    <3>2. \A t \in Token : attempt'[t].of = a => t <= tok + 1
      BY <1>1, <2>1, <2>4 DEF ExecutionAssumption
    <3>3. ASSUME NEW b \in Assignment, b # a, current'[b] # 0
          PROVE  /\ attempt'[current'[b]].of = b
                 /\ attempt'[current'[b]].status = "ACTIVE"
                 /\ \A t \in Token : attempt'[t].of = b => t <= current'[b]
      <4>1. current'[b] = current[b] /\ current[b] \in Token
        BY <1>1, <2>2, <3>3
      <4>2. attempt[current[b]].of = b /\ current[b] # tok + 1
        BY <2>3, <3>3, <4>1 DEF FenceInv, CurrentAttemptIsNewest, ExecutionAssumption
      <4> QED
        BY <2>1, <3>3, <4>1, <4>2 DEF FenceInv, CurrentAttemptIsNewest
    <3> QED
      BY <2>2, <3>1, <3>2, <3>3 DEF CurrentAttemptIsNewest
  <2>6. OnlyExpiredIsSuperseded'
    <3> SUFFICES ASSUME NEW t \in Token, attempt'[t].status = "ACTIVE",
                        current'[attempt'[t].of] # t
                 PROVE  Expired(attempt[t])'
      BY DEF OnlyExpiredIsSuperseded, Expired
    <3>1. t # tok + 1
      BY <2>1, <2>2
    <3>2. attempt'[t] = attempt[t]
      BY <2>1, <3>1
    <3>3. attempt[t].of \in Assignment
      BY <3>2 DEF Minted, Attempt
    <3>4. Expired(attempt[t])
      <4>1. CASE current[attempt[t].of] # t
        BY <3>2, <4>1 DEF FenceInv, OnlyExpiredIsSuperseded
      <4>2. CASE current[attempt[t].of] = t
        <5>1. attempt[t].of = a
          BY <2>2, <3>2, <3>3, <4>2
        <5> QED
          BY <1>1, <2>2, <4>2, <5>1
      <4> QED
        BY <4>1, <4>2
    <3> QED
      BY <2>2, <3>2, <3>4 DEF Expired
  <2>7. RecoveredOnlyAfterExpiry'
    BY <2>1, <2>2 DEF FenceInv, RecoveredOnlyAfterExpiry, Expired
  <2>8. WorkerReceiptIsFenced'
    BY <1>1, <2>1, <2>2, <2>3 DEF FenceInv, WorkerReceiptIsFenced
  <2> QED
    BY <2>5, <2>6, <2>7, <2>8 DEF FenceInv
<1>4. ASSUME NEW a \in Assignment, NEW status \in {"DONE", "RECOVERED"},
             current[a] # 0, ReleaseAttempt(a, current[a], status), now' = now
      PROVE  CurrentAttemptIsNewest' /\ OnlyExpiredIsSuperseded'
  <2>1. /\ current[a] \in Token
        /\ attempt[current[a]].of = a
        /\ current' = [current EXCEPT ![a] = 0]
        /\ attempt' = [attempt EXCEPT ![current[a]].status = status]
    BY <1>1, <1>4 DEF ReleaseAttempt, FenceInv, CurrentAttemptIsNewest
  <2>2. \A t \in Token :
           /\ attempt'[t].of = attempt[t].of
           /\ attempt'[t].expires = attempt[t].expires
           /\ t # current[a] => attempt'[t] = attempt[t]
    BY <2>1 DEF Attempt
  <2>3. attempt'[current[a]].status = status
    BY <2>1 DEF Attempt
  <2>4. CurrentAttemptIsNewest'
    <3> SUFFICES ASSUME NEW b \in Assignment, current'[b] # 0
                 PROVE  /\ attempt'[current'[b]].of = b
                        /\ attempt'[current'[b]].status = "ACTIVE"
                        /\ \A t \in Token : attempt'[t].of = b => t <= current'[b]
      BY DEF CurrentAttemptIsNewest
    <3>1. b # a /\ current'[b] = current[b] /\ current[b] \in Token
      BY <1>1, <2>1
    <3>2. attempt[current[b]].of = b /\ current[b] # current[a]
      BY <2>1, <3>1 DEF FenceInv, CurrentAttemptIsNewest
    <3>3. attempt'[current[b]] = attempt[current[b]]
      BY <2>2, <3>1, <3>2
    <3>4. \A t \in Token : attempt'[t].of = b => t <= current[b]
      BY <2>2, <3>1 DEF FenceInv, CurrentAttemptIsNewest
    <3> QED
      BY <3>1, <3>2, <3>3, <3>4 DEF FenceInv, CurrentAttemptIsNewest
  <2>5. OnlyExpiredIsSuperseded'
    <3> SUFFICES ASSUME NEW t \in Token, attempt'[t].status = "ACTIVE",
                        current'[attempt'[t].of] # t
                 PROVE  Expired(attempt[t])'
      BY DEF OnlyExpiredIsSuperseded, Expired
    <3>1. t # current[a] /\ attempt'[t] = attempt[t]
      BY <2>2, <2>3
    <3>2. attempt[t].of \in Assignment
      BY <3>1 DEF Minted, Attempt
    <3>3. current[attempt[t].of] # t
      BY <2>1, <3>1, <3>2
    <3> QED
      BY <1>4, <3>1, <3>3 DEF FenceInv, OnlyExpiredIsSuperseded, Expired
  <2> QED
    BY <2>4, <2>5
<1>5. ASSUME NEW a \in Assignment, Finished(a) PROVE FenceInv'
  <2>1. CurrentAttemptIsNewest' /\ OnlyExpiredIsSuperseded'
    BY <1>4, <1>5 DEF Finished
  <2>2. /\ current[a] \in Token /\ now' = now
        /\ attempt[current[a]].of = a /\ attempt[current[a]].status = "ACTIVE"
        /\ attempt' = [attempt EXCEPT ![current[a]].status = "DONE"]
    BY <1>1, <1>5 DEF Finished, ReleaseAttempt, FenceInv, CurrentAttemptIsNewest
  <2>3. /\ attempt'[current[a]].status = "DONE" /\ attempt'[current[a]].of = a
        /\ \A t \in Token : t # current[a] => attempt'[t] = attempt[t]
    BY <2>2 DEF Attempt
  <2>4. RecoveredOnlyAfterExpiry'
    BY <2>2, <2>3 DEF FenceInv, RecoveredOnlyAfterExpiry, Expired
  <2>5. WorkerReceiptIsFenced'
    <3>1. PICK r \in Row : r.of = a /\ r.att = current[a] /\ receipts' = receipts \cup {r}
      BY <1>5 DEF Finished
    <3>2. \A q \in receipts : q.by \in Process => q.att # current[a]
      BY <1>1, <2>2 DEF FenceInv, WorkerReceiptIsFenced
    <3> QED
      BY <1>1, <2>3, <3>1, <3>2 DEF FenceInv, WorkerReceiptIsFenced
  <2> QED
    BY <2>1, <2>4, <2>5 DEF FenceInv
<1>6. ASSUME NEW a \in Assignment, Recovered(a) PROVE FenceInv'
  <2>1. CurrentAttemptIsNewest' /\ OnlyExpiredIsSuperseded'
    BY <1>4, <1>6 DEF Recovered
  <2>2. /\ current[a] \in Token /\ now' = now /\ Expired(attempt[current[a]])
        /\ attempt[current[a]].of = a /\ attempt[current[a]].status = "ACTIVE"
        /\ attempt' = [attempt EXCEPT ![current[a]].status = "RECOVERED"]
        /\ \A r \in receipts' : r.by \in Process => r \in receipts
    BY <1>1, <1>6 DEF Recovered, ReleaseAttempt, FenceInv, CurrentAttemptIsNewest
  <2>3. /\ attempt'[current[a]].expires = attempt[current[a]].expires
        /\ \A t \in Token : t # current[a] => attempt'[t] = attempt[t]
    BY <2>2 DEF Attempt
  <2>4. RecoveredOnlyAfterExpiry'
    BY <2>2, <2>3 DEF FenceInv, RecoveredOnlyAfterExpiry, Expired
  <2>5. WorkerReceiptIsFenced'
    BY <1>1, <2>2, <2>3 DEF FenceInv, WorkerReceiptIsFenced
  <2> QED
    BY <2>1, <2>4, <2>5 DEF FenceInv
<1> QED
  BY <1>2, <1>3, <1>5, <1>6 DEF Effect

(* What a process carries through run_assignment stays its own attempt. *)
LEMMA RunStays ==
  ASSUME ExecutionAssumption, IInv, [Next]_vars, TypeOK'
  PROVE  \A p \in Process : RunOK(p)'
<1> USE DEF IInv, TypeOK
<1>1. Effect
  BY StepEffect
<1>2. ASSUME NEW p \in Process, run'[p] = run[p]
      PROVE  RunOK(p)'
  BY <1>1, <1>2, AttemptsKeep DEF RunOK
<1>3. ASSUME NEW p \in Process, Advance(p)
      PROVE  RunOK(p)' /\ \A q \in Process \ {p} : run'[q] = run[q]
  <2> USE DEF At, Asg, Goto
  <2>1. RunOK(p)
    OBVIOUS
  <2>2. run[p].asg \in Assignment
    BY <1>3, <2>1 DEF Advance, RunOK, AcquireLease, LeaseRefused, ReadBackLease, Prepare,
         AcquireAttempt, ReadBackAttempt, SaveRunning, Invoke, ReadReceipt, SnapshotFault,
         Commit, CommitRefused, Raise, ReleaseLease
  <2>3. CASE LeaseRefused(p) \/ ReleaseLease(p)
    BY <2>3 DEF LeaseRefused, ReleaseLease, NotRunning, RunOK
  <2>4. CASE ReadBackLease(p)
    BY <2>2, <2>4 DEF ReadBackLease, NotRunning, RunOK, Run
  <2>5. CASE AcquireLease(p) \/ Prepare(p) \/ AcquireAttempt(p) \/ Commit(p)
            \/ CommitRefused(p) \/ Raise(p)
    <3>1. PICK pc \in {"leased", "attempt", "attempted", "release"} :
            run' = [run EXCEPT ![p].pc = pc]
      BY <2>5 DEF AcquireLease, Prepare, AcquireAttempt, Commit, CommitRefused, Raise
    <3>2. run'[p].pc = pc /\ run'[p].asg = run[p].asg
      BY <3>1 DEF Run
    <3> QED
      BY <2>2, <3>1, <3>2 DEF RunOK
  <2>6. CASE ReadBackAttempt(p)
    <3>1. CASE current[run[p].asg] = 0
      BY <2>2, <2>6, <3>1 DEF ReadBackAttempt, RunOK, Run
    <3>2. CASE current[run[p].asg] # 0
      <4>1. /\ current[run[p].asg] \in Token
            /\ attempt[current[run[p].asg]].of = run[p].asg
        BY <2>2, <3>2 DEF FenceInv, CurrentAttemptIsNewest, Token, ExecutionAssumption
      <4>2. run' = [run EXCEPT ![p] = [@ EXCEPT !.pc = "save", !.att = current[run[p].asg]]]
        BY <2>6, <3>2 DEF ReadBackAttempt
      <4>3. /\ run'[p].pc = "save" /\ run'[p].asg = run[p].asg
            /\ run'[p].att = current[run[p].asg]
        BY <4>2 DEF Run
      <4>4. attempt' = attempt
        BY <2>6 DEF ReadBackAttempt, ledger
      <4> QED
        BY <2>2, <4>1, <4>2, <4>3, <4>4 DEF RunOK
    <3> QED
      BY <3>1, <3>2
  <2>7. CASE SaveRunning(p)
    <3>1. run[p].att \in Token /\ attempt[run[p].att].of = run[p].asg
      BY <2>1, <2>7 DEF SaveRunning, RunOK
    <3>2. /\ run'[p].pc = "invoke" /\ run'[p].asg = run[p].asg
          /\ run'[p].att = run[p].att /\ attempt' = attempt
      BY <2>7 DEF SaveRunning, Run
    <3> QED
      BY <2>2, <2>7, <3>1, <3>2 DEF RunOK, SaveRunning
  <2>8. CASE Invoke(p) \/ ReadReceipt(p) \/ SnapshotFault(p)
    <3>1. run[p].att \in Token /\ attempt[run[p].att].of = run[p].asg
      BY <2>1, <2>8 DEF Invoke, ReadReceipt, SnapshotFault, RunOK
    <3>2. attempt' = attempt /\ \A q \in Process \ {p} : run'[q] = run[q]
      BY <2>8 DEF Invoke, ReadReceipt, SnapshotFault, ledger
    <3>3. /\ run'[p].pc \in {"written", "commit"} /\ run'[p].asg = run[p].asg
          /\ run'[p].att = run[p].att /\ run'[p].outcome \in Outcome
      <4>1. CASE Invoke(p)
        BY <4>1 DEF Invoke, Run
      <4>2. CASE ReadReceipt(p)
        BY <2>1, <4>2 DEF ReadReceipt, Run, RunOK
      <4>3. CASE SnapshotFault(p)
        BY <4>3 DEF SnapshotFault, Run, Outcome
      <4> QED
        BY <2>8, <4>1, <4>2, <4>3
    <3> QED
      BY <2>2, <3>1, <3>2, <3>3 DEF RunOK
  <2> QED
    BY <1>3, <2>3, <2>4, <2>5, <2>6, <2>7, <2>8 DEF Advance
<1>4. ASSUME NEW p \in Process, NEW a \in Assignment, Kill(p) \/ BeginRun(p, a)
      PROVE  RunOK(p)' /\ \A q \in Process \ {p} : run'[q] = run[q]
  <2>1. CASE Kill(p)
    BY <2>1 DEF Kill, Killed, NotRunning, RunOK
  <2>2. CASE BeginRun(p, a)
    BY <2>2 DEF BeginRun, RunOK, Run
  <2> QED
    BY <1>4, <2>1, <2>2
<1>5. ASSUME NEW p \in Process, Kill(p)
      PROVE  RunOK(p)' /\ \A q \in Process \ {p} : run'[q] = run[q]
  BY <1>5 DEF Kill, Killed, NotRunning, RunOK
<1>6. CASE UNCHANGED run
  BY <1>2, <1>6
<1>7. ASSUME NEW p \in Process,
             Advance(p) \/ Kill(p) \/ \E a \in Assignment : BeginRun(p, a)
      PROVE  \A q \in Process : RunOK(q)'
  BY <1>2, <1>3, <1>4, <1>5, <1>7
<1>8. ASSUME NEW s \in Supervisor, Supervise(s) \/ Restart(s)
      PROVE  UNCHANGED run
  BY <1>8 DEF Supervise, Restart, ListExpired, ReadAssignment, DraftReceipt, Recover, RecoverLost
<1>9. Tick \/ UNCHANGED vars => UNCHANGED run
  BY DEF Tick, vars
<1> QED
  BY <1>6, <1>7, <1>8, <1>9 DEF Next

(* What a supervisor has listed stays expired, whatever it reads next. *)
LEMMA SupStays ==
  ASSUME ExecutionAssumption, IInv, [Next]_vars, TypeOK'
  PROVE  \A s \in Supervisor : SupOK(s)'
<1> USE DEF IInv, TypeOK
<1>1. Effect
  BY StepEffect
<1>2. ASSUME NEW s \in Supervisor, Listed(s)' \subseteq Listed(s)
      PROVE  SupOK(s)'
  BY <1>1, <1>2, AttemptsKeep DEF SupOK
<1>3. ASSUME NEW s \in Supervisor, sup'[s] = sup[s]
      PROVE  SupOK(s)'
  BY <1>2, <1>3 DEF Listed
<1>4. ASSUME NEW s \in Supervisor, Supervise(s) \/ Restart(s)
      PROVE  SupOK(s)' /\ \A r \in Supervisor \ {s} : sup'[r] = sup[r]
  <2> USE DEF Resume, Watching, Listed
  <2>1. CASE ListExpired(s)
    <3>1. Listed(s)' = {t \in Token : Recoverable(t)}
      BY <2>1 DEF ListExpired
    <3>2. \A t \in Token : Recoverable(t) => attempt[t].of \in Assignment /\ Expired(attempt[t])
      BY DEF Recoverable, Minted, Attempt
    <3>3. attempt' = attempt /\ now' = now /\ \A r \in Supervisor \ {s} : sup'[r] = sup[r]
      BY <2>1 DEF ListExpired, ledger
    <3> QED
      BY <3>1, <3>2, <3>3 DEF SupOK, Expired
  <2>2. CASE ReadAssignment(s)
    <3>1. PICK t \in sup[s].todo :
            sup' = [sup EXCEPT ![s] =
                      IF state[attempt[t].of] = "RUNNING"
                        THEN [pc |-> "lost", att |-> t, todo |-> sup[s].todo \ {t}]
                        ELSE Resume(sup[s].todo \ {t})]
      BY <2>2 DEF ReadAssignment
    <3> QED
      BY <1>2, <3>1
  <2>3. CASE DraftReceipt(s)
    <3>1. sup[s].pc = "lost" /\ sup[s] \in Sup
      BY <2>3 DEF DraftReceipt
    <3>2. Listed(s)' \subseteq Listed(s)
      BY <2>3, <3>1 DEF DraftReceipt, Sup
    <3> QED
      BY <1>2, <2>3, <3>2 DEF DraftReceipt
  <2>4. CASE Recover(s) \/ RecoverLost(s)
    <3>1. sup' = [sup EXCEPT ![s] = Resume(sup[s].todo)]
      BY <2>4 DEF Recover, RecoverLost
    <3> QED
      BY <1>2, <3>1
  <2>5. CASE Restart(s)
    <3>1. sup' = [sup EXCEPT ![s] = Watching]
      BY <2>5 DEF Restart
    <3> QED
      BY <1>2, <3>1
  <2> QED
    BY <1>4, <2>1, <2>2, <2>3, <2>4, <2>5 DEF Supervise
<1>5. ASSUME NEW p \in Process,
             Advance(p) \/ Kill(p) \/ \E a \in Assignment : BeginRun(p, a)
      PROVE  UNCHANGED sup
  BY <1>5 DEF Advance, Kill, BeginRun, AcquireLease, LeaseRefused, ReadBackLease, Prepare,
       AcquireAttempt, ReadBackAttempt, SaveRunning, Invoke, ReadReceipt, SnapshotFault,
       Commit, CommitRefused, Raise, ReleaseLease
<1>6. Tick \/ UNCHANGED vars => UNCHANGED sup
  BY DEF Tick, vars
<1> QED
  BY <1>3, <1>4, <1>5, <1>6 DEF Next

(* No step leaves the inductive invariant. *)
LEMMA Inductive == ASSUME ExecutionAssumption PROVE IInv /\ [Next]_vars => IInv'
<1> SUFFICES ASSUME IInv, [Next]_vars PROVE IInv'
  OBVIOUS
<1>1. TypeOK'
  BY StepType DEF IInv
<1>2. Effect
  BY StepEffect
<1> QED
  BY <1>1, <1>2, MintedStep, FenceStep, RunStays, SupStays DEF IInv

(* The inductive invariant holds before anything has run. *)
LEMMA Initial == ASSUME ExecutionAssumption PROVE Init => IInv
<1> SUFFICES ASSUME Init PROVE IInv
  OBVIOUS
<1>1. TypeOK
  BY InitType
<1>2. Minted /\ FenceInv
  BY DEF Init, Minted, NoAttempt, FenceInv, CurrentAttemptIsNewest, OnlyExpiredIsSuperseded,
         RecoveredOnlyAfterExpiry, WorkerReceiptIsFenced
<1>3. (\A p \in Process : RunOK(p)) /\ (\A s \in Supervisor : SupOK(s))
  BY DEF Init, RunOK, NotRunning, SupOK, Listed, Watching
<1> QED
  BY <1>1, <1>2, <1>3 DEF IInv

(* IInv holds in every state any number of workers and supervisors reach.  *)
THEOREM Invariance == Spec => []IInv
<1>1. ExecutionAssumption
  BY ExecutionAssumption
<1> QED
  BY <1>1, Initial, Inductive, PTL DEF Spec

-----------------------------------------------------------------------------
(* Theorems *)

(* Every variable keeps its type. *)
THEOREM TypeCorrect == Spec => []TypeOK
BY Invariance, PTL DEF IInv

(* Whatever the interleaving of takeovers, recoveries and late commits,    *)
(* the attempt an assignment points at is ACTIVE and its newest.           *)
THEOREM CurrentIsNewest == Spec => []CurrentAttemptIsNewest
BY Invariance, PTL DEF IInv, FenceInv

(* A live attempt is never superseded by another.                          *)
THEOREM LiveIsNotSuperseded == Spec => []OnlyExpiredIsSuperseded
BY Invariance, PTL DEF IInv, FenceInv

(* A supervisor never fails an assignment whose attempt has time left.     *)
THEOREM RecoveryWaits == Spec => []RecoveredOnlyAfterExpiry
BY Invariance, PTL DEF IInv, FenceInv

(* A worker's receipt in the ledger is that of the one terminal write of   *)
(* its attempt.                                                            *)
THEOREM ReceiptIsFenced == Spec => []WorkerReceiptIsFenced
BY Invariance, PTL DEF IInv, FenceInv

-----------------------------------------------------------------------------
(* The fence implements AttemptFence *)

(* The mapped variables, as one state function each. *)
LEMMA FenceInit == ASSUME ExecutionAssumption PROVE Init => Fence!Init
BY DEF Init, Fence!Init, NoAttempt, ExecutionAssumption

(* Every step issues or decides a token of the abstract fence, or stutters. *)
LEMMA FenceNext ==
  ASSUME ExecutionAssumption, IInv, [Next]_vars
  PROVE  [Fence!Next]_(Fence!vars)
<1> USE DEF IInv, TypeOK
<1> DEFINE issued == [a \in Assignment |-> {t \in Token : attempt[t].of = a}]
           decided == {t \in Token : attempt[t].status \in {"DONE", "RECOVERED"}}
<1>1. Effect
  BY StepEffect
<1>2. CASE Quiet
  BY <1>2 DEF Quiet, Fence!vars
<1>3. ASSUME NEW a \in Assignment, Issued(a)
      PROVE  Fence!Issue(a, tok + 1) /\ tok + 1 \in Token
  <2>1. PICK x \in Attempt :
          /\ x.of = a /\ x.status = "ACTIVE"
          /\ attempt' = [attempt EXCEPT ![tok + 1] = x]
    BY <1>3 DEF Issued
  <2>2. current' = [current EXCEPT ![a] = tok + 1] /\ tok + 1 \in Token /\ tok \in Nat
    BY <1>3 DEF Issued, ExecutionAssumption
  <2>3. attempt[tok + 1].of = NoAssignment /\ attempt[tok + 1].status = "NONE"
    BY <2>2 DEF Minted, Token
  <2>4. \A b \in Assignment : \A u \in issued[b] : u < tok + 1
    BY <2>2 DEF Minted, Token, ExecutionAssumption
  <2>5. issued' = [issued EXCEPT ![a] = @ \cup {tok + 1}]
    <3>1. ASSUME NEW b \in Assignment
          PROVE  {t \in Token : attempt'[t].of = b}
                   = IF b = a THEN {t \in Token : attempt[t].of = b} \cup {tok + 1}
                     ELSE {t \in Token : attempt[t].of = b}
      BY <2>1, <2>2, <2>3 DEF ExecutionAssumption
    <3> QED
      BY ZenonT(60), <3>1
  <2>6. decided' = decided
    BY <2>1, <2>2, <2>3
  <2> QED
    BY <2>2, <2>4, <2>5, <2>6 DEF Fence!Issue
<1>4. ASSUME NEW a \in Assignment, NEW status \in {"DONE", "RECOVERED"},
             current[a] # 0, ReleaseAttempt(a, current[a], status)
      PROVE  Fence!Decide(a)
  <2>1. /\ current[a] \in Token
        /\ current' = [current EXCEPT ![a] = 0]
        /\ attempt' = [attempt EXCEPT ![current[a]].status = status]
    BY <1>4 DEF ReleaseAttempt, Token, ExecutionAssumption
  <2>2. \A t \in Token : attempt'[t].of = attempt[t].of
    BY <2>1 DEF Attempt
  <2>3. /\ attempt'[current[a]].status = status
        /\ \A t \in Token : t # current[a] => attempt'[t] = attempt[t]
    BY <2>1 DEF Attempt
  <2>4. issued' = issued
    BY <2>2
  <2>5. decided' = decided \cup {current[a]}
    BY <2>1, <2>3
  <2> QED
    BY <1>4, <2>1, <2>4, <2>5 DEF Fence!Decide
<1>5. ASSUME NEW a \in Assignment, Finished(a) \/ Recovered(a)
      PROVE  Fence!Decide(a)
  BY <1>4, <1>5 DEF Finished, Recovered
<1>6. ASSUME NEW a \in Assignment, Issued(a) \/ Finished(a) \/ Recovered(a)
      PROVE  Fence!Next
  <2>1. CASE Issued(a)
    <3>1. tok + 1 \in Token /\ Fence!Issue(a, tok + 1)
      BY <1>3, <2>1
    <3> QED
      BY <3>1 DEF Fence!Next, Fence!Issue
  <2>2. CASE Finished(a) \/ Recovered(a)
    BY <1>5, <2>2 DEF Fence!Next
  <2> QED
    BY <1>6, <2>1, <2>2
<1> QED
  BY <1>1, <1>2, <1>6 DEF Effect

(* Tokens are issued in increasing order, and only the holder of an        *)
(* assignment decides it, once, as it lets go.                             *)
THEOREM FenceImplements == Spec => FenceSpec
<1>1. ExecutionAssumption
  BY ExecutionAssumption
<1> QED
  BY <1>1, FenceInit, FenceNext, Invariance, PTL DEF Spec, FenceSpec, Fence!Spec

-----------------------------------------------------------------------------
(* The two records of a unit of work *)

(* No transaction writes one record of a unit of work without the other. *)
LEMMA SowStep ==
  ASSUME ExecutionAssumption, IInv, SowFollowsAssignment, [Next]_vars
  PROVE  SowFollowsAssignment'
<1> USE DEF IInv, TypeOK, SowFollowsAssignment
<1>1. ASSUME NEW p \in Process, SaveRunning(p) PROVE SowFollowsAssignment'
  BY <1>1 DEF SaveRunning
<1>2. ASSUME NEW p \in Process, Commit(p) PROVE SowFollowsAssignment'
  <2>1. run[p].outcome \in Outcome
    BY <1>2 DEF Commit, At, RunOK
  <2>2. /\ state' = [state EXCEPT ![Asg(p)] = AssignmentAfter(run[p].outcome)]
        /\ sow' = [sow EXCEPT ![Asg(p)] = SowAfter(run[p].outcome)]
    BY <1>2 DEF Commit, Finish
  <2> QED
    BY <2>1, <2>2 DEF Outcome, AssignmentAfter, SowAfter
<1>3. ASSUME NEW s \in Supervisor, Recover(s) PROVE SowFollowsAssignment'
  BY <1>3 DEF Recover
<1>4. CASE UNCHANGED <<state, sow>>
  BY <1>4
<1>5. ASSUME NEW p \in Process, Advance(p) PROVE SowFollowsAssignment'
  <2>1. SaveRunning(p) \/ Commit(p) \/ UNCHANGED <<state, sow>>
    BY <1>5 DEF Advance, ledger, AcquireLease, LeaseRefused, ReadBackLease, Prepare,
         AcquireAttempt, ReadBackAttempt, Invoke, ReadReceipt, SnapshotFault,
         CommitRefused, Raise, ReleaseLease
  <2> QED
    BY <1>1, <1>2, <1>4, <1>5, <2>1
<1>6. ASSUME NEW s \in Supervisor, Supervise(s) \/ Restart(s) PROVE SowFollowsAssignment'
  <2>1. Recover(s) \/ UNCHANGED <<state, sow>>
    BY <1>6 DEF Supervise, Restart, ledger, ListExpired, ReadAssignment, DraftReceipt, RecoverLost
  <2> QED
    BY <1>3, <1>4, <1>6, <2>1
<1>7. ASSUME NEW p \in Process, Kill(p) \/ \E a \in Assignment : BeginRun(p, a)
      PROVE  UNCHANGED <<state, sow>>
  BY <1>7 DEF Kill, BeginRun, ledger
<1>8. Tick \/ UNCHANGED vars => UNCHANGED <<state, sow>>
  BY DEF Tick, vars, ledger
<1> QED
  BY <1>4, <1>5, <1>6, <1>7, <1>8 DEF Next

(* The SOW's record never tells another story than its assignment's.       *)
THEOREM SowAgrees == Spec => []SowFollowsAssignment
<1>1. ExecutionAssumption
  BY ExecutionAssumption
<1>2. Init => SowFollowsAssignment
  BY DEF Init, SowFollowsAssignment
<1> QED
  BY <1>1, <1>2, SowStep, Invariance, PTL DEF Spec
=============================================================================
