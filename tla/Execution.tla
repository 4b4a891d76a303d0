------------------------------ MODULE Execution ------------------------------
(***************************************************************************)
(* Running a governed assignment under the two fences of fencing.py: the   *)
(* actor lease (which process may host an actor) and the execution attempt *)
(* (which attempt may write the terminal state), with the supervisor that  *)
(* recovers the assignments of processes that died.                        *)
(*                                                                         *)
(* A step is one SQLite transaction, one unlocked read that a later step   *)
(* uses, or one write of receipt.json: between two steps a process can be  *)
(* killed, or suspended for longer than any lease.  Each function reads    *)
(* its clock at the head of the transaction that uses it, and the model    *)
(* makes the two one step.                                                 *)
(*                                                                         *)
(* An assignment has a SOW of its own: Organization.assign gives a SOW a   *)
(* second assignment only after the first one is terminal.                 *)
(***************************************************************************)
EXTENDS Naturals

CONSTANTS
  Process,      \* process identities that call run_assignment, never reused
  Supervisor,   \* supervisor loops over the same ledger
  Actor,
  Assignment,
  ActorOf,      \* the actor each assignment is assigned to
  LeaseTTL,     \* ACTOR_LEASE_TTL, in ticks
  AttemptTTL,   \* EXECUTION_ATTEMPT_TTL, in ticks
  MaxTime,      \* bound: the clock stops here
  MaxToken,     \* bound: tokens the shared counter can mint
  NoProcess, NoAssignment

ASSUME ExecutionAssumption ==
  /\ ActorOf \in [Assignment -> Actor]
  /\ LeaseTTL \in Nat \ {0}
  /\ AttemptTTL \in Nat \ {0}
  /\ MaxTime \in Nat
  /\ MaxToken \in Nat
  /\ Process \cap Supervisor = {}
  /\ NoProcess \notin Process
  /\ NoAssignment \notin Assignment

VARIABLES
  now,       \* the clock every process reads
  tok,       \* last token minted by the shared counter lease_tokens
  lease,     \* actor_leases: one row per actor
  attempt,   \* execution_attempts, by fencing token
  current,   \* assignments.current_execution_attempt, 0 for NULL
  state,     \* state in the assignment's record
  sow,       \* state in the record of the assignment's SOW
  receipts,  \* rows of the receipts table
  disk,      \* what receipt.json of the assignment's workspace says
  run,       \* each process inside run_assignment
  sup        \* each supervisor inside recover_abandoned_assignments

ledger == <<tok, lease, attempt, current, state, sow, receipts>>
vars == <<now, ledger, disk, run, sup>>

-----------------------------------------------------------------------------
(* Types *)

Token == 1 .. MaxToken
Terminal == {"COMPLETED", "BLOCKED", "FAILED"}
AssignmentState == {"CREATED", "RUNNING"} \cup Terminal
SowState == {"ASSIGNED", "RUNNING", "REVIEW", "BLOCKED", "FAILED"}
Outcome == {"completed", "blocked", "failed"}
ReceiptStatus == Outcome \cup {"worker_lost"}
RunStep == {"idle", "lease", "leased", "prepare", "attempt", "attempted",
            "save", "invoke", "written", "commit", "release", "dead"}
SupStep == {"idle", "next", "lost", "drafted"}

Lease == [proc : Process \cup {NoProcess}, token : Nat, expires : Nat]
Attempt == [of : Assignment \cup {NoAssignment}, by : Process \cup {NoProcess},
            under : Nat, expires : Nat,
            status : {"NONE", "ACTIVE", "DONE", "RECOVERED"}]
Row == [of : Assignment, att : Token, by : Process \cup Supervisor,
        status : ReceiptStatus \cup {"none"}]
Run == [pc : RunStep, asg : Assignment \cup {NoAssignment}, lease : Nat,
        att : Nat, outcome : Outcome \cup {"none"},
        json : ReceiptStatus \cup {"none"}]
Sup == [pc : SupStep, att : Nat, todo : SUBSET Token]

NoLease == [proc |-> NoProcess, token |-> 0, expires |-> 0]
NoAttempt == [of |-> NoAssignment, by |-> NoProcess, under |-> 0,
              expires |-> 0, status |-> "NONE"]
NotRunning == [pc |-> "idle", asg |-> NoAssignment, lease |-> 0, att |-> 0,
               outcome |-> "none", json |-> "none"]
Killed == [NotRunning EXCEPT !.pc = "dead"]
Watching == [pc |-> "idle", att |-> 0, todo |-> {}]

TypeOK ==
  /\ now \in Nat
  /\ tok \in 0 .. MaxToken
  /\ lease \in [Actor -> Lease]
  /\ attempt \in [Token -> Attempt]
  /\ current \in [Assignment -> 0 .. MaxToken]
  /\ state \in [Assignment -> AssignmentState]
  /\ sow \in [Assignment -> SowState]
  /\ receipts \in SUBSET Row
  /\ disk \in [Assignment -> ReceiptStatus \cup {"none"}]
  /\ run \in [Process -> Run]
  /\ sup \in [Supervisor -> Sup]

Init ==
  /\ now = 0
  /\ tok = 0
  /\ lease = [x \in Actor |-> NoLease]
  /\ attempt = [t \in Token |-> NoAttempt]
  /\ current = [a \in Assignment |-> 0]
  /\ state = [a \in Assignment |-> "CREATED"]
  /\ sow = [a \in Assignment |-> "ASSIGNED"]
  /\ receipts = {}
  /\ disk = [a \in Assignment |-> "none"]
  /\ run = [p \in Process |-> NotRunning]
  /\ sup = [s \in Supervisor |-> Watching]

-----------------------------------------------------------------------------
(* Helpers *)

At(p, step) == run[p].pc = step
Asg(p) == run[p].asg
Goto(p, step) == run' = [run EXCEPT ![p].pc = step]
LeaseOf(p) == lease[ActorOf[Asg(p)]]

Expired(row) == row.expires <= now

(* Bug: the attempt counts only once the record says RUNNING. *)
LiveOnceRunning(a) ==
  current[a] # 0 /\ ~Expired(attempt[current[a]]) /\ state[a] = "RUNNING"

(* The assignment's current attempt exists and has not expired. *)
LiveAttempt(a) == current[a] # 0 /\ ~Expired(attempt[current[a]])

(* The caller presents the token of the actor's unexpired lease row. *)
LeaseCurrent(p) == LeaseOf(p).token = run[p].lease /\ ~Expired(LeaseOf(p))

(* Bug: a transition table without the one a recovery needs. *)
MayAdvanceUnlessLost(from, to) ==
  \/ from = "ASSIGNED" /\ to \in {"RUNNING", "BLOCKED", "FAILED"}
  \/ from = "RUNNING" /\ to \in {"REVIEW", "BLOCKED"}

(* policy.SOW_TRANSITIONS on the states an assigned SOW can be in. *)
MayAdvance(from, to) ==
  \/ from = "ASSIGNED" /\ to \in {"RUNNING", "BLOCKED", "FAILED"}
  \/ from = "RUNNING" /\ to \in {"REVIEW", "BLOCKED", "FAILED"}
  \/ from = "REVIEW" /\ to = "FAILED"

AssignmentAfter(outcome) ==
  CASE outcome = "completed" -> "COMPLETED"
    [] outcome = "blocked" -> "BLOCKED"
    [] outcome = "failed" -> "FAILED"

SowAfter(outcome) ==
  CASE outcome = "completed" -> "REVIEW"
    [] outcome = "blocked" -> "BLOCKED"
    [] outcome = "failed" -> "FAILED"

(* Bug: the attempt is marked, and the fence stays. *)
ReleaseKeepingFence(a, t, status) ==
  /\ attempt' = [attempt EXCEPT ![t].status = status]
  /\ UNCHANGED current

(* Clear the fence and mark how the attempt ended. *)
ReleaseAttempt(a, t, status) ==
  /\ attempt' = [attempt EXCEPT ![t].status = status]
  /\ current' = [current EXCEPT ![a] = 0]

-----------------------------------------------------------------------------
(* The actor lease *)

Renew(p) ==
  /\ LeaseOf(p).proc = p
  /\ lease' = [lease EXCEPT ![ActorOf[Asg(p)]].expires = now + LeaseTTL]
  /\ UNCHANGED tok

(* Only an absent or expired row is taken, with a token minted for it. *)
TakeOver(p) ==
  /\ LeaseOf(p).proc # p
  /\ Expired(LeaseOf(p))
  /\ tok < MaxToken
  /\ tok' = tok + 1
  /\ lease' = [lease EXCEPT ![ActorOf[Asg(p)]] =
                 [proc |-> p, token |-> tok + 1, expires |-> now + LeaseTTL]]

AcquireLease(p) ==
  /\ At(p, "lease")
  /\ Renew(p) \/ TakeOver(p)
  /\ Goto(p, "leased")
  /\ UNCHANGED <<now, attempt, current, state, sow, receipts, disk, sup>>

LeaseRefused(p) ==
  /\ At(p, "lease")
  /\ LeaseOf(p).proc # p /\ ~Expired(LeaseOf(p))
  /\ run' = [run EXCEPT ![p] = NotRunning]
  /\ UNCHANGED <<now, ledger, disk, sup>>

(* The lease handed to the caller is the row read after the commit: after  *)
(* a long pause it can be another process's.  No row fails the assertion.  *)
ReadBackLease(p) ==
  /\ At(p, "leased")
  /\ run' = IF LeaseOf(p) = NoLease
              THEN [run EXCEPT ![p] = NotRunning]
              ELSE [run EXCEPT ![p] = [@ EXCEPT !.pc = "prepare", !.lease = LeaseOf(p).token]]
  /\ UNCHANGED <<now, ledger, disk, sup>>

(* The compare-and-set delete of the finally block; the call can also fail *)
(* on a locked database, which leaves the row.                             *)
ReleaseLease(p) ==
  /\ At(p, "release")
  /\ run' = [run EXCEPT ![p] = NotRunning]
  /\ \/ /\ LeaseOf(p).proc = p /\ LeaseOf(p).token = run[p].lease
        /\ lease' = [lease EXCEPT ![ActorOf[Asg(p)]] = NoLease]
     \/ UNCHANGED lease
  /\ UNCHANGED <<now, tok, attempt, current, state, sow, receipts, disk, sup>>

-----------------------------------------------------------------------------
(* run_assignment *)

BeginRun(p, a) ==
  /\ At(p, "idle")
  /\ state[a] \in {"CREATED", "RUNNING"}
  /\ run' = [run EXCEPT ![p] = [@ EXCEPT !.pc = "lease", !.asg = a]]
  /\ UNCHANGED <<now, ledger, disk, sup>>

(* Bug: the SOW is saved as soon as it is advanced. *)
PrepareSavingSow(p) ==
  /\ At(p, "prepare")
  /\ MayAdvance(sow[Asg(p)], "RUNNING")
  /\ sow' = [sow EXCEPT ![Asg(p)] = "RUNNING"]
  /\ Goto(p, "attempt")
  /\ UNCHANGED <<now, tok, lease, attempt, current, state, receipts, disk, sup>>

(* The SOW is read here and written back, as RUNNING, only by SaveRunning. *)
Prepare(p) ==
  /\ At(p, "prepare")
  /\ MayAdvance(sow[Asg(p)], "RUNNING")
  /\ Goto(p, "attempt")
  /\ UNCHANGED <<now, ledger, disk, sup>>

AcquireAttempt(p) ==
  /\ At(p, "attempt")
  /\ LeaseCurrent(p)
  /\ ~LiveAttempt(Asg(p))
  /\ tok < MaxToken
  /\ tok' = tok + 1
  /\ attempt' = [attempt EXCEPT ![tok + 1] =
                   [of |-> Asg(p), by |-> p, under |-> run[p].lease,
                    expires |-> now + AttemptTTL, status |-> "ACTIVE"]]
  /\ current' = [current EXCEPT ![Asg(p)] = tok + 1]
  /\ Goto(p, "attempted")
  /\ UNCHANGED <<now, lease, state, sow, receipts, disk, sup>>

(* The attempt handed to the caller is read after the commit too. *)
ReadBackAttempt(p) ==
  /\ At(p, "attempted")
  /\ run' = IF current[Asg(p)] = 0
              THEN [run EXCEPT ![p].pc = "release"]
              ELSE [run EXCEPT ![p] = [@ EXCEPT !.pc = "save", !.att = current[Asg(p)]]]
  /\ UNCHANGED <<now, ledger, disk, sup>>

(* A second transaction, which checks neither the attempt nor the state. *)
SaveRunning(p) ==
  /\ At(p, "save")
  /\ state' = [state EXCEPT ![Asg(p)] = "RUNNING"]
  /\ sow' = [sow EXCEPT ![Asg(p)] = "RUNNING"]
  /\ Goto(p, "invoke")
  /\ UNCHANGED <<now, tok, lease, attempt, current, receipts, disk, sup>>

(* The provider completes, blocks or fails; a refusal, a fault and an      *)
(* interruption all leave a failed receipt in the workspace.               *)
Invoke(p) ==
  /\ At(p, "invoke")
  /\ \E outcome \in Outcome :
       /\ disk' = [disk EXCEPT ![Asg(p)] = outcome]
       /\ run' = [run EXCEPT ![p] = [@ EXCEPT !.pc = "written", !.outcome = outcome]]
  /\ UNCHANGED <<now, ledger, sup>>

(* The row to commit is what receipt.json says now. *)
ReadReceipt(p) ==
  /\ At(p, "written")
  /\ run' = [run EXCEPT ![p] = [@ EXCEPT !.pc = "commit", !.json = disk[Asg(p)]]]
  /\ UNCHANGED <<now, ledger, disk, sup>>

(* The boundary cannot be confirmed: the success is turned into a failure, *)
(* on disk too, and receipt.json is read again.                            *)
SnapshotFault(p) ==
  /\ At(p, "commit")
  /\ run[p].outcome # "failed"
  /\ disk' = [disk EXCEPT ![Asg(p)] = "failed"]
  /\ run' = [run EXCEPT ![p] = [@ EXCEPT !.pc = "written", !.outcome = "failed"]]
  /\ UNCHANGED <<now, ledger, sup>>

(* Receipt, terminal states and release in one transaction. *)
Finish(p) ==
  LET a == Asg(p)
      t == run[p].att
  IN /\ receipts' = receipts \cup
           {[of |-> a, att |-> t, by |-> p, status |-> run[p].json]}
     /\ state' = [state EXCEPT ![a] = AssignmentAfter(run[p].outcome)]
     /\ sow' = [sow EXCEPT ![a] = SowAfter(run[p].outcome)]
     /\ ReleaseAttempt(a, t, "DONE")

(* Bug: the terminal write does not check the fence. *)
CommitUnfenced(p) ==
  /\ At(p, "commit")
  /\ Finish(p)
  /\ Goto(p, "release")
  /\ UNCHANGED <<now, tok, lease, disk, sup>>

Commit(p) ==
  /\ At(p, "commit")
  /\ current[Asg(p)] = run[p].att
  /\ Finish(p)
  /\ Goto(p, "release")
  /\ UNCHANGED <<now, tok, lease, disk, sup>>

(* Bug: the receipt is committed although the fence is lost. *)
CommitRefusedKeepingReceipt(p) ==
  /\ At(p, "commit")
  /\ current[Asg(p)] # run[p].att
  /\ receipts' = receipts \cup
       {[of |-> Asg(p), att |-> run[p].att, by |-> p, status |-> run[p].json]}
  /\ Goto(p, "release")
  /\ UNCHANGED <<now, tok, lease, attempt, current, state, sow, disk, sup>>

(* The fence is lost: the Refusal rolls the receipt back with the rest. *)
CommitRefused(p) ==
  /\ At(p, "commit")
  /\ current[Asg(p)] # run[p].att
  /\ Goto(p, "release")
  /\ UNCHANGED <<now, ledger, disk, sup>>

(* A refusal before the attempt, a live attempt of another process, a lost *)
(* lease, or a fault of the file system or the database: the finally block *)
(* gives the lease back and nothing else is undone.                        *)
Raise(p) ==
  /\ run[p].pc \in {"prepare", "attempt", "save", "invoke", "written", "commit"}
  /\ Goto(p, "release")
  /\ UNCHANGED <<now, ledger, disk, sup>>

(* SIGKILL: nothing is recorded, the identity is never used again. *)
Kill(p) ==
  /\ run[p].pc \notin {"idle", "dead"}
  /\ run' = [run EXCEPT ![p] = Killed]
  /\ UNCHANGED <<now, ledger, disk, sup>>

-----------------------------------------------------------------------------
(* The supervisor *)

(* Bug: every attempt in progress is on the worklist. *)
RecoverableInProgress(t) ==
  attempt[t].status = "ACTIVE" /\ current[attempt[t].of] = t

Recoverable(t) ==
  /\ attempt[t].status = "ACTIVE"
  /\ current[attempt[t].of] = t
  /\ Expired(attempt[t])

(* The worklist of a tick, read once. *)
ListExpired(s) ==
  LET todo == {t \in Token : Recoverable(t)}
  IN /\ sup[s].pc = "idle"
     /\ todo # {}
     /\ sup' = [sup EXCEPT ![s] = [Watching EXCEPT !.pc = "next", !.todo = todo]]
     /\ UNCHANGED <<now, ledger, disk, run>>

(* On to the rest of the worklist, or to the next tick. *)
Resume(todo) ==
  IF todo = {} THEN Watching ELSE [Watching EXCEPT !.pc = "next", !.todo = todo]

(* Reads the assignment of a listed attempt and leaves alone one that has  *)
(* moved on.                                                               *)
ReadAssignment(s) ==
  /\ sup[s].pc = "next"
  /\ \E t \in sup[s].todo :
       LET rest == sup[s].todo \ {t}
       IN sup' = [sup EXCEPT ![s] =
                    IF state[attempt[t].of] = "RUNNING"
                      THEN [pc |-> "lost", att |-> t, todo |-> rest]
                      ELSE Resume(rest)]
  /\ UNCHANGED <<now, ledger, disk, run>>

(* Reads the SOW and writes worker_lost over receipt.json, then refuses a  *)
(* SOW that cannot fail, which ends the tick.                              *)
DraftReceipt(s) ==
  LET a == attempt[sup[s].att].of
  IN /\ sup[s].pc = "lost"
     /\ disk' = [disk EXCEPT ![a] = "worker_lost"]
     /\ sup' = [sup EXCEPT ![s] = IF MayAdvance(sow[a], "FAILED")
                                    THEN [@ EXCEPT !.pc = "drafted"]
                                    ELSE Watching]
     /\ UNCHANGED <<now, ledger, run>>

LostRow(s) == [of |-> attempt[sup[s].att].of, att |-> sup[s].att, by |-> s,
               status |-> "worker_lost"]

Recover(s) ==
  LET t == sup[s].att
      a == attempt[t].of
  IN /\ sup[s].pc = "drafted"
     /\ current[a] = t
     /\ receipts' = receipts \cup {LostRow(s)}
     /\ state' = [state EXCEPT ![a] = "FAILED"]
     /\ sow' = [sow EXCEPT ![a] = "FAILED"]
     /\ ReleaseAttempt(a, t, "RECOVERED")
     /\ sup' = [sup EXCEPT ![s] = Resume(@.todo)]
     /\ UNCHANGED <<now, tok, lease, disk, run>>

(* The compare-and-set lost, and the transaction commits all the same:     *)
(* leaving the block by `continue` is not an exception.                    *)
RecoverLost(s) ==
  /\ sup[s].pc = "drafted"
  /\ current[attempt[sup[s].att].of] # sup[s].att
  /\ receipts' = receipts \cup {LostRow(s)}
  /\ sup' = [sup EXCEPT ![s] = Resume(@.todo)]
  /\ UNCHANGED <<now, tok, lease, attempt, current, state, sow, disk, run>>

(* The supervisor is stopped and started again. *)
Restart(s) ==
  /\ sup[s].pc # "idle"
  /\ sup' = [sup EXCEPT ![s] = Watching]
  /\ UNCHANGED <<now, ledger, disk, run>>

Tick ==
  /\ now < MaxTime
  /\ now' = now + 1
  /\ UNCHANGED <<ledger, disk, run, sup>>

-----------------------------------------------------------------------------
(* Specification *)

Advance(p) ==
  \/ AcquireLease(p)
  \/ LeaseRefused(p)
  \/ ReadBackLease(p)
  \/ Prepare(p)
  \/ AcquireAttempt(p)
  \/ ReadBackAttempt(p)
  \/ SaveRunning(p)
  \/ Invoke(p)
  \/ ReadReceipt(p)
  \/ SnapshotFault(p)
  \/ Commit(p)
  \/ CommitRefused(p)
  \/ Raise(p)
  \/ ReleaseLease(p)

Supervise(s) ==
  \/ ListExpired(s)
  \/ ReadAssignment(s)
  \/ DraftReceipt(s)
  \/ Recover(s)
  \/ RecoverLost(s)

Next ==
  \/ Tick
  \/ \E p \in Process : Advance(p) \/ Kill(p) \/ \E a \in Assignment : BeginRun(p, a)
  \/ \E s \in Supervisor : Supervise(s) \/ Restart(s)

Spec == Init /\ [][Next]_vars

(* The supervisor loop keeps ticking, and from some moment on nothing but  *)
(* its own steps moves it: it is not restarted in the middle of every      *)
(* tick.  Nothing is assumed of the workers.                               *)
FairSpec ==
  /\ Spec
  /\ \A s \in Supervisor : WF_vars(Supervise(s)) /\ <>[][Supervise(s)]_(sup[s])

-----------------------------------------------------------------------------
(* Properties *)

(* The fencing token is monotone in effect: the attempt an assignment      *)
(* points at is ACTIVE, is its own, and is the newest it was ever given,   *)
(* whatever the order in which takeovers, recoveries and late commits of   *)
(* several processes reach the ledger.                                     *)
CurrentAttemptIsNewest ==
  \A a \in Assignment : current[a] # 0 =>
    /\ attempt[current[a]].of = a
    /\ attempt[current[a]].status = "ACTIVE"
    /\ \A t \in Token : attempt[t].of = a => t <= current[a]

(* acquire_execution_attempt never supersedes an attempt that is live: an  *)
(* ACTIVE attempt that its assignment no longer points at has expired.     *)
OnlyExpiredIsSuperseded ==
  \A t \in Token :
    attempt[t].status = "ACTIVE" /\ current[attempt[t].of] # t => Expired(attempt[t])

(* The supervisor takes an assignment from its worker only after the       *)
(* worker's attempt expired, although it acts on a worklist, a record and  *)
(* a clock it read several steps before.                                   *)
RecoveredOnlyAfterExpiry ==
  \A t \in Token : attempt[t].status = "RECOVERED" => Expired(attempt[t])

(* A receipt a worker wrote to the ledger belongs to an attempt that won   *)
(* its terminal write: the refusal of a lost fence leaves no row behind,   *)
(* and no attempt is decided twice.                                        *)
WorkerReceiptIsFenced ==
  \A r \in receipts : r.by \in Process =>
    /\ attempt[r.att].status = "DONE"
    /\ attempt[r.att].of = r.of
    /\ \A q \in receipts : q.by \in Process /\ q.att = r.att => q = r

(* The SOW's record tells the same story as the assignment's, although the *)
(* worker writes back a SOW it read before the attempt and the supervisor  *)
(* one it read before its transaction.                                     *)
SowFollowsAssignment ==
  \A a \in Assignment :
    sow[a] = CASE state[a] = "CREATED" -> "ASSIGNED"
               [] state[a] = "RUNNING" -> "RUNNING"
               [] state[a] = "COMPLETED" -> "REVIEW"
               [] state[a] = "BLOCKED" -> "BLOCKED"
               [] state[a] = "FAILED" -> "FAILED"

(* The fence implements its abstract specification.                        *)
Fence == INSTANCE AttemptFence WITH
  issued <- [a \in Assignment |-> {t \in Token : attempt[t].of = a}],
  holder <- current,
  decided <- {t \in Token : attempt[t].status \in {"DONE", "RECOVERED"}}

FenceSpec == Fence!Spec

(* A RUNNING assignment whose attempt expired does not keep it: its late   *)
(* worker or a supervisor decides it, whatever died meanwhile.             *)
ExpiredRunEnds ==
  \A a \in Assignment, t \in Token :
    (state[a] = "RUNNING" /\ current[a] = t /\ Expired(attempt[t])) ~> current[a] # t

-----------------------------------------------------------------------------
(* What the repository says, and the code does not do.  A run refutes the  *)
(* first of these; no run checks the other two.                            *)

(* policy.assignment_may_run: only created or recovered running            *)
(* assignments may be invoked; here, no step takes an assignment out of a  *)
(* terminal state.                                                         *)
TerminalIsFinal ==
  [][\A a \in Assignment : state[a] \in Terminal => state'[a] = state[a]]_vars

(* docs/v1-unit8-supervisor-fencing-recovery.md: a worker that no longer   *)
(* holds the fence may not mutate canonical execution state; here, the     *)
(* record of an assignment that no attempt holds does not change.          *)
OnlyTheHolderWrites ==
  [][\A a \in Assignment : state'[a] # state[a] => current[a] # 0]_vars

(* Chapter 6 of the book: one winner, one receipt, however many            *)
(* supervisors recover the assignment; here, no two receipts of            *)
(* supervisors tell of the same attempt.                                   *)
OneRecoveryReceipt ==
  \A r, q \in receipts :
    r.by \in Supervisor /\ q.by \in Supervisor /\ r.att = q.att => r = q
=============================================================================
