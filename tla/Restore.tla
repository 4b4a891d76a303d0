------------------------------ MODULE Restore -------------------------------
(***************************************************************************)
(* Backup, restore and account recovery: assistant_service.py and          *)
(* store/account_recovery.py, against purchasing and a supplier that keeps *)
(* its own account and cannot be restored.                                 *)
(*                                                                         *)
(* A snapshot taken at one moment is copied back at another, in three      *)
(* steps that a crash may part: pause the database, replace the authority  *)
(* marker beside it, overwrite its contents with an image prepared from    *)
(* the snapshot.  Requests admitted by the history that is lost may still  *)
(* be on their way.  Recovery fences the supplier's account, reads its     *)
(* receipts, and rebuilds the ledger from them in one transaction.         *)
(*                                                                         *)
(* Abstractions.  Of the assistant's tables only authority, orders and     *)
(* spending are kept; Orders has the claims and the queue behind them, and *)
(* here one claim stands for whatever a worker holds.  SENDING and UNKNOWN *)
(* are one status, CONFIRMED and DELIVERED another.  An answer that comes  *)
(* in time is recorded as one found by a lookup is.  A process that stops  *)
(* for good simply takes no further step.                                  *)
(***************************************************************************)
EXTENDS Integers, FiniteSets, FiniteSetsExt

CONSTANTS
    Worker,     \* processes that claim work and place orders
    Operator,   \* runs of recover-account that may be under way at a time
    Restoring,  \* restores that may ever begin; each is the epoch it draws
    Original,   \* the epoch the database was created with
    Order,      \* identifiers: rows assistant_orders may come to hold
    Amount,     \* Amount[o], which the identifier determines
    Limit,      \* limit_pence, the cumulative ceiling
    Answer,     \* what the supplier may answer: ACCEPTED, REJECTED
    None        \* NULL

Epoch == Restoring \cup {Original}

ASSUME RestoreAssumption ==
    /\ Original \notin Restoring
    /\ None \notin Worker \cup Order \cup Epoch
    /\ IsFiniteSet(Order) /\ Amount \in [Order -> Nat \ {0}]
    /\ Limit \in Nat
    /\ Answer \subseteq {"ACCEPTED", "REJECTED"}

VARIABLES
    db,        \* the assistant's database, as restore replaces it: a whole
    marker,    \* the .authority file beside it
    backup,    \* the snapshot an operator keeps, or None
    restore,   \* restore[r], how far that restore has come, and its image
    worker,    \* what each worker process holds in memory
    operator,  \* what each run of recover-account holds in memory
    supplier,  \* the supplier's account: epoch, rotations, receipts
    wire       \* order requests on their way, with the epoch they carry

vars == <<db, marker, backup, restore, worker, operator, supplier, wire>>

Row == [status : {"NONE", "DRAFT", "APPROVED", "SENDING", "CONFIRMED",
                  "REJECTED", "REVOKED"},
        revoked : BOOLEAN]
Receipt == {"NONE", "ACCEPTED", "REJECTED"}
Database == [epoch : Epoch,             \* assistant_control
             paused : BOOLEAN,
             order : [Order -> Row],    \* assistant_orders
             reserved : Int,            \* assistant_spending
             spent : Int,
             binding : Nat,             \* assistant_supplier_bindings.epoch
             holder : Worker \cup {None},
             recovered : SUBSET Epoch]  \* assistant_recovery_runs, keys

Rest == [at |-> "IDLE", epoch |-> Original, provider |-> 0,
         receipts |-> [o \in Order |-> "NONE"]]
NoRow == [status |-> "NONE", revoked |-> FALSE]

Init ==
    /\ db = [epoch |-> Original, paused |-> FALSE,
             order |-> [o \in Order |-> NoRow],
             reserved |-> 0, spent |-> 0, binding |-> 0,
             holder |-> None, recovered |-> {}]
    /\ marker = Original
    /\ backup = None
    /\ restore = [r \in Restoring |-> [at |-> "UNUSED", image |-> None]]
    /\ worker = [k \in Worker |-> [at |-> "IDLE", epoch |-> Original,
                                   client |-> 0, order |-> None]]
    /\ operator = [p \in Operator |-> Rest]
    /\ supplier = [epoch |-> 0, rotation |-> [e \in Epoch |-> 0],
                   receipt |-> [o \in Order |-> "NONE"]]
    /\ wire = {}

-----------------------------------------------------------------------------
(* Helpers.                                                                *)

Status(o) == db.order[o].status
Total(S) == SumFunctionOnSet(Amount, S)

\* _operator_state: neither paused nor replaced.
Active == ~db.paused /\ marker = db.epoch

\* assert_current: that, and a claim made under this very epoch.
AssertCurrent(k) ==
    Active /\ db.holder = k /\ worker[k].epoch = db.epoch

Accepted(receipts) == {o \in Order : receipts[o] = "ACCEPTED"}

Stay(k) == worker' = [worker EXCEPT ![k].at = "IDLE", ![k].order = None]

-----------------------------------------------------------------------------
(* Purchasing, as far as restoring it matters.                             *)

\* A worker process starts: configured_supplier reads the bound epoch once.
Start(k) ==
    /\ worker' = [worker EXCEPT ![k] = [@ EXCEPT !.at = "IDLE", !.order = None,
                                                 !.client = db.binding]]
    /\ UNCHANGED <<db, marker, backup, restore, operator, supplier, wire>>

\* claim(): new work, or a claim that ran out.
Claim(k) ==
    /\ Active /\ worker[k].at = "IDLE"
    /\ db' = [db EXCEPT !.holder = k]
    /\ worker' = [worker EXCEPT ![k].epoch = db.epoch]
    /\ UNCHANGED <<marker, backup, restore, operator, supplier, wire>>

Propose(k, o) ==
    /\ worker[k].at = "IDLE" /\ AssertCurrent(k)
    /\ Status(o) = "NONE"
    /\ db' = [db EXCEPT !.order[o].status = "DRAFT"]
    /\ UNCHANGED <<marker, backup, restore, worker, operator, supplier, wire>>

Approve(o) ==
    /\ Active
    /\ Status(o) = "DRAFT" /\ ~db.order[o].revoked
    /\ db.spent + db.reserved + Amount[o] <= Limit
    /\ db' = [db EXCEPT !.order[o].status = "APPROVED",
                        !.reserved = @ + Amount[o]]
    /\ UNCHANGED <<marker, backup, restore, worker, operator, supplier, wire>>

\* revoke(): asks neither for the pause nor for the marker.
Revoke(o) ==
    /\ Status(o) # "NONE" /\ ~db.order[o].revoked
    /\ db' = [db EXCEPT
                !.order[o] = [status |-> IF Status(o) \in {"DRAFT", "APPROVED"}
                                         THEN "REVOKED" ELSE Status(o),
                              revoked |-> TRUE],
                !.reserved = IF Status(o) = "APPROVED" THEN @ - Amount[o] ELSE @]
    /\ UNCHANGED <<marker, backup, restore, worker, operator, supplier, wire>>

\* execute() up to the admission: an order that may have been sent is looked
\* up first, by account, under whatever epoch.
Discover(k, o) ==
    /\ worker[k].at = "IDLE" /\ AssertCurrent(k)
    /\ Status(o) \in {"APPROVED", "SENDING"}
    /\ worker' = [worker EXCEPT
                    ![k].at = IF /\ Status(o) = "SENDING"
                                 /\ supplier.receipt[o] # "NONE"
                              THEN "RECORD" ELSE "ADMIT",
                    ![k].order = o]
    /\ UNCHANGED <<db, marker, backup, restore, operator, supplier, wire>>

\* The admission transaction, and the request that leaves after it.
Admit(k) ==
    LET o == worker[k].order
    IN  /\ worker[k].at = "ADMIT"
        /\ AssertCurrent(k)
        /\ Status(o) \in {"APPROVED", "SENDING"} /\ ~db.order[o].revoked
        /\ db.spent + db.reserved <= Limit
        /\ db' = [db EXCEPT !.order[o].status = "SENDING"]
        /\ wire' = wire \cup {[order |-> o, epoch |-> worker[k].client]}
        /\ Stay(k)
        /\ UNCHANGED <<marker, backup, restore, operator, supplier>>

AdmitRefused(k) ==
    LET o == worker[k].order
    IN  /\ worker[k].at = "ADMIT"
        /\ ~(/\ AssertCurrent(k)
             /\ Status(o) \in {"APPROVED", "SENDING"} /\ ~db.order[o].revoked
             /\ db.spent + db.reserved <= Limit)
        /\ Stay(k)
        /\ UNCHANGED <<db, marker, backup, restore, operator, supplier, wire>>

\* _record and _settle: under the claim, or not at all.
Record(k) ==
    LET o == worker[k].order
        accepted == supplier.receipt[o] = "ACCEPTED"
    IN  /\ worker[k].at = "RECORD"
        /\ IF AssertCurrent(k) /\ Status(o) = "SENDING"
           THEN db' = [db EXCEPT
                         !.order[o].status = IF accepted THEN "CONFIRMED"
                                             ELSE "REJECTED",
                         !.reserved = @ - Amount[o],
                         !.spent = IF accepted THEN @ + Amount[o] ELSE @]
           ELSE UNCHANGED db
        /\ Stay(k)
        /\ UNCHANGED <<marker, backup, restore, operator, supplier, wire>>

-----------------------------------------------------------------------------
(* The supplier, one request at a time.                                    *)

\* Bug: the epoch of a request is not compared with the account's.
DeliverAnyEpoch(m, answer) ==
    /\ wire' = wire \ {m}
    /\ supplier' = [supplier EXCEPT !.receipt[m.order] =
                       IF @ = "NONE" THEN answer ELSE @]
    /\ UNCHANGED <<db, marker, backup, restore, worker, operator>>

\* do_POST /orders: refused across a fence, and answered from the receipt when
\* there is one.
Deliver(m, answer) ==
    /\ wire' = wire \ {m}
    /\ supplier' = [supplier EXCEPT !.receipt[m.order] =
                       IF @ = "NONE" /\ m.epoch = supplier.epoch THEN answer ELSE @]
    /\ UNCHANGED <<db, marker, backup, restore, worker, operator>>

-----------------------------------------------------------------------------
(* Backup and restore.                                                     *)

\* backup(): its destination is created once and never replaced.
Backup ==
    /\ backup = None
    /\ backup' = db
    /\ UNCHANGED <<db, marker, restore, worker, operator, supplier, wire>>

Disavowed(rows) ==
    [o \in Order |-> IF rows[o].status = "NONE" THEN rows[o]
                     ELSE [rows[o] EXCEPT !.revoked = TRUE]]

\* The image: another epoch, paused, no claim, no authority to send.
Image(r) ==
    [backup EXCEPT !.epoch = r, !.paused = TRUE, !.holder = None,
                   !.order = Disavowed(@)]

Prepare(r) ==
    /\ restore[r].at = "UNUSED" /\ backup # None
    /\ restore' = [restore EXCEPT ![r] = [at |-> "PREPARED", image |-> Image(r)]]
    /\ UNCHANGED <<db, marker, backup, worker, operator, supplier, wire>>

Pause(r) ==
    /\ restore[r].at = "PREPARED"
    /\ db' = [db EXCEPT !.paused = TRUE]
    /\ restore' = [restore EXCEPT ![r].at = "PAUSED"]
    /\ UNCHANGED <<marker, backup, worker, operator, supplier, wire>>

Mark(r) ==
    /\ restore[r].at = "PAUSED"
    /\ marker' = r
    /\ restore' = [restore EXCEPT ![r].at = "MARKED"]
    /\ UNCHANGED <<db, backup, worker, operator, supplier, wire>>

Copy(r) ==
    /\ restore[r].at = "MARKED"
    /\ db' = restore[r].image
    /\ restore' = [restore EXCEPT ![r] = [at |-> "DONE", image |-> None]]
    /\ UNCHANGED <<marker, backup, worker, operator, supplier, wire>>

-----------------------------------------------------------------------------
(* Recovery.                                                               *)

PausedEpoch(e) == db.paused /\ db.epoch = e /\ marker = e

\* recover() from its start, or again after it was killed on the way.
Begin(p) ==
    /\ PausedEpoch(db.epoch)
    /\ db.epoch \notin db.recovered
    /\ operator' = [operator EXCEPT ![p] = [Rest EXCEPT !.at = "FENCE",
                                                       !.epoch = db.epoch]]
    /\ UNCHANGED <<db, marker, backup, restore, worker, supplier, wire>>

\* POST /account/fence: one rotation per restored epoch, whoever asks.
Fence(p) ==
    LET e == operator[p].epoch
        new == IF supplier.rotation[e] = 0 THEN supplier.epoch + 1
               ELSE supplier.rotation[e]
    IN  /\ operator[p].at = "FENCE"
        /\ supplier' = [supplier EXCEPT
                          !.epoch = IF supplier.rotation[e] = 0 THEN new ELSE @,
                          !.rotation[e] = new]
        /\ operator' = [operator EXCEPT ![p].at = "EXPORT", ![p].provider = new]
        /\ UNCHANGED <<db, marker, backup, restore, worker, wire>>

\* GET /account/snapshot at the epoch the fence returned; 409 when the account
\* has moved on under another rotation.
Export(p) ==
    /\ operator[p].at = "EXPORT"
    /\ operator' = [operator EXCEPT
          ![p] = IF supplier.epoch = @.provider
                 THEN [@ EXCEPT !.at = "COMMIT", !.receipts = supplier.receipt]
                 ELSE Rest]
    /\ UNCHANGED <<db, marker, backup, restore, worker, supplier, wire>>

\* Bug: an uncertain order must have a receipt too.
AgreesOnEveryOrder(receipts) ==
    \A o \in Order : /\ Status(o) \in {"SENDING", "CONFIRMED"} => receipts[o] = "ACCEPTED"
                     /\ Status(o) = "REJECTED" => receipts[o] = "REJECTED"

\* Nothing conclusive here may be contradicted by the supplier's account.
Agrees(receipts) ==
    \A o \in Order : /\ Status(o) = "CONFIRMED" => receipts[o] = "ACCEPTED"
                     /\ Status(o) = "REJECTED" => receipts[o] = "REJECTED"

\* Bug: a sale the restored rows do not know is not imported.
RebuiltFromKnown(o, receipt) ==
    [status |-> CASE Status(o) = "NONE" -> "NONE"
                  [] receipt = "ACCEPTED" -> "CONFIRMED"
                  [] receipt = "REJECTED" -> "REJECTED"
                  [] OTHER -> "REVOKED",
     revoked |-> Status(o) # "NONE"]

\* A row is what the receipts say of it, imported if it is missing; an order
\* without a receipt can no longer be sent.
Rebuilt(o, receipt) ==
    IF receipt = "NONE" /\ Status(o) = "NONE" THEN NoRow
    ELSE [status |-> CASE receipt = "ACCEPTED" -> "CONFIRMED"
                       [] receipt = "REJECTED" -> "REJECTED"
                       [] OTHER -> "REVOKED",
          revoked |-> TRUE]

MayCommit(p) ==
    /\ PausedEpoch(operator[p].epoch)
    /\ operator[p].epoch \notin db.recovered
    /\ Agrees(operator[p].receipts)

\* The recovery transaction.  A second run of one epoch finds its key taken.
Commit(p) ==
    LET receipts == operator[p].receipts
    IN  /\ operator[p].at = "COMMIT"
        /\ MayCommit(p)
        /\ db' = [epoch |-> db.epoch, paused |-> FALSE,
                  order |-> [o \in Order |-> Rebuilt(o, receipts[o])],
                  reserved |-> 0, spent |-> Total(Accepted(receipts)),
                  binding |-> operator[p].provider,
                  holder |-> None,
                  recovered |-> db.recovered \cup {db.epoch}]
        /\ operator' = [operator EXCEPT ![p] = Rest]
        /\ UNCHANGED <<marker, backup, restore, worker, supplier, wire>>

CommitRefused(p) ==
    /\ operator[p].at = "COMMIT"
    /\ ~MayCommit(p)
    /\ operator' = [operator EXCEPT ![p] = Rest]
    /\ UNCHANGED <<db, marker, backup, restore, worker, supplier, wire>>

-----------------------------------------------------------------------------

Purchase ==
    \/ \E k \in Worker : Start(k) \/ Claim(k) \/ Admit(k) \/ AdmitRefused(k) \/ Record(k)
    \/ \E k \in Worker, o \in Order : Propose(k, o) \/ Discover(k, o)
    \/ \E o \in Order : Approve(o) \/ Revoke(o)

\* A request that is lost is one that is never delivered.
Network == \E m \in wire, answer \in Answer : Deliver(m, answer)

Maintain ==
    \/ Backup
    \/ \E r \in Restoring : Prepare(r) \/ Pause(r) \/ Mark(r) \/ Copy(r)

Recover ==
    \E p \in Operator : \/ Begin(p) \/ Fence(p) \/ Export(p)
                        \/ Commit(p) \/ CommitRefused(p)

Next == Purchase \/ Network \/ Maintain \/ Recover

Spec == Init /\ [][Next]_vars

\* An operator who reruns the command after every failure, and does not kill
\* it every time at the same place.
FairSpec ==
    /\ Spec
    /\ \A p \in Operator : /\ WF_vars(Begin(p))
                           /\ SF_vars(Fence(p)) /\ SF_vars(Export(p))
                           /\ SF_vars(Commit(p)) /\ SF_vars(CommitRefused(p))

-----------------------------------------------------------------------------
(* Properties.                                                             *)

TypeOK ==
    /\ db \in Database
    /\ marker \in Epoch
    /\ backup \in Database \cup {None}
    /\ restore \in [Restoring -> [at : {"UNUSED", "DONE"}, image : {None}]
                                \cup [at : {"PREPARED", "PAUSED", "MARKED"},
                                      image : Database]]
    /\ worker \in [Worker -> [at : {"IDLE", "ADMIT", "RECORD"}, epoch : Epoch,
                              client : Nat, order : Order \cup {None}]]
    /\ operator \in [Operator -> [at : {"IDLE", "FENCE", "EXPORT", "COMMIT"},
                                  epoch : Epoch, provider : Nat,
                                  receipts : [Order -> Receipt]]]
    /\ supplier \in [epoch : Nat, rotation : [Epoch -> Nat],
                     receipt : [Order -> Receipt]]
    /\ wire \subseteq [order : Order, epoch : Nat]

\* While the assistant may act, its ledger accounts for every order the
\* supplier has accepted: bought, or uncertain with its money held.  Restores
\* lose rows, and the requests of lost rows arrive late; the fence, the export
\* behind it and the import have to leave none out (account_recovery.py).
SalesAreKnown ==
    Active => \A o \in Order :
        supplier.receipt[o] = "ACCEPTED" => Status(o) \in {"SENDING", "CONFIRMED"}

\* What the supplier has sold, over every history that was restored away, never
\* exceeds the ceiling of assistant_spending: no restore gives money back.
CeilingSurvives == Total(Accepted(supplier.receipt)) <= Limit

\* A restored database that nobody recovered yet does not stay paused: recovery
\* fits whatever the snapshot knew and the supplier sold, or another restore
\* takes the place of this one.
RestoredIsReopened ==
    \A e \in Epoch : (PausedEpoch(e) /\ e \notin db.recovered) ~> ~PausedEpoch(e)
=============================================================================
