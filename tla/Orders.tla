------------------------------- MODULE Orders -------------------------------
(***************************************************************************)
(* Purchasing by the shop assistant: assistant_orders.py over the claims   *)
(* of assistant_work.py, driven by the loop of store/assistant.py, against *)
(* a supplier that runs in another process with a database of its own.     *)
(*                                                                         *)
(* A worker claims a work item, lets the model propose orders, and then    *)
(* visits the item's orders one by one.  An operator approves, revokes,    *)
(* cancels, resolves and receives from another process at any moment.      *)
(* Every block of the source inside db.immediate() is one action; a read   *)
(* outside one is an action of its own, and so is each leg of a supplier   *)
(* call.                                                                   *)
(*                                                                         *)
(* Abstractions.  A claim is named by its holder: (owner, generation) is   *)
(* compared only for equality and every increment of the generation either *)
(* installs a new holder or (cancel) removes the one there was.  Deadlines *)
(* are the events of passing them.  Of a quantity only its cost is kept,   *)
(* and a row's identifier stands for its exact proposal, as the uuid5 does:*)
(* no two rows of one work item hold the same one.                         *)
(***************************************************************************)
EXTENDS Integers, FiniteSets, FiniteSetsExt

CONSTANTS
    Worker,     \* processes that run run_once or reconcile_once
    Connected,  \* those of them configured with a supplier endpoint
    Work,       \* rows of assistant_work
    Session,    \* Session[w], the conversation a work item belongs to
    Order,      \* identifiers: rows assistant_orders may come to hold
    Product,    \* SKUs
    Cost,       \* what a proposal may come to, quantity * unit cost
    Limit,      \* limit_pence, the cumulative ceiling
    Adapter,    \* the values Supplier.idempotent may have
    Automatic,  \* automatic_order_pence, approved without an operator
    MaxCopies,  \* bound: requests for one order in the network at a time
    MaxCommands,\* bound: approval commands between their transactions
    None        \* the NULL of owner, and of a worker with no order in hand

ASSUME OrdersAssumption ==
    /\ Connected \subseteq Worker
    /\ None \notin Worker \cup Work \cup Order
    /\ None \notin Product
    /\ DOMAIN Session = Work
    /\ IsFiniteSet(Order)
    /\ Cost \subseteq Nat \ {0}
    /\ Adapter \subseteq BOOLEAN
    /\ Limit \in Nat \ {0} /\ Automatic \in 0..Limit
    /\ MaxCopies \in Nat \ {0} /\ MaxCommands \in Nat

VARIABLES
    work,       \* assistant_work
    order,      \* assistant_orders; status "NONE" where there is no row
    spending,   \* assistant_spending, and the stock the deliveries added
    paused,     \* assistant_control.paused
    run,        \* what each worker process holds in its own memory
    waking,     \* approvals whose second transaction has not run yet
    wire,       \* wire[o], copies of the request for o on their way
    ledger,     \* the supplier's conclusive answer for o, if it has one
    purchases,  \* purchases[o], how often the supplier has sold o
    idempotent  \* Supplier.idempotent, a property of the adapter in use

db == <<work, order, spending, paused>>
supplier == <<wire, ledger, purchases, idempotent>>
vars == <<work, order, spending, paused, run, waking,
          wire, ledger, purchases, idempotent>>

Uncertain == {"SENDING", "UNKNOWN"}
Held == {"APPROVED"} \cup Uncertain
Pending == {"DRAFT"} \cup Held
Bought == {"CONFIRMED", "DELIVERED"}
Settled == Bought \cup {"REJECTED"}

WorkRow == [status : {"READY", "RUNNING", "BLOCKED", "CANCELLED", "DONE"},
            owner : Worker \cup {None},         \* kept while RUNNING only
            life : {"AMPLE", "SHORT", "OVER"},  \* expires, for supplier.timeout
            cancelled : BOOLEAN]
OrderRow == [status : {"NONE", "REVOKED"} \cup Pending \cup Settled,
             revoked : BOOLEAN,
             current : BOOLEAN,                 \* approved_until > now, while Held
             work : Work \cup {None},
             sku : Product \cup {None},
             amount : Cost \cup {0}]
Run == [at : {"IDLE", "CLAIMED", "TURN", "ORDERS", "READ", "LOOKUP", "ADMIT",
              "SEND", "WAIT", "RECORD", "DOUBT", "FINISH"},
        work : Work \cup {None},
        order : Order \cup {None},
        todo : SUBSET Order,
        drafts : SUBSET Order,
        verdict : {"NONE", "DONE", "BLOCKED", "CANCELLED"}]

NoRow == [status |-> "NONE", revoked |-> FALSE, current |-> FALSE,
          work |-> None, sku |-> None, amount |-> 0]
Idle == [at |-> "IDLE", work |-> None, order |-> None, todo |-> {},
         drafts |-> {}, verdict |-> "NONE"]

Init ==
    /\ work = [w \in Work |-> [status |-> "READY", owner |-> None,
                               life |-> "OVER", cancelled |-> FALSE]]
    /\ order = [o \in Order |-> NoRow]
    /\ spending = [reserved |-> 0, spent |-> 0, stock |-> 0]
    /\ paused = FALSE
    /\ run = [k \in Worker |-> Idle]
    /\ waking = {}
    /\ wire = [o \in Order |-> 0]
    /\ ledger = [o \in Order |-> "NONE"]
    /\ purchases = [o \in Order |-> 0]
    /\ idempotent \in Adapter

-----------------------------------------------------------------------------
(* Helpers.                                                                *)

Status(o) == order[o].status
Amount(o) == order[o].amount
Rows(w) == {o \in Order : order[o].work = w}
Orders(w, S) == {o \in Rows(w) : Status(o) \in S}
Total(S) == SumFunctionOnSet([o \in Order |-> Amount(o)], S)

\* assert_current: the marker, the pause and the claim, in one statement.
AssertCurrent(k) ==
    /\ ~paused
    /\ run[k].work # None
    /\ work[run[k].work].status = "RUNNING"
    /\ work[run[k].work].owner = k
    /\ work[run[k].work].life # "OVER"

Goto(k, r) == run' = [run EXCEPT ![k] = r]
At(k, place) == run[k].at = place
Step(k, place) == Goto(k, [run[k] EXCEPT !.at = place])
Leave(k) == Goto(k, [run[k] EXCEPT !.at = "ORDERS", !.order = None])

SessionIsFree(w) ==
    ~\E v \in Work : /\ Session[v] = Session[w]
                     /\ work[v].status = "RUNNING"
                     /\ work[v].life # "OVER"

Expired(w) == work[w].status = "RUNNING" /\ work[w].life = "OVER"

Hold(w, k) == [work EXCEPT ![w] =
                  [@ EXCEPT !.status = "RUNNING", !.owner = k, !.life = "AMPLE"]]

\* Bug: revocation takes back an order that may be at the supplier.
WithdrawnWhenSent(S) ==
    [o \in Order |->
        IF o \notin S THEN order[o]
        ELSE [order[o] EXCEPT
                !.revoked = TRUE,
                !.current = FALSE,
                !.status = IF @ \in Pending THEN "REVOKED" ELSE @]]

\* The rows of S as revocation, supersession and cancellation leave them: an
\* order that may be at the supplier keeps its status, and its reservation.
Withdrawn(S) ==
    [o \in Order |->
        IF o \notin S THEN order[o]
        ELSE [order[o] EXCEPT
                !.revoked = TRUE,
                !.current = @ /\ Status(o) \in Uncertain,
                !.status = IF @ \in {"DRAFT", "APPROVED"} THEN "REVOKED" ELSE @]]

\* Bug: the reservation of a withdrawn order is forgotten.
ReleaseNothing(S) == spending

Release(S) == [spending EXCEPT !.reserved =
                   @ - Total({o \in S : Status(o) = "APPROVED"})]

-----------------------------------------------------------------------------
(* Workers: claiming, and the model's turn.                                *)

\* claim(), ordinary: queued work, or work whose holder's time ran out.
ClaimTurn(k, w) ==
    /\ At(k, "IDLE") /\ ~paused
    /\ work[w].status = "READY" \/ Expired(w)
    /\ SessionIsFree(w)
    /\ work' = Hold(w, k)
    /\ Goto(k, [Idle EXCEPT !.at = "CLAIMED", !.work = w])
    /\ UNCHANGED <<order, spending, paused, waking, supplier>>

\* Bug: recovery passes over cancelled work.
ClaimRecoveryUnlessCancelled(k, w) ==
    /\ At(k, "IDLE") /\ k \in Connected /\ ~paused
    /\ work[w].status \in {"READY", "BLOCKED"} \/ Expired(w)
    /\ Orders(w, Uncertain) # {}
    /\ SessionIsFree(w)
    /\ work' = Hold(w, k)
    /\ Goto(k, [Idle EXCEPT !.at = "ORDERS", !.work = w, !.todo = Rows(w)])
    /\ UNCHANGED <<order, spending, paused, waking, supplier>>

\* reconcile_once: claim(recovery_only=True), then straight to the orders.
ClaimRecovery(k, w) ==
    /\ At(k, "IDLE") /\ k \in Connected /\ ~paused
    /\ work[w].status \in {"READY", "BLOCKED", "CANCELLED"} \/ Expired(w)
    /\ Orders(w, Uncertain) # {}
    /\ SessionIsFree(w)
    /\ work' = Hold(w, k)
    /\ Goto(k, [Idle EXCEPT !.at = "ORDERS", !.work = w, !.todo = Rows(w)])
    /\ UNCHANGED <<order, spending, paused, waking, supplier>>

\* run_once: an item with decided orders goes to them, any other to the model.
Begin(k) ==
    /\ At(k, "CLAIMED")
    /\ LET w == run[k].work
           existing == \E o \in Rows(w) : Status(o) # "DRAFT"
       IN  Goto(k, IF existing /\ k \in Connected
                   THEN [run[k] EXCEPT !.at = "ORDERS", !.todo = Rows(w)]
                   ELSE [run[k] EXCEPT !.at = "TURN"])
    /\ UNCHANGED <<db, waking, supplier>>

\* Bug: an approved sibling is left standing.
ProposeBesideApproved(k, o, sku, cost) ==
    LET w == run[k].work
        siblings == {p \in Rows(w) : order[p].sku = sku}
        replaced == {p \in siblings : Status(p) = "DRAFT"}
    IN  /\ At(k, "TURN") /\ k \in Connected
        /\ AssertCurrent(k)
        /\ Status(o) = "NONE"
        /\ \A p \in siblings : /\ Amount(p) # cost
                               /\ Status(p) \notin Uncertain \cup Bought
        /\ order' = [Withdrawn(replaced) EXCEPT
                        ![o] = [NoRow EXCEPT !.status = "DRAFT", !.work = w,
                                             !.sku = sku, !.amount = cost]]
        /\ spending' = Release(replaced)
        /\ UNCHANGED <<work, paused, run, waking, supplier>>

\* propose(): the new draft replaces whatever the item had for that product,
\* unless that may have reached the supplier.
Propose(k, o, sku, cost) ==
    LET w == run[k].work
        siblings == {p \in Rows(w) : order[p].sku = sku}
        replaced == {p \in siblings : Status(p) \in {"DRAFT", "APPROVED"}}
    IN  /\ At(k, "TURN") /\ k \in Connected
        /\ AssertCurrent(k)
        /\ Status(o) = "NONE"
        /\ \A p \in siblings : /\ Amount(p) # cost
                               /\ Status(p) \notin Uncertain \cup Bought
        /\ order' = [Withdrawn(replaced) EXCEPT
                        ![o] = [NoRow EXCEPT !.status = "DRAFT", !.work = w,
                                             !.sku = sku, !.amount = cost]]
        /\ spending' = Release(replaced)
        /\ UNCHANGED <<work, paused, run, waking, supplier>>

\* The loop completed: _orders(automatic=True) if there are rows, else done.
CompleteTurn(k) ==
    /\ At(k, "TURN")
    /\ LET rows == Rows(run[k].work)
       IN  Goto(k, IF rows # {} /\ k \in Connected
                   THEN [run[k] EXCEPT
                            !.at = "ORDERS", !.todo = rows,
                            !.drafts = {o \in rows : /\ Status(o) = "DRAFT"
                                                     /\ ~order[o].revoked
                                                     /\ Amount(o) <= Automatic}]
                   ELSE [run[k] EXCEPT !.at = "FINISH", !.verdict = "DONE"])
    /\ UNCHANGED <<db, waking, supplier>>

\* It ran out of budget, was refused, or failed.
FailTurn(k) ==
    /\ At(k, "TURN")
    /\ Goto(k, [run[k] EXCEPT !.at = "FINISH", !.verdict = "BLOCKED"])
    /\ UNCHANGED <<db, waking, supplier>>

-----------------------------------------------------------------------------
(* approve(), shared by the operator and by the automatic allowance.       *)

Addition(o) == IF Status(o) = "DRAFT" THEN Amount(o) ELSE 0

Approvable(o) ==
    /\ Status(o) \in Pending
    /\ ~order[o].revoked
    /\ ~paused
    /\ ~work[order[o].work].cancelled
    /\ spending.spent + spending.reserved + Addition(o) <= Limit

Approved(o) ==
    /\ order' = [order EXCEPT ![o] =
                    [@ EXCEPT !.status = IF Status(o) \in Uncertain THEN Status(o)
                                         ELSE "APPROVED",
                              !.current = TRUE]]
    /\ spending' = [spending EXCEPT !.reserved = @ + Addition(o)]

\* An uncertain order needs an operator and an idempotent supplier.
Approve(o) ==
    /\ Approvable(o)
    /\ Status(o) \in Uncertain => idempotent
    /\ Cardinality(waking) < MaxCommands
    /\ Approved(o)
    /\ waking' = waking \cup {o}
    /\ UNCHANGED <<work, paused, run, supplier>>

\* The second transaction of the command: blocked work becomes eligible.
Wake(o) ==
    /\ o \in waking
    /\ waking' = waking \ {o}
    /\ work' = [work EXCEPT ![order[o].work].status =
                                IF @ = "BLOCKED" THEN "READY" ELSE @]
    /\ UNCHANGED <<order, spending, paused, run, supplier>>

\* Note that this takes no claim: a superseded worker may still do it.
AutoApprove(k, o) ==
    /\ At(k, "ORDERS") /\ o \in run[k].drafts
    /\ IF Approvable(o) /\ Status(o) \notin Uncertain
       THEN /\ Approved(o)
            /\ Goto(k, [run[k] EXCEPT !.at = "READ", !.order = o,
                                      !.todo = @ \ {o}, !.drafts = @ \ {o}])
       ELSE /\ Goto(k, [run[k] EXCEPT !.todo = @ \ {o}, !.drafts = @ \ {o}])
            /\ UNCHANGED <<order, spending>>
    /\ UNCHANGED <<work, paused, waking, supplier>>

-----------------------------------------------------------------------------
(* execute(): read, discover, admit, transmit, record.                     *)

\* The unlocked read.  What it sees decides only whether to look the order up.
Read(k, o) ==
    /\ \/ At(k, "ORDERS") /\ o \in run[k].todo \ run[k].drafts
       \/ At(k, "READ") /\ o = run[k].order
    /\ LET next == IF Status(o) \notin Held \/ ~AssertCurrent(k) THEN "ORDERS"
                   ELSE IF Status(o) = "APPROVED" THEN "ADMIT"
                   ELSE "LOOKUP"
       IN  Goto(k, [run[k] EXCEPT !.at = next, !.todo = @ \ {o},
                        !.order = IF next = "ORDERS" THEN None ELSE o])
    /\ UNCHANGED <<db, waking, supplier>>

LookupFinds(k) ==
    /\ At(k, "LOOKUP") /\ ledger[run[k].order] # "NONE"
    /\ Step(k, "RECORD")
    /\ UNCHANGED <<db, waking, supplier>>

\* Bug: an operation the supplier does not know is taken for a rejected one.
LookupTakesAbsenceForRejection(k) ==
    LET o == run[k].order
    IN  /\ At(k, "LOOKUP") /\ ledger[o] = "NONE"
        /\ order' = [order EXCEPT ![o].status =
                        IF AssertCurrent(k) /\ @ \in Uncertain THEN "REJECTED" ELSE @]
        /\ Leave(k)
        /\ UNCHANGED <<work, spending, paused, waking, supplier>>

LookupFindsNothing(k) ==
    /\ At(k, "LOOKUP") /\ ledger[run[k].order] = "NONE"
    /\ IF idempotent THEN Step(k, "ADMIT") ELSE Leave(k)
    /\ UNCHANGED <<db, waking, supplier>>

LookupFails(k) ==
    /\ At(k, "LOOKUP")
    /\ Leave(k)
    /\ UNCHANGED <<db, waking, supplier>>

\* Bug: the order is admitted as the unlocked read saw it.
MaySendAsRead(k, o) ==
    /\ AssertCurrent(k)
    /\ spending.reserved >= Total({p \in Order : Status(p) \in Held})
    /\ spending.spent + spending.reserved <= Limit
    /\ work[run[k].work].life = "AMPLE"

\* Bug: the claim is checked when the order is read and not again.
MaySendUnfenced(k, o) ==
    /\ ~paused
    /\ work[run[k].work].life = "AMPLE"
    /\ Status(o) \in Held
    /\ ~order[o].revoked
    /\ order[o].current

\* The admission transaction reads every authority again.
MaySend(k, o) ==
    /\ AssertCurrent(k)
    /\ spending.reserved >= Total({p \in Order : Status(p) \in Held})
    /\ spending.spent + spending.reserved <= Limit
    /\ ~work[run[k].work].cancelled
    /\ work[run[k].work].life = "AMPLE"
    /\ Status(o) \in Held
    /\ ~order[o].revoked
    /\ order[o].current

Admit(k) ==
    LET o == run[k].order
    IN  /\ At(k, "ADMIT")
        /\ IF MaySend(k, o)
           THEN /\ order' = [order EXCEPT ![o].status = "SENDING"]
                /\ Step(k, "SEND")
           ELSE /\ Leave(k)
                /\ UNCHANGED order
        /\ UNCHANGED <<work, spending, paused, waking, supplier>>

Send(k) ==
    LET o == run[k].order
    IN  /\ At(k, "SEND") /\ wire[o] < MaxCopies
        /\ wire' = [wire EXCEPT ![o] = @ + 1]
        /\ Step(k, "WAIT")
        /\ UNCHANGED <<db, waking, ledger, purchases, idempotent>>

Answered(k) ==
    /\ At(k, "WAIT") /\ ledger[run[k].order] # "NONE"
    /\ Step(k, "RECORD")
    /\ UNCHANGED <<db, waking, supplier>>

\* Refused connection, lost response, timeout: OSError or ValueError.
SendFails(k) ==
    /\ At(k, "SEND") \/ At(k, "WAIT")
    /\ Step(k, "DOUBT")
    /\ UNCHANGED <<db, waking, supplier>>

\* Bug: the reservation is released and the expense is not entered.
SettleUnspent(o) ==
    /\ order' = [order EXCEPT ![o] =
                    [@ EXCEPT !.status = IF ledger[o] = "ACCEPTED"
                                         THEN "CONFIRMED" ELSE "REJECTED",
                              !.current = FALSE]]
    /\ spending' = [spending EXCEPT !.reserved = @ - Amount(o)]

\* _settle(), for an order that is still uncertain.
Settle(o) ==
    LET accepted == ledger[o] = "ACCEPTED"
    IN  /\ order' = [order EXCEPT ![o] =
                        [@ EXCEPT !.status = IF accepted THEN "CONFIRMED"
                                             ELSE "REJECTED",
                                  !.current = FALSE]]
        /\ spending' = [spending EXCEPT
                           !.reserved = @ - Amount(o),
                           !.spent = @ + (IF accepted THEN Amount(o) ELSE 0)]

\* Bug: the receipt is recorded without asking whose claim it is.
RecordUnfenced(k) ==
    LET o == run[k].order
    IN  /\ At(k, "RECORD")
        /\ IF Status(o) \in Uncertain
           THEN Settle(o)
           ELSE UNCHANGED <<order, spending>>
        /\ Leave(k)
        /\ UNCHANGED <<work, paused, waking, supplier>>

Record(k) ==
    LET o == run[k].order
    IN  /\ At(k, "RECORD")
        /\ IF AssertCurrent(k) /\ Status(o) \in Uncertain
           THEN Settle(o)
           ELSE UNCHANGED <<order, spending>>
        /\ Leave(k)
        /\ UNCHANGED <<work, paused, waking, supplier>>

Doubt(k) ==
    LET o == run[k].order
    IN  /\ At(k, "DOUBT")
        /\ order' = [order EXCEPT ![o].status =
                        IF AssertCurrent(k) /\ @ = "SENDING" THEN "UNKNOWN" ELSE @]
        /\ Leave(k)
        /\ UNCHANGED <<work, spending, paused, waking, supplier>>

-----------------------------------------------------------------------------
(* The end of a pass: what is left decides the state of the work item.     *)

\* Bug: only what is reserved counts as open.
SurveyWithoutDrafts(k) ==
    /\ At(k, "ORDERS")
    /\ LET w == run[k].work
       IN  Goto(k, [run[k] EXCEPT
                       !.at = "FINISH", !.todo = {}, !.drafts = {},
                       !.verdict = IF Orders(w, Held) # {} THEN "BLOCKED"
                                   ELSE IF work[w].cancelled THEN "CANCELLED"
                                   ELSE "DONE"])
    /\ UNCHANGED <<db, waking, supplier>>

\* An unlocked read of the rows and of cancelled.
Survey(k) ==
    /\ At(k, "ORDERS")
    /\ LET w == run[k].work
       IN  Goto(k, [run[k] EXCEPT
                       !.at = "FINISH", !.todo = {}, !.drafts = {},
                       !.verdict = IF Orders(w, Pending) # {} THEN "BLOCKED"
                                   ELSE IF work[w].cancelled THEN "CANCELLED"
                                   ELSE "DONE"])
    /\ UNCHANGED <<db, waking, supplier>>

\* SIGTERM: should_stop() leaves the remaining orders unvisited.
StopEarly(k) ==
    /\ At(k, "ORDERS") /\ run[k].todo # {}
    /\ Survey(k)

FinishVisits(k) ==
    /\ At(k, "ORDERS") /\ run[k].todo = {}
    /\ Survey(k)

\* finish(): refused, the worker reports itself STALE and changes nothing.
Finish(k) ==
    /\ At(k, "FINISH")
    /\ work' = IF AssertCurrent(k)
               THEN [work EXCEPT ![run[k].work] =
                        [@ EXCEPT !.status = run[k].verdict, !.owner = None,
                                  !.life = "OVER"]]
               ELSE work
    /\ Goto(k, Idle)
    /\ UNCHANGED <<order, spending, paused, waking, supplier>>

-----------------------------------------------------------------------------
(* The operator, from another process.                                     *)

Revoke(o) ==
    /\ Status(o) # "NONE" /\ ~order[o].revoked
    /\ order' = Withdrawn({o})
    /\ spending' = Release({o})
    /\ UNCHANGED <<work, paused, run, waking, supplier>>

\* cancel(): revokes every row of the item and takes the claim from its holder.
Cancel(w) ==
    LET open == work[w].status \in {"READY", "RUNNING", "BLOCKED"}
    IN  /\ open \/ \E o \in Rows(w) : ~order[o].revoked
        /\ order' = Withdrawn(Rows(w))
        /\ spending' = Release(Rows(w))
        /\ work' = IF open
                   THEN [work EXCEPT ![w] =
                            [@ EXCEPT !.status = "CANCELLED", !.owner = None,
                                      !.life = "OVER", !.cancelled = TRUE]]
                   ELSE work
        /\ UNCHANGED <<paused, run, waking, supplier>>

Retry(w) ==
    /\ work[w].status = "BLOCKED"
    /\ work' = [work EXCEPT ![w].status = "READY"]
    /\ UNCHANGED <<order, spending, paused, run, waking, supplier>>

\* resolve(): the supplier's conclusive answer, obtained by the operator.
Resolve(o) ==
    /\ ~paused
    /\ ledger[o] # "NONE" /\ Status(o) \in Uncertain
    /\ Settle(o)
    /\ work' = [work EXCEPT ![order[o].work].status =
                                IF @ \in {"BLOCKED", "CANCELLED"} THEN "READY" ELSE @]
    /\ UNCHANGED <<paused, run, waking, supplier>>

Receive(o) ==
    /\ ~paused
    /\ Status(o) = "CONFIRMED"
    /\ order' = [order EXCEPT ![o].status = "DELIVERED"]
    /\ spending' = [spending EXCEPT !.stock = @ + Amount(o)]
    /\ UNCHANGED <<work, paused, run, waking, supplier>>

\* restore() begins by pausing the database it is about to replace.
Pause ==
    /\ ~paused
    /\ paused' = TRUE
    /\ UNCHANGED <<work, order, spending, run, waking, supplier>>

-----------------------------------------------------------------------------
(* Time, faults and the supplier.                                          *)

\* The claim first becomes too short for another supplier call, then expires.
Lapse(w) ==
    /\ work[w].status = "RUNNING" /\ work[w].life # "OVER"
    /\ work' = [work EXCEPT ![w].life = IF @ = "AMPLE" THEN "SHORT" ELSE "OVER"]
    /\ UNCHANGED <<order, spending, paused, run, waking, supplier>>

ApprovalLapses(o) ==
    /\ order[o].current
    /\ order' = [order EXCEPT ![o].current = FALSE]
    /\ UNCHANGED <<work, spending, paused, run, waking, supplier>>

Crash(k) ==
    /\ ~At(k, "IDLE")
    /\ Goto(k, Idle)
    /\ UNCHANGED <<db, waking, supplier>>

\* A request arrives.  What the supplier once answered it answers again, and
\* a rejection closes the operation to requests that are still on their way.
Arrive(o, answer) ==
    LET conclusion == IF ledger[o] = "NONE" THEN answer ELSE ledger[o]
        sold == /\ conclusion = "ACCEPTED"
                /\ ledger[o] = "NONE" \/ ~idempotent
    IN  /\ wire[o] > 0
        /\ wire' = [wire EXCEPT ![o] = @ - 1]
        /\ ledger' = [ledger EXCEPT ![o] = conclusion]
        /\ purchases' = [purchases EXCEPT ![o] = @ + (IF sold THEN 1 ELSE 0)]
        /\ UNCHANGED <<db, run, waking, idempotent>>

LoseRequest(o) ==
    /\ wire[o] > 0
    /\ wire' = [wire EXCEPT ![o] = @ - 1]
    /\ UNCHANGED <<db, run, waking, ledger, purchases, idempotent>>

\* At the operator's request: the evidence of rejection resolve() demands.
CloseOperation(o) ==
    /\ Status(o) \in Uncertain /\ ledger[o] = "NONE"
    /\ ledger' = [ledger EXCEPT ![o] = "REJECTED"]
    /\ UNCHANGED <<db, run, waking, wire, purchases, idempotent>>

-----------------------------------------------------------------------------
Turn(k) == \/ Begin(k) \/ CompleteTurn(k) \/ FailTurn(k)
           \/ \E o \in Order, s \in Product, c \in Cost : Propose(k, o, s, c)

Visit(k) == \/ \E o \in Order : AutoApprove(k, o) \/ Read(k, o)
            \/ LookupFinds(k) \/ LookupFindsNothing(k) \/ LookupFails(k)
            \/ Admit(k) \/ Send(k) \/ Answered(k) \/ SendFails(k)
            \/ Record(k) \/ Doubt(k)
            \/ StopEarly(k) \/ FinishVisits(k) \/ Finish(k)

Operator == \/ \E o \in Order : \/ Approve(o) \/ Wake(o) \/ Revoke(o)
                                \/ Resolve(o) \/ Receive(o)
            \/ \E w \in Work : Cancel(w) \/ Retry(w)
            \/ Pause

Environment == \/ \E w \in Work : Lapse(w)
               \/ \E k \in Worker : Crash(k)
               \/ \E o \in Order : \/ ApprovalLapses(o) \/ LoseRequest(o)
                                   \/ CloseOperation(o)
                                   \/ \E a \in {"ACCEPTED", "REJECTED"} : Arrive(o, a)

Next == \/ \E k \in Worker : \/ \E w \in Work : ClaimTurn(k, w) \/ ClaimRecovery(k, w)
                             \/ Turn(k) \/ Visit(k)
        \/ Operator \/ Environment

Spec == Init /\ [][Next]_vars

-----------------------------------------------------------------------------
RowsOK ==
    /\ work \in [Work -> WorkRow]
    /\ order \in [Order -> OrderRow]
    /\ paused \in BOOLEAN /\ idempotent \in BOOLEAN
    /\ run \in [Worker -> Run]
    /\ waking \subseteq Order
    /\ wire \in [Order -> Nat]
    /\ ledger \in [Order -> {"NONE", "ACCEPTED", "REJECTED"}]
    /\ purchases \in [Order -> Nat]

\* Every variable holds what its column or field may hold.
TypeOK ==
    /\ RowsOK
    /\ spending \in [reserved : Nat, spent : Nat, stock : Nat]

\* The money columns are what the order rows say they should be, after any
\* history of approvals, supersessions, cancellations and receipts.
BooksBalance ==
    /\ spending.reserved = Total({o \in Order : Status(o) \in Held})
    /\ spending.spent = Total({o \in Order : Status(o) \in Bought})
    /\ spending.stock = Total({o \in Order : Status(o) = "DELIVERED"})

\* What the supplier has really sold never exceeds the cumulative ceiling,
\* whatever was lost, revoked, cancelled or sent again.
SalesFitTheCeiling ==
    SumFunctionOnSet([o \in Order |-> purchases[o] * Amount(o)], Order) <= Limit

\* No sale is unfunded: an order the supplier has sold is held or spent here.
\* In particular it has not been revoked, superseded or recorded as rejected.
SaleIsFunded ==
    \A o \in Order : purchases[o] > 0 => Status(o) \in Uncertain \cup Bought

\* One intent is bought at most once, by whichever workers tried.
BoughtOnce == \A o \in Order : purchases[o] <= 1

\* A work item never buys, or keeps on offer, two proposals for one product.
OneOrderPerProduct ==
    \A o, p \in Order :
        /\ o # p /\ order[o].work = order[p].work /\ order[o].sku = order[p].sku
        /\ Status(o) \in Pending \cup Bought
        => Status(p) \notin Pending \cup Bought

\* A worker with a supplier reports work done only when every order of it is
\* conclusive at that moment, although it took the verdict from the rows in an
\* earlier step and the item may have been taken from it and drafted on since
\* (store/assistant.py, _orders).  Nothing is said of a worker without one.
ConnectedFinishIsConclusive ==
    [][\A k \in Connected, w \in Work :
          /\ run[k].work = w /\ run'[k] # run[k]
          /\ work[w].status # "DONE" /\ work'[w].status = "DONE"
          => Orders(w, Pending) = {}]_vars

\* An order withdrawn before transmission is never sent and never comes back.
WithdrawnIsNeverSent ==
    [][\A o \in Order : Status(o) = "REVOKED" =>
          /\ order'[o].status = "REVOKED"
          /\ wire'[o] = 0 /\ purchases'[o] = 0]_vars

\* A worker that lost its claim records nothing about any order.  (Granting
\* the automatic approval is the one thing it can still do.)
StaleWorkerRecordsNothing ==
    [][\A k \in Worker, o \in Order :
          run'[k] # run[k] /\ ~AssertCurrent(k) =>
              order'[o].status \in {order[o].status, "APPROVED"}]_vars

-----------------------------------------------------------------------------
(* The promise to the operator, of which claims, requests, workers and     *)
(* columns are the implementation.                                         *)

Stage(status) ==
    CASE status = "NONE" -> "FREE"
      [] status = "DRAFT" -> "OFFERED"
      [] status = "APPROVED" -> "GRANTED"
      [] status \in Uncertain -> "COMMITTED"
      [] status \in Bought -> "BOUGHT"
      [] status \in {"REVOKED", "REJECTED"} -> "CLOSED"

Promise == INSTANCE Purchase WITH
    stage <- [o \in Order |-> Stage(Status(o))],
    price <- [o \in Order |-> Amount(o)],
    answer <- ledger,
    sold <- purchases

\* Whatever becomes of claims, requests and workers, an order is granted under
\* the ceiling, withdrawn before it is sent or not at all, sold once, and
\* concluded, with its money, as the supplier answered (assistant_orders.py).
PurchaseSpec == Promise!Spec

-----------------------------------------------------------------------------
(* Progress, once workers stop dying, the network stops failing, the       *)
(* operator cancels nothing more (cancelling takes the item from its       *)
(* worker, each time) and no claim runs out under a worker that is using   *)
(* it.  The serve loop keeps calling reconcile_once while any order is     *)
(* uncertain, and an item whose session is busy is only claimable now and  *)
(* then: hence SF.                                                         *)

Pass(k) == Turn(k) \/ Visit(k)

Using(w) == \E k \in Worker : run[k].work = w /\ work[w].owner = k

\* A refused Finish looks like a Crash and an empty answer like a failed one:
\* what the code does of its own accord is no fault.
Fault == \/ \E k \in Worker : \/ Crash(k) /\ ~Finish(k)
                              \/ LookupFails(k) /\ ~LookupFindsNothing(k)
                              \/ StopEarly(k)
         \/ \E w \in Work : Cancel(w) \/ (Lapse(w) /\ Using(w))

FairSpec ==
    /\ Spec
    /\ <>[][~Fault]_vars
    /\ \A k \in Worker : WF_vars(Pass(k))
    /\ \A w \in Work : /\ WF_vars(Lapse(w) /\ ~Using(w))
                       /\ SF_vars(\E k \in Worker : ClaimRecovery(k, w))

\* A sale whose response was lost is found again and entered as spent.
SaleIsRecorded ==
    \A o \in Order : purchases[o] > 0 ~> Status(o) \in Bought \/ paused

\* The same, and ordinary work and the approval command make progress too.
AttentiveSpec ==
    /\ FairSpec
    /\ \A w \in Work : WF_vars(\E k \in Worker : ClaimTurn(k, w))
    /\ \A o \in Order : WF_vars(Wake(o))

\* An approved order is taken up: it does not stay approved for ever, unless
\* its approval lapses.
ApprovalIsActedOn ==
    \A o \in Order :
        Status(o) = "APPROVED" ~> Status(o) # "APPROVED" \/ ~order[o].current \/ paused

-----------------------------------------------------------------------------
(* What the documents say, and the code does not do.                       *)

\* docs/design/always-on-implementation-review-v2.md: every order of a task has
\* a conclusive disposition before the task becomes DONE.  A worker without a
\* supplier answers from the model alone and finishes the item whatever orders
\* an earlier worker left open.
DoneIsConclusive ==
    \A w \in Work : work[w].status = "DONE" => Orders(w, Pending) = {}
=============================================================================
