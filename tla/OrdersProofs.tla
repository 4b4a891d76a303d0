---------------------------- MODULE OrdersProofs ----------------------------
(***************************************************************************)
(* What holds of Orders for any number of workers, work items, orders and  *)
(* products: no sale without funds, no second sale of one intent, no       *)
(* transmission of a withdrawn order, no second offer for one product, no  *)
(* receipt recorded by a worker that lost its claim; and of the money,     *)
(* that the columns of assistant_spending are the totals of the rows they  *)
(* stand for, and that what was sold stays within the ceiling.             *)
(*                                                                         *)
(* The money comes last.  What it rests on of the rows is IInv; of a step  *)
(* it needs only which rows enter or leave a status (MoneyMoves), and of   *)
(* sums only what SetFacts says of them.                                   *)
(***************************************************************************)
EXTENDS Orders, SetFacts, TLAPS

InHand == {"READ", "LOOKUP", "ADMIT", "SEND", "WAIT", "RECORD", "DOUBT"}
Past == {"LOOKUP", "SEND", "WAIT", "RECORD", "DOUBT"}  \* places after a send
Reached == Uncertain \cup Settled                       \* may be at the supplier

\* A worker in a pass has a work item, and the orders in its hand are rows of it.
InPass(k) ==
    /\ run[k].at # "IDLE" => run[k].work \in Work
    /\ run[k].at \in InHand => /\ run[k].order \in Order
                               /\ order[run[k].order].work = run[k].work
    /\ run[k].at # "IDLE" =>
          \A o \in run[k].todo \cup run[k].drafts : order[o].work = run[k].work
    /\ run[k].at = "FINISH" => run[k].verdict # "NONE"

Passes == \A k \in Worker : InPass(k)

\* A row that exists belongs to a work item.
Rowed == \A o \in Order : (order[o].status = "NONE") <=> (order[o].work = None)

\* Only an admitted order has left any trace at the supplier or on the way.
Traces ==
    \A o \in Order : order[o].status \notin Reached =>
        /\ wire[o] = 0 /\ purchases[o] = 0 /\ ledger[o] = "NONE"
        /\ \A k \in Worker : run[k].at \in Past => run[k].order # o

\* The supplier's answer and the local outcome never contradict each other.
Answers ==
    /\ \A o \in Order :
          /\ purchases[o] > 0 => ledger[o] = "ACCEPTED"
          /\ order[o].status \in Bought => ledger[o] = "ACCEPTED"
          /\ order[o].status = "REJECTED" => ledger[o] = "REJECTED"
    /\ \A k \in Worker : run[k].at = "RECORD" => ledger[run[k].order] # "NONE"

\* Without idempotency there is one request at most, ever: the worker about
\* to send is alone, and one about to be admitted holds an order nobody sent.
OneRequest ==
    IF idempotent
    THEN \A o \in Order : purchases[o] <= 1 /\ (ledger[o] = "NONE" => purchases[o] = 0)
    ELSE /\ \A o \in Order : wire[o] + purchases[o] <= 1
         /\ \A k \in Worker : run[k].at = "SEND" =>
               /\ wire[run[k].order] + purchases[run[k].order] = 0
               /\ \A j \in Worker : run[j].at = "SEND" /\ run[j].order = run[k].order
                                        => j = k
         /\ \A k \in Worker : run[k].at = "ADMIT" /\ AssertCurrent(k) =>
               order[run[k].order].status \notin Reached

IInv == RowsOK /\ Passes /\ Rowed /\ Traces /\ Answers /\ OneRequest

-----------------------------------------------------------------------------
(* Types.                                                                  *)

\* An update of one worker's memory stays a Run.
LEMMA RunUpdate ==
    ASSUME RowsOK, NEW k \in Worker, NEW r \in Run, Goto(k, r)
    PROVE  run' \in [Worker -> Run]
BY DEF RowsOK, Goto

\* A worker that starts again has a well typed memory.
LEMMA IdleIsRun == Idle \in Run
BY DEF Idle, Run

\* Every change of place used by Step and Leave.
LEMMA PlaceUpdate ==
    ASSUME RowsOK, NEW k \in Worker
    PROVE  /\ \A p \in {"TURN", "FINISH", "RECORD", "ADMIT", "SEND", "WAIT", "DOUBT"} :
                  [run[k] EXCEPT !.at = p] \in Run
           /\ [run[k] EXCEPT !.at = "ORDERS", !.order = None] \in Run
BY ZenonT(60) DEF RowsOK, Run

\* Withdrawing any set of rows leaves rows.
LEMMA WithdrawnType ==
    ASSUME RowsOK, NEW S
    PROVE  Withdrawn(S) \in [Order -> OrderRow]
<1> SUFFICES ASSUME NEW o \in Order PROVE Withdrawn(S)[o] \in OrderRow
  BY DEF Withdrawn
<1>1. order[o] \in OrderRow
  BY DEF RowsOK
<1>2. CASE o \in S
  BY ZenonT(60), <1>1, <1>2 DEF Withdrawn, OrderRow, Status, Uncertain, Held, Pending
<1>3. CASE o \notin S
  BY <1>1, <1>3 DEF Withdrawn
<1> QED BY <1>2, <1>3

\* Replacing one row by a row leaves rows.
LEMMA RowUpdate ==
    ASSUME RowsOK
    PROVE  /\ \A o \in Order, r \in OrderRow :
                  [order EXCEPT ![o] = r] \in [Order -> OrderRow]
           /\ \A w \in Work, r \in WorkRow :
                  [work EXCEPT ![w] = r] \in [Work -> WorkRow]
BY DEF RowsOK

\* The rows that the transactions write are rows.
LEMMA WrittenRows ==
    ASSUME RowsOK
    PROVE  /\ \A w \in Work, k \in Worker : Hold(w, k) \in [Work -> WorkRow]
           /\ \A o \in Order, s \in Pending \cup Settled :
                  [order[o] EXCEPT !.status = s] \in OrderRow
           /\ \A o \in Order, s \in Pending \cup Settled, c \in BOOLEAN :
                  [order[o] EXCEPT !.status = s, !.current = c] \in OrderRow
           /\ \A o \in Order, c \in BOOLEAN :
                  [order[o] EXCEPT !.current = c] \in OrderRow
<1>1. \A o \in Order : order[o] \in OrderRow
  BY DEF RowsOK
<1>2. \A w \in Work : work[w] \in WorkRow
  BY DEF RowsOK
<1>3. ASSUME NEW w \in Work, NEW k \in Worker
      PROVE  Hold(w, k) \in [Work -> WorkRow]
  <2>1. [work[w] EXCEPT !.status = "RUNNING", !.owner = k, !.life = "AMPLE"] \in WorkRow
    BY <1>2 DEF WorkRow
  <2> QED BY <2>1, RowUpdate DEF Hold
<1>4. ASSUME NEW o \in Order, NEW s \in Pending \cup Settled
      PROVE  [order[o] EXCEPT !.status = s] \in OrderRow
  BY <1>1 DEF OrderRow
<1>5. ASSUME NEW o \in Order, NEW s \in Pending \cup Settled, NEW c \in BOOLEAN
      PROVE  [order[o] EXCEPT !.status = s, !.current = c] \in OrderRow
  BY <1>1 DEF OrderRow
<1>6. ASSUME NEW o \in Order, NEW c \in BOOLEAN
      PROVE  [order[o] EXCEPT !.current = c] \in OrderRow
  BY <1>1 DEF OrderRow
<1> QED BY <1>3, <1>4, <1>5, <1>6

\* Settling a row by the supplier's answer.
LEMMA SettleType ==
    ASSUME RowsOK, NEW o \in Order, Settle(o)
    PROVE  order' \in [Order -> OrderRow]
<1> DEFINE s == IF ledger[o] = "ACCEPTED" THEN "CONFIRMED" ELSE "REJECTED"
<1>1. s \in Pending \cup Settled
  BY DEF Settled, Bought
<1>2. [order[o] EXCEPT !.status = s, !.current = FALSE] \in OrderRow
  BY <1>1, WrittenRows
<1>3. order' = [order EXCEPT ![o] = [order[o] EXCEPT !.status = s, !.current = FALSE]]
  BY DEF Settle
<1> HIDE DEF s
<1> QED BY <1>2, <1>3, RowUpdate

\* Granting an approval.
LEMMA ApprovedType ==
    ASSUME RowsOK, NEW o \in Order, Approved(o)
    PROVE  order' \in [Order -> OrderRow]
<1> DEFINE s == IF order[o].status \in Uncertain THEN order[o].status ELSE "APPROVED"
<1>1. s \in Pending \cup Settled
  BY DEF Pending, Held, Uncertain
<1>2. [order[o] EXCEPT !.status = s, !.current = TRUE] \in OrderRow
  BY <1>1, WrittenRows
<1>3. order' = [order EXCEPT ![o] = [order[o] EXCEPT !.status = s, !.current = TRUE]]
  BY DEF Approved, Status
<1> HIDE DEF s
<1> QED BY <1>2, <1>3, RowUpdate

\* Claims and turns.
LEMMA TurnType ==
    ASSUME RowsOK, NEW k \in Worker,
           \/ \E w \in Work : ClaimTurn(k, w) \/ ClaimRecovery(k, w)
           \/ Turn(k)
    PROVE  RowsOK'
<1> USE OrdersAssumption
<1>1. CASE \E w \in Work : ClaimTurn(k, w) \/ ClaimRecovery(k, w)
  <2> PICK w \in Work : ClaimTurn(k, w) \/ ClaimRecovery(k, w)
    BY <1>1
  <2>1. work' \in [Work -> WorkRow]
    <3>1. work' = Hold(w, k)
      BY DEF ClaimTurn, ClaimRecovery
    <3> QED BY <3>1, WrittenRows
  <2>2. /\ [Idle EXCEPT !.at = "CLAIMED", !.work = w] \in Run
        /\ [Idle EXCEPT !.at = "ORDERS", !.work = w, !.todo = Rows(w)] \in Run
    BY DEF Idle, Run, Rows
  <2>3. run' \in [Worker -> Run]
    BY <2>2, RunUpdate DEF ClaimTurn, ClaimRecovery
  <2> QED BY <2>1, <2>3 DEF RowsOK, ClaimTurn, ClaimRecovery, supplier
<1>2. CASE Begin(k) \/ CompleteTurn(k) \/ FailTurn(k)
  <2> DEFINE w == run[k].work
             d == {o \in Rows(w) : /\ Status(o) = "DRAFT"
                                   /\ ~order[o].revoked
                                   /\ Amount(o) <= Automatic}
  <2>1. run[k] \in Run
    BY DEF RowsOK
  <2>2. Rows(w) \in SUBSET Order /\ d \in SUBSET Order
    BY DEF Rows
  <2>3. /\ [run[k] EXCEPT !.at = "ORDERS", !.todo = Rows(w)] \in Run
        /\ [run[k] EXCEPT !.at = "TURN"] \in Run
        /\ [run[k] EXCEPT !.at = "ORDERS", !.todo = Rows(w), !.drafts = d] \in Run
        /\ [run[k] EXCEPT !.at = "FINISH", !.verdict = "DONE"] \in Run
        /\ [run[k] EXCEPT !.at = "FINISH", !.verdict = "BLOCKED"] \in Run
    BY <2>1, <2>2 DEF Run
  <2> HIDE DEF d
  <2>4. run' \in [Worker -> Run]
    BY <1>2, <2>3, RunUpdate DEF Begin, CompleteTurn, FailTurn, d
  <2> QED BY <1>2, <2>4 DEF RowsOK, Begin, CompleteTurn, FailTurn, db, supplier
<1>3. CASE \E o \in Order, s \in Product, c \in Cost : Propose(k, o, s, c)
  <2> PICK o \in Order, s \in Product, c \in Cost : Propose(k, o, s, c)
    BY <1>3
  <2> DEFINE w == run[k].work
             S == {p \in {q \in Rows(w) : order[q].sku = s} :
                        Status(p) \in {"DRAFT", "APPROVED"}}
             r == [NoRow EXCEPT !.status = "DRAFT", !.work = w,
                                !.sku = s, !.amount = c]
  <2>1. w \in Work \cup {None}
    BY DEF RowsOK, Run
  <2>2. r \in OrderRow
    BY <2>1 DEF NoRow, OrderRow, Pending
  <2>3. Withdrawn(S) \in [Order -> OrderRow]
    BY WithdrawnType
  <2>4. order' = [Withdrawn(S) EXCEPT ![o] = r]
    BY DEF Propose
  <2> HIDE DEF S, r
  <2>5. order' \in [Order -> OrderRow]
    BY <2>2, <2>3, <2>4
  <2> QED BY <2>5 DEF RowsOK, Propose, supplier
<1> QED BY <1>1, <1>2, <1>3 DEF Turn

\* Visits to orders.
LEMMA VisitType ==
    ASSUME RowsOK, NEW k \in Worker, Visit(k), Passes
    PROVE  RowsOK'
<1> USE OrdersAssumption
<1>1. run[k] \in Run /\ run \in [Worker -> Run] /\ order \in [Order -> OrderRow]
  BY DEF RowsOK
<1>2. CASE \E o \in Order : AutoApprove(k, o)
  <2> PICK o \in Order : AutoApprove(k, o)
    BY <1>2
  <2>1. /\ [run[k] EXCEPT !.at = "READ", !.order = o,
                          !.todo = @ \ {o}, !.drafts = @ \ {o}] \in Run
        /\ [run[k] EXCEPT !.todo = @ \ {o}, !.drafts = @ \ {o}] \in Run
    BY <1>1 DEF Run
  <2>2. run' \in [Worker -> Run]
    BY <2>1, RunUpdate DEF AutoApprove
  <2>3. order' \in [Order -> OrderRow]
    <3>1. CASE UNCHANGED order
      BY <1>1, <3>1
    <3>2. CASE Approved(o)
      BY <3>2, ApprovedType
    <3> QED BY <3>1, <3>2 DEF AutoApprove
  <2> QED BY <2>2, <2>3 DEF RowsOK, AutoApprove, supplier
<1>3. CASE \E o \in Order : Read(k, o)
  <2> PICK o \in Order : Read(k, o)
    BY <1>3
  <2>1. \A p \in {"ORDERS", "ADMIT", "LOOKUP"}, q \in {None, o} :
           [run[k] EXCEPT !.at = p, !.todo = @ \ {o}, !.order = q] \in Run
    BY <1>1 DEF Run
  <2>2. run' \in [Worker -> Run]
    BY <2>1, RunUpdate DEF Read
  <2> QED BY <2>2 DEF RowsOK, Read, db, supplier
<1>4. CASE LookupFinds(k) \/ LookupFindsNothing(k) \/ LookupFails(k)
           \/ Answered(k) \/ SendFails(k)
  <2>1. run' \in [Worker -> Run]
    BY <1>4, PlaceUpdate, RunUpdate
       DEF LookupFinds, LookupFindsNothing, LookupFails, Answered, SendFails, Step, Leave
  <2> QED BY <1>4, <2>1 DEF RowsOK, LookupFinds, LookupFindsNothing, LookupFails,
                            Answered, SendFails, db, supplier
<1>5. CASE Admit(k) \/ Record(k) \/ Doubt(k)
  <2> DEFINE o == run[k].order
  <2>1. o \in Order
    BY <1>5 DEF Passes, InPass, InHand, Admit, Record, Doubt, At
  <2>2. run' \in [Worker -> Run]
    BY <1>5, PlaceUpdate, RunUpdate DEF Admit, Record, Doubt, Step, Leave
  <2>3. order' \in [Order -> OrderRow]
    <3>1. CASE UNCHANGED order
      BY <1>1, <3>1
    <3>2. CASE \E s \in Pending \cup Settled \cup {order[o].status} :
                  order' = [order EXCEPT ![o].status = s]
      <4> PICK s \in Pending \cup Settled \cup {order[o].status} :
                  order' = [order EXCEPT ![o].status = s]
        BY <3>2
      <4>1. order[o] \in OrderRow
        BY <2>1, <1>1
      <4>2. [order[o] EXCEPT !.status = s] \in OrderRow
        <5> HIDE DEF o
        <5> QED BY <4>1 DEF OrderRow
      <4> QED BY <4>2, <2>1, RowUpdate
    <3>3. CASE Settle(o)
      BY <2>1, <3>3, SettleType
    <3>4. CASE Admit(k)
      <4>1. "SENDING" \in Pending \cup Settled
        BY DEF Pending, Held, Uncertain
      <4> QED BY <3>1, <3>2, <3>4, <4>1 DEF Admit
    <3>5. CASE Doubt(k)
      <4> DEFINE s == IF AssertCurrent(k) /\ order[o].status = "SENDING"
                      THEN "UNKNOWN" ELSE order[o].status
      <4>1. s \in Pending \cup Settled \cup {order[o].status}
        BY DEF Pending, Held, Uncertain
      <4>2. order' = [order EXCEPT ![o].status = s]
        BY <3>5 DEF Doubt
      <4> HIDE DEF s
      <4> QED BY <3>2, <4>1, <4>2
    <3>6. CASE Record(k)
      BY <3>1, <3>3, <3>6 DEF Record
    <3> QED BY <1>5, <3>4, <3>5, <3>6
  <2> QED BY <1>5, <2>2, <2>3 DEF RowsOK, Admit, Record, Doubt, supplier
<1>6. CASE Send(k)
  <2>1. run' \in [Worker -> Run]
    BY <1>6, PlaceUpdate, RunUpdate DEF Send, Step
  <2>2. wire' \in [Order -> Nat]
    <3>1. run[k].order \in Order
      BY <1>6 DEF Passes, InPass, InHand, Send, At
    <3> QED BY <1>6, <3>1 DEF RowsOK, Send
  <2> QED BY <1>6, <2>1, <2>2 DEF RowsOK, Send, db
<1>7. CASE StopEarly(k) \/ FinishVisits(k)
  <2>1. \A v \in {"DONE", "BLOCKED", "CANCELLED"} :
           [run[k] EXCEPT !.at = "FINISH", !.todo = {}, !.drafts = {},
                          !.verdict = v] \in Run
    BY <1>1 DEF Run
  <2>2. run' \in [Worker -> Run]
    BY <1>7, <2>1, RunUpdate DEF StopEarly, FinishVisits, Survey
  <2> QED BY <1>7, <2>2 DEF RowsOK, StopEarly, FinishVisits, Survey, db, supplier
<1>8. CASE Finish(k)
  <2> DEFINE w == run[k].work
             r == [work[w] EXCEPT !.status = run[k].verdict, !.owner = None,
                                  !.life = "OVER"]
  <2>1. w \in Work /\ work[w] \in WorkRow /\ run[k].verdict \in {"DONE", "BLOCKED", "CANCELLED"}
    BY <1>1, <1>8 DEF Passes, InPass, Finish, At, RowsOK, Run
  <2>2. r \in WorkRow
    BY <2>1 DEF WorkRow
  <2>3. work' \in {work, [work EXCEPT ![w] = r]}
    BY <1>8 DEF Finish
  <2> HIDE DEF r
  <2>4. work' \in [Work -> WorkRow]
    BY <2>1, <2>2, <2>3, RowUpdate DEF RowsOK
  <2>5. run' \in [Worker -> Run]
    BY <1>8, IdleIsRun, RunUpdate DEF Finish
  <2> QED BY <1>8, <2>4, <2>5 DEF RowsOK, Finish, supplier
<1> QED BY <1>2, <1>3, <1>4, <1>5, <1>6, <1>7, <1>8 DEF Visit

\* The operator's transactions.
LEMMA OperatorType ==
    ASSUME RowsOK, Operator
    PROVE  RowsOK'
<1>1. \A w \in Work : work[w] \in WorkRow
  BY DEF RowsOK
<1>2. \A v : [work EXCEPT ![v].status = IF @ = "BLOCKED" THEN "READY" ELSE @]
                \in [Work -> WorkRow]
  <2> SUFFICES ASSUME NEW v, NEW w \in Work
               PROVE  [work EXCEPT ![v].status = IF @ = "BLOCKED" THEN "READY" ELSE @][w]
                         \in WorkRow
    BY DEF RowsOK
  <2> QED BY <1>1 DEF RowsOK, WorkRow
<1>3. \A v : [work EXCEPT ![v].status =
                   IF @ \in {"BLOCKED", "CANCELLED"} THEN "READY" ELSE @]
                \in [Work -> WorkRow]
  <2> SUFFICES ASSUME NEW v, NEW w \in Work
               PROVE  [work EXCEPT ![v].status =
                          IF @ \in {"BLOCKED", "CANCELLED"} THEN "READY" ELSE @][w]
                         \in WorkRow
    BY DEF RowsOK
  <2> QED BY <1>1 DEF RowsOK, WorkRow
<1>4. ASSUME NEW o \in Order, Approve(o)
      PROVE  RowsOK'
  <2>1. order' \in [Order -> OrderRow]
    BY <1>4, ApprovedType DEF Approve
  <2> QED BY <1>4, <2>1 DEF RowsOK, Approve, supplier
<1>5. ASSUME NEW o \in Order, Wake(o)
      PROVE  RowsOK'
  BY <1>2, <1>5 DEF RowsOK, Wake, supplier
<1>6. ASSUME NEW o \in Order, Revoke(o)
      PROVE  RowsOK'
  BY <1>6, WithdrawnType DEF RowsOK, Revoke, supplier
<1>7. ASSUME NEW o \in Order, Resolve(o)
      PROVE  RowsOK'
  <2>1. order' \in [Order -> OrderRow]
    BY <1>7, SettleType DEF Resolve
  <2> QED BY <1>3, <1>7, <2>1 DEF RowsOK, Resolve, supplier
<1>8. ASSUME NEW o \in Order, Receive(o)
      PROVE  RowsOK'
  <2>1. [order[o] EXCEPT !.status = "DELIVERED"] \in OrderRow
    BY WrittenRows DEF Settled, Bought
  <2>2. order' \in [Order -> OrderRow]
    BY <1>8, <2>1, RowUpdate DEF Receive
  <2> QED BY <1>8, <2>2 DEF RowsOK, Receive, supplier
<1>9. ASSUME NEW w \in Work, Cancel(w)
      PROVE  RowsOK'
  <2> DEFINE r == [work[w] EXCEPT !.status = "CANCELLED", !.owner = None,
                                  !.life = "OVER", !.cancelled = TRUE]
  <2>1. r \in WorkRow
    BY <1>1 DEF WorkRow
  <2>2. work' \in {work, [work EXCEPT ![w] = r]}
    BY <1>9 DEF Cancel
  <2> HIDE DEF r
  <2>3. work' \in [Work -> WorkRow]
    BY <2>1, <2>2, RowUpdate DEF RowsOK
  <2>4. order' \in [Order -> OrderRow]
    BY <1>9, WithdrawnType DEF Cancel
  <2> QED BY <1>9, <2>3, <2>4 DEF RowsOK, Cancel, supplier
<1>10. ASSUME NEW w \in Work, Retry(w)
       PROVE  RowsOK'
  <2>1. [work[w] EXCEPT !.status = "READY"] \in WorkRow
    BY <1>1 DEF WorkRow
  <2>2. work' \in [Work -> WorkRow]
    BY <1>10, <2>1, RowUpdate DEF Retry
  <2> QED BY <1>10, <2>2 DEF RowsOK, Retry, supplier
<1>11. CASE Pause
  BY <1>11 DEF RowsOK, Pause, supplier
<1> QED BY <1>4, <1>5, <1>6, <1>7, <1>8, <1>9, <1>10, <1>11 DEF Operator

\* Time, faults and the supplier.
LEMMA EnvironmentType ==
    ASSUME RowsOK, Environment
    PROVE  RowsOK'
<1>1. ASSUME NEW w \in Work, Lapse(w)
      PROVE  RowsOK'
  <2>1. \A l \in {"SHORT", "OVER"} : [work[w] EXCEPT !.life = l] \in WorkRow
    BY DEF RowsOK, WorkRow
  <2>2. work' \in [Work -> WorkRow]
    BY <1>1, <2>1, RowUpdate DEF Lapse
  <2> QED BY <1>1, <2>2 DEF RowsOK, Lapse, supplier
<1>2. ASSUME NEW k \in Worker, Crash(k)
      PROVE  RowsOK'
  <2>1. run' \in [Worker -> Run]
    BY <1>2, IdleIsRun, RunUpdate DEF Crash
  <2> QED BY <1>2, <2>1 DEF RowsOK, Crash, db, supplier
<1>3. ASSUME NEW o \in Order, ApprovalLapses(o)
      PROVE  RowsOK'
  <2>1. [order[o] EXCEPT !.current = FALSE] \in OrderRow
    BY WrittenRows
  <2>2. order' \in [Order -> OrderRow]
    BY <1>3, <2>1, RowUpdate DEF ApprovalLapses
  <2> QED BY <1>3, <2>2 DEF RowsOK, ApprovalLapses, supplier
<1>4. ASSUME NEW o \in Order, LoseRequest(o) \/ CloseOperation(o)
      PROVE  RowsOK'
  BY <1>4 DEF RowsOK, LoseRequest, CloseOperation, db
<1>5. ASSUME NEW o \in Order, NEW a \in {"ACCEPTED", "REJECTED"}, Arrive(o, a)
      PROVE  RowsOK'
  BY <1>5 DEF RowsOK, Arrive, db
<1> QED BY <1>1, <1>2, <1>3, <1>4, <1>5 DEF Environment

\* Every step keeps the types of the tables and of the memories.
LEMMA Types ==
    ASSUME RowsOK, Passes, [Next]_vars
    PROVE  RowsOK'
<1>1. CASE UNCHANGED vars
  BY <1>1 DEF RowsOK, vars
<1>2. CASE \E k \in Worker : \/ \E w \in Work : ClaimTurn(k, w) \/ ClaimRecovery(k, w)
                             \/ Turn(k)
  BY <1>2, TurnType
<1>3. CASE \E k \in Worker : Visit(k)
  BY <1>3, VisitType
<1>4. CASE Operator \/ Environment
  BY <1>4, OperatorType, EnvironmentType
<1> QED BY <1>1, <1>2, <1>3, <1>4 DEF Next

-----------------------------------------------------------------------------
(* What one step may do to one row.                                        *)

SameItem(o) == order'[o].work = order[o].work /\ order'[o].sku = order[o].sku

Outcome(o) == IF ledger[o] = "ACCEPTED" THEN "CONFIRMED" ELSE "REJECTED"

Drafted(o) ==
    /\ order[o].status = "NONE" /\ order'[o].status = "DRAFT"
    /\ \E k \in Worker, s \in Product, c \in Cost : Propose(k, o, s, c)

Admitted(o) ==
    /\ order[o].status \in Held /\ order'[o].status = "SENDING"
    /\ \E k \in Worker : Admit(k) /\ run[k].order = o /\ MaySend(k, o)

Moved(o, from, to) == order[o].status \in from /\ order'[o].status = to

OrderMove(o) ==
    \/ Drafted(o)
    \/ /\ SameItem(o)
       /\ \/ order'[o].status = order[o].status
          \/ Moved(o, {"DRAFT", "APPROVED"}, "REVOKED")
          \/ Moved(o, {"DRAFT"}, "APPROVED")
          \/ Admitted(o)
          \/ Moved(o, Uncertain, Outcome(o)) /\ ledger[o] # "NONE"
          \/ Moved(o, {"SENDING"}, "UNKNOWN")
          \/ Moved(o, {"CONFIRMED"}, "DELIVERED")

\* Withdrawal revokes what was not yet admitted and nothing else.
LEMMA WithdrawnMoves ==
    ASSUME RowsOK, NEW S, NEW o \in Order
    PROVE  /\ Withdrawn(S)[o].work = order[o].work
           /\ Withdrawn(S)[o].sku = order[o].sku
           /\ \/ Withdrawn(S)[o].status = order[o].status
              \/ /\ order[o].status \in {"DRAFT", "APPROVED"}
                 /\ Withdrawn(S)[o].status = "REVOKED"
           /\ o \in S /\ order[o].status \in {"DRAFT", "APPROVED"} =>
                 Withdrawn(S)[o].status = "REVOKED"
<1>1. order[o] \in OrderRow
  BY DEF RowsOK
<1>2. CASE o \in S
  BY <1>1, <1>2 DEF Withdrawn, OrderRow, Status
<1>3. CASE o \notin S
  BY <1>1, <1>3 DEF Withdrawn
<1> QED BY <1>2, <1>3

\* The steps that write assistant_orders.
Writes(o) ==
    \/ \E k \in Worker : \/ \E s \in Product, c \in Cost : Propose(k, o, s, c)
                         \/ AutoApprove(k, o)
                         \/ (Admit(k) \/ Record(k) \/ Doubt(k)) /\ run[k].order = o
    \/ Approve(o) \/ Revoke(o) \/ Resolve(o) \/ Receive(o) \/ ApprovalLapses(o)

\* Only these steps, each for one row, write a row outside cancel().
LEMMA Writers ==
    ASSUME RowsOK, Passes, [Next]_vars
    PROVE  \/ UNCHANGED order
           \/ \E w \in Work : Cancel(w)
           \/ \E o \in Order : Writes(o)
<1>1. ASSUME NEW k \in Worker, Admit(k) \/ Record(k) \/ Doubt(k)
      PROVE  run[k].order \in Order
  BY <1>1 DEF Passes, InPass, InHand, Admit, Record, Doubt, At
<1>2. CASE UNCHANGED vars
  BY <1>2 DEF vars
<1>3. ASSUME NEW k \in Worker, \/ \E w \in Work : ClaimTurn(k, w) \/ ClaimRecovery(k, w)
                               \/ Turn(k)
      PROVE  UNCHANGED order \/ \E o \in Order : Writes(o)
  <2>1. CASE \E o \in Order, s \in Product, c \in Cost : Propose(k, o, s, c)
    BY <2>1 DEF Writes
  <2>2. CASE UNCHANGED order
    BY <2>2
  <2> QED BY <1>3, <2>1, <2>2 DEF ClaimTurn, ClaimRecovery, Turn, Begin, CompleteTurn,
                                  FailTurn, db
<1>4. ASSUME NEW k \in Worker, Visit(k)
      PROVE  UNCHANGED order \/ \E o \in Order : Writes(o)
  <2>1. CASE \E o \in Order : AutoApprove(k, o)
    BY <2>1 DEF Writes
  <2>2. CASE Admit(k) \/ Record(k) \/ Doubt(k)
    BY <1>1, <2>2 DEF Writes
  <2>3. CASE UNCHANGED order
    BY <2>3
  <2> QED BY <1>4, <2>1, <2>2, <2>3
          DEF Visit, Read, LookupFinds, LookupFindsNothing, LookupFails, Send, Answered,
              SendFails, StopEarly, FinishVisits, Survey, Finish, db
<1>5. CASE Operator
  BY <1>5 DEF Operator, Wake, Retry, Pause, Writes
<1>6. CASE Environment
  BY <1>6 DEF Environment, Lapse, Crash, LoseRequest, CloseOperation, Arrive, db, Writes
<1> QED BY <1>2, <1>3, <1>4, <1>5, <1>6 DEF Next

\* Settling moves one row to the outcome the supplier gave, and no other row.
LEMMA SettleMoves ==
    ASSUME RowsOK, NEW o \in Order, NEW q \in Order, Settle(q),
           Status(q) \in Uncertain, ledger[q] # "NONE"
    PROVE  OrderMove(o)
<1>1. order[o] \in OrderRow
  BY DEF RowsOK
<1> DEFINE s == Outcome(q)
<1>2. order' = [order EXCEPT ![q] = [order[q] EXCEPT !.status = s, !.current = FALSE]]
  BY DEF Settle, Outcome
<1> HIDE DEF s
<1>3. CASE o # q
  BY <1>2, <1>3 DEF RowsOK, OrderMove, SameItem
<1>4. CASE o = q
  <2>1. order'[o] = [order[o] EXCEPT !.status = s, !.current = FALSE]
    BY <1>2, <1>4 DEF RowsOK
  <2>2. SameItem(o) /\ order'[o].status = s
    BY <1>1, <2>1 DEF SameItem, OrderRow
  <2> QED BY <1>4, <2>2 DEF OrderMove, Moved, Status, s
<1> QED BY <1>3, <1>4

\* Granting an approval is a move of the one row it grants.
LEMMA ApprovedMoves ==
    ASSUME RowsOK, NEW o \in Order, NEW q \in Order, Approved(q), Approvable(q)
    PROVE  OrderMove(o)
<1>1. order[o] \in OrderRow
  BY DEF RowsOK
<1> DEFINE s == IF order[q].status \in Uncertain THEN order[q].status ELSE "APPROVED"
<1>2. order' = [order EXCEPT ![q] = [order[q] EXCEPT !.status = s, !.current = TRUE]]
  BY DEF Approved, Status
<1> HIDE DEF s
<1>3. CASE o # q
  BY <1>2, <1>3 DEF RowsOK, OrderMove, SameItem
<1>4. CASE o = q
  <2>1. order'[o] = [order[o] EXCEPT !.status = s, !.current = TRUE]
    BY <1>2, <1>4 DEF RowsOK
  <2>2. SameItem(o) /\ order'[o].status = s
    BY <1>1, <2>1 DEF SameItem, OrderRow
  <2>3. order[o].status \in {"DRAFT", "APPROVED"} \cup Uncertain
    BY <1>4 DEF Approvable, Pending, Held, Status
  <2> QED BY <1>4, <2>2, <2>3 DEF OrderMove, Moved, s
<1> QED BY <1>3, <1>4

\* Nothing but these moves ever happens to a row.
LEMMA OrderMoves ==
    ASSUME RowsOK, Passes, Answers, [Next]_vars, NEW o \in Order
    PROVE  OrderMove(o)
<1>1. order[o] \in OrderRow /\ order \in [Order -> OrderRow]
  BY DEF RowsOK
<1>2. CASE UNCHANGED order
  BY <1>2 DEF OrderMove, SameItem
<1>3. ASSUME NEW S, order' = Withdrawn(S)
      PROVE  OrderMove(o)
  BY <1>3, WithdrawnMoves DEF OrderMove, SameItem, Moved
<1>4. CASE \E w \in Work : Cancel(w)
  BY <1>3, <1>4 DEF Cancel
<1>5. ASSUME NEW q \in Order, Writes(q)
      PROVE  OrderMove(o)
  <2>1. ASSUME NEW k \in Worker, NEW s \in Product, NEW c \in Cost, Propose(k, q, s, c)
        PROVE  OrderMove(o)
    <3> DEFINE S == {p \in {x \in Rows(run[k].work) : order[x].sku = s} :
                        Status(p) \in {"DRAFT", "APPROVED"}}
               r == [NoRow EXCEPT !.status = "DRAFT", !.work = run[k].work,
                                  !.sku = s, !.amount = c]
    <3>1. order' = [Withdrawn(S) EXCEPT ![q] = r] /\ Status(q) = "NONE"
      BY <2>1 DEF Propose
    <3>2. r.status = "DRAFT"
      BY DEF NoRow
    <3>3. Withdrawn(S) \in [Order -> OrderRow]
      BY WithdrawnType
    <3> HIDE DEF S, r
    <3>4. CASE o = q
      BY <2>1, <3>1, <3>2, <3>3, <3>4 DEF OrderMove, Drafted, Status
    <3>5. CASE o # q
      <4>1. order'[o] = Withdrawn(S)[o]
        BY <3>1, <3>3, <3>5
      <4> QED BY <4>1, WithdrawnMoves DEF OrderMove, SameItem, Moved
    <3> QED BY <3>4, <3>5
  <2>2. ASSUME NEW k \in Worker, AutoApprove(k, q)
        PROVE  OrderMove(o)
    BY <1>2, <2>2, ApprovedMoves DEF AutoApprove
  <2>3. ASSUME NEW k \in Worker, Admit(k), run[k].order = q
        PROVE  OrderMove(o)
    <3>1. CASE ~MaySend(k, q)
      BY <1>2, <2>3, <3>1 DEF Admit
    <3>2. CASE MaySend(k, q)
      <4>1. order' = [order EXCEPT ![q].status = "SENDING"] /\ Status(q) \in Held
        BY <2>3, <3>2 DEF Admit, MaySend
      <4>2. SameItem(o)
        BY <1>1, <4>1 DEF SameItem, OrderRow
      <4>3. order'[o].status = IF o = q THEN "SENDING" ELSE order[o].status
        BY <1>1, <4>1 DEF OrderRow
      <4> QED BY <2>3, <3>2, <4>1, <4>2, <4>3 DEF OrderMove, Admitted, Status
    <3> QED BY <3>1, <3>2
  <2>4. ASSUME NEW k \in Worker, Record(k), run[k].order = q
        PROVE  OrderMove(o)
    <3>1. ledger[q] # "NONE"
      BY <2>4 DEF Answers, Record, At
    <3> QED BY <1>2, <2>4, <3>1, SettleMoves DEF Record
  <2>5. ASSUME NEW k \in Worker, Doubt(k), run[k].order = q
        PROVE  OrderMove(o)
    <3> DEFINE s == IF AssertCurrent(k) /\ order[q].status = "SENDING"
                    THEN "UNKNOWN" ELSE order[q].status
    <3>1. order' = [order EXCEPT ![q].status = s]
      BY <2>5 DEF Doubt
    <3>2. s = order[q].status \/ (order[q].status = "SENDING" /\ s = "UNKNOWN")
      OBVIOUS
    <3> HIDE DEF s
    <3>3. SameItem(o)
      BY <1>1, <3>1 DEF SameItem, OrderRow
    <3>4. order'[o].status = IF o = q THEN s ELSE order[o].status
      BY <1>1, <3>1 DEF OrderRow
    <3> QED BY <3>2, <3>3, <3>4 DEF OrderMove, Moved
  <2>6. CASE Approve(q)
    BY <2>6, ApprovedMoves DEF Approve
  <2>7. CASE Revoke(q)
    BY <1>3, <2>7 DEF Revoke
  <2>8. CASE Resolve(q)
    BY <2>8, SettleMoves DEF Resolve
  <2>9. CASE Receive(q)
    <3>1. order' = [order EXCEPT ![q].status = "DELIVERED"] /\ Status(q) = "CONFIRMED"
      BY <2>9 DEF Receive
    <3>2. SameItem(o)
      BY <1>1, <3>1 DEF SameItem, OrderRow
    <3>3. order'[o].status = IF o = q THEN "DELIVERED" ELSE order[o].status
      BY <1>1, <3>1 DEF OrderRow
    <3> QED BY <3>1, <3>2, <3>3 DEF OrderMove, Moved, Status
  <2>10. CASE ApprovalLapses(q)
    <3>1. order' = [order EXCEPT ![q].current = FALSE]
      BY <2>10 DEF ApprovalLapses
    <3>2. SameItem(o) /\ order'[o].status = order[o].status
      BY <1>1, <3>1 DEF SameItem, OrderRow
    <3> QED BY <3>2 DEF OrderMove
  <2> QED BY <1>5, <2>1, <2>2, <2>3, <2>4, <2>5, <2>6, <2>7, <2>8, <2>9, <2>10 DEF Writes
<1> QED BY <1>2, <1>4, <1>5, Writers

-----------------------------------------------------------------------------
(* The inductive invariant.                                                *)

\* A step of worker k, or its death.
Acts(k) == \/ \E w \in Work : ClaimTurn(k, w) \/ ClaimRecovery(k, w)
           \/ Turn(k) \/ Visit(k) \/ Crash(k)

\* A process writes only its own memory.
LEMMA Actors ==
    ASSUME RowsOK, [Next]_vars
    PROVE  \/ UNCHANGED run
           \/ \E k \in Worker : /\ Acts(k)
                                /\ \A j \in Worker \ {k} : run'[j] = run[j]
<1>1. ASSUME NEW k \in Worker, Acts(k)
      PROVE  UNCHANGED run \/ \A j \in Worker \ {k} : run'[j] = run[j]
  <2>1. CASE \E r : Goto(k, r)
    BY <2>1 DEF Goto, RowsOK
  <2>2. CASE UNCHANGED run
    BY <2>2
  <2>3. CASE \E w \in Work : ClaimTurn(k, w) \/ ClaimRecovery(k, w)
    BY <2>1, <2>3 DEF ClaimTurn, ClaimRecovery
  <2>4. CASE Turn(k) \/ Crash(k)
    BY <2>1, <2>2, <2>4 DEF Turn, Begin, CompleteTurn, FailTurn, Propose, Crash
  <2>5. CASE Visit(k)
    BY <2>1, <2>2, <2>5 DEF Visit, AutoApprove, Read, LookupFinds, LookupFindsNothing,
          LookupFails, Admit, Send, Answered, SendFails, Record, Doubt, StopEarly,
          FinishVisits, Survey, Finish, Step, Leave
  <2> QED BY <1>1, <2>3, <2>4, <2>5 DEF Acts
<1>2. CASE UNCHANGED vars
  BY <1>2 DEF vars
<1>3. CASE \E k \in Worker : Acts(k)
  BY <1>1, <1>3
<1>4. CASE Operator
  BY <1>4 DEF Operator, Approve, Wake, Revoke, Resolve, Receive, Cancel, Retry, Pause
<1>5. CASE Environment
  BY <1>3, <1>5 DEF Environment, Lapse, ApprovalLapses, LoseRequest, CloseOperation,
                    Arrive, Acts
<1> QED BY <1>2, <1>3, <1>4, <1>5 DEF Next, Acts

\* A pass keeps to the rows of its work item, whatever others do to them.
LEMMA PassesKept ==
    ASSUME RowsOK, Passes, Rowed, Answers, [Next]_vars
    PROVE  Passes'
<1> USE OrdersAssumption
<1>1. \A o \in Order : order[o].work \in Work => order'[o].work = order[o].work
  BY OrderMoves DEF OrderMove, SameItem, Drafted, Rowed
<1>2. ASSUME NEW k \in Worker, run'[k] = run[k]
      PROVE  InPass(k)'
  <2>1. InPass(k) /\ run[k] \in Run
    BY DEF Passes, RowsOK
  <2> QED BY <1>1, <1>2, <2>1 DEF InPass, Run, InHand
<1>3. ASSUME NEW k \in Worker, Acts(k)
      PROVE  InPass(k)'
  <2>1. InPass(k) /\ run[k] \in Run /\ run \in [Worker -> Run]
    BY DEF Passes, RowsOK
  <2>2. \A o \in Order : order[o].work = run[k].work /\ run[k].work \in Work =>
                           order'[o].work = run[k].work
    BY <1>1
  <2>3. ASSUME NEW w \in Work, ClaimTurn(k, w) \/ ClaimRecovery(k, w)
        PROVE  InPass(k)'
    <3>1. UNCHANGED order
      BY <2>3 DEF ClaimTurn, ClaimRecovery
    <3>2. CASE run'[k] = [Idle EXCEPT !.at = "CLAIMED", !.work = w]
      <4>1. /\ run'[k].at = "CLAIMED" /\ run'[k].work = w
            /\ run'[k].todo = {} /\ run'[k].drafts = {}
        BY <3>2 DEF Idle
      <4> QED BY <4>1 DEF InPass, InHand
    <3>3. CASE run'[k] = [Idle EXCEPT !.at = "ORDERS", !.work = w, !.todo = Rows(w)]
      <4>1. /\ run'[k].at = "ORDERS" /\ run'[k].work = w
            /\ run'[k].todo = Rows(w) /\ run'[k].drafts = {}
        BY <3>3 DEF Idle
      <4> QED BY <3>1, <4>1 DEF InPass, InHand, Rows
    <3> QED BY <2>1, <2>3, <3>2, <3>3 DEF ClaimTurn, ClaimRecovery, Goto
  <2>4. CASE Crash(k) \/ Finish(k)
    <3>1. run'[k] = Idle
      BY <2>1, <2>4 DEF Crash, Finish, Goto
    <3> QED BY <3>1 DEF InPass, Idle, InHand
  <2>5. CASE \E o \in Order, s \in Product, c \in Cost : Propose(k, o, s, c)
    BY <1>2, <2>5 DEF Propose
  <2>6. CASE Begin(k)
    BY <2>1, <2>6 DEF Begin, Goto, At, InPass, InHand, Rows, db, Run
  <2>7. CASE CompleteTurn(k)
    BY <2>1, <2>7 DEF CompleteTurn, Goto, At, InPass, InHand, Rows, db, Run
  <2>8. CASE FailTurn(k)
    BY <2>1, <2>8 DEF FailTurn, Goto, At, InPass, InHand, Rows, db, Run
  <2>9. CASE \E o \in Order : AutoApprove(k, o)
    <3> PICK o \in Order : AutoApprove(k, o)
      BY <2>9
    <3>1. o \in run[k].drafts /\ run[k].at = "ORDERS"
      BY DEF AutoApprove, At
    <3>2. /\ run'[k].work = run[k].work
          /\ run'[k].todo = run[k].todo \ {o} /\ run'[k].drafts = run[k].drafts \ {o}
          /\ \/ run'[k].at = "READ" /\ run'[k].order = o
             \/ run'[k].at = "ORDERS"
      <4>1. \/ run'[k] = [run[k] EXCEPT !.at = "READ", !.order = o,
                                       !.todo = @ \ {o}, !.drafts = @ \ {o}]
            \/ run'[k] = [run[k] EXCEPT !.todo = @ \ {o}, !.drafts = @ \ {o}]
        BY <2>1 DEF AutoApprove, Goto
      <4> QED BY ZenonT(60), <2>1, <3>1, <4>1 DEF Run
    <3> QED BY <2>1, <2>2, <3>1, <3>2 DEF InPass, InHand, Run
  <2>10. CASE \E o \in Order : Read(k, o)
    BY <2>1, <2>2, <2>10 DEF Read, Goto, At, InPass, InHand, db, Run
  <2>11. ASSUME NEW p \in InHand, At(k, "LOOKUP") \/ At(k, "ADMIT") \/ At(k, "SEND") \/ At(k, "WAIT"),
                Step(k, p)
         PROVE  InPass(k)'
    BY <2>1, <2>2, <2>11 DEF Step, Goto, At, InPass, InHand, Run
  <2>12. ASSUME ~At(k, "IDLE"), Leave(k)
         PROVE  InPass(k)'
    BY <2>1, <2>2, <2>12 DEF Leave, Goto, At, InPass, InHand, Run
  <2>13. CASE LookupFinds(k) \/ LookupFindsNothing(k) \/ LookupFails(k)
    BY <2>11, <2>12, <2>13 DEF LookupFinds, LookupFindsNothing, LookupFails, At, InHand
  <2>14. CASE Admit(k) \/ Record(k) \/ Doubt(k)
    BY <2>11, <2>12, <2>14 DEF Admit, Record, Doubt, At, InHand
  <2>15. CASE Send(k) \/ Answered(k) \/ SendFails(k)
    BY <2>11, <2>15 DEF Send, Answered, SendFails, At, InHand
  <2>16. CASE StopEarly(k) \/ FinishVisits(k)
    <3>1. /\ run'[k].at = "FINISH" /\ run'[k].work = run[k].work
          /\ run'[k].todo = {} /\ run'[k].drafts = {}
          /\ run'[k].verdict \in {"BLOCKED", "CANCELLED", "DONE"}
      <4>1. \E v \in {"BLOCKED", "CANCELLED", "DONE"} :
               run'[k] = [run[k] EXCEPT !.at = "FINISH", !.todo = {}, !.drafts = {},
                                        !.verdict = v]
        BY <2>1, <2>16 DEF StopEarly, FinishVisits, Survey, Goto
      <4> QED BY <2>1, <4>1 DEF Run
    <3>2. run[k].at = "ORDERS"
      BY <2>16 DEF StopEarly, FinishVisits, At
    <3> QED BY <2>1, <3>1, <3>2 DEF InPass, InHand
  <2> QED BY <1>3, <2>3, <2>4, <2>5, <2>6, <2>7, <2>8, <2>9, <2>10, <2>13, <2>14, <2>15, <2>16
          DEF Acts, Turn, Visit
<1> QED BY <1>2, <1>3, Actors DEF Passes

\* A new draft belongs to the item of the worker that holds the claim on it.
LEMMA DraftedItem ==
    ASSUME RowsOK, NEW o \in Order, Drafted(o)
    PROVE  \E k \in Worker : /\ order'[o].work = run[k].work
                             /\ At(k, "TURN") /\ AssertCurrent(k)
<1> PICK k \in Worker, s \in Product, c \in Cost : Propose(k, o, s, c)
  BY DEF Drafted
<1> DEFINE S == {p \in {x \in Rows(run[k].work) : order[x].sku = s} :
                    Status(p) \in {"DRAFT", "APPROVED"}}
           r == [NoRow EXCEPT !.status = "DRAFT", !.work = run[k].work,
                              !.sku = s, !.amount = c]
<1>1. order' = [Withdrawn(S) EXCEPT ![o] = r]
  BY DEF Propose
<1>2. r.work = run[k].work
  BY DEF NoRow
<1>3. Withdrawn(S) \in [Order -> OrderRow]
  BY WithdrawnType
<1> HIDE DEF S, r
<1>4. order'[o].work = run[k].work
  BY <1>1, <1>2, <1>3
<1> QED BY <1>4 DEF Propose

\* No step leaves a row without its work item, or a work item to no row.
LEMMA RowedKept ==
    ASSUME RowsOK, Passes, Rowed, Answers, [Next]_vars
    PROVE  Rowed'
<1> USE OrdersAssumption
<1> SUFFICES ASSUME NEW o \in Order
             PROVE  (order'[o].status = "NONE") <=> (order'[o].work = None)
  BY DEF Rowed
<1>1. OrderMove(o)
  BY OrderMoves
<1>2. CASE Drafted(o)
  BY <1>2, DraftedItem DEF Drafted, AssertCurrent
<1>3. CASE ~Drafted(o)
  BY <1>1, <1>3 DEF OrderMove, SameItem, Moved, Admitted, Rowed, Held, Uncertain, Outcome
<1> QED BY <1>2, <1>3

\* How a worker comes to a place between the read of an order and its outcome.
Carries(k, from) ==
    /\ run[k].at \in from
    /\ run'[k].order = run[k].order /\ run'[k].work = run[k].work

RunMove(k) ==
    \/ run'[k] = run[k]
    \/ run'[k].at \notin Past \cup {"ADMIT"}
    \/ /\ run'[k].at = "LOOKUP" /\ run'[k].order \in Order
       /\ order[run'[k].order].status \in Uncertain
    \/ /\ run'[k].at = "ADMIT" /\ run'[k].order \in Order
       /\ order[run'[k].order].status = "APPROVED" /\ UNCHANGED order
    \/ run'[k].at = "ADMIT" /\ Carries(k, {"LOOKUP"}) /\ idempotent
    \/ run'[k].at = "SEND" /\ Carries(k, {"ADMIT"}) /\ Admit(k) /\ MaySend(k, run[k].order)
    \/ run'[k].at = "WAIT" /\ Carries(k, {"SEND"}) /\ Send(k)
    \/ /\ run'[k].at = "RECORD" /\ Carries(k, {"LOOKUP", "WAIT"})
       /\ ledger[run[k].order] # "NONE" /\ UNCHANGED supplier
    \/ run'[k].at = "DOUBT" /\ Carries(k, {"SEND", "WAIT"})

\* The memory of a worker changes in these ways and no others.
LEMMA RunMoves ==
    ASSUME RowsOK, Passes, [Next]_vars, NEW k \in Worker
    PROVE  RunMove(k)
<1>1. run[k] \in Run /\ run \in [Worker -> Run]
  BY DEF RowsOK
<1>2. CASE run'[k] = run[k]
  BY <1>2 DEF RunMove
<1>3. CASE Acts(k)
  <2>1. ASSUME NEW p, Step(k, p)
        PROVE  /\ run'[k].at = p
               /\ run'[k].order = run[k].order /\ run'[k].work = run[k].work
    BY <1>1, <2>1 DEF Step, Goto, Run
  <2>2. ASSUME Leave(k) \/ Goto(k, Idle)
        PROVE  RunMove(k)
    <3>1. CASE Leave(k)
      BY <1>1, <3>1 DEF Leave, Goto, Run, RunMove, Past
    <3>2. CASE Goto(k, Idle)
      BY <1>1, <3>2 DEF Goto, Idle, RunMove, Past
    <3> QED BY <2>2, <3>1, <3>2
  <2>3. CASE \E w \in Work : ClaimTurn(k, w) \/ ClaimRecovery(k, w)
    <3>1. \E w \in Work :
             \/ run'[k] = [Idle EXCEPT !.at = "CLAIMED", !.work = w]
             \/ run'[k] = [Idle EXCEPT !.at = "ORDERS", !.work = w, !.todo = Rows(w)]
      BY <1>1, <2>3 DEF ClaimTurn, ClaimRecovery, Goto
    <3>2. run'[k].at \in {"CLAIMED", "ORDERS"}
      BY <3>1 DEF Idle
    <3> QED BY <3>2 DEF RunMove, Past
  <2>4. CASE Turn(k)
    <3>1. CASE Begin(k)
      BY <1>1, <3>1 DEF Begin, Goto, Run, RunMove, Past
    <3>2. CASE CompleteTurn(k)
      BY <1>1, <3>2 DEF CompleteTurn, Goto, Run, RunMove, Past
    <3>3. CASE FailTurn(k)
      BY <1>1, <3>3 DEF FailTurn, Goto, Run, RunMove, Past
    <3>4. CASE UNCHANGED run
      BY <1>2, <3>4
    <3> QED BY <2>4, <3>1, <3>2, <3>3, <3>4 DEF Turn, Propose
  <2>5. CASE Crash(k) \/ Finish(k) \/ LookupFails(k) \/ Record(k) \/ Doubt(k)
    BY <2>2, <2>5 DEF Crash, Finish, LookupFails, Record, Doubt
  <2>6. CASE \E o \in Order : AutoApprove(k, o)
    <3> PICK o \in Order : AutoApprove(k, o)
      BY <2>6
    <3>1. \/ run'[k] = [run[k] EXCEPT !.at = "READ", !.order = o,
                                     !.todo = @ \ {o}, !.drafts = @ \ {o}]
          \/ run'[k] = [run[k] EXCEPT !.todo = @ \ {o}, !.drafts = @ \ {o}]
      BY <1>1 DEF AutoApprove, Goto
    <3>2. run'[k].at \in {"READ", "ORDERS"}
      BY <1>1, <3>1 DEF AutoApprove, At, Run
    <3> QED BY <3>2 DEF RunMove, Past
  <2>7. CASE \E o \in Order : Read(k, o)
    <3> PICK o \in Order : Read(k, o)
      BY <2>7
    <3> DEFINE next == IF Status(o) \notin Held \/ ~AssertCurrent(k) THEN "ORDERS"
                       ELSE IF Status(o) = "APPROVED" THEN "ADMIT"
                       ELSE "LOOKUP"
               q == IF next = "ORDERS" THEN None ELSE o
    <3>1. next = "ORDERS" \/ (next = "ADMIT" /\ Status(o) = "APPROVED")
          \/ (next = "LOOKUP" /\ Status(o) \in Uncertain)
      BY DEF Held
    <3>2. run'[k] = [run[k] EXCEPT !.at = next, !.todo = @ \ {o}, !.order = q]
      BY <1>1 DEF Read, Goto
    <3>3. next # "ORDERS" => q = o
      OBVIOUS
    <3> HIDE DEF next, q
    <3>4. run'[k].at = next /\ run'[k].order = q
      BY <1>1, <3>2 DEF Run
    <3>5. UNCHANGED order
      BY DEF Read, db
    <3> QED BY <3>1, <3>3, <3>4, <3>5 DEF RunMove, Status, Past
  <2>8. CASE LookupFinds(k) \/ Answered(k)
    BY <2>1, <2>8 DEF LookupFinds, Answered, At, RunMove, Carries
  <2>9. CASE LookupFindsNothing(k)
    BY <2>1, <2>2, <2>9 DEF LookupFindsNothing, At, RunMove, Carries
  <2>10. CASE Admit(k)
    BY <2>1, <2>2, <2>10 DEF Admit, At, RunMove, Carries
  <2>11. CASE Send(k) \/ SendFails(k)
    BY <2>1, <2>11 DEF Send, SendFails, At, RunMove, Carries
  <2>12. CASE StopEarly(k) \/ FinishVisits(k)
    <3>1. \E v \in {"BLOCKED", "CANCELLED", "DONE"} :
             run'[k] = [run[k] EXCEPT !.at = "FINISH", !.todo = {}, !.drafts = {},
                                      !.verdict = v]
      BY <1>1, <2>12 DEF StopEarly, FinishVisits, Survey, Goto
    <3>2. run'[k].at = "FINISH"
      BY <1>1, <3>1 DEF Run
    <3> QED BY <3>2 DEF RunMove, Past
  <2> QED BY <1>3, <2>3, <2>4, <2>5, <2>6, <2>7, <2>8, <2>9, <2>10, <2>11, <2>12
          DEF Acts, Visit
<1> QED BY <1>2, <1>3, Actors

\* The steps that the supplier and the network notice.
LEMMA SupplierMoves ==
    ASSUME RowsOK, [Next]_vars
    PROVE  \/ UNCHANGED supplier
           \/ \E k \in Worker : Send(k)
           \/ \E o \in Order : \/ LoseRequest(o) \/ CloseOperation(o)
                               \/ \E a \in {"ACCEPTED", "REJECTED"} : Arrive(o, a)
<1>1. CASE UNCHANGED vars
  BY <1>1 DEF vars, supplier
<1>2. CASE \E k \in Worker : \/ \E w \in Work : ClaimTurn(k, w) \/ ClaimRecovery(k, w)
                             \/ Turn(k)
  BY ZenonT(60), <1>2 DEF ClaimTurn, ClaimRecovery, Turn, Begin, CompleteTurn, FailTurn, Propose
<1>3. CASE \E k \in Worker : Visit(k)
  BY ZenonT(60), <1>3 DEF Visit, AutoApprove, Read, LookupFinds, LookupFindsNothing, LookupFails,
              Admit, Answered, SendFails, Record, Doubt, StopEarly, FinishVisits, Survey,
              Finish
<1>4. CASE Operator
  BY <1>4 DEF Operator, Approve, Wake, Revoke, Resolve, Receive, Cancel, Retry, Pause
<1>5. CASE Environment
  BY <1>5 DEF Environment, Lapse, ApprovalLapses, Crash
<1> QED BY <1>1, <1>2, <1>3, <1>4, <1>5 DEF Next

\* A step that leaves a trace of an order has admitted it first.
LEMMA TracesKept ==
    ASSUME RowsOK, Passes, Rowed, Traces, Answers, [Next]_vars
    PROVE  Traces'
<1> SUFFICES ASSUME NEW o \in Order, order'[o].status \notin Reached
             PROVE  /\ wire'[o] = 0 /\ purchases'[o] = 0 /\ ledger'[o] = "NONE"
                    /\ \A k \in Worker : run'[k].at \in Past => run'[k].order # o
  BY DEF Traces
<1>1. order[o].status \notin Reached
  BY OrderMoves DEF OrderMove, Drafted, Moved, Admitted, Reached, Uncertain, Settled,
                    Bought, Outcome
<1>2. /\ wire[o] = 0 /\ purchases[o] = 0 /\ ledger[o] = "NONE"
      /\ \A k \in Worker : run[k].at \in Past => run[k].order # o
  BY <1>1 DEF Traces
<1>3. wire'[o] = 0 /\ purchases'[o] = 0 /\ ledger'[o] = "NONE"
  <2>1. CASE UNCHANGED supplier
    BY <1>2, <2>1 DEF supplier
  <2>2. CASE \E k \in Worker : Send(k)
    BY <1>2, <2>2 DEF Send, At, Past, RowsOK
  <2>3. CASE \E q \in Order, a \in {"ACCEPTED", "REJECTED"} : Arrive(q, a)
    BY <1>2, <2>3 DEF Arrive, RowsOK
  <2>4. CASE \E q \in Order : LoseRequest(q)
    BY <1>2, <2>4 DEF LoseRequest, RowsOK
  <2>5. CASE \E q \in Order : CloseOperation(q)
    BY <1>1, <1>2, <2>5 DEF CloseOperation, RowsOK, Status, Reached
  <2> QED BY <2>1, <2>2, <2>3, <2>4, <2>5, SupplierMoves
<1>4. ASSUME NEW k \in Worker, run'[k].at \in Past, run'[k].order = o
      PROVE  FALSE
  <2>1. RunMove(k)
    BY RunMoves
  <2>2. CASE run'[k].at = "SEND" /\ Admit(k) /\ MaySend(k, run[k].order)
             /\ run[k].order = o
    <3>1. order' = [order EXCEPT ![o].status = "SENDING"]
      BY <2>2 DEF Admit
    <3>2. order'[o].status = "SENDING"
      BY <3>1 DEF RowsOK, OrderRow
    <3> QED BY <3>2 DEF Reached, Uncertain
  <2> QED BY <1>1, <1>2, <1>4, <2>1, <2>2 DEF RunMove, Carries, Past, Reached
<1> QED BY <1>3, <1>4

\* An answer, once given, is never contradicted by a row.
LEMMA AnswersKept ==
    ASSUME RowsOK, Passes, Rowed, Answers, [Next]_vars
    PROVE  Answers'
<1>1. ASSUME NEW o \in Order
      PROVE  /\ ledger[o] # "NONE" => ledger'[o] = ledger[o]
             /\ purchases'[o] > 0 => ledger'[o] = "ACCEPTED"
  <2>1. purchases[o] > 0 => ledger[o] = "ACCEPTED"
    BY DEF Answers
  <2>2. CASE UNCHANGED supplier
    BY <2>1, <2>2 DEF supplier
  <2>3. CASE \E k \in Worker : Send(k)
    BY <2>1, <2>3 DEF Send
  <2>4. CASE \E q \in Order, a \in {"ACCEPTED", "REJECTED"} : Arrive(q, a)
    BY <2>1, <2>4 DEF Arrive, RowsOK
  <2>5. CASE \E q \in Order : LoseRequest(q)
    BY <2>1, <2>5 DEF LoseRequest
  <2>6. CASE \E q \in Order : CloseOperation(q)
    BY <2>1, <2>6 DEF CloseOperation, RowsOK
  <2> QED BY <2>2, <2>3, <2>4, <2>5, <2>6, SupplierMoves
<1>2. ASSUME NEW o \in Order
      PROVE  /\ order'[o].status \in Bought => ledger'[o] = "ACCEPTED"
             /\ order'[o].status = "REJECTED" => ledger'[o] = "REJECTED"
  <2>1. ledger[o] \in {"NONE", "ACCEPTED", "REJECTED"}
    BY DEF RowsOK
  <2>2. /\ order'[o].status \in Bought => ledger[o] = "ACCEPTED"
        /\ order'[o].status = "REJECTED" => ledger[o] = "REJECTED"
    BY <2>1, OrderMoves DEF OrderMove, Drafted, Moved, Admitted, Bought, Outcome, Answers
  <2> QED BY <1>1, <2>2
<1>3. ASSUME NEW k \in Worker, run'[k].at = "RECORD"
      PROVE  ledger'[run'[k].order] # "NONE"
  <2>1. run'[k].order = run[k].order /\ ledger[run[k].order] # "NONE"
        /\ run[k].at \in InHand
    BY <1>3, RunMoves DEF RunMove, Carries, Past, Answers, InHand
  <2>2. run[k].order \in Order
    BY <2>1 DEF Passes, InPass
  <2> QED BY <1>1, <2>1, <2>2
<1> QED BY <1>1, <1>2, <1>3 DEF Answers

\* The holder of a work item finishes it as done.
Finishes(j, w) ==
    /\ run[j].at = "FINISH" /\ run[j].work = w /\ run[j].verdict = "DONE"
    /\ AssertCurrent(j) /\ UNCHANGED order /\ run' = [run EXCEPT ![j] = Idle]

\* What one step may do to the claim on a work item.
WorkMove(w) ==
    \/ work'[w] = work[w]
    \/ work'[w].status \notin {"RUNNING", "DONE"}
    \/ work'[w].status = "DONE" /\ \E j \in Worker : Finishes(j, w)
    \/ /\ work'[w].status = "RUNNING"
       /\ \E j \in Worker : run[j].at = "IDLE" /\ work'[w].owner = j
    \/ /\ work[w].life # "OVER"
       /\ work'[w].status = work[w].status /\ work'[w].owner = work[w].owner

\* A claim ends only by lapsing, finishing, cancellation or being taken over.
LEMMA WorkMoves ==
    ASSUME RowsOK, Passes, [Next]_vars, NEW w \in Work
    PROVE  WorkMove(w) /\ (paused => paused')
<1>1. work[w] \in WorkRow /\ work \in [Work -> WorkRow]
  BY DEF RowsOK
<1>2. CASE UNCHANGED vars
  BY <1>2 DEF vars, WorkMove
<1>3. ASSUME NEW k \in Worker, NEW v \in Work, ClaimTurn(k, v) \/ ClaimRecovery(k, v)
      PROVE  WorkMove(w) /\ (paused => paused')
  <2>1. work' = Hold(v, k) /\ UNCHANGED paused /\ run[k].at = "IDLE"
    BY <1>3 DEF ClaimTurn, ClaimRecovery, At
  <2>2. CASE v # w
    BY <1>1, <2>1, <2>2 DEF Hold, WorkMove
  <2>3. CASE v = w
    <3>1. work'[w] = [work[w] EXCEPT !.status = "RUNNING", !.owner = k, !.life = "AMPLE"]
      BY <1>1, <2>1, <2>3 DEF Hold
    <3>2. work'[w].owner = k /\ work'[w].status = "RUNNING"
      BY <1>1, <3>1 DEF WorkRow
    <3> QED BY <2>1, <3>2 DEF WorkMove
  <2> QED BY <2>2, <2>3
<1>4. ASSUME NEW k \in Worker, Turn(k)
      PROVE  WorkMove(w) /\ (paused => paused')
  <2>1. UNCHANGED <<work, paused>>
    BY <1>4 DEF Turn, Begin, CompleteTurn, FailTurn, Propose, db
  <2> QED BY <2>1 DEF WorkMove
<1>5. ASSUME NEW k \in Worker, Visit(k)
      PROVE  WorkMove(w) /\ (paused => paused')
  <2>1. CASE Finish(k)
    <3> DEFINE v == run[k].work
               r == [work[v] EXCEPT !.status = run[k].verdict, !.owner = None,
                                    !.life = "OVER"]
    <3>1. v \in Work /\ run[k].verdict \in {"DONE", "BLOCKED", "CANCELLED"}
      BY <2>1 DEF Passes, InPass, Finish, At, RowsOK, Run
    <3>2. r.status = run[k].verdict
      BY <1>1, <3>1 DEF RowsOK, WorkRow
    <3>3. work' = work \/ (AssertCurrent(k) /\ work' = [work EXCEPT ![v] = r])
      BY <2>1 DEF Finish
    <3>4. /\ UNCHANGED <<order, paused>> /\ run[k].at = "FINISH"
          /\ run' = [run EXCEPT ![k] = Idle]
      BY <2>1 DEF Finish, At, Goto
    <3> HIDE DEF r
    <3>5. CASE work' = work \/ v # w
      BY <1>1, <3>3, <3>4, <3>5 DEF WorkMove
    <3>6. CASE v = w /\ AssertCurrent(k) /\ work' = [work EXCEPT ![v] = r]
      <4>1. work'[w].status = run[k].verdict
        BY <1>1, <3>2, <3>6
      <4> QED BY <3>1, <3>4, <3>6, <4>1 DEF WorkMove, Finishes
    <3> QED BY <3>3, <3>5, <3>6
  <2>2. CASE UNCHANGED <<work, paused>>
    BY <2>2 DEF WorkMove
  <2> QED BY <1>5, <2>1, <2>2
          DEF Visit, AutoApprove, Read, LookupFinds, LookupFindsNothing, LookupFails, Admit,
              Send, Answered, SendFails, Record, Doubt, StopEarly, FinishVisits, Survey, db
<1>6. CASE Operator
  <2>1. CASE \E v \in Work : Cancel(v)
    <3> PICK v \in Work : Cancel(v)
      BY <2>1
    <3> DEFINE r == [work[v] EXCEPT !.status = "CANCELLED", !.owner = None,
                                    !.life = "OVER", !.cancelled = TRUE]
    <3>1. work' = work \/ work' = [work EXCEPT ![v] = r]
      BY DEF Cancel
    <3>2. r.status = "CANCELLED"
      BY <1>1 DEF RowsOK, WorkRow
    <3> HIDE DEF r
    <3> QED BY <1>1, <3>1, <3>2 DEF WorkMove, Cancel
  <2>2. CASE \E v \in Work : Retry(v)
    BY <1>1, <2>2 DEF Retry, WorkMove, WorkRow
  <2>3. CASE \E o \in Order : Wake(o)
    <3> PICK o \in Order : Wake(o)
      BY <2>3
    <3> DEFINE v == order[o].work
               s == IF work[v].status = "BLOCKED" THEN "READY" ELSE work[v].status
    <3>1. work' = [work EXCEPT ![v].status = s] /\ UNCHANGED paused
      BY DEF Wake
    <3>2. s = work[v].status \/ s = "READY"
      OBVIOUS
    <3> HIDE DEF s, v
    <3> QED BY <1>1, <3>1, <3>2 DEF WorkMove, WorkRow
  <2>4. CASE \E o \in Order : Resolve(o)
    <3> PICK o \in Order : Resolve(o)
      BY <2>4
    <3> DEFINE v == order[o].work
               s == IF work[v].status \in {"BLOCKED", "CANCELLED"} THEN "READY"
                    ELSE work[v].status
    <3>1. work' = [work EXCEPT ![v].status = s] /\ UNCHANGED paused
      BY DEF Resolve
    <3>2. s = work[v].status \/ s = "READY"
      OBVIOUS
    <3> HIDE DEF s, v
    <3> QED BY <1>1, <3>1, <3>2 DEF WorkMove, WorkRow
  <2>5. CASE UNCHANGED <<work, paused>> \/ Pause
    BY <2>5 DEF Pause, WorkMove
  <2> QED BY <1>6, <2>1, <2>2, <2>3, <2>4, <2>5 DEF Operator, Approve, Revoke, Receive
<1>7. CASE Environment
  <2>1. ASSUME NEW v \in Work, Lapse(v)
        PROVE  WorkMove(w) /\ (paused => paused')
    <3> DEFINE l == IF work[v].life = "AMPLE" THEN "SHORT" ELSE "OVER"
    <3>1. work' = [work EXCEPT ![v].life = l] /\ UNCHANGED paused /\ work[v].life # "OVER"
      BY <2>1 DEF Lapse
    <3> HIDE DEF l
    <3>2. CASE v # w
      BY <1>1, <3>1, <3>2 DEF WorkMove
    <3>3. CASE v = w
      BY <1>1, <3>1, <3>3 DEF WorkMove, WorkRow
    <3> QED BY <3>2, <3>3
  <2>2. CASE UNCHANGED <<work, paused>>
    BY <2>2 DEF WorkMove
  <2> QED BY <1>7, <2>1, <2>2 DEF Environment, Crash, ApprovalLapses, LoseRequest,
                                  CloseOperation, Arrive, db
<1> QED BY <1>2, <1>3, <1>4, <1>5, <1>6, <1>7 DEF Next

\* A claim is not regained in the middle of a pass.
LEMMA ClaimIsNotRegained ==
    ASSUME RowsOK, Passes, [Next]_vars, NEW k \in Worker, run[k].at # "IDLE",
           run'[k].work = run[k].work, AssertCurrent(k)'
    PROVE  AssertCurrent(k)
<1> DEFINE w == run[k].work
<1>1. w \in Work
  BY DEF Passes, InPass
<1>2. WorkMove(w) /\ ~paused
  BY <1>1, WorkMoves DEF AssertCurrent
<1>3. work'[w].status = "RUNNING" /\ work'[w].owner = k /\ work'[w].life # "OVER"
  BY DEF AssertCurrent
<1>4. w # None
  BY <1>1, OrdersAssumption
<1> QED BY <1>2, <1>3, <1>4 DEF WorkMove, AssertCurrent

\* Neither retries nor takeovers make a second sale of one order possible.
LEMMA OneRequestKept ==
    ASSUME RowsOK, Passes, Rowed, Traces, Answers, OneRequest, [Next]_vars
    PROVE  OneRequest'
<1>0. UNCHANGED idempotent
  <2>1. CASE UNCHANGED supplier
    BY <2>1 DEF supplier
  <2> QED BY <2>1, SupplierMoves DEF Send, LoseRequest, CloseOperation, Arrive
<1>1. CASE idempotent
  <2>1. ASSUME NEW o \in Order
        PROVE  purchases'[o] <= 1 /\ (ledger'[o] = "NONE" => purchases'[o] = 0)
    <3>1. /\ purchases[o] <= 1 /\ (ledger[o] = "NONE" => purchases[o] = 0)
          /\ purchases[o] \in Nat
      BY <1>1 DEF OneRequest, RowsOK
    <3>2. CASE UNCHANGED supplier
      BY <3>1, <3>2 DEF supplier
    <3>3. CASE \E k \in Worker : Send(k)
      BY <3>1, <3>3 DEF Send
    <3>4. CASE \E q \in Order, a \in {"ACCEPTED", "REJECTED"} : Arrive(q, a)
      <4> PICK q \in Order, a \in {"ACCEPTED", "REJECTED"} : Arrive(q, a)
        BY <3>4
      <4>1. CASE q = o
        BY <1>1, <3>1, <4>1 DEF Arrive, RowsOK
      <4>2. CASE q # o
        BY <3>1, <4>2 DEF Arrive, RowsOK
      <4> QED BY <4>1, <4>2
    <3>5. CASE \E q \in Order : LoseRequest(q)
      BY <3>1, <3>5 DEF LoseRequest
    <3>6. CASE \E q \in Order : CloseOperation(q)
      BY <3>1, <3>6 DEF CloseOperation, RowsOK
    <3> QED BY <3>2, <3>3, <3>4, <3>5, <3>6, SupplierMoves
  <2> QED BY <1>0, <1>1, <2>1 DEF OneRequest
<1>2. CASE ~idempotent
  <2>1. /\ \A o \in Order : wire[o] + purchases[o] <= 1
        /\ \A k \in Worker : run[k].at = "SEND" =>
              /\ wire[run[k].order] + purchases[run[k].order] = 0
              /\ \A j \in Worker : run[j].at = "SEND" /\ run[j].order = run[k].order
                                       => j = k
        /\ \A k \in Worker : run[k].at = "ADMIT" /\ AssertCurrent(k) =>
              order[run[k].order].status \notin Reached
    BY <1>2 DEF OneRequest
  <2>2. \A o \in Order : wire[o] \in Nat /\ purchases[o] \in Nat
    BY DEF RowsOK
  <2>3. ASSUME NEW k \in Worker, Send(k)
        PROVE  /\ run[k].at = "SEND" /\ run[k].order \in Order
               /\ run'[k].at = "WAIT"
               /\ wire' = [wire EXCEPT ![run[k].order] = @ + 1] /\ UNCHANGED purchases
    BY <2>3 DEF Send, At, Passes, InPass, InHand, Step, Goto, RowsOK, Run
  <2>4. ASSUME NEW o \in Order
        PROVE  /\ wire'[o] + purchases'[o] <= 1
               /\ wire[o] + purchases[o] = 0 => \/ wire'[o] + purchases'[o] = 0
                                               \/ \E k \in Worker : Send(k) /\ run[k].order = o
    <3>1. CASE UNCHANGED supplier
      BY <2>1, <3>1 DEF supplier
    <3>2. CASE \E k \in Worker : Send(k)
      <4> PICK k \in Worker : Send(k)
        BY <3>2
      <4>1. CASE run[k].order = o
        BY <2>1, <2>2, <2>3, <4>1 DEF RowsOK
      <4>2. CASE run[k].order # o
        BY <2>1, <2>2, <2>3, <4>2 DEF RowsOK
      <4> QED BY <4>1, <4>2
    <3>3. CASE \E q \in Order, a \in {"ACCEPTED", "REJECTED"} : Arrive(q, a)
      <4> PICK q \in Order, a \in {"ACCEPTED", "REJECTED"} : Arrive(q, a)
        BY <3>3
      <4>1. CASE q = o
        BY <2>1, <2>2, <4>1 DEF Arrive, RowsOK
      <4>2. CASE q # o
        BY <2>1, <4>2 DEF Arrive, RowsOK
      <4> QED BY <4>1, <4>2
    <3>4. CASE \E q \in Order : LoseRequest(q)
      BY <2>1, <2>2, <3>4 DEF LoseRequest, RowsOK
    <3>5. CASE \E q \in Order : CloseOperation(q)
      BY <2>1, <3>5 DEF CloseOperation
    <3> QED BY <3>1, <3>2, <3>3, <3>4, <3>5, SupplierMoves
  <2>5. ASSUME NEW k \in Worker, run'[k].at = "SEND"
        PROVE  /\ run'[k].order = run[k].order /\ run[k].order \in Order
               /\ \/ run[k].at = "SEND"
                  \/ Admit(k) /\ MaySend(k, run[k].order) /\ run[k].at = "ADMIT"
    <3>1. RunMove(k) /\ InPass(k)
      BY RunMoves DEF Passes
    <3> QED BY <2>5, <3>1 DEF RunMove, Carries, Past, InPass, InHand
  <2>6. ASSUME NEW k \in Worker, Admit(k), MaySend(k, run[k].order), run[k].at = "ADMIT"
        PROVE  order[run[k].order].status \notin Reached /\ UNCHANGED supplier
               /\ \A j \in Worker \ {k} : run'[j] = run[j]
    BY <2>1, <2>6 DEF MaySend, Admit, Step, Goto, RowsOK
  <2>7. ASSUME NEW k \in Worker, run'[k].at = "SEND"
        PROVE  wire'[run'[k].order] + purchases'[run'[k].order] = 0
    <3> DEFINE o == run[k].order
    <3>1. run'[k].order = o /\ o \in Order
      BY <2>5, <2>7
    <3>2. CASE run[k].at = "SEND"
      <4>1. wire[o] + purchases[o] = 0
        BY <2>1, <3>2
      <4>2. ASSUME NEW j \in Worker, Send(j), run[j].order = o
            PROVE  FALSE
        <5>1. j = k
          BY <2>1, <2>3, <3>2, <4>2
        <5> QED BY <2>3, <2>7, <4>2, <5>1
      <4> QED BY <2>4, <3>1, <4>1, <4>2
    <3>3. CASE Admit(k) /\ MaySend(k, o) /\ run[k].at = "ADMIT"
      BY <2>2, <2>6, <3>1, <3>3 DEF Traces, supplier
    <3> QED BY <2>5, <2>7, <3>2, <3>3
  <2>8. ASSUME NEW k \in Worker, run'[k].at = "SEND",
               NEW j \in Worker, run'[j].at = "SEND", run'[j].order = run'[k].order
        PROVE  j = k
    <3>1. /\ run[k].order \in Order /\ run[j].order = run[k].order
          /\ run[k].at = "SEND" \/ (Admit(k) /\ MaySend(k, run[k].order) /\ run[k].at = "ADMIT")
          /\ run[j].at = "SEND" \/ (Admit(j) /\ MaySend(j, run[j].order) /\ run[j].at = "ADMIT")
      BY <2>5, <2>8
    <3>2. CASE run[k].at = "SEND" /\ run[j].at = "SEND"
      BY <2>1, <3>1, <3>2
    <3>3. CASE Admit(k) /\ MaySend(k, run[k].order) /\ run[k].at = "ADMIT"
      BY <2>6, <2>8, <3>1, <3>3 DEF Traces, Past
    <3>4. CASE Admit(j) /\ MaySend(j, run[j].order) /\ run[j].at = "ADMIT"
      BY <2>6, <2>8, <3>1, <3>4 DEF Traces, Past
    <3> QED BY <3>1, <3>2, <3>3, <3>4
  <2>9. ASSUME NEW k \in Worker, run'[k].at = "ADMIT", AssertCurrent(k)'
        PROVE  order'[run'[k].order].status \notin Reached
    <3>1. RunMove(k)
      BY RunMoves
    <3>2. CASE run'[k] = run[k]
      <4> DEFINE o == run[k].order
      <4>1. AssertCurrent(k) /\ order[o].status \notin Reached /\ o \in Order
            /\ order[o].work = run[k].work
        BY <2>1, <2>9, <3>2, ClaimIsNotRegained DEF Passes, InPass, InHand
      <4>2. ASSUME NEW j \in Worker, Admit(j), run[j].order = o, MaySend(j, o)
            PROVE  FALSE
        <5>1. AssertCurrent(j) /\ run[j].at = "ADMIT"
          BY <4>2 DEF MaySend, Admit, At
        <5>2. run[j].work = run[k].work
          BY <4>1, <4>2, <5>1 DEF Passes, InPass, InHand
        <5>3. j = k
          BY <4>1, <5>1, <5>2 DEF AssertCurrent
        <5>4. run'[k].at = "SEND"
          BY <4>2, <5>3 DEF Admit, Step, Goto, RowsOK, Run
        <5> QED BY <2>9, <5>4
      <4>3. OrderMove(o)
        BY <4>1, OrderMoves
      <4> QED BY <3>2, <4>1, <4>2, <4>3
              DEF OrderMove, Drafted, Moved, Admitted, Reached, Uncertain, Settled, Bought
    <3>3. CASE /\ run'[k].order \in Order
               /\ order[run'[k].order].status = "APPROVED" /\ UNCHANGED order
      BY <3>3 DEF Reached, Uncertain, Settled, Bought
    <3> QED BY <1>2, <2>9, <3>1, <3>2, <3>3 DEF RunMove, Past
  <2> QED BY <1>0, <1>2, <2>4, <2>7, <2>8, <2>9 DEF OneRequest
<1> QED BY <1>1, <1>2

\* The inductive invariant holds of an empty shop.
LEMMA Initially == Init => IInv
<1> SUFFICES ASSUME Init PROVE IInv
  OBVIOUS
<1> USE OrdersAssumption
<1>1. RowsOK
  <2>1. [status |-> "READY", owner |-> None, life |-> "OVER", cancelled |-> FALSE] \in WorkRow
    BY DEF WorkRow
  <2>2. NoRow \in OrderRow
    BY DEF NoRow, OrderRow
  <2> QED BY <2>1, <2>2, IdleIsRun DEF Init, RowsOK
<1>2. \A k \in Worker : run[k].at = "IDLE"
  BY DEF Init, Idle
<1>3. \A o \in Order : /\ order[o].status = "NONE" /\ order[o].work = None
                       /\ wire[o] = 0 /\ purchases[o] = 0 /\ ledger[o] = "NONE"
  BY DEF Init, NoRow
<1>4. Passes
  BY <1>2 DEF Passes, InPass, InHand
<1>5. Rowed /\ Traces /\ Answers
  BY <1>2, <1>3 DEF Rowed, Traces, Answers, Past, Bought
<1>6. OneRequest
  BY <1>2, <1>3 DEF OneRequest
<1> QED BY <1>1, <1>4, <1>5, <1>6 DEF IInv

\* No step leaves the inductive invariant.
LEMMA Kept == IInv /\ [Next]_vars => IInv'
BY Types, PassesKept, RowedKept, TracesKept, AnswersKept, OneRequestKept DEF IInv

-----------------------------------------------------------------------------
(* Theorems.                                                               *)

\* The inductive invariant: the rows and the workers' memories agree on whose
\* orders are whose, only admitted orders have left a trace, and without an
\* idempotent adapter nothing is requested a second time.
THEOREM Invariance == Spec => []IInv
BY Initially, Kept, PTL DEF Spec

\* What the supplier has sold is held or spent here: no revocation, no
\* supersession and no rejection hides a sale.
THEOREM SalesAreFunded == Spec => []SaleIsFunded
<1>1. IInv => SaleIsFunded
  BY DEF IInv, SaleIsFunded, RowsOK, OrderRow, Traces, Answers, Status, Reached, Settled
<1> QED BY <1>1, Invariance, PTL

\* Whichever workers tried, and however often, one intent is bought once.
THEOREM NothingIsBoughtTwice == Spec => []BoughtOnce
<1>1. IInv => BoughtOnce
  BY DEF IInv, BoughtOnce, RowsOK, OneRequest
<1> QED BY <1>1, Invariance, PTL

\* A withdrawn order stays withdrawn, and no request for it is ever made.
THEOREM WithdrawalIsFinal == Spec => WithdrawnIsNeverSent
<1>1. ASSUME IInv, [Next]_vars
      PROVE  [\A o \in Order : Status(o) = "REVOKED" =>
                /\ order'[o].status = "REVOKED"
                /\ wire'[o] = 0 /\ purchases'[o] = 0]_vars
  <2> SUFFICES ASSUME NEW o \in Order, order[o].status = "REVOKED"
               PROVE  order'[o].status = "REVOKED" /\ wire'[o] = 0 /\ purchases'[o] = 0
    BY DEF Status
  <2>1. order'[o].status = "REVOKED"
    BY <1>1, OrderMoves DEF IInv, OrderMove, Drafted, Moved, Admitted, Held, Uncertain
  <2>2. Traces'
    BY <1>1, Kept DEF IInv
  <2> QED BY <2>1, <2>2 DEF Traces, Reached, Uncertain, Settled, Bought
<1> QED BY <1>1, Invariance, PTL DEF Spec, WithdrawnIsNeverSent

\* A step of a worker whose claim is gone leaves every outcome as it was.
THEOREM LostClaimsRecordNothing == Spec => StaleWorkerRecordsNothing
<1>1. ASSUME IInv, [Next]_vars
      PROVE  [\A k \in Worker, o \in Order :
                run'[k] # run[k] /\ ~AssertCurrent(k) =>
                   order'[o].status \in {order[o].status, "APPROVED"}]_vars
  <2> SUFFICES ASSUME NEW k \in Worker, NEW o \in Order,
                      run'[k] # run[k], ~AssertCurrent(k)
               PROVE  order'[o].status \in {order[o].status, "APPROVED"}
    OBVIOUS
  <2>1. Acts(k)
    BY <1>1, Actors DEF IInv
  <2>2. CASE UNCHANGED order
    BY <2>2
  <2>3. CASE \E q \in Order : AutoApprove(k, q)
    <3> PICK q \in Order : AutoApprove(k, q)
      BY <2>3
    <3>1. CASE order' = [order EXCEPT ![q] = [order[q] EXCEPT
                  !.status = IF Status(q) \in Uncertain THEN Status(q) ELSE "APPROVED",
                  !.current = TRUE]]
      BY <1>1, <3>1 DEF IInv, RowsOK, OrderRow, Status
    <3> QED BY <2>2, <3>1 DEF AutoApprove, Approved
  <2>4. CASE Doubt(k)
    BY <1>1, <2>4 DEF Doubt, IInv, RowsOK, OrderRow
  <2> QED BY <2>1, <2>2, <2>3, <2>4
          DEF Acts, ClaimTurn, ClaimRecovery, Turn, Begin, CompleteTurn, FailTurn, Propose,
              Visit, Read, LookupFinds, LookupFindsNothing, LookupFails, Admit, MaySend, Send,
              Answered, SendFails, Record, StopEarly, FinishVisits, Survey, Finish, Crash, db
<1> QED BY <1>1, Invariance, PTL DEF Spec, StaleWorkerRecordsNothing

\* One work item never buys, or keeps open, two proposals for one product.
THEOREM OneOfferPerProduct == Spec => []OneOrderPerProduct
<1> USE OrdersAssumption
<1>1. Init => OneOrderPerProduct
  BY DEF Init, NoRow, OneOrderPerProduct, Status, Pending, Held, Uncertain, Bought
<1>2. IInv /\ OneOrderPerProduct /\ [Next]_vars => OneOrderPerProduct'
  <2> SUFFICES ASSUME IInv, OneOrderPerProduct, [Next]_vars,
                      NEW o \in Order, NEW p \in Order, o # p,
                      order'[o].work = order'[p].work, order'[o].sku = order'[p].sku,
                      order'[o].status \in Pending \cup Bought,
                      order'[p].status \in Pending \cup Bought
               PROVE  FALSE
    BY DEF OneOrderPerProduct, Status
  <2>1. ASSUME NEW q \in {o, p}
        PROVE  Drafted(q) \/ (SameItem(q) /\ order[q].status \in Pending \cup Bought)
    <3>1. OrderMove(q) /\ order'[q].status \in Pending \cup Bought
      BY OrderMoves DEF IInv
    <3> QED BY <3>1 DEF OrderMove, Moved, Admitted, Pending, Held, Uncertain, Bought
  <2>2. ASSUME NEW a \in {o, p}, NEW b \in {o, p}, a # b, Drafted(a)
        PROVE  FALSE
    <3> PICK k \in Worker, s \in Product, c \in Cost : Propose(k, a, s, c)
      BY <2>2 DEF Drafted
    <3> DEFINE S == {x \in {y \in Rows(run[k].work) : order[y].sku = s} :
                        Status(x) \in {"DRAFT", "APPROVED"}}
               r == [NoRow EXCEPT !.status = "DRAFT", !.work = run[k].work,
                                  !.sku = s, !.amount = c]
    <3>1. order' = [Withdrawn(S) EXCEPT ![a] = r] /\ order[a].status = "NONE"
      BY DEF Propose, Status
    <3>2. r.work = run[k].work /\ r.sku = s
      BY DEF NoRow
    <3>3. Withdrawn(S) \in [Order -> OrderRow] /\ a \in Order /\ b \in Order
      BY WithdrawnType DEF IInv
    <3>4. b \in S => order[b].status \in {"DRAFT", "APPROVED"}
      BY DEF Status
    <3>5. b \in Rows(run[k].work) /\ order[b].sku = s /\ b \notin S =>
             order[b].status \notin Pending \cup Bought
      BY DEF Propose, Pending, Held, Status
    <3> HIDE DEF S, r
    <3>6. /\ order'[a].work = run[k].work /\ order'[a].sku = s
          /\ order'[b] = Withdrawn(S)[b]
      BY <2>2, <3>1, <3>2, <3>3
    <3>7. order[b].work = run[k].work /\ order[b].sku = s
      BY <2>2, <3>6, <3>3, WithdrawnMoves DEF IInv
    <3>8. b \in Rows(run[k].work)
      BY <3>3, <3>7 DEF Rows
    <3>9. CASE b \in S
      BY <2>2, <3>3, <3>4, <3>6, <3>9, WithdrawnMoves
         DEF IInv, Pending, Held, Uncertain, Bought
    <3>10. CASE b \notin S
      BY <2>2, <3>3, <3>5, <3>6, <3>7, <3>8, <3>10, WithdrawnMoves
         DEF IInv, Pending, Held, Uncertain, Bought
    <3> QED BY <3>9, <3>10
  <2> QED BY <2>1, <2>2 DEF OneOrderPerProduct, SameItem, Status
<1> QED BY <1>1, <1>2, Invariance, PTL DEF Spec

\* A worker with a supplier that is about to report its item done, and entitled
\* to, is right.
DoneIsSafe ==
    \A k \in Connected : run[k].at = "FINISH" /\ run[k].verdict = "DONE" /\ AssertCurrent(k)
                         => Orders(run[k].work, Pending) = {}

\* The verdict of a worker with a supplier is taken from the rows.
LEMMA FinishMoves ==
    ASSUME RowsOK, Passes, [Next]_vars,
           NEW k \in Connected, run'[k].at = "FINISH", run'[k].verdict = "DONE"
    PROVE  \/ run'[k] = run[k]
           \/ /\ run'[k].work = run[k].work /\ UNCHANGED order
              /\ Orders(run[k].work, Pending) = {}
<1> k \in Worker
  BY OrdersAssumption
<1>1. run[k] \in Run /\ run \in [Worker -> Run]
  BY DEF RowsOK
<1>2. CASE run'[k] = run[k]
  BY <1>2
<1>3. CASE Acts(k)
  <2>1. CASE CompleteTurn(k)
    <3> DEFINE rows == Rows(run[k].work)
               r == [run[k] EXCEPT
                        !.at = "ORDERS", !.todo = rows,
                        !.drafts = {o \in rows : /\ Status(o) = "DRAFT"
                                                 /\ ~order[o].revoked
                                                 /\ Amount(o) <= Automatic}]
    <3>1. r.at = "ORDERS"
      BY <1>1 DEF Run
    <3>2. run'[k] = IF rows # {} THEN r
                    ELSE [run[k] EXCEPT !.at = "FINISH", !.verdict = "DONE"]
      BY <1>1, <2>1 DEF CompleteTurn, Goto
    <3> HIDE DEF r
    <3>3. rows = {} /\ run'[k] = [run[k] EXCEPT !.at = "FINISH", !.verdict = "DONE"]
      BY <3>1, <3>2
    <3>4. run'[k].work = run[k].work
      BY <1>1, <3>3 DEF Run
    <3> QED BY <2>1, <3>3, <3>4 DEF CompleteTurn, db, Orders
  <2>2. CASE StopEarly(k) \/ FinishVisits(k)
    <3> DEFINE v == IF Orders(run[k].work, Pending) # {} THEN "BLOCKED"
                    ELSE IF work[run[k].work].cancelled THEN "CANCELLED" ELSE "DONE"
    <3>1. run'[k] = [run[k] EXCEPT !.at = "FINISH", !.todo = {}, !.drafts = {},
                                   !.verdict = v]
      BY <1>1, <2>2 DEF StopEarly, FinishVisits, Survey, Goto
    <3>2. v = "DONE" => Orders(run[k].work, Pending) = {}
      OBVIOUS
    <3> HIDE DEF v
    <3>3. run'[k].verdict = v /\ run'[k].work = run[k].work
      BY <1>1, <3>1 DEF Run
    <3> QED BY <2>2, <3>2, <3>3 DEF StopEarly, FinishVisits, Survey, db
  <2>3. CASE FailTurn(k)
    <3>1. run'[k] = [run[k] EXCEPT !.at = "FINISH", !.verdict = "BLOCKED"]
      BY <1>1, <2>3 DEF FailTurn, Goto
    <3>2. run'[k].verdict = "BLOCKED"
      BY <1>1, <3>1 DEF Run
    <3> QED BY <3>2
  <2>4. CASE Begin(k)
    BY <1>1, <2>4 DEF Begin, Goto, Run
  <2>5. CASE \E o \in Order, s \in Product, c \in Cost : Propose(k, o, s, c)
    BY <2>5 DEF Propose
  <2>6. CASE \E w \in Work : ClaimTurn(k, w) \/ ClaimRecovery(k, w)
    <3>1. \E w \in Work :
             \/ run'[k] = [Idle EXCEPT !.at = "CLAIMED", !.work = w]
             \/ run'[k] = [Idle EXCEPT !.at = "ORDERS", !.work = w, !.todo = Rows(w)]
      BY <1>1, <2>6 DEF ClaimTurn, ClaimRecovery, Goto
    <3>2. run'[k].at \in {"CLAIMED", "ORDERS"}
      BY <3>1 DEF Idle
    <3> QED BY <3>2
  <2>7. CASE Crash(k) \/ Finish(k)
    BY <1>1, <2>7 DEF Crash, Finish, Goto, Idle
  <2>8. CASE \E o \in Order : AutoApprove(k, o)
    <3> PICK o \in Order : AutoApprove(k, o)
      BY <2>8
    <3>1. \/ run'[k] = [run[k] EXCEPT !.at = "READ", !.order = o,
                                     !.todo = @ \ {o}, !.drafts = @ \ {o}]
          \/ run'[k] = [run[k] EXCEPT !.todo = @ \ {o}, !.drafts = @ \ {o}]
      BY <1>1 DEF AutoApprove, Goto
    <3>2. run'[k].at \in {"READ", "ORDERS"}
      BY <1>1, <3>1 DEF AutoApprove, At, Run
    <3> QED BY <3>2
  <2>9. CASE \E o \in Order : Read(k, o)
    <3> PICK o \in Order : Read(k, o)
      BY <2>9
    <3>1. \E p \in {"ORDERS", "ADMIT", "LOOKUP"}, q \in {None, o} :
             run'[k] = [run[k] EXCEPT !.at = p, !.todo = @ \ {o}, !.order = q]
      BY <1>1 DEF Read, Goto
    <3>2. run'[k].at \in {"ORDERS", "ADMIT", "LOOKUP"}
      BY <1>1, <3>1 DEF Run
    <3> QED BY <3>2
  <2>10. ASSUME Leave(k)
         PROVE  run'[k].at = "ORDERS"
    BY <1>1, <2>10 DEF Leave, Goto, Run
  <2>11. ASSUME NEW p, Step(k, p)
         PROVE  run'[k].at = p
    BY <1>1, <2>11 DEF Step, Goto, Run
  <2>12. CASE LookupFinds(k) \/ LookupFindsNothing(k) \/ LookupFails(k) \/ Admit(k) \/ Send(k)
              \/ Answered(k) \/ SendFails(k) \/ Record(k) \/ Doubt(k)
    <3>1. run'[k].at \in {"ORDERS", "RECORD", "ADMIT", "SEND", "WAIT", "DOUBT"}
      BY <2>10, <2>11, <2>12 DEF LookupFinds, LookupFindsNothing, LookupFails, Admit, Send,
                                 Answered, SendFails, Record, Doubt
    <3> QED BY <3>1
  <2> QED BY <1>3, <2>1, <2>2, <2>3, <2>4, <2>5, <2>6, <2>7, <2>8, <2>9, <2>12
          DEF Acts, Turn, Visit
<1> QED BY <1>2, <1>3, Actors

\* Work that a worker with a supplier reports done has no open order then,
\* whatever other workers, with a supplier or without, do to the item meanwhile.
THEOREM DoneMeansConclusive == Spec => ConnectedFinishIsConclusive
<1> USE OrdersAssumption
<1>1. Init => DoneIsSafe
  BY DEF Init, DoneIsSafe, Idle
<1>2. IInv /\ DoneIsSafe /\ [Next]_vars => DoneIsSafe'
  <2> SUFFICES ASSUME IInv, DoneIsSafe, [Next]_vars
               PROVE  DoneIsSafe'
    OBVIOUS
  <2>1. \A o \in Order : order'[o].status \in Pending =>
           Drafted(o) \/ (SameItem(o) /\ order[o].status \in Pending)
    BY OrderMoves DEF IInv, OrderMove, Moved, Admitted, Pending, Held, Uncertain, Outcome
  <2>2. ASSUME NEW k \in Connected, run'[k].at = "FINISH", run'[k].verdict = "DONE",
               AssertCurrent(k)',
               NEW o \in Order, order'[o].work = run'[k].work, order'[o].status \in Pending
        PROVE  FALSE
    <3>1. CASE run'[k] = run[k]
      <4>1. AssertCurrent(k)
        BY <2>2, <3>1, ClaimIsNotRegained DEF IInv
      <4>2. Drafted(o)
        BY <2>1, <2>2, <3>1, <4>1 DEF DoneIsSafe, Orders, Rows, Status, SameItem
      <4>3. PICK j \in Worker : /\ run[j].work = run[k].work
                                /\ At(j, "TURN") /\ AssertCurrent(j)
        BY <2>2, <3>1, <4>2, DraftedItem DEF IInv
      <4>4. j = k
        BY <4>1, <4>3 DEF AssertCurrent
      <4> QED BY <2>2, <3>1, <4>3, <4>4 DEF At
    <3>2. CASE /\ run'[k].work = run[k].work /\ UNCHANGED order
               /\ Orders(run[k].work, Pending) = {}
      BY <2>2, <3>2 DEF Orders, Rows, Status
    <3> QED BY <2>2, <3>1, <3>2, FinishMoves DEF IInv
  <2> QED BY <2>2 DEF DoneIsSafe, Orders, Rows, Status
<1>3. ASSUME IInv, DoneIsSafe, [Next]_vars,
             NEW k \in Connected, NEW w \in Work,
             run[k].work = w, run'[k] # run[k],
             work[w].status # "DONE", work'[w].status = "DONE"
      PROVE  Orders(w, Pending) = {}
  <2>1. WorkMove(w)
    BY <1>3, WorkMoves DEF IInv
  <2>2. PICK j \in Worker : Finishes(j, w)
    BY <1>3, <2>1 DEF WorkMove
  <2>3. j = k
    BY <1>3, <2>2 DEF Finishes, IInv, RowsOK
  <2> QED BY <1>3, <2>2, <2>3 DEF DoneIsSafe, Finishes
<1>4. IInv /\ DoneIsSafe /\ [Next]_vars =>
        [\A k \in Connected, w \in Work :
           /\ run[k].work = w /\ run'[k] # run[k]
           /\ work[w].status # "DONE" /\ work'[w].status = "DONE"
           => Orders(w, Pending) = {}]_vars
  BY <1>3
<1> QED BY <1>1, <1>2, <1>4, Invariance, PTL DEF Spec, ConnectedFinishIsConclusive

-----------------------------------------------------------------------------
(* The money columns and the rows they stand for.                          *)

\* The rows in one of the states of X.
In(X) == {o \in Order : Status(o) \in X}

\* The money columns, and the ceiling that approve() compares them with.
Money ==
    /\ spending \in [reserved : Nat, spent : Nat, stock : Nat]
    /\ BooksBalance
    /\ spending.spent + spending.reserved <= Limit

\* Amounts are natural numbers.
LEMMA AmountNat ==
    ASSUME RowsOK, NEW o \in Order
    PROVE  Amount(o) \in Nat
<1>1. order[o] \in OrderRow
  BY DEF RowsOK
<1>2. order[o].amount \in Cost \cup {0}
  BY <1>1 DEF OrderRow
<1>3. \A c \in Cost \cup {0} : c \in Nat
  BY OrdersAssumption
<1> QED BY <1>2, <1>3 DEF Amount

\* Sets of orders are finite: their totals are natural numbers.
LEMMA TotalNat ==
    ASSUME RowsOK, NEW S \in SUBSET Order
    PROVE  IsFiniteSet(S) /\ Total(S) \in Nat
<1>1. IsFiniteSet(S)
  BY OrdersAssumption, FS_Subset
<1> DEFINE f == [o \in Order |-> Amount(o)]
<1>2. \A o \in S : f[o] \in Nat
  BY AmountNat
<1>3. Total(S) = SumFunctionOnSet(f, S)
  BY DEF Total
<1> HIDE DEF f
<1> QED BY <1>1, <1>2, <1>3, SumNat

\* Taking rows out of a total.
LEMMA TotalWithout ==
    ASSUME RowsOK, NEW S \in SUBSET Order, NEW R \in SUBSET S
    PROVE  Total(S) = Total(R) + Total(S \ R)
<1>1. IsFiniteSet(S)
  BY TotalNat
<1> DEFINE f == [o \in Order |-> Amount(o)]
<1>2. \A o \in S : f[o] \in Int
  BY AmountNat
<1>3. \A T : Total(T) = SumFunctionOnSet(f, T)
  BY DEF Total
<1> HIDE DEF f
<1> QED BY <1>1, <1>2, <1>3, SumParts

\* The total of one row.
LEMMA TotalOne ==
    ASSUME RowsOK, NEW q \in Order
    PROVE  Total({q}) = Amount(q)
<1> DEFINE f == [o \in Order |-> Amount(o)]
<1>1. f[q] = Amount(q) /\ f[q] \in Int
  BY AmountNat
<1>2. Total({q}) = SumFunctionOnSet(f, {q})
  BY DEF Total
<1> HIDE DEF f
<1> QED BY <1>1, <1>2, SumOne

\* A step that leaves the amounts of some rows leaves their total.
LEMMA TotalStays ==
    ASSUME RowsOK, NEW S \in SUBSET Order, \A o \in S : order'[o].amount = order[o].amount
    PROVE  SumFunctionOnSet([o \in Order |-> order'[o].amount], S) = Total(S)
<1>1. IsFiniteSet(S)
  BY TotalNat
<1> DEFINE f == [o \in Order |-> Amount(o)]
           g == [o \in Order |-> order'[o].amount]
<1>2. \A o \in S : f[o] \in Int /\ g[o] = f[o]
  BY AmountNat DEF Amount
<1>3. Total(S) = SumFunctionOnSet(f, S)
  BY DEF Total
<1> HIDE DEF f, g
<1>4. SumFunctionOnSet(g, S) = SumFunctionOnSet(f, S)
  BY <1>1, <1>2, SumSame
<1> QED BY <1>3, <1>4 DEF g

\* Rows that leave the states of X take their amounts out of the total.
LEMMA TotalLess ==
    ASSUME RowsOK, NEW X, NEW R \in SUBSET In(X), In(X)' = In(X) \ R,
           \A o \in In(X) \ R : order'[o].amount = order[o].amount
    PROVE  Total(In(X))' = Total(In(X)) - Total(R)
<1> DEFINE S == In(X) \ R
<1>1. /\ S \in SUBSET Order /\ R \in SUBSET Order /\ In(X) \in SUBSET Order
      /\ R \in SUBSET In(X)
  BY DEF In
<1>2. SumFunctionOnSet([o \in Order |-> order'[o].amount], S) = Total(S)
  <2>1. \A o \in S : order'[o].amount = order[o].amount
    OBVIOUS
  <2> HIDE DEF S
  <2> QED BY <1>1, <2>1, TotalStays
<1>3. Total(In(X)) = Total(R) + Total(S)
  BY <1>1, TotalWithout
<1>4. Total(R) \in Nat /\ Total(S) \in Nat
  BY <1>1, TotalNat
<1>5. Total(In(X))' = SumFunctionOnSet([o \in Order |-> order'[o].amount], S)
  BY DEF Total, Amount
<1> QED BY <1>2, <1>3, <1>4, <1>5

\* A row that enters them adds its amount.
LEMMA TotalMore ==
    ASSUME RowsOK, NEW X, NEW q \in Order \ In(X), In(X)' = In(X) \cup {q},
           \A o \in In(X) \cup {q} : order'[o].amount = order[o].amount
    PROVE  Total(In(X))' = Total(In(X)) + Amount(q)
<1> DEFINE S == In(X) \cup {q}
<1>1. S \in SUBSET Order /\ {q} \in SUBSET S /\ S \ {q} = In(X) /\ In(X) \in SUBSET Order
  BY DEF In
<1>2. SumFunctionOnSet([o \in Order |-> order'[o].amount], S) = Total(S)
  <2>1. \A o \in S : order'[o].amount = order[o].amount
    OBVIOUS
  <2> HIDE DEF S
  <2> QED BY <1>1, <2>1, TotalStays
<1>3. Total(S) = Total({q}) + Total(In(X))
  <2> HIDE DEF S
  <2> QED BY <1>1, TotalWithout
<1>4. Total({q}) = Amount(q) /\ Amount(q) \in Nat /\ Total(In(X)) \in Nat
  BY <1>1, TotalOne, AmountNat, TotalNat
<1>5. Total(In(X))' = SumFunctionOnSet([o \in Order |-> order'[o].amount], S)
  BY DEF Total, Amount
<1> QED BY <1>2, <1>3, <1>4, <1>5

\* The rows that a step may change the amount of: none but a new draft.
LEMMA AmountsStay ==
    ASSUME RowsOK, Passes, [Next]_vars, NEW o \in Order, order[o].status # "NONE"
    PROVE  order'[o].amount = order[o].amount
<1>1. order[o] \in OrderRow /\ order \in [Order -> OrderRow]
  BY DEF RowsOK
<1>2. ASSUME NEW S PROVE Withdrawn(S)[o].amount = order[o].amount
  <2>1. CASE o \in S
    BY <1>1, <2>1 DEF Withdrawn, OrderRow
  <2>2. CASE o \notin S
    BY <1>1, <2>2 DEF Withdrawn
  <2> QED BY <2>1, <2>2
<1>3. ASSUME NEW q \in Order, NEW s, NEW c,
             order' = [order EXCEPT ![q] = [order[q] EXCEPT !.status = s, !.current = c]]
      PROVE  order'[o].amount = order[o].amount
  BY <1>1, <1>3 DEF OrderRow
<1>4. ASSUME NEW q \in Order, NEW s, order' = [order EXCEPT ![q].status = s]
      PROVE  order'[o].amount = order[o].amount
  BY <1>1, <1>4 DEF OrderRow
<1>5. ASSUME NEW q \in Order, Settle(q) PROVE order'[o].amount = order[o].amount
  BY <1>3, <1>5 DEF Settle
<1>6. ASSUME NEW q \in Order, Approved(q) PROVE order'[o].amount = order[o].amount
  BY <1>3, <1>6 DEF Approved
<1>7. ASSUME NEW q \in Order, Writes(q)
      PROVE  order'[o].amount = order[o].amount
  <2>1. ASSUME NEW k \in Worker, NEW s \in Product, NEW c \in Cost, Propose(k, q, s, c)
        PROVE  order'[o].amount = order[o].amount
    <3>1. PICK S, r : order' = [Withdrawn(S) EXCEPT ![q] = r] /\ Status(q) = "NONE"
      BY <2>1 DEF Propose
    <3>2. o # q
      BY <3>1 DEF Status
    <3>3. Withdrawn(S) \in [Order -> OrderRow]
      BY WithdrawnType
    <3>4. order'[o] = Withdrawn(S)[o]
      BY <3>1, <3>2, <3>3
    <3> QED BY <1>2, <3>4
  <2>2. CASE \E k \in Worker : AutoApprove(k, q)
    BY <1>6, <2>2 DEF AutoApprove
  <2>3. CASE \E k \in Worker : Admit(k) /\ run[k].order = q
    BY <1>4, <2>3 DEF Admit
  <2>4. CASE \E k \in Worker : Record(k) /\ run[k].order = q
    BY <1>5, <2>4 DEF Record
  <2>5. CASE \E k \in Worker : Doubt(k) /\ run[k].order = q
    <3>1. PICK s : order' = [order EXCEPT ![q].status = s]
      BY <2>5 DEF Doubt
    <3> QED BY <1>4, <3>1
  <2>6. CASE Approve(q)
    BY <1>6, <2>6 DEF Approve
  <2>7. CASE Revoke(q)
    BY <1>2, <2>7 DEF Revoke
  <2>8. CASE Resolve(q)
    BY <1>5, <2>8 DEF Resolve
  <2>9. CASE Receive(q)
    BY <1>4, <2>9 DEF Receive
  <2>10. CASE ApprovalLapses(q)
    BY <1>1, <2>10 DEF ApprovalLapses, OrderRow
  <2> QED BY <1>7, <2>1, <2>2, <2>3, <2>4, <2>5, <2>6, <2>7, <2>8, <2>9, <2>10 DEF Writes
<1>8. CASE \E w \in Work : Cancel(w)
  BY <1>2, <1>8 DEF Cancel
<1>9. CASE UNCHANGED order
  BY <1>9
<1> QED BY <1>7, <1>8, <1>9, Writers

-----------------------------------------------------------------------------
(* What one step may do to the books.                                      *)

\* Withdrawing S releases the approved orders of S.
Withdraws(S) ==
    /\ \A o \in Order :
          /\ order'[o].status # order[o].status =>
                \/ order[o].status = "NONE" /\ order'[o].status = "DRAFT"
                \/ o \in S /\ order[o].status \in {"DRAFT", "APPROVED"}
                           /\ order'[o].status = "REVOKED"
          /\ o \in S /\ order[o].status = "APPROVED" => order'[o].status = "REVOKED"
    /\ spending' = Release(S)

Only(q) == \A o \in Order \ {q} : order'[o].status = order[o].status

Grants(q) ==
    /\ Only(q) /\ Approvable(q)
    /\ order'[q].status = IF order[q].status \in Uncertain THEN order[q].status
                          ELSE "APPROVED"
    /\ spending' = [spending EXCEPT !.reserved = @ + Addition(q)]

Settles(q) ==
    /\ Only(q) /\ order[q].status \in Uncertain
    /\ order'[q].status = Outcome(q)
    /\ spending' = [spending EXCEPT
                       !.reserved = @ - Amount(q),
                       !.spent = @ + (IF Outcome(q) = "CONFIRMED" THEN Amount(q) ELSE 0)]

Delivers(q) ==
    /\ Only(q) /\ order[q].status = "CONFIRMED" /\ order'[q].status = "DELIVERED"
    /\ spending' = [spending EXCEPT !.stock = @ + Amount(q)]

\* The status moves within Held, or not at all, and no money moves.
Idles ==
    /\ \A o \in Order : \/ order'[o].status = order[o].status
                        \/ order[o].status \in Held /\ order'[o].status \in Uncertain
    /\ UNCHANGED spending

\* A money column moves with the rows it sums, or not at all.
LEMMA MoneyMoves ==
    ASSUME RowsOK, Passes, Answers, [Next]_vars
    PROVE  \/ Idles
           \/ \E S \in SUBSET Order : Withdraws(S)
           \/ \E q \in Order : Grants(q) \/ Settles(q) \/ Delivers(q)
<1>1. order \in [Order -> OrderRow] /\ \A o \in Order : order[o] \in OrderRow
  BY DEF RowsOK
<1>2. ASSUME NEW S \in SUBSET Order, order' = Withdrawn(S), spending' = Release(S)
      PROVE  Withdraws(S)
  <2>1. ASSUME NEW o \in Order
        PROVE  /\ order'[o].status # order[o].status =>
                     o \in S /\ order[o].status \in {"DRAFT", "APPROVED"}
                             /\ order'[o].status = "REVOKED"
               /\ o \in S /\ order[o].status = "APPROVED" => order'[o].status = "REVOKED"
    <3>1. CASE o \in S
      BY <1>2, <3>1, WithdrawnMoves
    <3>2. CASE o \notin S
      BY <1>2, <3>2 DEF Withdrawn
    <3> QED BY <3>1, <3>2
  <2> QED BY <1>2, <2>1 DEF Withdraws
<1>3. ASSUME NEW q \in Order, Settle(q), Status(q) \in Uncertain
      PROVE  Settles(q)
  <2>1. order' = [order EXCEPT ![q] = [order[q] EXCEPT !.status = Outcome(q),
                                                        !.current = FALSE]]
    BY <1>3 DEF Settle, Outcome
  <2>2. Only(q) /\ order'[q].status = Outcome(q)
    BY <1>1, <2>1 DEF Only, OrderRow
  <2>3. spending' = [spending EXCEPT
                       !.reserved = @ - Amount(q),
                       !.spent = @ + (IF Outcome(q) = "CONFIRMED" THEN Amount(q) ELSE 0)]
    BY <1>3 DEF Settle, Outcome
  <2> QED BY <1>3, <2>2, <2>3 DEF Settles, Status
<1>4. ASSUME NEW q \in Order, Approved(q), Approvable(q)
      PROVE  Grants(q)
  <2> DEFINE s == IF order[q].status \in Uncertain THEN order[q].status ELSE "APPROVED"
  <2>1. order' = [order EXCEPT ![q] = [order[q] EXCEPT !.status = s, !.current = TRUE]]
    BY <1>4 DEF Approved, Status
  <2> HIDE DEF s
  <2>2. Only(q) /\ order'[q].status = s
    BY <1>1, <2>1 DEF Only, OrderRow
  <2> QED BY <1>4, <2>2 DEF Grants, Approved, s
<1>5. ASSUME NEW q \in Order, NEW s, order' = [order EXCEPT ![q].status = s]
      PROVE  Only(q) /\ order'[q].status = s
  BY <1>1, <1>5 DEF Only, OrderRow
<1>6. ASSUME UNCHANGED order, UNCHANGED spending
      PROVE  Idles
  BY <1>6 DEF Idles
<1>7. ASSUME NEW k \in Worker, NEW q \in Order, NEW s \in Product, NEW c \in Cost,
             Propose(k, q, s, c)
      PROVE  \E S \in SUBSET Order : Withdraws(S)
  <2> DEFINE S == {p \in {x \in Rows(run[k].work) : order[x].sku = s} :
                      Status(p) \in {"DRAFT", "APPROVED"}}
             r == [NoRow EXCEPT !.status = "DRAFT", !.work = run[k].work,
                                !.sku = s, !.amount = c]
  <2>1. order' = [Withdrawn(S) EXCEPT ![q] = r] /\ Status(q) = "NONE" /\ spending' = Release(S)
    BY <1>7 DEF Propose
  <2>2. S \in SUBSET Order /\ q \notin S
    BY <2>1 DEF Rows
  <2>3. r.status = "DRAFT"
    BY DEF NoRow
  <2>4. Withdrawn(S) \in [Order -> OrderRow]
    BY WithdrawnType
  <2> HIDE DEF S, r
  <2>5. ASSUME NEW o \in Order
        PROVE  /\ order'[o].status # order[o].status =>
                     \/ order[o].status = "NONE" /\ order'[o].status = "DRAFT"
                     \/ o \in S /\ order[o].status \in {"DRAFT", "APPROVED"}
                                /\ order'[o].status = "REVOKED"
               /\ o \in S /\ order[o].status = "APPROVED" => order'[o].status = "REVOKED"
    <3>1. CASE o = q
      BY <2>1, <2>2, <2>3, <2>4, <3>1 DEF Status
    <3>2. CASE o # q
      <4>1. order'[o] = Withdrawn(S)[o]
        BY <2>1, <2>4, <3>2
      <4>2. CASE o \in S
        BY <4>1, <4>2, WithdrawnMoves
      <4>3. CASE o \notin S
        BY <4>1, <4>3 DEF Withdrawn
      <4> QED BY <4>2, <4>3
    <3> QED BY <3>1, <3>2
  <2> QED BY <2>1, <2>2, <2>5 DEF Withdraws
<1>8. ASSUME NEW k \in Worker, \/ \E w \in Work : ClaimTurn(k, w) \/ ClaimRecovery(k, w)
                               \/ Begin(k) \/ CompleteTurn(k) \/ FailTurn(k)
      PROVE  UNCHANGED order /\ UNCHANGED spending
  BY <1>8 DEF ClaimTurn, ClaimRecovery, Begin, CompleteTurn, FailTurn, db
<1>9. ASSUME NEW k \in Worker, \/ \E o \in Order : Read(k, o)
                               \/ LookupFinds(k) \/ LookupFindsNothing(k) \/ LookupFails(k)
                               \/ Send(k) \/ Answered(k) \/ SendFails(k)
                               \/ StopEarly(k) \/ FinishVisits(k) \/ Finish(k)
      PROVE  UNCHANGED order /\ UNCHANGED spending
  BY <1>9 DEF Read, LookupFinds, LookupFindsNothing, LookupFails, Send, Answered, SendFails,
              StopEarly, FinishVisits, Survey, Finish, db
<1>10. ASSUME NEW k \in Worker, NEW o \in Order, AutoApprove(k, o)
       PROVE  Grants(o) \/ (UNCHANGED order /\ UNCHANGED spending)
  BY <1>4, <1>10 DEF AutoApprove
<1>11. ASSUME NEW k \in Worker, Admit(k)
       PROVE  Idles
  <2>1. run[k].order \in Order
    BY <1>11 DEF Passes, InPass, InHand, Admit, At
  <2>2. CASE MaySend(k, run[k].order)
    <3>1. order' = [order EXCEPT ![run[k].order].status = "SENDING"] /\ UNCHANGED spending
      BY <1>11, <2>2 DEF Admit
    <3> QED BY <1>5, <2>1, <2>2, <3>1 DEF Idles, Only, MaySend, Status, Uncertain
  <2>3. CASE ~MaySend(k, run[k].order)
    <3>1. UNCHANGED order /\ UNCHANGED spending
      BY <1>11, <2>3 DEF Admit
    <3> QED BY <1>6, <3>1
  <2> QED BY <2>2, <2>3
<1>12. ASSUME NEW k \in Worker, Record(k)
       PROVE  (\E q \in Order : Settles(q)) \/ (UNCHANGED order /\ UNCHANGED spending)
  <2>1. run[k].order \in Order
    BY <1>12 DEF Passes, InPass, InHand, Record, At
  <2> QED BY <1>3, <1>12, <2>1 DEF Record
<1>13. ASSUME NEW k \in Worker, Doubt(k)
       PROVE  Idles
  <2> DEFINE q == run[k].order
             s == IF AssertCurrent(k) /\ order[q].status = "SENDING"
                  THEN "UNKNOWN" ELSE order[q].status
  <2>1. q \in Order
    BY <1>13 DEF Passes, InPass, InHand, Doubt, At
  <2>2. order' = [order EXCEPT ![q].status = s] /\ UNCHANGED spending
    BY <1>13 DEF Doubt
  <2>3. s = order[q].status \/ (order[q].status \in Held /\ s \in Uncertain)
    BY DEF Held, Uncertain
  <2> HIDE DEF s, q
  <2> QED BY <1>5, <2>1, <2>2, <2>3 DEF Idles, Only
<1>14. ASSUME NEW q \in Order, Approve(q) PROVE Grants(q)
  BY <1>4, <1>14 DEF Approve
<1>15. ASSUME NEW q \in Order, Revoke(q) PROVE Withdraws({q})
  BY <1>2, <1>15 DEF Revoke
<1>16. ASSUME NEW q \in Order, Resolve(q) PROVE Settles(q)
  BY <1>3, <1>16 DEF Resolve
<1>17. ASSUME NEW q \in Order, Receive(q) PROVE Delivers(q)
  <2>1. order' = [order EXCEPT ![q].status = "DELIVERED"]
    BY <1>17 DEF Receive
  <2> QED BY <1>5, <1>17, <2>1 DEF Receive, Delivers, Status
<1>18. ASSUME NEW w \in Work, Cancel(w) PROVE Withdraws(Rows(w))
  BY <1>2, <1>18 DEF Cancel, Rows
<1>19. CASE \E o \in Order : Wake(o)
  BY <1>6, <1>19 DEF Wake
<1>20. CASE (\E w \in Work : Retry(w)) \/ Pause
  BY <1>6, <1>20 DEF Retry, Pause
<1>21. CASE Environment
  <2>1. ASSUME NEW o \in Order, ApprovalLapses(o) PROVE Idles
    BY <1>1, <2>1 DEF ApprovalLapses, Idles, OrderRow
  <2>2. CASE UNCHANGED order /\ UNCHANGED spending
    BY <1>6, <2>2
  <2> QED BY <1>21, <2>1, <2>2 DEF Environment, Lapse, Crash, LoseRequest, CloseOperation,
                                   Arrive, db
<1>22. CASE UNCHANGED vars
  BY <1>6, <1>22 DEF vars
<1>23. ASSUME NEW k \in Worker, Turn(k) \/ Visit(k)
       PROVE  \/ Idles
              \/ \E S \in SUBSET Order : Withdraws(S)
              \/ \E q \in Order : Grants(q) \/ Settles(q)
  <2>1. CASE Turn(k)
    BY <1>6, <1>7, <1>8, <2>1 DEF Turn
  <2>2. CASE Visit(k)
    BY <1>6, <1>9, <1>10, <1>11, <1>12, <1>13, <2>2 DEF Visit
  <2> QED BY <1>23, <2>1, <2>2
<1>24. CASE Operator
  <2>1. \A w \in Work : Rows(w) \in SUBSET Order
    BY DEF Rows
  <2>2. \A q \in Order : {q} \in SUBSET Order
    OBVIOUS
  <2> QED BY <1>14, <1>15, <1>16, <1>17, <1>18, <1>19, <1>20, <1>24, <2>1, <2>2 DEF Operator
<1> QED BY <1>6, <1>8, <1>21, <1>22, <1>23, <1>24 DEF Next

\* The columns are the totals, so they are natural numbers.
LEMMA ColumnsAreTotals ==
    ASSUME RowsOK, BooksBalance
    PROVE  /\ spending.reserved = Total(In(Held)) /\ spending.reserved \in Nat
           /\ spending.spent = Total(In(Bought)) /\ spending.spent \in Nat
           /\ spending.stock = Total(In({"DELIVERED"})) /\ spending.stock \in Nat
<1>1. /\ In(Held) \in SUBSET Order /\ In(Bought) \in SUBSET Order
      /\ In({"DELIVERED"}) \in SUBSET Order
  BY DEF In
<1>2. In({"DELIVERED"}) = {o \in Order : Status(o) = "DELIVERED"}
  BY DEF In
<1> QED BY <1>1, <1>2, TotalNat DEF BooksBalance, In

\* What has to be shown of the columns after a step.
LEMMA ColumnsSuffice ==
    ASSUME RowsOK', spending' \in [reserved : Int, spent : Int, stock : Int],
           spending'.reserved = Total(In(Held))', spending'.spent = Total(In(Bought))',
           spending'.stock = Total(In({"DELIVERED"}))',
           spending'.spent + spending'.reserved <= Limit
    PROVE  Money'
<1>1. BooksBalance'
  BY DEF BooksBalance, In
<1>2. \A X : Total(In(X))' \in Nat
  <2> SUFFICES ASSUME NEW X PROVE Total(In(X))' \in Nat
    OBVIOUS
  <2> DEFINE S == In(X)'
             g == [o \in Order |-> order'[o].amount]
  <2>1. IsFiniteSet(S)
    BY OrdersAssumption, FS_Subset DEF In
  <2>2. \A o \in S : g[o] \in Nat
    <3>1. \A c \in Cost \cup {0} : c \in Nat
      BY OrdersAssumption
    <3>2. \A o \in Order : order'[o].amount \in Cost \cup {0}
      BY DEF RowsOK, OrderRow
    <3> QED BY <3>1, <3>2 DEF In
  <2>3. Total(In(X))' = SumFunctionOnSet(g, S)
    BY DEF Total, Amount
  <2> HIDE DEF S, g
  <2> QED BY <2>1, <2>2, <2>3, SumNat
<1>3. /\ spending'.reserved \in Nat /\ spending'.spent \in Nat /\ spending'.stock \in Nat
  BY <1>2
<1>4. spending' \in [reserved : Nat, spent : Nat, stock : Nat]
  BY <1>3
<1> QED BY <1>1, <1>4 DEF Money

\* Rows whose membership in X does not change keep their total.
LEMMA TotalSameRows ==
    ASSUME RowsOK, NEW X, In(X)' = In(X),
           \A o \in In(X) : order'[o].amount = order[o].amount
    PROVE  Total(In(X))' = Total(In(X))
<1> DEFINE S == In(X)
<1>1. S \in SUBSET Order
  BY DEF In
<1>2. SumFunctionOnSet([o \in Order |-> order'[o].amount], S) = Total(S)
  <2>1. \A o \in S : order'[o].amount = order[o].amount
    OBVIOUS
  <2> HIDE DEF S
  <2> QED BY <1>1, <2>1, TotalStays
<1>3. Total(In(X))' = SumFunctionOnSet([o \in Order |-> order'[o].amount], S)
  BY DEF Total, Amount
<1> QED BY <1>2, <1>3

\* Every step keeps the books balanced, and within the ceiling.
LEMMA MoneyKept == IInv /\ Money /\ [Next]_vars => Money'
<1> SUFFICES ASSUME IInv, Money, [Next]_vars PROVE Money'
  OBVIOUS
<1>1. RowsOK /\ Passes /\ Answers /\ RowsOK'
  BY Types DEF IInv
<1>2. \A o \in Order : order[o].status # "NONE" => order'[o].amount = order[o].amount
  BY <1>1, AmountsStay
<1> DEFINE D == {"DELIVERED"}
<1>3. /\ spending.reserved = Total(In(Held)) /\ spending.reserved \in Nat
      /\ spending.spent = Total(In(Bought)) /\ spending.spent \in Nat
      /\ spending.stock = Total(In(D)) /\ spending.stock \in Nat
      /\ spending.spent + spending.reserved <= Limit
      /\ spending \in [reserved : Nat, spent : Nat, stock : Nat]
  BY <1>1, ColumnsAreTotals DEF Money
<1>4. /\ \A o \in In(Held) : order'[o].amount = order[o].amount
      /\ \A o \in In(Bought) : order'[o].amount = order[o].amount
      /\ \A o \in In(D) : order'[o].amount = order[o].amount
  BY <1>2 DEF In, Status, Held, Uncertain, Bought
<1>5. In(Held) \in SUBSET Order /\ Limit \in Nat
  BY OrdersAssumption DEF In
<1> HIDE DEF D
<1>6. CASE Idles
  <2>1. In(Held)' = In(Held) /\ In(Bought)' = In(Bought) /\ In(D)' = In(D)
    BY <1>6 DEF Idles, In, Status, Held, Uncertain, Bought, D
  <2>2. /\ Total(In(Held))' = Total(In(Held)) /\ Total(In(Bought))' = Total(In(Bought))
        /\ Total(In(D))' = Total(In(D))
    BY <1>1, <1>4, <2>1, TotalSameRows
  <2> QED BY <1>1, <1>3, <1>6, <2>2, ColumnsSuffice DEF Idles, D
<1>7. ASSUME NEW S \in SUBSET Order, Withdraws(S)
      PROVE  Money'
  <2> DEFINE R == {o \in S : Status(o) = "APPROVED"}
  <2>1. R \in SUBSET In(Held) /\ R \in SUBSET Order
    BY DEF In, Held
  <2>2. In(Held)' = In(Held) \ R
    BY <1>7 DEF Withdraws, In, Status, Held, Uncertain
  <2>3. In(Bought)' = In(Bought) /\ In(D)' = In(D)
    BY <1>7 DEF Withdraws, In, Status, Bought, D
  <2>4. spending' = [spending EXCEPT !.reserved = @ - Total(R)]
    BY <1>7 DEF Withdraws, Release
  <2> HIDE DEF R
  <2>5. Total(In(Held))' = Total(In(Held)) - Total(R)
    BY <1>1, <1>4, <2>1, <2>2, TotalLess
  <2>6. Total(In(Bought))' = Total(In(Bought)) /\ Total(In(D))' = Total(In(D))
    BY <1>1, <1>4, <2>3, TotalSameRows
  <2>7. Total(R) \in Nat
    BY <1>1, <2>1, TotalNat
  <2>8. /\ spending' \in [reserved : Int, spent : Int, stock : Int]
        /\ spending'.reserved = spending.reserved - Total(R)
        /\ spending'.spent = spending.spent /\ spending'.stock = spending.stock
    BY <1>3, <2>4, <2>7
  <2> QED BY <1>1, <1>3, <1>5, <2>5, <2>6, <2>7, <2>8, ColumnsSuffice DEF D
<1>8. ASSUME NEW q \in Order, Grants(q)
      PROVE  Money'
  <2>1. In(Bought)' = In(Bought) /\ In(D)' = In(D)
    BY <1>8 DEF Grants, Only, Approvable, In, Status, Bought, Pending, Held, Uncertain, D
  <2>2. Total(In(Bought))' = Total(In(Bought)) /\ Total(In(D))' = Total(In(D))
    BY <1>1, <1>4, <2>1, TotalSameRows
  <2>3. Addition(q) \in Nat /\ Total(In(Held))' = Total(In(Held)) + Addition(q)
    <3>1. CASE order[q].status = "DRAFT"
      <4>1. In(Held)' = In(Held) \cup {q} /\ q \in Order \ In(Held)
        BY <1>8, <3>1 DEF Grants, Only, In, Status, Held, Uncertain
      <4>2. Addition(q) = Amount(q) /\ Amount(q) \in Nat
        BY <1>1, <3>1, AmountNat DEF Addition, Status
      <4>3. \A o \in In(Held) \cup {q} : order'[o].amount = order[o].amount
        BY <1>2, <1>4, <3>1
      <4> QED BY <1>1, <4>1, <4>2, <4>3, TotalMore
    <3>2. CASE order[q].status # "DRAFT"
      <4>1. In(Held)' = In(Held)
        BY <1>8, <3>2 DEF Grants, Only, Approvable, In, Status, Pending, Held, Uncertain
      <4>2. Addition(q) = 0
        BY <3>2 DEF Addition, Status
      <4>3. Total(In(Held))' = Total(In(Held))
        BY <1>1, <1>4, <4>1, TotalSameRows
      <4> QED BY <1>3, <4>2, <4>3
    <3> QED BY <3>1, <3>2
  <2>4. spending.spent + spending.reserved + Addition(q) <= Limit
    BY <1>8 DEF Grants, Approvable
  <2>5. /\ spending' \in [reserved : Int, spent : Int, stock : Int]
        /\ spending'.reserved = spending.reserved + Addition(q)
        /\ spending'.spent = spending.spent /\ spending'.stock = spending.stock
    BY <1>3, <1>8, <2>3 DEF Grants
  <2>6. spending'.spent + spending'.reserved <= Limit
    BY <1>3, <1>5, <2>3, <2>4, <2>5
  <2> QED BY <1>1, <1>3, <2>2, <2>3, <2>5, <2>6, ColumnsSuffice DEF D
<1>9. ASSUME NEW q \in Order, Settles(q)
      PROVE  Money'
  <2>1. In(Held)' = In(Held) \ {q} /\ {q} \in SUBSET In(Held)
    BY <1>9 DEF Settles, Only, In, Status, Held, Uncertain, Outcome
  <2>2. In(D)' = In(D)
    BY <1>9 DEF Settles, Only, In, Status, Uncertain, Outcome, D
  <2>3. Total(In(Held))' = Total(In(Held)) - Amount(q) /\ Amount(q) \in Nat
    <3>1. Total({q}) = Amount(q) /\ Amount(q) \in Nat
      BY <1>1, TotalOne, AmountNat
    <3>2. Total(In(Held))' = Total(In(Held)) - Total({q})
      BY <1>1, <1>4, <2>1, TotalLess
    <3> QED BY <3>1, <3>2
  <2>4. Total(In(D))' = Total(In(D))
    BY <1>1, <1>4, <2>2, TotalSameRows
  <2> DEFINE gain == IF Outcome(q) = "CONFIRMED" THEN Amount(q) ELSE 0
  <2>5. gain \in Nat /\ gain <= Amount(q) /\ Total(In(Bought))' = Total(In(Bought)) + gain
    <3>1. CASE Outcome(q) = "CONFIRMED"
      <4>1. In(Bought)' = In(Bought) \cup {q} /\ q \in Order \ In(Bought)
        BY <1>9, <3>1 DEF Settles, Only, In, Status, Uncertain, Bought
      <4>2. \A o \in In(Bought) \cup {q} : order'[o].amount = order[o].amount
        BY <1>2, <1>4, <1>9 DEF Settles, Uncertain
      <4>3. Total(In(Bought))' = Total(In(Bought)) + Amount(q)
        BY <1>1, <4>1, <4>2, TotalMore
      <4> QED BY <2>3, <3>1, <4>3
    <3>2. CASE Outcome(q) # "CONFIRMED"
      <4>1. In(Bought)' = In(Bought)
        BY <1>9, <3>2 DEF Settles, Only, In, Status, Uncertain, Bought, Outcome
      <4>2. Total(In(Bought))' = Total(In(Bought))
        BY <1>1, <1>4, <4>1, TotalSameRows
      <4> QED BY <1>3, <2>3, <3>2, <4>2
    <3> QED BY <3>1, <3>2
  <2>6. spending' = [spending EXCEPT !.reserved = @ - Amount(q), !.spent = @ + gain]
    BY <1>9 DEF Settles
  <2> HIDE DEF gain
  <2> DEFINE less == spending.reserved - Amount(q)
             more == spending.spent + gain
  <2>7. less \in Int /\ more \in Int
    BY <1>3, <2>3, <2>5
  <2>8. spending' = [spending EXCEPT !.reserved = less, !.spent = more]
    BY <2>6
  <2>9. less = spending.reserved - Amount(q) /\ more = spending.spent + gain
    OBVIOUS
  <2> HIDE DEF less, more
  <2>10. spending \in [reserved : Nat, spent : Nat, stock : Nat]
    BY <1>3
  <2>11. /\ spending' \in [reserved : Int, spent : Int, stock : Int]
         /\ spending'.reserved = less /\ spending'.spent = more
         /\ spending'.stock = spending.stock
    <3>1. spending' = [reserved |-> less, spent |-> more, stock |-> spending.stock]
      BY <2>8, <2>10
    <3> QED BY <2>7, <2>10, <3>1
  <2>12. /\ spending' \in [reserved : Int, spent : Int, stock : Int]
        /\ spending'.reserved = spending.reserved - Amount(q)
        /\ spending'.spent = spending.spent + gain /\ spending'.stock = spending.stock
    BY <2>9, <2>11
  <2>13. spending'.spent + spending'.reserved <= Limit
    BY <1>3, <1>5, <2>3, <2>5, <2>12
  <2> QED BY <1>1, <1>3, <2>3, <2>4, <2>5, <2>12, <2>13, ColumnsSuffice DEF D
<1>10. ASSUME NEW q \in Order, Delivers(q)
       PROVE  Money'
  <2>1. In(Held)' = In(Held) /\ In(Bought)' = In(Bought)
    BY <1>10 DEF Delivers, Only, In, Status, Held, Uncertain, Bought
  <2>2. In(D)' = In(D) \cup {q} /\ q \in Order \ In(D)
    BY <1>10 DEF Delivers, Only, In, Status, D
  <2>3. Total(In(Held))' = Total(In(Held)) /\ Total(In(Bought))' = Total(In(Bought))
    BY <1>1, <1>4, <2>1, TotalSameRows
  <2>4. \A o \in In(D) \cup {q} : order'[o].amount = order[o].amount
    BY <1>2, <1>4, <1>10 DEF Delivers
  <2>5. Total(In(D))' = Total(In(D)) + Amount(q)
    BY <1>1, <2>2, <2>4, TotalMore
  <2>6. Amount(q) \in Nat
    BY <1>1, AmountNat
  <2>7. /\ spending' \in [reserved : Int, spent : Int, stock : Int]
        /\ spending'.reserved = spending.reserved /\ spending'.spent = spending.spent
        /\ spending'.stock = spending.stock + Amount(q)
    BY <1>3, <1>10, <2>6 DEF Delivers
  <2> QED BY <1>1, <1>3, <2>3, <2>5, <2>7, ColumnsSuffice DEF D
<1> QED BY <1>1, <1>6, <1>7, <1>8, <1>9, <1>10, MoneyMoves

\* At the beginning nothing is held, bought or delivered.
LEMMA MoneyInitially == Init => Money
<1> SUFFICES ASSUME Init PROVE Money
  OBVIOUS
<1>1. \A o \in Order : order[o].status = "NONE"
  BY DEF Init, NoRow
<1>2. /\ {o \in Order : Status(o) \in Held} = {}
      /\ {o \in Order : Status(o) \in Bought} = {}
      /\ {o \in Order : Status(o) = "DELIVERED"} = {}
  BY <1>1 DEF Status, Held, Uncertain, Bought
<1>3. Total({}) = 0
  BY SumEmpty DEF Total
<1>4. spending = [reserved |-> 0, spent |-> 0, stock |-> 0]
  BY DEF Init
<1>5. BooksBalance
  BY <1>2, <1>3, <1>4 DEF BooksBalance
<1>6. Limit \in Nat
  BY OrdersAssumption
<1> QED BY <1>4, <1>5, <1>6 DEF Money

-----------------------------------------------------------------------------

\* The money columns are the sums of the rows they stand for, and approvals
\* never reserve beyond the ceiling.
THEOREM MoneyInvariance == Spec => []Money
BY Initially, MoneyInitially, Kept, MoneyKept, PTL DEF Spec

\* Every variable holds what its column or field may hold.
THEOREM TypeCorrect == Spec => []TypeOK
<1>1. IInv /\ Money => TypeOK
  BY DEF IInv, Money, TypeOK
<1> QED BY <1>1, Invariance, MoneyInvariance, PTL

\* No history of approvals, supersessions, cancellations and receipts makes the
\* columns differ from the rows.
THEOREM BooksAreBalanced == Spec => []BooksBalance
<1>1. Money => BooksBalance
  BY DEF Money
<1> QED BY <1>1, MoneyInvariance, PTL

\* What the supplier has sold comes to no more than the ceiling: a sale is of an
\* order that is held or spent here, each at most once.
THEOREM SalesStayWithinTheCeiling == Spec => []SalesFitTheCeiling
<1> DEFINE sales == [o \in Order |-> purchases[o] * Amount(o)]
           f == [o \in Order |-> Amount(o)]
<1>1. ASSUME IInv, Money, SaleIsFunded, BoughtOnce
      PROVE  SalesFitTheCeiling
  <2>1. RowsOK
    BY <1>1 DEF IInv
  <2> DEFINE H == In(Held)
             B == In(Bought)
             A == H \cup B
  <2>2. A \in SUBSET Order /\ H \in SUBSET A /\ A \ H = B
    BY DEF In, Held, Bought, Uncertain
  <2>3. IsFiniteSet(Order) /\ IsFiniteSet(A) /\ Limit \in Nat
    BY <2>1, <2>2, TotalNat, OrdersAssumption
  <2>4. \A o \in Order : f[o] \in Nat /\ sales[o] \in Nat
    BY <2>1, AmountNat DEF RowsOK
  <2>5. \A o \in Order \ A : sales[o] = 0
    BY <1>1, <2>1, AmountNat DEF SaleIsFunded, In, Held, RowsOK
  <2>6. \A o \in A : sales[o] <= f[o]
    BY <1>1, <2>1, <2>2, AmountNat DEF BoughtOnce, RowsOK
  <2>7. Total(A) = Total(H) + Total(B)
    BY <2>1, <2>2, TotalWithout
  <2>8. Total(H) = spending.reserved /\ Total(B) = spending.spent
    BY <1>1, <2>1, ColumnsAreTotals DEF Money
  <2>9. Total(A) = SumFunctionOnSet(f, A)
    BY DEF Total
  <2> HIDE DEF sales, f, A, H, B
  <2>10. /\ SumFunctionOnSet(sales, Order)
               = SumFunctionOnSet(sales, A) + SumFunctionOnSet(sales, Order \ A)
         /\ SumFunctionOnSet(sales, A) \in Int
    BY <2>2, <2>3, <2>4, SumParts, SumInt
  <2>11. SumFunctionOnSet(sales, Order \ A) = 0
    <3>1. IsFiniteSet(Order \ A)
      BY <2>3, FS_Subset
    <3> QED BY <2>5, <3>1, SumZero
  <2>12. SumFunctionOnSet(sales, A) <= SumFunctionOnSet(f, A)
    BY <2>2, <2>3, <2>4, <2>6, SumAtMost
  <2>13. spending.spent + spending.reserved <= Limit
         /\ spending.spent \in Nat /\ spending.reserved \in Nat
    BY <1>1 DEF Money
  <2>14. SumFunctionOnSet(sales, Order) <= Limit
    BY <2>3, <2>7, <2>8, <2>9, <2>10, <2>11, <2>12, <2>13
  <2> QED BY <2>14 DEF SalesFitTheCeiling, sales
<1> QED BY <1>1, Invariance, MoneyInvariance, SalesAreFunded, NothingIsBoughtTwice, PTL

-----------------------------------------------------------------------------
(* The promise: Orders implements Purchase.                                *)

\* The stages and the prices of Purchase, as the rows give them.
Stages == [o \in Order |-> Stage(Status(o))]
Prices == [o \in Order |-> Amount(o)]

\* The supplier concludes when a request arrives or an operation is closed, and
\* neither writes a row.
LEMMA AnswersMove ==
    ASSUME RowsOK, [Next]_vars
    PROVE  \/ UNCHANGED <<ledger, purchases>>
           \/ /\ UNCHANGED order
              /\ \E o \in Order : \/ CloseOperation(o)
                                  \/ \E a \in {"ACCEPTED", "REJECTED"} : Arrive(o, a)
<1>1. CASE UNCHANGED supplier
  BY <1>1 DEF supplier
<1>2. CASE (\E k \in Worker : Send(k)) \/ (\E o \in Order : LoseRequest(o))
  BY <1>2 DEF Send, LoseRequest
<1>3. CASE \E o \in Order : \/ CloseOperation(o)
                            \/ \E a \in {"ACCEPTED", "REJECTED"} : Arrive(o, a)
  BY <1>3 DEF CloseOperation, Arrive, db
<1> QED BY <1>1, <1>2, <1>3, SupplierMoves

\* A supplier's acceptance is a sale.
Sold == \A o \in Order : ledger[o] = "ACCEPTED" => purchases[o] > 0

LEMMA SoldKept == RowsOK /\ Sold /\ [Next]_vars => Sold'
<1> SUFFICES ASSUME RowsOK, Sold, [Next]_vars PROVE Sold'
  OBVIOUS
<1>1. /\ ledger \in [Order -> {"NONE", "ACCEPTED", "REJECTED"}]
      /\ purchases \in [Order -> Nat]
  BY DEF RowsOK
<1>2. CASE UNCHANGED <<ledger, purchases>>
  BY <1>2 DEF Sold
<1>3. ASSUME NEW o \in Order, NEW a \in {"ACCEPTED", "REJECTED"}, Arrive(o, a)
      PROVE  Sold'
  BY <1>1, <1>3 DEF Arrive, Sold
<1>4. ASSUME NEW o \in Order, CloseOperation(o)
      PROVE  Sold'
  BY <1>1, <1>4 DEF CloseOperation, Sold
<1>5. CASE \E o \in Order : \/ CloseOperation(o)
                            \/ \E a \in {"ACCEPTED", "REJECTED"} : Arrive(o, a)
  BY <1>3, <1>4, <1>5
<1> QED BY <1>2, <1>5, AnswersMove

\* The stage of a row, by its status.
LEMMA StageOf ==
    /\ Stage("NONE") = "FREE"
    /\ Stage("DRAFT") = "OFFERED"
    /\ Stage("APPROVED") = "GRANTED"
    /\ \A s \in Uncertain : Stage(s) = "COMMITTED"
    /\ \A s \in Bought : Stage(s) = "BOUGHT"
    /\ \A s \in {"REVOKED", "REJECTED"} : Stage(s) = "CLOSED"
BY DEF Stage, Uncertain, Bought

\* What Purchase calls engaged is what the two columns hold.
LEMMA EngagedMoney ==
    ASSUME RowsOK, Money
    PROVE  Promise!Engaged = spending.spent + spending.reserved
<1> DEFINE A == In(Held) \cup In(Bought)
           f == [o \in Order |-> Amount(o)]
<1>1. Promise!In({"GRANTED", "COMMITTED", "BOUGHT"}) = A
  <2>1. ASSUME NEW o \in Order
        PROVE  Stage(Status(o)) \in {"GRANTED", "COMMITTED", "BOUGHT"}
                 <=> Status(o) \in Held \cup Bought
    <3>1. order[o] \in OrderRow
      BY DEF RowsOK
    <3>2. Status(o) \in {"NONE", "REVOKED"} \cup Pending \cup Settled
      BY <3>1 DEF OrderRow, Status
    <3> QED BY <3>2, StageOf DEF Pending, Settled, Held, Bought, Uncertain
  <2> QED BY <2>1 DEF Promise!In, In
<1>2. Promise!Engaged = SumFunctionOnSet(f, A)
  BY <1>1 DEF Promise!Engaged, Promise!SumFunctionOnSet, SumFunctionOnSet,
              Promise!FoldFunctionOnSet, FoldFunctionOnSet,
              Promise!MapThenFoldSet, MapThenFoldSet
<1>3. Promise!Engaged = Total(A)
  BY <1>2 DEF Total
<1>4. A \in SUBSET Order /\ In(Held) \in SUBSET A /\ A \ In(Held) = In(Bought)
  BY DEF In, Held, Bought, Uncertain
<1> HIDE DEF A, f
<1>5. Total(A) = Total(In(Held)) + Total(In(Bought))
  BY <1>4, TotalWithout
<1>6. Total(In(Held)) = spending.reserved /\ Total(In(Bought)) = spending.spent
  BY ColumnsAreTotals DEF Money
<1>7. spending.reserved \in Nat /\ spending.spent \in Nat
  BY DEF Money
<1> QED BY <1>3, <1>5, <1>6, <1>7

\* A step that writes one row and keeps its amount moves one stage.
LEMMA OneStage ==
    ASSUME RowsOK, NEW q \in Order, NEW r,
           order' = [order EXCEPT ![q] = r], r.amount = order[q].amount
    PROVE  Stages' = [Stages EXCEPT ![q] = Stage(r.status)] /\ Prices' = Prices
<1>1. /\ order'[q] = r
      /\ \A o \in Order : o # q => order'[o] = order[o]
  BY DEF RowsOK
<1>2. Stages' = [o \in Order |-> Stage(order'[o].status)]
  BY DEF Stages, Status, Stage, Uncertain, Bought
<1>3. Stages = [o \in Order |-> Stage(order[o].status)]
  BY DEF Stages, Status
<1>4. Stages' = [Stages EXCEPT ![q] = Stage(r.status)]
  BY <1>1, <1>2, <1>3
<1>5. Prices' = Prices
  BY <1>1 DEF Prices, Amount
<1> QED BY <1>4, <1>5

\* Withdrawing closes what was not sent, and nothing else.
LEMMA WithdrawnStages ==
    ASSUME RowsOK, NEW S \in SUBSET Order, NEW o \in Order
    PROVE  /\ Stage(Withdrawn(S)[o].status)
                = IF o \in S /\ order[o].status \in {"DRAFT", "APPROVED"}
                  THEN "CLOSED" ELSE Stage(order[o].status)
           /\ Withdrawn(S)[o].amount = order[o].amount
<1>1. order[o] \in OrderRow
  BY DEF RowsOK
<1>2. CASE o \in S
  <2>1. /\ Withdrawn(S)[o].status = IF order[o].status \in {"DRAFT", "APPROVED"}
                                    THEN "REVOKED" ELSE order[o].status
        /\ Withdrawn(S)[o].amount = order[o].amount
    BY <1>1, <1>2 DEF Withdrawn, OrderRow
  <2> QED BY <1>2, <2>1, StageOf
<1>3. CASE o \notin S
  BY <1>3 DEF Withdrawn
<1> QED BY <1>2, <1>3

\* What withdrawing rows is to the promise.
LEMMA Withdrawals ==
    ASSUME RowsOK, NEW S \in SUBSET Order, order' = Withdrawn(S),
           UNCHANGED <<ledger, purchases>>
    PROVE  \E R \in SUBSET Order : Promise!Withdraw(R)
<1> DEFINE R == {o \in S : order[o].status \in {"DRAFT", "APPROVED"}}
<1>1. R \in SUBSET Order /\ R \subseteq Promise!In({"OFFERED", "GRANTED"})
  BY StageOf DEF Promise!In, Status
<1>2. Stages' = [o \in Order |-> IF o \in R THEN "CLOSED" ELSE Stage(Status(o))]
  <2>1. Stages' = [o \in Order |-> Stage(order'[o].status)]
    BY DEF Stages, Status, Stage, Uncertain, Bought
  <2>2. \A o \in Order : Stage(order'[o].status)
                            = IF o \in R THEN "CLOSED" ELSE Stage(order[o].status)
    BY WithdrawnStages
  <2> HIDE DEF R
  <2> QED BY <2>1, <2>2 DEF Status
<1>3. Prices' = Prices
  BY WithdrawnStages DEF Prices, Amount
<1> HIDE DEF R
<1>4. Promise!Withdraw(R)
  BY <1>1, <1>2, <1>3 DEF Promise!Withdraw, Promise!Closing, Stages, Prices
<1> QED BY <1>1, <1>4

\* What a proposal is: an offer that closes the ones it replaces.
LEMMA Proposals ==
    ASSUME RowsOK, NEW k \in Worker, NEW q \in Order, NEW s \in Product, NEW c \in Cost,
           Propose(k, q, s, c), UNCHANGED <<ledger, purchases>>
    PROVE  \E R \in SUBSET Order : Promise!Offer(q, c, R)
<1> DEFINE S == {p \in {x \in Rows(run[k].work) : order[x].sku = s} :
                    Status(p) \in {"DRAFT", "APPROVED"}}
           r == [NoRow EXCEPT !.status = "DRAFT", !.work = run[k].work,
                              !.sku = s, !.amount = c]
<1>1. order' = [Withdrawn(S) EXCEPT ![q] = r] /\ order[q].status = "NONE"
  BY DEF Propose, Status
<1>2. /\ S \in SUBSET Order /\ q \notin S
      /\ \A o \in S : order[o].status \in {"DRAFT", "APPROVED"}
  BY <1>1 DEF Rows, Status
<1>3. r.status = "DRAFT" /\ r.amount = c
  BY DEF NoRow
<1>4. Withdrawn(S) \in [Order -> OrderRow]
  BY WithdrawnType
<1> HIDE DEF S, r
<1>5. S \subseteq Promise!In({"OFFERED", "GRANTED"})
  BY <1>2, StageOf DEF Promise!In, Status
<1>6. ASSUME NEW o \in Order
      PROVE  /\ Stage(order'[o].status) = IF o = q THEN "OFFERED"
                                          ELSE IF o \in S THEN "CLOSED"
                                          ELSE Stage(order[o].status)
             /\ order'[o].amount = IF o = q THEN c ELSE order[o].amount
  <2>1. CASE o = q
    BY <1>1, <1>3, <1>4, <2>1, StageOf
  <2>2. CASE o # q
    <3>1. order'[o] = Withdrawn(S)[o]
      BY <1>1, <1>4, <2>2
    <3> QED BY <1>2, <2>2, <3>1, WithdrawnStages
  <2> QED BY <2>1, <2>2
<1>7. Stages' = [[o \in Order |-> IF o \in S THEN "CLOSED" ELSE Stage(Status(o))]
                    EXCEPT ![q] = "OFFERED"]
  <2>1. Stages' = [o \in Order |-> Stage(order'[o].status)]
    BY DEF Stages, Status, Stage, Uncertain, Bought
  <2> QED BY <1>6, <2>1 DEF Status
<1>8. Prices' = [Prices EXCEPT ![q] = c]
  BY <1>6 DEF Prices, Amount
<1>9. Stages[q] = "FREE"
  BY <1>1, StageOf DEF Stages, Status
<1>10. Promise!Offer(q, c, S)
  BY <1>5, <1>7, <1>8, <1>9 DEF Promise!Offer, Promise!Closing, Stages, Prices
<1> QED BY <1>2, <1>10

\* An approval grants an offer, within the ceiling, or renews a grant.
LEMMA Approvals ==
    ASSUME RowsOK, Money, NEW q \in Order, Approvable(q), Approved(q),
           UNCHANGED <<ledger, purchases>>
    PROVE  Promise!Grant(q) \/ UNCHANGED Promise!vars
<1> DEFINE s == IF order[q].status \in Uncertain THEN order[q].status ELSE "APPROVED"
<1>1. order' = [order EXCEPT ![q] = [order[q] EXCEPT !.status = s, !.current = TRUE]]
  BY DEF Approved, Status
<1>2. order[q] \in OrderRow /\ order[q].status \in Pending
  BY DEF RowsOK, Approvable, Status
<1> DEFINE r == [order[q] EXCEPT !.status = s, !.current = TRUE]
<1>3. r.status = s /\ r.amount = order[q].amount
  BY <1>2 DEF OrderRow
<1> HIDE DEF r
<1>4. Stages' = [Stages EXCEPT ![q] = Stage(s)] /\ Prices' = Prices
  <2>1. order' = [order EXCEPT ![q] = r]
    BY <1>1 DEF r
  <2> HIDE DEF s
  <2> QED BY <1>3, <2>1, OneStage
<1>5. CASE order[q].status = "DRAFT"
  <2>1. Stages[q] = "OFFERED" /\ Stage(s) = "GRANTED"
    BY <1>5, StageOf DEF Stages, Status, Uncertain
  <2>2. Promise!Engaged + Prices[q] <= Limit
    <3>1. Addition(q) = Amount(q) /\ Prices[q] = Amount(q)
      BY <1>5 DEF Addition, Status, Prices
    <3>2. spending.spent + spending.reserved + Amount(q) <= Limit
      BY <3>1 DEF Approvable
    <3> QED BY <3>1, <3>2, EngagedMoney
  <2> QED BY <1>4, <2>1, <2>2 DEF Promise!Grant, Stages, Prices
<1>6. CASE order[q].status # "DRAFT"
  <2>1. Stage(s) = Stage(order[q].status)
    BY <1>2, <1>6, StageOf DEF Pending, Held
  <2>2. Stages' = Stages
    BY <1>4, <2>1 DEF Stages, Status
  <2> QED BY <1>4, <2>2 DEF Promise!vars, Stages, Prices
<1> QED BY <1>5, <1>6

\* A write of one row that changes neither its stage nor its amount.
LEMMA SameStages ==
    ASSUME RowsOK, NEW q \in Order, NEW r,
           order' = [order EXCEPT ![q] = r], r.amount = order[q].amount,
           Stage(r.status) = Stage(order[q].status), UNCHANGED <<ledger, purchases>>
    PROVE  UNCHANGED Promise!vars
<1>1. Stages' = [Stages EXCEPT ![q] = Stage(r.status)] /\ Prices' = Prices
  BY OneStage
<1>2. Stages' = Stages
  BY <1>1 DEF Stages, Status
<1> QED BY <1>1, <1>2 DEF Promise!vars, Stages, Prices

\* An admission commits the order, or repeats what is uncertain.
LEMMA Admissions ==
    ASSUME RowsOK, Passes, NEW k \in Worker, Admit(k), UNCHANGED <<ledger, purchases>>
    PROVE  Promise!Commit(run[k].order) \/ UNCHANGED Promise!vars
<1> DEFINE q == run[k].order
           r == [order[q] EXCEPT !.status = "SENDING"]
<1>1. q \in Order
  BY DEF Passes, InPass, InHand, Admit, At
<1>2. order[q] \in OrderRow
  BY <1>1 DEF RowsOK
<1>3. r.status = "SENDING" /\ r.amount = order[q].amount
  BY <1>2 DEF OrderRow
<1>4. CASE MaySend(k, q)
  <2>1. order' = [order EXCEPT ![q] = r] /\ order[q].status \in Held
    BY <1>4 DEF Admit, MaySend, Status
  <2> HIDE DEF r, q
  <2>2. Stages' = [Stages EXCEPT ![q] = Stage("SENDING")] /\ Prices' = Prices
    BY <1>1, <1>3, <2>1, OneStage
  <2>3. Stage("SENDING") = "COMMITTED"
    BY StageOf DEF Uncertain
  <2>4. CASE order[q].status = "APPROVED"
    <3>1. Stages[q] = "GRANTED"
      BY <1>1, <2>4, StageOf DEF Stages, Status
    <3> QED BY <2>2, <2>3, <3>1 DEF Promise!Commit, Stages, Prices, q
  <2>5. CASE order[q].status \in Uncertain
    BY <1>1, <1>3, <2>1, <2>3, <2>5, StageOf, SameStages
  <2> QED BY <2>1, <2>4, <2>5 DEF Held
<1>5. CASE ~MaySend(k, q)
  <2>1. UNCHANGED order
    BY <1>5 DEF Admit
  <2> QED BY <2>1 DEF Promise!vars, Status, Amount, Stage, Uncertain, Bought
<1> QED BY <1>4, <1>5

\* Settling concludes an order as the supplier answered.
LEMMA Settlements ==
    ASSUME RowsOK, NEW q \in Order, Settle(q), Status(q) \in Uncertain,
           ledger[q] # "NONE", UNCHANGED <<ledger, purchases>>
    PROVE  Promise!Conclude(q)
<1> DEFINE r == [order[q] EXCEPT !.status = Outcome(q), !.current = FALSE]
<1>1. order' = [order EXCEPT ![q] = r]
  BY DEF Settle, Outcome
<1>2. order[q] \in OrderRow
  BY DEF RowsOK
<1>3. r.status = Outcome(q) /\ r.amount = order[q].amount
  BY <1>2 DEF OrderRow
<1> HIDE DEF r
<1>4. Stages' = [Stages EXCEPT ![q] = Stage(Outcome(q))] /\ Prices' = Prices
  BY <1>1, <1>3, OneStage
<1>5. Stage(Outcome(q)) = IF ledger[q] = "ACCEPTED" THEN "BOUGHT" ELSE "CLOSED"
  BY StageOf DEF Outcome, Bought
<1>6. Stages[q] = "COMMITTED"
  BY StageOf DEF Stages
<1> QED BY <1>4, <1>5, <1>6 DEF Promise!Conclude, Stages, Prices

\* What arrives at the supplier is an order that was committed, and of a supplier
\* that does not recognise a repetition it is the first and only request.
LEMMA Arrivals ==
    ASSUME IInv, Sold, NEW q \in Order, NEW a \in {"ACCEPTED", "REJECTED"}, Arrive(q, a)
    PROVE  (\E b \in {"ACCEPTED", "REJECTED"} : Promise!Answer(q, b)) \/ UNCHANGED Promise!vars
<1>1. /\ ledger \in [Order -> {"NONE", "ACCEPTED", "REJECTED"}]
      /\ purchases \in [Order -> Nat] /\ wire \in [Order -> Nat]
      /\ order \in [Order -> OrderRow] /\ wire[q] > 0 /\ UNCHANGED order
  BY DEF IInv, RowsOK, Arrive, db
<1>2. Stages' = Stages /\ Prices' = Prices
  BY <1>1 DEF Stages, Prices, Status, Amount, Stage, Uncertain, Bought
<1>3. order[q].status \in Reached
  BY <1>1 DEF IInv, Traces
<1>4. ledger[q] = "NONE" => purchases[q] = 0
  BY <1>1 DEF IInv, Answers
<1>5. CASE ledger[q] = "NONE"
  <2>1. order[q].status \in Uncertain
    BY <1>3, <1>5 DEF IInv, Answers, Reached, Settled
  <2>2. Stages[q] = "COMMITTED"
    BY <2>1, StageOf DEF Stages, Status
  <2>3. ledger' = [ledger EXCEPT ![q] = a]
    BY <1>5 DEF Arrive
  <2>4. purchases' = [purchases EXCEPT ![q] = IF a = "ACCEPTED" THEN 1 ELSE 0]
    BY <1>1, <1>4, <1>5 DEF Arrive
  <2> QED BY <1>2, <1>5, <2>2, <2>3, <2>4 DEF Promise!Answer, Stages, Prices
<1>6. CASE ledger[q] # "NONE"
  <2>1. ledger' = ledger
    BY <1>1, <1>6 DEF Arrive
  <2>2. ledger[q] = "ACCEPTED" => idempotent
    <3>1. ASSUME ~idempotent PROVE wire[q] + purchases[q] <= 1
      BY <3>1 DEF IInv, OneRequest
    <3> QED BY <1>1, <3>1 DEF Sold
  <2>3. purchases' = purchases
    BY <1>1, <1>6, <2>2 DEF Arrive
  <2> QED BY <1>2, <2>1, <2>3 DEF Promise!vars, Stages, Prices
<1> QED BY <1>5, <1>6

\* The operator closes an operation that the supplier never answered.
LEMMA Closings ==
    ASSUME IInv, NEW q \in Order, CloseOperation(q)
    PROVE  Promise!Answer(q, "REJECTED")
<1>1. /\ ledger \in [Order -> {"NONE", "ACCEPTED", "REJECTED"}]
      /\ purchases \in [Order -> Nat] /\ UNCHANGED order
  BY DEF IInv, RowsOK, CloseOperation, db
<1>2. Stages' = Stages /\ Prices' = Prices
  BY <1>1 DEF Stages, Prices, Status, Amount, Stage, Uncertain, Bought
<1>3. Stages[q] = "COMMITTED"
  BY StageOf DEF Stages, CloseOperation
<1>4. purchases[q] = 0
  BY <1>1 DEF IInv, Answers, CloseOperation
<1>5. purchases' = [purchases EXCEPT ![q] = 0]
  BY <1>1, <1>4 DEF CloseOperation
<1> QED BY <1>2, <1>3, <1>5 DEF CloseOperation, Promise!Answer, Stages, Prices

\* A transaction that writes one row is one step of the promise, or none.
LEMMA OneRowSteps ==
    ASSUME IInv, Money, NEW q \in Order, Writes(q), UNCHANGED <<ledger, purchases>>
    PROVE  Promise!Next \/ UNCHANGED Promise!vars
<1>1. RowsOK /\ Passes /\ Answers /\ order[q] \in OrderRow
  BY DEF IInv, RowsOK
<1>2. CASE UNCHANGED order
  BY <1>2 DEF Promise!vars, Status, Amount, Stage, Uncertain, Bought
<1>3. ASSUME NEW R \in SUBSET Order, Promise!Withdraw(R)
      PROVE  Promise!Next
  BY <1>3 DEF Promise!Next
<1>4. ASSUME Promise!Grant(q) \/ Promise!Commit(q) \/ Promise!Conclude(q)
      PROVE  Promise!Next
  BY <1>4 DEF Promise!Next
<1>5. ASSUME NEW k \in Worker, NEW s \in Product, NEW c \in Cost, Propose(k, q, s, c)
      PROVE  Promise!Next
  <2>1. PICK R \in SUBSET Order : Promise!Offer(q, c, R)
    BY <1>1, <1>5, Proposals
  <2> QED BY <2>1 DEF Promise!Next
<1>6. CASE Approve(q) \/ \E k \in Worker : AutoApprove(k, q)
  <2>1. (Approvable(q) /\ Approved(q)) \/ UNCHANGED order
    BY <1>6 DEF Approve, AutoApprove
  <2> QED BY <1>1, <1>2, <1>4, <2>1, Approvals
<1>7. ASSUME NEW k \in Worker, Admit(k), run[k].order = q
      PROVE  Promise!Next \/ UNCHANGED Promise!vars
  BY <1>1, <1>4, <1>7, Admissions
<1>8. ASSUME NEW k \in Worker, Record(k), run[k].order = q
      PROVE  Promise!Next \/ UNCHANGED Promise!vars
  <2>1. ledger[q] # "NONE"
    BY <1>1, <1>8 DEF Answers, Record, At
  <2>2. (Settle(q) /\ Status(q) \in Uncertain) \/ UNCHANGED order
    BY <1>8 DEF Record
  <2> QED BY <1>1, <1>2, <1>4, <2>1, <2>2, Settlements
<1>9. CASE Resolve(q)
  BY <1>1, <1>4, <1>9, Settlements DEF Resolve
<1>10. ASSUME NEW k \in Worker, Doubt(k), run[k].order = q
       PROVE  UNCHANGED Promise!vars
  <2> DEFINE s == IF AssertCurrent(k) /\ order[q].status = "SENDING"
                  THEN "UNKNOWN" ELSE order[q].status
             r == [order[q] EXCEPT !.status = s]
  <2>1. order' = [order EXCEPT ![q] = r]
    BY <1>10 DEF Doubt
  <2>2. Stage(s) = Stage(order[q].status)
    BY StageOf DEF Uncertain
  <2> HIDE DEF s
  <2>3. r.status = s /\ r.amount = order[q].amount
    BY <1>1 DEF OrderRow
  <2> HIDE DEF r
  <2> QED BY <1>1, <2>1, <2>2, <2>3, SameStages
<1>11. CASE Receive(q)
  <2> DEFINE r == [order[q] EXCEPT !.status = "DELIVERED"]
  <2>1. order' = [order EXCEPT ![q] = r] /\ order[q].status = "CONFIRMED"
    BY <1>11 DEF Receive, Status
  <2>2. r.status = "DELIVERED" /\ r.amount = order[q].amount
    BY <1>1 DEF OrderRow
  <2>3. Stage("DELIVERED") = Stage("CONFIRMED")
    BY StageOf DEF Bought
  <2> HIDE DEF r
  <2> QED BY <1>1, <2>1, <2>2, <2>3, SameStages
<1>12. CASE ApprovalLapses(q)
  <2> DEFINE r == [order[q] EXCEPT !.current = FALSE]
  <2>1. order' = [order EXCEPT ![q] = r]
    BY <1>12 DEF ApprovalLapses
  <2>2. r.status = order[q].status /\ r.amount = order[q].amount
    BY <1>1 DEF OrderRow
  <2> HIDE DEF r
  <2> QED BY <1>1, <2>1, <2>2, SameStages
<1>13. CASE Revoke(q)
  <2>1. order' = Withdrawn({q})
    BY <1>13 DEF Revoke
  <2>2. \E R \in SUBSET Order : Promise!Withdraw(R)
    BY <1>1, <2>1, Withdrawals
  <2> QED BY <1>3, <2>2
<1> QED BY <1>5, <1>6, <1>7, <1>8, <1>9, <1>10, <1>11, <1>12, <1>13 DEF Writes

LEMMA PromiseSteps == IInv /\ Money /\ Sold /\ [Next]_vars => [Promise!Next]_(Promise!vars)
<1> SUFFICES ASSUME IInv, Money, Sold, [Next]_vars
             PROVE  Promise!Next \/ UNCHANGED Promise!vars
  OBVIOUS
<1>1. RowsOK /\ Passes
  BY DEF IInv
<1>2. CASE UNCHANGED <<ledger, purchases>>
  <2>1. CASE UNCHANGED order
    BY <1>2, <2>1 DEF Promise!vars, Status, Amount, Stage, Uncertain, Bought
  <2>2. ASSUME NEW w \in Work, Cancel(w) PROVE Promise!Next
    <3>1. order' = Withdrawn(Rows(w)) /\ Rows(w) \in SUBSET Order
      BY <2>2 DEF Cancel, Rows
    <3>2. PICK R \in SUBSET Order : Promise!Withdraw(R)
      BY <1>1, <1>2, <3>1, Withdrawals
    <3> QED BY <3>2 DEF Promise!Next
  <2>3. ASSUME NEW o \in Order, Writes(o) PROVE Promise!Next \/ UNCHANGED Promise!vars
    BY <1>2, <2>3, OneRowSteps
  <2> QED BY <1>1, <2>1, <2>2, <2>3, Writers
<1>3. ASSUME NEW o \in Order, NEW a \in {"ACCEPTED", "REJECTED"}, Promise!Answer(o, a)
      PROVE  Promise!Next
  BY <1>3 DEF Promise!Next
<1>4. ASSUME NEW o \in Order, NEW a \in {"ACCEPTED", "REJECTED"}, Arrive(o, a)
      PROVE  Promise!Next \/ UNCHANGED Promise!vars
  BY <1>3, <1>4, Arrivals
<1>5. ASSUME NEW o \in Order, CloseOperation(o) PROVE Promise!Next
  BY <1>3, <1>5, Closings
<1> QED BY <1>1, <1>2, <1>4, <1>5, AnswersMove

LEMMA PromiseInit == Init => Promise!Init
<1> SUFFICES ASSUME Init PROVE Promise!Init
  OBVIOUS
<1>1. \A o \in Order : order[o].status = "NONE" /\ order[o].amount = 0
  BY DEF Init, NoRow
<1>2. \A o \in Order : Stage(Status(o)) = "FREE" /\ Amount(o) = 0
  BY <1>1, StageOf DEF Status, Amount
<1> QED BY <1>2 DEF Init, Promise!Init

\* Purchasing implements the promise, for any workers, orders, products and
\* prices, with suppliers that recognise a repeated request and with others.
THEOREM PurchaseIsKept == Spec => PurchaseSpec
<1>1. Init => Sold
  BY DEF Init, Sold
<1>2. IInv /\ Sold /\ [Next]_vars => Sold'
  BY SoldKept DEF IInv
<1>3. Spec => []Sold
  BY <1>1, <1>2, Invariance, PTL DEF Spec
<1> QED BY <1>3, PromiseInit, PromiseSteps, Invariance, MoneyInvariance, PTL
        DEF Spec, PurchaseSpec, Promise!Spec
=============================================================================
