--------------------------- MODULE DelegationProofs ---------------------------
(***************************************************************************)
(* Delegated work for any number of parents, workers, days and claims.     *)
(*                                                                         *)
(* A call is charged before it is made, so what was charged to a contract  *)
(* covers the calls that were made and those that workers are about to     *)
(* make, stale ones included: CallsAreCharged.  The ledgers agree because  *)
(* every step either leaves all of them alone or adds the same call to     *)
(* one day, to one item and, when it is a child's, to its contract.        *)
(***************************************************************************)
EXTENDS Delegation, SetFacts, TLAPS

Places == {"IDLE", "CLAIM", "LOOP", "CALL", "REPLY", "FINISH", "STOP", "YIELD"}
Hand == [at : Places, parent : Parent \cup {None}, generation : Nat,
         verdict : {"DONE", "BLOCKED", "READY"}]
Child == [status : Open \cup {"NONE", "DONE", "CANCELLED"}, generation : Nat,
          live : BOOLEAN, overdue : BOOLEAN, calls : Nat, cost : Nat]

Busy == Places \ {"IDLE", "CLAIM"}

\* Whoever has begun on a child knows whose child it is.
HandsAreFull == \A w \in Worker : worker[w].at \in Busy => worker[w].parent \in Parent

\* Workers that reserved a call for the child of p and are about to make it.
Callers(p) == {w \in Worker : worker[w].at = "CALL" /\ worker[w].parent = p}

CallsAreCharged ==
    /\ \A p \in Parent : /\ made[p] + Cardinality(Callers(p)) <= child[p].calls
                         /\ child[p].calls <= CallLimit
    /\ \A d \in Day : daily[d] <= DayLimit

IInv == TypeOK /\ HandsAreFull /\ CallsAreCharged

-----------------------------------------------------------------------------
(* What a step of a worker leaves behind.                                  *)

\* expire() closes children and touches nothing else of them.
LEMMA ExpiredType ==
    ASSUME child \in [Parent -> Child]
    PROVE  /\ Expired \in [Parent -> Child]
           /\ \A p \in Parent :
                 /\ Expired[p].calls = child[p].calls
                 /\ Expired[p].status # child[p].status => Expired[p].status = "CANCELLED"
<1>1. ASSUME NEW p \in Parent
      PROVE  LET row == [child[p] EXCEPT !.status = "CANCELLED", !.generation = @ + 1,
                                         !.live = FALSE]
             IN  row \in Child /\ row.calls = child[p].calls /\ row.status = "CANCELLED"
  <2>1. child[p] \in Child /\ child[p].generation + 1 \in Nat
    BY DEF Child
  <2>2. [child[p] EXCEPT !.status = "CANCELLED", !.generation = child[p].generation + 1,
                         !.live = FALSE] \in Child
    BY <2>1 DEF Child
  <2> QED
    BY <2>1, <2>2 DEF Child
<1>2. \A p \in Parent :
         Expired[p] = IF IsOpen(p) /\ (child[p].overdue \/ parent[p].cancelled)
                      THEN [child[p] EXCEPT !.status = "CANCELLED", !.generation = @ + 1,
                                            !.live = FALSE]
                      ELSE child[p]
    BY DEF Expired
<1>3. Expired = [p \in Parent |-> Expired[p]]
    BY DEF Expired
<1> HIDE DEF Child
<1>4. \A p \in Parent :
         /\ Expired[p] \in Child /\ Expired[p].calls = child[p].calls
         /\ Expired[p].status # child[p].status => Expired[p].status = "CANCELLED"
    BY <1>1, <1>2
<1> QED
    BY <1>3, <1>4

\* A worker that steps to any place but the call leaves the callers it was among.
LEMMA CallersLeave ==
    ASSUME worker \in [Worker -> Hand], NEW w \in Worker, NEW r \in Hand, r.at # "CALL",
           Goto(w, r), NEW p \in Parent
    PROVE  /\ IsFiniteSet(Callers(p)) /\ Cardinality(Callers(p)) \in Nat
           /\ Cardinality(Callers(p)') \in Nat
           /\ Cardinality(Callers(p)') <= Cardinality(Callers(p))
           /\ worker[w].at = "CALL" /\ worker[w].parent = p
              => Cardinality(Callers(p)') = Cardinality(Callers(p)) - 1
<1>1. worker'[w] = r /\ \A v \in Worker \ {w} : worker'[v] = worker[v]
    BY DEF Goto
<1>2. Callers(p)' = Callers(p) \ {w}
    BY <1>1 DEF Callers
<1>3. IsFiniteSet(Callers(p)) /\ Cardinality(Callers(p)) \in Nat
    BY DelegationAssumption, FS_Subset, FS_CardinalityType DEF Callers
<1>4. /\ IsFiniteSet(Callers(p)')
      /\ Cardinality(Callers(p)') = IF w \in Callers(p) THEN Cardinality(Callers(p)) - 1
                                    ELSE Cardinality(Callers(p))
    BY <1>2, <1>3, FS_RemoveElement
<1>5. Cardinality(Callers(p)') \in Nat
    BY <1>4, FS_CardinalityType
<1> QED
    BY <1>3, <1>4, <1>5 DEF Callers

\* Steps that reserve and make no call keep the invariant.
LEMMA HandMoves ==
    ASSUME IInv, NEW w \in Worker, NEW r \in Hand, Goto(w, r), r.at # "CALL",
           r.at \in Busy => r.parent \in Parent,
           child' \in [Parent -> Child],
           \A p \in Parent : child'[p].calls = child[p].calls,
           UNCHANGED <<today, parent, daily, made>>
    PROVE  IInv'
<1>1. /\ worker \in [Worker -> Hand] /\ made \in [Parent -> Nat]
      /\ child \in [Parent -> Child]
    BY DEF IInv, TypeOK, Hand, Places, Child
<1>2. worker' \in [Worker -> Hand]
    BY <1>1 DEF Goto
<1>3. TypeOK'
    BY <1>2 DEF IInv, TypeOK, Hand, Places, Child
<1>4. HandsAreFull'
    BY <1>1 DEF IInv, HandsAreFull, Goto
<1>5. ASSUME NEW p \in Parent
      PROVE  /\ made'[p] + Cardinality(Callers(p)') <= child'[p].calls
             /\ child'[p].calls <= CallLimit
  <2>1. /\ Cardinality(Callers(p)) \in Nat /\ Cardinality(Callers(p)') \in Nat
        /\ Cardinality(Callers(p)') <= Cardinality(Callers(p))
    BY <1>1, CallersLeave
  <2>2. /\ made[p] + Cardinality(Callers(p)) <= child[p].calls
        /\ child[p].calls <= CallLimit
        /\ made'[p] = made[p] /\ child'[p].calls = child[p].calls
        /\ made[p] \in Nat /\ child[p].calls \in Nat
    BY <1>1 DEF IInv, CallsAreCharged, Child
  <2> QED
    BY <2>1, <2>2
<1> QED
    BY <1>3, <1>4, <1>5 DEF IInv, CallsAreCharged

\* A call is reserved within the contract and the day.
LEMMA ReserveMoves ==
    ASSUME IInv, NEW w \in Worker, Reserve(w)
    PROVE  IInv'
<1> DEFINE p == worker[w].parent
<1>1. /\ worker \in [Worker -> Hand] /\ made \in [Parent -> Nat]
      /\ child \in [Parent -> Child] /\ daily \in [Day -> Nat] /\ today \in Day
      /\ worker[w].at = "LOOP" /\ p \in Parent
    BY DEF IInv, TypeOK, Hand, Places, Child, Reserve, At, HandsAreFull, Busy
<1>2. /\ worker' = [worker EXCEPT ![w] = [worker[w] EXCEPT !.at = "CALL"]]
      /\ child' = [child EXCEPT ![p] = [child[p] EXCEPT !.calls = child[p].calls + 1,
                                                        !.cost = child[p].cost + 1]]
      /\ daily' = [daily EXCEPT ![today] = daily[today] + 1]
      /\ UNCHANGED <<today, parent, made>>
      /\ child[p].calls < CallLimit /\ daily[today] < DayLimit
    BY DEF Reserve, Step, Goto, Charged, WithinContract, WithinDay
<1> HIDE DEF p
<1>3. /\ [worker[w] EXCEPT !.at = "CALL"] \in Hand
      /\ child[p] \in Child /\ child[p].calls + 1 \in Nat /\ child[p].cost + 1 \in Nat
    BY <1>1 DEF Hand, Places, Child
<1>4. [child[p] EXCEPT !.calls = child[p].calls + 1, !.cost = child[p].cost + 1] \in Child
    BY <1>3 DEF Child
<1>5. TypeOK'
  <2>1. worker' \in [Worker -> Hand] /\ child' \in [Parent -> Child] /\ daily' \in [Day -> Nat]
    BY <1>1, <1>2, <1>3, <1>4
  <2> QED
    BY <1>2, <2>1 DEF IInv, TypeOK, Hand, Places, Child
<1>6. HandsAreFull'
  <2>1. /\ worker'[w].parent = p
        /\ \A v \in Worker \ {w} : worker'[v] = worker[v]
    BY <1>1, <1>2 DEF p, Hand
  <2> QED
    BY <1>1, <2>1 DEF IInv, HandsAreFull
<1>7. \A d \in Day : daily'[d] <= DayLimit
    BY <1>1, <1>2, DelegationAssumption DEF IInv, CallsAreCharged
<1>8. ASSUME NEW q \in Parent
      PROVE  /\ made'[q] + Cardinality(Callers(q)') <= child'[q].calls
             /\ child'[q].calls <= CallLimit
  <2>1. /\ made[q] + Cardinality(Callers(q)) <= child[q].calls /\ child[q].calls <= CallLimit
        /\ made[q] \in Nat /\ child[q].calls \in Nat
    BY <1>1 DEF IInv, CallsAreCharged, Child
  <2>2. IsFiniteSet(Callers(q)) /\ Cardinality(Callers(q)) \in Nat
    BY DelegationAssumption, FS_Subset, FS_CardinalityType DEF Callers
  <2>3. /\ worker'[w].at = "CALL" /\ worker'[w].parent = p
        /\ \A v \in Worker \ {w} : worker'[v] = worker[v]
    BY <1>1, <1>2 DEF p, Hand
  <2>4. CASE q = p
    <3>1. Callers(q)' = Callers(q) \cup {w}
        BY <2>3, <2>4 DEF Callers
    <3>2. w \notin Callers(q)
        BY <1>1 DEF Callers
    <3>3. Cardinality(Callers(q)') = Cardinality(Callers(q)) + 1
        BY <2>2, <3>1, <3>2, FS_AddElement
    <3>4. child'[q].calls = child[q].calls + 1
        BY <1>1, <1>2, <1>3, <2>4 DEF Child
    <3> QED
        BY <1>2, <2>1, <2>2, <2>4, <3>3, <3>4, DelegationAssumption
  <2>5. CASE q # p
    <3>1. Callers(q)' = Callers(q)
        BY <1>1, <2>3, <2>5 DEF Callers
    <3>2. child'[q] = child[q]
        BY <1>1, <1>2, <2>5
    <3> QED
        BY <1>2, <2>1, <3>1, <3>2
  <2> QED
    BY <2>4, <2>5
<1> QED
    BY <1>5, <1>6, <1>7, <1>8 DEF IInv, CallsAreCharged

\* A call is made by one of those who reserved it.
LEMMA CallMoves ==
    ASSUME IInv, NEW w \in Worker, Call(w)
    PROVE  IInv'
<1> DEFINE p == worker[w].parent
           r == [worker[w] EXCEPT !.at = "REPLY"]
<1>1. /\ worker \in [Worker -> Hand] /\ made \in [Parent -> Nat]
      /\ child \in [Parent -> Child]
      /\ worker[w].at = "CALL" /\ p \in Parent
    BY DEF IInv, TypeOK, Hand, Places, Child, Call, At, HandsAreFull, Busy
<1>2. /\ Goto(w, r)
      /\ made' = [made EXCEPT ![p] = made[p] + 1]
      /\ UNCHANGED <<today, parent, child, daily>>
    BY DEF Call, Step
<1>3. r \in Hand /\ r.at = "REPLY" /\ r.parent = p
    BY <1>1 DEF Hand, Places
<1>4. worker[w].at = "CALL" /\ worker[w].parent = p
    BY <1>1
<1> HIDE DEF p, r
<1>5. worker' = [worker EXCEPT ![w] = r] /\ worker' \in [Worker -> Hand]
    BY <1>1, <1>2, <1>3 DEF Goto
<1>6. TypeOK'
  <2>1. made' \in [Parent -> Nat]
    BY <1>1, <1>2
  <2> QED
    BY <1>2, <1>5, <2>1 DEF IInv, TypeOK, Hand, Places
<1>7. HandsAreFull'
    BY <1>1, <1>3, <1>5 DEF IInv, HandsAreFull
<1>8. ASSUME NEW q \in Parent
      PROVE  /\ made'[q] + Cardinality(Callers(q)') <= child'[q].calls
             /\ child'[q].calls <= CallLimit
  <2>1. /\ made[q] + Cardinality(Callers(q)) <= child[q].calls /\ child[q].calls <= CallLimit
        /\ made[q] \in Nat /\ child[q].calls \in Nat
    BY <1>1 DEF IInv, CallsAreCharged, Child
  <2>2. /\ Cardinality(Callers(q)) \in Nat /\ Cardinality(Callers(q)') \in Nat
        /\ Cardinality(Callers(q)') <= Cardinality(Callers(q))
        /\ q = p => Cardinality(Callers(q)') = Cardinality(Callers(q)) - 1
    BY <1>1, <1>2, <1>3, <1>4, CallersLeave
  <2>3. made'[q] = IF q = p THEN made[q] + 1 ELSE made[q]
    BY <1>1, <1>2
  <2> QED
    BY <1>2, <2>1, <2>2, <2>3
<1> QED
    BY <1>2, <1>6, <1>7, <1>8 DEF IInv, CallsAreCharged

\* Steps of the world, the parents and their operator keep the invariant.
LEMMA WorldMoves ==
    ASSUME IInv, UNCHANGED <<worker, made>>,
           today' \in Day, daily' \in [Day -> Nat], \A d \in Day : daily'[d] <= DayLimit,
           parent' \in [Parent -> [status : Open \cup {"DONE", "CANCELLED"},
                                   cancelled : BOOLEAN, cost : Nat]],
           child' \in [Parent -> Child],
           \A p \in Parent : child'[p].calls = child[p].calls
    PROVE  IInv'
<1>1. TypeOK'
    BY DEF IInv, TypeOK, Child
<1>2. HandsAreFull'
    BY DEF IInv, HandsAreFull
<1>3. \A p \in Parent : Callers(p)' = Callers(p)
    BY DEF Callers
<1> QED
    BY <1>1, <1>2, <1>3 DEF IInv, CallsAreCharged

ParentRow == [status : Open \cup {"DONE", "CANCELLED"}, cancelled : BOOLEAN, cost : Nat]

\* No step leaves the invariant.
LEMMA Kept == IInv /\ [Next]_vars => IInv'
<1> SUFFICES ASSUME IInv, [Next]_vars PROVE IInv'
    OBVIOUS
<1>1. /\ worker \in [Worker -> Hand] /\ made \in [Parent -> Nat]
      /\ child \in [Parent -> Child] /\ parent \in [Parent -> ParentRow]
      /\ daily \in [Day -> Nat] /\ today \in Day /\ \A d \in Day : daily[d] <= DayLimit
    BY DEF IInv, TypeOK, CallsAreCharged, Hand, Places, Child, ParentRow
<1>2. Idle \in Hand /\ Idle.at = "IDLE" /\ Idle.at \notin Busy
    BY DEF Idle, Hand, Places, Busy
<1>3. ASSUME NEW w \in Worker, NEW place \in Places
      PROVE  LET r == [worker[w] EXCEPT !.at = place]
             IN  r \in Hand /\ r.at = place /\ r.parent = worker[w].parent
    BY <1>1 DEF Hand
<1>4. \A w \in Worker : worker[w].at \in Busy => worker[w].parent \in Parent
    BY DEF IInv, HandsAreFull
<1> DEFINE Same == /\ child' \in [Parent -> Child]
                   /\ \A p \in Parent : child'[p].calls = child[p].calls
<1>5. child' = Expired => Same
    BY <1>1, ExpiredType
<1>6. child' = child => Same
    BY <1>1
<1>7. ASSUME NEW p \in Parent, NEW row \in Child, row.calls = child[p].calls,
             child' = [child EXCEPT ![p] = row]
      PROVE  Same
    BY <1>1, <1>7
<1>8. ASSUME NEW p \in Parent, NEW row \in ParentRow, parent' = [parent EXCEPT ![p] = row],
             UNCHANGED <<today, child, worker, made>>, daily' \in [Day -> Nat],
             \A d \in Day : daily'[d] <= DayLimit
      PROVE  IInv'
  <2>1. parent' \in [Parent -> ParentRow]
    BY <1>1, <1>8
  <2> QED
    BY <1>1, <1>8, <2>1, WorldMoves DEF ParentRow
<1>9. ASSUME Same, UNCHANGED <<today, parent, daily, worker, made>> PROVE IInv'
    BY <1>1, <1>9, WorldMoves DEF ParentRow
<1>10. ASSUME NEW w \in Worker, NEW r \in Hand, Goto(w, r), r.at # "CALL",
              r.at \in Busy => r.parent \in Parent, Same,
              UNCHANGED <<today, parent, daily, made>>
       PROVE  IInv'
    BY <1>10, HandMoves
<1>11. ASSUME NEW w \in Worker, NEW place \in Places \ {"CALL"}, Step(w, place),
              worker[w].at \in Busy \/ place = "CLAIM", Same,
              UNCHANGED <<today, parent, daily, made>>
       PROVE  IInv'
    BY <1>3, <1>4, <1>10, <1>11 DEF Step, Busy
<1>12. ASSUME NEW w \in Worker, NEW verdict \in {"DONE", "BLOCKED", "READY"},
              Goto(w, [worker[w] EXCEPT !.at = "FINISH", !.verdict = verdict]),
              worker[w].at \in Busy, UNCHANGED <<today, parent, child, daily, made>>
       PROVE  IInv'
  <2> DEFINE r == [worker[w] EXCEPT !.at = "FINISH", !.verdict = verdict]
  <2>1. r \in Hand /\ r.at = "FINISH" /\ r.parent = worker[w].parent
    BY <1>1 DEF Hand, Places
  <2> HIDE DEF r
  <2> QED
    BY <1>4, <1>6, <1>10, <1>12, <2>1 DEF r
<1>13. ASSUME NEW w \in Worker, Goto(w, Idle), Same, UNCHANGED <<today, parent, daily, made>>
       PROVE  IInv'
    BY <1>2, <1>10, <1>13
<1> HIDE DEF Same
<1>14. CASE Midnight
    BY <1>1, <1>14, <1>6, WorldMoves, DelegationAssumption DEF Midnight, Same, Day, ParentRow
<1>15. ASSUME NEW p \in Parent, DeadlinePasses(p) PROVE IInv'
  <2>1. [child[p] EXCEPT !.overdue = TRUE] \in Child
        /\ [child[p] EXCEPT !.overdue = TRUE].calls = child[p].calls
    BY <1>1 DEF Child
  <2>2. child' = [child EXCEPT ![p] = [child[p] EXCEPT !.overdue = TRUE]]
    BY <1>15 DEF DeadlinePasses
  <2> QED
    BY <1>7, <1>9, <1>15, <2>1, <2>2 DEF DeadlinePasses
<1>16. ASSUME NEW p \in Parent, ClaimRunsOut(p) PROVE IInv'
  <2>1. [child[p] EXCEPT !.live = FALSE] \in Child
        /\ [child[p] EXCEPT !.live = FALSE].calls = child[p].calls
    BY <1>1 DEF Child
  <2>2. child' = [child EXCEPT ![p] = [child[p] EXCEPT !.live = FALSE]]
    BY <1>16 DEF ClaimRunsOut
  <2> QED
    BY <1>7, <1>9, <1>16, <2>1, <2>2 DEF ClaimRunsOut
<1>17. ASSUME NEW p \in Parent, Delegate(p) PROVE IInv'
  <2>1. [child[p] EXCEPT !.status = "READY"] \in Child
        /\ [child[p] EXCEPT !.status = "READY"].calls = child[p].calls
    BY <1>1 DEF Child, Open
  <2>2. child' = [child EXCEPT ![p] = [child[p] EXCEPT !.status = "READY"]]
    BY <1>17 DEF Delegate
  <2> QED
    BY <1>7, <1>9, <1>17, <2>1, <2>2 DEF Delegate
<1>18. ASSUME NEW p \in Parent, CancelChild(p) PROVE IInv'
  <2> DEFINE row == [child[p] EXCEPT !.status = "CANCELLED",
                                     !.generation = child[p].generation + 1, !.live = FALSE]
  <2>1. child[p].generation + 1 \in Nat
    BY <1>1 DEF Child
  <2>2. row \in Child /\ row.calls = child[p].calls
    BY <1>1, <2>1 DEF Child
  <2>3. child' = [child EXCEPT ![p] = row]
    BY <1>18 DEF CancelChild
  <2> HIDE DEF row
  <2> QED
    BY <1>7, <1>9, <1>18, <2>2, <2>3 DEF CancelChild
<1>19. ASSUME NEW p \in Parent, ParentMoves(p) \/ ParentFinishes(p) \/ Cancel(p) PROVE IInv'
  <2>1. PICK row \in ParentRow : parent' = [parent EXCEPT ![p] = row]
    <3>1. CASE ParentMoves(p)
      <4>1. [parent[p] EXCEPT !.status = IF @ = "READY" THEN "RUNNING" ELSE "READY"]
               \in ParentRow
        BY <1>1 DEF ParentRow, Open
      <4> QED
        BY <3>1, <4>1 DEF ParentMoves
    <3>2. CASE ParentFinishes(p)
      <4>1. \A status \in {"DONE", "BLOCKED"} :
               [parent[p] EXCEPT !.status = status] \in ParentRow
        BY <1>1 DEF ParentRow, Open
      <4>2. PICK status \in {"DONE", "BLOCKED"} :
               parent' = [parent EXCEPT ![p] = [parent[p] EXCEPT !.status = status]]
        BY <3>2 DEF ParentFinishes
      <4> QED
        BY <4>1, <4>2
    <3>3. CASE Cancel(p)
      <4>1. [parent[p] EXCEPT !.status = IF @ = "DONE" THEN @ ELSE "CANCELLED",
                              !.cancelled = TRUE] \in ParentRow
        BY <1>1 DEF ParentRow
      <4> QED
        BY <3>3, <4>1 DEF Cancel
    <3> QED
        BY <1>19, <3>1, <3>2, <3>3
  <2>2. UNCHANGED <<today, child, daily, worker, made>>
    BY <1>19 DEF ParentMoves, ParentFinishes, Cancel
  <2> QED
    BY <1>1, <1>8, <2>1, <2>2
<1>20. ASSUME NEW p \in Parent, ParentReserves(p) PROVE IInv'
  <2>1. /\ parent[p].cost + 1 \in Nat
        /\ daily' \in [Day -> Nat] /\ \A d \in Day : daily'[d] <= DayLimit
    BY <1>1, <1>20, DelegationAssumption DEF ParentReserves, ParentRow
  <2>2. [parent[p] EXCEPT !.cost = parent[p].cost + 1] \in ParentRow
    BY <1>1, <2>1 DEF ParentRow
  <2>3. parent' = [parent EXCEPT ![p] = [parent[p] EXCEPT !.cost = parent[p].cost + 1]]
    BY <1>20 DEF ParentReserves
  <2> QED
    BY <1>8, <1>20, <2>1, <2>2, <2>3 DEF ParentReserves
<1>21. ASSUME NEW w \in Worker, Begin(w) \/ Stop(w) PROVE IInv'
    BY <1>5, <1>11, <1>21 DEF Begin, Stop, At, Busy, Places
<1>22. ASSUME NEW w \in Worker, NEW p \in Parent, Claim(w, p) PROVE IInv'
  <2> DEFINE row == [child[p] EXCEPT !.status = "RUNNING", !.live = TRUE,
                                     !.generation = child[p].generation + 1]
             r == [Idle EXCEPT !.at = "LOOP", !.parent = p,
                               !.generation = child[p].generation + 1]
  <2>1. child[p].generation + 1 \in Nat
    BY <1>1 DEF Child
  <2>2. row \in Child /\ row.calls = child[p].calls
    BY <1>1, <2>1 DEF Child, Open
  <2>3. r \in Hand /\ r.at = "LOOP" /\ r.parent = p
    BY <1>2, <2>1 DEF Hand, Places
  <2>4. child' = [child EXCEPT ![p] = row] /\ Goto(w, r)
        /\ UNCHANGED <<today, parent, daily, made>>
    BY <1>22 DEF Claim
  <2> HIDE DEF row, r
  <2> QED
    BY <1>7, <1>10, <2>2, <2>3, <2>4
<1>23. ASSUME NEW w \in Worker, Leave(w) \/ Crash(w) PROVE IInv'
    BY <1>6, <1>13, <1>23 DEF Leave, Crash
<1>24. ASSUME NEW w \in Worker, Reserve(w) \/ Call(w) PROVE IInv'
    BY <1>24, ReserveMoves, CallMoves
<1>25. ASSUME NEW w \in Worker, ReserveRefused(w) PROVE IInv'
    BY <1>6, <1>11, <1>25 DEF ReserveRefused, At, Busy, Places
<1>26. ASSUME NEW w \in Worker, Observe(w) PROVE IInv'
    BY <1>6, <1>11, <1>12, <1>26 DEF Observe, At, Busy, Places
<1>27. ASSUME NEW w \in Worker, GiveUp(w) PROVE IInv'
    BY <1>12, <1>27 DEF GiveUp, Busy, Places
<1>28. ASSUME NEW w \in Worker, Conclude(w) PROVE IInv'
  <2> DEFINE p == worker[w].parent
             row == [child[p] EXCEPT !.status = worker[w].verdict, !.live = FALSE]
  <2>1. p \in Parent /\ worker[w].verdict \in {"DONE", "BLOCKED", "READY"}
    BY <1>1, <1>4, <1>28 DEF Conclude, At, Busy, Places, Hand
  <2>2. row \in Child /\ row.calls = child[p].calls
    <3>1. child[p] \in Child /\ worker[w].verdict \in Open \cup {"NONE", "DONE", "CANCELLED"}
      BY <1>1, <2>1 DEF Open
    <3>2. row \in Child
      BY <3>1 DEF Child
    <3> QED
      BY <3>1 DEF Child
  <2>3. CASE Current(w)
    <3>1. child' = [child EXCEPT ![p] = row] /\ Goto(w, Idle)
          /\ UNCHANGED <<today, parent, daily, made>>
        BY <1>28, <2>3 DEF Conclude
    <3> HIDE DEF p, row
    <3> QED
        BY <1>7, <1>13, <2>1, <2>2, <3>1
  <2>4. CASE ~Current(w)
    BY <1>6, <1>11, <1>28, <2>4 DEF Conclude, At, Busy, Places
  <2> QED
    BY <2>3, <2>4
<1>29. ASSUME NEW w \in Worker, Yield(w) PROVE IInv'
  <2> DEFINE p == worker[w].parent
             row == [child[p] EXCEPT !.status = "BLOCKED", !.live = FALSE]
  <2>1. p \in Parent
    BY <1>1, <1>4, <1>29 DEF Yield, At, Busy, Places
  <2>2. row \in Child /\ row.calls = child[p].calls
    <3>1. child[p] \in Child /\ "BLOCKED" \in Open
      BY <1>1, <2>1 DEF Open
    <3> QED
      BY <3>1 DEF Child
  <2>3. /\ child' = child \/ child' = [child EXCEPT ![p] = row]
        /\ Goto(w, Idle) /\ UNCHANGED <<today, parent, daily, made>>
    BY <1>29 DEF Yield
  <2> HIDE DEF p, row
  <2> QED
    BY <1>6, <1>7, <1>13, <2>1, <2>2, <2>3
<1>30. CASE UNCHANGED vars
    BY <1>1, <1>6, <1>9, <1>30 DEF vars
<1> QED
    BY <1>14, <1>15, <1>16, <1>17, <1>18, <1>19, <1>20, <1>21, <1>22, <1>23, <1>24, <1>25,
       <1>26, <1>27, <1>28, <1>29, <1>30 DEF Next, Ask, Work

-----------------------------------------------------------------------------
(* Theorems.                                                               *)

\* The inductive invariant of delegated work.
THEOREM Invariance == Spec => []IInv
<1>1. Init => IInv
  <2> SUFFICES ASSUME Init PROVE IInv
    OBVIOUS
  <2>1. TypeOK /\ HandsAreFull
    BY DelegationAssumption DEF Init, TypeOK, HandsAreFull, Idle, Open, Busy, Places, Day
  <2>2. \A p \in Parent : Callers(p) = {}
    BY DEF Init, Callers, Idle
  <2>3. \A p \in Parent : Cardinality(Callers(p)) = 0
    BY <2>2, FS_EmptySet
  <2>4. CallsAreCharged
    BY <2>3, DelegationAssumption DEF Init, CallsAreCharged
  <2> QED
    BY <2>1, <2>4 DEF IInv
<1> QED
    BY <1>1, Kept, PTL DEF Spec

\* Every variable of delegated work keeps its type.
THEOREM TypeCorrect == Spec => []TypeOK
<1>1. IInv => TypeOK
    BY DEF IInv
<1> QED
    BY <1>1, Invariance, PTL

\* Every call a child made was charged to its contract first, and contracts and
\* days stay in bounds (assistant_work.reserve_model_call).
THEOREM CallsAreBounded == Spec => []CallsStayInBounds
<1>1. IInv => CallsStayInBounds
  <2> SUFFICES ASSUME IInv, NEW p \in Parent
               PROVE  made[p] <= child[p].calls /\ child[p].calls <= CallLimit
    BY DEF IInv, CallsAreCharged, CallsStayInBounds
  <2>1. Cardinality(Callers(p)) \in Nat
    BY DelegationAssumption, FS_Subset, FS_CardinalityType DEF Callers
  <2>2. made[p] \in Nat /\ child[p].calls \in Nat
    BY DEF IInv, TypeOK
  <2> QED
    BY <2>1, <2>2 DEF IInv, CallsAreCharged
<1> QED
    BY <1>1, Invariance, PTL

\* A child leaves RUNNING for READY, BLOCKED or DONE by the hand of the worker of
\* its present claim (finish and assert_current of assistant_work.py).
THEOREM OnlyHoldersConclude == Spec => HolderConcludes
<1>1. ASSUME TypeOK, [Next]_vars, NEW p \in Parent,
             child[p].status = "RUNNING", child'[p].status \in {"READY", "BLOCKED", "DONE"}
      PROVE  /\ ~parent[p].cancelled /\ ~child[p].overdue
             /\ \E w \in Worker : /\ worker[w].parent = p
                                  /\ worker[w].generation = child[p].generation
                                  /\ worker'[w] # worker[w]
  <2>1. child \in [Parent -> Child] /\ worker \in [Worker -> Hand]
    BY <1>1 DEF TypeOK, Child, Hand, Places
  <2>2. child' # child
    BY <1>1
  <2>3. child' # Expired
    BY <1>1, <2>1, ExpiredType
  <2>4. ASSUME NEW q \in Parent, DeadlinePasses(q) \/ ClaimRunsOut(q) PROVE FALSE
    BY <1>1, <2>1, <2>4 DEF DeadlinePasses, ClaimRunsOut, Child
  <2>5. ASSUME NEW q \in Parent, Ask(q) PROVE FALSE
    BY <1>1, <2>1, <2>2, <2>5 DEF Ask, ParentMoves, ParentFinishes, ParentReserves, Delegate,
       Cancel, CancelChild, Child
  <2>6. ASSUME NEW w \in Worker, NEW q \in Parent, Claim(w, q) PROVE FALSE
    BY <1>1, <2>1, <2>6 DEF Claim, Child
  <2>7. ASSUME NEW w \in Worker, Reserve(w) PROVE FALSE
    BY <1>1, <2>1, <2>7 DEF Reserve, Charged, Child
  <2>8. PICK w \in Worker : Conclude(w) \/ Yield(w)
    BY <1>1, <2>2, <2>3, <2>4, <2>5, <2>6, <2>7 DEF Next, Midnight, Work, Begin, Leave,
       ReserveRefused, Call, Observe, GiveUp, Stop, Crash, vars
  <2>9. Current(w) /\ worker[w].parent = p
    BY <1>1, <2>1, <2>2, <2>8 DEF Conclude, Yield
  <2>10. worker'[w].at = "IDLE" /\ worker[w].at # "IDLE"
    BY <2>1, <2>8, <2>9 DEF Conclude, Yield, Goto, At, Idle
  <2> QED
    BY <2>9, <2>10 DEF Current
<1>2. TypeOK /\ [Next]_vars
      => [\A p \in Parent :
            (child[p].status = "RUNNING" /\ child'[p].status \in {"READY", "BLOCKED", "DONE"})
            => /\ ~parent[p].cancelled /\ ~child[p].overdue
               /\ \E w \in Worker : /\ worker[w].parent = p
                                    /\ worker[w].generation = child[p].generation
                                    /\ worker'[w] # worker[w]]_vars
  BY <1>1
<1> QED
  BY <1>2, TypeCorrect, PTL DEF Spec, HolderConcludes

-----------------------------------------------------------------------------
(* The three ledgers of a call.                                            *)

\* A step that charges nothing.
ChargesNothing ==
    /\ daily' = daily
    /\ \A p \in Parent : /\ parent'[p].cost = parent[p].cost
                         /\ child'[p].cost = child[p].cost
                         /\ child'[p].calls = child[p].calls

\* A step that charges one call to p, and to a day.
Charges(p, d) ==
    /\ daily' = [daily EXCEPT ![d] = @ + 1]
    /\ \A q \in Parent \ {p} : /\ parent'[q].cost = parent[q].cost
                               /\ child'[q].cost = child[q].cost
                               /\ child'[q].calls = child[q].calls
    /\ child'[p].calls - child[p].calls = child'[p].cost - child[p].cost
    /\ parent'[p].cost + child'[p].cost = parent[p].cost + child[p].cost + 1

\* No step writes the ledgers in any other way.
LEMMA ChargeMoves ==
    ASSUME TypeOK, HandsAreFull, [Next]_vars
    PROVE  ChargesNothing \/ \E p \in Parent, d \in Day : Charges(p, d)
<1>1. /\ worker \in [Worker -> Hand] /\ child \in [Parent -> Child]
      /\ parent \in [Parent -> ParentRow] /\ daily \in [Day -> Nat] /\ today \in Day
    BY DEF TypeOK, Hand, Places, Child, ParentRow
<1>2. ASSUME child' = Expired, UNCHANGED <<daily, parent>> PROVE ChargesNothing
  <2>1. \A p \in Parent : Expired[p].calls = child[p].calls /\ Expired[p].cost = child[p].cost
    BY <1>1 DEF Expired, Child
  <2> QED
    BY <1>2, <2>1 DEF ChargesNothing
<1>3. CASE Midnight \/ UNCHANGED vars
    BY <1>3 DEF Midnight, vars, ChargesNothing
<1>4. ASSUME NEW p \in Parent, ParentReserves(p) PROVE Charges(p, today)
  <2>1. /\ parent'[p].cost = parent[p].cost + 1 /\ child' = child
        /\ \A q \in Parent \ {p} : parent'[q] = parent[q]
    BY <1>1, <1>4 DEF ParentReserves, ParentRow
  <2>2. parent[p].cost \in Nat /\ child[p].cost \in Nat /\ child[p].calls \in Nat
    BY <1>1 DEF ParentRow, Child
  <2> QED
    BY <1>4, <2>1, <2>2 DEF ParentReserves, Charges
<1>5. ASSUME NEW p \in Parent, DeadlinePasses(p) \/ ClaimRunsOut(p) \/ Delegate(p)
                               \/ CancelChild(p)
      PROVE  ChargesNothing
  <2>1. daily' = daily /\ parent' = parent
    BY <1>5 DEF DeadlinePasses, ClaimRunsOut, Delegate, CancelChild
  <2>2. \A q \in Parent : child'[q].calls = child[q].calls /\ child'[q].cost = child[q].cost
    BY <1>1, <1>5 DEF DeadlinePasses, ClaimRunsOut, Delegate, CancelChild, Child
  <2> QED
    BY <2>1, <2>2 DEF ChargesNothing
<1>6. ASSUME NEW p \in Parent, ParentMoves(p) \/ ParentFinishes(p) \/ Cancel(p)
      PROVE  ChargesNothing
  <2>1. daily' = daily /\ child' = child
    BY <1>6 DEF ParentMoves, ParentFinishes, Cancel
  <2>2. \A q \in Parent : parent'[q].cost = parent[q].cost
    BY <1>1, <1>6 DEF ParentMoves, ParentFinishes, Cancel, ParentRow
  <2> QED
    BY <2>1, <2>2 DEF ChargesNothing
<1>7. ASSUME NEW w \in Worker, Reserve(w) PROVE Charges(worker[w].parent, today)
  <2> DEFINE p == worker[w].parent
  <2>1. p \in Parent
    BY <1>7 DEF Reserve, At, HandsAreFull, Busy, Places
  <2>2. /\ child'[p].calls = child[p].calls + 1 /\ child'[p].cost = child[p].cost + 1
        /\ \A q \in Parent \ {p} : child'[q] = child[q]
    BY <1>1, <1>7, <2>1 DEF Reserve, Charged, Child
  <2>3. parent' = parent /\ daily' = [daily EXCEPT ![today] = @ + 1]
    BY <1>7 DEF Reserve
  <2>4. parent[p].cost \in Nat /\ child[p].cost \in Nat /\ child[p].calls \in Nat
    BY <1>1, <2>1 DEF ParentRow, Child
  <2> QED
    BY <2>2, <2>3, <2>4 DEF Charges
<1>8. ASSUME NEW w \in Worker, (\E p \in Parent : Claim(w, p)) \/ Conclude(w) \/ Yield(w)
      PROVE  ChargesNothing
  <2>1. daily' = daily /\ parent' = parent
    BY <1>8 DEF Claim, Conclude, Yield
  <2>2. ASSUME NEW p \in Parent, Claim(w, p), NEW q \in Parent
        PROVE  child'[q].calls = child[q].calls /\ child'[q].cost = child[q].cost
    BY <1>1, <2>2 DEF Claim, Child
  <2>3. ASSUME Conclude(w), NEW q \in Parent
        PROVE  child'[q].calls = child[q].calls /\ child'[q].cost = child[q].cost
    <3>1. CASE Current(w)
      BY <1>1, <2>3, <3>1 DEF Conclude, Child
    <3>2. CASE ~Current(w)
      BY <2>3, <3>2 DEF Conclude
    <3> QED
      BY <3>1, <3>2
  <2>4. ASSUME Yield(w), NEW q \in Parent
        PROVE  child'[q].calls = child[q].calls /\ child'[q].cost = child[q].cost
    <3>1. CASE Current(w)
      BY <1>1, <2>4, <3>1 DEF Yield, Child
    <3>2. CASE ~Current(w)
      BY <2>4, <3>2 DEF Yield
    <3> QED
      BY <3>1, <3>2
  <2> QED
    BY <1>8, <2>1, <2>2, <2>3, <2>4 DEF ChargesNothing
<1>9. ASSUME NEW w \in Worker, Begin(w) \/ Stop(w) PROVE ChargesNothing
    BY <1>2, <1>9 DEF Begin, Stop
<1>10. ASSUME NEW w \in Worker, \/ Leave(w) \/ ReserveRefused(w) \/ Call(w)
                                \/ Observe(w) \/ GiveUp(w) \/ Crash(w)
       PROVE  ChargesNothing
    BY <1>10 DEF Leave, ReserveRefused, Call, Observe, GiveUp, Crash, ChargesNothing
<1>11. \A w \in Worker : Reserve(w) => worker[w].parent \in Parent
    BY DEF Reserve, At, HandsAreFull, Busy, Places
<1> QED
    BY <1>1, <1>3, <1>4, <1>5, <1>6, <1>7, <1>8, <1>9, <1>10, <1>11 DEF Next, Ask, Work

\* The days' charges and the items' stay equal when both grow by one.
LEMMA SumsStayEqual ==
    ASSUME NEW f \in [Day -> Nat], NEW g \in [Day -> Nat],
           NEW u \in [Parent -> Nat], NEW v \in [Parent -> Nat],
           NEW d \in Day, g[d] = f[d] + 1, \A x \in Day \ {d} : g[x] = f[x],
           NEW p \in Parent, v[p] = u[p] + 1, \A x \in Parent \ {p} : v[x] = u[x],
           SumFunctionOnSet(f, Day) = SumFunctionOnSet(u, Parent)
    PROVE  SumFunctionOnSet(g, Day) = SumFunctionOnSet(v, Parent)
<1>1. IsFiniteSet(Day) /\ IsFiniteSet(Parent)
    BY DelegationAssumption, FS_Interval DEF Day
<1>2. \A x \in Day : f[x] \in Int /\ g[x] \in Int
    OBVIOUS
<1>3. \A x \in Parent : u[x] \in Int /\ v[x] \in Int
    OBVIOUS
<1>4. SumFunctionOnSet(g, Day) = SumFunctionOnSet(f, Day) + g[d] - f[d]
    BY <1>1, <1>2, SumChange
<1>5. SumFunctionOnSet(v, Parent) = SumFunctionOnSet(u, Parent) + v[p] - u[p]
    BY <1>1, <1>3, SumChange
<1>6. SumFunctionOnSet(f, Day) \in Int
    BY <1>1, <1>2, SumInt
<1> QED
    BY <1>2, <1>3, <1>4, <1>5, <1>6

LEMMA LedgersKept == IInv /\ TypeOK' /\ LedgersAgree /\ [Next]_vars => LedgersAgree'
<1> SUFFICES ASSUME IInv, TypeOK', LedgersAgree, [Next]_vars PROVE LedgersAgree'
    OBVIOUS
<1> DEFINE u == [p \in Parent |-> parent[p].cost + child[p].cost]
           v == [p \in Parent |-> parent'[p].cost + child'[p].cost]
<1>1. /\ daily \in [Day -> Nat] /\ daily' \in [Day -> Nat]
      /\ u \in [Parent -> Nat] /\ v \in [Parent -> Nat]
      /\ \A p \in Parent : /\ child[p].calls \in Nat /\ child[p].cost \in Nat
                           /\ child'[p].calls \in Nat /\ child'[p].cost \in Nat
    BY DEF IInv, TypeOK
<1>2. /\ \A p \in Parent : child[p].calls = child[p].cost
      /\ SumFunctionOnSet(daily, Day) = SumFunctionOnSet(u, Parent)
    BY DEF LedgersAgree
<1>3. CASE ChargesNothing
  <2>1. u = v /\ daily' = daily
    BY <1>3 DEF ChargesNothing
  <2> QED
    BY <1>2, <1>3, <2>1 DEF LedgersAgree, ChargesNothing
<1>4. ASSUME NEW p \in Parent, NEW d \in Day, Charges(p, d) PROVE LedgersAgree'
  <2>1. \A q \in Parent : child'[q].calls = child'[q].cost
    <3>1. child'[p].calls - child[p].calls = child'[p].cost - child[p].cost
      BY <1>4 DEF Charges
    <3>2. child'[p].calls = child'[p].cost
      BY <1>1, <1>2, <3>1
    <3>3. \A q \in Parent \ {p} : child'[q].calls = child'[q].cost
      BY <1>2, <1>4 DEF Charges
    <3> QED
      BY <3>2, <3>3
  <2>2. daily'[d] = daily[d] + 1 /\ \A x \in Day \ {d} : daily'[x] = daily[x]
    BY <1>1, <1>4 DEF Charges
  <2>3. v[p] = u[p] + 1 /\ \A x \in Parent \ {p} : v[x] = u[x]
    BY <1>4 DEF Charges
  <2>4. SumFunctionOnSet(daily', Day) = SumFunctionOnSet(v, Parent)
    <3>1. /\ daily \in [Day -> Nat] /\ daily' \in [Day -> Nat]
          /\ u \in [Parent -> Nat] /\ v \in [Parent -> Nat]
          /\ SumFunctionOnSet(daily, Day) = SumFunctionOnSet(u, Parent)
      BY <1>1, <1>2
    <3> HIDE DEF u, v
    <3> QED
      BY <2>2, <2>3, <3>1, SumsStayEqual
  <2> QED
    BY <2>1, <2>4 DEF LedgersAgree
<1>5. TypeOK /\ HandsAreFull
    BY DEF IInv
<1> QED
    BY <1>3, <1>4, <1>5, ChargeMoves

\* The contract, the row and the day agree on the calls that were charged
\* (reserve_model_call writes the three in one transaction), over any number of
\* parents and days, through crashes, takeovers, expiries and cancellations.
THEOREM LedgersNeverPart == Spec => []LedgersAgree
<1>1. Init => LedgersAgree
  <2> SUFFICES ASSUME Init PROVE LedgersAgree
    OBVIOUS
  <2>1. IsFiniteSet(Day) /\ IsFiniteSet(Parent)
    BY DelegationAssumption, FS_Interval DEF Day
  <2> DEFINE u == [p \in Parent |-> parent[p].cost + child[p].cost]
  <2>2. (\A d \in Day : daily[d] = 0) /\ (\A p \in Parent : u[p] = 0)
    BY DEF Init
  <2>3. SumFunctionOnSet(daily, Day) = 0
    BY <2>1, <2>2, SumZero
  <2>4. SumFunctionOnSet(u, Parent) = 0
    <3> HIDE DEF u
    <3> QED
      BY <2>1, <2>2, SumZero
  <2>5. \A p \in Parent : child[p].calls = child[p].cost
    BY DEF Init
  <2> QED
    BY <2>3, <2>4, <2>5 DEF LedgersAgree
<1>2. IInv => TypeOK
    BY DEF IInv
<1> QED
    BY <1>1, <1>2, Invariance, LedgersKept, PTL DEF Spec
=============================================================================
