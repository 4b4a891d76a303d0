---------------------------- MODULE RestoreProofs ----------------------------
(***************************************************************************)
(* Restoring a backup over a supplier that cannot be restored, for any     *)
(* number of restores, recoveries, workers, orders and rotations of the    *)
(* account.                                                                *)
(*                                                                         *)
(* What may still be sold is known when the assistant may act, because a   *)
(* recovery reads the receipts behind a fence that no request of an older  *)
(* history passes: every epoch a worker, a request or a database carries   *)
(* is older than the rotation of a restore that is not yet recovered       *)
(* (Old), so nothing is sold between the export and the commit (Runs).     *)
(* The ceiling holds of everything that may still be sold, also of what    *)
(* the history that is lost sent: it was admitted by a ledger that held    *)
(* the money (Covered).                                                    *)
(***************************************************************************)
EXTENDS Restore, SetFacts, TLAPS

Held == {"APPROVED", "SENDING"}
Known == {"SENDING", "CONFIRMED"}
Shelved == {"PREPARED", "PAUSED", "MARKED"}

\* The rows of database d in one of the states of X.
In(d, X) == {o \in Order : d.order[o].status \in X}

\* The money columns of database d.
Books(d) ==
    /\ d.reserved = Total(In(d, Held))
    /\ d.spent = Total(In(d, {"CONFIRMED"}))
    /\ d.spent + d.reserved <= Limit

\* Epochs that a database has had.
Begun(e) == e = Original \/ restore[e].at = "DONE"

\* The database was restored, the account is fenced for it, and nothing was
\* committed yet.
Fenced == db.epoch \notin db.recovered /\ supplier.rotation[db.epoch] # 0

\* An epoch of the account that somebody carries.
Old(c) == c <= supplier.epoch /\ (Fenced => c < supplier.rotation[db.epoch])

\* What is true of every database: the live one, the snapshot, the images.
Sound(d) == (\A e \in d.recovered : Begun(e)) /\ Old(d.binding) /\ Books(d)

\* The database is as it was created, or was recovered after it was restored.
Trusted ==
    \/ db.epoch \in db.recovered
    \/ db.epoch = Original /\ supplier.rotation[Original] = 0

\* What the supplier has sold, or would sell if a request on its way arrived.
Sellable ==
    {o \in Order : \/ supplier.receipt[o] = "ACCEPTED"
                   \/ /\ supplier.receipt[o] = "NONE"
                      /\ \E m \in wire : m.order = o /\ m.epoch = supplier.epoch}

Hands ==
    \A k \in Worker :
        /\ worker[k].at # "IDLE" => worker[k].order \in Order
        /\ worker[k].at = "RECORD" => supplier.receipt[worker[k].order] # "NONE"
        /\ Old(worker[k].client)

Requests == \A m \in wire : Old(m.epoch)

Databases ==
    /\ Begun(db.epoch) /\ Sound(db)
    /\ backup # None => Sound(backup)
    /\ \A r \in Restoring : restore[r].at \in Shelved =>
          /\ Sound(restore[r].image)
          /\ restore[r].image.epoch = r /\ restore[r].image.paused

Rotations ==
    /\ \A e \in Epoch : /\ supplier.rotation[e] <= supplier.epoch
                        /\ ~Begun(e) => supplier.rotation[e] = 0
    /\ db.epoch \in db.recovered => supplier.rotation[db.epoch] # 0

\* A run of recover-account is of a database there is or was, and what one of
\* the live database has read is still so.
RunOfRecovery(p) ==
    /\ operator[p].at # "IDLE" => Begun(operator[p].epoch)
    /\ operator[p].at \in {"EXPORT", "COMMIT"} =>
          /\ operator[p].provider = supplier.rotation[operator[p].epoch]
          /\ operator[p].provider # 0
    /\ (/\ operator[p].at # "IDLE" /\ operator[p].epoch = db.epoch
        /\ db.epoch \notin db.recovered) =>
          /\ db.paused
          /\ operator[p].at = "COMMIT" => operator[p].receipts = supplier.receipt

Runs == \A p \in Operator : RunOfRecovery(p)

Covered ==
    /\ ~db.paused => Trusted
    /\ Trusted => \A o \in Sellable : Status(o) \in Known
    /\ Total(Sellable) <= Limit

IInv == /\ TypeOK /\ Hands /\ Requests /\ Databases
        /\ Rotations /\ Runs /\ Covered

-----------------------------------------------------------------------------
(* Totals of amounts.                                                      *)

LEMMA TotalNat ==
    ASSUME NEW S \in SUBSET Order
    PROVE  IsFiniteSet(S) /\ Total(S) \in Nat
<1>1. IsFiniteSet(S)
  BY RestoreAssumption, FS_Subset
<1>2. \A o \in S : Amount[o] \in Nat
  BY RestoreAssumption
<1> QED BY <1>1, <1>2, SumNat DEF Total

\* Two parts make the whole.
LEMMA TotalUnion ==
    ASSUME NEW A \in SUBSET Order, NEW B \in SUBSET Order, A \cap B = {}
    PROVE  Total(A \cup B) = Total(A) + Total(B)
<1> DEFINE S == A \cup B
<1>1. IsFiniteSet(S) /\ A \in SUBSET S /\ S \ A = B
  BY TotalNat
<1>2. \A o \in S : Amount[o] \in Int
  BY RestoreAssumption
<1> HIDE DEF S
<1>3. Total(S) = Total(A) + Total(S \ A)
  BY <1>1, <1>2, SumParts DEF Total
<1> QED BY <1>1, <1>3 DEF S

\* A part is no more than the whole.
LEMMA TotalPart ==
    ASSUME NEW S \in SUBSET Order, NEW R \in SUBSET S
    PROVE  Total(R) <= Total(S)
<1>1. R \in SUBSET Order /\ S \ R \in SUBSET Order /\ S = R \cup (S \ R)
  OBVIOUS
<1>2. Total(S) = Total(R) + Total(S \ R)
  BY <1>1, TotalUnion
<1> QED BY <1>1, <1>2, TotalNat

LEMMA TotalOne == ASSUME NEW q \in Order PROVE Total({q}) = Amount[q]
<1>1. Amount[q] \in Int
  BY RestoreAssumption
<1> QED BY <1>1, SumOne DEF Total

\* What a row of one order contributes to the rows in X.
Share(d, q, X) == IF d.order[q].status \in X THEN Amount[q] ELSE 0

\* Where one row differs, totals differ by what it contributes.
LEMMA RowMoves ==
    ASSUME NEW d, NEW e, NEW q \in Order, NEW X,
           \A o \in Order \ {q} : e.order[o].status = d.order[o].status
    PROVE  Total(In(e, X)) = Total(In(d, X)) + Share(e, q, X) - Share(d, q, X)
<1> DEFINE R == In(d, X) \ {q}
<1>1. R \in SUBSET Order /\ {q} \in SUBSET Order /\ R \cap {q} = {}
  BY DEF In
<1>2. /\ In(d, X) = IF d.order[q].status \in X THEN R \cup {q} ELSE R
      /\ In(e, X) = IF e.order[q].status \in X THEN R \cup {q} ELSE R
  BY DEF In
<1> HIDE DEF R
<1>3. Total(R \cup {q}) = Total(R) + Amount[q] /\ Total(R) \in Nat /\ Amount[q] \in Nat
  BY <1>1, TotalUnion, TotalNat, TotalOne, RestoreAssumption
<1> QED BY <1>2, <1>3 DEF Share

\* Orders that a balanced ledger knows as sent or sold fit the ceiling.
LEMMA KnownFits ==
    ASSUME NEW d, Books(d), NEW S \in SUBSET Order,
           \A o \in S : d.order[o].status \in Known
    PROVE  Total(S) <= Limit
<1> DEFINE H == In(d, Held)
           C == In(d, {"CONFIRMED"})
<1>1. /\ H \in SUBSET Order /\ C \in SUBSET Order /\ H \cap C = {}
      /\ S \in SUBSET (H \cup C)
  BY DEF In, Held, Known
<1>2. d.reserved = Total(H) /\ d.spent = Total(C) /\ d.spent + d.reserved <= Limit
  BY DEF Books
<1> HIDE DEF H, C
<1>3. Total(S) <= Total(H) + Total(C)
  BY <1>1, TotalUnion, TotalPart
<1>4. Total(S) \in Nat /\ Total(H) \in Nat /\ Total(C) \in Nat /\ Limit \in Nat
  BY <1>1, TotalNat, RestoreAssumption
<1> QED BY <1>2, <1>3, <1>4

-----------------------------------------------------------------------------
(* What a step does to the database.                                       *)

\* d with another row for q and other money columns.
Rewritten(d, q, row, m, n) ==
    [epoch |-> d.epoch, paused |-> d.paused, order |-> [d.order EXCEPT ![q] = row],
     reserved |-> m, spent |-> n, binding |-> d.binding, holder |-> d.holder,
     recovered |-> d.recovered]

LEMMA RewrittenType ==
    ASSUME NEW d \in Database, NEW q \in Order, NEW row \in Row, NEW m \in Int, NEW n \in Int
    PROVE  Rewritten(d, q, row, m, n) \in Database
BY DEF Rewritten, Database

\* A step that writes one row of the ledger, and its columns as that row asks.
Writes(q) ==
    \E row \in Row :
        /\ db' = Rewritten(db, q, row,
                 db.reserved + (IF row.status \in Held THEN Amount[q] ELSE 0)
                             - Share(db, q, Held),
                 db.spent + (IF row.status = "CONFIRMED" THEN Amount[q] ELSE 0)
                          - Share(db, q, {"CONFIRMED"}))
        /\ \/ /\ row.status = "APPROVED" /\ Status(q) = "DRAFT"
              /\ db.spent + db.reserved + Amount[q] <= Limit
           \/ row.status = "DRAFT" /\ Status(q) = "NONE"
           \/ row.status = "SENDING" /\ Status(q) \in Held
           \/ row.status = "REVOKED" /\ Status(q) \in {"DRAFT", "APPROVED"}
           \/ row.status = Status(q)
           \/ /\ Status(q) = "SENDING" /\ supplier.receipt[q] # "NONE"
              /\ row.status = IF supplier.receipt[q] = "ACCEPTED" THEN "CONFIRMED"
                              ELSE "REJECTED"

LEMMA ProposeWrites ==
    ASSUME TypeOK, NEW k \in Worker, NEW o \in Order, Propose(k, o)
    PROVE  Writes(o)
<1>1. db \in Database /\ db.order[o] \in Row /\ db.order \in [Order -> Row]
  BY DEF TypeOK, Database
<1> DEFINE row == [db.order[o] EXCEPT !.status = "DRAFT"]
<1>2. row \in Row /\ row.status = "DRAFT"
  BY <1>1 DEF Row
<1>3. db' = [db EXCEPT !.order = [db.order EXCEPT ![o] = row]] /\ Status(o) = "NONE"
  BY DEF Propose
<1> HIDE DEF row
<1>4. Share(db, o, Held) = 0 /\ Share(db, o, {"CONFIRMED"}) = 0
  BY <1>3 DEF Share, Status, Held
<1>5. db.reserved + 0 - 0 = db.reserved /\ db.spent + 0 - 0 = db.spent
  BY <1>1 DEF Database
<1>6. db' = Rewritten(db, o, row, db.reserved, db.spent)
  BY <1>1, <1>3 DEF Rewritten, Database
<1> QED BY <1>2, <1>3, <1>4, <1>5, <1>6 DEF Writes, Held

LEMMA ApproveWrites ==
    ASSUME TypeOK, NEW o \in Order, Approve(o)
    PROVE  Writes(o)
<1>1. /\ db \in Database /\ db.order[o] \in Row /\ db.order \in [Order -> Row]
      /\ Amount[o] \in Nat
  BY RestoreAssumption DEF TypeOK, Database
<1> DEFINE row == [db.order[o] EXCEPT !.status = "APPROVED"]
           sum == db.reserved + Amount[o]
<1>2. row \in Row /\ row.status = "APPROVED"
  BY <1>1 DEF Row
<1>3. /\ db' = [db EXCEPT !.order = [db.order EXCEPT ![o] = row], !.reserved = sum]
      /\ Status(o) = "DRAFT" /\ db.spent + db.reserved + Amount[o] <= Limit
  BY DEF Approve
<1>4. /\ Share(db, o, Held) = 0 /\ Share(db, o, {"CONFIRMED"}) = 0
      /\ sum = db.reserved + Amount[o] - 0 /\ db.spent = db.spent + 0 - 0
  BY <1>1, <1>3 DEF Share, Status, Held, Database
<1> HIDE DEF row, sum
<1>5. db' = Rewritten(db, o, row, sum, db.spent)
  BY <1>1, <1>3 DEF Rewritten, Database
<1> QED BY <1>2, <1>3, <1>4, <1>5 DEF Writes, Held

LEMMA RevokeWrites ==
    ASSUME TypeOK, NEW o \in Order, Revoke(o)
    PROVE  Writes(o)
<1>1. /\ db \in Database /\ db.order[o] \in Row /\ db.order \in [Order -> Row]
      /\ Amount[o] \in Nat
  BY RestoreAssumption DEF TypeOK, Database
<1> DEFINE row == [status |-> IF Status(o) \in {"DRAFT", "APPROVED"} THEN "REVOKED"
                              ELSE Status(o),
                   revoked |-> TRUE]
           sum == IF Status(o) = "APPROVED" THEN db.reserved - Amount[o] ELSE db.reserved
<1>2. row \in Row /\ row.status = IF Status(o) \in {"DRAFT", "APPROVED"} THEN "REVOKED"
                                  ELSE Status(o)
  BY <1>1 DEF Row, Status
<1>3. db' = [db EXCEPT !.order = [db.order EXCEPT ![o] = row], !.reserved = sum]
  BY DEF Revoke
<1>4. /\ sum = db.reserved + (IF row.status \in Held THEN Amount[o] ELSE 0)
                - Share(db, o, Held)
      /\ db.spent = db.spent + (IF row.status = "CONFIRMED" THEN Amount[o] ELSE 0)
                    - Share(db, o, {"CONFIRMED"})
  BY <1>1, <1>2 DEF Share, Status, Held, Database
<1> HIDE DEF row, sum
<1>5. db' = Rewritten(db, o, row, sum, db.spent)
  BY <1>1, <1>3 DEF Rewritten, Database
<1> QED BY <1>2, <1>4, <1>5 DEF Writes

LEMMA AdmitWrites ==
    ASSUME TypeOK, Hands, NEW k \in Worker, Admit(k)
    PROVE  worker[k].order \in Order /\ Writes(worker[k].order)
<1> DEFINE o == worker[k].order
<1>1. o \in Order /\ Status(o) \in Held
  BY DEF Hands, Admit, Held
<1>2. /\ db \in Database /\ db.order[o] \in Row /\ db.order \in [Order -> Row]
      /\ Amount[o] \in Nat
  BY <1>1, RestoreAssumption DEF TypeOK, Database
<1> DEFINE row == [db.order[o] EXCEPT !.status = "SENDING"]
<1>3. row \in Row /\ row.status = "SENDING"
  BY <1>2 DEF Row
<1>4. db' = [db EXCEPT !.order = [db.order EXCEPT ![o] = row]]
  BY DEF Admit
<1> HIDE DEF row, o
<1>5. /\ Share(db, o, Held) = Amount[o] /\ Share(db, o, {"CONFIRMED"}) = 0
      /\ db.reserved = db.reserved + Amount[o] - Amount[o] /\ db.spent = db.spent + 0 - 0
  BY <1>1, <1>2 DEF Share, Status, Held, Database
<1>6. db' = Rewritten(db, o, row, db.reserved, db.spent)
  BY <1>2, <1>4 DEF Rewritten, Database
<1>7. Writes(o)
  BY <1>1, <1>3, <1>5, <1>6 DEF Writes, Held
<1> QED BY <1>1, <1>7 DEF o

LEMMA RecordWrites ==
    ASSUME TypeOK, Hands, NEW k \in Worker, Record(k), db' # db
    PROVE  worker[k].order \in Order /\ Writes(worker[k].order)
<1> DEFINE o == worker[k].order
           status == IF supplier.receipt[o] = "ACCEPTED" THEN "CONFIRMED" ELSE "REJECTED"
           m == db.reserved - Amount[o]
           n == IF supplier.receipt[o] = "ACCEPTED" THEN db.spent + Amount[o] ELSE db.spent
<1>1. o \in Order /\ supplier.receipt[o] # "NONE" /\ Status(o) = "SENDING"
  BY DEF Hands, Record
<1>2. /\ db \in Database /\ db.order[o] \in Row /\ db.order \in [Order -> Row]
      /\ Amount[o] \in Nat
  BY <1>1, RestoreAssumption DEF TypeOK, Database
<1> DEFINE row == [db.order[o] EXCEPT !.status = status]
<1>3. row \in Row /\ row.status = status
  BY <1>2 DEF Row
<1>4. db' = [db EXCEPT !.order = [db.order EXCEPT ![o] = row], !.reserved = m, !.spent = n]
  BY DEF Record
<1>5. /\ m = db.reserved + (IF status \in Held THEN Amount[o] ELSE 0) - Share(db, o, Held)
      /\ n = db.spent + (IF status = "CONFIRMED" THEN Amount[o] ELSE 0)
             - Share(db, o, {"CONFIRMED"})
  BY <1>1, <1>2 DEF Share, Status, Held, Database
<1> HIDE DEF row, m, n
<1>6. db' = Rewritten(db, o, row, m, n)
  BY <1>2, <1>4 DEF Rewritten, Database
<1> HIDE DEF o
<1>7. Writes(o)
  BY <1>1, <1>3, <1>5, <1>6 DEF Writes
<1> QED BY <1>1, <1>7 DEF o

\* Which actions write which variable.
LEMMA Writers ==
    ASSUME TypeOK, Hands, [Next]_vars
    PROVE  /\ \/ db' = db \/ \E q \in Order : Writes(q)
              \/ \E k \in Worker : Claim(k)
              \/ \E r \in Restoring : Pause(r) \/ Copy(r)
              \/ \E p \in Operator : Commit(p)
           /\ marker' = marker \/ \E r \in Restoring : Mark(r)
           /\ backup' = backup \/ Backup
           /\ \/ restore' = restore
              \/ \E r \in Restoring : Prepare(r) \/ Pause(r) \/ Mark(r) \/ Copy(r)
           /\ \/ worker' = worker
              \/ \E k \in Worker : \/ Start(k) \/ Claim(k) \/ Admit(k) \/ AdmitRefused(k)
                                   \/ Record(k) \/ \E o \in Order : Discover(k, o)
           /\ \/ operator' = operator
              \/ \E p \in Operator : \/ Begin(p) \/ Fence(p) \/ Export(p)
                                     \/ Commit(p) \/ CommitRefused(p)
           /\ \/ UNCHANGED <<supplier, wire>>
              \/ \E m \in wire, answer \in Answer : Deliver(m, answer)
              \/ \E p \in Operator : Fence(p)
              \/ \E k \in Worker : Admit(k)
<1>1. CASE Purchase
  <2>1. \A o \in Order : (\E k \in Worker : Propose(k, o)) \/ Approve(o) \/ Revoke(o)
                         => Writes(o) /\ UNCHANGED <<marker, backup, restore, worker,
                                                     operator, supplier, wire>>
    BY ProposeWrites, ApproveWrites, RevokeWrites DEF Propose, Approve, Revoke
  <2>2. \A k \in Worker : Admit(k) => /\ \E q \in Order : Writes(q)
                                      /\ UNCHANGED <<marker, backup, restore, operator>>
    BY AdmitWrites DEF Admit
  <2>3. \A k \in Worker : Record(k) => /\ db' = db \/ \E q \in Order : Writes(q)
                                       /\ UNCHANGED <<marker, backup, restore, operator,
                                                      supplier, wire>>
    BY RecordWrites DEF Record
  <2>4. \A k \in Worker : Start(k) \/ AdmitRefused(k) \/ (\E o \in Order : Discover(k, o))
                          => UNCHANGED <<db, marker, backup, restore, operator, supplier,
                                         wire>>
    BY DEF Start, AdmitRefused, Discover
  <2>5. \A k \in Worker : Claim(k) => UNCHANGED <<marker, backup, restore, operator,
                                                  supplier, wire>>
    BY DEF Claim
  <2> QED BY <1>1, <2>1, <2>2, <2>3, <2>4, <2>5 DEF Purchase
<1>2. CASE Network
  BY <1>2 DEF Network, Deliver
<1>3. CASE Maintain
  BY <1>3 DEF Maintain, Backup, Prepare, Pause, Mark, Copy
<1>4. CASE Recover
  BY <1>4 DEF Recover, Begin, Fence, Export, Commit, CommitRefused
<1>5. CASE UNCHANGED vars
  BY <1>5 DEF vars
<1> QED BY <1>1, <1>2, <1>3, <1>4, <1>5 DEF Next

\* What pausing, claiming and recovering leave of the database.
LEMMA DatabaseType ==
    ASSUME TypeOK, Hands, [Next]_vars
    PROVE  db' \in Database
<1>1. db \in Database
  BY DEF TypeOK
<1>2. ASSUME NEW q \in Order, Writes(q) PROVE db' \in Database
  <2>1. Amount[q] \in Int /\ db.reserved \in Int /\ db.spent \in Int
    BY <1>1, RestoreAssumption DEF Database
  <2>2. PICK row \in Row, m \in Int, n \in Int : db' = Rewritten(db, q, row, m, n)
    BY <1>2, <2>1 DEF Writes, Share
  <2> QED BY <1>1, <2>2, RewrittenType
<1>3. ASSUME NEW k \in Worker, Claim(k) PROVE db' \in Database
  BY <1>1, <1>3 DEF Claim, Database
<1>4. ASSUME NEW r \in Restoring, Pause(r) PROVE db' \in Database
  BY <1>1, <1>4 DEF Pause, Database
<1>5. ASSUME NEW r \in Restoring, Copy(r) PROVE db' \in Database
  BY <1>5 DEF Copy, TypeOK
<1>6. ASSUME NEW p \in Operator, Commit(p) PROVE db' \in Database
  <2> DEFINE rows == [o \in Order |-> Rebuilt(o, operator[p].receipts[o])]
             sold == Total(Accepted(operator[p].receipts))
             binding == operator[p].provider
             recovered == db.recovered \cup {db.epoch}
  <2>1. rows \in [Order -> Row]
    BY DEF Rebuilt, NoRow, Row
  <2>2. sold \in Nat /\ binding \in Nat /\ recovered \in SUBSET Epoch /\ db.epoch \in Epoch
    BY <1>1, TotalNat DEF TypeOK, Accepted, Database
  <2>3. db' = [epoch |-> db.epoch, paused |-> FALSE, order |-> rows, reserved |-> 0,
               spent |-> sold, binding |-> binding, holder |-> None,
               recovered |-> recovered]
    BY <1>6 DEF Commit
  <2> HIDE DEF rows, sold, binding, recovered
  <2> QED BY <2>1, <2>2, <2>3 DEF Database
<1> QED BY <1>1, <1>2, <1>3, <1>4, <1>5, <1>6, Writers

\* The image a restore prepares.
LEMMA ImageType ==
    ASSUME TypeOK, NEW r \in Restoring, backup # None
    PROVE  /\ Image(r) \in Database
           /\ Image(r).epoch = r /\ Image(r).paused
           /\ Image(r).recovered = backup.recovered /\ Image(r).binding = backup.binding
           /\ Image(r).reserved = backup.reserved /\ Image(r).spent = backup.spent
           /\ \A o \in Order : Image(r).order[o].status = backup.order[o].status
<1>1. backup \in Database
  BY DEF TypeOK
<1> DEFINE rows == Disavowed(backup.order)
<1>2. rows \in [Order -> Row] /\ \A o \in Order : rows[o].status = backup.order[o].status
  BY <1>1 DEF Disavowed, Database, Row
<1>3. Image(r) = [backup EXCEPT !.epoch = r, !.paused = TRUE, !.holder = None, !.order = rows]
  BY DEF Image
<1> HIDE DEF rows
<1>4. Image(r) = [epoch |-> r, paused |-> TRUE, order |-> rows,
                  reserved |-> backup.reserved, spent |-> backup.spent,
                  binding |-> backup.binding, holder |-> None,
                  recovered |-> backup.recovered]
  BY <1>1, <1>3 DEF Database
<1>5. Image(r) \in Database
  BY <1>1, <1>2, <1>4 DEF Database, Epoch
<1> QED BY <1>2, <1>4, <1>5

LEMMA Types == TypeOK /\ Hands /\ [Next]_vars => TypeOK'
<1> SUFFICES ASSUME TypeOK, Hands, [Next]_vars PROVE TypeOK'
  OBVIOUS
<1>1. db' \in Database /\ db \in Database
  BY DatabaseType DEF TypeOK
<1>2. marker' \in Epoch
  BY Writers DEF TypeOK, Mark, Epoch
<1>3. backup' \in Database \cup {None}
  BY <1>1, Writers DEF TypeOK, Backup
<1> DEFINE Free == [at : {"UNUSED", "DONE"}, image : {None}]
           Full == [at : {"PREPARED", "PAUSED", "MARKED"}, image : Database]
<1>4. restore' \in [Restoring -> Free \cup Full]
  <2>1. restore \in [Restoring -> Free \cup Full]
    BY DEF TypeOK
  <2>2. ASSUME NEW r \in Restoring, NEW rest \in Free \cup Full,
               restore' = [restore EXCEPT ![r] = rest]
        PROVE  restore' \in [Restoring -> Free \cup Full]
    BY <2>1, <2>2
  <2>3. ASSUME NEW r \in Restoring, Prepare(r)
        PROVE  \E rest \in Free \cup Full : restore' = [restore EXCEPT ![r] = rest]
    <3>1. Image(r) \in Database
      BY <2>3, ImageType DEF Prepare
    <3>2. [at |-> "PREPARED", image |-> Image(r)] \in Full
      BY <3>1
    <3> QED BY <2>3, <3>2 DEF Prepare
  <2>4. ASSUME NEW r \in Restoring, NEW at \in {"PAUSED", "MARKED"},
               restore[r].at \in {"PREPARED", "PAUSED"},
               restore' = [restore EXCEPT ![r].at = at]
        PROVE  \E rest \in Free \cup Full : restore' = [restore EXCEPT ![r] = rest]
    <3>1. restore[r] \in Full
      BY <2>1, <2>4
    <3>2. [restore[r] EXCEPT !.at = at] \in Full
      BY <3>1
    <3> QED BY <2>4, <3>2
  <2>5. ASSUME NEW r \in Restoring, Copy(r)
        PROVE  \E rest \in Free \cup Full : restore' = [restore EXCEPT ![r] = rest]
    <3>1. [at |-> "DONE", image |-> None] \in Free
      OBVIOUS
    <3> QED BY <2>5, <3>1 DEF Copy
  <2>6. \A r \in Restoring : Pause(r) \/ Mark(r) =>
           \E rest \in Free \cup Full : restore' = [restore EXCEPT ![r] = rest]
    BY <2>4 DEF Pause, Mark
  <2> HIDE DEF Free, Full
  <2> QED BY <2>1, <2>2, <2>3, <2>5, <2>6, Writers
<1>5. worker' \in [Worker -> [at : {"IDLE", "ADMIT", "RECORD"}, epoch : Epoch,
                              client : Nat, order : Order \cup {None}]]
  <2>1. /\ db.binding \in Nat /\ db.epoch \in Epoch
        /\ worker \in [Worker -> [at : {"IDLE", "ADMIT", "RECORD"}, epoch : Epoch,
                                  client : Nat, order : Order \cup {None}]]
    BY <1>1 DEF TypeOK, Database
  <2>2. ASSUME NEW k \in Worker, Start(k)
        PROVE  worker' \in [Worker -> [at : {"IDLE", "ADMIT", "RECORD"}, epoch : Epoch,
                                       client : Nat, order : Order \cup {None}]]
    BY <2>1, <2>2 DEF Start
  <2>3. ASSUME NEW k \in Worker, Claim(k)
        PROVE  worker' \in [Worker -> [at : {"IDLE", "ADMIT", "RECORD"}, epoch : Epoch,
                                       client : Nat, order : Order \cup {None}]]
    BY <2>1, <2>3 DEF Claim
  <2>4. ASSUME NEW k \in Worker, Admit(k) \/ AdmitRefused(k) \/ Record(k)
        PROVE  worker' \in [Worker -> [at : {"IDLE", "ADMIT", "RECORD"}, epoch : Epoch,
                                       client : Nat, order : Order \cup {None}]]
    BY <2>1, <2>4 DEF Admit, AdmitRefused, Record, Stay
  <2>5. ASSUME NEW k \in Worker, NEW o \in Order, Discover(k, o)
        PROVE  worker' \in [Worker -> [at : {"IDLE", "ADMIT", "RECORD"}, epoch : Epoch,
                                       client : Nat, order : Order \cup {None}]]
    <3>1. PICK at \in {"RECORD", "ADMIT"} :
             worker' = [worker EXCEPT ![k].at = at, ![k].order = o]
      BY <2>5 DEF Discover
    <3> QED BY <2>1, <3>1
  <2> QED BY <2>1, <2>2, <2>3, <2>4, <2>5, Writers
<1> DEFINE Recovery == [at : {"IDLE", "FENCE", "EXPORT", "COMMIT"}, epoch : Epoch,
                        provider : Nat, receipts : [Order -> Receipt]]
<1>6. operator' \in [Operator -> Recovery]
  <2>1. /\ operator \in [Operator -> Recovery] /\ Rest \in Recovery
        /\ db.epoch \in Epoch /\ supplier.epoch \in Nat /\ supplier.receipt \in [Order -> Receipt]
        /\ supplier.rotation \in [Epoch -> Nat]
    BY <1>1 DEF TypeOK, Rest, Receipt, Epoch, Database
  <2>2. ASSUME NEW p \in Operator, Begin(p) PROVE operator' \in [Operator -> Recovery]
    BY <2>1, <2>2 DEF Begin
  <2>3. ASSUME NEW p \in Operator, Fence(p) PROVE operator' \in [Operator -> Recovery]
    <3> DEFINE new == IF supplier.rotation[operator[p].epoch] = 0 THEN supplier.epoch + 1
                      ELSE supplier.rotation[operator[p].epoch]
    <3>1. new \in Nat
      BY <2>1
    <3>2. operator' = [operator EXCEPT ![p].at = "EXPORT", ![p].provider = new]
      BY <2>3 DEF Fence
    <3> HIDE DEF new
    <3> QED BY <2>1, <3>1, <3>2
  <2>4. ASSUME NEW p \in Operator, Export(p) PROVE operator' \in [Operator -> Recovery]
    <3> DEFINE r == [operator[p] EXCEPT !.at = "COMMIT", !.receipts = supplier.receipt]
    <3>1. r \in Recovery
      BY <2>1
    <3>2. \E x \in {r, Rest} : operator' = [operator EXCEPT ![p] = x]
      BY <2>1, <2>4 DEF Export
    <3> HIDE DEF r
    <3> QED BY <2>1, <3>1, <3>2
  <2>5. ASSUME NEW p \in Operator, Commit(p) \/ CommitRefused(p)
        PROVE  operator' \in [Operator -> Recovery]
    BY <2>1, <2>5 DEF Commit, CommitRefused
  <2> QED BY <2>1, <2>2, <2>3, <2>4, <2>5, Writers
<1>7. /\ supplier' \in [epoch : Nat, rotation : [Epoch -> Nat], receipt : [Order -> Receipt]]
      /\ wire' \subseteq [order : Order, epoch : Nat]
  <2>1. /\ supplier \in [epoch : Nat, rotation : [Epoch -> Nat], receipt : [Order -> Receipt]]
        /\ wire \subseteq [order : Order, epoch : Nat]
        /\ \A p \in Operator : operator[p].epoch \in Epoch
    BY DEF TypeOK
  <2>2. ASSUME NEW m \in wire, NEW answer \in Answer, Deliver(m, answer)
        PROVE  /\ supplier' \in [epoch : Nat, rotation : [Epoch -> Nat],
                                 receipt : [Order -> Receipt]]
               /\ wire' \subseteq [order : Order, epoch : Nat]
    <3>1. answer \in Receipt
      BY RestoreAssumption DEF Receipt
    <3>2. \E x \in {answer, supplier.receipt[m.order]} :
             supplier' = [supplier EXCEPT !.receipt = [supplier.receipt EXCEPT ![m.order] = x]]
      BY <2>1, <2>2 DEF Deliver
    <3>3. supplier.receipt[m.order] \in Receipt
      BY <2>1
    <3> QED BY <2>1, <2>2, <3>1, <3>2, <3>3 DEF Deliver
  <2>3. ASSUME NEW p \in Operator, Fence(p)
        PROVE  /\ supplier' \in [epoch : Nat, rotation : [Epoch -> Nat],
                                 receipt : [Order -> Receipt]]
               /\ wire' \subseteq [order : Order, epoch : Nat]
    <3> DEFINE e == operator[p].epoch
               new == IF supplier.rotation[e] = 0 THEN supplier.epoch + 1
                      ELSE supplier.rotation[e]
               now == IF supplier.rotation[e] = 0 THEN new ELSE supplier.epoch
               table == [supplier.rotation EXCEPT ![e] = new]
    <3>1. now \in Nat /\ table \in [Epoch -> Nat]
      BY <2>1
    <3>2. supplier' = [supplier EXCEPT !.epoch = now, !.rotation = table]
      BY <2>1, <2>3 DEF Fence
    <3> HIDE DEF now, table
    <3>3. supplier' = [epoch |-> now, rotation |-> table, receipt |-> supplier.receipt]
      BY <2>1, <3>2
    <3> QED BY <2>1, <2>3, <3>1, <3>3 DEF Fence
  <2>4. ASSUME NEW k \in Worker, Admit(k)
        PROVE  /\ supplier' \in [epoch : Nat, rotation : [Epoch -> Nat],
                                 receipt : [Order -> Receipt]]
               /\ wire' \subseteq [order : Order, epoch : Nat]
    <3>1. worker[k].order \in Order /\ worker[k].client \in Nat
      BY <2>4 DEF Hands, Admit, TypeOK
    <3> QED BY <2>1, <2>4, <3>1 DEF Admit
  <2> QED BY <2>1, <2>2, <2>3, <2>4, Writers
<1> QED BY <1>1, <1>2, <1>3, <1>4, <1>5, <1>6, <1>7 DEF TypeOK

-----------------------------------------------------------------------------
(* Epochs, of databases and of the account.                                *)

\* Nothing happens to the epochs.
EpochsStay ==
    /\ db'.epoch = db.epoch /\ db'.recovered = db.recovered /\ db'.binding = db.binding
    /\ supplier'.epoch = supplier.epoch /\ supplier'.rotation = supplier.rotation
    /\ \A e \in Epoch : Begun(e)' = Begun(e)

LEMMA EpochMoves ==
    ASSUME TypeOK, Hands, [Next]_vars
    PROVE  \/ EpochsStay
           \/ \E p \in Operator : Fence(p) \/ Commit(p)
           \/ \E r \in Restoring : Copy(r)
<1>1. db \in Database /\ DOMAIN restore = Restoring /\ Original \notin Restoring
  BY RestoreAssumption DEF TypeOK
<1> USE DEF EpochsStay
<1>2. ASSUME \/ db' = db
             \/ \E q \in Order : Writes(q)
             \/ \E k \in Worker : Claim(k)
             \/ \E r \in Restoring : Pause(r)
      PROVE  db'.epoch = db.epoch /\ db'.recovered = db.recovered /\ db'.binding = db.binding
  <2>1. ASSUME NEW q \in Order, Writes(q)
        PROVE  db'.epoch = db.epoch /\ db'.recovered = db.recovered /\ db'.binding = db.binding
    <3>1. PICK row, m, n : db' = Rewritten(db, q, row, m, n)
      BY <2>1 DEF Writes
    <3> QED BY <3>1 DEF Rewritten
  <2> QED BY <1>1, <1>2, <2>1 DEF Claim, Pause, Database
<1>3. ASSUME \/ UNCHANGED <<supplier, wire>>
             \/ \E m \in wire, answer \in Answer : Deliver(m, answer)
             \/ \E k \in Worker : Admit(k)
      PROVE  supplier'.epoch = supplier.epoch /\ supplier'.rotation = supplier.rotation
  BY <1>3 DEF Deliver, Admit, TypeOK
<1>4. ASSUME \/ restore' = restore
             \/ \E r \in Restoring : Prepare(r) \/ Pause(r) \/ Mark(r)
      PROVE  \A e \in Epoch : Begun(e)' = Begun(e)
  <2>1. \A r \in Restoring : DOMAIN restore[r] = {"at", "image"}
    BY DEF TypeOK
  <2>2. ASSUME NEW r \in Restoring, Prepare(r) \/ Pause(r) \/ Mark(r), NEW x \in Restoring
        PROVE  restore'[x].at = "DONE" <=> restore[x].at = "DONE"
    <3>1. restore[r].at # "DONE"
      BY <2>2 DEF Prepare, Pause, Mark
    <3>2. x # r => restore'[x] = restore[x]
      BY <1>1, <2>2 DEF Prepare, Pause, Mark
    <3>3. restore'[r].at # "DONE"
      BY <1>1, <2>1, <2>2 DEF Prepare, Pause, Mark
    <3> QED BY <3>1, <3>2, <3>3
  <2> QED BY <1>1, <1>4, <2>2 DEF Begun, Epoch
<1> QED BY <1>2, <1>3, <1>4, Writers

\* A database that there was is remembered.
LEMMA BegunStays ==
    ASSUME TypeOK, Hands, [Next]_vars, NEW e \in Epoch, Begun(e)
    PROVE  Begun(e)'
<1>1. DOMAIN restore = Restoring /\ Original \notin Restoring
  BY RestoreAssumption DEF TypeOK
<1>2. \/ restore' = restore
      \/ \E r \in Restoring : Prepare(r) \/ Pause(r) \/ Mark(r) \/ Copy(r)
  BY Writers
<1> QED BY <1>1, <1>2 DEF Prepare, Pause, Mark, Copy, Begun, Epoch

\* What a fence does to the account.
LEMMA FenceMoves ==
    ASSUME TypeOK, NEW p \in Operator, Fence(p)
    PROVE  /\ UNCHANGED <<db, restore, wire, worker>>
           /\ supplier'.receipt = supplier.receipt
           /\ supplier'.rotation[operator[p].epoch] # 0
           /\ \A e \in Epoch \ {operator[p].epoch} :
                 supplier'.rotation[e] = supplier.rotation[e]
           /\ \/ /\ supplier.rotation[operator[p].epoch] # 0
                 /\ supplier'.epoch = supplier.epoch
                 /\ supplier'.rotation = supplier.rotation
              \/ /\ supplier.rotation[operator[p].epoch] = 0
                 /\ supplier'.epoch = supplier.epoch + 1
                 /\ supplier'.rotation[operator[p].epoch] = supplier.epoch + 1
           /\ operator' = [operator EXCEPT ![p].at = "EXPORT",
                              ![p].provider = supplier'.rotation[operator[p].epoch]]
<1> DEFINE e == operator[p].epoch
           new == IF supplier.rotation[e] = 0 THEN supplier.epoch + 1
                  ELSE supplier.rotation[e]
           now == IF supplier.rotation[e] = 0 THEN new ELSE supplier.epoch
           table == [supplier.rotation EXCEPT ![e] = new]
<1>1. e \in Epoch /\ supplier.rotation \in [Epoch -> Nat] /\ supplier.epoch \in Nat
  BY DEF TypeOK
<1>2. supplier' = [supplier EXCEPT !.epoch = now, !.rotation = table]
  BY DEF Fence
<1>3. \/ supplier.rotation[e] = 0 /\ now = supplier.epoch + 1 /\ new = now
      \/ /\ supplier.rotation[e] # 0 /\ now = supplier.epoch
         /\ table = supplier.rotation /\ new = supplier.rotation[e]
  BY <1>1
<1>4. /\ table[e] = new /\ new # 0 /\ DOMAIN table = Epoch
      /\ \A x \in Epoch \ {e} : table[x] = supplier.rotation[x]
  BY <1>1
<1>5. /\ UNCHANGED <<db, restore, wire, worker>>
      /\ operator' = [operator EXCEPT ![p].at = "EXPORT", ![p].provider = new]
  BY DEF Fence
<1> HIDE DEF new, now, table
<1>6. supplier' = [epoch |-> now, rotation |-> table, receipt |-> supplier.receipt]
  BY <1>2 DEF TypeOK
<1> HIDE DEF e
<1>7. supplier'.epoch = now /\ supplier'.rotation = table /\ supplier'.receipt = supplier.receipt
  BY <1>6
<1> QED BY <1>1, <1>3, <1>4, <1>5, <1>7 DEF e

\* Nobody comes to carry the epoch of a rotation nobody has committed.
LEMMA OldStays ==
    ASSUME IInv, [Next]_vars, NEW c \in Nat, Old(c)
    PROVE  Old(c)'
<1>1. /\ TypeOK /\ Hands /\ db \in Database /\ supplier.epoch \in Nat
      /\ supplier.rotation \in [Epoch -> Nat] /\ db.epoch \in Epoch
  BY DEF IInv, TypeOK, Database
<1>2. CASE EpochsStay
  BY <1>2 DEF EpochsStay, Old, Fenced
<1>3. ASSUME NEW p \in Operator, Fence(p) PROVE Old(c)'
  <2> DEFINE e == operator[p].epoch
  <2>1. e \in Epoch
    BY <1>1 DEF TypeOK
  <2>2. db.epoch \in db.recovered => supplier.rotation[db.epoch] # 0
    BY DEF IInv, Rotations
  <2>3. db' = db
    BY <1>1, <1>3, FenceMoves
  <2>4. CASE db.epoch # e \/ supplier.rotation[e] # 0
    <3>1. /\ supplier'.rotation[db.epoch] = supplier.rotation[db.epoch]
          /\ supplier'.epoch \in {supplier.epoch, supplier.epoch + 1}
      BY <1>1, <1>3, <2>1, <2>4, FenceMoves
    <3> QED BY <1>1, <2>3, <3>1 DEF Old, Fenced
  <2>5. CASE db.epoch = e /\ supplier.rotation[e] = 0
    <3>1. /\ supplier'.rotation[e] = supplier.epoch + 1
          /\ supplier'.epoch = supplier.epoch + 1
      BY <1>1, <1>3, <2>5, FenceMoves
    <3> QED BY <1>1, <2>3, <2>5, <3>1 DEF Old, Fenced
  <2> QED BY <2>4, <2>5
<1>4. ASSUME NEW p \in Operator, Commit(p) PROVE Old(c)'
  BY <1>4 DEF Commit, Old, Fenced
<1>5. ASSUME NEW r \in Restoring, Copy(r) PROVE Old(c)'
  <2>1. db' = restore[r].image /\ supplier' = supplier /\ restore[r].at = "MARKED"
    BY <1>5 DEF Copy
  <2>2. restore[r].image.epoch = r /\ ~Begun(r) /\ r \in Epoch
    BY <2>1, RestoreAssumption DEF IInv, Databases, Shelved, Begun, Epoch
  <2>3. supplier.rotation[r] = 0
    BY <2>2 DEF IInv, Rotations
  <2> QED BY <2>1, <2>2, <2>3 DEF Old, Fenced
<1> QED BY <1>1, <1>2, <1>3, <1>4, <1>5, EpochMoves

\* Every epoch that was old stays so.
LEMMA EveryOldStays ==
    ASSUME IInv, [Next]_vars
    PROVE  \A c \in Nat : c <= supplier.epoch /\ (Fenced => c < supplier.rotation[db.epoch])
              => c <= supplier'.epoch /\ (Fenced' => c < supplier'.rotation[db'.epoch])
BY OldStays DEF Old

\* The supplier answers an order once.
LEMMA DeliverMoves ==
    ASSUME TypeOK, NEW m \in wire, NEW answer \in Answer, Deliver(m, answer)
    PROVE  /\ m.order \in Order /\ UNCHANGED <<db, restore, operator, worker, backup>>
           /\ wire' = wire \ {m}
           /\ supplier'.epoch = supplier.epoch /\ supplier'.rotation = supplier.rotation
           /\ \A o \in Order \ {m.order} : supplier'.receipt[o] = supplier.receipt[o]
           /\ \/ supplier'.receipt = supplier.receipt
              \/ /\ supplier.receipt[m.order] = "NONE" /\ m.epoch = supplier.epoch
                 /\ supplier'.receipt[m.order] = answer
<1>1. m.order \in Order /\ supplier.receipt \in [Order -> Receipt]
  BY DEF TypeOK
<1> DEFINE old == supplier.receipt[m.order]
           new == IF old = "NONE" /\ m.epoch = supplier.epoch THEN answer ELSE old
           table == [supplier.receipt EXCEPT ![m.order] = new]
<1>2. supplier' = [supplier EXCEPT !.receipt = table]
  BY DEF Deliver
<1>3. /\ \A o \in Order \ {m.order} : table[o] = supplier.receipt[o]
      /\ \/ table = supplier.receipt
         \/ old = "NONE" /\ m.epoch = supplier.epoch /\ table[m.order] = answer
  BY <1>1
<1> HIDE DEF table
<1>4. supplier'.epoch = supplier.epoch /\ supplier'.rotation = supplier.rotation
      /\ supplier'.receipt = table
  BY <1>2 DEF TypeOK
<1> QED BY <1>1, <1>3, <1>4 DEF Deliver

LEMMA ReceiptsStay ==
    ASSUME TypeOK, Hands, [Next]_vars, NEW o \in Order, supplier.receipt[o] # "NONE"
    PROVE  supplier'.receipt[o] = supplier.receipt[o]
<1>1. ASSUME NEW m \in wire, NEW answer \in Answer, Deliver(m, answer)
      PROVE  supplier'.receipt[o] = supplier.receipt[o]
  BY <1>1, DeliverMoves
<1>2. ASSUME NEW p \in Operator, Fence(p)
      PROVE  supplier'.receipt[o] = supplier.receipt[o]
  BY <1>2, FenceMoves
<1>3. ASSUME NEW k \in Worker, Admit(k)
      PROVE  supplier'.receipt[o] = supplier.receipt[o]
  BY <1>3 DEF Admit
<1> QED BY <1>1, <1>2, <1>3, Writers

LEMMA HandsKept == IInv /\ [Next]_vars => Hands'
<1> SUFFICES ASSUME IInv, [Next]_vars, NEW k \in Worker
             PROVE  /\ worker'[k].at # "IDLE" => worker'[k].order \in Order
                    /\ worker'[k].at = "RECORD" =>
                          supplier'.receipt[worker'[k].order] # "NONE"
                    /\ Old(worker[k].client)'
  BY DEF Hands
<1> DEFINE Item == [at : {"IDLE", "ADMIT", "RECORD"}, epoch : Epoch,
                    client : Nat, order : Order \cup {None}]
<1>1. TypeOK /\ Hands /\ worker \in [Worker -> Item] /\ worker[k] \in Item
  BY DEF IInv, TypeOK
<1>2. /\ worker[k].at # "IDLE" => worker[k].order \in Order
      /\ worker[k].at = "RECORD" => supplier.receipt[worker[k].order] # "NONE"
      /\ Old(worker[k].client) /\ worker[k].client \in Nat
  BY <1>1 DEF Hands
<1>3. Old(db.binding) /\ db.binding \in Nat
  BY DEF IInv, Databases, Sound, TypeOK, Database
<1>4. /\ worker'[k].client \in {worker[k].client, db.binding}
      /\ \/ worker'[k].at = "IDLE"
         \/ worker'[k].at = worker[k].at /\ worker'[k].order = worker[k].order
         \/ \E o \in Order : Discover(k, o)
  <2>1. ASSUME NEW j \in Worker, Start(j)
        PROVE  /\ worker'[k].client \in {worker[k].client, db.binding}
               /\ \/ worker'[k].at = "IDLE"
                  \/ worker'[k].at = worker[k].at /\ worker'[k].order = worker[k].order
    <3> DEFINE r == [worker[j] EXCEPT !.at = "IDLE", !.order = None, !.client = db.binding]
    <3>1. worker' = [worker EXCEPT ![j] = r]
      BY <2>1 DEF Start
    <3>2. worker[j] \in Item
      BY <1>1
    <3>3. r.at = "IDLE" /\ r.client = db.binding
      BY <3>2
    <3>4. DOMAIN worker = Worker
      BY <1>1
    <3> HIDE DEF r, Item
    <3>5. worker'[k] = IF k = j THEN r ELSE worker[k]
      BY <3>1, <3>4
    <3> QED BY <3>3, <3>5
  <2>2. ASSUME NEW j \in Worker, Claim(j)
        PROVE  /\ worker'[k].client = worker[k].client
               /\ worker'[k].at = worker[k].at /\ worker'[k].order = worker[k].order
    BY <1>1, <2>2 DEF Claim
  <2>3. ASSUME NEW j \in Worker, Admit(j) \/ AdmitRefused(j) \/ Record(j)
        PROVE  /\ worker'[k].client = worker[k].client
               /\ \/ worker'[k].at = "IDLE"
                  \/ worker'[k].at = worker[k].at /\ worker'[k].order = worker[k].order
    BY <1>1, <2>3 DEF Admit, AdmitRefused, Record, Stay
  <2>4. ASSUME NEW j \in Worker, NEW o \in Order, Discover(j, o)
        PROVE  /\ worker'[k].client = worker[k].client
               /\ \/ worker'[k].at = worker[k].at /\ worker'[k].order = worker[k].order
                  \/ Discover(k, o)
    BY <1>1, <2>4 DEF Discover
  <2> HIDE DEF Item
  <2> QED BY <1>1, <2>1, <2>2, <2>3, <2>4, Writers
<1>5. Old(worker[k].client)'
  BY <1>2, <1>3, <1>4, EveryOldStays DEF Old
<1>6. CASE worker'[k].at = "IDLE"
  BY <1>5, <1>6
<1>7. CASE worker'[k].at = worker[k].at /\ worker'[k].order = worker[k].order
                                       /\ worker'[k].at # "IDLE"
  BY <1>1, <1>2, <1>5, <1>7, ReceiptsStay
<1>8. ASSUME NEW o \in Order, Discover(k, o)
      PROVE  /\ worker'[k].order = o
             /\ worker'[k].at = "RECORD" => supplier'.receipt[o] # "NONE"
  BY <1>1, <1>8 DEF Discover
<1> QED BY <1>4, <1>5, <1>6, <1>7, <1>8

LEMMA RequestsKept == IInv /\ [Next]_vars => Requests'
<1> SUFFICES ASSUME IInv, [Next]_vars, NEW m \in wire' PROVE Old(m.epoch)'
  BY DEF Requests
<1>1. TypeOK /\ Hands
  BY DEF IInv
<1>2. \/ m \in wire
      \/ \E k \in Worker : m.epoch = worker[k].client
  <2>1. \A n \in wire, answer \in Answer : Deliver(n, answer) => m \in wire
    BY <1>1, DeliverMoves
  <2>2. \A p \in Operator : Fence(p) => m \in wire
    BY <1>1, FenceMoves
  <2>3. \A k \in Worker : Admit(k) => m \in wire \/ m.epoch = worker[k].client
    BY DEF Admit
  <2> QED BY <1>1, <2>1, <2>2, <2>3, Writers
<1>3. CASE m \in wire
  BY <1>3, EveryOldStays DEF IInv, Requests, Old, TypeOK
<1>4. ASSUME NEW k \in Worker, m.epoch = worker[k].client PROVE Old(m.epoch)'
  BY <1>4, EveryOldStays DEF IInv, Hands, Old, TypeOK
<1> QED BY <1>2, <1>3, <1>4

-----------------------------------------------------------------------------
(* The books of every database.                                            *)

\* What it takes to keep the books when one row is written.
LEMMA WriteBalances ==
    ASSUME TypeOK, NEW q \in Order, Writes(q), Books(db)
    PROVE  /\ db' \in Database /\ Books(db')
           /\ db'.epoch = db.epoch /\ db'.paused = db.paused
           /\ db'.binding = db.binding /\ db'.recovered = db.recovered
           /\ \A o \in Order \ {q} : db'.order[o] = db.order[o]
           /\ \/ db'.order[q].status \in {"APPROVED", "DRAFT", "REVOKED"}
                 /\ Status(q) \in {"NONE", "DRAFT", "APPROVED"}
              \/ db'.order[q].status = "SENDING" /\ Status(q) \in Held
              \/ db'.order[q].status = Status(q)
              \/ /\ Status(q) = "SENDING" /\ supplier.receipt[q] # "NONE"
                 /\ db'.order[q].status = IF supplier.receipt[q] = "ACCEPTED"
                                          THEN "CONFIRMED" ELSE "REJECTED"
<1> DEFINE share(row, X) == IF row.status \in X THEN Amount[q] ELSE 0
           C == {"CONFIRMED"}
<1>1. /\ db \in Database /\ Amount[q] \in Nat /\ Limit \in Nat
      /\ db.reserved \in Int /\ db.spent \in Int /\ db.order \in [Order -> Row]
  BY RestoreAssumption DEF TypeOK, Database
<1>2. PICK row \in Row :
        /\ db' = Rewritten(db, q, row, db.reserved + share(row, Held) - Share(db, q, Held),
                                       db.spent + share(row, C) - Share(db, q, C))
        /\ \/ /\ row.status = "APPROVED" /\ Status(q) = "DRAFT"
              /\ db.spent + db.reserved + Amount[q] <= Limit
           \/ row.status = "DRAFT" /\ Status(q) = "NONE"
           \/ row.status = "SENDING" /\ Status(q) \in Held
           \/ row.status = "REVOKED" /\ Status(q) \in {"DRAFT", "APPROVED"}
           \/ row.status = Status(q)
           \/ /\ Status(q) = "SENDING" /\ supplier.receipt[q] # "NONE"
              /\ row.status = IF supplier.receipt[q] = "ACCEPTED" THEN "CONFIRMED"
                              ELSE "REJECTED"
  BY DEF Writes, Held
<1> DEFINE m == db.reserved + share(row, Held) - Share(db, q, Held)
           n == db.spent + share(row, C) - Share(db, q, C)
<1>3. m \in Int /\ n \in Int
  BY <1>1 DEF Share
<1>4. db' = Rewritten(db, q, row, m, n)
  BY <1>2
<1>5. m = db.reserved + share(row, Held) - Share(db, q, Held)
      /\ n = db.spent + share(row, C) - Share(db, q, C)
  OBVIOUS
<1> HIDE DEF m, n, share
<1>6. /\ db'.epoch = db.epoch /\ db'.paused = db.paused
      /\ db'.binding = db.binding /\ db'.recovered = db.recovered
      /\ db'.reserved = m /\ db'.spent = n
      /\ db'.order = [db.order EXCEPT ![q] = row]
  BY <1>4 DEF Rewritten
<1>7. db' \in Database
  BY <1>1, <1>3, <1>4, RewrittenType
<1>8. db'.order[q] = row /\ \A o \in Order \ {q} : db'.order[o] = db.order[o]
  BY <1>1, <1>6
<1>9. share(row, Held) = Share(db', q, Held) /\ share(row, C) = Share(db', q, C)
  BY <1>8 DEF share, Share
<1>10. /\ Total(In(db', Held)) = Total(In(db, Held)) + Share(db', q, Held) - Share(db, q, Held)
       /\ Total(In(db', C)) = Total(In(db, C)) + Share(db', q, C) - Share(db, q, C)
  BY <1>8, RowMoves
<1>11. db'.reserved = Total(In(db', Held)) /\ db'.spent = Total(In(db', C))
  BY <1>5, <1>6, <1>9, <1>10 DEF Books
<1>12. n + m <= Limit
  <2>1. db.spent + db.reserved <= Limit
    BY DEF Books
  <2> QED BY <1>1, <1>2, <1>5, <2>1 DEF share, Share, Status, Held
<1>13. Books(db')
  BY <1>6, <1>11, <1>12 DEF Books
<1> QED BY <1>2, <1>6, <1>7, <1>8, <1>13

\* What a run that may commit has read is what the supplier says now.
LEMMA CommitReads ==
    ASSUME IInv, NEW p \in Operator, Commit(p)
    PROVE  /\ operator[p].receipts = supplier.receipt /\ operator[p].epoch = db.epoch
           /\ db.epoch \notin db.recovered
           /\ operator[p].provider = supplier.rotation[db.epoch]
           /\ supplier.rotation[db.epoch] # 0
<1>1. /\ operator[p].at = "COMMIT" /\ operator[p].epoch = db.epoch
      /\ db.epoch \notin db.recovered
  BY DEF Commit, MayCommit, PausedEpoch
<1> QED BY <1>1 DEF IInv, Runs, RunOfRecovery

\* The books that a recovery writes.
LEMMA CommitBalances ==
    ASSUME IInv, NEW p \in Operator, Commit(p)
    PROVE  /\ Books(db')
           /\ \A o \in Order : supplier.receipt[o] = "ACCEPTED"
                               => db'.order[o].status = "CONFIRMED"
<1> DEFINE S == Accepted(supplier.receipt)
<1>1. operator[p].receipts = supplier.receipt
  BY CommitReads
<1>2. /\ db'.reserved = 0 /\ db'.spent = Total(S)
      /\ db'.order = [o \in Order |-> Rebuilt(o, supplier.receipt[o])]
  BY <1>1 DEF Commit
<1>3. \A o \in Order : /\ db'.order[o].status = "CONFIRMED" <=> o \in S
                       /\ db'.order[o].status \notin Held
  BY <1>2 DEF Rebuilt, Accepted, NoRow, Held
<1>4. In(db', Held) = {} /\ In(db', {"CONFIRMED"}) = S
  BY <1>3 DEF In, Accepted
<1>5. Total({}) = 0
  BY SumEmpty DEF Total
<1>6. S \in SUBSET Sellable /\ Sellable \in SUBSET Order /\ S \in SUBSET Order
  BY DEF Accepted, Sellable
<1>7. Total(S) <= Limit /\ Total(S) \in Nat
  <2>1. Total(S) <= Total(Sellable) /\ Total(Sellable) \in Nat /\ Total(S) \in Nat
    BY <1>6, TotalPart, TotalNat
  <2> QED BY <2>1, RestoreAssumption DEF IInv, Covered
<1> HIDE DEF S
<1>8. Books(db')
  BY <1>2, <1>4, <1>5, <1>7 DEF Books
<1> QED BY <1>3, <1>8 DEF S, Accepted

LEMMA DatabasesKept == IInv /\ [Next]_vars => Databases'
<1> SUFFICES ASSUME IInv, [Next]_vars PROVE Databases'
  OBVIOUS
<1>1. TypeOK /\ Hands /\ db \in Database /\ Begun(db.epoch) /\ Sound(db) /\ Books(db)
  BY DEF IInv, TypeOK, Databases, Sound
<1>2. ASSUME NEW d \in Database, Sound(d)
      PROVE  /\ \A e \in d.recovered : Begun(e)'
             /\ d.binding <= supplier'.epoch /\ (Fenced' => d.binding < supplier'.rotation[db'.epoch])
             /\ Books(d)
  BY <1>1, <1>2, BegunStays, EveryOldStays DEF Sound, Old, Database
<1>3. (Begun(db.epoch) /\ Sound(db))'
  <2>1. ASSUME db'.epoch = db.epoch, db'.recovered = db.recovered, db'.binding = db.binding,
               Books(db')
        PROVE  (Begun(db.epoch) /\ Sound(db))'
    <3>1. Begun(db.epoch)'
      BY <1>1, <2>1, BegunStays DEF Database, Begun
    <3>2. Sound(db)'
      BY <1>1, <1>2, <2>1 DEF Sound, Old
    <3> QED BY <3>1, <3>2
  <2>2. CASE db' = db
    BY <1>1, <2>1, <2>2
  <2>3. ASSUME NEW q \in Order, Writes(q) PROVE (Begun(db.epoch) /\ Sound(db))'
    BY <1>1, <2>1, <2>3, WriteBalances
  <2>4. ASSUME NEW k \in Worker, Claim(k) PROVE (Begun(db.epoch) /\ Sound(db))'
    <3>1. db' = [db EXCEPT !.holder = k]
      BY <2>4 DEF Claim
    <3>2. Books(db')
      BY <1>1, <3>1 DEF Books, In, Database
    <3> QED BY <1>1, <2>1, <3>1, <3>2 DEF Database
  <2>5. ASSUME NEW r \in Restoring, Pause(r) PROVE (Begun(db.epoch) /\ Sound(db))'
    <3>1. db' = [db EXCEPT !.paused = TRUE]
      BY <2>5 DEF Pause
    <3>2. Books(db')
      BY <1>1, <3>1 DEF Books, In, Database
    <3> QED BY <1>1, <2>1, <3>1, <3>2 DEF Database
  <2>6. ASSUME NEW r \in Restoring, Copy(r) PROVE (Begun(db.epoch) /\ Sound(db))'
    <3>1. db' = restore[r].image /\ restore[r].at = "MARKED" /\ restore'[r].at = "DONE"
      BY <1>1, <2>6 DEF Copy, TypeOK
    <3>2. restore[r].image \in Database /\ restore[r].image.epoch = r /\ Sound(restore[r].image)
      BY <3>1 DEF IInv, Databases, Shelved, TypeOK
    <3>3. Begun(db.epoch)'
      BY <3>1, <3>2 DEF Begun
    <3>4. Sound(db)'
      BY <1>2, <3>1, <3>2 DEF Sound, Old
    <3> QED BY <3>3, <3>4
  <2>7. ASSUME NEW p \in Operator, Commit(p) PROVE (Begun(db.epoch) /\ Sound(db))'
    <3>1. /\ db'.epoch = db.epoch /\ db'.recovered = db.recovered \cup {db.epoch}
          /\ db'.binding = operator[p].provider /\ supplier' = supplier /\ restore' = restore
      BY <2>7 DEF Commit
    <3>2. Begun(db.epoch)' /\ \A e \in db'.recovered : Begun(e)'
      BY <1>1, <3>1 DEF Begun, Sound
    <3>3. operator[p].provider = supplier.rotation[db.epoch]
      BY <2>7, CommitReads
    <3>4. Old(db.binding)'
      BY <1>1, <3>1, <3>3 DEF Old, Fenced, IInv, Rotations, Database
    <3>5. Books(db)'
      BY <2>7, CommitBalances
    <3> QED BY <3>2, <3>4, <3>5 DEF Sound
  <2> QED BY <1>1, <2>2, <2>3, <2>4, <2>5, <2>6, <2>7, Writers
<1>4. backup' # None => Sound(backup)'
  <2>1. \/ backup' = backup
        \/ backup' = db
    BY <1>1, Writers DEF Backup
  <2>2. backup' # None => /\ backup' \in Database /\ Sound(backup')
    BY <1>1, <2>1 DEF IInv, Databases, TypeOK
  <2> QED BY <1>2, <2>2 DEF Sound, Old
<1>5. ASSUME NEW r \in Restoring, restore'[r].at \in Shelved
      PROVE  /\ Sound(restore[r].image)'
             /\ restore'[r].image.epoch = r /\ restore'[r].image.paused
  <2>1. /\ restore'[r].image \in Database /\ Sound(restore'[r].image)
        /\ restore'[r].image.epoch = r /\ restore'[r].image.paused
    <3>1. CASE restore[r].at \in Shelved /\ restore'[r].image = restore[r].image
      BY <3>1 DEF IInv, Databases, TypeOK, Shelved
    <3>2. CASE Prepare(r)
      <4>1. restore'[r].image = Image(r) /\ backup # None
        BY <1>1, <3>2 DEF Prepare, TypeOK
      <4>2. Image(r) \in Database /\ Image(r).epoch = r /\ Image(r).paused
        BY <1>1, <4>1, ImageType
      <4>3. In(Image(r), Held) = In(backup, Held)
            /\ In(Image(r), {"CONFIRMED"}) = In(backup, {"CONFIRMED"})
        BY <1>1, <4>1, ImageType DEF In
      <4>4. Sound(backup)
        BY <4>1 DEF IInv, Databases
      <4>5. Sound(Image(r))
        BY <1>1, <4>1, <4>3, <4>4, ImageType DEF Sound, Books
      <4> QED BY <4>1, <4>2, <4>5
    <3>3. \/ restore[r].at \in Shelved /\ restore'[r].image = restore[r].image
          \/ Prepare(r)
      <4>1. DOMAIN restore = Restoring
            /\ \A x \in Restoring : DOMAIN restore[x] = {"at", "image"}
        BY <1>1 DEF TypeOK
      <4>2. ASSUME NEW x \in Restoring, Pause(x) \/ Mark(x)
            PROVE  restore[r].at \in Shelved /\ restore'[r].image = restore[r].image
        BY <1>5, <4>1, <4>2 DEF Pause, Mark, Shelved
      <4>3. ASSUME NEW x \in Restoring, Copy(x)
            PROVE  restore[r].at \in Shelved /\ restore'[r].image = restore[r].image
        BY <1>5, <4>1, <4>3 DEF Copy, Shelved
      <4>4. ASSUME NEW x \in Restoring, Prepare(x)
            PROVE  \/ restore[r].at \in Shelved /\ restore'[r].image = restore[r].image
                   \/ Prepare(r)
        BY <1>5, <4>1, <4>4 DEF Prepare, Shelved
      <4> QED BY <1>1, <1>5, <4>2, <4>3, <4>4, Writers
    <3> QED BY <3>1, <3>2, <3>3
  <2> QED BY <1>2, <2>1 DEF Sound, Old
<1> QED BY <1>3, <1>4, <1>5 DEF Databases

-----------------------------------------------------------------------------
(* The account, the runs of recovery, and what is sold.                    *)

LEMMA RotationsKept == IInv /\ [Next]_vars => Rotations'
<1> SUFFICES ASSUME IInv, [Next]_vars PROVE Rotations'
  OBVIOUS
<1>1. /\ TypeOK /\ Hands /\ Rotations /\ db \in Database /\ db.epoch \in Epoch
      /\ supplier.epoch \in Nat /\ supplier.rotation \in [Epoch -> Nat]
  BY DEF IInv, TypeOK, Database
<1>2. CASE EpochsStay
  BY <1>1, <1>2 DEF EpochsStay, Rotations
<1>3. ASSUME NEW p \in Operator, Fence(p) PROVE Rotations'
  <2> DEFINE e == operator[p].epoch
  <2>1. e \in Epoch /\ Begun(e)
    BY <1>1, <1>3 DEF TypeOK, IInv, Runs, RunOfRecovery, Fence
  <2>2. \A x \in Epoch : Begun(x)' = Begun(x)
    BY <1>1, <1>3, FenceMoves DEF Begun
  <2>3. db' = db
    BY <1>1, <1>3, FenceMoves
  <2>4. CASE supplier.rotation[e] # 0
    <3>1. supplier'.epoch = supplier.epoch /\ supplier'.rotation = supplier.rotation
      BY <1>1, <1>3, <2>4, FenceMoves
    <3> QED BY <1>1, <2>2, <2>3, <3>1 DEF Rotations
  <2>5. CASE supplier.rotation[e] = 0
    <3>1. /\ supplier'.epoch = supplier.epoch + 1 /\ supplier'.rotation[e] = supplier.epoch + 1
          /\ \A x \in Epoch \ {e} : supplier'.rotation[x] = supplier.rotation[x]
      BY <1>1, <1>3, <2>5, FenceMoves
    <3> QED BY <1>1, <2>1, <2>2, <2>3, <2>5, <3>1 DEF Rotations
  <2> QED BY <2>4, <2>5
<1>4. ASSUME NEW p \in Operator, Commit(p) PROVE Rotations'
  <2>1. supplier.rotation[db.epoch] # 0
    BY <1>4, CommitReads
  <2>2. db'.epoch = db.epoch /\ supplier' = supplier /\ restore' = restore
    BY <1>4 DEF Commit
  <2> QED BY <1>1, <2>1, <2>2 DEF Rotations, Begun
<1>5. ASSUME NEW r \in Restoring, Copy(r) PROVE Rotations'
  <2>1. db' = restore[r].image /\ supplier' = supplier /\ restore[r].at = "MARKED"
    BY <1>5 DEF Copy
  <2>2. \A x \in Epoch : Begun(x) => Begun(x)'
    BY <1>1, BegunStays
  <2>3. restore[r].image.epoch = r /\ Sound(restore[r].image) /\ restore[r].image \in Database
    BY <1>1, <2>1 DEF IInv, Databases, Shelved, TypeOK
  <2>4. r \notin restore[r].image.recovered
    BY <2>1, <2>3, RestoreAssumption DEF Sound, Begun
  <2> QED BY <1>1, <2>1, <2>2, <2>3, <2>4 DEF Rotations
<1> QED BY <1>1, <1>2, <1>3, <1>4, <1>5, EpochMoves

\* Behind a fence nobody can place an order.
LEMMA FenceHolds ==
    ASSUME IInv, [Next]_vars, Fenced
    PROVE  supplier'.receipt = supplier.receipt
<1>1. /\ TypeOK /\ Hands /\ db.epoch \in Epoch /\ supplier.epoch \in Nat
      /\ supplier.rotation \in [Epoch -> Nat] /\ wire \subseteq [order : Order, epoch : Nat]
  BY DEF IInv, TypeOK, Database
<1>2. ASSUME NEW m \in wire, NEW answer \in Answer, Deliver(m, answer)
      PROVE  supplier'.receipt = supplier.receipt
  <2>1. m.epoch < supplier.rotation[db.epoch] /\ m.epoch \in Nat
    BY <1>1 DEF IInv, Requests, Old
  <2>2. supplier.rotation[db.epoch] <= supplier.epoch /\ supplier.rotation[db.epoch] \in Nat
    BY <1>1 DEF IInv, Rotations
  <2>3. m.epoch # supplier.epoch
    BY <1>1, <2>1, <2>2
  <2> QED BY <1>1, <1>2, <2>3, DeliverMoves
<1>3. ASSUME NEW p \in Operator, Fence(p) PROVE supplier'.receipt = supplier.receipt
  BY <1>1, <1>3, FenceMoves
<1>4. ASSUME NEW k \in Worker, Admit(k) PROVE supplier'.receipt = supplier.receipt
  BY <1>4 DEF Admit
<1> QED BY <1>1, <1>2, <1>3, <1>4, Writers

\* Only a commit ends a pause, and of one database after another only a copy
\* makes another.
LEMMA PauseStays ==
    ASSUME IInv, [Next]_vars, db.paused, ~\E p \in Operator : Commit(p)
    PROVE  db'.paused
<1>1. TypeOK /\ Hands /\ db \in Database /\ Books(db)
  BY DEF IInv, TypeOK, Databases, Sound
<1>2. \A q \in Order : Writes(q) => db'.paused = db.paused
  BY <1>1, WriteBalances
<1>3. \A k \in Worker : Claim(k) => db'.paused = db.paused
  BY <1>1 DEF Claim, Database
<1>4. \A r \in Restoring : Pause(r) => db'.paused
  BY <1>1 DEF Pause, Database
<1>5. \A r \in Restoring : Copy(r) => db'.paused
  BY DEF Copy, IInv, Databases, Shelved
<1> QED BY <1>1, <1>2, <1>3, <1>4, <1>5, Writers

\* A run that does not step stays as good as it was.
LEMMA RunStays ==
    ASSUME IInv, [Next]_vars, NEW p \in Operator, operator'[p] = operator[p]
    PROVE  RunOfRecovery(p)'
<1> DEFINE o == operator[p]
           e == operator[p].epoch
<1>1. /\ TypeOK /\ Hands /\ db \in Database /\ db.epoch \in Epoch /\ e \in Epoch
      /\ supplier.rotation \in [Epoch -> Nat] /\ RunOfRecovery(p)
  BY DEF IInv, TypeOK, Database, Runs
<1>2. o.at # "IDLE" => Begun(e)'
  BY <1>1, BegunStays DEF RunOfRecovery
<1>3. o.at \in {"EXPORT", "COMMIT"} => /\ o.provider = supplier'.rotation[e]
                                       /\ o.provider # 0
  <2>1. ASSUME supplier.rotation[e] # 0 PROVE supplier'.rotation[e] = supplier.rotation[e]
    <3>1. CASE EpochsStay
      BY <3>1 DEF EpochsStay
    <3>2. ASSUME NEW q \in Operator, Fence(q)
          PROVE  supplier'.rotation[e] = supplier.rotation[e]
      BY <1>1, <2>1, <3>2, FenceMoves
    <3>3. \A q \in Operator : Commit(q) => supplier' = supplier
      BY DEF Commit
    <3>4. \A r \in Restoring : Copy(r) => supplier' = supplier
      BY DEF Copy
    <3> QED BY <1>1, <3>1, <3>2, <3>3, <3>4, EpochMoves
  <2> QED BY <1>1, <2>1 DEF RunOfRecovery
<1>4. ASSUME o.at # "IDLE", e = db'.epoch, db'.epoch \notin db'.recovered
      PROVE  db'.paused /\ (o.at = "COMMIT" => o.receipts = supplier'.receipt)
  <2>1. ASSUME NEW q \in Operator, Commit(q) PROVE FALSE
    BY <1>4, <2>1 DEF Commit
  <2>2. ASSUME NEW r \in Restoring, Copy(r) PROVE FALSE
    <3>1. db' = restore[r].image /\ restore[r].at = "MARKED"
      BY <2>2 DEF Copy
    <3>2. e = r /\ ~Begun(e)
      BY <1>4, <3>1, RestoreAssumption DEF IInv, Databases, Shelved, Begun
    <3> QED BY <1>1, <1>4, <3>2 DEF RunOfRecovery
  <2>3. db'.epoch = db.epoch /\ db'.recovered = db.recovered
    BY <1>1, <2>1, <2>2, EpochMoves, FenceMoves DEF EpochsStay
  <2>4. db.paused /\ (o.at = "COMMIT" => o.receipts = supplier.receipt)
    BY <1>1, <1>4, <2>3 DEF RunOfRecovery
  <2>5. db'.paused
    BY <2>1, <2>4, PauseStays
  <2>6. o.at = "COMMIT" => supplier'.receipt = supplier.receipt
    <3>1. o.at = "COMMIT" => Fenced
      BY <1>1, <1>4, <2>3 DEF RunOfRecovery, Fenced
    <3> QED BY <3>1, FenceHolds
  <2> QED BY <2>4, <2>5, <2>6
<1> QED BY <1>2, <1>3, <1>4 DEF RunOfRecovery

LEMMA RunsKept == IInv /\ [Next]_vars => Runs'
<1> SUFFICES ASSUME IInv, [Next]_vars, NEW p \in Operator PROVE RunOfRecovery(p)'
  BY DEF Runs
<1> DEFINE Recovery == [at : {"IDLE", "FENCE", "EXPORT", "COMMIT"}, epoch : Epoch,
                        provider : Nat, receipts : [Order -> Receipt]]
<1>1. /\ TypeOK /\ Hands /\ db \in Database /\ db.epoch \in Epoch
      /\ operator \in [Operator -> Recovery] /\ operator[p] \in Recovery
      /\ Begun(db.epoch) /\ RunOfRecovery(p)
  BY DEF IInv, TypeOK, Database, Databases, Runs
<1>2. Rest.at = "IDLE" /\ Rest \in [at : {"IDLE"}, epoch : Epoch, provider : Nat,
                                    receipts : [Order -> Receipt]]
  BY DEF Rest, Epoch, Receipt
<1>3. CASE operator'[p] = operator[p]
  BY <1>3, RunStays
<1>4. CASE operator'[p] = Rest
  BY <1>2, <1>4 DEF RunOfRecovery
<1>5. CASE Begin(p)
  <2>1. /\ operator'[p].at = "FENCE" /\ operator'[p].epoch = db.epoch
        /\ UNCHANGED <<db, restore>> /\ db.paused
    BY <1>1, <1>2, <1>5 DEF Begin, PausedEpoch
  <2> QED BY <1>1, <2>1 DEF RunOfRecovery, Begun
<1>6. CASE Fence(p)
  <2>1. /\ operator'[p].at = "EXPORT" /\ operator'[p].epoch = operator[p].epoch
        /\ operator'[p].provider = supplier'.rotation[operator[p].epoch]
        /\ supplier'.rotation[operator[p].epoch] # 0
        /\ UNCHANGED <<db, restore>> /\ operator[p].at # "IDLE"
    BY <1>1, <1>6, FenceMoves DEF Fence
  <2> QED BY <1>1, <2>1 DEF RunOfRecovery, Begun
<1>7. CASE Export(p) /\ operator'[p] # Rest
  <2>1. operator[p].at = "EXPORT" /\ UNCHANGED <<db, restore, supplier>>
    BY <1>7 DEF Export
  <2>2. /\ operator'[p].at = "COMMIT" /\ operator'[p].epoch = operator[p].epoch
        /\ operator'[p].provider = operator[p].provider
        /\ operator'[p].receipts = supplier.receipt
    BY <1>1, <1>7 DEF Export
  <2> QED BY <1>1, <2>1, <2>2 DEF RunOfRecovery, Begun
<1>8. \/ operator'[p] = operator[p] \/ operator'[p] = Rest
      \/ Begin(p) \/ Fence(p) \/ (Export(p) /\ operator'[p] # Rest)
  <2>1. ASSUME NEW q \in Operator,
               Begin(q) \/ Fence(q) \/ Export(q) \/ Commit(q) \/ CommitRefused(q)
        PROVE  q = p \/ operator'[p] = operator[p]
    <3>1. DOMAIN operator = Operator
      BY <1>1
    <3> HIDE DEF Recovery
    <3> QED BY <2>1, <3>1, <1>1, FenceMoves DEF Begin, Export, Commit, CommitRefused
  <2>2. Commit(p) \/ CommitRefused(p) => operator'[p] = Rest
    BY <1>1 DEF Commit, CommitRefused
  <2> QED BY <1>1, <2>1, <2>2, Writers
<1> QED BY <1>3, <1>4, <1>5, <1>6, <1>7, <1>8

\* Only an admission adds to what may still be sold: a fence adds nothing, for
\* no request carries the epoch it opens.
LEMMA SellableMoves ==
    ASSUME IInv, [Next]_vars
    PROVE  \/ Sellable' \subseteq Sellable
           \/ \E k \in Worker : /\ Admit(k)
                                /\ Sellable' \subseteq Sellable \cup {worker[k].order}
<1>1. TypeOK /\ Hands /\ supplier.epoch \in Nat /\ wire \subseteq [order : Order, epoch : Nat]
  BY DEF IInv, TypeOK
<1>2. CASE UNCHANGED <<supplier, wire>>
  BY <1>2 DEF Sellable
<1>3. ASSUME NEW m \in wire, NEW answer \in Answer, Deliver(m, answer)
      PROVE  Sellable' \subseteq Sellable
  BY <1>1, <1>3, DeliverMoves DEF Sellable
<1>4. ASSUME NEW p \in Operator, Fence(p) PROVE Sellable' \subseteq Sellable
  <2>1. /\ supplier'.receipt = supplier.receipt /\ wire' = wire
        /\ supplier'.epoch \in {supplier.epoch, supplier.epoch + 1}
    BY <1>1, <1>4, FenceMoves
  <2>2. \A m \in wire : m.epoch \in Nat /\ m.epoch <= supplier.epoch
    BY <1>1 DEF IInv, Requests, Old
  <2>3. \A m \in wire : m.epoch = supplier'.epoch => m.epoch = supplier.epoch
    BY <1>1, <2>1, <2>2
  <2> QED BY <2>1, <2>3 DEF Sellable
<1>5. ASSUME NEW k \in Worker, Admit(k)
      PROVE  Sellable' \subseteq Sellable \cup {worker[k].order}
  <2>1. /\ supplier' = supplier
        /\ wire' = wire \cup {[order |-> worker[k].order, epoch |-> worker[k].client]}
    BY <1>5 DEF Admit
  <2> QED BY <2>1 DEF Sellable
<1> QED BY <1>1, <1>2, <1>3, <1>4, <1>5, Writers

\* A commit leaves nothing on its way that could still be sold.
LEMMA CommitClosesTheAccount ==
    ASSUME IInv, NEW p \in Operator, Commit(p), NEW o \in Sellable'
    PROVE  o \in Order /\ supplier.receipt[o] = "ACCEPTED"
<1>1. /\ TypeOK /\ supplier.epoch \in Nat /\ supplier.rotation \in [Epoch -> Nat]
      /\ wire \subseteq [order : Order, epoch : Nat] /\ db.epoch \in Epoch
  BY DEF IInv, TypeOK, Database
<1>2. Fenced
  BY CommitReads DEF Fenced
<1>3. supplier.rotation[db.epoch] <= supplier.epoch /\ supplier.rotation[db.epoch] \in Nat
  BY <1>1 DEF IInv, Rotations
<1>4. \A m \in wire : m.epoch # supplier.epoch
  BY <1>1, <1>2, <1>3 DEF IInv, Requests, Old
<1>5. supplier' = supplier /\ wire' = wire
  BY DEF Commit
<1> QED BY <1>4, <1>5 DEF Sellable

\* Trust is gained by a commit only, and lost to a fence or to a copy.
LEMMA TrustMoves ==
    ASSUME IInv, [Next]_vars
    PROVE  /\ Trusted' => Trusted \/ \E p \in Operator : Commit(p)
           /\ Trusted /\ ~db'.paused => Trusted'
           /\ Trusted' => ~\E r \in Restoring : Copy(r)
<1>1. /\ TypeOK /\ Hands /\ db \in Database /\ db.epoch \in Epoch /\ Original \in Epoch
      /\ supplier.rotation \in [Epoch -> Nat]
  BY DEF IInv, TypeOK, Database, Epoch
<1>2. CASE EpochsStay
  <2>1. Trusted' = Trusted
    BY <1>2 DEF EpochsStay, Trusted
  <2>2. ASSUME NEW r \in Restoring, Copy(r) PROVE FALSE
    <3>1. r \in Epoch /\ ~Begun(r)
      BY <2>2, RestoreAssumption DEF Copy, Begun, Epoch
    <3>2. Begun(r)'
      BY <1>1, <2>2 DEF Copy, Begun, TypeOK
    <3> QED BY <1>2, <3>1, <3>2 DEF EpochsStay
  <2> QED BY <2>1, <2>2
<1>3. ASSUME NEW p \in Operator, Fence(p)
      PROVE  /\ Trusted' => Trusted
             /\ Trusted /\ ~db'.paused => Trusted'
             /\ ~\E r \in Restoring : Copy(r)
  <2> DEFINE e == operator[p].epoch
  <2>1. e \in Epoch /\ db' = db /\ operator[p].at = "FENCE" /\ restore' = restore
    BY <1>1, <1>3, FenceMoves DEF TypeOK, Fence
  <2>2. /\ supplier'.rotation[e] # 0
        /\ \A x \in Epoch \ {e} : supplier'.rotation[x] = supplier.rotation[x]
    BY <1>1, <1>3, FenceMoves
  <2>3. e = db.epoch /\ ~db.paused => db.epoch \in db.recovered
    BY <2>1 DEF IInv, Runs, RunOfRecovery
  <2>4. ~\E r \in Restoring : Copy(r)
    BY <1>1, <2>1 DEF Copy, TypeOK
  <2> QED BY <1>1, <2>1, <2>2, <2>3, <2>4 DEF Trusted
<1>4. ASSUME NEW p \in Operator, Commit(p)
      PROVE  Trusted' /\ ~\E r \in Restoring : Copy(r)
  <2>1. db'.epoch \in db'.recovered /\ restore' = restore
    BY <1>4 DEF Commit
  <2>2. ~\E r \in Restoring : Copy(r)
    BY <1>1, <2>1 DEF Copy, TypeOK
  <2> QED BY <2>1, <2>2 DEF Trusted
<1>5. ASSUME NEW r \in Restoring, Copy(r) PROVE ~Trusted' /\ db'.paused
  <2>1. db' = restore[r].image /\ supplier' = supplier /\ restore[r].at = "MARKED"
    BY <1>5 DEF Copy
  <2>2. /\ restore[r].image.epoch = r /\ Sound(restore[r].image) /\ restore[r].image.paused
        /\ ~Begun(r) /\ r # Original
    BY <1>1, <2>1, RestoreAssumption DEF IInv, Databases, Shelved, Begun
  <2> QED BY <2>1, <2>2 DEF Sound, Trusted
<1> QED BY <1>1, <1>2, <1>3, <1>4, <1>5, EpochMoves

\* The ledger of a trusted database goes on to know what may be sold.
LEMMA SalesStayKnown ==
    ASSUME IInv, [Next]_vars, Trusted', NEW o \in Sellable'
    PROVE  db'.order[o].status \in Known
<1>1. TypeOK /\ Hands /\ db \in Database /\ Books(db)
  BY DEF IInv, TypeOK, Databases, Sound
<1>2. ASSUME NEW p \in Operator, Commit(p) PROVE db'.order[o].status \in Known
  BY <1>2, CommitClosesTheAccount, CommitBalances DEF Known
<1>3. CASE ~\E p \in Operator : Commit(p)
  <2>1. Trusted /\ ~\E r \in Restoring : Copy(r)
    BY <1>3, TrustMoves
  <2>2. \A x \in Sellable : x \in Order /\ Status(x) \in Known
    BY <2>1 DEF IInv, Covered, Sellable
  <2>3. ASSUME NEW k \in Worker, Admit(k), o = worker[k].order
        PROVE  db'.order[o].status \in Known
    <3>1. o \in Order /\ db.order \in [Order -> Row] /\ db.order[o] \in Row
      BY <1>1, <2>3 DEF Hands, Admit, Database
    <3>2. db' = [db EXCEPT !.order = [db.order EXCEPT ![o] = [db.order[o] EXCEPT
                                                              !.status = "SENDING"]]]
      BY <2>3 DEF Admit
    <3>3. db'.order[o].status = "SENDING"
      BY <1>1, <3>1, <3>2 DEF Database, Row
    <3> QED BY <3>3 DEF Known
  <2>4. ASSUME o \in Sellable PROVE db'.order[o].status \in Known
    <3>1. o \in Order /\ Status(o) \in Known
      BY <2>2, <2>4
    <3>2. supplier.receipt[o] \in {"ACCEPTED", "NONE"}
      BY <2>4 DEF Sellable
    <3>3. ASSUME NEW q \in Order, Writes(q) PROVE db'.order[o].status \in Known
      <4>1. CASE q = o
        BY <1>1, <3>1, <3>2, <3>3, <4>1, WriteBalances DEF Known
      <4>2. CASE q # o
        BY <1>1, <3>1, <3>3, <4>2, WriteBalances DEF Status
      <4> QED BY <4>1, <4>2
    <3>4. \A k \in Worker : Claim(k) => db'.order = db.order
      BY <1>1 DEF Claim, Database
    <3>5. \A r \in Restoring : Pause(r) => db'.order = db.order
      BY <1>1 DEF Pause, Database
    <3> QED BY <1>1, <1>3, <2>1, <3>1, <3>3, <3>4, <3>5, Writers DEF Status
  <2>5. o \in Sellable \/ \E k \in Worker : Admit(k) /\ o = worker[k].order
    BY SellableMoves
  <2> QED BY <2>3, <2>4, <2>5
<1> QED BY <1>2, <1>3

LEMMA CoveredKept == IInv /\ [Next]_vars => Covered'
<1> SUFFICES ASSUME IInv, [Next]_vars PROVE Covered'
  OBVIOUS
<1>1. TypeOK /\ Hands /\ Limit \in Nat
  BY RestoreAssumption DEF IInv
<1>2. ~db'.paused => Trusted'
  <2>1. ASSUME ~db'.paused, ~\E p \in Operator : Commit(p) PROVE Trusted'
    <3>1. ~db.paused
      BY <2>1, PauseStays
    <3> QED BY <2>1, <3>1, TrustMoves DEF IInv, Covered
  <2>2. ASSUME NEW p \in Operator, Commit(p) PROVE Trusted'
    BY <2>2 DEF Commit, Trusted
  <2> QED BY <2>1, <2>2
<1>3. Trusted' => \A o \in Sellable' : db'.order[o].status \in Known
  BY SalesStayKnown
<1>4. Total(Sellable') <= Limit
  <2>1. Sellable' \in SUBSET Order /\ Sellable \in SUBSET Order
    BY DEF Sellable
  <2>2. CASE Sellable' \subseteq Sellable
    <3>1. Total(Sellable) <= Limit
      BY DEF IInv, Covered
    <3> QED BY <1>1, <2>1, <2>2, <3>1, TotalPart, TotalNat
  <2>3. ASSUME NEW k \in Worker, Admit(k) PROVE Total(Sellable') <= Limit
    <3>1. ~db.paused
      BY <2>3 DEF Admit, AssertCurrent, Active
    <3>2. /\ worker[k].order \in Order /\ Writes(worker[k].order) /\ Books(db)
      BY <1>1, <2>3, AdmitWrites DEF IInv, Databases, Sound
    <3>3. db'.paused = db.paused /\ Books(db')
      BY <1>1, <3>2, WriteBalances
    <3> QED BY <1>2, <1>3, <2>1, <3>1, <3>3, KnownFits
  <2> QED BY <2>2, <2>3, SellableMoves
<1> QED BY <1>2, <1>3, <1>4 DEF Covered, Status, Total

-----------------------------------------------------------------------------
(* Theorems.                                                               *)

LEMMA Initially == Init => IInv
<1> SUFFICES ASSUME Init PROVE IInv
  OBVIOUS
<1>1. TypeOK
  BY RestoreAssumption DEF Init, TypeOK, Database, Row, NoRow, Rest, Receipt, Epoch
<1>2. Total({}) = 0
  BY SumEmpty DEF Total
<1>3. In(db, Held) = {} /\ In(db, {"CONFIRMED"}) = {} /\ Sellable = {}
  BY DEF Init, In, Held, NoRow, Sellable
<1>4. Sound(db)
  <2>1. Books(db)
    <3>1. db.reserved = 0 /\ db.spent = 0
      BY DEF Init
    <3>2. Limit \in Nat
      BY RestoreAssumption
    <3> QED BY <1>2, <1>3, <3>1, <3>2 DEF Books
  <2>2. /\ db.recovered = {} /\ db.binding = 0 /\ supplier.epoch = 0
        /\ supplier.rotation[db.epoch] = 0
    BY DEF Init, Epoch
  <2> QED BY <2>1, <2>2 DEF Sound, Old, Fenced
<1>5. Hands /\ Requests /\ Rotations /\ Runs
  BY DEF Init, Hands, Requests, Rotations, Runs, RunOfRecovery, Old, Fenced, Begun, Rest,
         Epoch
<1>6. Databases
  BY <1>4 DEF Init, Databases, Begun, Shelved
<1>7. Covered
  BY <1>2, <1>3, RestoreAssumption DEF Init, Covered, Trusted, Epoch
<1> QED BY <1>1, <1>5, <1>6, <1>7 DEF IInv

LEMMA Kept == IInv /\ [Next]_vars => IInv'
BY Types, HandsKept, RequestsKept, DatabasesKept, RotationsKept, RunsKept, CoveredKept
   DEF IInv

\* The inductive invariant of backup, restore and recovery.
THEOREM Invariance == Spec => []IInv
BY Initially, Kept, PTL DEF Spec

\* Every variable keeps its type, images, snapshots and requests included.
THEOREM TypeCorrect == Spec => []TypeOK
<1>1. IInv => TypeOK
  BY DEF IInv
<1> QED BY <1>1, Invariance, PTL

\* While the assistant may act its ledger accounts for every order the supplier
\* accepted, whatever was restored, fenced, exported and committed before, and
\* by whom, and however late requests arrive (account_recovery.recover).
THEOREM EverySaleIsKnown == Spec => []SalesAreKnown
<1>1. IInv => SalesAreKnown
  <2> SUFFICES ASSUME IInv, Active, NEW o \in Order, supplier.receipt[o] = "ACCEPTED"
               PROVE  Status(o) \in {"SENDING", "CONFIRMED"}
    BY DEF SalesAreKnown
  <2>1. o \in Sellable
    BY DEF Sellable
  <2> QED BY <2>1 DEF IInv, Covered, Active, Known
<1> QED BY <1>1, Invariance, PTL

\* What the supplier sold over all histories stays within the ceiling that each
\* of their ledgers enforced on its own.
THEOREM TheCeilingSurvives == Spec => []CeilingSurvives
<1>1. IInv => CeilingSurvives
  <2> SUFFICES ASSUME IInv PROVE Total(Accepted(supplier.receipt)) <= Limit
    BY DEF CeilingSurvives
  <2> DEFINE S == Accepted(supplier.receipt)
  <2>1. S \in SUBSET Sellable /\ Sellable \in SUBSET Order /\ S \in SUBSET Order
    BY DEF Accepted, Sellable
  <2> HIDE DEF S
  <2>2. Total(S) <= Total(Sellable) /\ Total(S) \in Nat /\ Total(Sellable) \in Nat
    BY <2>1, TotalPart, TotalNat
  <2>3. Total(Sellable) <= Limit /\ Limit \in Nat
    BY RestoreAssumption DEF IInv, Covered
  <2> QED BY <2>2, <2>3 DEF S
<1> QED BY <1>1, Invariance, PTL
=============================================================================
