--------------------------- MODULE MessagingProofs ---------------------------
(***************************************************************************)
(* The safety of the two ways messages travel: the mailbox of relay.py and *)
(* the Telegram channel, for any number of processes, servers, messages,   *)
(* retries, crashes and lapses.  The two share no variable.                *)
(*                                                                         *)
(* Mailbox.  A claim is safe from older copies because no token in the     *)
(* table or in the hands of a process is newer than the counter, and safe  *)
(* from a process that read the clock before it was made because a clock   *)
(* once read is never ahead of the present.  MailboxInv says both.         *)
(*                                                                         *)
(* Channel.  A batch may be stored because whoever owns the live lease     *)
(* read the cursor under it, and nobody else has stored since:             *)
(* LeaseKnowsCursor.  The cursor may pass what it passes because all of it *)
(* is in the batch or was stored before: BatchIsWhole.  A report is        *)
(* displayed once because one process at a time is about to send it, and   *)
(* it was not sent: SenderIsAlone.                                         *)
(***************************************************************************)
EXTENDS Mailbox, Channel, SetFacts, TLAPS

-----------------------------------------------------------------------------
(* The mailbox.                                                            *)

MailboxInv ==
  /\ MailboxTypeOK
  /\ \A m \in Msg : row[m].token <= tok
  /\ \A p \in Process : copy[p].row.token <= tok
  /\ \A p \in Process : claiming[p].at <= now
  /\ \A p \in Process : claiming[p].pc # "idle" => claiming[p].of \in Msg
  /\ ClaimHoldsNewestToken
  /\ UnclaimedHasNoOwner

-----------------------------------------------------------------------------

(* The invariant holds of a mailbox nobody has sent to. *)
LEMMA Initial == ASSUME MailboxAssumption PROVE MailboxInit => MailboxInv
BY DEF MailboxAssumption, MailboxInit, MailboxInv, MailboxTypeOK, NoRow, NoCopy, NotClaiming, Row, State, Copy,
       Claiming, ClaimHoldsNewestToken, UnclaimedHasNoOwner

(* What dead_letter() makes of a row is a row, not claimed and with a      *)
(* token no newer.                                                         *)
LEMMA FailureType ==
  ASSUME MailboxAssumption, NEW r \in Row
  PROVE  /\ AfterFailure(r) \in Row
         /\ AfterFailure(r).state \in {"NEW", "DEAD"}
         /\ AfterFailure(r).token <= r.token
         /\ AfterFailure(r).state = "NEW" => ~AfterFailure(r).owned
BY DEF MailboxAssumption, AfterFailure, Row, State

(* Reading a row into a copy keeps the invariant. *)
LEMMA KeepStays ==
  ASSUME MailboxAssumption, MailboxInv, NEW p \in Process, NEW m \in Msg, Keep(p, m),
         UNCHANGED <<now, tok, row>>, claiming' = claiming \/ claiming' = [claiming EXCEPT ![p] = NotClaiming]
  PROVE  MailboxInv'
<1> USE DEF MailboxInv, MailboxTypeOK
<1>1. copy' \in [Process -> Copy]
  BY DEF Keep, Copy
<1>2. claiming' \in [Process -> Claiming]
  BY DEF NotClaiming, Claiming
<1>3. /\ \A q \in Process : claiming'[q].at <= now
      /\ \A q \in Process : claiming'[q].pc # "idle" => claiming'[q].of \in Msg
  BY SMTT(30) DEF NotClaiming, Claiming
<1>4. /\ copy'[p] = [of |-> m, row |-> row[m]]
      /\ \A q \in Process \ {p} : copy'[q] = copy[q]
  BY DEF Keep
<1>5. \A q \in Process : copy'[q].row.token <= tok
  BY <1>4
<1>6. ClaimHoldsNewestToken'
  BY <1>4 DEF ClaimHoldsNewestToken, Row, MailboxAssumption
<1>7. UnclaimedHasNoOwner'
  BY DEF UnclaimedHasNoOwner
<1> QED
  BY <1>1, <1>2, <1>3, <1>5, <1>6, <1>7

(* No operation of relay.py, and no crash or tick, leaves the invariant. *)
LEMMA Inductive == ASSUME MailboxAssumption PROVE MailboxInv /\ [MailboxNext]_mailboxVars => MailboxInv'
<1> SUFFICES ASSUME MailboxInv, [MailboxNext]_mailboxVars PROVE MailboxInv'
  OBVIOUS
<1> USE DEF MailboxInv, MailboxTypeOK
<1>1. CASE UNCHANGED mailboxVars
  BY <1>1 DEF mailboxVars, ClaimHoldsNewestToken, UnclaimedHasNoOwner
<1>2. CASE Tick
  BY <1>2 DEF Tick, ClaimHoldsNewestToken, UnclaimedHasNoOwner, Claiming
<1>3. CASE Sweep
  <2>1. /\ row' = [m \in Msg |-> IF ExpiredClaim(m) THEN Swept(row[m]) ELSE row[m]]
        /\ UNCHANGED <<now, tok, copy, claiming>>
    BY <1>3 DEF Sweep
  <2>2. \A m \in Msg :
          /\ Swept(row[m]) \in Row /\ Swept(row[m]).state = "NEW"
          /\ ~Swept(row[m]).owned /\ Swept(row[m]).token = row[m].token
    BY ZenonT(60) DEF Swept, Row, State
  <2>3. row' \in [Msg -> Row] /\ \A m \in Msg : row'[m].token = row[m].token
    BY <2>1, <2>2
  <2>4. ClaimHoldsNewestToken' /\ UnclaimedHasNoOwner'
    BY <2>1, <2>2 DEF ClaimHoldsNewestToken, UnclaimedHasNoOwner
  <2> QED
    BY <2>1, <2>3, <2>4
<1>4. ASSUME NEW m \in Msg, SendMessage(m) PROVE MailboxInv'
  <2>1. row' \in [Msg -> Row]
    BY <1>4 DEF SendMessage, Row, State
  <2>2. \A n \in Msg : /\ row'[n].token = row[n].token
                       /\ row'[n].owned = row[n].owned
                       /\ row'[n].state = (IF n = m THEN "NEW" ELSE row[n].state)
    BY <1>4 DEF SendMessage, Row
  <2> QED
    BY <1>4, <2>1, <2>2 DEF SendMessage, ClaimHoldsNewestToken, UnclaimedHasNoOwner
<1>5. ASSUME NEW p \in Process, NEW m \in Msg, Inbox(p, m) \/ ClaimAgain(p, m)
      PROVE  MailboxInv'
  BY <1>5, KeepStays DEF Inbox, ClaimAgain
<1>6. ASSUME NEW p \in Process, ReadBack(p) PROVE MailboxInv'
  <2>1. claiming[p].of \in Msg
    BY <1>6 DEF ReadBack
  <2> QED
    BY <1>6, <2>1, KeepStays DEF ReadBack
<1>7. ASSUME NEW p \in Process, NEW m \in Msg, BeginClaim(p, m) PROVE MailboxInv'
  <2>1. claiming' \in [Process -> Claiming]
    BY <1>7 DEF BeginClaim, Claiming
  <2> QED
    BY <1>7, <2>1 DEF BeginClaim, ClaimHoldsNewestToken, UnclaimedHasNoOwner
<1>8. ASSUME NEW p \in Process, TakeClaim(p) PROVE MailboxInv'
  <2> DEFINE m == claiming[p].of
  <2>1. m \in Msg /\ tok' = tok + 1 /\ tok + 1 \in 0 .. MaxToken /\ tok \in Nat
    BY <1>8 DEF TakeClaim, MailboxAssumption
  <2> DEFINE r == [row[m] EXCEPT !.state = "CLAIMED", !.owned = TRUE, !.token = tok + 1,
                                 !.expires = claiming[p].at + ClaimTTL]
  <2>2. r \in Row /\ r.state = "CLAIMED" /\ r.token = tok + 1
    <3>1. row[m] \in Row /\ claiming[p].at + ClaimTTL \in Nat
      BY <2>1 DEF Claiming, MailboxAssumption
    <3> QED
      BY <2>1, <3>1 DEF Row, State
  <2>3. /\ row' = [row EXCEPT ![m] = r]
        /\ claiming' = [claiming EXCEPT ![p].pc = "back"]
        /\ UNCHANGED <<now, copy>>
    BY <1>8 DEF TakeClaim
  <2> HIDE DEF r
  <2>4. /\ claiming' \in [Process -> Claiming]
        /\ \A q \in Process : claiming'[q].at = claiming[q].at /\ claiming'[q].of = claiming[q].of
    BY <2>3 DEF Claiming
  <2>5. \A q \in Process : claiming'[q].pc # "idle" => claiming'[q].of \in Msg
    BY <2>1, <2>3, <2>4
  <2>6. /\ \A n \in Msg : row[n].token \in Nat
        /\ \A q \in Process : copy[q].row.token \in Nat
    BY DEF Row, Copy, MailboxAssumption
  <2>7. /\ \A n \in Msg : row'[n].token <= tok'
        /\ \A q \in Process : copy'[q].row.token <= tok'
    BY <2>1, <2>2, <2>3, <2>6
  <2>8. ClaimHoldsNewestToken'
    BY <2>1, <2>2, <2>3, <2>6 DEF ClaimHoldsNewestToken
  <2>9. UnclaimedHasNoOwner'
    BY <2>1, <2>2, <2>3 DEF UnclaimedHasNoOwner
  <2> QED
    BY <2>1, <2>2, <2>3, <2>4, <2>5, <2>7, <2>8, <2>9
<1>9. ASSUME NEW p \in Process, ClaimRefused(p) PROVE MailboxInv'
  <2>1. NotClaiming \in Claiming /\ NotClaiming.pc = "idle" /\ NotClaiming.at = 0
    BY DEF NotClaiming, Claiming
  <2>2. /\ claiming' = [claiming EXCEPT ![p] = NotClaiming]
        /\ UNCHANGED <<now, tok, row, copy>>
    BY <1>9 DEF ClaimRefused
  <2> QED
    BY <2>1, <2>2 DEF ClaimHoldsNewestToken, UnclaimedHasNoOwner
<1>10. ASSUME NEW p \in Process, Complete(p) PROVE MailboxInv'
  <2> DEFINE m == copy[p].of
  <2>1. m \in Msg
    BY <1>10 DEF Complete, Copy
  <2>2. /\ row' = [row EXCEPT ![m].state = "DONE"]
        /\ copy' = [copy EXCEPT ![p].row = row'[m]]
        /\ UNCHANGED <<now, tok, claiming>>
    BY <1>10 DEF Complete
  <2>3. /\ row' \in [Msg -> Row]
        /\ row'[m].state = "DONE" /\ row'[m].token = row[m].token
        /\ \A n \in Msg \ {m} : row'[n] = row[n]
    BY SMTT(30), <2>1, <2>2 DEF Row, State
  <2>4. /\ copy' \in [Process -> Copy]
        /\ copy'[p].row = row'[m] /\ copy'[p].of = m
        /\ \A q \in Process \ {p} : copy'[q] = copy[q]
    <3>1. row'[m] \in Row
      BY <2>1, <2>3
    <3> DEFINE c == [copy[p] EXCEPT !.row = row'[m]]
    <3>2. c \in Copy /\ c.row = row'[m] /\ c.of = m
      BY <3>1 DEF Copy
    <3>3. copy' = [copy EXCEPT ![p] = c]
      BY <2>2
    <3> HIDE DEF m, c
    <3> QED
      BY <3>2, <3>3
  <2>5. ClaimHoldsNewestToken' /\ UnclaimedHasNoOwner'
    BY <2>3, <2>4 DEF ClaimHoldsNewestToken, UnclaimedHasNoOwner
  <2>6. \A n \in Msg : row'[n].token <= tok
    BY <2>3
  <2>7. \A q \in Process : copy'[q].row.token <= tok
    BY <2>1, <2>4, <2>6
  <2> QED
    BY <2>2, <2>3, <2>4, <2>5, <2>6, <2>7
<1>11. ASSUME NEW p \in Process, DeadLetter(p) PROVE MailboxInv'
  <2> DEFINE m == copy[p].of
             failed == AfterFailure(copy[p].row)
  <2>1. m \in Msg /\ copy[p].row \in Row
    BY <1>11 DEF DeadLetter, Copy
  <2>2. /\ failed \in Row
        /\ failed.state \in {"NEW", "DEAD"}
        /\ failed.token <= copy[p].row.token
        /\ failed.state = "NEW" => ~failed.owned
    BY <2>1, FailureType
  <2>3. /\ copy' = [copy EXCEPT ![p].row = failed]
        /\ row' = row \/ row' = [row EXCEPT ![m] = failed]
        /\ UNCHANGED <<now, tok, claiming>>
    BY <1>11 DEF DeadLetter
  <2> HIDE DEF failed
  <2>4. /\ failed.token \in Nat /\ copy[p].row.token \in Nat /\ tok \in Nat
        /\ \A n \in Msg : row[n].token \in Nat
    BY <2>1, <2>2 DEF Row, MailboxAssumption
  <2>5. /\ copy' \in [Process -> Copy]
        /\ copy'[p].row = failed /\ copy'[p].of = m
        /\ \A q \in Process \ {p} : copy'[q] = copy[q]
    BY <2>1, <2>2, <2>3 DEF Copy
  <2>6. row' \in [Msg -> Row]
    BY <2>1, <2>2, <2>3
  <2>7. ClaimHoldsNewestToken'
    BY <2>1, <2>2, <2>3, <2>4, <2>5 DEF ClaimHoldsNewestToken
  <2>8. UnclaimedHasNoOwner'
    BY <2>1, <2>2, <2>3 DEF UnclaimedHasNoOwner
  <2>9. \A q \in Process : copy'[q].row.token <= tok
    BY <2>2, <2>4, <2>5
  <2>10. \A n \in Msg : row'[n].token <= tok
    BY <2>1, <2>2, <2>3, <2>4
  <2> QED
    BY <2>3, <2>5, <2>6, <2>7, <2>8, <2>9, <2>10
<1>12. ASSUME NEW p \in Process, ProcessCrash(p) PROVE MailboxInv'
  <2>1. /\ NotClaiming \in Claiming /\ NotClaiming.pc = "idle" /\ NotClaiming.at = 0
        /\ NoCopy \in Copy /\ NoCopy.row.token = 0 /\ NoCopy.of \notin Msg
    BY DEF NotClaiming, Claiming, NoCopy, NoRow, Copy, Row, State, MailboxAssumption
  <2>2. /\ copy' = [copy EXCEPT ![p] = NoCopy]
        /\ claiming' = [claiming EXCEPT ![p] = NotClaiming]
        /\ UNCHANGED <<now, tok, row>>
    BY <1>12 DEF ProcessCrash
  <2>3. tok \in Nat
    BY DEF MailboxAssumption
  <2> QED
    BY <2>1, <2>2, <2>3 DEF ClaimHoldsNewestToken, UnclaimedHasNoOwner
<1> QED
  BY <1>1, <1>2, <1>3, <1>4, <1>5, <1>6, <1>7, <1>8, <1>9, <1>10, <1>11, <1>12 DEF MailboxNext

(* The invariant holds after any history of claims, sweeps and failures. *)
THEOREM MailboxInvariance == MailboxSpec => []MailboxInv
<1>1. MailboxAssumption
  BY MailboxAssumption
<1> QED
  BY <1>1, Initial, Inductive, PTL DEF MailboxSpec

-----------------------------------------------------------------------------
(* Theorems *)

(* Every variable keeps its type. *)
THEOREM MailboxTypeCorrect == MailboxSpec => []MailboxTypeOK
BY MailboxInvariance, PTL DEF MailboxInv

(* No copy anybody holds can pass for the claim in force. *)
THEOREM NewestToken == MailboxSpec => []ClaimHoldsNewestToken
BY MailboxInvariance, PTL DEF MailboxInv

(* A message back in the inbox has no owner. *)
THEOREM NoOwner == MailboxSpec => []UnclaimedHasNoOwner
BY MailboxInvariance, PTL DEF MailboxInv

-----------------------------------------------------------------------------
(* What may happen to a message in one step *)

(* A claim in force ends by its own completion, by a sweep or a claim once *)
(* it expired, or by a dead_letter() that presents its token.              *)
LEMMA RowEffect ==
  ASSUME MailboxAssumption, MailboxInv, [MailboxNext]_mailboxVars, NEW m \in Msg
  PROVE  \/ row'[m] = row[m]
         \/ row[m].state = "ABSENT" /\ row'[m].state = "NEW"
         \/ ExpiredClaim(m) /\ row'[m].state = "NEW"
         \/ (row[m].state = "NEW" \/ ExpiredClaim(m)) /\ row'[m].state = "CLAIMED"
         \/ row[m].owned /\ row'[m].token = row[m].token
         \/ row'[m].state # "DONE" /\ row'[m].token \in {0, row[m].token}
<1> USE DEF MailboxInv, MailboxTypeOK
<1> DEFINE Goal == \/ row'[m] = row[m]
                   \/ row[m].state = "ABSENT" /\ row'[m].state = "NEW"
                   \/ ExpiredClaim(m) /\ row'[m].state = "NEW"
                   \/ (row[m].state = "NEW" \/ ExpiredClaim(m)) /\ row'[m].state = "CLAIMED"
                   \/ row[m].owned /\ row'[m].token = row[m].token
                   \/ row'[m].state # "DONE" /\ row'[m].token \in {0, row[m].token}
<1>1. CASE UNCHANGED row
  BY <1>1
<1>2. CASE Sweep
  BY <1>2 DEF Sweep, Swept, Row
<1>3. ASSUME NEW n \in Msg, SendMessage(n) PROVE Goal
  BY <1>3 DEF SendMessage, Row
<1>4. ASSUME NEW p \in Process, TakeClaim(p) PROVE Goal
  <2>1. CASE claiming[p].of = m
    <3>1. row[m].state = "NEW" \/ (row[m].state = "CLAIMED" /\ row[m].expires <= now)
      BY <1>4, <2>1 DEF TakeClaim, Claimable, Row, Claiming
    <3>2. row'[m].state = "CLAIMED"
      BY <1>4, <2>1 DEF TakeClaim, Row
    <3> QED
      BY <3>1, <3>2 DEF ExpiredClaim
  <2>2. CASE claiming[p].of # m
    BY <1>4, <2>2 DEF TakeClaim
  <2> QED
    BY <2>1, <2>2
<1>5. ASSUME NEW p \in Process, Complete(p) PROVE Goal
  BY <1>5 DEF Complete, Row
<1>6. ASSUME NEW p \in Process, DeadLetter(p) PROVE Goal
  <2>1. CASE copy[p].of = m /\ row[m].token = copy[p].row.token
    <3>1. row'[m] = AfterFailure(copy[p].row)
      BY <1>6, <2>1 DEF DeadLetter
    <3>2. copy[p].row \in Row
      BY DEF Copy
    <3>3. /\ AfterFailure(copy[p].row).state # "DONE"
          /\ AfterFailure(copy[p].row).token \in {0, copy[p].row.token}
      BY <3>2 DEF AfterFailure, Row
    <3> QED
      BY <2>1, <3>1, <3>3
  <2>2. CASE ~(copy[p].of = m /\ row[m].token = copy[p].row.token)
    BY <1>6, <2>2 DEF DeadLetter
  <2> QED
    BY <2>1, <2>2
<1>7. ASSUME NEW p \in Process, NEW n \in Msg,
             \/ Inbox(p, n) \/ ClaimAgain(p, n) \/ BeginClaim(p, n)
             \/ ClaimRefused(p) \/ ReadBack(p) \/ ProcessCrash(p)
      PROVE  UNCHANGED row
  BY <1>7 DEF Inbox, ClaimAgain, BeginClaim, ClaimRefused, ReadBack, ProcessCrash
<1>8. Tick \/ UNCHANGED mailboxVars => UNCHANGED row
  BY DEF Tick, mailboxVars
<1> QED
  BY <1>1, <1>2, <1>3, <1>4, <1>5, <1>6, <1>7, <1>8 DEF MailboxNext

(* A message that a sweep took back is not completed under the token of    *)
(* the claim that lapsed.                                                  *)
THEOREM NoLateCompletion == MailboxSpec => SweptIsNotCompleted
<1>1. MailboxAssumption
  BY MailboxAssumption
<1>2. ASSUME MailboxInv, [MailboxNext]_mailboxVars, NEW m \in Msg, row[m].state = "NEW"
      PROVE  row'[m].state # "DONE"
  BY <1>1, <1>2, RowEffect DEF MailboxInv, UnclaimedHasNoOwner, ExpiredClaim
<1>3. MailboxInv /\ [MailboxNext]_mailboxVars =>
        [\A m \in Msg : row[m].state = "NEW" => row'[m].state # "DONE"]_mailboxVars
  BY <1>2
<1> QED
  BY <1>3, MailboxInvariance, PTL DEF MailboxSpec, SweptIsNotCompleted

(* A claim that has time left is never taken over. *)
THEOREM NoEarlyTakeover == MailboxSpec => LiveClaimIsKept
<1>1. MailboxAssumption
  BY MailboxAssumption
<1>2. ASSUME MailboxInv, [MailboxNext]_mailboxVars, NEW m \in Msg, LiveClaim(m)
      PROVE  row'[m].token \in {0, row[m].token}
  <2>1. /\ row[m].state = "CLAIMED" /\ ~ExpiredClaim(m)
    BY <1>2 DEF LiveClaim, ExpiredClaim, MailboxInv, MailboxTypeOK, Row
  <2> QED
    BY <1>1, <1>2, <2>1, RowEffect
<1>3. MailboxInv /\ [MailboxNext]_mailboxVars =>
        [\A m \in Msg : LiveClaim(m) => row'[m].token \in {0, row[m].token}]_mailboxVars
  BY <1>2
<1> QED
  BY <1>3, MailboxInvariance, PTL DEF MailboxSpec, LiveClaimIsKept

-----------------------------------------------------------------------------
(* The cursor.                                                             *)

\* The cursor behind a batch.
LEMMA MaxOfBatch ==
    ASSUME NEW offset \in Nat, NEW batch \in SUBSET Update
    PROVE  LET next == Max({offset} \cup {u + 1 : u \in batch})
           IN  /\ next \in Nat /\ next >= offset
               /\ next # offset => \E u \in batch : next = u + 1
<1> DEFINE S == {offset} \cup {u + 1 : u \in batch}
<1>1. S \in SUBSET Nat /\ S # {} /\ offset \in S
    BY ChannelAssumption DEF Update
<1>2. \A x \in S : x <= offset + MaxUpdate + 1
    BY ChannelAssumption DEF Update
<1>3. offset + MaxUpdate + 1 \in Nat
    BY ChannelAssumption
<1>4. \A x \in S : x # offset => \E u \in batch : x = u + 1
    OBVIOUS
<1> HIDE DEF S
<1>5. Max(S) \in S /\ \A y \in S : y <= Max(S)
    BY <1>1, <1>2, <1>3, MaxOf
<1>6. Max(S) \in Nat /\ Max(S) >= offset /\ (Max(S) # offset => \E u \in batch : Max(S) = u + 1)
    BY <1>1, <1>4, <1>5
<1> QED
    BY <1>6 DEF S

-----------------------------------------------------------------------------
(* The inductive invariant.                                                *)

Holding == [at : {"IDLE", "READ", "FETCH", "STORE", "RELEASE", "SEND", "SAVE"},
            offset : Nat, batch : SUBSET Update, update : 0..MaxUpdate, answered : BOOLEAN]

\* A lease that is owned is owned by a poller; while it lasts, the poller knows
\* the cursor as it is.
LeaseKnowsCursor ==
    \A p \in Server :
        lease.owner = p =>
            /\ server[p].at \in {"READ", "FETCH", "STORE", "RELEASE"}
            /\ lease.live /\ server[p].at \in {"FETCH", "STORE"} => server[p].offset = cursor

\* Nothing is forgotten, or behind the cursor, but what is stored.
StoredBehind ==
    /\ forgotten <= cursor
    /\ \A p \in Server : server[p].at \in {"FETCH", "STORE"} => server[p].offset <= cursor
    /\ \A u \in Update \ Stranger : u < cursor => work[u] # "NONE"

\* A batch has every message up to its last one that is not stored yet.
BatchIsWhole ==
    \A p \in Server : server[p].at = "STORE" =>
        \A u \in server[p].batch : \A v \in Update \ Stranger :
            v <= u => v \in server[p].batch \/ work[v] # "NONE"

\* Whoever is about to send a report is the only one who ever was.
SenderIsAlone ==
    /\ \A p \in Server : server[p].at \in {"SEND", "SAVE"} => server[p].update \in Update
    /\ \A u \in Update : report[u] \in {"NONE", "PENDING"} =>
          /\ shown[u] = 0
          /\ \A p \in Server : server[p].at \in {"SEND", "SAVE"} => server[p].update # u
    /\ \A p \in Server : server[p].at = "SEND" => shown[server[p].update] = 0
    /\ \A p \in Server : server[p].at = "SAVE" /\ server[p].answered =>
          shown[server[p].update] = 1
    /\ \A p, q \in Server :
          /\ server[p].at \in {"SEND", "SAVE"} /\ server[q].at \in {"SEND", "SAVE"}
          /\ server[p].update = server[q].update
          => p = q

\* Work that is not closed has no report yet.
ReportFollowsWork == \A u \in Update : work[u] \in {"NONE", "OPEN"} => report[u] = "NONE"

IInv ==
    /\ TypeOK
    /\ LeaseKnowsCursor /\ StoredBehind /\ BatchIsWhole
    /\ SenderIsAlone /\ ReportFollowsWork /\ ReportIsSentOnce

-----------------------------------------------------------------------------
(* Types.                                                                  *)

Works == {"NONE", "OPEN", "CLOSED", "REJECTED"}
Reports == {"NONE", "PENDING", "SENDING", "SENT", "UNKNOWN", "DENIED"}

\* What a process holds after a step of its own.
LEMMA GotoType ==
    ASSUME server \in [Server -> Holding], NEW p \in Server, NEW s \in Holding, Goto(p, s)
    PROVE  server' \in [Server -> Holding]
BY DEF Goto

LEMMA StepType ==
    ASSUME server \in [Server -> Holding], NEW p \in Server, 
           NEW place \in {"IDLE", "READ", "FETCH", "STORE", "RELEASE", "SEND", "SAVE"},
           Step(p, place)
    PROVE  server' \in [Server -> Holding]
BY DEF Step, Goto, Holding

\* What a transaction that stores a batch writes.
LEMMA StoreMoves ==
    ASSUME TypeOK, NEW p \in Server, Store(p)
    PROVE  LET new == {u \in server[p].batch \ Stranger : work[u] = "NONE"}
           IN  /\ work' \in [Update -> Works] /\ report' \in [Update -> Reports]
               /\ \A u \in new : /\ work'[u] \in {"OPEN", "REJECTED"}
                                 /\ work'[u] = "OPEN" => report'[u] = report[u]
                                 /\ report'[u] \in {report[u], "PENDING"}
               /\ \A u \in Update \ new : work'[u] = work[u] /\ report'[u] = report[u]
<1> DEFINE new == {u \in server[p].batch \ Stranger : work[u] = "NONE"}
<1>1. PICK chosen \in SUBSET new : Admitted(new, chosen)
    BY DEF Store
<1>2. new \subseteq Update
    BY DEF TypeOK
<1> HIDE DEF new
<1>3. \A u \in Update :
         /\ work'[u] = IF u \in chosen THEN "OPEN"
                       ELSE IF u \in new \ chosen THEN "REJECTED" ELSE work[u]
         /\ report'[u] = IF u \in new \ chosen THEN "PENDING" ELSE report[u]
    BY <1>1 DEF Admitted
<1>4. work' \in [Update -> Works] /\ report' \in [Update -> Reports]
    BY <1>1 DEF Admitted, TypeOK, Works, Reports
<1> QED
    BY <1>2, <1>3, <1>4 DEF new

LEMMA Types == IInv /\ [Next]_vars => TypeOK'
<1> SUFFICES ASSUME IInv, [Next]_vars PROVE TypeOK'
    OBVIOUS
<1> DEFINE T ==
      /\ written \in 0..MaxUpdate
      /\ forgotten \in Nat /\ cursor \in Nat
      /\ shown \in [Update -> Nat]
      /\ lease \in [owner : Server \cup {None}, live : BOOLEAN]
      /\ work \in [Update -> Works]
      /\ report \in [Update -> Reports]
      /\ server \in [Server -> Holding]
      /\ crashes \in Nat
<1>1. T /\ SenderIsAlone
    BY DEF IInv, TypeOK, Works, Reports, Holding
<1>2. Idle \in Holding /\ [Idle EXCEPT !.at = "RELEASE"] \in Holding
  <2>1. Idle \in Holding
    BY ChannelAssumption DEF Idle, Holding
  <2> QED
    BY <2>1 DEF Holding
<1>3. ASSUME NEW u \in Update PROVE [Idle EXCEPT !.at = "SEND", !.update = u] \in Holding
  <2>1. u \in 0..MaxUpdate
    BY ChannelAssumption DEF Update
  <2> QED
    BY <1>2, <2>1 DEF Holding
<1>4. T'
  <2>1. CASE Write
    BY <1>1, <2>1, ChannelAssumption DEF Write, telegram
  <2>2. CASE LeaseRunsOut
    BY <1>1, <2>2 DEF LeaseRunsOut, telegram
  <2>3. CASE CloseReports
    BY <1>1, <2>3 DEF CloseReports, telegram, Reports
  <2>4. ASSUME NEW u \in Update, Finish(u) PROVE T'
    BY <1>1, <2>4 DEF Finish, telegram, Reports, Works
  <2>5. ASSUME NEW p \in Server, TakeLease(p) PROVE T'
    <3>1. server' \in [Server -> Holding]
        BY <1>1, <2>5, StepType DEF TakeLease
    <3> QED
        BY <1>1, <2>5, <3>1 DEF TakeLease, telegram
  <2>6. ASSUME NEW p \in Server, ReadCursor(p) PROVE T'
    <3>1. [server[p] EXCEPT !.at = "FETCH", !.offset = cursor] \in Holding
        BY <1>1 DEF Holding
    <3>2. server' \in [Server -> Holding]
        BY <1>1, <2>6, <3>1, GotoType DEF ReadCursor
    <3> QED
        BY <1>1, <2>6, <3>2 DEF ReadCursor, telegram
  <2>7. ASSUME NEW p \in Server, Fetch(p) PROVE T'
    <3> DEFINE batch == {u \in Update : u <= written /\ u >= Max({server[p].offset, forgotten})}
    <3>1. server[p] \in Holding /\ server[p].offset \in Nat
        BY <1>1 DEF Holding
    <3>2. Max({forgotten, server[p].offset}) \in Nat
        BY <1>1, <3>1, MaxOfTwo
    <3>3. [server[p] EXCEPT !.at = "STORE", !.batch = batch] \in Holding
        BY <3>1 DEF Holding
    <3>4. Goto(p, [server[p] EXCEPT !.at = "STORE", !.batch = batch])
        BY <2>7 DEF Fetch
    <3> HIDE DEF batch
    <3>5. server' \in [Server -> Holding]
        BY <1>1, <3>3, <3>4, GotoType
    <3> QED
        BY <1>1, <2>7, <3>2, <3>5 DEF Fetch, telegram
  <2>8. ASSUME NEW p \in Server, FetchFails(p) PROVE T'
    <3>1. server' \in [Server -> Holding]
        BY <1>1, <2>8, StepType DEF FetchFails
    <3> QED
        BY <1>1, <2>8, <3>1 DEF FetchFails, telegram
  <2>9. ASSUME NEW p \in Server, Store(p) PROVE T'
    <3>1. server[p].offset \in Nat /\ server[p].batch \in SUBSET Update
        BY <1>1 DEF Holding
    <3>2. cursor' \in Nat
        BY <2>9, <3>1, MaxOfBatch DEF Store
    <3>3. work' \in [Update -> Works] /\ report' \in [Update -> Reports]
        BY <2>9, StoreMoves DEF IInv
    <3>4. server' \in [Server -> Holding]
        BY <1>1, <1>2, <2>9, GotoType DEF Store
    <3> QED
        BY <1>1, <2>9, <3>2, <3>3, <3>4 DEF Store, telegram
  <2>10. ASSUME NEW p \in Server, StoreRefused(p) PROVE T'
    BY <1>1, <1>2, <2>10, GotoType DEF StoreRefused, telegram
  <2>11. ASSUME NEW p \in Server, ReleaseLease(p) PROVE T'
    BY <1>1, <1>2, <2>11, GotoType DEF ReleaseLease, telegram
  <2>12. ASSUME NEW p \in Server, NEW u \in Update, TakeReport(p, u) PROVE T'
    <3>1. server' \in [Server -> Holding]
        BY <1>1, <1>3, <2>12, GotoType DEF TakeReport
    <3> QED
        BY <1>1, <2>12, <3>1 DEF TakeReport, telegram, Reports
  <2>13. ASSUME NEW p \in Server, NEW u \in Update, Deny(p, u) PROVE T'
    BY <1>1, <2>13 DEF Deny, telegram, Reports
  <2>14. ASSUME NEW p \in Server, Send(p) PROVE T'
    <3>1. PICK answered \in BOOLEAN :
             Goto(p, [server[p] EXCEPT !.at = "SAVE", !.answered = answered])
        BY <2>14 DEF Send
    <3>2. [server[p] EXCEPT !.at = "SAVE", !.answered = answered] \in Holding
        BY <1>1 DEF Holding
    <3>3. server' \in [Server -> Holding]
        BY <1>1, <3>1, <3>2, GotoType
    <3>4. server[p].update \in Update
        BY <1>1, <2>14 DEF Send, At, SenderIsAlone
    <3>5. shown' \in [Update -> Nat]
        BY <1>1, <2>14, <3>4 DEF Send
    <3> QED
        BY <1>1, <2>14, <3>3, <3>5 DEF Send
  <2>15. ASSUME NEW p \in Server, Save(p) PROVE T'
    <3>1. server' \in [Server -> Holding]
        BY <1>1, <1>2, <2>15, GotoType DEF Save
    <3>2. server[p].update \in Update
        BY <1>1, <2>15 DEF Save, At, SenderIsAlone
    <3>3. report' \in [Update -> Reports]
        BY <1>1, <2>15, <3>2 DEF Save, Reports
    <3> QED
        BY <1>1, <2>15, <3>1, <3>3 DEF Save, telegram
  <2>16. ASSUME NEW p \in Server, Crash(p) PROVE T'
    <3>1. server' \in [Server -> Holding]
        BY <1>1, <1>2, <2>16, GotoType DEF Crash
    <3> QED
        BY <1>1, <2>16, <3>1 DEF Crash, telegram
  <2>17. CASE UNCHANGED vars
    BY <1>1, <2>17 DEF vars
  <2> QED
    BY <2>1, <2>2, <2>3, <2>4, <2>5, <2>6, <2>7, <2>8, <2>9, <2>10, <2>11, <2>12, <2>13,
       <2>14, <2>15, <2>16, <2>17 DEF Next, Poll, Deliver
<1> QED
    BY <1>4 DEF TypeOK, Works, Reports, Holding

\* Only the owner of the live lease moves the cursor.
LEMMA LeaseKept == IInv /\ [Next]_vars => LeaseKnowsCursor'
<1> SUFFICES ASSUME IInv, [Next]_vars PROVE LeaseKnowsCursor'
    OBVIOUS
<1>0. /\ server \in [Server -> Holding] /\ lease \in [owner : Server \cup {None}, live : BOOLEAN]
      /\ cursor \in Nat /\ forgotten \in Nat /\ work \in [Update -> Works]
      /\ report \in [Update -> Reports] /\ shown \in [Update -> Nat]
    BY DEF IInv, TypeOK, Works, Reports, Holding
<1>1. CASE Write
    BY <1>0, <1>1 DEF Write, IInv, LeaseKnowsCursor, telegram, Holding
<1>2. CASE LeaseRunsOut
    BY <1>0, <1>2 DEF LeaseRunsOut, IInv, LeaseKnowsCursor, telegram, Holding
<1>3. CASE CloseReports
    BY <1>0, <1>3 DEF CloseReports, IInv, LeaseKnowsCursor, telegram, Holding
<1>4. ASSUME NEW u \in Update, Finish(u) PROVE LeaseKnowsCursor'
    BY <1>0, <1>4 DEF Finish, IInv, LeaseKnowsCursor, telegram, Holding
<1>5. ASSUME NEW p \in Server, TakeLease(p) PROVE LeaseKnowsCursor'
    BY <1>0, <1>5 DEF TakeLease, Goto, Step, At, Idle, IInv, LeaseKnowsCursor, telegram, Holding
<1>6. ASSUME NEW p \in Server, ReadCursor(p) PROVE LeaseKnowsCursor'
    BY <1>0, <1>6 DEF ReadCursor, Goto, At, IInv, LeaseKnowsCursor, telegram, Holding
<1>7. ASSUME NEW p \in Server, Fetch(p) PROVE LeaseKnowsCursor'
    BY <1>0, <1>7 DEF Fetch, Goto, At, IInv, LeaseKnowsCursor, telegram, Holding
<1>8. ASSUME NEW p \in Server, FetchFails(p) PROVE LeaseKnowsCursor'
    BY <1>0, <1>8 DEF FetchFails, Goto, Step, At, IInv, LeaseKnowsCursor, telegram, Holding
<1>9. ASSUME NEW p \in Server, Store(p) PROVE LeaseKnowsCursor'
    BY <1>0, <1>9 DEF Store, Goto, At, Idle, IInv, LeaseKnowsCursor, telegram, Holding
<1>10. ASSUME NEW p \in Server, StoreRefused(p) PROVE LeaseKnowsCursor'
    BY <1>0, <1>10 DEF StoreRefused, Goto, At, Idle, IInv, LeaseKnowsCursor, telegram, Holding
<1>11. ASSUME NEW p \in Server, ReleaseLease(p) PROVE LeaseKnowsCursor'
  <2>1. /\ lease' = IF lease.owner = p THEN [owner |-> None, live |-> FALSE] ELSE lease
        /\ server' = [server EXCEPT ![p] = Idle] /\ cursor' = cursor
    BY <1>11 DEF ReleaseLease, Goto, telegram
  <2>2. ASSUME NEW q \in Server, lease'.owner = q
        PROVE  lease' = lease /\ server'[q] = server[q]
    BY <1>0, <2>1, <2>2, ChannelAssumption
  <2> QED
    BY <2>1, <2>2 DEF IInv, LeaseKnowsCursor
<1>12. ASSUME NEW p \in Server, Send(p) PROVE LeaseKnowsCursor'
    BY <1>0, <1>12 DEF Send, Goto, At, IInv, LeaseKnowsCursor, telegram, Holding
<1>13. ASSUME NEW p \in Server, Save(p) PROVE LeaseKnowsCursor'
    BY <1>0, <1>13 DEF Save, Goto, At, Idle, IInv, LeaseKnowsCursor, telegram, Holding
<1>14. ASSUME NEW p \in Server, Crash(p) PROVE LeaseKnowsCursor'
  <2>1. /\ lease' = IF lease.owner = p THEN [lease EXCEPT !.owner = None] ELSE lease
        /\ server' = [server EXCEPT ![p] = Idle] /\ cursor' = cursor
    BY <1>14 DEF Crash, Goto, telegram
  <2>2. ASSUME NEW q \in Server, lease'.owner = q
        PROVE  lease' = lease /\ server'[q] = server[q]
    BY <1>0, <2>1, <2>2, ChannelAssumption
  <2> QED
    BY <2>1, <2>2 DEF IInv, LeaseKnowsCursor
<1>15. ASSUME NEW p \in Server, NEW u \in Update, TakeReport(p, u) PROVE LeaseKnowsCursor'
    BY <1>0, <1>15 DEF TakeReport, Goto, At, Idle, IInv, LeaseKnowsCursor, telegram, Holding
<1>16. ASSUME NEW p \in Server, NEW u \in Update, Deny(p, u) PROVE LeaseKnowsCursor'
    BY <1>0, <1>16 DEF Deny, At, IInv, LeaseKnowsCursor, telegram, Holding
<1>17. CASE UNCHANGED vars
    BY <1>0, <1>17 DEF vars, IInv, LeaseKnowsCursor, telegram, Holding
<1> QED
    BY <1>1, <1>2, <1>3, <1>4, <1>5, <1>6, <1>7, <1>8, <1>9, <1>10, <1>11, <1>12, <1>13, <1>14, <1>15, <1>16, <1>17 DEF Next, Poll, Deliver

\* A report comes with the end of its work.
LEMMA ReportsFollow == IInv /\ [Next]_vars => ReportFollowsWork'
<1> SUFFICES ASSUME IInv, [Next]_vars PROVE ReportFollowsWork'
    OBVIOUS
<1>0. /\ server \in [Server -> Holding] /\ lease \in [owner : Server \cup {None}, live : BOOLEAN]
      /\ cursor \in Nat /\ forgotten \in Nat /\ work \in [Update -> Works]
      /\ report \in [Update -> Reports] /\ shown \in [Update -> Nat]
    BY DEF IInv, TypeOK, Works, Reports, Holding
<1>1. CASE Write
    BY <1>0, <1>1 DEF Write, IInv, ReportFollowsWork, telegram, Holding
<1>2. CASE LeaseRunsOut
    BY <1>0, <1>2 DEF LeaseRunsOut, IInv, ReportFollowsWork, telegram, Holding
<1>3. CASE CloseReports
    BY <1>0, <1>3 DEF CloseReports, IInv, ReportFollowsWork, telegram, Holding
<1>4. ASSUME NEW u \in Update, Finish(u) PROVE ReportFollowsWork'
    BY <1>0, <1>4 DEF Finish, IInv, ReportFollowsWork, telegram, Holding
<1>5. ASSUME NEW p \in Server, TakeLease(p) PROVE ReportFollowsWork'
    BY <1>0, <1>5 DEF TakeLease, Goto, Step, At, Idle, IInv, ReportFollowsWork, telegram, Holding
<1>6. ASSUME NEW p \in Server, ReadCursor(p) PROVE ReportFollowsWork'
    BY <1>0, <1>6 DEF ReadCursor, Goto, At, IInv, ReportFollowsWork, telegram, Holding
<1>7. ASSUME NEW p \in Server, Fetch(p) PROVE ReportFollowsWork'
    BY <1>0, <1>7 DEF Fetch, Goto, At, IInv, ReportFollowsWork, telegram, Holding
<1>8. ASSUME NEW p \in Server, FetchFails(p) PROVE ReportFollowsWork'
    BY <1>0, <1>8 DEF FetchFails, Goto, Step, At, IInv, ReportFollowsWork, telegram, Holding
<1>9. ASSUME NEW p \in Server, Store(p) PROVE ReportFollowsWork'
    BY <1>0, <1>9, StoreMoves DEF IInv, ReportFollowsWork, Works
<1>10. ASSUME NEW p \in Server, StoreRefused(p) PROVE ReportFollowsWork'
    BY <1>0, <1>10 DEF StoreRefused, Goto, At, Idle, IInv, ReportFollowsWork, telegram, Holding
<1>11. ASSUME NEW p \in Server, ReleaseLease(p) PROVE ReportFollowsWork'
    BY <1>0, <1>11 DEF ReleaseLease, Goto, At, Idle, IInv, ReportFollowsWork, telegram, Holding
<1>12. ASSUME NEW p \in Server, Send(p) PROVE ReportFollowsWork'
    BY <1>0, <1>12 DEF Send, Goto, At, IInv, ReportFollowsWork, telegram, Holding
<1>13. ASSUME NEW p \in Server, Save(p) PROVE ReportFollowsWork'
    BY <1>0, <1>13 DEF Save, Goto, At, Idle, IInv, ReportFollowsWork, telegram, Holding
<1>14. ASSUME NEW p \in Server, Crash(p) PROVE ReportFollowsWork'
    BY <1>0, <1>14 DEF Crash, Goto, At, Idle, IInv, ReportFollowsWork, telegram, Holding
<1>15. ASSUME NEW p \in Server, NEW u \in Update, TakeReport(p, u) PROVE ReportFollowsWork'
    BY <1>0, <1>15 DEF TakeReport, Goto, At, Idle, IInv, ReportFollowsWork, telegram, Holding
<1>16. ASSUME NEW p \in Server, NEW u \in Update, Deny(p, u) PROVE ReportFollowsWork'
    BY <1>0, <1>16 DEF Deny, At, IInv, ReportFollowsWork, telegram, Holding
<1>17. CASE UNCHANGED vars
    BY <1>0, <1>17 DEF vars, IInv, ReportFollowsWork, telegram, Holding
<1> QED
    BY <1>1, <1>2, <1>3, <1>4, <1>5, <1>6, <1>7, <1>8, <1>9, <1>10, <1>11, <1>12, <1>13, <1>14, <1>15, <1>16, <1>17 DEF Next, Poll, Deliver

\* A report is taken once, by one process.
LEMMA SenderKept == IInv /\ [Next]_vars => SenderIsAlone'
<1> SUFFICES ASSUME IInv, [Next]_vars PROVE SenderIsAlone'
    OBVIOUS
<1>0. /\ server \in [Server -> Holding] /\ lease \in [owner : Server \cup {None}, live : BOOLEAN]
      /\ cursor \in Nat /\ forgotten \in Nat /\ work \in [Update -> Works]
      /\ report \in [Update -> Reports] /\ shown \in [Update -> Nat]
    BY DEF IInv, TypeOK, Works, Reports, Holding
<1>1. CASE Write
    BY <1>0, <1>1 DEF Write, IInv, SenderIsAlone, ReportFollowsWork, telegram, Holding
<1>2. CASE LeaseRunsOut
    BY <1>0, <1>2 DEF LeaseRunsOut, IInv, SenderIsAlone, ReportFollowsWork, telegram, Holding
<1>3. CASE CloseReports
    BY <1>0, <1>3 DEF CloseReports, IInv, SenderIsAlone, ReportFollowsWork, telegram, Holding
<1>4. ASSUME NEW u \in Update, Finish(u) PROVE SenderIsAlone'
    BY <1>0, <1>4 DEF Finish, IInv, SenderIsAlone, ReportFollowsWork, telegram, Holding
<1>5. ASSUME NEW p \in Server, TakeLease(p) PROVE SenderIsAlone'
    BY <1>0, <1>5 DEF TakeLease, Goto, Step, At, Idle, IInv, SenderIsAlone, ReportFollowsWork, telegram, Holding
<1>6. ASSUME NEW p \in Server, ReadCursor(p) PROVE SenderIsAlone'
    BY <1>0, <1>6 DEF ReadCursor, Goto, At, IInv, SenderIsAlone, ReportFollowsWork, telegram, Holding
<1>7. ASSUME NEW p \in Server, Fetch(p) PROVE SenderIsAlone'
    BY <1>0, <1>7 DEF Fetch, Goto, At, IInv, SenderIsAlone, ReportFollowsWork, telegram, Holding
<1>8. ASSUME NEW p \in Server, FetchFails(p) PROVE SenderIsAlone'
    BY <1>0, <1>8 DEF FetchFails, Goto, Step, At, IInv, SenderIsAlone, ReportFollowsWork, telegram, Holding
<1>9. ASSUME NEW p \in Server, Store(p) PROVE SenderIsAlone'
  <2>1. \A q \in Server : server'[q] # server[q] => server'[q].at = "RELEASE"
    BY <1>0, <1>9 DEF Store, Goto, Idle
  <2>2. shown' = shown
    BY <1>9 DEF Store, telegram
  <2>3. \A u \in Update : report'[u] # report[u] => report[u] = "NONE" /\ report'[u] = "PENDING"
    BY <1>0, <1>9, StoreMoves DEF IInv, ReportFollowsWork
  <2> QED
    BY <1>0, <2>1, <2>2, <2>3 DEF IInv, SenderIsAlone
<1>10. ASSUME NEW p \in Server, StoreRefused(p) PROVE SenderIsAlone'
    BY <1>0, <1>10 DEF StoreRefused, Goto, At, Idle, IInv, SenderIsAlone, ReportFollowsWork, telegram, Holding
<1>11. ASSUME NEW p \in Server, ReleaseLease(p) PROVE SenderIsAlone'
    BY <1>0, <1>11 DEF ReleaseLease, Goto, At, Idle, IInv, SenderIsAlone, ReportFollowsWork, telegram, Holding
<1>12. ASSUME NEW p \in Server, Send(p) PROVE SenderIsAlone'
    BY <1>0, <1>12 DEF Send, Goto, At, IInv, SenderIsAlone, ReportFollowsWork, telegram, Holding
<1>13. ASSUME NEW p \in Server, Save(p) PROVE SenderIsAlone'
    BY <1>0, <1>13 DEF Save, Goto, At, Idle, IInv, SenderIsAlone, ReportFollowsWork, telegram, Holding
<1>14. ASSUME NEW p \in Server, Crash(p) PROVE SenderIsAlone'
    BY <1>0, <1>14 DEF Crash, Goto, At, Idle, IInv, SenderIsAlone, ReportFollowsWork, telegram, Holding
<1>15. ASSUME NEW p \in Server, NEW u \in Update, TakeReport(p, u) PROVE SenderIsAlone'
    BY <1>0, <1>15 DEF TakeReport, Goto, At, Idle, IInv, SenderIsAlone, ReportFollowsWork, telegram, Holding
<1>16. ASSUME NEW p \in Server, NEW u \in Update, Deny(p, u) PROVE SenderIsAlone'
    BY <1>0, <1>16 DEF Deny, At, IInv, SenderIsAlone, ReportFollowsWork, telegram, Holding
<1>17. CASE UNCHANGED vars
    BY <1>0, <1>17 DEF vars, IInv, SenderIsAlone, ReportFollowsWork, telegram, Holding
<1> QED
    BY <1>1, <1>2, <1>3, <1>4, <1>5, <1>6, <1>7, <1>8, <1>9, <1>10, <1>11, <1>12, <1>13, <1>14, <1>15, <1>16, <1>17 DEF Next, Poll, Deliver

\* A report that is sent was not sent before.
LEMMA SentOnceKept == IInv /\ [Next]_vars => ReportIsSentOnce'
<1> SUFFICES ASSUME IInv, [Next]_vars PROVE ReportIsSentOnce'
    OBVIOUS
<1>0. /\ server \in [Server -> Holding] /\ lease \in [owner : Server \cup {None}, live : BOOLEAN]
      /\ cursor \in Nat /\ forgotten \in Nat /\ work \in [Update -> Works]
      /\ report \in [Update -> Reports] /\ shown \in [Update -> Nat]
    BY DEF IInv, TypeOK, Works, Reports, Holding
<1>1. CASE Write
    BY <1>0, <1>1 DEF Write, IInv, ReportIsSentOnce, SenderIsAlone, ReportFollowsWork, telegram, Holding
<1>2. CASE LeaseRunsOut
    BY <1>0, <1>2 DEF LeaseRunsOut, IInv, ReportIsSentOnce, SenderIsAlone, ReportFollowsWork, telegram, Holding
<1>3. CASE CloseReports
    BY <1>0, <1>3 DEF CloseReports, IInv, ReportIsSentOnce, SenderIsAlone, ReportFollowsWork, telegram, Holding
<1>4. ASSUME NEW u \in Update, Finish(u) PROVE ReportIsSentOnce'
    BY <1>0, <1>4 DEF Finish, IInv, ReportIsSentOnce, SenderIsAlone, ReportFollowsWork, telegram, Holding
<1>5. ASSUME NEW p \in Server, TakeLease(p) PROVE ReportIsSentOnce'
    BY <1>0, <1>5 DEF TakeLease, Goto, Step, At, Idle, IInv, ReportIsSentOnce, SenderIsAlone, ReportFollowsWork, telegram, Holding
<1>6. ASSUME NEW p \in Server, ReadCursor(p) PROVE ReportIsSentOnce'
    BY <1>0, <1>6 DEF ReadCursor, Goto, At, IInv, ReportIsSentOnce, SenderIsAlone, ReportFollowsWork, telegram, Holding
<1>7. ASSUME NEW p \in Server, Fetch(p) PROVE ReportIsSentOnce'
    BY <1>0, <1>7 DEF Fetch, Goto, At, IInv, ReportIsSentOnce, SenderIsAlone, ReportFollowsWork, telegram, Holding
<1>8. ASSUME NEW p \in Server, FetchFails(p) PROVE ReportIsSentOnce'
    BY <1>0, <1>8 DEF FetchFails, Goto, Step, At, IInv, ReportIsSentOnce, SenderIsAlone, ReportFollowsWork, telegram, Holding
<1>9. ASSUME NEW p \in Server, Store(p) PROVE ReportIsSentOnce'
  <2>1. \A q \in Server : server'[q] # server[q] => server'[q].at = "RELEASE"
    BY <1>0, <1>9 DEF Store, Goto, Idle
  <2>2. shown' = shown
    BY <1>9 DEF Store, telegram
  <2>3. \A u \in Update : report'[u] # report[u] => report[u] = "NONE" /\ report'[u] = "PENDING"
    BY <1>0, <1>9, StoreMoves DEF IInv, ReportFollowsWork
  <2> QED
    BY <1>0, <2>2, <2>3 DEF IInv, ReportIsSentOnce
<1>10. ASSUME NEW p \in Server, StoreRefused(p) PROVE ReportIsSentOnce'
    BY <1>0, <1>10 DEF StoreRefused, Goto, At, Idle, IInv, ReportIsSentOnce, SenderIsAlone, ReportFollowsWork, telegram, Holding
<1>11. ASSUME NEW p \in Server, ReleaseLease(p) PROVE ReportIsSentOnce'
    BY <1>0, <1>11 DEF ReleaseLease, Goto, At, Idle, IInv, ReportIsSentOnce, SenderIsAlone, ReportFollowsWork, telegram, Holding
<1>12. ASSUME NEW p \in Server, Send(p) PROVE ReportIsSentOnce'
    BY <1>0, <1>12 DEF Send, Goto, At, IInv, ReportIsSentOnce, SenderIsAlone, ReportFollowsWork, telegram, Holding
<1>13. ASSUME NEW p \in Server, Save(p) PROVE ReportIsSentOnce'
    BY <1>0, <1>13 DEF Save, Goto, At, Idle, IInv, ReportIsSentOnce, SenderIsAlone, ReportFollowsWork, telegram, Holding
<1>14. ASSUME NEW p \in Server, Crash(p) PROVE ReportIsSentOnce'
    BY <1>0, <1>14 DEF Crash, Goto, At, Idle, IInv, ReportIsSentOnce, SenderIsAlone, ReportFollowsWork, telegram, Holding
<1>15. ASSUME NEW p \in Server, NEW u \in Update, TakeReport(p, u) PROVE ReportIsSentOnce'
    BY <1>0, <1>15 DEF TakeReport, Goto, At, Idle, IInv, ReportIsSentOnce, SenderIsAlone, ReportFollowsWork, telegram, Holding
<1>16. ASSUME NEW p \in Server, NEW u \in Update, Deny(p, u) PROVE ReportIsSentOnce'
    BY <1>0, <1>16 DEF Deny, At, IInv, ReportIsSentOnce, SenderIsAlone, ReportFollowsWork, telegram, Holding
<1>17. CASE UNCHANGED vars
    BY <1>0, <1>17 DEF vars, IInv, ReportIsSentOnce, SenderIsAlone, ReportFollowsWork, telegram, Holding
<1> QED
    BY <1>1, <1>2, <1>3, <1>4, <1>5, <1>6, <1>7, <1>8, <1>9, <1>10, <1>11, <1>12, <1>13, <1>14, <1>15, <1>16, <1>17 DEF Next, Poll, Deliver

\* What is stored stays stored, and a batch begins where that ends.
LEMMA BatchKept == IInv /\ [Next]_vars => BatchIsWhole'
<1> SUFFICES ASSUME IInv, [Next]_vars PROVE BatchIsWhole'
    OBVIOUS
<1>0. /\ server \in [Server -> Holding] /\ lease \in [owner : Server \cup {None}, live : BOOLEAN]
      /\ cursor \in Nat /\ forgotten \in Nat /\ work \in [Update -> Works]
      /\ report \in [Update -> Reports] /\ shown \in [Update -> Nat]
    BY DEF IInv, TypeOK, Works, Reports, Holding
<1>1. CASE Write
    BY <1>0, <1>1 DEF Write, IInv, BatchIsWhole, StoredBehind, telegram, Holding
<1>2. CASE LeaseRunsOut
    BY <1>0, <1>2 DEF LeaseRunsOut, IInv, BatchIsWhole, StoredBehind, telegram, Holding
<1>3. CASE CloseReports
    BY <1>0, <1>3 DEF CloseReports, IInv, BatchIsWhole, StoredBehind, telegram, Holding
<1>4. ASSUME NEW u \in Update, Finish(u) PROVE BatchIsWhole'
    BY <1>0, <1>4 DEF Finish, IInv, BatchIsWhole, StoredBehind, telegram, Holding
<1>5. ASSUME NEW p \in Server, TakeLease(p) PROVE BatchIsWhole'
    BY <1>0, <1>5 DEF TakeLease, Goto, Step, At, Idle, IInv, BatchIsWhole, StoredBehind, telegram, Holding
<1>6. ASSUME NEW p \in Server, ReadCursor(p) PROVE BatchIsWhole'
    BY <1>0, <1>6 DEF ReadCursor, Goto, At, IInv, BatchIsWhole, StoredBehind, telegram, Holding
<1>7. ASSUME NEW p \in Server, Fetch(p) PROVE BatchIsWhole'
  <2>1. server[p].offset \in Nat /\ server[p].offset <= cursor
    BY <1>0, <1>7 DEF Fetch, At, IInv, StoredBehind, Holding
  <2>2. /\ Max({forgotten, server[p].offset}) \in {forgotten, server[p].offset}
        /\ Max({server[p].offset, forgotten}) \in {forgotten, server[p].offset}
    BY <1>0, <2>1, MaxOfTwo
  <2>3. /\ server'[p].batch = {u \in Update : /\ u <= written
                                              /\ u >= Max({server[p].offset, forgotten})}
        /\ \A q \in Server \ {p} : server'[q] = server[q]
        /\ work' = work
    BY <1>0, <1>7 DEF Fetch, Goto, Holding
  <2>4. ASSUME NEW u \in server'[p].batch, NEW v \in Update \ Stranger, v <= u
        PROVE  v \in server'[p].batch \/ work[v] # "NONE"
    <3>1. v <= written
      <4>1. u \in Nat /\ v \in Nat /\ u <= written /\ written \in Nat
        BY <2>3, ChannelAssumption DEF Update, IInv, TypeOK
      <4> QED
        BY <2>4, <4>1
    <3>2. CASE v < Max({server[p].offset, forgotten})
        BY <1>0, <2>1, <2>2, <3>2, ChannelAssumption DEF IInv, StoredBehind, Update
    <3>3. CASE ~(v < Max({server[p].offset, forgotten}))
      <4>1. v \in Nat /\ Max({server[p].offset, forgotten}) \in Nat
        BY <1>0, <2>1, <2>2, ChannelAssumption DEF Update
      <4>2. v >= Max({server[p].offset, forgotten})
        BY <3>3, <4>1
      <4> QED
        BY <2>3, <3>1, <4>2
    <3> QED
        BY <3>2, <3>3
  <2> QED
    BY <2>3, <2>4 DEF IInv, BatchIsWhole
<1>8. ASSUME NEW p \in Server, FetchFails(p) PROVE BatchIsWhole'
    BY <1>0, <1>8 DEF FetchFails, Goto, Step, At, IInv, BatchIsWhole, StoredBehind, telegram, Holding
<1>9. ASSUME NEW p \in Server, Store(p) PROVE BatchIsWhole'
  <2>1. \A q \in Server : \/ server'[q].at = "RELEASE"
                          \/ q # p /\ server'[q] = server[q]
    BY <1>0, <1>9 DEF Store, Goto, Idle
  <2>2. \A u \in Update : work[u] # "NONE" => work'[u] # "NONE"
    BY <1>0, <1>9, StoreMoves DEF IInv
  <2> QED
    BY <2>1, <2>2 DEF IInv, BatchIsWhole
<1>10. ASSUME NEW p \in Server, StoreRefused(p) PROVE BatchIsWhole'
    BY <1>0, <1>10 DEF StoreRefused, Goto, At, Idle, IInv, BatchIsWhole, StoredBehind, telegram, Holding
<1>11. ASSUME NEW p \in Server, ReleaseLease(p) PROVE BatchIsWhole'
    BY <1>0, <1>11 DEF ReleaseLease, Goto, At, Idle, IInv, BatchIsWhole, StoredBehind, telegram, Holding
<1>12. ASSUME NEW p \in Server, Send(p) PROVE BatchIsWhole'
    BY <1>0, <1>12 DEF Send, Goto, At, IInv, BatchIsWhole, StoredBehind, telegram, Holding
<1>13. ASSUME NEW p \in Server, Save(p) PROVE BatchIsWhole'
    BY <1>0, <1>13 DEF Save, Goto, At, Idle, IInv, BatchIsWhole, StoredBehind, telegram, Holding
<1>14. ASSUME NEW p \in Server, Crash(p) PROVE BatchIsWhole'
    BY <1>0, <1>14 DEF Crash, Goto, At, Idle, IInv, BatchIsWhole, StoredBehind, telegram, Holding
<1>15. ASSUME NEW p \in Server, NEW u \in Update, TakeReport(p, u) PROVE BatchIsWhole'
    BY <1>0, <1>15 DEF TakeReport, Goto, At, Idle, IInv, BatchIsWhole, StoredBehind, telegram, Holding
<1>16. ASSUME NEW p \in Server, NEW u \in Update, Deny(p, u) PROVE BatchIsWhole'
    BY <1>0, <1>16 DEF Deny, At, IInv, BatchIsWhole, StoredBehind, telegram, Holding
<1>17. CASE UNCHANGED vars
    BY <1>0, <1>17 DEF vars, IInv, BatchIsWhole, StoredBehind, telegram, Holding
<1> QED
    BY <1>1, <1>2, <1>3, <1>4, <1>5, <1>6, <1>7, <1>8, <1>9, <1>10, <1>11, <1>12, <1>13, <1>14, <1>15, <1>16, <1>17 DEF Next, Poll, Deliver

\* The cursor passes what is in the batch, and Telegram forgets what it passed.
LEMMA StoredKept == IInv /\ [Next]_vars => StoredBehind'
<1> SUFFICES ASSUME IInv, [Next]_vars PROVE StoredBehind'
    OBVIOUS
<1>0. /\ server \in [Server -> Holding] /\ lease \in [owner : Server \cup {None}, live : BOOLEAN]
      /\ cursor \in Nat /\ forgotten \in Nat /\ work \in [Update -> Works]
      /\ report \in [Update -> Reports] /\ shown \in [Update -> Nat]
    BY DEF IInv, TypeOK, Works, Reports, Holding
<1>1. CASE Write
    BY <1>0, <1>1 DEF Write, IInv, StoredBehind, BatchIsWhole, LeaseKnowsCursor, telegram, Holding
<1>2. CASE LeaseRunsOut
    BY <1>0, <1>2 DEF LeaseRunsOut, IInv, StoredBehind, BatchIsWhole, LeaseKnowsCursor, telegram, Holding
<1>3. CASE CloseReports
    BY <1>0, <1>3 DEF CloseReports, IInv, StoredBehind, BatchIsWhole, LeaseKnowsCursor, telegram, Holding
<1>4. ASSUME NEW u \in Update, Finish(u) PROVE StoredBehind'
    BY <1>0, <1>4 DEF Finish, IInv, StoredBehind, BatchIsWhole, LeaseKnowsCursor, telegram, Holding
<1>5. ASSUME NEW p \in Server, TakeLease(p) PROVE StoredBehind'
    BY <1>0, <1>5 DEF TakeLease, Goto, Step, At, Idle, IInv, StoredBehind, BatchIsWhole, LeaseKnowsCursor, telegram, Holding
<1>6. ASSUME NEW p \in Server, ReadCursor(p) PROVE StoredBehind'
    BY <1>0, <1>6 DEF ReadCursor, Goto, At, IInv, StoredBehind, BatchIsWhole, LeaseKnowsCursor, telegram, Holding
<1>7. ASSUME NEW p \in Server, Fetch(p) PROVE StoredBehind'
  <2>1. server[p].offset \in Nat /\ server[p].offset <= cursor
    BY <1>0, <1>7 DEF Fetch, At, IInv, StoredBehind, Holding
  <2>2. /\ Max({forgotten, server[p].offset}) \in {forgotten, server[p].offset}
        /\ Max({server[p].offset, forgotten}) \in {forgotten, server[p].offset}
    BY <1>0, <2>1, MaxOfTwo
  <2>3. /\ forgotten' = Max({forgotten, server[p].offset})
        /\ \A q \in Server : server'[q].offset = server[q].offset
        /\ \A q \in Server : server'[q].at = server[q].at \/ q = p
        /\ cursor' = cursor /\ work' = work
    BY <1>0, <1>7 DEF Fetch, Goto, Holding
  <2> QED
    BY <1>0, <2>1, <2>2, <2>3 DEF IInv, StoredBehind
<1>8. ASSUME NEW p \in Server, FetchFails(p) PROVE StoredBehind'
    BY <1>0, <1>8 DEF FetchFails, Goto, Step, At, IInv, StoredBehind, BatchIsWhole, LeaseKnowsCursor, telegram, Holding
<1>9. ASSUME NEW p \in Server, Store(p) PROVE StoredBehind'
  <2>1. \A q \in Server : \/ server'[q].at = "RELEASE"
                          \/ q # p /\ server'[q] = server[q]
    BY <1>0, <1>9 DEF Store, Goto, Idle
  <2>2. \A u \in Update : work[u] # "NONE" => work'[u] # "NONE"
    BY <1>0, <1>9, StoreMoves DEF IInv
  <2>3. /\ server[p].offset = cursor /\ server[p].at = "STORE"
        /\ server[p].batch \in SUBSET Update
        /\ cursor' = Max({cursor} \cup {u + 1 : u \in server[p].batch})
        /\ forgotten' = forgotten
    <3>1. lease.owner = p /\ lease.live /\ server[p].at = "STORE"
        BY <1>9 DEF Store, At
    <3>2. server[p].offset = cursor
        BY <3>1 DEF IInv, LeaseKnowsCursor
    <3> QED
        BY <1>0, <1>9, <3>1, <3>2 DEF Store, Holding, telegram
  <2>4. /\ cursor' \in Nat /\ cursor' >= cursor
        /\ cursor' # cursor => \E u \in server[p].batch : cursor' = u + 1
    BY <1>0, <2>3, MaxOfBatch
  <2>5. ASSUME NEW v \in Update \ Stranger, v < cursor' PROVE work'[v] # "NONE"
    <3>1. CASE v < cursor
        BY <2>2, <3>1 DEF IInv, StoredBehind
    <3>2. CASE ~(v < cursor)
      <4>1. v \in Nat
        BY ChannelAssumption DEF Update
      <4>2. PICK u \in server[p].batch : cursor' = u + 1
        BY <1>0, <2>4, <2>5, <3>2, <4>1
      <4>3. u \in Nat /\ v <= u
        BY <2>3, <2>5, <4>1, <4>2, ChannelAssumption DEF Update
      <4>4. v \in server[p].batch \/ work[v] # "NONE"
        BY <2>3, <4>3 DEF IInv, BatchIsWhole
      <4> QED
        BY <1>9, <2>2, <4>4, StoreMoves DEF IInv
    <3> QED
        BY <3>1, <3>2
  <2>6. \A q \in Server : server'[q].at \in {"FETCH", "STORE"} => server'[q].offset <= cursor'
    <3>1. \A q \in Server : server[q].offset \in Nat
        BY <1>0 DEF Holding
    <3> QED
        BY <1>0, <2>1, <2>4, <3>1 DEF IInv, StoredBehind
  <2> QED
    BY <1>0, <2>3, <2>4, <2>5, <2>6 DEF IInv, StoredBehind
<1>10. ASSUME NEW p \in Server, StoreRefused(p) PROVE StoredBehind'
    BY <1>0, <1>10 DEF StoreRefused, Goto, At, Idle, IInv, StoredBehind, BatchIsWhole, LeaseKnowsCursor, telegram, Holding
<1>11. ASSUME NEW p \in Server, ReleaseLease(p) PROVE StoredBehind'
    BY <1>0, <1>11 DEF ReleaseLease, Goto, At, Idle, IInv, StoredBehind, BatchIsWhole, LeaseKnowsCursor, telegram, Holding
<1>12. ASSUME NEW p \in Server, Send(p) PROVE StoredBehind'
    BY <1>0, <1>12 DEF Send, Goto, At, IInv, StoredBehind, BatchIsWhole, LeaseKnowsCursor, telegram, Holding
<1>13. ASSUME NEW p \in Server, Save(p) PROVE StoredBehind'
    BY <1>0, <1>13 DEF Save, Goto, At, Idle, IInv, StoredBehind, BatchIsWhole, LeaseKnowsCursor, telegram, Holding
<1>14. ASSUME NEW p \in Server, Crash(p) PROVE StoredBehind'
    BY <1>0, <1>14 DEF Crash, Goto, At, Idle, IInv, StoredBehind, BatchIsWhole, LeaseKnowsCursor, telegram, Holding
<1>15. ASSUME NEW p \in Server, NEW u \in Update, TakeReport(p, u) PROVE StoredBehind'
    BY <1>0, <1>15 DEF TakeReport, Goto, At, Idle, IInv, StoredBehind, BatchIsWhole, LeaseKnowsCursor, telegram, Holding
<1>16. ASSUME NEW p \in Server, NEW u \in Update, Deny(p, u) PROVE StoredBehind'
    BY <1>0, <1>16 DEF Deny, At, IInv, StoredBehind, BatchIsWhole, LeaseKnowsCursor, telegram, Holding
<1>17. CASE UNCHANGED vars
    BY <1>0, <1>17 DEF vars, IInv, StoredBehind, BatchIsWhole, LeaseKnowsCursor, telegram, Holding
<1> QED
    BY <1>1, <1>2, <1>3, <1>4, <1>5, <1>6, <1>7, <1>8, <1>9, <1>10, <1>11, <1>12, <1>13, <1>14, <1>15, <1>16, <1>17 DEF Next, Poll, Deliver

-----------------------------------------------------------------------------
(* Theorems.                                                               *)

\* The inductive invariant of the channel.
THEOREM Invariance == Spec => []IInv
<1>1. Init => IInv
    BY ChannelAssumption
    DEF Init, IInv, TypeOK, LeaseKnowsCursor, StoredBehind, BatchIsWhole, SenderIsAlone,
        ReportFollowsWork, ReportIsSentOnce, Idle, Update
<1>2. IInv /\ [Next]_vars => IInv'
    BY Types, LeaseKept, ReportsFollow, SenderKept, SentOnceKept, BatchKept, StoredKept DEF IInv
<1> QED
    BY <1>1, <1>2, PTL DEF Spec

\* Telegram never forgets an operator's message that is not a row of the queue,
\* for any servers, lapses and crashes (telegram_channel.poll).
THEOREM NoMessageIsLost == Spec => []MessagesAreKept
<1>1. IInv => MessagesAreKept
    BY ChannelAssumption DEF IInv, TypeOK, StoredBehind, MessagesAreKept, Update
<1> QED
    BY <1>1, Invariance, PTL

\* A report is displayed at most once (telegram_channel.deliver_one).
THEOREM NoReportTwice == Spec => []ReportIsSentOnce
<1>1. IInv => ReportIsSentOnce
    BY DEF IInv
<1> QED
    BY <1>1, Invariance, PTL

\* The poller of a lost lease does not set the cursor back (telegram_channel.poll).
THEOREM CursorAdvances == Spec => CursorNeverGoesBack
<1>1. IInv /\ [Next]_vars => [cursor' >= cursor]_cursor
  <2> SUFFICES ASSUME IInv, Next, cursor' # cursor PROVE cursor' >= cursor
    BY DEF vars
  <2>1. PICK p \in Server : Store(p)
    BY DEF Next, Poll, Deliver, Write, LeaseRunsOut, CloseReports, Finish, Crash, TakeLease,
           ReadCursor, Fetch, FetchFails, StoreRefused, ReleaseLease, TakeReport, Deny, Send,
           Save
  <2>2. server[p].offset = cursor
    BY <2>1 DEF Store, At, IInv, LeaseKnowsCursor
  <2>3. server[p].batch \in SUBSET Update /\ cursor \in Nat
    BY DEF IInv, TypeOK
  <2> QED
    BY <2>1, <2>2, <2>3, MaxOfBatch DEF Store
<1> QED
    BY <1>1, Invariance, PTL DEF Spec, CursorNeverGoesBack

\* Every variable of the channel keeps its type.
THEOREM TypeCorrect == Spec => []TypeOK
<1>1. IInv => TypeOK
    BY DEF IInv
<1> QED
    BY <1>1, Invariance, PTL
=============================================================================
