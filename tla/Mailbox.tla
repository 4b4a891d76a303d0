------------------------------- MODULE Mailbox -------------------------------
(***************************************************************************)
(* The durable mailbox of relay.py: messages addressed to one actor, whose *)
(* several processes claim them under a lease, complete them or give them  *)
(* back, while the supervisor and every reader of the inbox sweep claims   *)
(* that expired.                                                           *)
(*                                                                         *)
(* A process acts on a Message object it read some steps ago: that copy,   *)
(* not the row, carries the fencing token it presents.  Only the addressed *)
(* actor may claim, so claim_owner is whether the row has an owner.        *)
(***************************************************************************)
EXTENDS Naturals

CONSTANTS
  Process,     \* processes that host the addressed actor
  Msg,
  ClaimTTL,    \* LEASE, in ticks
  MaxRetries,  \* MAX_RETRIES
  MaxTime,     \* bound: the clock stops here
  MaxToken,    \* bound: tokens the shared counter can mint
  NoMsg

ASSUME MailboxAssumption ==
  /\ ClaimTTL \in Nat \ {0}
  /\ MaxRetries \in Nat
  /\ MaxTime \in Nat
  /\ MaxToken \in Nat
  /\ NoMsg \notin Msg

VARIABLES
  now,      \* the clock every process reads
  tok,      \* last token minted by lease_tokens
  row,      \* the messages table
  copy,     \* the Message object each process holds
  claiming  \* where each process is inside claim()

mailboxVars == <<now, tok, row, copy, claiming>>

-----------------------------------------------------------------------------
(* Types *)

State == {"ABSENT", "NEW", "CLAIMED", "DONE", "DEAD"}
Row == [state : State, owned : BOOLEAN, expires : Nat, token : 0 .. MaxToken,
        retries : 0 .. MaxRetries]
Copy == [of : Msg \cup {NoMsg}, row : Row]
Claiming == [pc : {"idle", "cas", "back"}, of : Msg \cup {NoMsg}, at : Nat]

NoRow == [state |-> "ABSENT", owned |-> FALSE, expires |-> 0, token |-> 0, retries |-> 0]
NoCopy == [of |-> NoMsg, row |-> NoRow]
NotClaiming == [pc |-> "idle", of |-> NoMsg, at |-> 0]

MailboxTypeOK ==
  /\ now \in Nat
  /\ tok \in 0 .. MaxToken
  /\ row \in [Msg -> Row]
  /\ copy \in [Process -> Copy]
  /\ claiming \in [Process -> Claiming]

MailboxInit ==
  /\ now = 0
  /\ tok = 0
  /\ row = [m \in Msg |-> NoRow]
  /\ copy = [p \in Process |-> NoCopy]
  /\ claiming = [p \in Process |-> NotClaiming]

-----------------------------------------------------------------------------
(* Helpers *)

ExpiredClaim(m) == row[m].state = "CLAIMED" /\ row[m].expires <= now
LiveClaim(m) == row[m].state = "CLAIMED" /\ row[m].expires > now

(* p now holds the row of m as it is. *)
Keep(p, m) == copy' = [copy EXCEPT ![p] = [of |-> m, row |-> row[m]]]

Unengaged(p) == claiming[p].pc = "idle"

-----------------------------------------------------------------------------
(* Operations *)

SendMessage(m) ==
  /\ row[m].state = "ABSENT"
  /\ row' = [row EXCEPT ![m].state = "NEW"]
  /\ UNCHANGED <<now, tok, copy, claiming>>

(* Bug: the sweep clears the owner only. *)
SweptStillClaimed(r) == [r EXCEPT !.owned = FALSE]

(* A swept message keeps its token and loses its owner. *)
Swept(r) == [r EXCEPT !.state = "NEW", !.owned = FALSE]

(* The supervisor's tick, and the first half of inbox(). *)
Sweep ==
  /\ \E m \in Msg : ExpiredClaim(m)
  /\ row' = [m \in Msg |-> IF ExpiredClaim(m) THEN Swept(row[m]) ELSE row[m]]
  /\ UNCHANGED <<now, tok, copy, claiming>>

(* The second half of inbox(): one of the messages that it lists. *)
Inbox(p, m) ==
  /\ Unengaged(p)
  /\ row[m].state \in {"NEW", "CLAIMED"}
  /\ Keep(p, m)
  /\ UNCHANGED <<now, tok, row, claiming>>

(* claim() reads without a lock: an unexpired claim of the same actor is   *)
(* returned as it is, token included; otherwise the clock it has read goes *)
(* into the compare-and-set.                                               *)
ClaimAgain(p, m) ==
  /\ Unengaged(p)
  /\ LiveClaim(m) /\ row[m].owned
  /\ Keep(p, m)
  /\ UNCHANGED <<now, tok, row, claiming>>

BeginClaim(p, m) ==
  /\ Unengaged(p)
  /\ row[m].state # "ABSENT"
  /\ ~(LiveClaim(m) /\ row[m].owned)
  /\ claiming' = [claiming EXCEPT ![p] = [pc |-> "cas", of |-> m, at |-> now]]
  /\ UNCHANGED <<now, tok, row, copy>>

(* Bug: the compare-and-set does not look at the expiry. *)
ClaimableAnyTime(m, at) == row[m].state \in {"NEW", "CLAIMED"}

Claimable(m, at) ==
  \/ row[m].state = "NEW"
  \/ row[m].state = "CLAIMED" /\ row[m].expires <= at

(* Bug: the minted token is not stored. *)
TakeClaimKeepingToken(p) ==
  LET m == claiming[p].of
  IN /\ claiming[p].pc = "cas"
     /\ Claimable(m, claiming[p].at)
     /\ tok < MaxToken
     /\ tok' = tok + 1
     /\ row' = [row EXCEPT ![m] =
                  [@ EXCEPT !.state = "CLAIMED", !.owned = TRUE,
                            !.expires = claiming[p].at + ClaimTTL]]
     /\ claiming' = [claiming EXCEPT ![p].pc = "back"]
     /\ UNCHANGED <<now, copy>>

TakeClaim(p) ==
  LET m == claiming[p].of
  IN /\ claiming[p].pc = "cas"
     /\ Claimable(m, claiming[p].at)
     /\ tok < MaxToken
     /\ tok' = tok + 1
     /\ row' = [row EXCEPT ![m] =
                  [@ EXCEPT !.state = "CLAIMED", !.owned = TRUE, !.token = tok + 1,
                            !.expires = claiming[p].at + ClaimTTL]]
     /\ claiming' = [claiming EXCEPT ![p].pc = "back"]
     /\ UNCHANGED <<now, copy>>

(* The refusal rolls the minted token back. *)
ClaimRefused(p) ==
  /\ claiming[p].pc = "cas"
  /\ ~Claimable(claiming[p].of, claiming[p].at)
  /\ claiming' = [claiming EXCEPT ![p] = NotClaiming]
  /\ UNCHANGED <<now, tok, row, copy>>

(* The Message returned is read after the commit: by then the row may be   *)
(* another process's.                                                      *)
ReadBack(p) ==
  /\ claiming[p].pc = "back"
  /\ Keep(p, claiming[p].of)
  /\ claiming' = [claiming EXCEPT ![p] = NotClaiming]
  /\ UNCHANGED <<now, tok, row>>

(* Bug: only the token is checked. *)
CompleteByToken(p) ==
  LET m == copy[p].of
  IN /\ Unengaged(p)
     /\ m # NoMsg
     /\ row[m].token = copy[p].row.token
     /\ row' = [row EXCEPT ![m].state = "DONE"]
     /\ copy' = [copy EXCEPT ![p].row = row'[m]]
     /\ UNCHANGED <<now, tok, claiming>>

(* complete() refuses a row without an owner or with another token; it     *)
(* does not look at the row's state.  Its unlocked read of the owner       *)
(* refuses nothing that the compare-and-set would not.                     *)
Complete(p) ==
  LET m == copy[p].of
  IN /\ Unengaged(p)
     /\ m # NoMsg
     /\ row[m].owned
     /\ row[m].token = copy[p].row.token
     /\ row' = [row EXCEPT ![m].state = "DONE"]
     /\ copy' = [copy EXCEPT ![p].row = row'[m]]
     /\ UNCHANGED <<now, tok, claiming>>

(* What dead_letter() makes of the message it is given. *)
AfterFailure(r) ==
  IF r.retries < MaxRetries
    THEN [state |-> "NEW", owned |-> FALSE, expires |-> 0, token |-> 0,
          retries |-> r.retries + 1]
    ELSE [r EXCEPT !.state = "DEAD"]

(* The object is changed first, and stays changed when the compare-and-set *)
(* on its token refuses; the row is overwritten by the whole object.       *)
DeadLetter(p) ==
  LET m == copy[p].of
      failed == AfterFailure(copy[p].row)
  IN /\ Unengaged(p)
     /\ m # NoMsg
     /\ copy' = [copy EXCEPT ![p].row = failed]
     /\ row' = IF row[m].token = copy[p].row.token
                 THEN [row EXCEPT ![m] = failed]
                 ELSE row
     /\ UNCHANGED <<now, tok, claiming>>

(* The process dies, its copy with it, and is started again. *)
ProcessCrash(p) ==
  /\ ~Unengaged(p) \/ copy[p] # NoCopy
  /\ copy' = [copy EXCEPT ![p] = NoCopy]
  /\ claiming' = [claiming EXCEPT ![p] = NotClaiming]
  /\ UNCHANGED <<now, tok, row>>

Tick ==
  /\ now < MaxTime
  /\ now' = now + 1
  /\ UNCHANGED <<tok, row, copy, claiming>>

-----------------------------------------------------------------------------
(* Specification *)

MailboxNext ==
  \/ Sweep
  \/ Tick
  \/ \E m \in Msg : SendMessage(m)
  \/ \E p \in Process :
       \/ TakeClaim(p)
       \/ ClaimRefused(p)
       \/ ReadBack(p)
       \/ Complete(p)
       \/ DeadLetter(p)
       \/ ProcessCrash(p)
       \/ \E m \in Msg : Inbox(p, m) \/ ClaimAgain(p, m) \/ BeginClaim(p, m)

MailboxSpec == MailboxInit /\ [][MailboxNext]_mailboxVars

(* The supervisor keeps sweeping; nothing is assumed of the processes.     *)
MailboxFairSpec == MailboxSpec /\ WF_mailboxVars(Sweep)

-----------------------------------------------------------------------------
(* Properties *)

(* The token of a claim is newer than every other token that anybody still *)
(* holds for the message, so no earlier claimant, paused for however long, *)
(* can pass the compare-and-set of the claim in force.                     *)
ClaimHoldsNewestToken ==
  \A m \in Msg : row[m].state = "CLAIMED" =>
    /\ row[m].token # 0
    /\ \A p \in Process : copy[p].of = m => copy[p].row.token <= row[m].token

(* A message that is back in the inbox has no owner, although the sweep    *)
(* leaves it the token of the claim that lapsed.                           *)
UnclaimedHasNoOwner ==
  \A m \in Msg : row[m].state \in {"ABSENT", "NEW"} => ~row[m].owned

(* A worker whose claim was swept away cannot complete the message until   *)
(* it claims it again, although it holds the token the row still shows.    *)
SweptIsNotCompleted ==
  [][\A m \in Msg : row[m].state = "NEW" => row'[m].state # "DONE"]_mailboxVars

(* A claim that has time left is not taken over: no fresher token replaces *)
(* its own, even from a process that read the row and the clock earlier.   *)
LiveClaimIsKept ==
  [][\A m \in Msg : LiveClaim(m) => row'[m].token \in {0, row[m].token}]_mailboxVars

(* A claim its worker abandoned does not stay: it is swept or claimed.     *)
AbandonedClaimIsFreed ==
  \A m \in Msg : ExpiredClaim(m) ~> ~ExpiredClaim(m)

-----------------------------------------------------------------------------
(* What a docstring of relay.py says and the code does not do; no run      *)
(* checks it.                                                              *)

(* relay.dead_letter: a message read before a fresher claim took over the  *)
(* row cannot drive the transition; here, the count of failed deliveries   *)
(* does not go back to what an older copy says.                            *)
RetriesNeverGoBack ==
  [][\A m \in Msg : row'[m].retries >= row[m].retries]_mailboxVars
=============================================================================
