------------------------------ MODULE Channel -------------------------------
(***************************************************************************)
(* The Telegram channel of the assistant: telegram_channel.py, with the    *)
(* admission of assistant_work._enqueue and the report triggers of         *)
(* assistant_schema.py.                                                    *)
(*                                                                         *)
(* A server takes a lease on the bot account, reads the cursor, waits on   *)
(* the network for updates, and stores them under the same lease, which    *)
(* may have lapsed or passed to another server meanwhile.  Asking Telegram *)
(* for updates from an offset makes it forget those before it.  The work a *)
(* message becomes ends in a report, and a report is sent at most once:    *)
(* when the answer is lost nobody can tell, and nobody tries again.        *)
(*                                                                         *)
(* Abstractions.  A message has one work item and that item one report.    *)
(* Time is the event of a lease running out.  Reports are taken in any     *)
(* order, a batch is admitted in any order.                                *)
(***************************************************************************)
EXTENDS Integers, FiniteSets, FiniteSetsExt

CONSTANTS
    Server,     \* processes of the serve loop that share a bot account
    Steady,     \* those of them that are always started again and keep running
    MaxUpdate,  \* bound: messages people write
    Stranger,   \* updates that poll passes over: not an operator's text
    Removed,    \* those of an operator who is no longer on the list
    Capacity,   \* pending work of a session, 20 in the source
    MaxCrashes, \* bound: how often server processes die
    None

Update == 1..MaxUpdate

ASSUME ChannelAssumption ==
    /\ Steady \subseteq Server
    /\ MaxUpdate \in Nat
    /\ Stranger \subseteq Update /\ Removed \subseteq Update
    /\ Capacity \in Nat \ {0}
    /\ MaxCrashes \in Nat
    /\ None \notin Server

VARIABLES
    written,    \* Telegram: the newest update there is
    forgotten,  \* Telegram: updates below this one are gone
    shown,      \* Telegram: shown[u], how often u's report was displayed
    lease,      \* assistant_channel_leases; owner None is a dead poller's
    cursor,     \* assistant_channel_cursor
    work,       \* assistant_work, by the update it came from
    report,     \* assistant_reports.delivery
    server,     \* what each process holds in memory
    crashes

telegram == <<written, forgotten, shown>>
vars == <<written, forgotten, shown, lease, cursor, work, report, server, crashes>>

Idle == [at |-> "IDLE", offset |-> 0, batch |-> {}, update |-> 0, answered |-> FALSE]

Init ==
    /\ written = 0 /\ forgotten = 0
    /\ shown = [u \in Update |-> 0]
    /\ lease = [owner |-> None, live |-> FALSE]
    /\ cursor = 0
    /\ work = [u \in Update |-> "NONE"]
    /\ report = [u \in Update |-> "NONE"]
    /\ server = [p \in Server |-> Idle]
    /\ crashes = 0

At(p, place) == server[p].at = place
Goto(p, s) == server' = [server EXCEPT ![p] = s]
Step(p, place) == Goto(p, [server[p] EXCEPT !.at = place])

-----------------------------------------------------------------------------
(* The world: people write, time passes, work ends.                        *)

Write ==
    /\ written < MaxUpdate
    /\ written' = written + 1
    /\ UNCHANGED <<forgotten, shown, lease, cursor, work, report, server, crashes>>

LeaseRunsOut ==
    /\ lease.live
    /\ lease' = [lease EXCEPT !.live = FALSE]
    /\ UNCHANGED <<telegram, cursor, work, report, server, crashes>>

\* Work ends, one way or another; the trigger files its report.
Finish(u) ==
    /\ work[u] = "OPEN"
    /\ work' = [work EXCEPT ![u] = "CLOSED"]
    /\ report' = [report EXCEPT ![u] = "PENDING"]
    /\ UNCHANGED <<telegram, lease, cursor, server, crashes>>

\* account_recovery: what was not sent yet is never sent after a restore.
CloseReports ==
    /\ \E u \in Update : report[u] \in {"PENDING", "SENDING"}
    /\ report' = [u \in Update |-> IF report[u] \in {"PENDING", "SENDING"}
                                   THEN "UNKNOWN" ELSE report[u]]
    /\ UNCHANGED <<telegram, lease, cursor, work, server, crashes>>

\* A process dies wherever it is; the lease it held stays until it runs out.
Crash(p) ==
    /\ ~At(p, "IDLE") /\ crashes < MaxCrashes
    /\ Goto(p, Idle)
    /\ lease' = IF lease.owner = p THEN [lease EXCEPT !.owner = None] ELSE lease
    /\ crashes' = crashes + 1
    /\ UNCHANGED <<telegram, cursor, work, report>>

-----------------------------------------------------------------------------
(* poll()                                                                  *)

\* Bug: the lease of a poller that died is never taken over.
TakeLeaseOfNobody(p) ==
    /\ At(p, "IDLE")
    /\ lease = [owner |-> None, live |-> FALSE]
    /\ lease' = [owner |-> p, live |-> TRUE]
    /\ Step(p, "READ")
    /\ UNCHANGED <<telegram, cursor, work, report, crashes>>

TakeLease(p) ==
    /\ At(p, "IDLE")
    /\ ~lease.live
    /\ lease' = [owner |-> p, live |-> TRUE]
    /\ Step(p, "READ")
    /\ UNCHANGED <<telegram, cursor, work, report, crashes>>

ReadCursor(p) ==
    /\ At(p, "READ")
    /\ Goto(p, [server[p] EXCEPT !.at = "FETCH", !.offset = cursor])
    /\ UNCHANGED <<telegram, lease, cursor, work, report, crashes>>

\* getUpdates: everything from the offset, and nothing before it ever again.
Fetch(p) ==
    /\ At(p, "FETCH")
    /\ forgotten' = Max({forgotten, server[p].offset})
    /\ Goto(p, [server[p] EXCEPT
                  !.at = "STORE",
                  !.batch = {u \in Update : /\ u <= written
                                            /\ u >= Max({server[p].offset, forgotten})}])
    /\ UNCHANGED <<written, shown, lease, cursor, work, report, crashes>>

FetchFails(p) ==
    /\ At(p, "FETCH")
    /\ Step(p, "RELEASE")
    /\ UNCHANGED <<telegram, lease, cursor, work, report, crashes>>

Room == Capacity - Cardinality({u \in Update : work[u] = "OPEN"})

\* _enqueue, for each new update of the batch: work while there is room, a
\* rejection and its report when there is none.
Admitted(new, chosen) ==
    /\ work' = [u \in Update |-> CASE u \in chosen -> "OPEN"
                                   [] u \in new \ chosen -> "REJECTED"
                                   [] OTHER -> work[u]]
    /\ report' = [u \in Update |-> IF u \in new \ chosen THEN "PENDING" ELSE report[u]]

\* Bug: the lease is not looked at again.
StoreUnderAnyLease(p) ==
    LET batch == server[p].batch
        new == {u \in batch \ Stranger : work[u] = "NONE"}
    IN  /\ At(p, "STORE")
        /\ \E chosen \in SUBSET new :
              /\ Cardinality(chosen) = Min({Cardinality(new), Max({Room, 0})})
              /\ Admitted(new, chosen)
        /\ cursor' = Max({server[p].offset} \cup {u + 1 : u \in batch})
        /\ Goto(p, [Idle EXCEPT !.at = "RELEASE"])
        /\ UNCHANGED <<telegram, lease, crashes>>

\* Bug: a message that finds no room is dropped, and the cursor passes it.
StoreWhatFits(p) ==
    LET batch == server[p].batch
        new == {u \in batch \ Stranger : work[u] = "NONE"}
    IN  /\ At(p, "STORE") /\ lease = [owner |-> p, live |-> TRUE]
        /\ \E chosen \in SUBSET new :
              /\ Cardinality(chosen) = Min({Cardinality(new), Max({Room, 0})})
              /\ Admitted(chosen, chosen)
        /\ cursor' = Max({server[p].offset} \cup {u + 1 : u \in batch})
        /\ Goto(p, [Idle EXCEPT !.at = "RELEASE"])
        /\ UNCHANGED <<telegram, lease, crashes>>

\* One transaction: the payloads, and the cursor behind them.
Store(p) ==
    LET batch == server[p].batch
        new == {u \in batch \ Stranger : work[u] = "NONE"}
    IN  /\ At(p, "STORE") /\ lease = [owner |-> p, live |-> TRUE]
        /\ \E chosen \in SUBSET new :
              /\ Cardinality(chosen) = Min({Cardinality(new), Max({Room, 0})})
              /\ Admitted(new, chosen)
        /\ cursor' = Max({server[p].offset} \cup {u + 1 : u \in batch})
        /\ Goto(p, [Idle EXCEPT !.at = "RELEASE"])
        /\ UNCHANGED <<telegram, lease, crashes>>

StoreRefused(p) ==
    /\ At(p, "STORE") /\ lease # [owner |-> p, live |-> TRUE]
    /\ Goto(p, [Idle EXCEPT !.at = "RELEASE"])
    /\ UNCHANGED <<telegram, lease, cursor, work, report, crashes>>

\* finally: delete the lease if it is still ours.
ReleaseLease(p) ==
    /\ At(p, "RELEASE")
    /\ lease' = IF lease.owner = p THEN [owner |-> None, live |-> FALSE] ELSE lease
    /\ Goto(p, Idle)
    /\ UNCHANGED <<telegram, cursor, work, report, crashes>>

-----------------------------------------------------------------------------
(* deliver_one()                                                           *)

\* Bug: a report somebody was sending is taken up again.
TakeUnsentReport(p, u) ==
    /\ At(p, "IDLE")
    /\ report[u] \in {"PENDING", "SENDING"} /\ u \notin Removed
    /\ report' = [report EXCEPT ![u] = "SENDING"]
    /\ Goto(p, [Idle EXCEPT !.at = "SEND", !.update = u])
    /\ UNCHANGED <<telegram, lease, cursor, work, crashes>>

\* SENDING is committed before the call: from here on the outcome is unknown.
TakeReport(p, u) ==
    /\ At(p, "IDLE")
    /\ report[u] = "PENDING" /\ u \notin Removed
    /\ report' = [report EXCEPT ![u] = "SENDING"]
    /\ Goto(p, [Idle EXCEPT !.at = "SEND", !.update = u])
    /\ UNCHANGED <<telegram, lease, cursor, work, crashes>>

Deny(p, u) ==
    /\ At(p, "IDLE")
    /\ report[u] = "PENDING" /\ u \in Removed
    /\ report' = [report EXCEPT ![u] = "DENIED"]
    /\ UNCHANGED <<telegram, lease, cursor, work, server, crashes>>

\* The call reaches Telegram or not, and its answer comes back or not.
Send(p) ==
    \E reached \in BOOLEAN, answered \in BOOLEAN :
        /\ At(p, "SEND")
        /\ answered => reached
        /\ shown' = IF reached THEN [shown EXCEPT ![server[p].update] = @ + 1] ELSE shown
        /\ Goto(p, [server[p] EXCEPT !.at = "SAVE", !.answered = answered])
        /\ UNCHANGED <<written, forgotten, lease, cursor, work, report, crashes>>

\* Recorded only over SENDING: a recovery may have closed the report.
Save(p) ==
    LET u == server[p].update
    IN  /\ At(p, "SAVE")
        /\ report' = [report EXCEPT ![u] =
                         IF @ # "SENDING" THEN @
                         ELSE IF server[p].answered THEN "SENT" ELSE "UNKNOWN"]
        /\ Goto(p, Idle)
        /\ UNCHANGED <<telegram, lease, cursor, work, crashes>>

-----------------------------------------------------------------------------

Poll(p) ==
    TakeLease(p) \/ ReadCursor(p) \/ Fetch(p) \/ Store(p) \/ StoreRefused(p) \/ ReleaseLease(p)

Deliver(p) == (\E u \in Update : TakeReport(p, u) \/ Deny(p, u)) \/ Send(p) \/ Save(p)

Next ==
    \/ Write \/ LeaseRunsOut \/ CloseReports
    \/ \E u \in Update : Finish(u)
    \/ \E p \in Server : Poll(p) \/ FetchFails(p) \/ Deliver(p) \/ Crash(p)

Spec == Init /\ [][Next]_vars

\* One steady server is enough: it polls and delivers in turn, and now and then
\* the network answers before its lease is over (35 seconds against 40).  The
\* others may stop anywhere; their leases run out.  Work ends.
FairSpec ==
    /\ Spec
    /\ WF_vars(LeaseRunsOut /\ lease.owner \notin Steady)
    /\ WF_vars(\E u \in Update : Finish(u))
    /\ \A p \in Steady :
          LET Owned == lease = [owner |-> p, live |-> TRUE]
          IN  /\ SF_vars(TakeLease(p))
              /\ SF_vars(ReadCursor(p) /\ Owned)
              /\ SF_vars(Fetch(p) /\ Owned)
              /\ SF_vars(Store(p))
              /\ SF_vars(\E u \in Update : TakeReport(p, u) \/ Deny(p, u))
              /\ WF_vars(\/ ReadCursor(p) \/ Fetch(p) \/ StoreRefused(p)
                         \/ ReleaseLease(p) \/ Send(p) \/ Save(p))

-----------------------------------------------------------------------------
(* Properties.                                                             *)

TypeOK ==
    /\ written \in 0..MaxUpdate
    /\ forgotten \in Nat /\ cursor \in Nat
    /\ shown \in [Update -> Nat]
    /\ lease \in [owner : Server \cup {None}, live : BOOLEAN]
    /\ work \in [Update -> {"NONE", "OPEN", "CLOSED", "REJECTED"}]
    /\ report \in [Update -> {"NONE", "PENDING", "SENDING", "SENT", "UNKNOWN", "DENIED"}]
    /\ server \in [Server -> [at : {"IDLE", "READ", "FETCH", "STORE", "RELEASE",
                                    "SEND", "SAVE"},
                              offset : Nat, batch : SUBSET Update,
                              update : 0..MaxUpdate, answered : BOOLEAN]]
    /\ crashes \in Nat

\* Telegram never forgets an operator's message before the message is a row of
\* assistant_work: the cursor is published only behind durable payloads
\* (telegram_channel.py, "Do not discard an earlier member").
MessagesAreKept ==
    \A u \in Update \ Stranger : u < forgotten => work[u] # "NONE"

\* A poller whose lease passed to another while it waited on the network does
\* not set the cursor back to where it had been when it read it.
CursorNeverGoesBack == [][cursor' >= cursor]_cursor

\* A report is displayed at most once, whoever sends it and whoever dies; and
\* it is recorded as SENT only if it was.
ReportIsSentOnce ==
    \A u \in Update : /\ shown[u] <= 1
                      /\ report[u] = "SENT" => shown[u] = 1

\* Every message of an operator gets an answer that is sent, denied, or left in
\* doubt, through lapses, crashes and a session that is full.
MessageIsAnswered ==
    \A u \in Update \ Stranger : (written >= u) ~> (report[u] \notin {"NONE", "PENDING"})
=============================================================================
