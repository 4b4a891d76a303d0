------------------------------ MODULE Standing ------------------------------
(***************************************************************************)
(* Standing requests of one session: schedules (assistant_work.tick) and   *)
(* stock conditions (store/stock_conditions.scan), which compete with      *)
(* people's messages for the session's room in the queue.                  *)
(*                                                                         *)
(* Whatever finds no room is deferred, not dropped: a job stays due, a     *)
(* condition stays armed.  Missed slots of a job are served by one run.  A *)
(* condition fires once while stock is needed and is armed again when a    *)
(* scan sees that it is not.                                               *)
(*                                                                         *)
(* Abstractions.  The two caps on admission (pending work, and a day's     *)
(* requests) are one, Capacity.  Who gets the last places is left open.    *)
(* Work is counted, not named: the identity of a slot or an episode cannot *)
(* recur.  The pause of a restore is in Restore.                           *)
(***************************************************************************)
EXTENDS Integers, FiniteSets, FiniteSetsExt

CONSTANTS
    Job,         \* rows of assistant_jobs
    Interval,    \* Interval[j], interval_seconds
    Condition,   \* rows of assistant_stock_conditions, one per product
    Capacity,
    MaxTime,     \* bound: the clock
    MaxEpisodes, \* bound: how often the stock of some product falls short
    MaxMessages  \* bound: messages that want room too

ASSUME StandingAssumption ==
    /\ IsFiniteSet(Job) /\ IsFiniteSet(Condition)
    /\ Interval \in [Job -> Nat \ {0}]
    /\ Capacity \in Nat \ {0}
    /\ MaxTime \in Nat /\ MaxEpisodes \in Nat /\ MaxMessages \in Nat

VARIABLES
    now,
    job,        \* assistant_jobs
    condition,  \* assistant_stock_conditions
    need,       \* whether list_stock says that the product is needed
    episodes,   \* how often need began, or began to be watched
    pending,    \* assistant_work of the session: READY, RUNNING or BLOCKED
    messages    \* messages admitted so far

standingVars == <<now, job, condition, need, episodes, pending, messages>>

StandingInit ==
    /\ now = 0
    /\ job = [j \in Job |-> [due |-> 1, deferred |-> FALSE, enabled |-> TRUE]]
    /\ condition = [c \in Condition |-> [armed |-> TRUE, generation |-> 0,
                                         enabled |-> TRUE]]
    /\ need = [c \in Condition |-> FALSE]
    /\ episodes = [c \in Condition |-> 0]
    /\ pending = 0
    /\ messages = 0

-----------------------------------------------------------------------------
(* The world.                                                              *)

Clock ==
    /\ now < MaxTime
    /\ now' = now + 1
    /\ UNCHANGED <<job, condition, need, episodes, pending, messages>>

AllEpisodes == SumFunctionOnSet(episodes, Condition)

RunShort(c) ==
    /\ ~need[c] /\ AllEpisodes < MaxEpisodes
    /\ need' = [need EXCEPT ![c] = TRUE]
    /\ episodes' = [episodes EXCEPT ![c] = @ + 1]
    /\ UNCHANGED <<now, job, condition, pending, messages>>

Restock(c) ==
    /\ need[c]
    /\ need' = [need EXCEPT ![c] = FALSE]
    /\ UNCHANGED <<now, job, condition, episodes, pending, messages>>

Message ==
    /\ messages < MaxMessages /\ pending < Capacity
    /\ messages' = messages + 1
    /\ pending' = pending + 1
    /\ UNCHANGED <<now, job, condition, need, episodes>>

Finish ==
    /\ pending > 0
    /\ pending' = pending - 1
    /\ UNCHANGED <<now, job, condition, need, episodes, messages>>

-----------------------------------------------------------------------------
(* Operators' commands.                                                    *)

Unschedule(j) ==
    /\ job[j].enabled
    /\ job' = [job EXCEPT ![j].enabled = FALSE]
    /\ UNCHANGED <<now, condition, need, episodes, pending, messages>>

Disable(c) ==
    /\ condition[c].enabled
    /\ condition' = [condition EXCEPT ![c].enabled = FALSE]
    /\ UNCHANGED <<now, job, need, episodes, pending, messages>>

\* watch() of a disabled condition arms it anew, in the middle of an episode
\* too: to whoever asked, the need begins now.
Watch(c) ==
    /\ ~condition[c].enabled
    /\ need[c] => AllEpisodes < MaxEpisodes
    /\ condition' = [condition EXCEPT ![c].enabled = TRUE, ![c].armed = TRUE]
    /\ episodes' = [episodes EXCEPT ![c] = IF need[c] THEN @ + 1 ELSE @]
    /\ UNCHANGED <<now, job, need, pending, messages>>

-----------------------------------------------------------------------------
(* The passes of the serve loop, a transaction each.                       *)

\* The requests of S that are admitted into the room there is.
Admissions(S) ==
    {A \in SUBSET S : Cardinality(A) = Min({Cardinality(S), Max({Capacity - pending, 0})})}

NextDue(j) == job[j].due + ((now - job[j].due) \div Interval[j] + 1) * Interval[j]

DueJobs == {j \in Job : job[j].enabled /\ job[j].due <= now}

Tick ==
    /\ DueJobs # {}
    /\ \E admitted \in Admissions(DueJobs) :
          /\ job' = [j \in Job |->
                CASE j \in admitted -> [job[j] EXCEPT !.due = NextDue(j), !.deferred = FALSE]
                  [] j \in DueJobs \ admitted -> [job[j] EXCEPT !.deferred = TRUE]
                  [] OTHER -> job[j]]
          /\ pending' = pending + Cardinality(admitted)
    /\ UNCHANGED <<now, condition, need, episodes, messages>>

Calling == {c \in Condition : condition[c].enabled /\ condition[c].armed /\ need[c]}

\* Bug: the episode is not closed by the work it was given.
ScanStayingArmed ==
    /\ \E admitted \in Admissions(Calling) :
          /\ condition' = [c \in Condition |->
                IF c \in admitted THEN [condition[c] EXCEPT !.generation = @ + 1]
                ELSE condition[c]]
          /\ pending' = pending + Cardinality(admitted)
    /\ UNCHANGED <<now, job, need, episodes, messages>>

\* Bug: an episode that finds no room counts as answered.
ScanDroppingCalls ==
    /\ \E admitted \in Admissions(Calling) :
          /\ condition' = [c \in Condition |->
                IF c \in Calling
                THEN [condition[c] EXCEPT !.armed = FALSE,
                                          !.generation = IF c \in admitted THEN @ + 1 ELSE @]
                ELSE [condition[c] EXCEPT !.armed = @ \/ (condition[c].enabled /\ ~need[c])]]
          /\ pending' = pending + Cardinality(admitted)
    /\ UNCHANGED <<now, job, need, episodes, messages>>

Scan ==
    /\ \E admitted \in Admissions(Calling) :
          /\ condition' = [c \in Condition |->
                IF c \in admitted
                THEN [condition[c] EXCEPT !.armed = FALSE, !.generation = @ + 1]
                ELSE [condition[c] EXCEPT !.armed = @ \/ (condition[c].enabled /\ ~need[c])]]
          /\ pending' = pending + Cardinality(admitted)
    /\ UNCHANGED <<now, job, need, episodes, messages>>

-----------------------------------------------------------------------------

StandingNext ==
    \/ Clock \/ Message \/ Finish \/ Tick \/ Scan
    \/ \E j \in Job : Unschedule(j)
    \/ \E c \in Condition : RunShort(c) \/ Restock(c) \/ Disable(c) \/ Watch(c)

StandingSpec == StandingInit /\ [][StandingNext]_standingVars

\* The serve loop goes round, and work ends: now and then a pass finds room.
TickWithRoom == Tick /\ pending < Capacity
ScanWithRoom == Scan /\ pending < Capacity

StandingFairness ==
    /\ WF_standingVars(Finish)
    /\ SF_standingVars(TickWithRoom) /\ SF_standingVars(ScanWithRoom)

-----------------------------------------------------------------------------
(* Properties.                                                             *)

StandingTypeOK ==
    /\ now \in 0..MaxTime
    /\ job \in [Job -> [due : Nat, deferred : BOOLEAN, enabled : BOOLEAN]]
    /\ condition \in [Condition -> [armed : BOOLEAN, generation : Nat, enabled : BOOLEAN]]
    /\ need \in [Condition -> BOOLEAN]
    /\ episodes \in [Condition -> 0..MaxEpisodes]
    /\ pending \in Nat /\ messages \in 0..MaxMessages

\* A condition never gives more work than there were episodes of need, however
\* scans, stock movements, deferrals and commands interleave ("One durable work
\* item per positive stock-need episode", stock_conditions.py).
OneWorkPerEpisode == \A c \in Condition : condition[c].generation <= episodes[c]

\* A due job and an armed condition in need are deferred, never lost: they get
\* their work, unless the need passes or the operator disables them, once people's
\* messages leave room (the loop admits those first, and they are bounded here).
DueWorkIsAdmitted ==
    /\ \A j \in Job : (j \in DueJobs) ~> (j \notin DueJobs)
    /\ \A c \in Condition, n \in 0..MaxEpisodes :
          (c \in Calling /\ condition[c].generation = n)
              ~> (condition[c].generation > n \/ ~need[c] \/ ~condition[c].enabled)
=============================================================================
