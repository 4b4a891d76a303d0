\* Two processes of the actor.  When the mailbox moves, time for two claims
\* to expire and retries to the dead-letter branch; when runs move, time for
\* an attempt to expire and tokens for a second one.
CONSTANTS
  actor = actor
  Process = {p1, p2}
  Msg = {m1}
  ClaimTTL = 1
  MaxRetries = 2
  MaxTime = 3
  MaxToken = 3
  NoMsg = NoMsg
  Supervisor = {s1}
  Actor = {actor}
  Assignment = {a1}
  ActorOf <- OneActor
  LeaseTTL = 1
  AttemptTTL = 1
  ExecutionTime = 2
  ExecutionToken = 3
  NoProcess = NoProcess
  NoAssignment = NoAssignment
SPECIFICATION FairSpec
INVARIANTS
  ClaimHoldsNewestToken
PROPERTIES
  SweptIsNotCompleted
  LiveClaimIsKept
  AbandonedClaimIsFreed
  
CHECK_DEADLOCK FALSE
