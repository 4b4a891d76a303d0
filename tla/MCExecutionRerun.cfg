\* Two processes contend for one assignment; tokens for two attempts, time
\* for one attempt to expire and be taken over.
CONSTANTS
  actor = actor
  Process = {p1, p2}
  Supervisor = {s1}
  Actor = {actor}
  Assignment = {a1}
  ActorOf <- OneActor
  LeaseTTL = 1
  AttemptTTL = 2
  MaxTime = 3
  MaxToken = 4
  NoProcess = NoProcess
  NoAssignment = NoAssignment
SPECIFICATION Spec
PROPERTY TerminalIsFinal
CHECK_DEADLOCK FALSE
