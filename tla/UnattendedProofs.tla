--------------------------- MODULE UnattendedProofs ---------------------------
(***************************************************************************)
(* Proofs about the parts that run unattended: an automation, the sessions *)
(* that move between hosts, the conditions of the standing requests, and   *)
(* the pulse.  Each is proved of its own specification, for any processes, *)
(* hosts and bounds; PartsAreRun carries the results to Unattended.        *)
(***************************************************************************)
EXTENDS Unattended, SetFacts, TLAPS

-----------------------------------------------------------------------------
(* The automation.                                                         *)

\* Whoever is on the way to a payload owns the run row of its slot, alone, and
\* the payload of that slot was not called yet.
RunIsOwned ==
    /\ \A p \in Process : ~At(p, "IDLE") => caller[p].slot \in Slot
    /\ \A s \in Slot : fired[s] <= 1 /\ (run[s] = "NONE" => fired[s] = 0)
    /\ \A p \in Process : At(p, "PAYLOAD") =>
          run[caller[p].slot] # "NONE" /\ fired[caller[p].slot] = 0
    /\ \A p, q \in Process :
          At(p, "PAYLOAD") /\ At(q, "PAYLOAD") /\ caller[p].slot = caller[q].slot
          => p = q

\* What a process read of the stored state was reported, and what it will store.
ReportIsKnown ==
    /\ automation.state \in reported
    /\ \A p \in Process : /\ At(p, "DECIDED") => caller[p].old \in reported
                          /\ At(p, "SUCCEEDED") => caller[p].new \in reported

AutomationInv == AutomationTypeOK /\ RunIsOwned /\ ReportIsKnown

Caller == [at : {"IDLE", "DECIDED", "PAYLOAD", "SUCCEEDED", "FAILED"},
           slot : 0..MaxSlot, old : Version, new : Version]
Row == [due : 1..(MaxSlot + 1), state : Version, enabled : BOOLEAN, failures : Nat]

\* The types of an automation, its runs and its callers.
LEMMA AutomationTypes ==
    AutomationTypeOK /\ RunIsOwned /\ [AutomationNext]_automationVars => AutomationTypeOK'
<1> SUFFICES ASSUME AutomationTypeOK, RunIsOwned, [AutomationNext]_automationVars
             PROVE  AutomationTypeOK'
    OBVIOUS
<1> USE AutomationAssumption DEF Slot, Version
<1>1. /\ automation \in Row
      /\ run \in [Slot -> {"NONE", "RUNNING", "FAILED", "SUCCEEDED"}]
      /\ caller \in [Process -> Caller]
      /\ version \in Version /\ fired \in [Slot -> Nat] /\ reported \subseteq Version
    BY DEF AutomationTypeOK, Row, Caller
<1>2. ASSUME NEW p \in Process, NEW c \in Caller, Goto(p, c)
      PROVE  caller' \in [Process -> Caller]
    BY <1>1, <1>2 DEF Goto
<1>3. Idle \in Caller
    BY DEF Idle, Caller
<1>4. ASSUME NEW s \in Slot PROVE Advanced(automation, s) \in Row
  <2>1. (IF automation.due = s THEN s + 1 ELSE automation.due) \in 1..(MaxSlot + 1)
    BY <1>1 DEF Row
  <2> HIDE DEF Version
  <2> QED
    BY <1>1, <2>1 DEF Advanced, Row
<1>5. /\ automation' \in Row
      /\ run' \in [Slot -> {"NONE", "RUNNING", "FAILED", "SUCCEEDED"}]
      /\ caller' \in [Process -> Caller]
      /\ version' \in Version /\ fired' \in [Slot -> Nat] /\ reported' \subseteq Version
  <2>1. CASE Change
    BY <1>1, <2>1 DEF Change
  <2>2. ASSUME NEW p \in Process, Read(p) PROVE <1>5!:
    <3>1. [at |-> "DECIDED", slot |-> automation.due,
           old |-> automation.state, new |-> version] \in Caller
        BY <1>1, <2>2 DEF Read, Row, Caller
    <3> QED
        BY <1>1, <1>2, <2>2, <3>1 DEF Read
  <2>3. ASSUME NEW p \in Process, NoFire(p) PROVE <1>5!:
    <3>1. caller[p].slot \in Slot /\ caller[p] \in Caller
        BY <1>1, <2>3 DEF NoFire, RunIsOwned, At
    <3>2. automation' \in Row
        BY <1>1, <1>4, <2>3, <3>1 DEF NoFire, Row, Caller
    <3> QED
        BY <1>1, <1>2, <1>3, <2>3, <3>2 DEF NoFire
  <2>4. ASSUME NEW p \in Process, Fire(p) PROVE <1>5!:
    <3>1. caller[p].slot \in Slot /\ caller[p] \in Caller
        BY <1>1, <2>4 DEF Fire, RunIsOwned, At
    <3>2. [caller[p] EXCEPT !.at = "PAYLOAD"] \in Caller
        BY <3>1 DEF Caller
    <3> QED
        BY <1>1, <1>2, <1>3, <1>4, <2>4, <3>1, <3>2 DEF Fire
  <2>5. ASSUME NEW p \in Process, Payload(p) PROVE <1>5!:
    <3>1. caller[p] \in Caller /\ caller[p].new \in Version
        BY <1>1 DEF Caller
    <3>2. PICK succeeds \in BOOLEAN :
              Goto(p, [caller[p] EXCEPT !.at = IF succeeds THEN "SUCCEEDED" ELSE "FAILED"])
        BY <2>5 DEF Payload
    <3>3. [caller[p] EXCEPT !.at = IF succeeds THEN "SUCCEEDED" ELSE "FAILED"] \in Caller
        BY <3>1 DEF Caller
    <3>4. caller' \in [Process -> Caller]
        BY <1>2, <3>2, <3>3
    <3>5. fired' \in [Slot -> Nat]
      <4>1. caller[p].slot \in Slot /\ fired[caller[p].slot] + 1 \in Nat
        BY <1>1, <2>5 DEF Payload, RunIsOwned, At
      <4>2. fired' = [fired EXCEPT ![caller[p].slot] = fired[caller[p].slot] + 1]
        BY <2>5 DEF Payload
      <4> HIDE DEF Slot
      <4> QED
        BY <1>1, <4>1, <4>2
    <3>6. reported' \subseteq Version
        BY <1>1, <2>5, <3>1 DEF Payload
    <3> QED
        BY <1>1, <2>5, <3>4, <3>5, <3>6 DEF Payload
  <2>6. ASSUME NEW p \in Process, Fail(p) PROVE <1>5!:
    <3>1. automation' \in Row
      <4>1. /\ automation.failures + 1 \in Nat
            /\ (automation.enabled /\ automation.failures + 1 < MaxFailures) \in BOOLEAN
        BY <1>1 DEF Row
      <4> HIDE DEF Version
      <4> QED
        BY <1>1, <2>6, <4>1 DEF Fail, Row
    <3> QED
        BY <1>1, <1>2, <1>3, <2>6, <3>1 DEF Fail
  <2>7. ASSUME NEW p \in Process, Succeed(p) PROVE <1>5!:
    <3>1. automation' \in Row
        BY <1>1, <2>7 DEF Succeed, Row, Caller
    <3> QED
        BY <1>1, <1>2, <1>3, <2>7, <3>1 DEF Succeed
  <2>8. ASSUME NEW p \in Process, Crash(p) PROVE <1>5!:
    BY <1>1, <1>2, <1>3, <2>8 DEF Crash
  <2>9. CASE UNCHANGED automationVars
    BY <1>1, <2>9 DEF automationVars
  <2> QED
    BY <2>1, <2>2, <2>3, <2>4, <2>5, <2>6, <2>7, <2>8, <2>9 DEF AutomationNext
<1> QED
    BY <1>5 DEF AutomationTypeOK, Row, Caller

\* Ownership of a run row: only Fire gives it, for a slot that has none.
LEMMA RunsAreOwned ==
    AutomationTypeOK /\ RunIsOwned /\ [AutomationNext]_automationVars => RunIsOwned'
<1> SUFFICES ASSUME AutomationTypeOK, RunIsOwned, [AutomationNext]_automationVars
             PROVE  RunIsOwned'
    OBVIOUS
<1> USE DEF AutomationTypeOK, RunIsOwned, At
<1>1. CASE Change
    BY <1>1 DEF Change
<1>2. ASSUME NEW p \in Process, Read(p) PROVE RunIsOwned'
    BY <1>2 DEF Read, Goto
<1>3. ASSUME NEW p \in Process, NoFire(p) PROVE RunIsOwned'
    BY <1>3 DEF NoFire, Goto, Idle
<1>4. ASSUME NEW p \in Process, Fire(p) PROVE RunIsOwned'
    BY <1>4, SMTT(30) DEF Fire, Goto, Idle
<1>5. ASSUME NEW p \in Process, Payload(p) PROVE RunIsOwned'
    BY <1>5 DEF Payload, Goto
<1>6. ASSUME NEW p \in Process, Fail(p) PROVE RunIsOwned'
    BY <1>6 DEF Fail, Goto, Idle
<1>7. ASSUME NEW p \in Process, Succeed(p) PROVE RunIsOwned'
    BY <1>7 DEF Succeed, Goto, Idle
<1>8. ASSUME NEW p \in Process, Crash(p) PROVE RunIsOwned'
    BY <1>8 DEF Crash, Goto, Idle
<1>9. CASE UNCHANGED automationVars
    BY <1>9 DEF automationVars
<1> QED
    BY <1>1, <1>2, <1>3, <1>4, <1>5, <1>6, <1>7, <1>8, <1>9 DEF AutomationNext

\* Nothing but a payload that succeeds adds to what may be stored.
LEMMA ReportsAreKnown ==
    AutomationTypeOK /\ ReportIsKnown /\ [AutomationNext]_automationVars => ReportIsKnown'
<1> SUFFICES ASSUME AutomationTypeOK, ReportIsKnown, [AutomationNext]_automationVars
             PROVE  ReportIsKnown'
    OBVIOUS
<1> USE DEF AutomationTypeOK, ReportIsKnown, At
<1>1. CASE Change
    BY <1>1 DEF Change
<1>2. ASSUME NEW p \in Process, Read(p) PROVE ReportIsKnown'
    BY <1>2 DEF Read, Goto
<1>3. ASSUME NEW p \in Process, NoFire(p) PROVE ReportIsKnown'
    BY <1>3 DEF NoFire, Goto, Idle, Advanced, Fires
<1>4. ASSUME NEW p \in Process, Fire(p) PROVE ReportIsKnown'
    BY <1>4 DEF Fire, Goto, Idle, Advanced
<1>5. ASSUME NEW p \in Process, Payload(p) PROVE ReportIsKnown'
    BY <1>5 DEF Payload, Goto
<1>6. ASSUME NEW p \in Process, Fail(p) PROVE ReportIsKnown'
    BY <1>6 DEF Fail, Goto, Idle
<1>7. ASSUME NEW p \in Process, Succeed(p) PROVE ReportIsKnown'
    BY <1>7 DEF Succeed, Goto, Idle
<1>8. ASSUME NEW p \in Process, Crash(p) PROVE ReportIsKnown'
    BY <1>8 DEF Crash, Goto, Idle
<1>9. CASE UNCHANGED automationVars
    BY <1>9 DEF automationVars
<1> QED
    BY <1>1, <1>2, <1>3, <1>4, <1>5, <1>6, <1>7, <1>8, <1>9 DEF AutomationNext

\* The inductive invariant of an automation.
THEOREM AutomationInvariance == AutomationSpec => []AutomationInv
<1>1. AutomationInit => AutomationInv
    BY AutomationAssumption
    DEF AutomationInit, AutomationInv, AutomationTypeOK, RunIsOwned, ReportIsKnown,
        At, Idle, Slot, Version
<1>2. AutomationInv /\ [AutomationNext]_automationVars => AutomationInv'
    BY AutomationTypes, RunsAreOwned, ReportsAreKnown DEF AutomationInv
<1> QED
    BY <1>1, <1>2, PTL DEF AutomationSpec

\* However many processes find a slot due, its payload is called at most once
\* (automation.run_due).
THEOREM PayloadIsCalledOnce == AutomationSpec => []SlotFiresOnce
<1>1. AutomationInv => SlotFiresOnce
    BY DEF AutomationInv, RunIsOwned, SlotFiresOnce
<1> QED
    BY <1>1, AutomationInvariance, PTL

\* The stored condition state is one that a payload succeeded with.
THEOREM StoredStateIsReported == AutomationSpec => []StateIsReported
<1>1. AutomationInv => StateIsReported
    BY DEF AutomationInv, ReportIsKnown, StateIsReported
<1> QED
    BY <1>1, AutomationInvariance, PTL

-----------------------------------------------------------------------------
(* Sessions that move between hosts.                                       *)

\* The row of a claim carries the newest number that was handed out, and no
\* number was handed out to two hosts.
ClaimIsNewest ==
    /\ \A s \in Session : claim[s].live => claim[s].incarnation > 0
    /\ \A c \in granted :
          /\ c.incarnation <= claim[c.session].incarnation
          /\ c.incarnation = claim[c.session].incarnation => c.host = claim[c.session].host

CoordinationInv == CoordinationTypeOK /\ ClaimIsNewest /\ IncarnationNamesItsHost

\* What a claim that is admitted is made of.
LEMMA ClaimMoves ==
    ASSUME CoordinationInv, NEW h \in Host, NEW s \in Session, ClaimSession(h, s)
    PROVE  CoordinationInv'
<1> DEFINE n == Incarnation(h, s)
           given == [session |-> s, host |-> h, incarnation |-> n]
<1> USE CoordinationAssumption
        DEF CoordinationInv, CoordinationTypeOK, ClaimIsNewest, SessionClaim
<1>1. /\ n \in 1..MaxIncarnation /\ n >= claim[s].incarnation
      /\ n = claim[s].incarnation => claim[s].host = h
    BY DEF ClaimSession, Incarnation
<1>2. /\ claim' = [claim EXCEPT ![s] = [host |-> h, incarnation |-> n, live |-> TRUE]]
      /\ granted' = granted \cup {given}
      /\ UNCHANGED <<hosts, completion>>
    BY DEF ClaimSession
<1> HIDE DEF n
<1>3. CoordinationTypeOK'
    BY <1>1, <1>2
<1>4. ClaimIsNewest'
    BY <1>1, <1>2
<1>5. IncarnationNamesItsHost'
    BY <1>1, <1>2, SMTT(30) DEF IncarnationNamesItsHost
<1> QED
    BY <1>3, <1>4, <1>5

\* The inductive invariant of session claims.
THEOREM CoordinationInvariance == CoordinationSpec => []CoordinationInv
<1>1. CoordinationInit => CoordinationInv
    BY CoordinationAssumption
    DEF CoordinationInit, CoordinationInv, CoordinationTypeOK, ClaimIsNewest,
        IncarnationNamesItsHost, NoCompletion
<1>2. CoordinationInv /\ [CoordinationNext]_coordinationVars => CoordinationInv'
  <2> SUFFICES ASSUME CoordinationInv, [CoordinationNext]_coordinationVars
               PROVE  CoordinationInv'
    OBVIOUS
  <2> USE DEF CoordinationInv, CoordinationTypeOK, ClaimIsNewest, IncarnationNamesItsHost
  <2>1. ASSUME NEW h \in Host, Register(h) PROVE CoordinationInv'
    BY <2>1 DEF Register
  <2>2. ASSUME NEW h \in Host, HostLeaseRunsOut(h) PROVE CoordinationInv'
    BY <2>2 DEF HostLeaseRunsOut
  <2>3. ASSUME NEW s \in Session, ClaimRunsOut(s) PROVE CoordinationInv'
    <3>1. /\ claim' = [claim EXCEPT ![s] = [claim[s] EXCEPT !.live = FALSE]]
          /\ UNCHANGED <<hosts, granted, completion>>
        BY <2>3 DEF ClaimRunsOut
    <3>2. \A t \in Session : /\ claim'[t].host = claim[t].host
                             /\ claim'[t].incarnation = claim[t].incarnation
                             /\ claim'[t].live => claim[t].live
        BY <3>1
    <3>3. claim' \in [Session -> [host : Host \cup {None}, incarnation : 0..MaxIncarnation,
                                  live : BOOLEAN]]
      <4>1. [claim[s] EXCEPT !.live = FALSE]
               \in [host : Host \cup {None}, incarnation : 0..MaxIncarnation, live : BOOLEAN]
        <5>1. claim[s]
               \in [host : Host \cup {None}, incarnation : 0..MaxIncarnation, live : BOOLEAN]
            OBVIOUS
        <5> QED
            BY <5>1
      <4> QED
        BY <3>1, <4>1
    <3>4. \A c \in granted : c.session \in Session
        BY DEF SessionClaim
    <3> QED
        BY <3>1, <3>2, <3>3, <3>4
  <2>4. ASSUME NEW s \in Session, NEW h \in Host, ClaimSession(h, s) PROVE CoordinationInv'
    BY <2>4, ClaimMoves
  <2>5. ASSUME NEW c \in granted, FinishSession(c) PROVE CoordinationInv'
    BY <2>5 DEF FinishSession, SessionClaim
  <2>6. CASE UNCHANGED coordinationVars
    BY <2>6 DEF coordinationVars
  <2> QED
    BY <2>1, <2>2, <2>3, <2>4, <2>5, <2>6 DEF CoordinationNext
<1> QED
    BY <1>1, <1>2, PTL DEF CoordinationSpec

\* No two hosts ever hold claims of one session under one number.
THEOREM IncarnationsAreApart == CoordinationSpec => []IncarnationNamesItsHost
<1>1. CoordinationInv => IncarnationNamesItsHost
    BY DEF CoordinationInv
<1> QED
    BY <1>1, CoordinationInvariance, PTL

\* A session is completed by the newest incarnation only (finish_session), for any
\* hosts, sessions and numbers of takeovers.
THEOREM OldHostsCompleteNothing == CoordinationSpec => NewestCompletes
<1> DEFINE Newest ==
      \A s \in Session : completion'[s] # completion[s] =>
          \A c \in granted : c.session = s => c.incarnation <= completion'[s].incarnation
<1>1. CoordinationInv /\ [CoordinationNext]_coordinationVars => [Newest]_completion
  <2> SUFFICES ASSUME CoordinationInv, CoordinationNext, completion' # completion
               PROVE  Newest
    BY DEF coordinationVars
  <2> USE DEF CoordinationInv, CoordinationTypeOK, ClaimIsNewest
  <2>1. PICK c \in granted : FinishSession(c)
    BY DEF CoordinationNext, Register, HostLeaseRunsOut, ClaimRunsOut, ClaimSession
  <2>2. c.session \in Session /\ c.incarnation = claim[c.session].incarnation
    BY <2>1 DEF FinishSession, SessionClaim
  <2>3. completion' = [completion EXCEPT ![c.session] =
                          [host |-> c.host, incarnation |-> c.incarnation]]
    BY <2>1 DEF FinishSession
  <2> QED
    BY <2>2, <2>3
<1> QED
    BY <1>1, CoordinationInvariance, PTL DEF CoordinationSpec, NewestCompletes

-----------------------------------------------------------------------------
(* Stock conditions.                                                       *)

Armament == [armed : BOOLEAN, generation : Nat, enabled : BOOLEAN]

\* A condition that is armed while its product is needed still has the work of
\* the present episode to give.
Owed(c) ==
    /\ condition[c].generation <= episodes[c]
    /\ condition[c].armed /\ need[c] => condition[c].generation < episodes[c]

EpisodesAreOwed ==
    /\ condition \in [Condition -> Armament]
    /\ need \in [Condition -> BOOLEAN]
    /\ episodes \in [Condition -> Nat]
    /\ \A c \in Condition : Owed(c)

\* What a scan writes: admitted episodes give their work, others owe it still.
LEMMA ScanMoves ==
    ASSUME EpisodesAreOwed, Scan
    PROVE  EpisodesAreOwed'
<1>1. PICK admitted \in SUBSET Calling :
         condition' = [c \in Condition |->
            IF c \in admitted
            THEN [condition[c] EXCEPT !.armed = FALSE, !.generation = @ + 1]
            ELSE [condition[c] EXCEPT !.armed = @ \/ (condition[c].enabled /\ ~need[c])]]
    BY DEF Scan, Admissions
<1>2. need' = need /\ episodes' = episodes
    BY DEF Scan
<1>3. ASSUME NEW c \in Condition
      PROVE  condition'[c] \in Armament /\ Owed(c)'
  <2>1. /\ condition[c] \in Armament /\ need[c] \in BOOLEAN /\ episodes[c] \in Nat
        /\ Owed(c)
    BY DEF EpisodesAreOwed
  <2>2. CASE c \in admitted
    <3>1. condition[c].armed /\ need[c]
        BY <2>2 DEF Calling
    <3>2. condition'[c] = [condition[c] EXCEPT !.armed = FALSE,
                                               !.generation = condition[c].generation + 1]
        BY <1>1, <2>2
    <3>3. condition[c].generation \in Nat /\ condition[c].generation < episodes[c]
        BY <2>1, <3>1 DEF Owed, Armament
    <3>4. condition'[c] \in Armament /\ ~condition'[c].armed
      <4>1. condition'[c] = [armed |-> FALSE, generation |-> condition[c].generation + 1,
                             enabled |-> condition[c].enabled]
        BY <2>1, <3>2 DEF Armament
      <4>2. condition[c].enabled \in BOOLEAN /\ condition[c].generation + 1 \in Nat
        BY <2>1, <3>3 DEF Armament
      <4> QED
        BY <4>1, <4>2 DEF Armament
    <3>5. condition'[c].generation = condition[c].generation + 1
        BY <2>1, <3>2 DEF Armament
    <3> QED
        BY <1>2, <2>1, <3>3, <3>4, <3>5 DEF Owed
  <2>3. CASE c \notin admitted
    <3>1. condition'[c] = [condition[c] EXCEPT
                              !.armed = @ \/ (condition[c].enabled /\ ~need[c])]
        BY <1>1, <2>3
    <3>2. condition'[c] \in Armament /\ condition'[c].generation = condition[c].generation
        BY <2>1, <3>1 DEF Armament
    <3>3. condition'[c].armed /\ need[c] => condition[c].armed
        BY <2>1, <3>1 DEF Armament
    <3> QED
        BY <1>2, <2>1, <3>2, <3>3 DEF Owed
  <2> QED
    BY <2>2, <2>3
<1> QED
    BY <1>1, <1>2, <1>3 DEF EpisodesAreOwed

\* The inductive invariant of stock conditions.
THEOREM StandingInvariance == StandingSpec => []EpisodesAreOwed
<1>1. StandingInit => EpisodesAreOwed
    BY DEF StandingInit, EpisodesAreOwed, Armament, Owed
<1>2. EpisodesAreOwed /\ [StandingNext]_standingVars => EpisodesAreOwed'
  <2> SUFFICES ASSUME EpisodesAreOwed, [StandingNext]_standingVars
               PROVE  EpisodesAreOwed'
    OBVIOUS
  <2>1. ASSUME UNCHANGED <<condition, need, episodes>> PROVE EpisodesAreOwed'
    BY <2>1 DEF EpisodesAreOwed, Owed
  <2>2. ASSUME NEW c \in Condition, RunShort(c) PROVE EpisodesAreOwed'
    BY <2>2 DEF RunShort, EpisodesAreOwed, Owed, Armament
  <2>3. ASSUME NEW c \in Condition, Restock(c) PROVE EpisodesAreOwed'
    BY <2>3 DEF Restock, EpisodesAreOwed, Owed, Armament
  <2>4. ASSUME NEW c \in Condition, Disable(c) PROVE EpisodesAreOwed'
    BY <2>4 DEF Disable, EpisodesAreOwed, Owed, Armament
  <2>5. ASSUME NEW c \in Condition, Watch(c) PROVE EpisodesAreOwed'
    <3>1. condition[c] \in Armament /\ episodes[c] \in Nat /\ Owed(c)
        BY DEF EpisodesAreOwed
    <3>2. /\ condition' = [condition EXCEPT ![c] =
                              [condition[c] EXCEPT !.enabled = TRUE, !.armed = TRUE]]
          /\ need' = need
        BY <2>5 DEF Watch
    <3>3. episodes' = [episodes EXCEPT ![c] = IF need[c] THEN episodes[c] + 1
                                              ELSE episodes[c]]
        BY <2>5 DEF Watch
    <3>4. [condition[c] EXCEPT !.enabled = TRUE, !.armed = TRUE] \in Armament
        BY <3>1 DEF Armament
    <3>5. /\ condition' \in [Condition -> Armament]
          /\ episodes' \in [Condition -> Nat]
          /\ need' \in [Condition -> BOOLEAN]
        BY <3>1, <3>2, <3>3, <3>4 DEF EpisodesAreOwed
    <3>6. Owed(c)'
      <4>1. condition'[c].generation = condition[c].generation
        BY <3>1, <3>2 DEF EpisodesAreOwed, Armament
      <4>2. condition[c].generation \in Nat
        BY <3>1 DEF Armament
      <4>3. CASE need[c]
        <5>1. episodes'[c] = episodes[c] + 1
            BY <3>3, <4>3 DEF EpisodesAreOwed
        <5> QED
            BY <3>1, <4>1, <4>2, <5>1 DEF Owed
      <4>4. CASE ~need[c]
        <5>1. episodes'[c] = episodes[c] /\ ~need'[c]
            BY <3>2, <3>3, <4>4 DEF EpisodesAreOwed
        <5> QED
            BY <3>1, <4>1, <4>2, <5>1 DEF Owed
      <4> QED
        BY <4>3, <4>4
    <3>7. ASSUME NEW d \in Condition, d # c PROVE Owed(d)'
      <4>1. condition'[d] = condition[d]
        BY <3>2, <3>7 DEF EpisodesAreOwed
      <4>2. episodes'[d] = episodes[d]
        BY <3>3, <3>7 DEF EpisodesAreOwed
      <4>3. need'[d] = need[d] /\ Owed(d)
        BY <3>2 DEF EpisodesAreOwed
      <4> QED
        BY <4>1, <4>2, <4>3 DEF Owed
    <3> QED
        BY <3>5, <3>6, <3>7 DEF EpisodesAreOwed
  <2>6. CASE Clock \/ Message \/ Finish \/ Tick \/ \E j \in Job : Unschedule(j)
    BY <2>6, <2>1 DEF Clock, Message, Finish, Tick, Unschedule
  <2>7. CASE UNCHANGED standingVars
    BY <2>7, <2>1 DEF standingVars
  <2> QED
    BY <2>2, <2>3, <2>4, <2>5, <2>6, <2>7, ScanMoves DEF StandingNext
<1> QED
    BY <1>1, <1>2, PTL DEF StandingSpec

\* A condition never gives more work than there were episodes of need, for any
\* conditions, jobs and room (stock_conditions.scan).
THEOREM EpisodesGiveOneWork == StandingSpec => []OneWorkPerEpisode
<1>1. EpisodesAreOwed => OneWorkPerEpisode
    BY DEF EpisodesAreOwed, Owed, OneWorkPerEpisode
<1> QED
    BY <1>1, StandingInvariance, PTL

\* The room of the session is not exceeded, and the types hold: the counter of
\* pending work is raised by messages, jobs and conditions, and each sees the others'.
StandingInv == StandingTypeOK /\ AllEpisodes <= MaxEpisodes /\ pending <= Capacity

JobRow == [due : Nat, deferred : BOOLEAN, enabled : BOOLEAN]

\* What is admitted fits.
LEMMA AdmittedFits ==
    ASSUME NEW S, IsFiniteSet(S), NEW A \in Admissions(S),
           pending \in Nat, pending <= Capacity
    PROVE  /\ pending + Cardinality(A) \in Nat /\ pending + Cardinality(A) <= Capacity
           /\ A \subseteq S
<1> DEFINE room == Capacity - pending
<1>1. room \in Nat
    BY StandingAssumption
<1>2. A \in SUBSET S /\ Cardinality(A) = Min({Cardinality(S), Max({room, 0})})
    BY DEF Admissions
<1>3. Cardinality(A) \in Nat /\ Cardinality(S) \in Nat
    BY <1>2, FS_Subset, FS_CardinalityType
<1> HIDE DEF room
<1>4. Max({room, 0}) = room
    BY <1>1, MaxOfTwo
<1>5. Min({Cardinality(S), room}) <= room
  <2>1. \E x \in {Cardinality(S), room} : \A y \in {Cardinality(S), room} : x <= y
    BY <1>1, <1>3
  <2> QED
    BY <1>1, <1>3, <2>1 DEF Min
<1> QED
    BY <1>1, <1>2, <1>3, <1>4, <1>5, StandingAssumption DEF room

\* The slot after the last one missed: it is on the job's grid, and the first that
\* is still to come.
LEMMA NextDueIsNext ==
    ASSUME StandingTypeOK, NEW j \in DueJobs
    PROVE  /\ NextDue(j) \in Nat
           /\ now < NextDue(j) /\ NextDue(j) <= now + Interval[j]
           /\ \E n \in Nat : NextDue(j) = job[j].due + n * Interval[j]
<1> DEFINE late == now - job[j].due
           i == Interval[j]
           q == late \div i
<1>1. /\ late \in Nat /\ i \in Nat \ {0}
      /\ now \in Nat /\ job[j].due \in Nat /\ now = job[j].due + late
    BY StandingAssumption DEF StandingTypeOK, DueJobs
<1> HIDE DEF late, i
<1>2. q \in Nat /\ q * i <= late /\ late < (q + 1) * i
    BY <1>1, Z3T(30)
<1>3. (q + 1) * i = q * i + i
    BY <1>1, <1>2, Z3T(30)
<1>4. q + 1 \in Nat /\ q * i \in Nat /\ (q + 1) * i \in Nat
    BY <1>1, <1>2
<1>5. NextDue(j) = job[j].due + (q + 1) * i
    BY DEF NextDue, late, i
<1> HIDE DEF q
<1>6. NextDue(j) \in Nat /\ now < NextDue(j) /\ NextDue(j) <= now + i
    BY <1>1, <1>2, <1>3, <1>4, <1>5
<1> QED
    BY <1>4, <1>5, <1>6 DEF i

\* An episode that begins is counted, and the count stays within the bound.
LEMMA EpisodesCount ==
    ASSUME StandingInv, NEW c \in Condition, AllEpisodes < MaxEpisodes,
           episodes' = [episodes EXCEPT ![c] = @ + 1]
    PROVE  episodes' \in [Condition -> 0..MaxEpisodes] /\ AllEpisodes' <= MaxEpisodes
<1>1. /\ episodes \in [Condition -> Nat] /\ IsFiniteSet(Condition) /\ MaxEpisodes \in Nat
    BY StandingAssumption DEF StandingInv, StandingTypeOK
<1>2. episodes' \in [Condition -> Nat] /\ episodes'[c] = episodes[c] + 1
    BY <1>1
<1>3. AllEpisodes' = AllEpisodes + 1
  <2>1. /\ \A d \in Condition \ {c} : episodes'[d] = episodes[d]
        /\ \A d \in Condition : episodes[d] \in Int /\ episodes'[d] \in Int
    BY <1>1, <1>2
  <2>2. SumFunctionOnSet(episodes', Condition) =
            SumFunctionOnSet(episodes, Condition) + episodes'[c] - episodes[c]
    <3> DEFINE f == episodes
               g == episodes'
    <3>1. /\ IsFiniteSet(Condition) /\ c \in Condition
          /\ \A x \in Condition : f[x] \in Int
          /\ \A x \in Condition : g[x] \in Int
          /\ \A x \in Condition \ {c} : g[x] = f[x]
        BY <1>1, <2>1
    <3> HIDE DEF f, g
    <3>2. SumFunctionOnSet(g, Condition) = SumFunctionOnSet(f, Condition) + g[c] - f[c]
        BY <3>1, SumChange
    <3> QED
        BY <3>2 DEF f, g
  <2>3. AllEpisodes \in Nat
    BY <1>1, SumNat DEF AllEpisodes
  <2> QED
    BY <1>1, <1>2, <2>2, <2>3 DEF AllEpisodes
<1>4. AllEpisodes \in Nat /\ AllEpisodes' \in Nat
    BY <1>1, <1>2, SumNat DEF AllEpisodes
<1>5. ASSUME NEW d \in Condition PROVE episodes'[d] <= AllEpisodes'
  <2>1. AllEpisodes' = episodes'[d] + SumFunctionOnSet(episodes', Condition \ {d})
    <3>1. \A x \in Condition : episodes'[x] \in Int
        BY <1>2
    <3> QED
        BY <1>1, <3>1, SumRemove DEF AllEpisodes
  <2>2. SumFunctionOnSet(episodes', Condition \ {d}) \in Nat
    BY <1>1, <1>2, SumNat, FS_Subset
  <2> QED
    BY <1>2, <2>1, <2>2
<1> QED
    BY <1>1, <1>2, <1>3, <1>4, <1>5

\* The invariant of the standing requests' room.
THEOREM RoomInvariance == StandingSpec => []StandingInv
<1>1. StandingInit => StandingInv
  <2> SUFFICES ASSUME StandingInit PROVE StandingInv
    OBVIOUS
  <2>1. StandingTypeOK
    BY StandingAssumption DEF StandingInit, StandingTypeOK
  <2>2. \A c \in Condition : episodes[c] = 0
    BY DEF StandingInit
  <2>3. AllEpisodes = 0
    BY <2>2, SumZero, StandingAssumption DEF AllEpisodes
  <2> QED
    BY <2>1, <2>3, StandingAssumption DEF StandingInit, StandingInv
<1>2. StandingInv /\ [StandingNext]_standingVars => StandingInv'
  <2> SUFFICES ASSUME StandingInv, [StandingNext]_standingVars PROVE StandingInv'
    OBVIOUS
  <2> USE StandingAssumption DEF StandingInv, StandingTypeOK
  <2>1. job \in [Job -> JobRow] /\ condition \in [Condition -> Armament]
    BY DEF JobRow, Armament
  <2>2. CASE Clock \/ Message \/ Finish
    BY <2>2 DEF Clock, Message, Finish, AllEpisodes
  <2>3. CASE Tick
    <3>1. PICK admitted \in Admissions(DueJobs) :
              /\ job' = [j \in Job |->
                    CASE j \in admitted -> [job[j] EXCEPT !.due = NextDue(j), !.deferred = FALSE]
                      [] j \in DueJobs \ admitted -> [job[j] EXCEPT !.deferred = TRUE]
                      [] OTHER -> job[j]]
              /\ pending' = pending + Cardinality(admitted)
        BY <2>3 DEF Tick
    <3>2. IsFiniteSet(DueJobs)
        BY FS_Subset DEF DueJobs
    <3>3. pending' \in Nat /\ pending' <= Capacity /\ admitted \subseteq DueJobs
        BY <3>1, <3>2, AdmittedFits
    <3>4. \A j \in DueJobs : NextDue(j) \in Nat
        BY NextDueIsNext
    <3>5. job' \in [Job -> JobRow]
      <4>1. ASSUME NEW j \in Job PROVE job'[j] \in JobRow
        <5>1. CASE j \in admitted
            BY <2>1, <3>1, <3>3, <3>4, <5>1 DEF JobRow
        <5>2. CASE j \in DueJobs \ admitted
            BY <2>1, <3>1, <5>2 DEF JobRow
        <5>3. CASE j \notin DueJobs
            BY <2>1, <3>1, <3>3, <5>3
        <5> QED
            BY <5>1, <5>2, <5>3
      <4> QED
        BY <3>1, <4>1
    <3> QED
        BY <2>3, <3>3, <3>5 DEF Tick, AllEpisodes, JobRow
  <2>4. CASE Scan
    <3>1. PICK admitted \in Admissions(Calling) :
              /\ condition' = [c \in Condition |->
                    IF c \in admitted
                    THEN [condition[c] EXCEPT !.armed = FALSE, !.generation = @ + 1]
                    ELSE [condition[c] EXCEPT !.armed = @ \/ (condition[c].enabled /\ ~need[c])]]
              /\ pending' = pending + Cardinality(admitted)
        BY <2>4 DEF Scan
    <3>2. IsFiniteSet(Calling)
        BY FS_Subset DEF Calling
    <3>3. pending' \in Nat /\ pending' <= Capacity
        BY <3>1, <3>2, AdmittedFits
    <3>4. condition' \in [Condition -> Armament]
      <4>1. ASSUME NEW c \in Condition PROVE condition'[c] \in Armament
        <5>1. /\ condition[c].generation + 1 \in Nat
              /\ (condition[c].armed \/ (condition[c].enabled /\ ~need[c])) \in BOOLEAN
            BY <2>1 DEF Armament
        <5>2. CASE c \in admitted
            BY <2>1, <3>1, <5>1, <5>2 DEF Armament
        <5>3. CASE c \notin admitted
            BY <2>1, <3>1, <5>1, <5>3 DEF Armament
        <5> QED
            BY <5>2, <5>3
      <4> QED
        BY <3>1, <4>1
    <3> QED
        BY <2>4, <3>3, <3>4 DEF Scan, AllEpisodes, Armament
  <2>5. ASSUME NEW j \in Job, Unschedule(j) PROVE StandingInv'
    <3>1. job' \in [Job -> JobRow]
        BY <2>1, <2>5 DEF Unschedule, JobRow
    <3> QED
        BY <2>5, <3>1 DEF Unschedule, AllEpisodes, JobRow
  <2>6. ASSUME NEW c \in Condition, RunShort(c) PROVE StandingInv'
    <3>1. episodes' \in [Condition -> 0..MaxEpisodes] /\ AllEpisodes' <= MaxEpisodes
        BY <2>6, EpisodesCount DEF RunShort
    <3> QED
        BY <2>6, <3>1 DEF RunShort
  <2>7. ASSUME NEW c \in Condition, Restock(c) PROVE StandingInv'
    BY <2>7 DEF Restock, AllEpisodes
  <2>8. ASSUME NEW c \in Condition, Disable(c) PROVE StandingInv'
    <3>1. condition' \in [Condition -> Armament]
        BY <2>1, <2>8 DEF Disable, Armament
    <3> QED
        BY <2>8, <3>1 DEF Disable, AllEpisodes, Armament
  <2>9. ASSUME NEW c \in Condition, Watch(c) PROVE StandingInv'
    <3>1. condition' \in [Condition -> Armament]
      <4> HIDE DEF StandingInv, StandingTypeOK
      <4> DEFINE row == [condition[c] EXCEPT !.enabled = TRUE]
                 new == [row EXCEPT !.armed = TRUE]
      <4>1. row \in Armament
        BY <2>1 DEF Armament
      <4>2. new \in Armament
        <5> HIDE DEF row
        <5> QED
            BY <4>1 DEF Armament
      <4>3. condition' = [condition EXCEPT ![c] = new]
        BY <2>1, <2>9 DEF Watch
      <4> QED
        BY <2>1, <4>2, <4>3
    <3>2. episodes' \in [Condition -> 0..MaxEpisodes] /\ AllEpisodes' <= MaxEpisodes
      <4>1. CASE need[c]
        <5>1. AllEpisodes < MaxEpisodes /\ episodes' = [episodes EXCEPT ![c] = @ + 1]
            BY <2>9, <4>1 DEF Watch
        <5> QED
            BY <5>1, EpisodesCount
      <4>2. CASE ~need[c]
        <5>1. episodes' = episodes
            BY <2>9, <4>2 DEF Watch
        <5> QED
            BY <5>1 DEF AllEpisodes
      <4> QED
        BY <4>1, <4>2
    <3> QED
        BY <2>9, <3>1, <3>2 DEF Watch, Armament
  <2>10. CASE UNCHANGED standingVars
    BY <2>10 DEF standingVars, AllEpisodes
  <2> QED
    BY <2>2, <2>3, <2>4, <2>5, <2>6, <2>7, <2>8, <2>9, <2>10 DEF StandingNext
<1> QED
    BY <1>1, <1>2, PTL DEF StandingSpec

\* Messages, jobs and conditions together never fill the session beyond its room
\* (require_admission in assistant_work._enqueue).
THEOREM RoomIsKept == StandingSpec => [](pending <= Capacity)
    BY RoomInvariance, PTL DEF StandingInv

\* A job that moves was due, and moves to the first slot of its grid that is still
\* to come: however many slots were missed, one run stands for all of them, and no
\* slot to come is skipped.
MissedSlotsAreOneRun ==
    [][\A j \in Job : job'[j].due # job[j].due =>
          /\ job[j].enabled /\ job[j].due <= now
          /\ now < job'[j].due /\ job'[j].due <= now + Interval[j]
          /\ \E n \in Nat : job'[j].due = job[j].due + n * Interval[j]]_standingVars

\* "Missed runs coalesce to one, rather than a backlog storm" (assistant_work.schedule),
\* and none that is to come is lost with them, for every interval and lateness.
THEOREM JobsKeepTheirGrid == StandingSpec => MissedSlotsAreOneRun
<1>1. ASSUME StandingInv, [StandingNext]_standingVars,
             NEW j \in Job, job'[j].due # job[j].due
      PROVE  /\ job[j].enabled /\ job[j].due <= now
             /\ now < job'[j].due /\ job'[j].due <= now + Interval[j]
             /\ \E n \in Nat : job'[j].due = job[j].due + n * Interval[j]
  <2>1. job \in [Job -> JobRow]
    BY <1>1 DEF StandingInv, StandingTypeOK, JobRow
  <2>2. CASE Tick
    <3>1. PICK admitted \in SUBSET DueJobs :
              job' = [k \in Job |->
                    CASE k \in admitted -> [job[k] EXCEPT !.due = NextDue(k), !.deferred = FALSE]
                      [] k \in DueJobs \ admitted -> [job[k] EXCEPT !.deferred = TRUE]
                      [] OTHER -> job[k]]
        BY <2>2 DEF Tick, Admissions
    <3>2. j \in admitted
        BY <1>1, <2>1, <3>1 DEF JobRow
    <3>3. job'[j].due = NextDue(j)
        BY <2>1, <3>1, <3>2 DEF JobRow
    <3>4. j \in DueJobs
        BY <3>2
    <3> QED
        BY <1>1, <3>3, <3>4, NextDueIsNext DEF StandingInv, DueJobs
  <2>3. ASSUME NEW k \in Job, Unschedule(k) PROVE FALSE
    BY <1>1, <2>1, <2>3 DEF Unschedule, JobRow
  <2>4. CASE UNCHANGED job
    BY <1>1, <2>4
  <2> QED
    BY <1>1, <2>2, <2>3, <2>4
    DEF StandingNext, Clock, Message, Finish, Scan, RunShort, Restock, Disable, Watch,
        standingVars
<1>2. StandingInv /\ [StandingNext]_standingVars =>
      [\A j \in Job : job'[j].due # job[j].due =>
          /\ job[j].enabled /\ job[j].due <= now
          /\ now < job'[j].due /\ job'[j].due <= now + Interval[j]
          /\ \E n \in Nat : job'[j].due = job[j].due + n * Interval[j]]_standingVars
    BY <1>1
<1> QED
    BY <1>2, RoomInvariance, PTL DEF StandingSpec, MissedSlotsAreOneRun

-----------------------------------------------------------------------------
(* The pulse.                                                              *)

\* A signal was decided on exactly when it has a work, and it came from a sale.
SpentOnWork ==
    \A g \in Signal : /\ wake[g].decided <=> wake[g].run # "NONE"
                      /\ wake[g].decided => wake[g].sold

\* What each pulse has in hand: to create the work of a sale, or to run a work there
\* is, begun by now or not.
HandsAreKnown ==
    \A u \in Pulser :
        /\ pulser[u].at = "CREATE" => wake[pulser[u].signal].sold
        /\ pulser[u].at \in {"INVOKE", "ACQUIRE", "SAVE", "RUN"}
              => wake[pulser[u].signal].decided

PulseInv == PulseTypeOK /\ SpentOnWork /\ HandsAreKnown

\* What one step may do to a signal: it is sold, it is decided on and its work
\* created, its work is acquired, or the work is begun or ended, perhaps again.
WorkMoves(g) ==
    \/ wake'[g] = wake[g]
    \/ ~wake[g].sold /\ wake'[g] = [wake[g] EXCEPT !.sold = TRUE]
    \/ /\ wake[g].sold /\ ~wake[g].decided
       /\ wake'[g] = [wake[g] EXCEPT !.decided = TRUE, !.run = "CREATED"]
    \/ \E u \in Pulser : wake'[g] = [wake[g] EXCEPT !.fence = {u}]
    \/ wake[g].decided /\ wake'[g] = [wake[g] EXCEPT !.run = "RUNNING"]
    \/ wake[g].decided /\ wake'[g] = [wake[g] EXCEPT !.run = "ENDED", !.fence = {}]

Woken == [sold : BOOLEAN, decided : BOOLEAN,
          run : {"NONE", "CREATED", "RUNNING", "ENDED"}, fence : SUBSET Pulser]
InHand == {Resting} \cup [at : {"CREATE", "INVOKE", "ACQUIRE", "SAVE", "RUN"},
                          signal : Signal]

\* A step writes one signal's row, as WorkMoves says.
LEMMA WorkGoesOn ==
    PulseInv /\ [PulseNext]_pulseVars =>
        \/ UNCHANGED wake
        \/ \E g \in Signal : /\ WorkMoves(g)
                             /\ wake' = [wake EXCEPT ![g] = wake'[g]]
<1> SUFFICES ASSUME PulseInv, [PulseNext]_pulseVars
             PROVE  \/ UNCHANGED wake
                    \/ \E g \in Signal : /\ WorkMoves(g)
                                         /\ wake' = [wake EXCEPT ![g] = wake'[g]]
    OBVIOUS
<1> DEFINE Goal == \/ UNCHANGED wake
                   \/ \E g \in Signal : /\ WorkMoves(g)
                                        /\ wake' = [wake EXCEPT ![g] = wake'[g]]
<1>1. wake \in [Signal -> Woken] /\ pulser \in [Pulser -> InHand]
    BY DEF PulseInv, PulseTypeOK, Woken, InHand
<1>2. ASSUME NEW u \in Pulser, pulser[u].at # "IDLE"
      PROVE  pulser[u].signal \in Signal
    BY <1>1, <1>2 DEF InHand, Resting
<1>3. ASSUME NEW g \in Signal, NEW w, wake' = [wake EXCEPT ![g] = w]
      PROVE  wake'[g] = w /\ wake' = [wake EXCEPT ![g] = wake'[g]]
    BY <1>1, <1>3
<1>4. ASSUME NEW g \in Signal, PulseSale(g) PROVE Goal
  <2>1. ~wake[g].sold /\ wake' = [wake EXCEPT ![g] = [wake[g] EXCEPT !.sold = TRUE]]
    BY <1>4 DEF PulseSale
  <2> QED
    BY <1>3, <2>1 DEF WorkMoves
<1>5. ASSUME NEW u \in Pulser, CreateWork(u) PROVE Goal
  <2> DEFINE g == pulser[u].signal
  <2>1. g \in Signal /\ wake[g].sold
    BY <1>2, <1>5 DEF CreateWork, PulseInv, HandsAreKnown
  <2>2. \/ UNCHANGED wake
        \/ /\ ~wake[g].decided
           /\ wake' = [wake EXCEPT ![g] =
                         [wake[g] EXCEPT !.decided = TRUE, !.run = "CREATED"]]
    BY <1>1, <1>5, <2>1 DEF CreateWork
  <2> HIDE DEF g
  <2> QED
    BY <1>3, <2>1, <2>2 DEF WorkMoves
<1>6. ASSUME NEW u \in Pulser, Acquire(u) PROVE Goal
  <2> DEFINE g == pulser[u].signal
  <2>1. g \in Signal /\ wake' = [wake EXCEPT ![g] = [wake[g] EXCEPT !.fence = {u}]]
    BY <1>2, <1>6 DEF Acquire
  <2> HIDE DEF g
  <2> QED
    BY <1>3, <2>1 DEF WorkMoves
<1>7. ASSUME NEW u \in Pulser, SaveRunning(u) PROVE Goal
  <2> DEFINE g == pulser[u].signal
  <2>1. /\ g \in Signal /\ wake[g].decided
        /\ wake' = [wake EXCEPT ![g] = [wake[g] EXCEPT !.run = "RUNNING"]]
    BY <1>2, <1>7 DEF SaveRunning, PulseInv, HandsAreKnown
  <2> HIDE DEF g
  <2> QED
    BY <1>3, <2>1 DEF WorkMoves
<1>8. ASSUME NEW u \in Pulser, RunEnds(u) PROVE Goal
  <2> DEFINE g == pulser[u].signal
  <2>1. /\ g \in Signal /\ wake[g].decided
        /\ \/ UNCHANGED wake
           \/ wake' = [wake EXCEPT ![g] = [wake[g] EXCEPT !.run = "ENDED", !.fence = {}]]
    BY <1>2, <1>8 DEF RunEnds, PulseInv, HandsAreKnown
  <2> HIDE DEF g
  <2> QED
    BY <1>3, <2>1 DEF WorkMoves
<1>9. ASSUME NEW g \in Signal, Recovered(g) PROVE Goal
  <2>1. wake[g].decided
    BY <1>9 DEF Recovered, PulseInv, SpentOnWork
  <2>2. wake' = [wake EXCEPT ![g] = [wake[g] EXCEPT !.run = "ENDED", !.fence = {}]]
    BY <1>9 DEF Recovered
  <2> QED
    BY <1>3, <2>1, <2>2 DEF WorkMoves
<1> QED
    BY <1>4, <1>5, <1>6, <1>7, <1>8, <1>9
    DEF PulseNext, PulseRestock, OutcomeMoves, Beat, Goes, Invoke, Denied, PulserDies,
        Resume, Evaluate, pulseVars

\* What was sold stays sold and what was decided stays decided, with its work, and a
\* work is new with its decision only.
LEMMA WorkIsKept ==
    ASSUME NEW g \in Signal, wake[g] \in Woken, WorkMoves(g)
    PROVE  /\ wake'[g] \in Woken
           /\ wake[g].sold => wake'[g].sold
           /\ wake[g].decided => wake'[g].decided
           /\ wake'[g].run = "CREATED" => wake[g].run = "CREATED" \/ ~wake[g].decided
           /\ /\ wake[g].decided <=> wake[g].run # "NONE"
              /\ wake[g].decided => wake[g].sold
              => /\ wake'[g].decided <=> wake'[g].run # "NONE"
                 /\ wake'[g].decided => wake'[g].sold
<1>1. CASE wake'[g] = wake[g]
    BY <1>1
<1>2. CASE ~wake[g].sold /\ wake'[g] = [wake[g] EXCEPT !.sold = TRUE]
    BY <1>2 DEF Woken
<1>3. CASE /\ wake[g].sold /\ ~wake[g].decided
           /\ wake'[g] = [wake[g] EXCEPT !.decided = TRUE, !.run = "CREATED"]
    BY <1>3 DEF Woken
<1>4. CASE \E u \in Pulser : wake'[g] = [wake[g] EXCEPT !.fence = {u}]
    BY <1>4 DEF Woken
<1>5. CASE wake[g].decided /\ wake'[g] = [wake[g] EXCEPT !.run = "RUNNING"]
    BY <1>5 DEF Woken
<1>6. CASE wake[g].decided /\ wake'[g] = [wake[g] EXCEPT !.run = "ENDED", !.fence = {}]
    BY <1>6 DEF Woken
<1> QED
    BY <1>1, <1>2, <1>3, <1>4, <1>5, <1>6 DEF WorkMoves

\* The same of every signal and every step.
LEMMA WorksAreKept ==
    ASSUME PulseInv, [PulseNext]_pulseVars
    PROVE  /\ wake' \in [Signal -> Woken]
           /\ \A g \in Signal :
                 /\ wake[g].sold => wake'[g].sold
                 /\ wake[g].decided => wake'[g].decided
                 /\ wake'[g].run = "CREATED" => wake[g].run = "CREATED" \/ ~wake[g].decided
           /\ SpentOnWork'
<1>1. wake \in [Signal -> Woken] /\ SpentOnWork
    BY DEF PulseInv, PulseTypeOK, Woken
<1>2. CASE UNCHANGED wake
    BY <1>1, <1>2 DEF SpentOnWork
<1>3. ASSUME NEW h \in Signal, WorkMoves(h), wake' = [wake EXCEPT ![h] = wake'[h]]
      PROVE  /\ wake' \in [Signal -> Woken]
             /\ \A g \in Signal :
                   /\ wake[g].sold => wake'[g].sold
                   /\ wake[g].decided => wake'[g].decided
                   /\ wake'[g].run = "CREATED" => wake[g].run = "CREATED" \/ ~wake[g].decided
             /\ SpentOnWork'
  <2>1. wake[h] \in Woken
    BY <1>1
  <2>2. \A g \in Signal : g # h => wake'[g] = wake[g]
    BY <1>1, <1>3
  <2> QED
    BY <1>1, <1>3, <2>1, <2>2, WorkIsKept DEF SpentOnWork
<1> QED
    BY <1>2, <1>3, WorkGoesOn

\* What a pass may do to what it has in hand.
LEMMA HandsMove ==
    ASSUME PulseInv, [PulseNext]_pulseVars, NEW u \in Pulser
    PROVE  \/ pulser'[u] = pulser[u]
           \/ pulser'[u] = Resting
           \/ \E g \in Signal :
                 \/ /\ pulser'[u] = [at |-> "CREATE", signal |-> g]
                    /\ wake[g].sold
                 \/ \E place \in {"INVOKE", "ACQUIRE", "SAVE", "RUN"} :
                       /\ pulser'[u] = [at |-> place, signal |-> g]
                       /\ wake[g].decided \/ wake'[g].run = "CREATED"
<1> DEFINE Moves(v) ==
      \/ pulser'[v] = pulser[v]
      \/ pulser'[v] = Resting
      \/ \E g \in Signal :
            \/ pulser'[v] = [at |-> "CREATE", signal |-> g] /\ wake[g].sold
            \/ \E place \in {"INVOKE", "ACQUIRE", "SAVE", "RUN"} :
                  /\ pulser'[v] = [at |-> place, signal |-> g]
                  /\ wake[g].decided \/ wake'[g].run = "CREATED"
<1>1. pulser \in [Pulser -> InHand]
    BY DEF PulseInv, PulseTypeOK, InHand
<1>2. ASSUME NEW v \in Pulser, pulser[v].at # "IDLE"
      PROVE  pulser[v].signal \in Signal
    BY <1>1, <1>2 DEF InHand, Resting
<1>3. ASSUME NEW v \in Pulser, Rests(v) PROVE Moves(u)
    BY <1>1, <1>3 DEF Rests
<1>4. ASSUME NEW v \in Pulser, NEW g \in Signal, Beats(v, "CREATE", g), wake[g].sold
      PROVE  Moves(u)
    BY <1>1, <1>4 DEF Beats
<1>5. ASSUME NEW v \in Pulser, NEW g \in Signal,
             NEW place \in {"INVOKE", "ACQUIRE", "SAVE", "RUN"}, Beats(v, place, g),
             wake[g].decided \/ wake'[g].run = "CREATED"
      PROVE  Moves(u)
    BY <1>1, <1>5 DEF Beats
<1>6. ASSUME NEW v \in Pulser, CreateWork(v) PROVE Moves(u)
    BY <1>2, <1>3, <1>5, <1>6 DEF CreateWork
<1>7. ASSUME NEW v \in Pulser, Invoke(v) \/ Acquire(v) \/ SaveRunning(v)
      PROVE  Moves(u)
  <2>1. pulser[v].signal \in Signal /\ wake[pulser[v].signal].decided
    BY <1>2, <1>7 DEF Invoke, Acquire, SaveRunning, PulseInv, HandsAreKnown
  <2> QED
    BY <1>3, <1>5, <1>7, <2>1 DEF Invoke, Acquire, SaveRunning
<1>8. ASSUME NEW v \in Pulser, RunEnds(v) \/ Denied(v) \/ PulserDies(v)
      PROVE  Moves(u)
    BY <1>3, <1>8 DEF RunEnds, Denied, PulserDies
<1>9. ASSUME NEW v \in Pulser, NEW g \in Signal, Resume(v, g) PROVE Moves(u)
    BY <1>5, <1>9 DEF Resume, ResumableSignals
<1>10. ASSUME NEW v \in Pulser, NEW g \in Signal, Evaluate(v, g) PROVE Moves(u)
    BY <1>4, <1>10 DEF Evaluate, UnevaluatedSignals
<1>11. CASE UNCHANGED pulser
    BY <1>11
<1> QED
    BY <1>6, <1>7, <1>8, <1>9, <1>10, <1>11
    DEF PulseNext, PulseSale, PulseRestock, OutcomeMoves, Recovered, Beat, Goes, pulseVars

\* The invariant of the pulse.
THEOREM PulseInvariance == PulseSpec => []PulseInv
<1>1. PulseInit => PulseInv
  <2> SUFFICES ASSUME PulseInit PROVE PulseInv
    OBVIOUS
  <2>1. /\ \A g \in Signal : ~wake[g].decided /\ wake[g].run = "NONE"
        /\ \A u \in Pulser : pulser[u].at = "IDLE"
    BY DEF PulseInit, Resting
  <2>2. PulseTypeOK
    BY DEF PulseInit, PulseTypeOK
  <2> QED
    BY <2>1, <2>2 DEF PulseInv, SpentOnWork, HandsAreKnown
<1>2. PulseInv /\ [PulseNext]_pulseVars => PulseInv'
  <2> SUFFICES ASSUME PulseInv, [PulseNext]_pulseVars PROVE PulseInv'
    OBVIOUS
  <2>1. low' \in BOOLEAN /\ active' \in BOOLEAN
    BY DEF PulseInv, PulseTypeOK, PulseNext, PulseSale, Recovered, PulseRestock,
           OutcomeMoves, Beat, Goes, CreateWork, Invoke, Acquire, SaveRunning, RunEnds,
           Denied, PulserDies, Resume, Evaluate, pulseVars
  <2>2. pulser \in [Pulser -> InHand] /\ wake \in [Signal -> Woken]
    BY DEF PulseInv, PulseTypeOK, InHand, Woken
  <2>3. \A u \in Pulser : pulser'[u] \in InHand
    <3>1. Resting \in InHand
        BY DEF InHand
    <3>2. \A g \in Signal, place \in {"CREATE", "INVOKE", "ACQUIRE", "SAVE", "RUN"} :
              [at |-> place, signal |-> g] \in InHand
        BY DEF InHand
    <3> QED
        BY <2>2, <3>1, <3>2, HandsMove
  <2>4. pulser' = [u \in Pulser |-> pulser'[u]]
    BY <2>2
    DEF PulseNext, PulseSale, Recovered, PulseRestock, OutcomeMoves, Beat, Goes,
        CreateWork, Invoke, Acquire, SaveRunning, RunEnds, Denied, PulserDies, Resume,
        Evaluate, Beats, Rests, pulseVars
  <2>5. PulseTypeOK'
    BY <2>1, <2>3, <2>4, WorksAreKept DEF PulseTypeOK, InHand, Woken
  <2>6. HandsAreKnown'
    <3> SUFFICES ASSUME NEW u \in Pulser
                 PROVE  /\ pulser'[u].at = "CREATE" => wake'[pulser'[u].signal].sold
                        /\ pulser'[u].at \in {"INVOKE", "ACQUIRE", "SAVE", "RUN"}
                              => wake'[pulser'[u].signal].decided
        BY DEF HandsAreKnown
    <3>1. CASE pulser'[u] = pulser[u]
        BY <2>2, <3>1, WorksAreKept DEF InHand, Resting, PulseInv, HandsAreKnown
    <3>2. CASE pulser'[u] = Resting
        BY <3>2 DEF Resting
    <3>3. ASSUME NEW g \in Signal,
                 pulser'[u] = [at |-> "CREATE", signal |-> g], wake[g].sold
          PROVE  wake'[pulser'[u].signal].sold /\ pulser'[u].at = "CREATE"
        BY <3>3, WorksAreKept
    <3>4. ASSUME NEW g \in Signal, NEW place \in {"INVOKE", "ACQUIRE", "SAVE", "RUN"},
                 pulser'[u] = [at |-> place, signal |-> g],
                 wake[g].decided \/ wake'[g].run = "CREATED"
          PROVE  wake'[pulser'[u].signal].decided /\ pulser'[u].at # "CREATE"
        BY <3>4, WorksAreKept DEF SpentOnWork
    <3> QED
        BY <3>1, <3>2, <3>3, <3>4, HandsMove
  <2> QED
    BY <2>5, <2>6, WorksAreKept DEF PulseInv
<1> QED
    BY <1>1, <1>2, PTL DEF PulseSpec

\* The decision to wake for a signal and its work are one: there is never a signal
\* that was spent on nothing, nor two works for one, whatever passes come together
\* and wherever they die (create_pulse_work, one transaction).
THEOREM DecisionsAreWorks == PulseSpec => []SpentOnWork
    BY PulseInvariance, PTL DEF PulseInv

\* A work is CREATED with its decision and at no other moment, and a decision is
\* never taken back.
WorkIsNewOnce ==
    [][\A g \in Signal :
          /\ wake[g].decided => wake'[g].decided
          /\ wake'[g].run = "CREATED" => wake[g].run = "CREATED" \/ ~wake[g].decided
      ]_pulseVars

\* A signal is decided on once, for good, and its work is new once: however often the
\* work is run, by passes that read it while it was new and by those that come after
\* a supervisor ended it, no pass finds it new again (_resumable_signals,
\* run_assignment, recover_abandoned_assignments).
THEOREM BegunWorkIsNotResumed == PulseSpec => WorkIsNewOnce
<1>1. PulseInv /\ [PulseNext]_pulseVars =>
        [\A g \in Signal :
            /\ wake[g].decided => wake'[g].decided
            /\ wake'[g].run = "CREATED" => wake[g].run = "CREATED" \/ ~wake[g].decided
        ]_pulseVars
    BY WorksAreKept
<1> QED
    BY <1>1, PulseInvariance, PTL DEF PulseSpec, WorkIsNewOnce

-----------------------------------------------------------------------------
(* All parts together.                                                     *)

\* A behaviour of Unattended is a behaviour of every part, so what is proved of a
\* part's own specification holds of the one the runs check.
THEOREM PartsAreRun ==
    Spec => AutomationSpec /\ CoordinationSpec /\ StandingSpec /\ PulseSpec
<1>1. Init => AutomationInit /\ CoordinationInit /\ StandingInit /\ PulseInit
    BY DEF Init
<1>2. [Next]_vars => /\ [AutomationNext]_automationVars
                     /\ [CoordinationNext]_coordinationVars
                     /\ [StandingNext]_standingVars
                     /\ [PulseNext]_pulseVars
    BY DEF Next, vars, MoveAutomation, MoveCoordination, MoveStanding, MovePulse
<1> QED
    BY <1>1, <1>2, PTL
    DEF Spec, AutomationSpec, CoordinationSpec, StandingSpec, PulseSpec
=============================================================================
