----------------------------- MODULE Unattended -----------------------------
(***************************************************************************)
(* What runs without anybody watching: an automation, sessions that move   *)
(* between hosts, standing requests, the pulse.  They share no table and   *)
(* no process, so what one does is a step of that one alone, and a         *)
(* behaviour of all together is one of each.  Here one of them moves and   *)
(* the others stay where they begin.                                       *)
(***************************************************************************)
EXTENDS Automation, Coordination, Standing, Pulse

VARIABLE moving

vars == <<moving, automationVars, coordinationVars, standingVars, pulseVars>>

Init ==
    /\ moving \in {"AUTOMATION", "COORDINATION", "STANDING", "PULSE"}
    /\ AutomationInit /\ CoordinationInit /\ StandingInit /\ PulseInit

MoveAutomation ==
    /\ moving = "AUTOMATION"
    /\ AutomationNext
    /\ UNCHANGED <<moving, coordinationVars, standingVars, pulseVars>>

MoveCoordination ==
    /\ moving = "COORDINATION"
    /\ CoordinationNext
    /\ UNCHANGED <<moving, automationVars, standingVars, pulseVars>>

MoveStanding ==
    /\ moving = "STANDING"
    /\ StandingNext
    /\ UNCHANGED <<moving, automationVars, coordinationVars, pulseVars>>

MovePulse ==
    /\ moving = "PULSE"
    /\ PulseNext
    /\ UNCHANGED <<moving, automationVars, coordinationVars, standingVars>>

Next == MoveAutomation \/ MoveCoordination \/ MoveStanding \/ MovePulse

Spec == Init /\ [][Next]_vars

\* StandingFairness for what moves in this way, PulseFairness for what moves in
\* that: a strong fairness of each in one formula, which TLC checks faster.
Either(A, B) ==
    \/ moving = "STANDING" /\ A /\ UNCHANGED pulseVars
    \/ moving = "PULSE" /\ B /\ UNCHANGED standingVars

FairSpec ==
    /\ Spec
    /\ WF_<<standingVars, pulseVars>>(Either(Finish, FALSE))
    /\ \A u \in Pulser : WF_<<standingVars, pulseVars>>(Either(FALSE, Goes(u)))
    /\ SF_<<standingVars, pulseVars>>(Either(TickWithRoom, ResumeSome))
    /\ SF_<<standingVars, pulseVars>>(Either(ScanWithRoom, FALSE))
    /\ <>[][~Mishap]_pulseVars
=============================================================================
