---------------------------- MODULE Coordination ----------------------------
(***************************************************************************)
(* Sessions that move between hosts: coordination.py.  A host registers    *)
(* with a lease, claims a session under an incarnation number, and may     *)
(* complete it only as that incarnation, with both leases live.  A host    *)
(* keeps every SessionClaim it was ever given; it may pause for any time   *)
(* and present an old one.                                                 *)
(*                                                                         *)
(* Time is the event of a lease running out; claiming again renews.        *)
(***************************************************************************)
EXTENDS Integers

CONSTANTS
    Host,
    Session,
    MaxIncarnation, \* bound: incarnations of a session
    None

ASSUME CoordinationAssumption ==
    /\ MaxIncarnation \in Nat
    /\ None \notin Host

VARIABLES
    hosts,      \* host_instances: the leases that are live
    claim,      \* session_claims; incarnation 0 where there is no row
    granted,    \* the SessionClaims that were ever returned
    completion  \* session_completions; incarnation 0 where there is no row

coordinationVars == <<hosts, claim, granted, completion>>

SessionClaim == [session : Session, host : Host, incarnation : 1..MaxIncarnation]
NoCompletion == [host |-> None, incarnation |-> 0]

CoordinationInit ==
    /\ hosts = {}
    /\ claim = [s \in Session |-> [host |-> None, incarnation |-> 0, live |-> FALSE]]
    /\ granted = {}
    /\ completion = [s \in Session |-> NoCompletion]

\* register_host(): also renews, and revives a host that was gone.
Register(h) ==
    /\ hosts' = hosts \cup {h}
    /\ UNCHANGED <<claim, granted, completion>>

HostLeaseRunsOut(h) ==
    /\ h \in hosts
    /\ hosts' = hosts \ {h}
    /\ UNCHANGED <<claim, granted, completion>>

ClaimRunsOut(s) ==
    /\ claim[s].live
    /\ claim' = [claim EXCEPT ![s].live = FALSE]
    /\ UNCHANGED <<hosts, granted, completion>>

\* A claim that is renewed while it is live keeps its number.
Incarnation(h, s) ==
    IF claim[s].host = h /\ claim[s].live THEN claim[s].incarnation
    ELSE claim[s].incarnation + 1

\* claim_session(): refused while another host's claim is live.
ClaimSession(h, s) ==
    /\ h \in hosts
    /\ ~(claim[s].live /\ claim[s].host # h)
    /\ Incarnation(h, s) <= MaxIncarnation
    /\ claim' = [claim EXCEPT ![s] = [host |-> h, incarnation |-> Incarnation(h, s),
                                      live |-> TRUE]]
    /\ granted' = granted \cup {[session |-> s, host |-> h,
                                 incarnation |-> Incarnation(h, s)]}
    /\ UNCHANGED <<hosts, completion>>

\* Bug: the claim may have been anybody's incarnation.
FinishAsHost(c) ==
    LET s == c.session
    IN  /\ claim[s].host = c.host /\ claim[s].live /\ c.host \in hosts
        /\ completion[s] = NoCompletion
        /\ completion' = [completion EXCEPT ![s] = [host |-> c.host,
                                                    incarnation |-> c.incarnation]]
        /\ UNCHANGED <<hosts, claim, granted>>

\* finish_session(): the key of session_completions admits one, ever.
FinishSession(c) ==
    LET s == c.session
    IN  /\ claim[s] = [host |-> c.host, incarnation |-> c.incarnation, live |-> TRUE]
        /\ c.host \in hosts
        /\ completion[s] = NoCompletion
        /\ completion' = [completion EXCEPT ![s] = [host |-> c.host,
                                                    incarnation |-> c.incarnation]]
        /\ UNCHANGED <<hosts, claim, granted>>

CoordinationNext ==
    \/ \E h \in Host : Register(h) \/ HostLeaseRunsOut(h)
    \/ \E s \in Session : ClaimRunsOut(s) \/ \E h \in Host : ClaimSession(h, s)
    \/ \E c \in granted : FinishSession(c)

CoordinationSpec == CoordinationInit /\ [][CoordinationNext]_coordinationVars

-----------------------------------------------------------------------------
(* Properties.                                                             *)

CoordinationTypeOK ==
    /\ hosts \subseteq Host
    /\ claim \in [Session -> [host : Host \cup {None}, incarnation : 0..MaxIncarnation,
                              live : BOOLEAN]]
    /\ granted \subseteq SessionClaim
    /\ completion \in [Session -> [host : Host \cup {None},
                                   incarnation : 0..MaxIncarnation]]

\* An incarnation names one host: no two hosts ever hold claims of one session
\* under one number, so a late completion can be told from the current one.
IncarnationNamesItsHost ==
    \A c, d \in granted :
        (c.session = d.session /\ c.incarnation = d.incarnation) => c.host = d.host

\* A session is completed by the newest incarnation that was handed out: a host
\* that lost the session, even if it holds it again, cannot complete it with
\* what it did before.
NewestCompletes ==
    [][\A s \in Session : completion'[s] # completion[s] =>
          \A c \in granted : c.session = s =>
              c.incarnation <= completion'[s].incarnation]_completion
=============================================================================
