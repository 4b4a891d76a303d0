----------------------------- MODULE Automation -----------------------------
(***************************************************************************)
(* One automation, as automation.run_due runs it from any number of        *)
(* processes: read the row, ask the condition outside any lock, and then   *)
(* either advance the due slot or insert a run for it, call the payload,   *)
(* and record the outcome.                                                 *)
(*                                                                         *)
(* The condition is a watch on something that changes: it compares the     *)
(* version it sees with the one it stored, fires when they differ, and     *)
(* returns the version it saw as its next state.                           *)
(*                                                                         *)
(* Abstractions.  Slots are numbered; a slot is due whenever a process     *)
(* finds it so.  A process that dies leaves its run RUNNING.               *)
(***************************************************************************)
EXTENDS Integers

CONSTANTS
    Process,     \* processes that call run_due for this automation
    MaxSlot,     \* bound: due slots
    MaxVersion,  \* bound: changes of what is watched
    MaxFailures  \* max_failures

Slot == 1..MaxSlot
Version == 0..MaxVersion

ASSUME AutomationAssumption ==
    /\ MaxSlot \in Nat /\ MaxVersion \in Nat
    /\ MaxFailures \in Nat \ {0}

VARIABLES
    automation, \* its row in automations
    run,        \* automation_runs.status, by due slot
    caller,     \* what each process holds in memory
    version,    \* the watched thing
    fired,      \* fired[s], how often the payload was called for slot s
    reported    \* versions a payload has succeeded with

automationVars == <<automation, run, caller, version, fired, reported>>

Idle == [at |-> "IDLE", slot |-> 0, old |-> 0, new |-> 0]

AutomationInit ==
    /\ automation = [due |-> 1, state |-> 0, enabled |-> TRUE, failures |-> 0]
    /\ run = [s \in Slot |-> "NONE"]
    /\ caller = [p \in Process |-> Idle]
    /\ version = 0
    /\ fired = [s \in Slot |-> 0]
    /\ reported = {0}

At(p, place) == caller[p].at = place
Goto(p, c) == caller' = [caller EXCEPT ![p] = c]

Change ==
    /\ version < MaxVersion
    /\ version' = version + 1
    /\ UNCHANGED <<automation, run, caller, fired, reported>>

\* The unlocked read, and the condition's verdict on it.
Read(p) ==
    /\ At(p, "IDLE")
    /\ automation.enabled /\ automation.due \in Slot
    /\ Goto(p, [at |-> "DECIDED", slot |-> automation.due,
                old |-> automation.state, new |-> version])
    /\ UNCHANGED <<automation, run, version, fired, reported>>

Fires(p) == caller[p].new # caller[p].old

Advanced(row, s) == [row EXCEPT !.due = IF @ = s THEN s + 1 ELSE @]

\* Nothing to do: NO_FIRE, or RACED when the slot has been passed already.
NoFire(p) ==
    /\ At(p, "DECIDED") /\ ~Fires(p)
    /\ automation' = IF automation.due = caller[p].slot
                     THEN [Advanced(automation, caller[p].slot) EXCEPT
                              !.state = caller[p].new]
                     ELSE automation
    /\ Goto(p, Idle)
    /\ UNCHANGED <<run, version, fired, reported>>

\* Bug: the condition's new state is stored with the slot, before the payload.
FireAcknowledging(p) ==
    LET s == caller[p].slot
    IN  /\ At(p, "DECIDED") /\ Fires(p)
        /\ IF run[s] = "NONE"
           THEN /\ run' = [run EXCEPT ![s] = "RUNNING"]
                /\ automation' = [Advanced(automation, s) EXCEPT !.state = caller[p].new]
                /\ Goto(p, [caller[p] EXCEPT !.at = "PAYLOAD"])
           ELSE /\ UNCHANGED <<run, automation>>
                /\ Goto(p, Idle)
        /\ UNCHANGED <<version, fired, reported>>

\* Bug: the run table does not refuse a second run of a slot.
FireRegardless(p) ==
    LET s == caller[p].slot
    IN  /\ At(p, "DECIDED") /\ Fires(p)
        /\ run' = [run EXCEPT ![s] = "RUNNING"]
        /\ automation' = Advanced(automation, s)
        /\ Goto(p, [caller[p] EXCEPT !.at = "PAYLOAD"])
        /\ UNCHANGED <<version, fired, reported>>

\* Run row and due slot in one transaction; REPLAYED when the slot has a run,
\* while a slot that another process passed over may still be given one.
Fire(p) ==
    LET s == caller[p].slot
    IN  /\ At(p, "DECIDED") /\ Fires(p)
        /\ IF run[s] = "NONE"
           THEN /\ run' = [run EXCEPT ![s] = "RUNNING"]
                /\ automation' = Advanced(automation, s)
                /\ Goto(p, [caller[p] EXCEPT !.at = "PAYLOAD"])
           ELSE /\ UNCHANGED <<run, automation>>
                /\ Goto(p, Idle)
        /\ UNCHANGED <<version, fired, reported>>

Payload(p) ==
    \E succeeds \in BOOLEAN :
        /\ At(p, "PAYLOAD")
        /\ fired' = [fired EXCEPT ![caller[p].slot] = @ + 1]
        /\ reported' = IF succeeds THEN reported \cup {caller[p].new} ELSE reported
        /\ Goto(p, [caller[p] EXCEPT !.at = IF succeeds THEN "SUCCEEDED" ELSE "FAILED"])
        /\ UNCHANGED <<automation, run, version>>

\* Failure counts, and disables at the limit; the state stays what it was.
Fail(p) ==
    /\ At(p, "FAILED")
    /\ run' = [run EXCEPT ![caller[p].slot] = "FAILED"]
    /\ automation' = [automation EXCEPT
                        !.failures = @ + 1,
                        !.enabled = @ /\ automation.failures + 1 < MaxFailures]
    /\ Goto(p, Idle)
    /\ UNCHANGED <<version, fired, reported>>

\* Success stores the state the condition returned, whatever is there by now.
Succeed(p) ==
    /\ At(p, "SUCCEEDED")
    /\ run' = [run EXCEPT ![caller[p].slot] = "SUCCEEDED"]
    /\ automation' = [automation EXCEPT !.state = caller[p].new, !.failures = 0]
    /\ Goto(p, Idle)
    /\ UNCHANGED <<version, fired, reported>>

Crash(p) ==
    /\ ~At(p, "IDLE")
    /\ Goto(p, Idle)
    /\ UNCHANGED <<automation, run, version, fired, reported>>

AutomationNext ==
    \/ Change
    \/ \E p \in Process : \/ Read(p) \/ NoFire(p) \/ Fire(p) \/ Payload(p)
                          \/ Fail(p) \/ Succeed(p) \/ Crash(p)

AutomationSpec == AutomationInit /\ [][AutomationNext]_automationVars

-----------------------------------------------------------------------------
(* Properties.                                                             *)

AutomationTypeOK ==
    /\ automation \in [due : 1..(MaxSlot + 1), state : Version, enabled : BOOLEAN,
                       failures : Nat]
    /\ run \in [Slot -> {"NONE", "RUNNING", "FAILED", "SUCCEEDED"}]
    /\ caller \in [Process -> [at : {"IDLE", "DECIDED", "PAYLOAD", "SUCCEEDED", "FAILED"},
                               slot : 0..MaxSlot, old : Version, new : Version]]
    /\ version \in Version
    /\ fired \in [Slot -> Nat]
    /\ reported \subseteq Version

\* However many processes find a slot due, however late they act on what they
\* read, its payload is called at most once.
SlotFiresOnce == \A s \in Slot : fired[s] <= 1

\* The stored state says that a version has been dealt with only if a payload
\* succeeded with it: a failed or interrupted run leaves the change to be found
\* again at the next slot.
StateIsReported == automation.state \in reported
=============================================================================
