-------------------------------- MODULE Pulse --------------------------------
(***************************************************************************)
(* The pulse: pulse.py, which gives a signal's sale a work of its own      *)
(* (create_pulse_work) and then runs that work (run_assignment).  Any      *)
(* number of processes make passes; one may be held up or die anywhere.    *)
(*                                                                         *)
(* Abstractions.  The shelf and the outcome are what the store's wake gate *)
(* asks of them: whether stock is low and whether the outcome is active.   *)
(* They and the works are in Governance.  The actor's lease and an attempt *)
(* may have run out whenever somebody else asks for them, and the attempt  *)
(* a process reads back is the one it acquired: Execution has the clock    *)
(* and the step between.                                                   *)
(***************************************************************************)
CONSTANTS
    Signal,
    Pulser  \* processes of `pulse --once`

VARIABLES
    low,     \* the product is in below_reorder
    active,  \* the outcome is ACTIVE, and the only one of its subject
    wake,    \* signals, pulse_wake_decisions and the assignments they led to
    pulser   \* what each process has in hand

pulseVars == <<low, active, wake, pulser>>

Resting == [at |-> "IDLE"]

PulseInit ==
    /\ low = FALSE /\ active = FALSE
    /\ wake = [g \in Signal |-> [sold |-> FALSE, decided |-> FALSE, run |-> "NONE",
                                 fence |-> {}]]
    /\ pulser = [u \in Pulser |-> Resting]

Beats(u, place, g) == pulser' = [pulser EXCEPT ![u] = [at |-> place, signal |-> g]]
Rests(u) == pulser' = [pulser EXCEPT ![u] = Resting]

-----------------------------------------------------------------------------
(* The shelf and the outcome.                                              *)

PulseSale(g) ==
    /\ ~wake[g].sold
    /\ wake' = [wake EXCEPT ![g].sold = TRUE]
    /\ low' \in {low, TRUE}
    /\ UNCHANGED <<active, pulser>>

PulseRestock ==
    /\ low /\ low' = FALSE
    /\ UNCHANGED <<active, wake, pulser>>

OutcomeMoves ==
    /\ active' = ~active
    /\ UNCHANGED <<low, wake, pulser>>

-----------------------------------------------------------------------------
(* run_pulse_once(): first the works left over, then the new signals.      *)

\* store_wake_gate()
WakeGate == low /\ active

ResumableSignals == {g \in Signal : wake[g].decided /\ wake[g].run = "CREATED"}
UnevaluatedSignals == {g \in Signal : wake[g].sold /\ ~wake[g].decided}

Resume(u, g) ==
    /\ pulser[u].at = "IDLE" /\ g \in ResumableSignals
    /\ Beats(u, "INVOKE", g)
    /\ UNCHANGED <<low, active, wake>>

Evaluate(u, g) ==
    /\ pulser[u].at = "IDLE" /\ g \in UnevaluatedSignals
    /\ WakeGate
    /\ Beats(u, "CREATE", g)
    /\ UNCHANGED <<low, active, wake>>

\* Bug: the decision commits before the work, and a fault comes between.
CreateInTwo(u) ==
    LET g == pulser[u].signal
    IN  /\ pulser[u].at = "CREATE"
        /\ IF WakeGate /\ ~wake[g].decided
           THEN \/ /\ wake' = [wake EXCEPT ![g].decided = TRUE, ![g].run = "CREATED"]
                   /\ Beats(u, "INVOKE", g)
                \/ /\ wake' = [wake EXCEPT ![g].decided = TRUE]
                   /\ Rests(u)
           ELSE /\ UNCHANGED wake
                /\ Rests(u)
        /\ UNCHANGED <<low, active>>

\* create_pulse_work(): the gate is asked again under the write lock.  The key of
\* pulse_wake_decisions admits one decision; who comes second is given the first
\* one's work, and runs it if nobody has yet.
CreateWork(u) ==
    LET g == pulser[u].signal
    IN  /\ pulser[u].at = "CREATE"
        /\ wake' = IF WakeGate /\ ~wake[g].decided
                   THEN [wake EXCEPT ![g].decided = TRUE, ![g].run = "CREATED"]
                   ELSE wake
        /\ IF WakeGate /\ wake'[g].run = "CREATED" THEN Beats(u, "INVOKE", g) ELSE Rests(u)
        /\ UNCHANGED <<low, active>>

\* run_assignment() reads the assignment, and refuses one that was ended.
Invoke(u) ==
    /\ pulser[u].at = "INVOKE"
    /\ IF wake[pulser[u].signal].run \in {"CREATED", "RUNNING"}
       THEN Beats(u, "ACQUIRE", pulser[u].signal)
       ELSE Rests(u)
    /\ UNCHANGED <<low, active, wake>>

\* acquire_execution_attempt() asks for no state of the work.
Acquire(u) ==
    LET g == pulser[u].signal
    IN  /\ pulser[u].at = "ACQUIRE"
        /\ wake' = [wake EXCEPT ![g].fence = {u}]
        /\ Beats(u, "SAVE", g)
        /\ UNCHANGED <<low, active>>

\* The work is saved RUNNING whatever became of it since it was read.
SaveRunning(u) ==
    LET g == pulser[u].signal
    IN  /\ pulser[u].at = "SAVE"
        /\ wake' = [wake EXCEPT ![g].run = "RUNNING"]
        /\ Beats(u, "RUN", g)
        /\ UNCHANGED <<low, active>>

\* The terminal write, refused unless the attempt is still the work's.
RunEnds(u) ==
    LET g == pulser[u].signal
    IN  /\ pulser[u].at = "RUN"
        /\ wake' = IF wake[g].fence = {u}
                   THEN [wake EXCEPT ![g].run = "ENDED", ![g].fence = {}]
                   ELSE wake
        /\ Rests(u)
        /\ UNCHANGED <<low, active>>

\* recover_abandoned_assignments() ends a run whose attempt has run out.
Recovered(g) ==
    /\ wake[g].run = "RUNNING" /\ wake[g].fence # {}
    /\ wake' = [wake EXCEPT ![g].run = "ENDED", ![g].fence = {}]
    /\ UNCHANGED <<low, active, pulser>>

\* Another process is in the middle of a run.
Busy(u) == \E v \in Pulser \ {u} : pulser[v].at \in {"ACQUIRE", "SAVE", "RUN"}

\* The lease or the attempt is somebody else's, who may be dead; the SOW, read after
\* the assignment, is past ASSIGNED; or the workspace is refused.
Denied(u) ==
    /\ pulser[u].at \in {"INVOKE", "ACQUIRE"}
    /\ Rests(u)
    /\ UNCHANGED <<low, active, wake>>

\* A work that is RUNNING then is resumed by no pulse.
PulserDies(u) ==
    /\ pulser[u].at # "IDLE"
    /\ Rests(u)
    /\ UNCHANGED <<low, active, wake>>

-----------------------------------------------------------------------------

Goes(u) == CreateWork(u) \/ Invoke(u) \/ Acquire(u) \/ SaveRunning(u) \/ RunEnds(u)

Beat(u) ==
    \/ Goes(u) \/ Denied(u) \/ PulserDies(u)
    \/ \E g \in Signal : Resume(u, g) \/ Evaluate(u, g)

PulseNext ==
    \/ \E g \in Signal : PulseSale(g) \/ Recovered(g)
    \/ PulseRestock \/ OutcomeMoves
    \/ \E u \in Pulser : Beat(u)

PulseSpec == PulseInit /\ [][PulseNext]_pulseVars

\* Somebody goes on calling the pulse ("left to the next pulse pass",
\* organization.py), whose first business is the works left over, and a pass does
\* not hang.  From some moment on none dies, is denied a work that is not begun but
\* by a run in progress, or takes the lease of one.
ResumeSome == \E u \in Pulser, g \in Signal : Resume(u, g)

Mishap ==
    \E u \in Pulser :
        \/ /\ PulserDies(u) /\ ~Goes(u)
           /\ ~(Denied(u) /\ (Busy(u) \/ wake[pulser[u].signal].run # "CREATED"))
        \/ Invoke(u) /\ Busy(u) /\ pulser'[u].at = "ACQUIRE"

PulseFairness ==
    /\ \A u \in Pulser : WF_pulseVars(Goes(u))
    /\ SF_pulseVars(ResumeSome)
    /\ <>[][~Mishap]_pulseVars

-----------------------------------------------------------------------------
(* Properties.                                                             *)

PulseTypeOK ==
    /\ low \in BOOLEAN /\ active \in BOOLEAN
    /\ wake \in [Signal -> [sold : BOOLEAN, decided : BOOLEAN,
                            run : {"NONE", "CREATED", "RUNNING", "ENDED"},
                            fence : SUBSET Pulser]]
    /\ pulser \in [Pulser -> {Resting} \cup
                             [at : {"CREATE", "INVOKE", "ACQUIRE", "SAVE", "RUN"},
                              signal : Signal]]

\* The decision to wake for a signal is followed by a run of its work, also if the
\* process that decided dies at once, the gate has closed since, or two processes
\* decide together: no signal is spent for nothing.
FiredSignalIsRun ==
    \A g \in Signal : wake[g].decided ~> wake[g].run \in {"RUNNING", "ENDED"}
=============================================================================
