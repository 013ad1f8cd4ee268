---------------------------- MODULE CircuitContract ----------------------------
(***************************************************************************)
(* What a circuit breaker promises, without tickets, epochs, locks or      *)
(* events.  The circuit knows the callers whose outcomes count: members    *)
(* were admitted since it last closed, probes since it went half-open.     *)
(* Everyone else is either refused or left over from before a transition,  *)
(* and what becomes of those calls changes nothing.                        *)
(*                                                                         *)
(* CircuitBreaker and AsyncCircuitBreaker are shown to implement this.     *)
(***************************************************************************)
EXTENDS Integers

CONSTANTS
    Callers,
    FailureThreshold,
    SuccessThreshold,
    ResetTimeout,
    RateMode        \* in rate mode the contract leaves open which outcome trips

VARIABLES
    phase,      \* CLOSED, OPEN or HALF_OPEN
    members,    \* the callers whose outcomes count while CLOSED
    probes,     \* the callers whose outcomes count while HALF_OPEN
    streak,     \* consecutive failures of members
    proven,     \* consecutive successes of probes
    since,      \* when the circuit last opened
    now

vars == <<phase, members, probes, streak, proven, since, now>>

Init ==
    /\ phase = "CLOSED"
    /\ members = {} /\ probes = {}
    /\ streak = 0 /\ proven = 0
    /\ since = 0 /\ now = 0

Admit(t) ==
    /\ phase = "CLOSED"
    /\ members' = members \cup {t}
    /\ UNCHANGED <<phase, probes, streak, proven, since, now>>

(* One probe at a time, and the first only after the reset timeout.        *)
AdmitProbe(t) ==
    /\ \/ phase = "OPEN" /\ now - since >= ResetTimeout
       \/ phase = "HALF_OPEN"
    /\ probes = {}
    /\ phase' = "HALF_OPEN"
    /\ probes' = {t}
    /\ UNCHANGED <<members, streak, proven, since, now>>

Open ==
    /\ phase' = "OPEN"
    /\ members' = {} /\ probes' = {}
    /\ streak' = 0 /\ proven' = 0
    /\ since' = now
    /\ UNCHANGED now

(* A member's outcome that leaves the circuit CLOSED.                      *)
Settle(t) ==
    /\ t \in members
    /\ members' = members \ {t}
    /\ \/ streak' \in {streak, 0}
       \/ ~RateMode /\ streak + 1 < FailureThreshold /\ streak' = streak + 1
    /\ UNCHANGED <<phase, probes, proven, since, now>>

(* Only the outcome that completes a streak of failures opens the circuit. *)
Trip(t) ==
    /\ t \in members
    /\ RateMode \/ streak + 1 = FailureThreshold
    /\ Open

ProbeSucceeds(t) ==
    /\ t \in probes
    /\ probes' = {}
    /\ UNCHANGED <<members, since, now>>
    /\ \/ /\ proven + 1 < SuccessThreshold
          /\ proven' = proven + 1
          /\ UNCHANGED <<phase, streak>>
       \/ /\ proven + 1 = SuccessThreshold
          /\ proven' = 0 /\ streak' = 0
          /\ phase' = "CLOSED"

ProbeFails(t) == t \in probes /\ Open

(* A foreign outcome frees the probe slot and proves nothing.              *)
ProbeInconclusive(t) ==
    /\ t \in probes
    /\ probes' = {}
    /\ UNCHANGED <<phase, members, streak, proven, since, now>>

Elapse ==
    /\ now' = now + 1
    /\ UNCHANGED <<phase, members, probes, streak, proven, since>>

Next ==
    \/ \E t \in Callers :
         \/ Admit(t) \/ AdmitProbe(t)
         \/ Settle(t) \/ Trip(t)
         \/ ProbeSucceeds(t) \/ ProbeFails(t) \/ ProbeInconclusive(t)
    \/ Elapse

Spec == Init /\ [][Next]_vars

=============================================================================
