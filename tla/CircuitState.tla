----------------------------- MODULE CircuitState -----------------------------
(***************************************************************************)
(* The circuit-breaker state machine shared by the sync and async          *)
(* breakers: class _CircuitBreakerState of                                 *)
(* middleware/resilience/circuit_breaker.py.                               *)
(*                                                                         *)
(* The class does no I/O and takes no lock.  Its attributes are variables, *)
(* its methods the actions that the two breakers are built from; which of  *)
(* them run atomically, and what happens in between, is the business of    *)
(* CircuitBreaker (threads) and AsyncCircuitBreaker (tasks).               *)
(*                                                                         *)
(* A method queues its events in _events and hands them to its caller in   *)
(* the same step, so the queue is empty between steps: it is not a         *)
(* variable, and what a method hands over is the ...Events operator beside *)
(* it.                                                                     *)
(***************************************************************************)
EXTENDS Integers, Sequences

CONSTANTS
    FailureThreshold,   \* failure_threshold
    SuccessThreshold,   \* success_threshold
    ResetTimeout,       \* reset_timeout, in clock ticks
    EmitInterval,       \* _REJECTED_EVENT_INTERVAL, in clock ticks
    RateMode,           \* is failure_rate_threshold given?
    RateNum, RateDen,   \* failure_rate_threshold = RateNum / RateDen
    MinimumCalls,       \* minimum_calls
    BucketCount, BucketWidth    \* the rolling window's

(* What __init__ requires.                                                 *)
ASSUME CircuitAssumption ==
    /\ FailureThreshold \in Nat \ {0}
    /\ SuccessThreshold \in Nat \ {0}
    /\ ResetTimeout \in Nat
    /\ EmitInterval \in Nat \ {0}
    /\ RateMode \in BOOLEAN
    /\ RateNum \in Nat \ {0} /\ RateDen \in Nat \ {0} /\ RateNum <= RateDen
    /\ MinimumCalls \in Nat \ {0}
    /\ BucketCount \in Nat \ {0} /\ BucketWidth \in Nat \ {0}

VARIABLES
    state,
    consecutive_failures,
    consecutive_successes,
    opened_at,
    probe_in_flight,
    epoch,
    closed_ticket,
    rejected_emitted_at,
    rejections_suppressed,
    episode_rejections,
    window,             \* the _RollingWindow of rate mode
    now                 \* the clock, time.monotonic()

machine == <<state, epoch, closed_ticket>>
counters == <<consecutive_failures, consecutive_successes>>
rejections == <<rejected_emitted_at, rejections_suppressed, episode_rejections>>
circuit == <<machine, counters, opened_at, probe_in_flight, rejections, window>>

W == INSTANCE RollingWindow

States == {"CLOSED", "OPEN", "HALF_OPEN"}

Outcomes == {"success", "failure", "foreign"}

Probe == 1          \* _PROBE
EpochStep == 2      \* _EPOCH_STEP
NoTicket == -1      \* the None of closed_ticket; no epoch is negative

(* The -inf of _rejected_emitted_at: an interval before any clock reading. *)
LongAgo == -EmitInterval

(* An event is its name and the number its attributes carry: failures for  *)
(* opened (0 in rate mode), suppressed for rejected, rejected for closed.  *)
EventNames == {"opened", "half_open", "closed", "rejected"}

Events == [name : EventNames, number : Nat]

Event(name, number) == <<[name |-> name, number |-> number]>>

MachineType ==
    /\ state \in States
    /\ epoch \in Nat
    /\ closed_ticket \in Nat \cup {NoTicket}

(* The counters never stand at their thresholds: reaching one is a move.   *)
CounterType ==
    /\ consecutive_failures \in 0 .. FailureThreshold - 1
    /\ consecutive_successes \in 0 .. SuccessThreshold - 1

RejectionType ==
    /\ rejected_emitted_at \in Int
    /\ rejections_suppressed \in Nat
    /\ episode_rejections \in Nat

CircuitType ==
    /\ MachineType
    /\ CounterType
    /\ RejectionType
    /\ opened_at \in Nat
    /\ probe_in_flight \in BOOLEAN
    /\ now \in Nat

CircuitInit ==
    /\ state = "CLOSED"
    /\ consecutive_failures = 0
    /\ consecutive_successes = 0
    /\ opened_at = 0
    /\ probe_in_flight = FALSE
    /\ epoch = 0
    /\ closed_ticket = 0
    /\ rejected_emitted_at = LongAgo
    /\ rejections_suppressed = 0
    /\ episode_rejections = 0
    /\ window = W!NewWindow
    /\ now = 0

(* Faulty variant: tickets of before the transition stay good.             *)
MoveTo_KeepsEpoch(s) ==
    /\ state' = s
    /\ epoch' = epoch
    /\ closed_ticket' = IF s = "CLOSED" THEN epoch' ELSE NoTicket

MoveTo(s) ==
    /\ state' = s
    /\ epoch' = epoch + EpochStep
    /\ closed_ticket' = IF s = "CLOSED" THEN epoch' ELSE NoTicket

-----------------------------------------------------------------------------
(* admit(), for a request that did not find a closed_ticket.  It raises    *)
(* _RejectionError, raises _HalfOpened or returns a ticket.                *)

Due == now - opened_at >= ResetTimeout

Refuses ==
    /\ closed_ticket = NoTicket
    /\ \/ state = "OPEN" /\ ~Due
       \/ state = "HALF_OPEN" /\ probe_in_flight

Suppressed == now - rejected_emitted_at < EmitInterval

Reject ==
    /\ episode_rejections' = episode_rejections + 1
    /\ IF Suppressed
       THEN /\ rejections_suppressed' = rejections_suppressed + 1
            /\ UNCHANGED rejected_emitted_at
       ELSE /\ rejected_emitted_at' = now
            /\ rejections_suppressed' = 0
    /\ UNCHANGED <<machine, counters, opened_at, probe_in_flight, window>>

RejectEvents ==
    IF Suppressed THEN <<>> ELSE Event("rejected", rejections_suppressed)

TurnsHalfOpen == closed_ticket = NoTicket /\ state = "OPEN" /\ Due

HalfOpen ==
    /\ MoveTo("HALF_OPEN")
    /\ probe_in_flight' = TRUE
    /\ UNCHANGED <<counters, opened_at, rejections, window>>

(* Faulty variant: the turn to half-open is not reported.                  *)
HalfOpenEvents_Silent == <<>>

HalfOpenEvents == Event("half_open", 0)

(* Faulty variant: a later probe does not take the slot.                   *)
Admit_LeavesSlotFree ==
    UNCHANGED <<machine, counters, opened_at, probe_in_flight, rejections, window>>

(* A ticket without a transition: the closed one, because the circuit has  *)
(* closed since the caller looked, or the next probe's.                    *)
Admit ==
    /\ probe_in_flight' = IF closed_ticket # NoTicket THEN probe_in_flight ELSE TRUE
    /\ UNCHANGED <<machine, counters, opened_at, rejections, window>>

Ticket == IF closed_ticket # NoTicket THEN closed_ticket ELSE epoch + Probe

-----------------------------------------------------------------------------
(* record(), for a request that was admitted with a ticket.                *)

(* Faulty variant: every opening is taken for a new outage.                *)
EnterOpen_NewOutage ==
    /\ rejected_emitted_at' = LongAgo
    /\ rejections_suppressed' = 0
    /\ episode_rejections' = 0
    /\ MoveTo("OPEN")
    /\ opened_at' = now
    /\ consecutive_failures' = 0
    /\ consecutive_successes' = 0

(* An outage lasts from CLOSED -> OPEN until the circuit closes again: a   *)
(* re-opening keeps the rejection counters of the outage it belongs to.    *)
EnterOpen ==
    /\ IF state = "CLOSED"
       THEN /\ rejected_emitted_at' = LongAgo
            /\ rejections_suppressed' = 0
            /\ episode_rejections' = 0
       ELSE UNCHANGED rejections
    /\ MoveTo("OPEN")
    /\ opened_at' = now
    /\ consecutive_failures' = 0
    /\ consecutive_successes' = 0

(* Faulty variant: the window still holds the outcomes of before the outage. *)
Close_KeepsWindow ==
    /\ MoveTo("CLOSED")
    /\ consecutive_failures' = 0
    /\ consecutive_successes' = 0
    /\ UNCHANGED <<opened_at, rejections, window>>

Close ==
    /\ MoveTo("CLOSED")
    /\ consecutive_failures' = 0
    /\ consecutive_successes' = 0
    /\ window' = IF RateMode THEN W!Clear(window) ELSE window
    /\ UNCHANGED <<opened_at, rejections>>

(* With this outcome recorded, the window holds minimum_calls and the      *)
(* failures reach the threshold.                                           *)
RateReached(failed) ==
    LET read == W!Totals(W!Record(window, now, failed), now)
    IN /\ read.total >= MinimumCalls
       /\ read.failures * RateDen >= RateNum * read.total

(* Faulty variant: the circuit opens one failure late.                     *)
Trips_OffByOne(outcome) ==
    IF RateMode
    THEN RateReached(outcome = "failure")
    ELSE outcome = "failure" /\ consecutive_failures >= FailureThreshold

Trips(outcome) ==
    IF RateMode
    THEN RateReached(outcome = "failure")
    ELSE outcome = "failure" /\ consecutive_failures + 1 >= FailureThreshold

(* Faulty variant: a success does not break the streak of failures.        *)
RecordClosed_KeepsStreak(outcome) ==
    /\ window' = IF RateMode THEN W!Record(window, now, outcome = "failure")
                             ELSE window
    /\ IF Trips(outcome)
       THEN EnterOpen
       ELSE /\ consecutive_failures' = IF ~RateMode /\ outcome = "failure"
                                       THEN consecutive_failures + 1
                                       ELSE consecutive_failures
            /\ UNCHANGED <<machine, consecutive_successes, opened_at, rejections>>
    /\ UNCHANGED probe_in_flight

RecordClosed(outcome) ==
    /\ window' = IF RateMode THEN W!Record(window, now, outcome = "failure")
                             ELSE window
    /\ IF Trips(outcome)
       THEN EnterOpen
       ELSE /\ consecutive_failures' =
                 CASE RateMode -> consecutive_failures
                   [] ~RateMode /\ outcome = "failure" -> consecutive_failures + 1
                   [] ~RateMode /\ outcome = "success" -> 0
            /\ UNCHANGED <<machine, consecutive_successes, opened_at, rejections>>
    /\ UNCHANGED probe_in_flight

(* Faulty variant: the circuit closes one success late.                    *)
LastSuccessNeeded_OffByOne == consecutive_successes >= SuccessThreshold

LastSuccessNeeded == consecutive_successes + 1 >= SuccessThreshold

RecordProbeSuccess ==
    IF LastSuccessNeeded
    THEN Close
    ELSE /\ consecutive_successes' = consecutive_successes + 1
         /\ UNCHANGED <<machine, consecutive_failures, opened_at, rejections, window>>

(* Faulty variant: a foreign outcome (a cancelled probe) keeps the slot.   *)
RecordProbe_KeepsSlot(outcome) ==
    /\ probe_in_flight' = (outcome = "foreign")
    /\ \/ outcome = "success" /\ RecordProbeSuccess
       \/ outcome = "failure" /\ EnterOpen /\ UNCHANGED window
       \/ /\ outcome = "foreign"
          /\ UNCHANGED <<machine, counters, opened_at, rejections, window>>

RecordProbe(outcome) ==
    /\ probe_in_flight' = FALSE
    /\ \/ outcome = "success" /\ RecordProbeSuccess
       \/ outcome = "failure" /\ EnterOpen /\ UNCHANGED window
       \/ /\ outcome = "foreign"
          /\ UNCHANGED <<machine, counters, opened_at, rejections, window>>

(* Faulty variant: an outcome counts whenever it arrives.                  *)
CountsClosed_AnyEpoch(ticket, outcome) ==
    ticket # epoch + Probe /\ outcome # "foreign"

(* A foreign outcome says nothing about the upstream.  A ticket of neither *)
(* kind is from before a transition: its outcome is dropped.               *)
CountsClosed(ticket, outcome) == ticket = epoch /\ outcome # "foreign"

CountsProbe(ticket) == ticket = epoch + Probe

Record(ticket, outcome) ==
    \/ CountsClosed(ticket, outcome) /\ RecordClosed(outcome)
    \/ CountsProbe(ticket) /\ RecordProbe(outcome)
    \/ ~CountsClosed(ticket, outcome) /\ ~CountsProbe(ticket) /\ UNCHANGED circuit

(* Faulty variant: only the opening of an outage is reported.              *)
RecordEvents_NoReopening(ticket, outcome) ==
    CASE CountsClosed(ticket, outcome) /\ Trips(outcome) ->
           Event("opened", IF RateMode THEN 0 ELSE consecutive_failures + 1)
      [] CountsProbe(ticket) /\ outcome = "success" /\ LastSuccessNeeded ->
           Event("closed", episode_rejections)
      [] OTHER -> <<>>

RecordEvents(ticket, outcome) ==
    CASE CountsClosed(ticket, outcome) /\ Trips(outcome) ->
           Event("opened", IF RateMode THEN 0 ELSE consecutive_failures + 1)
      [] CountsProbe(ticket) /\ outcome = "failure" ->
           Event("opened", 1)
      [] CountsProbe(ticket) /\ outcome = "success" /\ LastSuccessNeeded ->
           Event("closed", episode_rejections)
      [] OTHER -> <<>>

=============================================================================
