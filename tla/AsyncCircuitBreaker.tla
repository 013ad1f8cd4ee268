-------------------------- MODULE AsyncCircuitBreaker --------------------------
(***************************************************************************)
(* AsyncCircuitBreaker of middleware/resilience/circuit_breaker.py, called *)
(* by tasks of one event loop.                                             *)
(*                                                                         *)
(* _call_async has a single await, on the rest of the chain: what comes    *)
(* before it and what comes after it each run without another task in      *)
(* between, events and all.  Cancellation arrives at the await, as an      *)
(* exception that is foreign to the breaker.                               *)
(*                                                                         *)
(* log is a history variable: what callers and log readers observe, in     *)
(* order.  The properties are about it and not about the circuit's fields. *)
(***************************************************************************)
EXTENDS CircuitState, FiniteSets, SequencesExt

CONSTANTS
    Tasks,
    MaxCalls,       \* bound: calls made through the breaker
    Horizon         \* bound: ticks the clock runs on after an opening

ASSUME TaskAssumption == MaxCalls \in Nat /\ Horizon \in Nat

VARIABLES
    ticket,     \* the ticket each task holds in its call, or NoTicket
    calls,      \* calls so far
    log,        \* history: events, refusals and outcomes, oldest first
    entered     \* history: the last transition in log when each task's call began

vars == <<circuit, now, ticket, calls, log, entered>>

(* An entry of the log.  began is the transition the call came after.      *)
Entry(what, number, began) ==
    [what |-> what, number |-> number, at |-> now, began |-> began]

Lifecycle == {"opened", "half_open", "closed"}

(* The last lifecycle event in the first n entries of a log, 0 if none.    *)
LastTransition(entries, n) ==
    SelectLastInSubSeq(entries, 1, n, LAMBDA e : e.what \in Lifecycle)

(* _emit_events                                                            *)
Emitted(events) == [i \in DOMAIN events |-> Entry(events[i].name, events[i].number, 0)]

Init ==
    /\ CircuitInit
    /\ ticket = [t \in Tasks |-> NoTicket]
    /\ calls = 0
    /\ log = <<>>
    /\ entered = [t \in Tasks |-> 0]

Begin(t) ==
    /\ ticket[t] = NoTicket
    /\ calls < MaxCalls
    /\ calls' = calls + 1
    /\ UNCHANGED now

(* _admit raises _RejectionError, the caller gets CircuitOpenError.        *)
Refuse(t) ==
    /\ Begin(t)
    /\ Refuses
    /\ Reject
    /\ log' = Append(log \o Emitted(RejectEvents), Entry("refused", 0, 0))
    /\ UNCHANGED <<ticket, entered>>

(* _admit raises _HalfOpened: the event is emitted, then the call made.  A *)
(* handler that raises out of the event leaks the slot here as it does in  *)
(* the sync breaker, where AnnounceRaises models it.                       *)
TurnHalfOpen(t) ==
    /\ Begin(t)
    /\ TurnsHalfOpen
    /\ HalfOpen
    /\ ticket' = [ticket EXCEPT ![t] = epoch' + Probe]
    /\ log' = log \o Emitted(HalfOpenEvents)
    /\ entered' = [entered EXCEPT ![t] = LastTransition(log', Len(log'))]

(* The closed ticket, or the probe slot.                                   *)
Enter(t) ==
    /\ Begin(t)
    /\ ~Refuses /\ ~TurnsHalfOpen
    /\ Admit
    /\ ticket' = [ticket EXCEPT ![t] = Ticket]
    /\ entered' = [entered EXCEPT ![t] = LastTransition(log, Len(log))]
    /\ UNCHANGED log

(* The await ends: with a response, an exception or a cancellation.        *)
Return(t, outcome) ==
    /\ ticket[t] # NoTicket
    /\ Record(ticket[t], outcome)
    /\ log' = Append(log, Entry(outcome, 0, entered[t]))
                 \o Emitted(RecordEvents(ticket[t], outcome))
    /\ ticket' = [ticket EXCEPT ![t] = NoTicket]
    /\ entered' = [entered EXCEPT ![t] = 0]
    /\ UNCHANGED <<now, calls>>

Tick ==
    /\ RateMode \/ state # "CLOSED"
    /\ now < opened_at + Horizon
    /\ now' = now + 1
    /\ UNCHANGED <<circuit, ticket, calls, log, entered>>

(* All calls made and returned: where the bound ends the run.              *)
Finished ==
    /\ calls = MaxCalls /\ \A t \in Tasks : ticket[t] = NoTicket
    /\ UNCHANGED vars

Next ==
    \/ \E t \in Tasks :
         \/ Refuse(t) \/ TurnHalfOpen(t) \/ Enter(t)
         \/ \E outcome \in Outcomes : Return(t, outcome)
    \/ Tick
    \/ Finished

Spec == Init /\ [][Next]_vars

-----------------------------------------------------------------------------
(* The circuit, its window, the tickets and where calls began in the log.  *)
TypeOK ==
    /\ CircuitType
    /\ RateMode => window \in W!Windows
    /\ ticket \in [Tasks -> Nat \cup {NoTicket}]
    /\ calls \in 0 .. MaxCalls
    /\ entered \in [Tasks -> 0 .. Len(log)]

Positions == DOMAIN log

(* What the log says of the circuit after its first n entries.             *)
Shown(n) ==
    LET last == LastTransition(log, n)
    IN IF last = 0 \/ log[last].what = "closed" THEN "CLOSED"
       ELSE IF log[last].what = "opened" THEN "OPEN" ELSE "HALF_OPEN"

(* Where the outage that the first n entries end in began: the opening     *)
(* after the last closing (0 if the log ends CLOSED).                      *)
OutageStart(n) ==
    LET last == SelectLastInSubSeq(log, 1, n, LAMBDA e : e.what = "closed")
        first == SelectInSubSeq(log, last + 1, n, LAMBDA e : e.what = "opened")
    IN first

(* Reading only the lifecycle events, an operator always knows the state:  *)
(* each follows the one before it and the last is the state of the circuit. *)
LifecycleInOrder ==
    /\ Shown(Len(log)) = state
    /\ \A i \in Positions :
         CASE log[i].what = "half_open" -> Shown(i - 1) = "OPEN"
           [] log[i].what = "closed" -> Shown(i - 1) = "HALF_OPEN"
           [] log[i].what = "opened" -> Shown(i - 1) # "OPEN"
           [] OTHER -> TRUE

(* An outcome is evidence about a CLOSED circuit if its call began after   *)
(* the circuit last closed and it came in before the circuit next moved.   *)
Evidence(i) ==
    /\ log[i].what \in {"success", "failure"}
    /\ Shown(i) = "CLOSED"
    /\ LastTransition(log, i) = log[i].began

(* The evidence since the circuit closed, as of entry n.                   *)
EvidenceUpTo(n) == {i \in 1 .. n : i > LastTransition(log, n) /\ Evidence(i)}

(* The failures at its end.                                                *)
StreakUpTo(n) ==
    {i \in EvidenceUpTo(n) : \A k \in EvidenceUpTo(n) : k >= i => log[k].what = "failure"}

OpensAt(i) == i \in Positions /\ log[i].what = "opened"

(* Classic mode: after an outcome the circuit opens exactly when the last  *)
(* FailureThreshold pieces of evidence since it closed are failures.  Late *)
(* answers from before an outage, cancellations and refusals neither add   *)
(* to the streak nor break it.                                             *)
TripsOnStreak ==
    ~RateMode => \A i \in Positions : Shown(i) = "CLOSED" =>
        (OpensAt(i + 1) <=>
            Evidence(i) /\ Cardinality(StreakUpTo(i)) >= FailureThreshold)

(* The evidence of the slots that are still in the window.                 *)
LiveUpTo(n) ==
    {i \in EvidenceUpTo(n) : W!Slot(log[i].at) > W!Slot(log[n].at) - BucketCount}

(* Rate mode: exactly when, among the evidence of the slots still in the   *)
(* window, there are MinimumCalls outcomes and the failures reach the      *)
(* threshold.  The outcome that trips it may be a success.                 *)
TripsOnRate ==
    RateMode => \A i \in Positions : Shown(i) = "CLOSED" =>
        LET live == Cardinality(LiveUpTo(i))
            failed == Cardinality({k \in LiveUpTo(i) : log[k].what = "failure"})
        IN OpensAt(i + 1) <=>
             /\ Evidence(i)
             /\ live >= MinimumCalls
             /\ failed * RateDen >= RateNum * live

Within(lo, hi, what) == {i \in lo .. hi : log[i].what = what}

(* docs/resilience.md:203 says of circuit.opened that the circuit "went    *)
(* from CLOSED to OPEN"; a failed probe emits it too (record, _open).      *)
OpenedOnlyFromClosed ==
    \A i \in Positions : log[i].what = "opened" => Shown(i - 1) = "CLOSED"

(* Every refusal of an outage is accounted for in the log: by a rejected   *)
(* event, in the suppressed count of a later one, or still to be reported; *)
(* and the closing event of the outage tells how many there were.          *)
RejectionsAccounted ==
    /\ state # "CLOSED" =>
         LET start == OutageStart(Len(log))
             reports == Within(start, Len(log), "rejected")
             reported == SumFunctionOnSet([i \in reports |-> 1 + log[i].number], reports)
         IN Cardinality(Within(start, Len(log), "refused")) =
              reported + rejections_suppressed
    /\ \A i \in Positions : log[i].what = "closed" =>
         log[i].number = Cardinality(Within(OutageStart(i - 1), i, "refused"))

(* In one outage rejected events are at least an interval apart, and the   *)
(* first refusal is always reported.                                       *)
RejectedEventsSpaced ==
    \A i \in Positions : log[i].what = "refused" =>
        LET start == OutageStart(i)
            before == Within(start, i, "rejected")
        IN /\ before # {}
           /\ \A j, k \in before : j < k => log[k].at - log[j].at >= EmitInterval

Holders(n) == {t \in Tasks : ticket[t] = n}

Contract ==
    INSTANCE CircuitContract WITH
        Callers <- Tasks,
        phase   <- state,
        members <- Holders(epoch),
        probes  <- Holders(epoch + Probe),
        streak  <- consecutive_failures,
        proven  <- consecutive_successes,
        since   <- opened_at

(* The async breaker keeps the promises the sync breaker keeps.            *)
ImplementsContract == Contract!Spec

=============================================================================
