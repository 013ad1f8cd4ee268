---------------------------- MODULE CircuitBreaker ----------------------------
(***************************************************************************)
(* CircuitBreaker, the sync breaker of                                     *)
(* middleware/resilience/circuit_breaker.py, called by threads.            *)
(*                                                                         *)
(* A thread runs _call_sync: it reads closed_ticket without the lock; if   *)
(* the circuit is not CLOSED it runs admit() under the lock; it calls the  *)
(* rest of the chain; it runs record() under the lock.  Events are taken   *)
(* inside the lock and emitted after it is released.  A critical section   *)
(* is one action: everything it writes is read only under the lock, except *)
(* closed_ticket, which it writes at most once.                            *)
(***************************************************************************)
EXTENDS CircuitState, FiniteSets, Functions

CONSTANTS
    Threads,
    EmitMayRaise,   \* may a logging handler raise out of _emit_event?
    MaxBad,         \* bound: outcomes other than success the upstream gives
    MaxRejections,  \* bound: rejections in one outage
    Horizon         \* bound: ticks the clock runs on after an opening

ASSUME ThreadAssumption ==
    /\ IsFiniteSet(Threads)
    /\ EmitMayRaise \in BOOLEAN
    /\ MaxBad \in Nat /\ MaxRejections \in Nat /\ Horizon \in Nat

VARIABLES
    pc,         \* where each thread is in _call_sync
    ticket,     \* the ticket each thread holds, or NoTicket
    pending,    \* the events each thread has taken and not yet emitted
    bad,        \* bad outcomes so far
    emitted     \* history: opened, half_open and closed events emitted

vars == <<circuit, now, pc, ticket, pending, bad, emitted>>

Init ==
    /\ CircuitInit
    /\ pc = [t \in Threads |-> "idle"]
    /\ ticket = [t \in Threads |-> NoTicket]
    /\ pending = [t \in Threads |-> <<>>]
    /\ bad = 0
    /\ emitted = 0

(* The end of a critical section: the thread leaves it with the events     *)
(* that were queued, and emits them before anything else.                  *)
LeaveWith(t, events, next) ==
    /\ pending' = [pending EXCEPT ![t] = events]
    /\ pc' = [pc EXCEPT ![t] = next]

(* Nothing left to do but to emit, if anything.                            *)
Ending(events) == IF events = <<>> THEN "idle" ELSE "reporting"

-----------------------------------------------------------------------------
(* The unlocked read of closed_ticket finds the circuit CLOSED.            *)
EnterClosed(t) ==
    /\ pc[t] = "idle"
    /\ closed_ticket # NoTicket
    /\ ticket' = [ticket EXCEPT ![t] = closed_ticket]
    /\ pc' = [pc EXCEPT ![t] = "calling"]
    /\ UNCHANGED <<circuit, now, pending, bad, emitted>>

(* It finds None: the thread goes for the lock.                            *)
EnterTripped(t) ==
    /\ pc[t] = "idle"
    /\ closed_ticket = NoTicket
    /\ pc' = [pc EXCEPT ![t] = "admitting"]
    /\ UNCHANGED <<circuit, now, ticket, pending, bad, emitted>>

(* _admit_locked raises _RejectionError, the caller gets CircuitOpenError. *)
Refuse(t) ==
    /\ pc[t] = "admitting"
    /\ Refuses
    /\ episode_rejections < MaxRejections
    /\ Reject
    /\ LeaveWith(t, RejectEvents, Ending(RejectEvents))
    /\ UNCHANGED <<now, ticket, bad, emitted>>

(* It raises _HalfOpened: the thread is the first probe and has an event   *)
(* to emit before its call.                                                *)
TurnHalfOpen(t) ==
    /\ pc[t] = "admitting"
    /\ TurnsHalfOpen
    /\ HalfOpen
    /\ ticket' = [ticket EXCEPT ![t] = epoch' + Probe]
    /\ LeaveWith(t, HalfOpenEvents, "announcing")
    /\ UNCHANGED <<now, bad, emitted>>

(* It returns a ticket: as the next probe, or because the circuit closed   *)
(* since the unlocked read.                                                *)
AdmitLocked(t) ==
    /\ pc[t] = "admitting"
    /\ ~Refuses /\ ~TurnsHalfOpen
    /\ Admit
    /\ ticket' = [ticket EXCEPT ![t] = Ticket]
    /\ pc' = [pc EXCEPT ![t] = "calling"]
    /\ UNCHANGED <<now, pending, bad, emitted>>

(* next(request) returns or raises; the outcome is recorded.               *)
Return(t, outcome) ==
    /\ pc[t] = "calling"
    /\ IF outcome = "success" THEN UNCHANGED bad
                              ELSE bad < MaxBad /\ bad' = bad + 1
    /\ Record(ticket[t], outcome)
    /\ ticket' = [ticket EXCEPT ![t] = NoTicket]
    /\ LET events == RecordEvents(ticket[t], outcome)
       IN LeaveWith(t, events, Ending(events))
    /\ UNCHANGED <<now, emitted>>

Lifecycle(events) ==
    Cardinality({i \in DOMAIN events : events[i].name # "rejected"})

Emit(t) ==
    /\ emitted' = emitted + Lifecycle(pending[t])
    /\ pending' = [pending EXCEPT ![t] = <<>>]

(* _half_opened: the probe emits its event, then makes its call.           *)
Announce(t) ==
    /\ pc[t] = "announcing"
    /\ Emit(t)
    /\ pc' = [pc EXCEPT ![t] = "calling"]
    /\ UNCHANGED <<circuit, now, ticket, bad>>

(* The handler raises: _half_opened runs before the try block, so nothing  *)
(* records an outcome for the ticket.                                      *)
AnnounceRaises(t) ==
    /\ EmitMayRaise
    /\ pc[t] = "announcing"
    /\ Emit(t)
    /\ pc' = [pc EXCEPT ![t] = "idle"]
    /\ ticket' = [ticket EXCEPT ![t] = NoTicket]
    /\ UNCHANGED <<circuit, now, bad>>

(* Events of a rejection or of an outcome are the last thing a call does.  *)
Report(t) ==
    /\ pc[t] = "reporting"
    /\ Emit(t)
    /\ pc' = [pc EXCEPT ![t] = "idle"]
    /\ UNCHANGED <<circuit, now, ticket, bad>>

(* Nothing reads the clock of a classic circuit while it is CLOSED.        *)
Tick ==
    /\ RateMode \/ state # "CLOSED"
    /\ now < opened_at + Horizon
    /\ now' = now + 1
    /\ UNCHANGED <<circuit, pc, ticket, pending, bad, emitted>>

Step(t) ==
    \/ EnterClosed(t) \/ EnterTripped(t)
    \/ Refuse(t) \/ TurnHalfOpen(t) \/ AdmitLocked(t)
    \/ Announce(t) \/ AnnounceRaises(t)
    \/ \E outcome \in Outcomes : Return(t, outcome)
    \/ Report(t)

Next == Tick \/ \E t \in Threads : Step(t)

(* Threads are scheduled, upstream calls return or time out, clients keep  *)
(* sending requests, and the clock runs.                                   *)
Fairness == WF_vars(Tick) /\ \A t \in Threads : WF_vars(Step(t))

Spec == Init /\ [][Next]_vars

FairSpec == Spec /\ Fairness

-----------------------------------------------------------------------------
(* The circuit's attributes, where each thread is, what it holds.          *)
TypeOK ==
    /\ CircuitType
    /\ pc \in [Threads -> {"idle", "admitting", "announcing", "calling", "reporting"}]
    /\ ticket \in [Threads -> Nat \cup {NoTicket}]
    /\ pending \in [Threads -> Seq(Events)]
    /\ bad \in Nat
    /\ emitted \in Nat

ClosedTicketInv == closed_ticket = IF state = "CLOSED" THEN epoch ELSE NoTicket

SlotInv == probe_in_flight => state = "HALF_OPEN"

HolderInv ==
    \A t \in Threads : ticket[t] # NoTicket <=> pc[t] \in {"announcing", "calling"}

CurrentInv ==
    \A t \in Threads :
      /\ ticket[t] <= epoch + Probe
      /\ ticket[t] = epoch => state = "CLOSED"
      /\ ticket[t] = epoch + Probe => state = "HALF_OPEN" /\ probe_in_flight

UniqueInv ==
    \A t, u \in Threads :
      ticket[t] = epoch + Probe /\ ticket[u] = epoch + Probe => t = u

(* Ticket numbers alone say whose outcome counts, because transitions move *)
(* the epoch past every ticket ever handed out: a ticket equal to the      *)
(* epoch is from this CLOSED period, one equal to epoch + Probe belongs to *)
(* the only probe of this HALF_OPEN period, and all others are stale.      *)
TicketInv == ClosedTicketInv /\ SlotInv /\ HolderInv /\ CurrentInv /\ UniqueInv

Holders(n) == {t \in Threads : ticket[t] = n}

(* The probe slot is taken exactly while one call that can free it is on   *)
(* its way: never leaked (the circuit would refuse everything for good),   *)
(* never held by two probes, never held across a transition.               *)
ProbeSlotOwned ==
    LET probes == Holders(epoch + Probe)
    IN /\ probe_in_flight <=> probes # {}
       /\ \A t, u \in probes : t = u
       /\ probes # {} => state = "HALF_OPEN"

(* Every transition is reported once, by the thread that made it, although *)
(* events are emitted with the lock released: each transition moves the    *)
(* epoch by two and is an event emitted or about to be.                    *)
EveryTransitionReported ==
    epoch = EpochStep * (emitted
        + SumFunction([t \in Threads |-> Lifecycle(pending[t])]))

(* Once the upstream gives no more failures, the circuit closes and stays  *)
(* closed, whatever threads were refused or overtaken on the way.          *)
Recovery == <>[](state = "CLOSED")

Contract ==
    INSTANCE CircuitContract WITH
        Callers <- Threads,
        phase   <- state,
        members <- Holders(epoch),
        probes  <- Holders(epoch + Probe),
        streak  <- consecutive_failures,
        proven  <- consecutive_successes,
        since   <- opened_at

(* Threads that admit without the lock and report late cannot be told from *)
(* a breaker that knows its callers: every step is a step of the contract. *)
ImplementsContract == Contract!Spec

=============================================================================
