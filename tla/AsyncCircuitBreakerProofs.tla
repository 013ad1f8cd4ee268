----------------------- MODULE AsyncCircuitBreakerProofs -----------------------
(***************************************************************************)
(* The async breaker, for every number of tasks and calls and every        *)
(* configuration: it implements CircuitContract, every step of a task      *)
(* being a step of the contract or changing nothing in it; and its log     *)
(* reads as the properties of AsyncCircuitBreaker say.                     *)
(*                                                                         *)
(* A step writes at most two entries.  Each part of the invariant about    *)
(* the log is an operator of a log and of the variables it is about, with  *)
(* a lemma for each kind of entry that may be appended; the lemma about    *)
(* the steps puts these together, through the log in the middle of a step. *)
(***************************************************************************)
EXTENDS AsyncCircuitBreaker, WindowLemmas, SequenceTheorems

Members == Holders(epoch)
Probes == Holders(epoch + Probe)

(* What the contract needs of the types: clock, events and window do not   *)
(* matter to it.                                                           *)
CoreType ==
    /\ MachineType
    /\ CounterType
    /\ ticket \in [Tasks -> Nat \cup {NoTicket}]

(* Who holds which ticket.  A task has no step of its own between its      *)
(* admission and the await, so that the slot is never taken for nobody.    *)
TicketInv ==
    /\ closed_ticket = IF state = "CLOSED" THEN epoch ELSE NoTicket
    /\ probe_in_flight <=> \E t \in Tasks : ticket[t] = epoch + Probe
    /\ \A t \in Tasks :
         /\ ticket[t] <= epoch + Probe
         /\ ticket[t] = epoch => state = "CLOSED"
         /\ ticket[t] = epoch + Probe => state = "HALF_OPEN"
    /\ \A t, u \in Tasks : ticket[t] = epoch + Probe /\ ticket[u] = epoch + Probe => t = u

(* The inductive invariant.                                                *)
Inv == CoreType /\ TicketInv

-----------------------------------------------------------------------------
LEMMA Numbers ==
    ASSUME CoreType
    PROVE  /\ epoch \in Nat /\ epoch + Probe \in Nat /\ epoch # epoch + Probe
           /\ \A t \in Tasks : ticket[t] \in Int
BY DEF CoreType, MachineType, Probe, NoTicket

(* A transition leaves every ticket behind.                                *)
LEMMA MoveLeavesTicketsBehind ==
    ASSUME Inv, NEW s \in States, MoveTo(s)
    PROVE  /\ MachineType'
           /\ \A t \in Tasks : ticket[t] < epoch'
           /\ epoch' \in Nat /\ state' = s
           /\ closed_ticket' = IF s = "CLOSED" THEN epoch' ELSE NoTicket
<1>1. epoch \in Nat /\ \A t \in Tasks : ticket[t] \in Int /\ ticket[t] <= epoch + Probe
  BY Numbers DEF Inv, TicketInv
<1>2. epoch' = epoch + 2 /\ state' = s
      /\ closed_ticket' = IF s = "CLOSED" THEN epoch' ELSE NoTicket
  BY DEF MoveTo, EpochStep
<1>3. epoch' \in Nat /\ \A t \in Tasks : ticket[t] < epoch'
  BY <1>1, <1>2 DEF Probe
<1> QED
  BY <1>2, <1>3 DEF MachineType

(* The steps of a call that do not move the circuit.                       *)
LEMMA SameMachine ==
    ASSUME UNCHANGED <<machine, counters>>
    PROVE  /\ UNCHANGED <<state, epoch, closed_ticket>>
           /\ UNCHANGED <<consecutive_failures, consecutive_successes>>
           /\ MachineType => MachineType'
           /\ CounterType => CounterType'
BY DEF machine, counters, MachineType, CounterType

(* A caller that takes a ticket joins its holders and no others.           *)
LEMMA TakeTicket ==
    ASSUME CoreType, NEW t \in Tasks, NEW n \in {epoch, epoch + Probe},
           ticket[t] = NoTicket, ticket' = [ticket EXCEPT ![t] = n], UNCHANGED epoch
    PROVE  /\ Members' = IF n = epoch THEN Members \cup {t} ELSE Members
           /\ Probes' = IF n = epoch THEN Probes ELSE Probes \cup {t}
           /\ ticket' \in [Tasks -> Nat \cup {NoTicket}]
<1>1. epoch \in Nat /\ epoch + Probe \in Nat /\ epoch # epoch + Probe
  BY Numbers
<1>2. \A u \in Tasks : ticket'[u] = IF u = t THEN n ELSE ticket[u]
  BY DEF CoreType
<1>3. ticket[t] # epoch /\ ticket[t] # epoch + Probe
  BY <1>1 DEF NoTicket
<1>4. /\ Members' = {u \in Tasks : ticket'[u] = epoch}
      /\ Probes' = {u \in Tasks : ticket'[u] = epoch + Probe}
      /\ Members = {u \in Tasks : ticket[u] = epoch}
      /\ Probes = {u \in Tasks : ticket[u] = epoch + Probe}
  BY DEF Members, Probes, Holders
<1>5. ticket' \in [Tasks -> Nat \cup {NoTicket}]
  BY <1>1 DEF CoreType
<1>6. CASE n = epoch
  <2>1. Members' = Members \cup {t}
    BY <1>2, <1>4, <1>6
  <2>2. Probes' = Probes
    BY <1>1, <1>2, <1>3, <1>4, <1>6, Zenon
  <2> QED
    BY <1>5, <1>6, <2>1, <2>2
<1>7. CASE n = epoch + Probe
  <2>1. Members' = Members
    BY <1>1, <1>2, <1>3, <1>4, <1>7, Zenon
  <2>2. Probes' = Probes \cup {t}
    BY <1>2, <1>4, <1>7, Zenon
  <2> QED
    BY <1>1, <1>5, <1>7, <2>1, <2>2
<1> QED
  BY <1>6, <1>7

(* A caller that drops its ticket leaves its holders.                      *)
LEMMA DropTicket ==
    ASSUME CoreType, NEW t \in Tasks, ticket' = [ticket EXCEPT ![t] = NoTicket],
           UNCHANGED epoch
    PROVE  /\ Members' = Members \ {t} /\ Probes' = Probes \ {t}
           /\ ticket' \in [Tasks -> Nat \cup {NoTicket}]
<1>1. epoch # NoTicket /\ epoch + Probe # NoTicket
  BY Numbers DEF NoTicket
<1>2. \A u \in Tasks : ticket'[u] = IF u = t THEN NoTicket ELSE ticket[u]
  BY DEF CoreType
<1>3. Members' = Members \ {t} /\ Probes' = Probes \ {t}
  BY <1>1, <1>2, Zenon DEF Members, Probes, Holders
<1> QED
  BY <1>3 DEF CoreType

(* The tickets, told by who holds those that count.                        *)
LEMMA TicketsByHolders ==
    ASSUME CoreType
    PROVE  TicketInv <=>
             /\ closed_ticket = IF state = "CLOSED" THEN epoch ELSE NoTicket
             /\ probe_in_flight <=> Probes # {}
             /\ \A t \in Tasks : ticket[t] <= epoch + Probe
             /\ Members # {} => state = "CLOSED"
             /\ Probes # {} => state = "HALF_OPEN"
             /\ \A t, u \in Probes : t = u
BY DEF TicketInv, Members, Probes, Holders

LEMMA NewTicketsByHolders ==
    ASSUME CoreType'
    PROVE  TicketInv' <=>
             /\ closed_ticket' = IF state' = "CLOSED" THEN epoch' ELSE NoTicket
             /\ probe_in_flight' <=> Probes' # {}
             /\ \A t \in Tasks : ticket'[t] <= epoch' + Probe
             /\ Members' # {} => state' = "CLOSED"
             /\ Probes' # {} => state' = "HALF_OPEN"
             /\ \A t, u \in Probes' : t = u
BY DEF TicketInv, Members, Probes, Holders

-----------------------------------------------------------------------------
LEMMA InitCore == Init => Inv /\ Contract!Init
<1> SUFFICES ASSUME Init PROVE Inv /\ Contract!Init
  OBVIOUS
<1>1. CoreType
  BY CircuitAssumption DEF Init, CircuitInit, CoreType, MachineType, CounterType, States, NoTicket
<1>2. Members = {} /\ Probes = {}
  BY DEF Init, CircuitInit, Members, Probes, Holders, NoTicket, Probe
<1>3. \A t \in Tasks : ticket[t] <= epoch + Probe
  BY DEF Init, CircuitInit, NoTicket, Probe
<1>4. TicketInv
  BY <1>1, <1>2, <1>3, TicketsByHolders DEF Init, CircuitInit
<1>5. Contract!Init
  BY <1>2 DEF Init, CircuitInit, Contract!Init, Members, Probes
<1> QED
  BY <1>1, <1>4, <1>5 DEF Inv

(* A step that concerns no ticket and leaves the machine alone.            *)
LEMMA SameTickets ==
    ASSUME Inv, UNCHANGED <<machine, counters, probe_in_flight, ticket>>
    PROVE  Inv' /\ Members' = Members /\ Probes' = Probes
<1>1. Members' = Members /\ Probes' = Probes
  BY DEF Members, Probes, Holders, machine
<1>2. CoreType'
  BY SameMachine DEF Inv, CoreType
<1>3. TicketInv'
  BY DEF Inv, TicketInv, machine
<1> QED
  BY <1>1, <1>2, <1>3 DEF Inv

LEMMA Idle ==
    ASSUME Inv, UNCHANGED <<machine, counters, opened_at, probe_in_flight, now, ticket>>
    PROVE  Inv' /\ UNCHANGED Contract!vars
<1>1. Inv' /\ Members' = Members /\ Probes' = Probes
  BY SameTickets
<1> QED
  BY <1>1, SameMachine DEF Members, Probes, Contract!vars

LEMMA TimePasses ==
    ASSUME Inv, Tick
    PROVE  Inv' /\ Contract!Elapse
<1>1. UNCHANGED <<machine, counters, opened_at, probe_in_flight, ticket>> /\ now' = now + 1
  BY DEF Tick, circuit
<1>2. Inv' /\ Members' = Members /\ Probes' = Probes
  BY <1>1, SameTickets
<1> QED
  BY <1>1, <1>2, SameMachine DEF Contract!Elapse, Members, Probes

-----------------------------------------------------------------------------
(* Admission.                                                              *)
LEMMA EnterStep ==
    ASSUME Inv, NEW t \in Tasks, Enter(t)
    PROVE  Inv' /\ (Contract!Admit(t) \/ Contract!AdmitProbe(t))
<1>1. /\ ticket[t] = NoTicket
      /\ UNCHANGED <<machine, counters, opened_at, now>>
      /\ ticket' = [ticket EXCEPT ![t] = Ticket]
      /\ probe_in_flight' = IF closed_ticket # NoTicket THEN probe_in_flight ELSE TRUE
  BY DEF Enter, Begin, Admit
<1>2. /\ UNCHANGED <<state, epoch, closed_ticket>>
      /\ UNCHANGED <<consecutive_failures, consecutive_successes, opened_at, now>>
      /\ MachineType' /\ CounterType'
  BY <1>1, SameMachine DEF Inv, CoreType
<1>3. epoch \in Nat /\ epoch + Probe \in Nat /\ epoch # NoTicket
  BY Numbers DEF Inv, NoTicket
<1>4. \A u \in Tasks : ticket[u] <= epoch + Probe
  BY DEF Inv, TicketInv
<1>5. CASE state = "CLOSED"
  <2>1. closed_ticket = epoch /\ Ticket = epoch /\ probe_in_flight' = probe_in_flight
    BY <1>1, <1>3, <1>5 DEF Inv, TicketInv, Ticket
  <2>2. Members' = Members \cup {t} /\ Probes' = Probes
        /\ ticket' \in [Tasks -> Nat \cup {NoTicket}]
    BY <1>1, <1>2, <2>1, TakeTicket DEF Inv
  <2>3. \A u \in Tasks : ticket'[u] <= epoch' + Probe
    BY <1>1, <1>2, <1>3, <1>4, <2>1 DEF Inv, CoreType, Probe
  <2>4. CoreType'
    BY <1>2, <2>2 DEF CoreType
  <2>5. TicketInv'
    <3>1. /\ closed_ticket' = IF state' = "CLOSED" THEN epoch' ELSE NoTicket
          /\ probe_in_flight' <=> Probes' # {}
          /\ Probes' # {} => state' = "HALF_OPEN"
          /\ \A u, v \in Probes' : u = v
      BY <1>2, <2>1, <2>2, TicketsByHolders DEF Inv
    <3> QED
      BY <1>2, <1>5, <2>3, <2>4, <3>1, NewTicketsByHolders
  <2>6. Contract!Admit(t)
    BY <1>2, <1>5, <2>2 DEF Contract!Admit, Members, Probes
  <2> QED
    BY <2>4, <2>5, <2>6 DEF Inv
<1>6. CASE state # "CLOSED"
  <2>1. closed_ticket = NoTicket
    BY <1>6 DEF Inv, TicketInv
  <2>2. state = "HALF_OPEN" /\ ~probe_in_flight
    BY <1>6, <2>1 DEF Enter, Refuses, TurnsHalfOpen, Inv, CoreType, MachineType, States
  <2>3. Members = {} /\ Probes = {}
    BY <2>2, TicketsByHolders DEF Inv
  <2>4. Ticket = epoch + Probe /\ probe_in_flight'
    BY <1>1, <2>1 DEF Ticket
  <2>5. Members' = {} /\ Probes' = {t} /\ ticket' \in [Tasks -> Nat \cup {NoTicket}]
    BY <1>1, <1>2, <1>3, <2>3, <2>4, Numbers, TakeTicket DEF Inv
  <2>6. \A u \in Tasks : ticket'[u] <= epoch' + Probe
    BY <1>1, <1>2, <1>3, <1>4, <2>4 DEF Inv, CoreType
  <2>7. CoreType'
    BY <1>2, <2>5 DEF CoreType
  <2>8. TicketInv'
    <3>1. closed_ticket' = IF state' = "CLOSED" THEN epoch' ELSE NoTicket
      BY <1>2, <2>1, <2>2
    <3> QED
      BY <1>2, <2>2, <2>4, <2>5, <2>6, <2>7, <3>1, NewTicketsByHolders
  <2>9. Contract!AdmitProbe(t)
    BY <1>2, <2>2, <2>3, <2>5 DEF Contract!AdmitProbe, Members, Probes
  <2> QED
    BY <2>7, <2>8, <2>9 DEF Inv
<1> QED
  BY <1>5, <1>6

LEMMA TurnHalfOpenStep ==
    ASSUME Inv, NEW t \in Tasks, TurnHalfOpen(t)
    PROVE  Inv' /\ Contract!AdmitProbe(t)
<1>1. /\ state = "OPEN" /\ now - opened_at >= ResetTimeout
      /\ MoveTo("HALF_OPEN") /\ probe_in_flight' = TRUE
      /\ UNCHANGED <<consecutive_failures, consecutive_successes, opened_at, now>>
      /\ ticket' = [ticket EXCEPT ![t] = epoch' + Probe]
  BY DEF TurnHalfOpen, TurnsHalfOpen, Due, Begin, HalfOpen, counters
<1>2. /\ MachineType'
      /\ \A u \in Tasks : ticket[u] < epoch'
      /\ epoch' \in Nat /\ state' = "HALF_OPEN" /\ closed_ticket' = NoTicket
  BY <1>1, MoveLeavesTicketsBehind DEF States
<1>3. Members = {} /\ Probes = {}
  BY <1>1, TicketsByHolders DEF Inv
<1>4. /\ \A u \in Tasks : ticket'[u] = IF u = t THEN epoch' + Probe ELSE ticket[u]
      /\ \A u \in Tasks : ticket[u] \in Int
      /\ epoch' + Probe \in Nat
  <2>1. \A u \in Tasks : ticket'[u] = IF u = t THEN epoch' + Probe ELSE ticket[u]
    BY <1>1, Zenon DEF Inv, CoreType
  <2>2. \A u \in Tasks : ticket[u] \in Int
    BY Numbers DEF Inv
  <2>3. epoch' + Probe \in Nat
    <3>1. \A n \in Nat : n + Probe \in Nat
      BY DEF Probe
    <3> QED
      BY <1>2, <3>1, Zenon
  <2> QED
    BY <2>1, <2>2, <2>3
<1>5. ticket' \in [Tasks -> Nat \cup {NoTicket}]
  BY <1>1, <1>4 DEF Inv, CoreType
<1>6. \A u \in Tasks : ticket'[u] # epoch' /\ ticket'[u] <= epoch' + Probe
  BY <1>2, <1>4 DEF Probe
<1>7. \A u \in Tasks : ticket'[u] = epoch' + Probe <=> u = t
  BY <1>2, <1>4 DEF Probe
<1>8. Members' = {} /\ Probes' = {t}
  BY <1>6, <1>7 DEF Members, Probes, Holders
<1>9. CoreType'
  BY <1>1, <1>2, <1>5 DEF Inv, CoreType, CounterType
<1>10. TicketInv'
  BY <1>1, <1>2, <1>6, <1>8, <1>9, NewTicketsByHolders
<1>11. Contract!AdmitProbe(t)
  BY <1>1, <1>2, <1>3, <1>8 DEF Contract!AdmitProbe, Members, Probes
<1> QED
  BY <1>9, <1>10, <1>11 DEF Inv

-----------------------------------------------------------------------------
(* A call returns and its ticket is dropped ...                            *)
Drops(t) == ticket' = [ticket EXCEPT ![t] = NoTicket] /\ UNCHANGED now

(* ... which frees the slot if it was the probe's.                         *)
Frees(t) == probe_in_flight' <=> probe_in_flight /\ t \notin Probes

(* If the circuit stays where it is, the other tickets stay good.          *)
LEMMA DropKeepsTickets ==
    ASSUME Inv, NEW t \in Tasks, Drops(t), Frees(t), UNCHANGED machine, CounterType'
    PROVE  Inv' /\ Members' = Members \ {t} /\ Probes' = Probes \ {t}
<1>1. UNCHANGED <<state, epoch, closed_ticket>> /\ MachineType'
  BY DEF machine, Inv, CoreType, MachineType
<1>2. /\ Members' = Members \ {t} /\ Probes' = Probes \ {t}
      /\ ticket' \in [Tasks -> Nat \cup {NoTicket}]
  BY <1>1, DropTicket DEF Inv, Drops
<1>3. CoreType'
  BY <1>1, <1>2 DEF CoreType
<1>4. \A u \in Tasks : ticket'[u] <= epoch' + Probe
  <2>1. epoch + Probe \in Nat /\ \A u \in Tasks : ticket[u] <= epoch + Probe
    BY Numbers DEF Inv, TicketInv
  <2>2. \A u \in Tasks : ticket'[u] = IF u = t THEN NoTicket ELSE ticket[u]
    BY DEF Drops, Inv, CoreType
  <2>3. NoTicket <= epoch + Probe
    BY <2>1 DEF NoTicket
  <2> QED
    BY <1>1, <2>1, <2>2, <2>3
<1>5. TicketInv'
  <2>1. /\ closed_ticket = IF state = "CLOSED" THEN epoch ELSE NoTicket
        /\ probe_in_flight <=> Probes # {}
        /\ Members # {} => state = "CLOSED"
        /\ Probes # {} => state = "HALF_OPEN"
        /\ \A u, v \in Probes : u = v
    BY TicketsByHolders DEF Inv
  <2>2. /\ probe_in_flight' <=> Probes' # {}
        /\ Members' # {} => state = "CLOSED"
        /\ Probes' # {} => state = "HALF_OPEN"
        /\ \A u, v \in Probes' : u = v
    BY <1>2, <2>1 DEF Frees
  <2> QED
    BY <1>1, <1>3, <1>4, <2>1, <2>2, NewTicketsByHolders
<1> QED
  BY <1>2, <1>3, <1>5 DEF Inv

(* If it moves, no ticket is good any more.                                *)
LEMMA MoveDropsTickets ==
    ASSUME Inv, NEW t \in Tasks, Drops(t), NEW s \in States, MoveTo(s),
           ~probe_in_flight', CounterType'
    PROVE  Inv' /\ Members' = {} /\ Probes' = {} /\ state' = s
<1>1. /\ MachineType'
      /\ \A u \in Tasks : ticket[u] < epoch'
      /\ epoch' \in Nat /\ state' = s
      /\ closed_ticket' = IF s = "CLOSED" THEN epoch' ELSE NoTicket
  BY MoveLeavesTicketsBehind
<1>2. \A u \in Tasks : ticket'[u] = IF u = t THEN NoTicket ELSE ticket[u]
  BY DEF Drops, Inv, CoreType
<1>3. \A u \in Tasks : ticket'[u] \in Int /\ ticket'[u] < epoch'
  BY <1>1, <1>2, Numbers DEF Inv, NoTicket
<1>4. Members' = {} /\ Probes' = {} /\ \A u \in Tasks : ticket'[u] <= epoch' + Probe
  BY <1>1, <1>3 DEF Members, Probes, Holders, Probe
<1>5. CoreType'
  BY <1>1 DEF CoreType, Drops, Inv
<1>6. TicketInv'
  BY <1>1, <1>4, <1>5, NewTicketsByHolders
<1> QED
  BY <1>1, <1>4, <1>5, <1>6 DEF Inv

LEMMA OpenStep ==
    ASSUME Inv, NEW t \in Tasks, Drops(t), EnterOpen, ~probe_in_flight'
    PROVE  Inv' /\ Contract!Open
<1>1. /\ MoveTo("OPEN") /\ opened_at' = now
      /\ consecutive_failures' = 0 /\ consecutive_successes' = 0
  BY DEF EnterOpen
<1>2. CounterType'
  BY <1>1, CircuitAssumption DEF CounterType
<1>3. Inv' /\ Members' = {} /\ Probes' = {} /\ state' = "OPEN"
  BY <1>1, <1>2, MoveDropsTickets DEF States
<1> QED
  BY <1>1, <1>3 DEF Contract!Open, Members, Probes, Drops

(* An outcome that tells nothing: the caller gives up its place.           *)
LEMMA GiveUp ==
    ASSUME Inv, NEW t \in Tasks, Drops(t), Frees(t), UNCHANGED <<machine, counters, opened_at>>
    PROVE  /\ Inv'
           /\ Contract!Settle(t) \/ Contract!ProbeInconclusive(t) \/ UNCHANGED Contract!vars
<1>1. /\ UNCHANGED <<state, epoch, consecutive_failures, consecutive_successes, opened_at, now>>
      /\ CounterType'
  BY SameMachine DEF Drops, Inv, CoreType
<1>2. Inv' /\ Members' = Members \ {t} /\ Probes' = Probes \ {t}
  BY <1>1, DropKeepsTickets
<1>3. ~(t \in Members /\ t \in Probes)
  BY Numbers DEF Inv, Members, Probes, Holders
<1>4. CASE t \in Members
  <2>1. Probes' = Probes
    BY <1>2, <1>3, <1>4
  <2>2. Contract!Settle(t)
    BY <1>1, <1>2, <1>4, <2>1 DEF Contract!Settle, Members, Probes
  <2> QED
    BY <1>2, <2>2
<1>5. CASE t \in Probes
  <2>1. Probes' = {} /\ Members' = Members
    BY <1>2, <1>3, <1>5, TicketsByHolders DEF Inv
  <2>2. Contract!ProbeInconclusive(t)
    BY <1>1, <1>5, <2>1 DEF Contract!ProbeInconclusive, Members, Probes
  <2> QED
    BY <1>2, <2>2
<1>6. CASE t \notin Members /\ t \notin Probes
  <2>1. Members' = Members /\ Probes' = Probes
    BY <1>2, <1>6
  <2>2. UNCHANGED Contract!vars
    BY <1>1, <2>1 DEF Contract!vars, Members, Probes
  <2> QED
    BY <1>2, <2>2
<1> QED
  BY <1>4, <1>5, <1>6

(* A member's outcome.                                                     *)
LEMMA MemberStep ==
    ASSUME Inv, NEW t \in Tasks, NEW outcome \in Outcomes, Drops(t),
           CountsClosed(ticket[t], outcome), RecordClosed(outcome)
    PROVE  Inv' /\ (Contract!Settle(t) \/ Contract!Trip(t))
<1>1. t \in Members
  BY DEF CountsClosed, Members, Holders
<1>2. state = "CLOSED" /\ Probes = {} /\ ~probe_in_flight /\ ~probe_in_flight'
  BY <1>1, TicketsByHolders DEF Inv, RecordClosed
<1>3. CASE Trips(outcome)
  <2>1. Inv' /\ Contract!Open
    BY <1>2, <1>3, OpenStep DEF RecordClosed
  <2>2. RateMode \/ consecutive_failures + 1 = FailureThreshold
    BY <1>3, CircuitAssumption DEF Trips, Inv, CoreType, CounterType
  <2> QED
    BY <1>1, <2>1, <2>2 DEF Contract!Trip, Members
<1>4. CASE ~Trips(outcome)
  <2>1. UNCHANGED <<machine, consecutive_successes, opened_at>>
    BY <1>4 DEF RecordClosed
  <2>2. \/ consecutive_failures' \in {consecutive_failures, 0}
        \/ /\ ~RateMode
           /\ consecutive_failures + 1 < FailureThreshold
           /\ consecutive_failures' = consecutive_failures + 1
    <3>1. CASE RateMode
      BY <1>4, <3>1 DEF RecordClosed
    <3>2. CASE ~RateMode /\ outcome = "success"
      BY <1>4, <3>2 DEF RecordClosed
    <3>3. CASE ~RateMode /\ outcome = "failure"
      <4>1. consecutive_failures + 1 < FailureThreshold
        BY <1>4, <3>3, CircuitAssumption DEF Trips, Inv, CoreType, CounterType
      <4> QED
        BY <1>4, <3>3, <4>1 DEF RecordClosed
    <3> QED
      BY <3>1, <3>2, <3>3 DEF Outcomes, CountsClosed
  <2>3. CounterType'
    BY <2>1, <2>2, CircuitAssumption DEF Inv, CoreType, CounterType
  <2>4. Frees(t)
    BY <1>2 DEF Frees
  <2>5. Inv' /\ Members' = Members \ {t} /\ Probes' = Probes
    BY <1>2, <2>1, <2>3, <2>4, DropKeepsTickets
  <2>6. Contract!Settle(t)
    BY <1>1, <2>1, <2>2, <2>5 DEF Contract!Settle, Members, Probes, Drops, machine
  <2> QED
    BY <2>5, <2>6
<1> QED
  BY <1>3, <1>4

(* The probe's outcome.                                                    *)
LEMMA ProbeStep ==
    ASSUME Inv, NEW t \in Tasks, NEW outcome \in Outcomes, Drops(t),
           CountsProbe(ticket[t]), RecordProbe(outcome)
    PROVE  /\ Inv'
           /\ \/ Contract!ProbeSucceeds(t) \/ Contract!ProbeFails(t)
              \/ Contract!Settle(t) \/ Contract!ProbeInconclusive(t) \/ UNCHANGED Contract!vars
<1>1. t \in Probes
  BY DEF CountsProbe, Probes, Holders
<1>2. Members = {} /\ Probes = {t} /\ ~probe_in_flight'
  <2>1. state = "HALF_OPEN" /\ Members = {} /\ Probes = {t}
    BY <1>1, TicketsByHolders DEF Inv
  <2> QED
    BY <2>1 DEF RecordProbe
<1>3. Frees(t)
  BY <1>2 DEF Frees
<1>4. CASE outcome = "success" /\ RecordProbeSuccess /\ LastSuccessNeeded
  <2>1. /\ MoveTo("CLOSED") /\ UNCHANGED opened_at
        /\ consecutive_failures' = 0 /\ consecutive_successes' = 0
    BY <1>4 DEF RecordProbeSuccess, Close
  <2>2. CounterType'
    BY <2>1, CircuitAssumption DEF CounterType
  <2>3. Inv' /\ Members' = {} /\ Probes' = {} /\ state' = "CLOSED"
    BY <1>2, <2>1, <2>2, MoveDropsTickets DEF States
  <2>4. consecutive_successes + 1 = SuccessThreshold
    BY <1>4, CircuitAssumption DEF LastSuccessNeeded, Inv, CoreType, CounterType
  <2>5. Contract!ProbeSucceeds(t)
    BY <1>1, <1>2, <2>1, <2>3, <2>4 DEF Contract!ProbeSucceeds, Members, Probes, Drops
  <2> QED
    BY <2>3, <2>5
<1>5. CASE outcome = "success" /\ RecordProbeSuccess /\ ~LastSuccessNeeded
  <2>1. /\ UNCHANGED <<machine, consecutive_failures, opened_at>>
        /\ consecutive_successes' = consecutive_successes + 1
    BY <1>5 DEF RecordProbeSuccess
  <2>2. consecutive_successes + 1 < SuccessThreshold
    BY <1>5, CircuitAssumption DEF LastSuccessNeeded, Inv, CoreType, CounterType
  <2>3. CounterType'
    BY <2>1, <2>2, CircuitAssumption DEF Inv, CoreType, CounterType
  <2>4. Inv' /\ Members' = {} /\ Probes' = {}
    BY <1>2, <1>3, <2>1, <2>3, DropKeepsTickets
  <2>5. Contract!ProbeSucceeds(t)
    BY <1>1, <1>2, <2>1, <2>2, <2>4 DEF Contract!ProbeSucceeds, Members, Probes, Drops, machine
  <2> QED
    BY <2>4, <2>5
<1>6. CASE outcome = "failure" /\ EnterOpen
  <2>1. Inv' /\ Contract!Open
    BY <1>2, <1>6, OpenStep
  <2> QED
    BY <1>1, <2>1 DEF Contract!ProbeFails, Probes
<1>7. CASE UNCHANGED <<machine, counters, opened_at, rejections, window>>
  BY <1>3, <1>7, GiveUp
<1> QED
  BY <1>4, <1>5, <1>6, <1>7 DEF RecordProbe

LEMMA ReturnStep ==
    ASSUME Inv, NEW t \in Tasks, NEW outcome \in Outcomes, Return(t, outcome)
    PROVE  Inv' /\ [Contract!Next]_(Contract!vars)
<1>1. Drops(t) /\ Record(ticket[t], outcome)
  BY DEF Return, Drops
<1>2. CASE CountsClosed(ticket[t], outcome) /\ RecordClosed(outcome)
  BY <1>1, <1>2, MemberStep DEF Contract!Next
<1>3. CASE CountsProbe(ticket[t]) /\ RecordProbe(outcome)
  BY <1>1, <1>3, ProbeStep DEF Contract!Next
<1>4. CASE ~CountsProbe(ticket[t]) /\ UNCHANGED circuit
  <2>1. UNCHANGED <<machine, counters, opened_at>> /\ UNCHANGED probe_in_flight
    BY <1>4 DEF circuit
  <2>2. t \notin Probes
    BY <1>4 DEF CountsProbe, Probes, Holders
  <2>3. Frees(t)
    BY <2>1, <2>2 DEF Frees
  <2> QED
    BY <1>1, <2>1, <2>3, GiveUp DEF Contract!Next
<1> QED
  BY <1>1, <1>2, <1>3, <1>4 DEF Record

LEMMA StepRefines ==
    ASSUME Inv, [Next]_vars
    PROVE  Inv' /\ [Contract!Next]_(Contract!vars)
<1>1. ASSUME NEW t \in Tasks, Refuse(t) PROVE Inv' /\ UNCHANGED Contract!vars
  BY <1>1, Idle DEF Refuse, Reject, Begin
<1>2. ASSUME NEW t \in Tasks, TurnHalfOpen(t) PROVE Inv' /\ Contract!Next
  BY <1>2, TurnHalfOpenStep DEF Contract!Next
<1>3. ASSUME NEW t \in Tasks, Enter(t) PROVE Inv' /\ Contract!Next
  BY <1>3, EnterStep DEF Contract!Next
<1>4. CASE Tick
  BY <1>4, TimePasses DEF Contract!Next
<1>5. CASE UNCHANGED vars
  BY <1>5, Idle DEF vars, circuit
<1> QED
  BY <1>1, <1>2, <1>3, <1>4, <1>5, ReturnStep DEF Next, Finished

(* Overlapping tasks, without any lock, keep the contract that the threads *)
(* of the sync breaker keep with one: admission, counting, one probe at a  *)
(* time.  There is no exception for handlers: the events are emitted in    *)
(* steps that are modelled as not raising.                                 *)
THEOREM AsyncBreakerKeepsContract == Spec => ImplementsContract
<1>1. Init => Inv /\ Contract!Init
  BY InitCore
<1>2. Inv /\ [Next]_vars => Inv' /\ [Contract!Next]_(Contract!vars)
  BY StepRefines
<1> QED
  BY <1>1, <1>2, PTL DEF Spec, ImplementsContract, Contract!Spec

-----------------------------------------------------------------------------
(* The log as a sequence that grows.                                       *)

LEMMA LargestExists ==
    ASSUME NEW n \in Nat, NEW I \in SUBSET (1 .. n), I # {}
    PROVE  /\ Max(I) \in I
           /\ \A k \in I : k <= Max(I)
<1> DEFINE Has(J) == \E m \in J : \A k \in J : m >= k
           K == {i \in Nat : \A J \in SUBSET (1 .. i) : J # {} => Has(J)}
<1>1. 0 \in K
  <2>1. 1 .. 0 = {}
    OBVIOUS
  <2> QED
    BY <2>1
<1>2. ASSUME NEW i \in Nat, i \in K PROVE i + 1 \in K
  <2> SUFFICES ASSUME NEW J \in SUBSET (1 .. i + 1), J # {} PROVE Has(J)
    OBVIOUS
  <2>1. CASE i + 1 \in J
    BY <2>1
  <2>2. CASE i + 1 \notin J
    <3>1. J \in SUBSET (1 .. i)
      BY <2>2
    <3> QED
      BY <1>2, <3>1
  <2> QED
    BY <2>1, <2>2
<1> HIDE DEF K
<1>3. n \in K
  BY <1>1, <1>2, NaturalsBySteps
<1>4. Has(I)
  BY <1>3 DEF K
<1>5. Max(I) \in I /\ \A k \in I : Max(I) >= k
  BY <1>4 DEF Max
<1>6. \A k \in I : k \in Int
  OBVIOUS
<1> QED
  BY <1>5, <1>6

LEMMA SmallestExists ==
    ASSUME NEW n \in Nat, NEW I \in SUBSET (1 .. n), I # {}
    PROVE  /\ Min(I) \in I
           /\ \A k \in I : Min(I) <= k
<1> DEFINE Has(J) == \E m \in J : \A k \in J : m <= k
           K == {i \in Nat : \A J \in SUBSET (1 .. i) : J # {} => Has(J)}
<1>1. 0 \in K
  <2>1. 1 .. 0 = {}
    OBVIOUS
  <2> QED
    BY <2>1
<1>2. ASSUME NEW i \in Nat, i \in K PROVE i + 1 \in K
  <2> SUFFICES ASSUME NEW J \in SUBSET (1 .. i + 1), J # {} PROVE Has(J)
    OBVIOUS
  <2>1. CASE J \ {i + 1} = {}
    <3>1. J = {i + 1}
      BY <2>1
    <3> QED
      BY <3>1
  <2>2. CASE J \ {i + 1} # {}
    <3>1. J \ {i + 1} \in SUBSET (1 .. i)
      OBVIOUS
    <3>2. Has(J \ {i + 1})
      BY <1>2, <2>2, <3>1
    <3>3. \A k \in J : k <= i + 1
      OBVIOUS
    <3> QED
      BY <3>1, <3>2
  <2> QED
    BY <2>1, <2>2
<1> HIDE DEF K
<1>3. n \in K
  BY <1>1, <1>2, NaturalsBySteps
<1>4. Has(I)
  BY <1>3 DEF K
<1> QED
  BY <1>4 DEF Min

(* The last of the first n entries that is one of what, 0 if none is.      *)
LastOf(entries, n, what) ==
    LET I == {k \in 1 .. n : entries[k].what \in what}
    IN IF I # {} THEN Max(I) ELSE 0

LEMMA LastTransitionOf ==
    ASSUME NEW entries, NEW n
    PROVE  LastTransition(entries, n) = LastOf(entries, n, Lifecycle)
BY DEF LastTransition, SelectLastInSubSeq, LastOf

LEMMA LastOfFacts ==
    ASSUME NEW entries, NEW n \in Nat, NEW what, NEW last, last = LastOf(entries, n, what)
    PROVE  /\ last \in 0 .. n
           /\ last # 0 => entries[last].what \in what
           /\ \A k \in last + 1 .. n : entries[k].what \notin what
<1> DEFINE I == {k \in 1 .. n : entries[k].what \in what}
<1>1. CASE I = {}
  BY <1>1 DEF LastOf
<1>2. CASE I # {}
  <2>1. I \in SUBSET (1 .. n) /\ last = Max(I)
    BY <1>2 DEF LastOf
  <2> HIDE DEF I
  <2>2. last \in I /\ \A k \in I : k <= last
    BY <1>2, <2>1, LargestExists
  <2> QED
    BY <2>2 DEF I
<1> QED
  BY <1>1, <1>2

LEMMA LastOfIs ==
    ASSUME NEW entries, NEW n \in Nat, NEW what, NEW m \in 0 .. n,
           m # 0 => entries[m].what \in what,
           \A k \in m + 1 .. n : entries[k].what \notin what
    PROVE  LastOf(entries, n, what) = m
<1> DEFINE last == LastOf(entries, n, what)
<1>1. /\ last \in 0 .. n
      /\ last # 0 => entries[last].what \in what
      /\ \A k \in last + 1 .. n : entries[k].what \notin what
  BY LastOfFacts
<1> HIDE DEF last
<1>2. ~(m < last) /\ ~(last < m)
  BY <1>1
<1> QED
  BY <1>1, <1>2 DEF last

(* One entry more.                                                         *)
LEMMA LastOfNext ==
    ASSUME NEW entries, NEW n \in Nat, NEW what
    PROVE  LastOf(entries, n + 1, what) =
             IF entries[n + 1].what \in what THEN n + 1 ELSE LastOf(entries, n, what)
<1>1. CASE entries[n + 1].what \in what
  <2>1. LastOf(entries, n + 1, what) = n + 1
    BY <1>1, LastOfIs
  <2> QED
    BY <1>1, <2>1
<1>2. CASE entries[n + 1].what \notin what
  <2> DEFINE m == LastOf(entries, n, what)
  <2>1. /\ m \in 0 .. n
        /\ m # 0 => entries[m].what \in what
        /\ \A k \in m + 1 .. n : entries[k].what \notin what
    BY LastOfFacts
  <2> HIDE DEF m
  <2>2. LastOf(entries, n + 1, what) = m
    BY <1>2, <2>1, LastOfIs
  <2> QED
    BY <1>2, <2>2 DEF m
<1> QED
  BY <1>1, <1>2

(* More is a log that goes on after entries.                               *)
GoesOn(entries, more) ==
    /\ Len(entries) \in Nat /\ Len(more) \in Nat /\ Len(entries) <= Len(more)
    /\ \A k \in 1 .. Len(entries) : more[k] = entries[k]

LEMMA LastOfSame ==
    ASSUME NEW entries, NEW more, GoesOn(entries, more), NEW n \in 0 .. Len(entries), NEW what
    PROVE  LastOf(more, n, what) = LastOf(entries, n, what)
<1>1. {k \in 1 .. n : more[k].what \in what} = {k \in 1 .. n : entries[k].what \in what}
  BY DEF GoesOn
<1> QED
  BY <1>1 DEF LastOf

-----------------------------------------------------------------------------
(* What the log shows: the state, and the outage it ends in.               *)

ShownIn(entries, n) ==
    LET last == LastOf(entries, n, Lifecycle)
    IN IF last = 0 \/ entries[last].what = "closed" THEN "CLOSED"
       ELSE IF entries[last].what = "opened" THEN "OPEN" ELSE "HALF_OPEN"

OutageIn(entries, n) ==
    LET last == LastOf(entries, n, {"closed"})
        I == {k \in last + 1 .. n : entries[k].what = "opened"}
    IN IF I # {} THEN Min(I) ELSE 0

LEMMA ShownLog ==
    ASSUME NEW n
    PROVE  Shown(n) = ShownIn(log, n) /\ OutageStart(n) = OutageIn(log, n)
<1>1. Shown(n) = ShownIn(log, n)
  BY LastTransitionOf DEF Shown, ShownIn
<1>2. SelectLastInSubSeq(log, 1, n, LAMBDA e : e.what = "closed") = LastOf(log, n, {"closed"})
  <2>1. {k \in 1 .. n : log[k].what = "closed"} = {k \in 1 .. n : log[k].what \in {"closed"}}
    OBVIOUS
  <2> QED
    BY <2>1 DEF SelectLastInSubSeq, LastOf
<1>3. OutageStart(n) = OutageIn(log, n)
  BY <1>2 DEF OutageStart, OutageIn, SelectInSubSeq
<1> QED
  BY <1>1, <1>3

LEMMA ShownSame ==
    ASSUME NEW entries, NEW more, GoesOn(entries, more), NEW n \in 0 .. Len(entries)
    PROVE  ShownIn(more, n) = ShownIn(entries, n) /\ OutageIn(more, n) = OutageIn(entries, n)
<1>1. n \in Nat
  BY DEF GoesOn
<1>2. ShownIn(more, n) = ShownIn(entries, n)
  <2> DEFINE last == LastOf(entries, n, Lifecycle)
  <2>1. last \in 0 .. n /\ last = LastOf(more, n, Lifecycle)
    BY <1>1, LastOfFacts, LastOfSame
  <2> HIDE DEF last
  <2>2. last # 0 => more[last] = entries[last]
    BY <1>1, <2>1 DEF GoesOn
  <2> QED
    BY <2>1, <2>2 DEF ShownIn, last
<1>3. OutageIn(more, n) = OutageIn(entries, n)
  <2> DEFINE last == LastOf(entries, n, {"closed"})
  <2>1. last \in 0 .. n /\ last = LastOf(more, n, {"closed"})
    BY <1>1, LastOfFacts, LastOfSame
  <2> HIDE DEF last
  <2>2. \A k \in last + 1 .. n : more[k] = entries[k]
    BY <1>1, <2>1 DEF GoesOn
  <2>3. {k \in last + 1 .. n : more[k].what = "opened"} =
          {k \in last + 1 .. n : entries[k].what = "opened"}
    BY <2>2
  <2> QED
    BY <2>1, <2>3 DEF OutageIn, last
<1> QED
  BY <1>2, <1>3

ShownBy(what) ==
    IF what = "closed" THEN "CLOSED" ELSE IF what = "opened" THEN "OPEN" ELSE "HALF_OPEN"

LEMMA ShownNext ==
    ASSUME NEW entries, NEW n \in Nat
    PROVE  ShownIn(entries, n + 1) =
             IF entries[n + 1].what \in Lifecycle THEN ShownBy(entries[n + 1].what)
                                                 ELSE ShownIn(entries, n)
BY LastOfNext DEF ShownIn, ShownBy

LEMMA OutageFacts ==
    ASSUME NEW entries, NEW n \in Nat
    PROVE  OutageIn(entries, n) \in 0 .. n
<1> DEFINE last == LastOf(entries, n, {"closed"})
           I == {k \in last + 1 .. n : entries[k].what = "opened"}
<1>1. last \in 0 .. n
  BY LastOfFacts
<1>2. I \in SUBSET (1 .. n)
  BY <1>1
<1> HIDE DEF I, last
<1>3. I # {} => Min(I) \in 1 .. n
  BY <1>2, SmallestExists
<1> QED
  BY <1>3 DEF OutageIn, I, last

LEMMA OutageNext ==
    ASSUME NEW entries, NEW n \in Nat
    PROVE  OutageIn(entries, n + 1) =
             IF entries[n + 1].what = "closed" THEN 0
             ELSE IF entries[n + 1].what = "opened" /\ OutageIn(entries, n) = 0 THEN n + 1
             ELSE OutageIn(entries, n)
<1> DEFINE last == LastOf(entries, n, {"closed"})
           next == LastOf(entries, n + 1, {"closed"})
           I == {k \in last + 1 .. n : entries[k].what = "opened"}
           J == {k \in next + 1 .. n + 1 : entries[k].what = "opened"}
<1>1. last \in 0 .. n /\ next = IF entries[n + 1].what = "closed" THEN n + 1 ELSE last
  BY LastOfFacts, LastOfNext
<1>2. OutageIn(entries, n) = IF I # {} THEN Min(I) ELSE 0
  BY DEF OutageIn
<1>3. OutageIn(entries, n + 1) = IF J # {} THEN Min(J) ELSE 0
  BY DEF OutageIn
<1>4. I \in SUBSET (1 .. n)
  BY <1>1
<1>5. I # {} => Min(I) \in I /\ \A k \in I : Min(I) <= k
  <2> HIDE DEF I
  <2> QED
    BY <1>4, SmallestExists
<1>6. CASE entries[n + 1].what = "closed"
  <2>1. next = n + 1
    BY <1>1, <1>6
  <2>2. J = {}
    BY <2>1
  <2> QED
    BY <1>3, <1>6, <2>2
<1>7. CASE entries[n + 1].what = "opened"
  <2>1. next = last
    BY <1>1, <1>7
  <2>2. J = I \cup {n + 1}
    BY <1>1, <1>7, <2>1
  <2> HIDE DEF I, J
  <2>3. CASE I = {}
    <3>1. Min({n + 1}) = n + 1
      BY DEF Min
    <3> QED
      BY <1>2, <1>3, <1>7, <2>2, <2>3, <3>1
  <2>4. CASE I # {}
    <3>1. Min(I) \in I /\ \A k \in I : Min(I) <= k
      BY <1>5, <2>4
    <3>2. J \in SUBSET (1 .. n + 1) /\ J # {}
      BY <1>4, <2>2
    <3>3. Min(J) \in J /\ \A k \in J : Min(J) <= k
      <4>1. n + 1 \in Nat
        OBVIOUS
      <4> QED
        BY <3>2, <4>1, SmallestExists
    <3>4. Min(J) = Min(I)
      <4> DEFINE a == Min(I)
                 b == Min(J)
      <4>1. a \in I /\ b \in J /\ (\A k \in I : a <= k) /\ (\A k \in J : b <= k)
        BY <3>1, <3>3
      <4> HIDE DEF a, b
      <4>2. a \in 1 .. n /\ b <= a /\ (b \in I \/ b = n + 1)
        BY <1>4, <2>2, <4>1
      <4>3. b \in I
        BY <4>2
      <4>4. a <= b /\ b \in 1 .. n
        BY <1>4, <4>1, <4>3
      <4>5. a = b
        BY <4>2, <4>4
      <4> QED
        BY <4>5 DEF a, b
    <3>5. Min(I) # 0
      BY <1>4, <3>1
    <3> QED
      BY <1>2, <1>3, <1>7, <2>4, <3>2, <3>4, <3>5
  <2> QED
    BY <2>3, <2>4
<1>8. CASE entries[n + 1].what \notin {"closed", "opened"}
  <2>1. next = last
    BY <1>1, <1>8
  <2>2. J = I
    BY <1>1, <1>8, <2>1
  <2> HIDE DEF I, J
  <2> QED
    BY <1>2, <1>3, <1>8, <2>2
<1> QED
  BY <1>6, <1>7, <1>8

-----------------------------------------------------------------------------
(* The order of the lifecycle events.                                      *)

MayFollow(what, shown) ==
    CASE what = "half_open" -> shown = "OPEN"
      [] what = "closed" -> shown = "HALF_OPEN"
      [] what = "opened" -> shown # "OPEN"
      [] OTHER -> TRUE

Ordered(entries) ==
    /\ \A i \in 1 .. Len(entries) : MayFollow(entries[i].what, ShownIn(entries, i - 1))
    /\ ShownIn(entries, Len(entries)) = "CLOSED" <=> OutageIn(entries, Len(entries)) = 0

LEMMA OrderedNext ==
    ASSUME NEW S, NEW entries \in Seq(S), NEW e \in S, NEW more, more = Append(entries, e),
           Ordered(entries), MayFollow(e.what, ShownIn(entries, Len(entries)))
    PROVE  /\ Ordered(more)
           /\ ShownIn(more, Len(more)) =
                IF e.what \in Lifecycle THEN ShownBy(e.what) ELSE ShownIn(entries, Len(entries))
<1> DEFINE n == Len(entries)
<1>0. /\ GoesOn(entries, more) /\ Len(entries) \in Nat /\ Len(more) = Len(entries) + 1
      /\ more[Len(entries) + 1] = e
      /\ \A k \in 1 .. Len(entries) : more[k] = entries[k]
  BY DEF GoesOn
<1>1. /\ GoesOn(entries, more) /\ n \in Nat /\ Len(more) = n + 1 /\ more[n + 1] = e
      /\ \A k \in 1 .. n : more[k] = entries[k]
  BY <1>0
<1>2. ShownIn(more, n) = ShownIn(entries, n) /\ OutageIn(more, n) = OutageIn(entries, n)
  BY <1>1, ShownSame
<1>3. ShownIn(more, n + 1) = IF e.what \in Lifecycle THEN ShownBy(e.what) ELSE ShownIn(entries, n)
  BY <1>1, <1>2, ShownNext
<1>4. OutageIn(more, n + 1) = IF e.what = "closed" THEN 0
                              ELSE IF e.what = "opened" /\ OutageIn(entries, n) = 0 THEN n + 1
                              ELSE OutageIn(entries, n)
  BY <1>1, <1>2, OutageNext
<1>5. ASSUME NEW i \in 1 .. Len(more) PROVE MayFollow(more[i].what, ShownIn(more, i - 1))
  <2>1. CASE i \in 1 .. n
    <3>1. i - 1 \in 0 .. n /\ more[i] = entries[i]
      BY <1>1, <2>1
    <3>2. ShownIn(more, i - 1) = ShownIn(entries, i - 1)
      BY <1>1, <3>1, ShownSame
    <3> QED
      BY <2>1, <3>1, <3>2 DEF Ordered
  <2>2. CASE i = n + 1
    <3>1. i - 1 = n /\ more[i] = e
      BY <1>1, <2>2
    <3> QED
      BY <1>2, <3>1
  <2> QED
    BY <1>1, <2>1, <2>2
<1>6. ShownIn(more, n + 1) = "CLOSED" <=> OutageIn(more, n + 1) = 0
  BY <1>1, <1>3, <1>4 DEF Ordered, MayFollow, Lifecycle, ShownBy
<1> QED
  BY <1>1, <1>3, <1>5, <1>6 DEF Ordered

-----------------------------------------------------------------------------
(* What a step writes into the log.                                        *)

LogEntries ==
    [what : EventNames \cup Outcomes \cup {"refused"}, number : Nat, at : Nat, began : Nat]

LogType ==
    /\ RejectionType
    /\ opened_at \in Nat /\ probe_in_flight \in BOOLEAN /\ now \in Nat
    /\ calls \in 0 .. MaxCalls
    /\ log \in Seq(LogEntries)
    /\ entered \in [Tasks -> 0 .. Len(log)]

LEMMA EntryFacts ==
    ASSUME LogType, NEW what \in EventNames \cup Outcomes \cup {"refused"},
           NEW number \in Nat, NEW began \in Nat
    PROVE  LET e == Entry(what, number, began)
           IN /\ e \in LogEntries
              /\ e.what = what /\ e.number = number /\ e.at = now /\ e.began = began
BY DEF Entry, LogEntries, LogType

LEMMA EmittedIs ==
    ASSUME NEW name, NEW number
    PROVE  /\ Emitted(<<>>) = <<>>
           /\ Emitted(Event(name, number)) = <<Entry(name, number, 0)>>
<1>1. Emitted(<<>>) = <<>>
  BY DEF Emitted
<1>2. Emitted(Event(name, number)) = <<Entry(name, number, 0)>>
  <2> DEFINE events == Event(name, number)
  <2>1. DOMAIN events = 1 .. 1 /\ events[1].name = name /\ events[1].number = number
    BY DEF Event
  <2> HIDE DEF events
  <2>2. Emitted(events) = [i \in 1 .. 1 |-> Entry(name, number, 0)]
    BY <2>1 DEF Emitted
  <2> QED
    BY <2>2 DEF events
<1> QED
  BY <1>1, <1>2

LEMMA AppendOne ==
    ASSUME NEW S, NEW entries \in Seq(S), NEW e \in S
    PROVE  entries \o <<e>> = Append(entries, e) /\ entries \o <<>> = entries
OBVIOUS

Said(t, outcome) == Append(log, Entry(outcome, 0, entered[t]))

(* The outcome changes nothing that can be seen ...                        *)
Passes(t, outcome) ==
    /\ ~CountsClosed(ticket[t], outcome)
    /\ log' = Said(t, outcome)
    /\ UNCHANGED <<state, epoch, rejections, window, consecutive_failures>>

(* ... or counts for a CLOSED circuit, which stays so ...                  *)
Adds(t, outcome) ==
    /\ CountsClosed(ticket[t], outcome) /\ ~Trips(outcome)
    /\ log' = Said(t, outcome)
    /\ UNCHANGED <<state, epoch, rejections>>
    /\ RecordClosed(outcome)

(* ... or opens ...                                                        *)
TripsNow(t, outcome) ==
    /\ CountsClosed(ticket[t], outcome) /\ Trips(outcome)
    /\ \E number \in Nat : log' = Append(Said(t, outcome), Entry("opened", number, 0))
    /\ RecordClosed(outcome)
    /\ MoveTo("OPEN")
    /\ rejected_emitted_at' = LongAgo
    /\ rejections_suppressed' = 0 /\ episode_rejections' = 0

(* ... or fails the probe ...                                              *)
Reopens(t, outcome) ==
    /\ ~CountsClosed(ticket[t], outcome)
    /\ log' = Append(Said(t, outcome), Entry("opened", 1, 0))
    /\ state = "HALF_OPEN" /\ MoveTo("OPEN")
    /\ UNCHANGED <<rejections, window>>

(* ... or closes the circuit.                                              *)
Closes(t, outcome) ==
    /\ ~CountsClosed(ticket[t], outcome)
    /\ log' = Append(Said(t, outcome), Entry("closed", episode_rejections, 0))
    /\ state = "HALF_OPEN" /\ Close

LEMMA SaidFacts ==
    ASSUME LogType, NEW t \in Tasks, NEW outcome \in Outcomes
    PROVE  /\ Entry(outcome, 0, entered[t]) \in LogEntries
           /\ Said(t, outcome) \in Seq(LogEntries)
           /\ Len(Said(t, outcome)) = Len(log) + 1
<1>1. entered[t] \in Nat
  BY DEF LogType
<1>2. Entry(outcome, 0, entered[t]) \in LogEntries
  BY <1>1, EntryFacts
<1> QED
  BY <1>2 DEF Said, LogType

LEMMA ReturnIs ==
    ASSUME Inv, LogType, NEW t \in Tasks, NEW outcome \in Outcomes, Return(t, outcome)
    PROVE  \/ Passes(t, outcome) \/ Adds(t, outcome) \/ TripsNow(t, outcome)
           \/ Reopens(t, outcome) \/ Closes(t, outcome)
<1> DEFINE n == ticket[t]
           said == Said(t, outcome)
<1>1. /\ Record(n, outcome)
      /\ log' = said \o Emitted(RecordEvents(n, outcome))
  BY DEF Return, Said
<1>2. said \in Seq(LogEntries)
  BY SaidFacts
<1>3. ASSUME NEW name, NEW number, RecordEvents(n, outcome) = Event(name, number)
      PROVE  log' = Append(said, Entry(name, number, 0))
  <2>1. log' = said \o <<Entry(name, number, 0)>>
    BY <1>1, <1>3, EmittedIs
  <2> HIDE DEF said
  <2> QED
    BY <1>2, <2>1
<1>4. ASSUME RecordEvents(n, outcome) = <<>>
      PROVE  log' = said
  <2>1. log' = said \o <<>>
    BY <1>1, <1>4, EmittedIs
  <2> HIDE DEF said
  <2> QED
    BY <1>2, <2>1
<1>5. n \in Int /\ epoch # epoch + Probe
  BY Numbers DEF Inv
<1>6. CASE CountsClosed(n, outcome) /\ RecordClosed(outcome)
  <2>1. ~CountsProbe(n)
    BY <1>5, <1>6 DEF CountsClosed, CountsProbe
  <2>2. CASE Trips(outcome)
    <3>1. \E number \in Nat : log' = Append(said, Entry("opened", number, 0))
      <4>1. (IF RateMode THEN 0 ELSE consecutive_failures + 1) \in Nat
        BY DEF Inv, CoreType, CounterType
      <4>2. RecordEvents(n, outcome) =
              Event("opened", IF RateMode THEN 0 ELSE consecutive_failures + 1)
        BY <1>6, <2>1, <2>2 DEF RecordEvents
      <4> QED
        BY <1>3, <4>1, <4>2
    <3>2. state = "CLOSED"
      BY <1>6 DEF CountsClosed, Inv, TicketInv
    <3> QED
      BY <1>6, <2>2, <3>1, <3>2 DEF TripsNow, RecordClosed, EnterOpen
  <2>3. CASE ~Trips(outcome)
    <3>1. RecordEvents(n, outcome) = <<>>
      BY <2>1, <2>3 DEF RecordEvents
    <3> QED
      BY <1>4, <1>6, <2>3, <3>1 DEF Adds, RecordClosed, machine
  <2> QED
    BY <2>2, <2>3
<1>7. CASE CountsProbe(n) /\ RecordProbe(outcome)
  <2>1. ~CountsClosed(n, outcome) /\ state = "HALF_OPEN"
    BY <1>5, <1>7 DEF CountsClosed, CountsProbe, Inv, TicketInv
  <2>2. CASE outcome = "failure" /\ EnterOpen /\ UNCHANGED window
    <3>1. RecordEvents(n, outcome) = Event("opened", 1)
      BY <1>7, <2>1, <2>2 DEF RecordEvents
    <3> QED
      BY <1>3, <2>1, <2>2, <3>1 DEF Reopens, EnterOpen
  <2>3. CASE outcome = "success" /\ RecordProbeSuccess /\ LastSuccessNeeded
    <3>1. RecordEvents(n, outcome) = Event("closed", episode_rejections)
      BY <1>7, <2>1, <2>3 DEF RecordEvents
    <3> QED
      BY <1>3, <2>1, <2>3, <3>1 DEF Closes, RecordProbeSuccess
  <2>4. CASE outcome = "success" /\ RecordProbeSuccess /\ ~LastSuccessNeeded
    <3>1. RecordEvents(n, outcome) = <<>>
      BY <2>1, <2>4 DEF RecordEvents
    <3> QED
      BY <1>4, <2>1, <2>4, <3>1 DEF Passes, RecordProbeSuccess, machine
  <2>5. CASE outcome = "foreign" /\ UNCHANGED <<machine, counters, opened_at, rejections, window>>
    <3>1. RecordEvents(n, outcome) = <<>>
      BY <2>1, <2>5 DEF RecordEvents
    <3> QED
      BY <1>4, <2>1, <2>5, <3>1 DEF Passes, machine, counters
  <2> QED
    BY <1>7, <2>2, <2>3, <2>4, <2>5 DEF RecordProbe
<1>8. CASE ~CountsClosed(n, outcome) /\ ~CountsProbe(n) /\ UNCHANGED circuit
  <2>1. RecordEvents(n, outcome) = <<>>
    BY <1>8 DEF RecordEvents
  <2> QED
    BY <1>4, <1>8, <2>1 DEF Passes, circuit, machine, counters
<1> QED
  BY <1>1, <1>6, <1>7, <1>8 DEF Record

(* A refusal, with or without its event.                                   *)
Refused == Entry("refused", 0, 0)

Reported == Append(log, Entry("rejected", rejections_suppressed, 0))

LEMMA RefuseIs ==
    ASSUME Inv, LogType, NEW t \in Tasks, Refuse(t)
    PROVE  /\ state # "CLOSED"
           /\ UNCHANGED <<state, epoch, now, window, ticket, entered>>
           /\ episode_rejections' = episode_rejections + 1
           /\ calls' = calls + 1 /\ calls < MaxCalls
           /\ \/ /\ Suppressed
                 /\ log' = Append(log, Refused)
                 /\ rejections_suppressed' = rejections_suppressed + 1
                 /\ UNCHANGED rejected_emitted_at
              \/ /\ ~Suppressed
                 /\ log' = Append(Reported, Refused)
                 /\ rejections_suppressed' = 0
                 /\ rejected_emitted_at' = now
<1>1. state # "CLOSED"
  BY DEF Refuse, Refuses
<1>2. /\ UNCHANGED <<state, epoch, now, window, ticket, entered>>
      /\ calls' = calls + 1 /\ calls < MaxCalls
      /\ episode_rejections' = episode_rejections + 1
      /\ log' = Append(log \o Emitted(RejectEvents), Refused)
  BY DEF Refuse, Begin, Reject, machine, Refused
<1>3. CASE Suppressed
  <2>1. Emitted(RejectEvents) = <<>>
    BY <1>3, EmittedIs DEF RejectEvents
  <2>2. log \o Emitted(RejectEvents) = log
    BY <2>1 DEF LogType
  <2> QED
    BY <1>1, <1>2, <1>3, <2>2 DEF Refuse, Reject
<1>4. CASE ~Suppressed
  <2>1. Emitted(RejectEvents) = <<Entry("rejected", rejections_suppressed, 0)>>
    BY <1>4, EmittedIs DEF RejectEvents
  <2>2. Entry("rejected", rejections_suppressed, 0) \in LogEntries
    BY EntryFacts DEF LogType, RejectionType, EventNames
  <2>3. log \o Emitted(RejectEvents) = Reported
    BY <2>1, <2>2, AppendOne DEF LogType, Reported
  <2> QED
    BY <1>1, <1>2, <1>4, <2>3 DEF Refuse, Reject
<1> QED
  BY <1>3, <1>4

-----------------------------------------------------------------------------
(* Types.                                                                  *)

LEMMA InitLogType == Init => LogType
<1> SUFFICES ASSUME Init PROVE LogType
  OBVIOUS
<1>1. LongAgo \in Int
  BY CircuitAssumption DEF LongAgo
<1>2. RejectionType
  BY <1>1 DEF Init, CircuitInit, RejectionType
<1>3. log \in Seq(LogEntries) /\ Len(log) = 0
  BY DEF Init
<1>4. entered \in [Tasks -> 0 .. Len(log)]
  <2>1. 0 \in 0 .. Len(log)
    BY <1>3
  <2> QED
    BY <2>1 DEF Init
<1>5. opened_at \in Nat /\ now \in Nat /\ calls \in 0 .. MaxCalls
  BY TaskAssumption DEF Init, CircuitInit
<1>6. probe_in_flight \in BOOLEAN
  BY Zenon DEF Init, CircuitInit
<1> QED
  BY <1>2, <1>3, <1>4, <1>5, <1>6 DEF LogType

LEMMA ReturnType ==
    ASSUME Inv, LogType, NEW t \in Tasks, NEW outcome \in Outcomes, Return(t, outcome)
    PROVE  LogType'
<1>1. /\ Said(t, outcome) \in Seq(LogEntries) /\ Len(Said(t, outcome)) = Len(log) + 1
  BY SaidFacts
<1>2. ASSUME NEW name \in EventNames, NEW number \in Nat,
             log' = Append(Said(t, outcome), Entry(name, number, 0))
      PROVE  log' \in Seq(LogEntries) /\ Len(log') = Len(log) + 2
  <2>1. Entry(name, number, 0) \in LogEntries
    BY EntryFacts
  <2>2. Len(log) \in Nat
    BY DEF LogType
  <2> QED
    BY <1>1, <1>2, <2>1, <2>2
<1>3. episode_rejections \in Nat /\ "opened" \in EventNames /\ "closed" \in EventNames /\ LongAgo \in Int
  BY CircuitAssumption DEF LogType, RejectionType, EventNames, LongAgo
<1>4. log' \in Seq(LogEntries) /\ Len(log') >= Len(log) /\ Len(log) \in Nat
  <2>1. \/ log' = Said(t, outcome)
        \/ \E name \in EventNames, number \in Nat :
             log' = Append(Said(t, outcome), Entry(name, number, 0))
    BY <1>3, ReturnIs DEF Passes, Adds, TripsNow, Reopens, Closes
  <2>2. Len(log) \in Nat
    BY DEF LogType
  <2> QED
    BY <1>1, <1>2, <2>1, <2>2
<1>5. RejectionType'
  <2>1. \/ UNCHANGED rejections
        \/ rejected_emitted_at' = LongAgo /\ rejections_suppressed' = 0 /\ episode_rejections' = 0
    BY ReturnIs DEF Passes, Adds, TripsNow, Reopens, Closes, Close
  <2> QED
    BY <1>3, <2>1 DEF LogType, RejectionType, rejections
<1>6. /\ UNCHANGED <<now, calls>>
      /\ entered' = [entered EXCEPT ![t] = 0]
      /\ opened_at' \in {opened_at, now} /\ probe_in_flight' \in BOOLEAN
  <2>1. Record(ticket[t], outcome)
    BY DEF Return
  <2>2. opened_at' \in {opened_at, now}
    <3>1. CASE RecordClosed(outcome)
      BY <3>1 DEF RecordClosed, EnterOpen
    <3>2. CASE RecordProbe(outcome)
      BY <3>2 DEF RecordProbe, RecordProbeSuccess, Close, EnterOpen
    <3>3. CASE UNCHANGED circuit
      BY <3>3 DEF circuit
    <3> QED
      BY <2>1, <3>1, <3>2, <3>3 DEF Record
  <2>3. probe_in_flight' \in BOOLEAN
    BY <2>1 DEF Record, RecordClosed, RecordProbe, circuit, LogType
  <2> QED
    BY <2>2, <2>3 DEF Return
<1>7. entered' \in [Tasks -> 0 .. Len(log')]
  <2>1. 0 .. Len(log) \subseteq 0 .. Len(log') /\ 0 \in 0 .. Len(log')
    BY <1>4
  <2> QED
    BY <1>6, <2>1 DEF LogType
<1> QED
  BY <1>4, <1>5, <1>6, <1>7 DEF LogType

LEMMA StepType == Inv /\ LogType /\ [Next]_vars => LogType'
<1> SUFFICES ASSUME Inv, LogType, [Next]_vars PROVE LogType'
  OBVIOUS
<1>0. Len(log) \in Nat /\ 0 .. Len(log) \subseteq Nat
  BY DEF LogType
<1>1. ASSUME NEW t \in Tasks, Refuse(t) PROVE LogType'
  <2>1. /\ UNCHANGED <<now, entered>> /\ calls' \in 0 .. MaxCalls
        /\ episode_rejections' \in Nat /\ rejections_suppressed' \in Nat
        /\ rejected_emitted_at' \in Int
    BY <1>1, RefuseIs, TaskAssumption DEF LogType, RejectionType
  <2>2. UNCHANGED <<opened_at, probe_in_flight>>
    BY <1>1 DEF Refuse, Reject
  <2>3. log' \in Seq(LogEntries) /\ Len(log') >= Len(log)
    <3>1. /\ Refused \in LogEntries
          /\ Entry("rejected", rejections_suppressed, 0) \in LogEntries
      BY EntryFacts DEF LogType, RejectionType, EventNames, Refused
    <3>2. Reported \in Seq(LogEntries) /\ Len(Reported) = Len(log) + 1
      BY <3>1 DEF Reported, LogType
    <3>3. log' = Append(log, Refused) \/ log' = Append(Reported, Refused)
      BY <1>1, RefuseIs
    <3>4. CASE log' = Append(log, Refused)
      BY <1>0, <3>1, <3>4 DEF LogType
    <3>5. CASE log' = Append(Reported, Refused)
      <4> HIDE DEF LogType
      <4> QED
        BY <1>0, <3>1, <3>2, <3>5
    <3> QED
      BY <3>3, <3>4, <3>5
  <2>4. entered' \in [Tasks -> 0 .. Len(log')]
    <3>1. 0 .. Len(log) \subseteq 0 .. Len(log')
      BY <1>0, <2>3
    <3> QED
      BY <2>1, <3>1 DEF LogType
  <2> QED
    BY <2>1, <2>2, <2>3, <2>4 DEF LogType, RejectionType
<1>2. ASSUME NEW t \in Tasks, TurnHalfOpen(t) PROVE LogType'
  <2>1. /\ UNCHANGED <<rejections, opened_at, now>> /\ probe_in_flight' = TRUE
        /\ calls' \in 0 .. MaxCalls
        /\ entered' = [entered EXCEPT ![t] = LastTransition(log', Len(log'))]
    BY <1>2, TaskAssumption DEF TurnHalfOpen, HalfOpen, Begin, LogType
  <2>2. Entry("half_open", 0, 0) \in LogEntries
    BY EntryFacts DEF EventNames
  <2>3. log' = Append(log, Entry("half_open", 0, 0))
    BY <1>2, <2>2, EmittedIs, AppendOne DEF TurnHalfOpen, HalfOpenEvents, LogType
  <2>4. log' \in Seq(LogEntries) /\ Len(log') = Len(log) + 1
    BY <2>2, <2>3 DEF LogType
  <2>5. LastTransition(log', Len(log')) \in 0 .. Len(log')
    <3>1. Len(log') \in Nat
      BY <1>0, <2>4
    <3> QED
      BY <3>1, LastTransitionOf, LastOfFacts
  <2>6. entered' \in [Tasks -> 0 .. Len(log')]
    <3>1. 0 .. Len(log) \subseteq 0 .. Len(log')
      BY <1>0, <2>4
    <3> QED
      BY <2>1, <2>5, <3>1 DEF LogType
  <2> QED
    BY <2>1, <2>4, <2>6 DEF LogType, RejectionType, rejections
<1>3. ASSUME NEW t \in Tasks, Enter(t) PROVE LogType'
  <2>1. /\ UNCHANGED <<rejections, opened_at, now, log>>
        /\ calls' \in 0 .. MaxCalls
        /\ entered' = [entered EXCEPT ![t] = LastTransition(log, Len(log))]
    BY <1>3, TaskAssumption DEF Enter, Admit, Begin, LogType
  <2>3. probe_in_flight' \in BOOLEAN
    <3>1. probe_in_flight' = IF closed_ticket # NoTicket THEN probe_in_flight ELSE TRUE
      BY <1>3 DEF Enter, Admit
    <3> QED
      BY <3>1 DEF LogType
  <2>2. LastTransition(log, Len(log)) \in 0 .. Len(log)
    BY <1>0, LastTransitionOf, LastOfFacts
  <2> QED
    BY <2>1, <2>2, <2>3 DEF LogType, RejectionType, rejections
<1>4. CASE Tick
  BY <1>4 DEF Tick, circuit, LogType, RejectionType, rejections
<1>5. CASE UNCHANGED vars
  BY <1>5 DEF vars, circuit, LogType, RejectionType, rejections
<1> QED
  BY <1>1, <1>2, <1>3, <1>4, <1>5, ReturnType DEF Next, Finished

LEMMA TurnIs ==
    ASSUME LogType, NEW t \in Tasks, TurnHalfOpen(t)
    PROVE  /\ Entry("half_open", 0, 0) \in LogEntries
           /\ log' = Append(log, Entry("half_open", 0, 0))
           /\ state = "OPEN" /\ MoveTo("HALF_OPEN")
           /\ UNCHANGED <<rejections, window, now>>
           /\ ticket' = [ticket EXCEPT ![t] = epoch' + Probe]
           /\ entered' = [entered EXCEPT ![t] = LastTransition(log', Len(log'))]
<1>1. Entry("half_open", 0, 0) \in LogEntries
  BY EntryFacts DEF EventNames
<1>2. log' = Append(log, Entry("half_open", 0, 0))
  BY <1>1, EmittedIs, AppendOne DEF TurnHalfOpen, HalfOpenEvents, LogType
<1> QED
  BY <1>1, <1>2 DEF TurnHalfOpen, TurnsHalfOpen, HalfOpen, Begin

(* What can be seen of a step, log and state.                              *)
Silent == UNCHANGED <<log, state, epoch, rejections, window, consecutive_failures>>

LEMMA StepIs ==
    ASSUME Inv, LogType, [Next]_vars
    PROVE  \/ Silent
           \/ \E t \in Tasks : Refuse(t) \/ TurnHalfOpen(t)
           \/ \E t \in Tasks, outcome \in Outcomes :
                /\ ticket[t] # NoTicket
                /\ \/ Passes(t, outcome) \/ Adds(t, outcome) \/ TripsNow(t, outcome)
                   \/ Reopens(t, outcome) \/ Closes(t, outcome)
<1>1. ASSUME NEW t \in Tasks, Enter(t) PROVE Silent
  BY <1>1 DEF Enter, Admit, Silent, machine, counters
<1>2. CASE Tick \/ UNCHANGED vars
  BY <1>2 DEF Tick, vars, circuit, Silent, machine, counters
<1>3. ASSUME NEW t \in Tasks, NEW outcome \in Outcomes, Return(t, outcome)
      PROVE  ticket[t] # NoTicket
  BY <1>3 DEF Return
<1> QED
  BY <1>1, <1>2, <1>3, ReturnIs DEF Next, Finished

-----------------------------------------------------------------------------
(* Lifecycle events come in order, and show the state.                     *)

OrderedAs(entries, s) ==
    /\ entries \in Seq(LogEntries)
    /\ Ordered(entries)
    /\ ShownIn(entries, Len(entries)) = s

LEMMA Follow ==
    ASSUME NEW entries, NEW s, OrderedAs(entries, s), NEW e \in LogEntries, MayFollow(e.what, s)
    PROVE  OrderedAs(Append(entries, e), IF e.what \in Lifecycle THEN ShownBy(e.what) ELSE s)
<1>1. Append(entries, e) \in Seq(LogEntries)
  BY DEF OrderedAs
<1> QED
  BY <1>1, OrderedNext DEF OrderedAs

LEMMA NoLifecycle ==
    \A what \in Outcomes \cup {"refused", "rejected"} :
        what \notin Lifecycle /\ \A s : MayFollow(what, s)
BY DEF Outcomes, Lifecycle, MayFollow

LEMMA InitOrdered == Init => OrderedAs(log, state)
<1> SUFFICES ASSUME Init PROVE OrderedAs(log, state)
  OBVIOUS
<1>1. log = <<>> /\ state = "CLOSED" /\ Len(log) = 0 /\ log \in Seq(LogEntries)
  BY DEF Init, CircuitInit
<1>2. LastOf(log, 0, Lifecycle) = 0 /\ OutageIn(log, 0) = 0
  BY LastOfFacts, OutageFacts
<1>3. ShownIn(log, 0) = "CLOSED"
  BY <1>2 DEF ShownIn
<1> QED
  BY <1>1, <1>2, <1>3 DEF OrderedAs, Ordered

(* The log in the middle of a step.                                        *)
LEMMA SaidOrdered ==
    ASSUME LogType, OrderedAs(log, state), NEW t \in Tasks, NEW outcome \in Outcomes
    PROVE  OrderedAs(Said(t, outcome), state)
<1>1. entered[t] \in Nat
  BY DEF LogType
<1>2. LET e == Entry(outcome, 0, entered[t]) IN e \in LogEntries /\ e.what = outcome
  BY <1>1, EntryFacts
<1> QED
  BY <1>2, Follow, NoLifecycle DEF Said

LEMMA ReportedOrdered ==
    ASSUME LogType, OrderedAs(log, state)
    PROVE  OrderedAs(Reported, state)
<1>1. LET e == Entry("rejected", rejections_suppressed, 0)
      IN e \in LogEntries /\ e.what = "rejected"
  BY EntryFacts DEF LogType, RejectionType, EventNames
<1> QED
  BY <1>1, Follow, NoLifecycle DEF Reported

LEMMA StepOrdered ==
    ASSUME Inv, LogType, OrderedAs(log, state), [Next]_vars
    PROVE  OrderedAs(log, state)'
<1> SUFFICES OrderedAs(log', state')
  BY DEF OrderedAs, Ordered
<1>1. CASE Silent
  BY <1>1 DEF Silent
<1>2. ASSUME NEW t \in Tasks, Refuse(t) PROVE OrderedAs(log', state')
  <2>1. Refused \in LogEntries /\ Refused.what = "refused"
    BY EntryFacts DEF Refused
  <2>2. OrderedAs(Append(log, Refused), state)
    BY <2>1, Follow, NoLifecycle
  <2>3. OrderedAs(Reported, state)
    BY ReportedOrdered
  <2>4. OrderedAs(Append(Reported, Refused), state)
    BY <2>1, <2>3, Follow, NoLifecycle
  <2> QED
    BY <1>2, <2>2, <2>4, RefuseIs
<1>3. ASSUME NEW t \in Tasks, TurnHalfOpen(t) PROVE OrderedAs(log', state')
  <2> DEFINE e == Entry("half_open", 0, 0)
  <2>1. e \in LogEntries /\ e.what = "half_open"
    BY EntryFacts DEF EventNames
  <2>2. log' = Append(log, e) /\ state = "OPEN" /\ state' = "HALF_OPEN"
    BY <1>3, TurnIs DEF MoveTo
  <2> HIDE DEF e
  <2> QED
    BY <2>1, <2>2, Follow DEF MayFollow, Lifecycle, ShownBy
<1>4. ASSUME NEW t \in Tasks, NEW outcome \in Outcomes
      PROVE  OrderedAs(Said(t, outcome), state)
  BY SaidOrdered
<1>5. ASSUME NEW t \in Tasks, NEW outcome \in Outcomes, NEW what \in {"opened", "closed"},
             NEW number \in Nat, log' = Append(Said(t, outcome), Entry(what, number, 0)),
             MayFollow(what, state), state' = ShownBy(what)
      PROVE  OrderedAs(log', state')
  <2>1. LET e == Entry(what, number, 0) IN e \in LogEntries /\ e.what = what
    BY EntryFacts DEF EventNames
  <2> QED
    BY <1>4, <1>5, <2>1, Follow DEF Lifecycle
<1>6. ASSUME NEW t \in Tasks, NEW outcome \in Outcomes,
             Passes(t, outcome) \/ Adds(t, outcome)
      PROVE  OrderedAs(log', state')
  BY <1>4, <1>6 DEF Passes, Adds
<1>7. ASSUME NEW t \in Tasks, NEW outcome \in Outcomes, TripsNow(t, outcome)
      PROVE  OrderedAs(log', state')
  <2>1. state = "CLOSED" /\ state' = "OPEN"
    BY <1>7 DEF TripsNow, CountsClosed, Inv, TicketInv, MoveTo
  <2> QED
    BY <1>5, <1>7, <2>1 DEF TripsNow, MayFollow, ShownBy
<1>8. ASSUME NEW t \in Tasks, NEW outcome \in Outcomes, Reopens(t, outcome)
      PROVE  OrderedAs(log', state')
  BY <1>5, <1>8 DEF Reopens, MoveTo, MayFollow, ShownBy
<1>9. ASSUME NEW t \in Tasks, NEW outcome \in Outcomes, Closes(t, outcome)
      PROVE  OrderedAs(log', state')
  <2>1. episode_rejections \in Nat
    BY DEF LogType, RejectionType
  <2> QED
    BY <1>5, <1>9, <2>1 DEF Closes, Close, MoveTo, MayFollow, ShownBy
<1> QED
  BY <1>1, <1>2, <1>3, <1>6, <1>7, <1>8, <1>9, StepIs

-----------------------------------------------------------------------------
(* Refusals and their events.                                              *)

WithinOf(entries, lo, hi, what) == {i \in lo .. hi : entries[i].what = what}

(* The entries of the outage that a log ends in.                           *)
OutageOf(entries, what) ==
    WithinOf(entries, OutageIn(entries, Len(entries)), Len(entries), what)

LEMMA WithinSame ==
    ASSUME NEW entries, NEW more, GoesOn(entries, more), NEW lo \in Nat, lo # 0,
           NEW hi \in 0 .. Len(entries), NEW what
    PROVE  /\ WithinOf(more, lo, hi, what) = WithinOf(entries, lo, hi, what)
           /\ \A i \in WithinOf(entries, lo, hi, what) : more[i] = entries[i]
<1>1. \A i \in lo .. hi : more[i] = entries[i]
  BY DEF GoesOn
<1> QED
  BY <1>1 DEF WithinOf

(* A log that was appended to.                                             *)
LEMMA Appended ==
    ASSUME NEW entries, NEW s, OrderedAs(entries, s), NEW e \in LogEntries
    PROVE  LET n == Len(entries)
               more == Append(entries, e)
           IN /\ n \in Nat /\ Len(more) = n + 1 /\ more[n + 1] = e
              /\ GoesOn(entries, more)
              /\ OutageIn(entries, n) \in 0 .. n
              /\ s = "CLOSED" <=> OutageIn(entries, n) = 0
              /\ \A i \in 0 .. n : OutageIn(more, i) = OutageIn(entries, i)
              /\ OutageIn(more, n + 1) =
                   IF e.what = "closed" THEN 0
                   ELSE IF e.what = "opened" /\ s = "CLOSED" THEN n + 1
                   ELSE OutageIn(entries, n)
<1> DEFINE n == Len(entries)
           more == Append(entries, e)
<1>1. n \in Nat /\ Len(more) = n + 1 /\ more[n + 1] = e /\ GoesOn(entries, more)
  BY DEF OrderedAs, GoesOn
<1>2. s = "CLOSED" <=> OutageIn(entries, n) = 0
  BY DEF OrderedAs, Ordered
<1> HIDE DEF more, n
<1>3. n = Len(entries)
  BY DEF n
<1>4. \A i \in 0 .. n : OutageIn(more, i) = OutageIn(entries, i)
  BY <1>1, <1>3, ShownSame
<1>5. OutageIn(entries, n) \in 0 .. n /\ OutageIn(more, n) = OutageIn(entries, n)
  BY <1>1, <1>4, OutageFacts
<1>6. OutageIn(more, n + 1) = IF more[n + 1].what = "closed" THEN 0
                              ELSE IF more[n + 1].what = "opened" /\ OutageIn(more, n) = 0 THEN n + 1
                              ELSE OutageIn(more, n)
  BY <1>1, OutageNext
<1> QED
  BY <1>1, <1>2, <1>4, <1>5, <1>6 DEF more, n

(* The entries of an outage that goes on.                                  *)
LEMMA OutageGoesOn ==
    ASSUME NEW entries, NEW s, OrderedAs(entries, s), s # "CLOSED",
           NEW e \in LogEntries, e.what # "closed", NEW what
    PROVE  LET n == Len(entries)
               more == Append(entries, e)
           IN /\ OutageOf(entries, what) \in SUBSET (1 .. n)
              /\ \A i \in OutageOf(entries, what) : more[i] = entries[i]
              /\ OutageOf(more, what) =
                   IF e.what = what THEN OutageOf(entries, what) \cup {n + 1}
                                    ELSE OutageOf(entries, what)
<1> DEFINE n == Len(entries)
           more == Append(entries, e)
           start == OutageIn(entries, n)
<1>1. /\ n \in Nat /\ Len(more) = n + 1 /\ more[n + 1] = e /\ GoesOn(entries, more)
      /\ start \in 1 .. n
      /\ OutageIn(more, n + 1) = start
  BY Appended
<1>2. OutageOf(entries, what) = WithinOf(entries, start, n, what)
  BY DEF OutageOf
<1>3. OutageOf(more, what) = WithinOf(more, start, n + 1, what)
  BY <1>1 DEF OutageOf
<1> HIDE DEF more, start
<1>4. /\ WithinOf(more, start, n, what) = WithinOf(entries, start, n, what)
      /\ \A i \in WithinOf(entries, start, n, what) : more[i] = entries[i]
  BY <1>1, WithinSame
<1>5. WithinOf(more, start, n + 1, what) =
        IF e.what = what THEN WithinOf(more, start, n, what) \cup {n + 1}
                         ELSE WithinOf(more, start, n, what)
  <2> HIDE DEF n
  <2>1. start .. n + 1 = (start .. n) \cup {n + 1}
    BY <1>1
  <2> QED
    BY <1>1, <2>1 DEF WithinOf
<1>6. WithinOf(entries, start, n, what) \in SUBSET (1 .. n)
  BY <1>1 DEF WithinOf
<1> QED
  BY <1>2, <1>3, <1>4, <1>5, <1>6 DEF more

(* A new outage has none.                                                  *)
LEMMA OutageBegins ==
    ASSUME NEW entries, OrderedAs(entries, "CLOSED"), NEW e \in LogEntries, e.what = "opened",
           NEW what, what # "opened"
    PROVE  OutageOf(Append(entries, e), what) = {}
<1> DEFINE n == Len(entries)
           more == Append(entries, e)
<1>1. n \in Nat /\ Len(more) = n + 1 /\ more[n + 1] = e /\ OutageIn(more, n + 1) = n + 1
  BY Appended
<1>2. OutageOf(more, what) = WithinOf(more, n + 1, n + 1, what)
  BY <1>1 DEF OutageOf
<1> HIDE DEF more, n
<1> QED
  BY <1>1, <1>2 DEF WithinOf, more

-----------------------------------------------------------------------------
(* Rejected events are spaced.                                             *)

SpacedIn(entries, S) ==
    \A j, k \in S : j < k => entries[k].at - entries[j].at >= EmitInterval

ReportsAt(entries, i) == WithinOf(entries, OutageIn(entries, i), i, "rejected")

(* At every refusal ...                                                    *)
SpacedSoFar(entries) ==
    \A i \in 1 .. Len(entries) : entries[i].what = "refused" =>
        /\ OutageIn(entries, i) # 0
        /\ ReportsAt(entries, i) # {} /\ SpacedIn(entries, ReportsAt(entries, i))

(* ... and since: emitted is the time of the last one, if there is one.    *)
SpacedSince(entries, emitted) ==
    LET reports == OutageOf(entries, "rejected")
    IN /\ reports # {} \/ emitted = LongAgo
       /\ SpacedIn(entries, reports)
       /\ \A k \in reports : entries[k].at <= emitted

SpacedAs(entries, s, emitted) ==
    /\ SpacedSoFar(entries)
    /\ s # "CLOSED" => SpacedSince(entries, emitted)

LEMMA SoFarKept ==
    ASSUME NEW entries, NEW s, OrderedAs(entries, s), NEW e \in LogEntries,
           SpacedSoFar(entries), NEW i \in 1 .. Len(entries),
           Append(entries, e)[i].what = "refused"
    PROVE  LET more == Append(entries, e)
           IN /\ OutageIn(more, i) # 0
              /\ ReportsAt(more, i) # {} /\ SpacedIn(more, ReportsAt(more, i))
<1> DEFINE n == Len(entries)
           more == Append(entries, e)
           start == OutageIn(entries, i)
<1>1. n \in Nat /\ GoesOn(entries, more) /\ OutageIn(more, i) = start /\ i \in 1 .. n
  BY Appended
<1>2. more[i] = entries[i]
  BY <1>1 DEF GoesOn
<1>3. start \in 0 .. i
  BY <1>1, OutageFacts
<1> HIDE DEF more, start
<1>4. /\ start # 0
      /\ WithinOf(entries, start, i, "rejected") # {}
      /\ SpacedIn(entries, WithinOf(entries, start, i, "rejected"))
  BY <1>2 DEF SpacedSoFar, ReportsAt, start, more
<1>5. /\ WithinOf(more, start, i, "rejected") = WithinOf(entries, start, i, "rejected")
      /\ \A k \in WithinOf(entries, start, i, "rejected") : more[k] = entries[k]
  BY <1>1, <1>3, <1>4, WithinSame
<1> QED
  BY <1>1, <1>4, <1>5 DEF SpacedIn, ReportsAt, more

(* What is neither a refusal nor its event.                                *)
LEMMA SpacedElse ==
    ASSUME NEW entries, NEW s, OrderedAs(entries, s), NEW e \in LogEntries,
           e.what \notin {"refused", "rejected", "closed"}, NEW emitted, SpacedAs(entries, s, emitted),
           NEW r, r # "CLOSED" => s # "CLOSED"
    PROVE  SpacedAs(Append(entries, e), r, emitted)
<1> DEFINE n == Len(entries)
           more == Append(entries, e)
<1>1. n \in Nat /\ Len(more) = n + 1 /\ more[n + 1] = e
  BY Appended
<1>2. SpacedSoFar(more)
  <2> SUFFICES ASSUME NEW i \in 1 .. n + 1, more[i].what = "refused"
               PROVE  /\ OutageIn(more, i) # 0
                      /\ ReportsAt(more, i) # {} /\ SpacedIn(more, ReportsAt(more, i))
    BY <1>1 DEF SpacedSoFar
  <2>1. i \in 1 .. n
    BY <1>1
  <2> QED
    BY <2>1, SoFarKept DEF SpacedAs
<1>3. ASSUME r # "CLOSED" PROVE SpacedSince(more, emitted)
  <2>1. /\ OutageOf(more, "rejected") = OutageOf(entries, "rejected")
        /\ \A k \in OutageOf(entries, "rejected") : more[k] = entries[k]
    BY <1>3, OutageGoesOn
  <2>2. SpacedSince(entries, emitted)
    BY <1>3 DEF SpacedAs
  <2> HIDE DEF more
  <2> QED
    BY <2>1, <2>2 DEF SpacedSince, SpacedIn
<1> QED
  BY <1>2, <1>3 DEF SpacedAs

LEMMA SpacedOpening ==
    ASSUME NEW entries, OrderedAs(entries, "CLOSED"), NEW e \in LogEntries, e.what = "opened",
           NEW emitted, SpacedAs(entries, "CLOSED", emitted), NEW r
    PROVE  SpacedAs(Append(entries, e), r, LongAgo)
<1> DEFINE n == Len(entries)
           more == Append(entries, e)
<1>1. n \in Nat /\ Len(more) = n + 1 /\ more[n + 1] = e
  BY Appended
<1>2. SpacedSoFar(more)
  <2> SUFFICES ASSUME NEW i \in 1 .. n + 1, more[i].what = "refused"
               PROVE  /\ OutageIn(more, i) # 0
                      /\ ReportsAt(more, i) # {} /\ SpacedIn(more, ReportsAt(more, i))
    BY <1>1 DEF SpacedSoFar
  <2>1. i \in 1 .. n
    BY <1>1
  <2> QED
    BY <2>1, SoFarKept DEF SpacedAs
<1>3. OutageOf(more, "rejected") = {}
  BY OutageBegins
<1> HIDE DEF more
<1> QED
  BY <1>2, <1>3 DEF SpacedAs, SpacedSince, SpacedIn, more

LEMMA SpacedClosing ==
    ASSUME NEW entries, NEW s, OrderedAs(entries, s), NEW e \in LogEntries, e.what = "closed",
           NEW emitted, SpacedAs(entries, s, emitted), NEW later
    PROVE  SpacedAs(Append(entries, e), "CLOSED", later)
<1> DEFINE n == Len(entries)
           more == Append(entries, e)
<1>1. n \in Nat /\ Len(more) = n + 1 /\ more[n + 1] = e
  BY Appended
<1> SUFFICES ASSUME NEW i \in 1 .. n + 1, more[i].what = "refused"
             PROVE  /\ OutageIn(more, i) # 0
                    /\ ReportsAt(more, i) # {} /\ SpacedIn(more, ReportsAt(more, i))
  BY <1>1 DEF SpacedSoFar, SpacedAs
<1>2. i \in 1 .. n
  BY <1>1
<1> QED
  BY <1>2, SoFarKept DEF SpacedAs

(* An event, an interval or more after the last.                           *)
LEMMA SpacedReport ==
    ASSUME NEW entries, NEW s, OrderedAs(entries, s), s # "CLOSED",
           NEW e \in LogEntries, e.what = "rejected",
           NEW emitted \in Int, SpacedAs(entries, s, emitted), e.at - emitted >= EmitInterval
    PROVE  SpacedAs(Append(entries, e), s, e.at)
<1> DEFINE n == Len(entries)
           more == Append(entries, e)
           old == OutageOf(entries, "rejected")
           new == OutageOf(more, "rejected")
<1>1. n \in Nat /\ Len(more) = n + 1 /\ more[n + 1] = e
  BY Appended
<1>2. SpacedSoFar(more)
  <2> SUFFICES ASSUME NEW i \in 1 .. n + 1, more[i].what = "refused"
               PROVE  /\ OutageIn(more, i) # 0
                      /\ ReportsAt(more, i) # {} /\ SpacedIn(more, ReportsAt(more, i))
    BY <1>1 DEF SpacedSoFar
  <2>1. i \in 1 .. n
    BY <1>1
  <2> QED
    BY <2>1, SoFarKept DEF SpacedAs
<1>3. /\ old \in SUBSET (1 .. n) /\ new = old \cup {n + 1}
      /\ \A k \in old : more[k] = entries[k]
  BY OutageGoesOn
<1>4. /\ EmitInterval \in Nat /\ e.at \in Nat /\ \A k \in 1 .. n : entries[k].at \in Nat
  <2>1. EmitInterval \in Nat
    BY CircuitAssumption
  <2>2. \A k \in 1 .. n : entries[k] \in LogEntries
    BY DEF OrderedAs
  <2> QED
    BY <2>1, <2>2 DEF LogEntries
<1>5. SpacedIn(entries, old) /\ \A k \in old : entries[k].at <= emitted
  BY DEF SpacedAs, SpacedSince
<1> HIDE DEF more, old, new, n
<1>6. \A k \in old : entries[k].at \in Nat /\ e.at - entries[k].at >= EmitInterval
  BY <1>3, <1>4, <1>5
<1>7. \A k \in new : more[k].at <= e.at
  BY <1>1, <1>3, <1>4, <1>6
<1>8. SpacedIn(more, new)
  <2> SUFFICES ASSUME NEW j \in new, NEW k \in new, j < k
               PROVE  more[k].at - more[j].at >= EmitInterval
    BY DEF SpacedIn
  <2>1. j \in old
    <3>1. \A i \in old : i \in 1 .. n
      BY <1>3
    <3>2. \A i \in new : i \in Int /\ i <= n + 1
      <4>1. n \in Nat
        BY <1>1
      <4>2. new = old \cup {n + 1}
        BY <1>3
      <4>3. \A i \in 1 .. n : i \in Int /\ i <= n + 1
        BY <4>1
      <4>4. n + 1 \in Int /\ n + 1 <= n + 1
        BY <4>1
      <4>5. \A i \in old : i \in Int /\ i <= n + 1
        BY <3>1, <4>3
      <4> QED
        BY <4>2, <4>4, <4>5
    <3>3. j # n + 1
      BY <1>1, <3>2
    <3> QED
      BY <1>3, <3>3
  <2>2. CASE k \in old
    BY <1>3, <1>5, <2>1, <2>2 DEF SpacedIn
  <2>3. CASE k = n + 1
    BY <1>1, <1>3, <1>6, <2>1, <2>3
  <2> QED
    BY <1>3, <2>2, <2>3
<1>9. new # {}
  BY <1>3
<1> QED
  BY <1>2, <1>7, <1>8, <1>9 DEF SpacedAs, SpacedSince, more, new

(* A refusal, after an event.                                              *)
LEMMA SpacedRefusal ==
    ASSUME NEW entries, NEW s, OrderedAs(entries, s), s # "CLOSED",
           NEW e \in LogEntries, e.what = "refused",
           NEW emitted, SpacedAs(entries, s, emitted), emitted # LongAgo
    PROVE  SpacedAs(Append(entries, e), s, emitted)
<1> DEFINE n == Len(entries)
           more == Append(entries, e)
           old == OutageOf(entries, "rejected")
           new == OutageOf(more, "rejected")
<1>1. /\ n \in Nat /\ Len(more) = n + 1 /\ more[n + 1] = e
      /\ OutageIn(more, n + 1) = OutageIn(entries, n) /\ OutageIn(entries, n) # 0
  BY Appended
<1>2. /\ new = old
      /\ \A k \in old : more[k] = entries[k]
  BY OutageGoesOn
<1>3. SpacedSince(entries, emitted)
  BY DEF SpacedAs
<1>4. ReportsAt(more, n + 1) = new
  BY <1>1 DEF ReportsAt, OutageOf
<1>5. ASSUME NEW i \in 1 .. n, more[i].what = "refused"
      PROVE  /\ OutageIn(more, i) # 0
             /\ ReportsAt(more, i) # {} /\ SpacedIn(more, ReportsAt(more, i))
  BY <1>5, SoFarKept DEF SpacedAs
<1> HIDE DEF more, old, new
<1>6. SpacedSince(more, emitted)
  BY <1>2, <1>3 DEF SpacedSince, SpacedIn, old, new
<1>7. /\ OutageIn(more, n + 1) # 0
      /\ ReportsAt(more, n + 1) # {} /\ SpacedIn(more, ReportsAt(more, n + 1))
  BY <1>1, <1>4, <1>6 DEF SpacedSince, new
<1> HIDE DEF n
<1>8. \A i \in 1 .. n + 1 : i \in 1 .. n \/ i = n + 1
  BY <1>1
<1>9. SpacedSoFar(more)
  BY <1>1, <1>5, <1>7, <1>8 DEF SpacedSoFar
<1> QED
  BY <1>6, <1>9 DEF SpacedAs, more

LEMMA StepSpaced ==
    ASSUME Inv, LogType, OrderedAs(log, state), SpacedAs(log, state, rejected_emitted_at), [Next]_vars
    PROVE  SpacedAs(log, state, rejected_emitted_at)'
<1> SUFFICES SpacedAs(log', state', rejected_emitted_at')
  BY DEF SpacedAs, SpacedSoFar, SpacedSince, ReportsAt, SpacedIn, OutageOf
<1>1. CASE Silent
  BY <1>1 DEF Silent, rejections
<1>2. ASSUME NEW t \in Tasks, Refuse(t)
      PROVE  SpacedAs(log', state', rejected_emitted_at')
  <2>1. Refused \in LogEntries /\ Refused.what = "refused"
    BY EntryFacts DEF Refused
  <2>2. state # "CLOSED" /\ state' = state
    BY <1>2, RefuseIs
  <2>3. /\ now \in Nat /\ rejected_emitted_at \in Int /\ EmitInterval \in Nat \ {0}
        /\ LongAgo = -EmitInterval
    BY CircuitAssumption DEF LogType, RejectionType, LongAgo
  <2>4. CASE Suppressed
    <3>1. log' = Append(log, Refused) /\ rejected_emitted_at' = rejected_emitted_at
      BY <1>2, <2>4, RefuseIs
    <3>2. rejected_emitted_at # LongAgo
      BY <2>3, <2>4 DEF Suppressed
    <3> QED
      BY <2>1, <2>2, <3>1, <3>2, SpacedRefusal
  <2>5. CASE ~Suppressed
    <3> DEFINE e == Entry("rejected", rejections_suppressed, 0)
    <3>1. log' = Append(Reported, Refused) /\ rejected_emitted_at' = now
      BY <1>2, <2>5, RefuseIs
    <3>2. e \in LogEntries /\ e.what = "rejected" /\ e.at = now
      BY EntryFacts DEF LogType, RejectionType, EventNames
    <3>3. now - rejected_emitted_at >= EmitInterval
      BY <2>3, <2>5 DEF Suppressed
    <3>4. Reported = Append(log, e)
      BY DEF Reported
    <3> HIDE DEF e
    <3>5. SpacedAs(Reported, state, now)
      BY <2>2, <2>3, <3>2, <3>3, <3>4, SpacedReport
    <3>6. OrderedAs(Reported, state) /\ now # LongAgo
      BY <2>3, ReportedOrdered
    <3> QED
      BY <2>1, <2>2, <3>1, <3>5, <3>6, SpacedRefusal
  <2> QED
    BY <2>4, <2>5
<1>3. ASSUME NEW t \in Tasks, TurnHalfOpen(t)
      PROVE  SpacedAs(log', state', rejected_emitted_at')
  <2> DEFINE e == Entry("half_open", 0, 0)
  <2>1. e \in LogEntries /\ e.what = "half_open"
    BY EntryFacts DEF EventNames
  <2>2. /\ log' = Append(log, e) /\ state = "OPEN" /\ state' = "HALF_OPEN"
        /\ rejected_emitted_at' = rejected_emitted_at
    BY <1>3, TurnIs DEF MoveTo, rejections
  <2> HIDE DEF e
  <2> QED
    BY <2>1, <2>2, SpacedElse
<1>4. ASSUME NEW t \in Tasks, NEW outcome \in Outcomes
      PROVE  /\ SpacedAs(Said(t, outcome), state, rejected_emitted_at)
             /\ OrderedAs(Said(t, outcome), state)
  <2>1. entered[t] \in Nat
    BY DEF LogType
  <2>2. LET e == Entry(outcome, 0, entered[t]) IN e \in LogEntries /\ e.what = outcome
    BY <2>1, EntryFacts
  <2>3. outcome \notin {"refused", "rejected", "closed"}
    BY DEF Outcomes
  <2> QED
    BY <2>2, <2>3, SpacedElse, SaidOrdered DEF Said
<1>5. \A what \in {"opened", "closed"} : \A number \in Nat :
        LET e == Entry(what, number, 0) IN e \in LogEntries /\ e.what = what
  BY EntryFacts DEF EventNames
<1>6. ASSUME NEW t \in Tasks, NEW outcome \in Outcomes, Passes(t, outcome) \/ Adds(t, outcome)
      PROVE  SpacedAs(log', state', rejected_emitted_at')
  BY <1>4, <1>6 DEF Passes, Adds, rejections
<1>7. ASSUME NEW t \in Tasks, NEW outcome \in Outcomes, TripsNow(t, outcome)
      PROVE  SpacedAs(log', state', rejected_emitted_at')
  <2>1. state = "CLOSED" /\ rejected_emitted_at' = LongAgo
    BY <1>7 DEF TripsNow, CountsClosed, Inv, TicketInv
  <2>2. PICK number \in Nat : log' = Append(Said(t, outcome), Entry("opened", number, 0))
    BY <1>7 DEF TripsNow
  <2> QED
    BY <1>4, <1>5, <2>1, <2>2, SpacedOpening
<1>8. ASSUME NEW t \in Tasks, NEW outcome \in Outcomes, Reopens(t, outcome)
      PROVE  SpacedAs(log', state', rejected_emitted_at')
  <2>1. /\ state # "CLOSED" /\ rejected_emitted_at' = rejected_emitted_at
        /\ log' = Append(Said(t, outcome), Entry("opened", 1, 0))
    BY <1>8 DEF Reopens, rejections
  <2> QED
    BY <1>4, <1>5, <2>1, SpacedElse
<1>9. ASSUME NEW t \in Tasks, NEW outcome \in Outcomes, Closes(t, outcome)
      PROVE  SpacedAs(log', state', rejected_emitted_at')
  <2>1. /\ state' = "CLOSED" /\ episode_rejections \in Nat
        /\ log' = Append(Said(t, outcome), Entry("closed", episode_rejections, 0))
    BY <1>9 DEF Closes, Close, MoveTo, LogType, RejectionType
  <2> QED
    BY <1>4, <1>5, <2>1, SpacedClosing
<1> QED
  BY <1>1, <1>2, <1>3, <1>6, <1>7, <1>8, <1>9, StepIs

LEMMA SpacedMeans ==
    ASSUME LogType, SpacedAs(log, state, rejected_emitted_at)
    PROVE  RejectedEventsSpaced
<1> SUFFICES ASSUME NEW i \in Positions, log[i].what = "refused"
             PROVE  /\ Within(OutageStart(i), i, "rejected") # {}
                    /\ \A j, k \in Within(OutageStart(i), i, "rejected") :
                          j < k => log[k].at - log[j].at >= EmitInterval
  BY DEF RejectedEventsSpaced
<1>1. i \in 1 .. Len(log)
  BY DEF Positions, LogType
<1>2. Within(OutageStart(i), i, "rejected") = ReportsAt(log, i)
  BY ShownLog DEF Within, ReportsAt, WithinOf
<1> QED
  BY <1>1, <1>2 DEF SpacedAs, SpacedSoFar, SpacedIn

-----------------------------------------------------------------------------
(* Refusals are accounted for.                                             *)

ReportedBy(entries, S) == SumFunctionOnSet([i \in S |-> 1 + entries[i].number], S)

RefusalsAt(entries, i) == WithinOf(entries, OutageIn(entries, i - 1), i, "refused")

(* By every closing event ...                                              *)
AccountedSoFar(entries) ==
    \A i \in 1 .. Len(entries) : entries[i].what = "closed" =>
        /\ OutageIn(entries, i - 1) # 0
        /\ entries[i].number = Cardinality(RefusalsAt(entries, i))

(* ... and by the counters, in the outage that goes on.                    *)
AccountedSince(entries, suppressed, episode) ==
    /\ episode = Cardinality(OutageOf(entries, "refused"))
    /\ episode = ReportedBy(entries, OutageOf(entries, "rejected")) + suppressed

AccountedAs(entries, s, suppressed, episode) ==
    /\ AccountedSoFar(entries)
    /\ s # "CLOSED" => AccountedSince(entries, suppressed, episode)

LEMMA ClosingsKept ==
    ASSUME NEW entries, NEW s, OrderedAs(entries, s), NEW e \in LogEntries,
           AccountedSoFar(entries), NEW i \in 1 .. Len(entries),
           Append(entries, e)[i].what = "closed"
    PROVE  LET more == Append(entries, e)
           IN /\ OutageIn(more, i - 1) # 0
              /\ more[i].number = Cardinality(RefusalsAt(more, i))
<1> DEFINE n == Len(entries)
           more == Append(entries, e)
           start == OutageIn(entries, i - 1)
<1>1. /\ n \in Nat /\ GoesOn(entries, more) /\ i \in 1 .. n
      /\ \A k \in 0 .. n : OutageIn(more, k) = OutageIn(entries, k)
  BY Appended
<1>2. more[i] = entries[i]
  BY <1>1 DEF GoesOn
<1>3. i - 1 \in 0 .. n /\ i - 1 \in Nat
  BY <1>1
<1>4. OutageIn(more, i - 1) = start /\ start \in 0 .. i - 1
  BY <1>1, <1>3, OutageFacts
<1> HIDE DEF more, start
<1>5. start # 0 /\ entries[i].number = Cardinality(WithinOf(entries, start, i, "refused"))
  BY <1>2 DEF AccountedSoFar, RefusalsAt, start, more
<1>6. WithinOf(more, start, i, "refused") = WithinOf(entries, start, i, "refused")
  BY <1>1, <1>3, <1>4, <1>5, WithinSame
<1> QED
  BY <1>2, <1>4, <1>5, <1>6 DEF RefusalsAt, more

LEMMA NoClosing ==
    ASSUME NEW entries, NEW s, OrderedAs(entries, s), NEW e \in LogEntries,
           AccountedSoFar(entries), e.what # "closed"
    PROVE  AccountedSoFar(Append(entries, e))
<1> DEFINE n == Len(entries)
           more == Append(entries, e)
<1>1. n \in Nat /\ Len(more) = n + 1 /\ more[n + 1] = e
  BY Appended
<1> SUFFICES ASSUME NEW i \in 1 .. n + 1, more[i].what = "closed"
             PROVE  /\ OutageIn(more, i - 1) # 0
                    /\ more[i].number = Cardinality(RefusalsAt(more, i))
  BY <1>1 DEF AccountedSoFar
<1>2. i \in 1 .. n
  BY <1>1
<1> QED
  BY <1>2, ClosingsKept

LEMMA OutageFinite ==
    ASSUME NEW entries, NEW s, OrderedAs(entries, s), s # "CLOSED", NEW what
    PROVE  LET S == OutageOf(entries, what)
           IN /\ IsFiniteSet(S)
              /\ S \in SUBSET (1 .. Len(entries))
              /\ \A i \in S : entries[i].number \in Nat
<1>1. Len(entries) \in Nat /\ OutageIn(entries, Len(entries)) \in 1 .. Len(entries)
  <2>1. Len(entries) \in Nat /\ OutageIn(entries, Len(entries)) # 0
    BY DEF OrderedAs, Ordered
  <2> QED
    BY <2>1, OutageFacts
<1>2. OutageOf(entries, what) \in SUBSET (1 .. Len(entries))
  BY <1>1 DEF OutageOf, WithinOf
<1>3. IsFiniteSet(1 .. Len(entries))
  BY <1>1, FS_Interval
<1>4. \A i \in 1 .. Len(entries) : entries[i] \in LogEntries
  BY DEF OrderedAs
<1> HIDE DEF OrderedAs
<1>5. IsFiniteSet(OutageOf(entries, what))
  BY <1>2, <1>3, FS_Subset
<1> QED
  BY <1>2, <1>4, <1>5 DEF LogEntries

LEMMA ReportedSame ==
    ASSUME NEW entries, NEW more, NEW S, \A i \in S : more[i] = entries[i]
    PROVE  ReportedBy(more, S) = ReportedBy(entries, S)
<1>1. [i \in S |-> 1 + more[i].number] = [i \in S |-> 1 + entries[i].number]
  OBVIOUS
<1> QED
  BY <1>1 DEF ReportedBy

LEMMA ReportedMore ==
    ASSUME NEW entries, NEW S, IsFiniteSet(S), NEW n, n \notin S,
           \A i \in S \cup {n} : entries[i].number \in Nat
    PROVE  /\ ReportedBy(entries, S \cup {n}) = ReportedBy(entries, S) + 1 + entries[n].number
           /\ ReportedBy(entries, S) \in Int
<1> DEFINE T == S \cup {n}
           f == [i \in T |-> 1 + entries[i].number]
           g == [i \in S |-> 1 + entries[i].number]
<1>1. Ints(f, T) /\ Ints(g, S) /\ \A i \in S : g[i] = f[i]
  BY DEF Ints
<1>2. f[n] = 1 + entries[n].number /\ entries[n].number \in Nat
  OBVIOUS
<1> HIDE DEF f, g
<1>3. SumFunctionOnSet(f, T) = f[n] + SumFunctionOnSet(f, S)
  BY <1>1, SumOfMore
<1>4. SumFunctionOnSet(g, S) = SumFunctionOnSet(f, S) /\ SumFunctionOnSet(g, S) \in Int
  BY <1>1, SumsEqual, SumIsInt
<1>5. ReportedBy(entries, T) = SumFunctionOnSet(f, T) /\ ReportedBy(entries, S) = SumFunctionOnSet(g, S)
  BY DEF ReportedBy, f, g
<1> QED
  BY <1>2, <1>3, <1>4, <1>5

LEMMA AccountedElse ==
    ASSUME NEW entries, NEW s, OrderedAs(entries, s), NEW e \in LogEntries,
           e.what \notin {"refused", "rejected", "closed"},
           NEW suppressed, NEW episode, AccountedAs(entries, s, suppressed, episode),
           NEW r, r # "CLOSED" => s # "CLOSED"
    PROVE  AccountedAs(Append(entries, e), r, suppressed, episode)
<1> DEFINE more == Append(entries, e)
<1>1. AccountedSoFar(more)
  BY NoClosing DEF AccountedAs
<1>2. ASSUME r # "CLOSED" PROVE AccountedSince(more, suppressed, episode)
  <2>1. /\ OutageOf(more, "rejected") = OutageOf(entries, "rejected")
        /\ OutageOf(more, "refused") = OutageOf(entries, "refused")
        /\ \A k \in OutageOf(entries, "rejected") : more[k] = entries[k]
    BY <1>2, OutageGoesOn
  <2>2. AccountedSince(entries, suppressed, episode)
    BY <1>2 DEF AccountedAs
  <2> HIDE DEF more
  <2>3. ReportedBy(more, OutageOf(entries, "rejected")) =
          ReportedBy(entries, OutageOf(entries, "rejected"))
    BY <2>1, ReportedSame
  <2> QED
    BY <2>1, <2>2, <2>3 DEF AccountedSince
<1> QED
  BY <1>1, <1>2 DEF AccountedAs

LEMMA AccountedOpening ==
    ASSUME NEW entries, OrderedAs(entries, "CLOSED"), NEW e \in LogEntries, e.what = "opened",
           NEW suppressed, NEW episode, AccountedAs(entries, "CLOSED", suppressed, episode), NEW r
    PROVE  AccountedAs(Append(entries, e), r, 0, 0)
<1> DEFINE more == Append(entries, e)
<1>1. AccountedSoFar(more)
  BY NoClosing DEF AccountedAs
<1>2. OutageOf(more, "rejected") = {} /\ OutageOf(more, "refused") = {}
  BY OutageBegins
<1> HIDE DEF more
<1>3. ReportedBy(more, {}) = 0 /\ Cardinality({}) = 0
  BY SumOfNothing, FS_EmptySet DEF ReportedBy
<1> QED
  BY <1>1, <1>2, <1>3 DEF AccountedAs, AccountedSince, more

LEMMA AccountedClosing ==
    ASSUME NEW entries, NEW s, OrderedAs(entries, s), s # "CLOSED", NEW e \in LogEntries,
           e.what = "closed", NEW suppressed, NEW episode, NEW other, NEW others,
           AccountedAs(entries, s, suppressed, episode), e.number = episode
    PROVE  AccountedAs(Append(entries, e), "CLOSED", other, others)
<1> DEFINE n == Len(entries)
           more == Append(entries, e)
           start == OutageIn(entries, n)
<1>1. /\ n \in Nat /\ Len(more) = n + 1 /\ more[n + 1] = e /\ GoesOn(entries, more)
      /\ start \in 1 .. n /\ OutageIn(more, n) = start
  BY Appended
<1> SUFFICES ASSUME NEW i \in 1 .. n + 1, more[i].what = "closed"
             PROVE  /\ OutageIn(more, i - 1) # 0
                    /\ more[i].number = Cardinality(RefusalsAt(more, i))
  BY <1>1 DEF AccountedSoFar, AccountedAs
<1>2. CASE i \in 1 .. n
  BY <1>2, ClosingsKept DEF AccountedAs
<1>3. CASE i = n + 1
  <2>1. i - 1 = n
    BY <1>1, <1>3
  <2>2. RefusalsAt(more, i) = WithinOf(more, start, n + 1, "refused")
    BY <1>1, <1>3, <2>1 DEF RefusalsAt
  <2>3. OutageOf(entries, "refused") = WithinOf(entries, start, n, "refused")
    BY DEF OutageOf
  <2>4. episode = Cardinality(OutageOf(entries, "refused"))
    BY DEF AccountedAs, AccountedSince
  <2> HIDE DEF more, start
  <2>5. WithinOf(more, start, n, "refused") = WithinOf(entries, start, n, "refused")
    BY <1>1, WithinSame
  <2>6. WithinOf(more, start, n + 1, "refused") = WithinOf(more, start, n, "refused")
    <3> HIDE DEF n
    <3>1. start .. n + 1 = (start .. n) \cup {n + 1}
      BY <1>1
    <3> QED
      BY <1>1, <3>1 DEF WithinOf
  <2> QED
    BY <1>1, <1>3, <2>1, <2>2, <2>3, <2>4, <2>5, <2>6 DEF more
<1> QED
  BY <1>1, <1>2, <1>3

(* An event with the count so far; the refusal it is about comes next.     *)
LEMMA AccountedReport ==
    ASSUME NEW entries, NEW s, OrderedAs(entries, s), s # "CLOSED", NEW e \in LogEntries,
           e.what = "rejected", NEW suppressed \in Int, NEW episode \in Int,
           AccountedAs(entries, s, suppressed, episode), e.number = suppressed
    PROVE  AccountedAs(Append(entries, e), s, -1, episode)
<1> DEFINE n == Len(entries)
           more == Append(entries, e)
           old == OutageOf(entries, "rejected")
<1>1. n \in Nat /\ Len(more) = n + 1 /\ more[n + 1] = e
  BY Appended
<1>2. AccountedSoFar(more)
  BY NoClosing DEF AccountedAs
<1>3. /\ OutageOf(more, "rejected") = old \cup {n + 1}
      /\ OutageOf(more, "refused") = OutageOf(entries, "refused")
      /\ \A k \in old : more[k] = entries[k]
  BY OutageGoesOn
<1>4. IsFiniteSet(old) /\ old \in SUBSET (1 .. n) /\ \A i \in old : entries[i].number \in Nat
  BY OutageFinite
<1>5. AccountedSince(entries, suppressed, episode) /\ e.number \in Nat
  BY DEF AccountedAs, LogEntries
<1> HIDE DEF more, old
<1>6. ReportedBy(more, old) = ReportedBy(entries, old)
  BY <1>3, ReportedSame
<1>7. n + 1 \notin old
  BY <1>1, <1>4
<1>8. \A i \in old \cup {n + 1} : more[i].number \in Nat
  BY <1>1, <1>3, <1>4, <1>5
<1>9. /\ ReportedBy(more, old \cup {n + 1}) = ReportedBy(more, old) + 1 + more[n + 1].number
      /\ ReportedBy(more, old) \in Int
  BY <1>4, <1>7, <1>8, ReportedMore
<1>10. /\ episode = Cardinality(OutageOf(entries, "refused"))
       /\ episode = ReportedBy(entries, old) + suppressed
  BY <1>5 DEF AccountedSince, old
<1>11. episode = ReportedBy(more, old \cup {n + 1}) + (-1)
  BY <1>1, <1>6, <1>9, <1>10
<1> QED
  BY <1>2, <1>3, <1>10, <1>11 DEF AccountedAs, AccountedSince, more

LEMMA AccountedRefusal ==
    ASSUME NEW entries, NEW s, OrderedAs(entries, s), s # "CLOSED", NEW e \in LogEntries,
           e.what = "refused", NEW suppressed \in Int, NEW episode \in Int,
           AccountedAs(entries, s, suppressed, episode)
    PROVE  AccountedAs(Append(entries, e), s, suppressed + 1, episode + 1)
<1> DEFINE n == Len(entries)
           more == Append(entries, e)
           old == OutageOf(entries, "refused")
           reports == OutageOf(entries, "rejected")
<1>1. n \in Nat /\ Len(more) = n + 1 /\ more[n + 1] = e
  BY Appended
<1>2. AccountedSoFar(more)
  BY NoClosing DEF AccountedAs
<1>3. /\ OutageOf(more, "refused") = old \cup {n + 1}
      /\ OutageOf(more, "rejected") = reports
      /\ \A k \in reports : more[k] = entries[k]
  BY OutageGoesOn
<1>4. IsFiniteSet(old) /\ old \in SUBSET (1 .. n)
  BY OutageFinite
<1>5. IsFiniteSet(reports) /\ \A i \in reports : entries[i].number \in Nat
  BY OutageFinite
<1>6. AccountedSince(entries, suppressed, episode)
  BY DEF AccountedAs
<1>7. episode = Cardinality(old) /\ episode = ReportedBy(entries, reports) + suppressed
  BY <1>6 DEF AccountedSince
<1> HIDE DEF more, old, reports
<1>8. ReportedBy(more, reports) = ReportedBy(entries, reports)
  BY <1>3, ReportedSame
<1>9. Cardinality(old \cup {n + 1}) = Cardinality(old) + 1
  <2>1. n + 1 \notin old
    BY <1>1, <1>4
  <2> QED
    BY <1>4, <2>1, FS_AddElement
<1>10. ReportedBy(entries, reports) \in Int
  <2> DEFINE f == [i \in reports |-> 1 + entries[i].number]
  <2>1. Ints(f, reports)
    BY <1>5 DEF Ints
  <2> HIDE DEF f
  <2>2. SumFunctionOnSet(f, reports) \in Int
    BY <1>5, <2>1, SumIsInt
  <2> QED
    BY <2>2 DEF ReportedBy, f
<1>11. episode + 1 = ReportedBy(more, reports) + (suppressed + 1)
  BY <1>7, <1>8, <1>10
<1> QED
  BY <1>2, <1>3, <1>7, <1>9, <1>11 DEF AccountedAs, AccountedSince, more

LEMMA StepAccounted ==
    ASSUME Inv, LogType, OrderedAs(log, state),
           AccountedAs(log, state, rejections_suppressed, episode_rejections), [Next]_vars
    PROVE  AccountedAs(log, state, rejections_suppressed, episode_rejections)'
<1> DEFINE Accounted ==
             AccountedAs(log', state', rejections_suppressed', episode_rejections')
<1> SUFFICES Accounted
  BY DEF AccountedAs, AccountedSoFar, AccountedSince, RefusalsAt, ReportedBy, OutageOf
<1>0. rejections_suppressed \in Nat /\ episode_rejections \in Nat
  BY DEF LogType, RejectionType
<1>1. CASE Silent
  BY <1>1 DEF Silent, rejections
<1>2. ASSUME NEW t \in Tasks, Refuse(t) PROVE Accounted
  <2>1. Refused \in LogEntries /\ Refused.what = "refused"
    BY EntryFacts DEF Refused
  <2>2. state # "CLOSED" /\ state' = state /\ episode_rejections' = episode_rejections + 1
    BY <1>2, RefuseIs
  <2>3. CASE Suppressed
    <3>1. log' = Append(log, Refused) /\ rejections_suppressed' = rejections_suppressed + 1
      BY <1>2, <2>3, RefuseIs
    <3>2. AccountedAs(Append(log, Refused), state, rejections_suppressed + 1, episode_rejections + 1)
      BY <1>0, <2>1, <2>2, AccountedRefusal
    <3> QED
      BY <2>2, <3>1, <3>2
  <2>4. CASE ~Suppressed
    <3> DEFINE e == Entry("rejected", rejections_suppressed, 0)
    <3>1. log' = Append(Reported, Refused) /\ rejections_suppressed' = 0
      BY <1>2, <2>4, RefuseIs
    <3>2. e \in LogEntries /\ e.what = "rejected" /\ e.number = rejections_suppressed
      BY <1>0, EntryFacts DEF EventNames
    <3>3. Reported = Append(log, e)
      BY DEF Reported
    <3> HIDE DEF e
    <3>4. AccountedAs(Reported, state, -1, episode_rejections)
      BY <1>0, <2>2, <3>2, <3>3, AccountedReport
    <3>5. OrderedAs(Reported, state) /\ -1 \in Int /\ -1 + 1 = 0
      BY ReportedOrdered
    <3>6. AccountedAs(Append(Reported, Refused), state, -1 + 1, episode_rejections + 1)
      BY <1>0, <2>1, <2>2, <3>4, <3>5, AccountedRefusal
    <3> QED
      BY <2>2, <3>1, <3>5, <3>6
  <2> QED
    BY <2>3, <2>4
<1>3. ASSUME NEW t \in Tasks, TurnHalfOpen(t) PROVE Accounted
  <2> DEFINE e == Entry("half_open", 0, 0)
  <2>1. e \in LogEntries /\ e.what = "half_open"
    BY EntryFacts DEF EventNames
  <2>2. /\ log' = Append(log, e) /\ state = "OPEN" /\ state' = "HALF_OPEN"
        /\ UNCHANGED <<rejections_suppressed, episode_rejections>>
    BY <1>3, TurnIs DEF MoveTo, rejections
  <2> HIDE DEF e
  <2> QED
    BY <2>1, <2>2, AccountedElse
<1>4. ASSUME NEW t \in Tasks, NEW outcome \in Outcomes
      PROVE  /\ AccountedAs(Said(t, outcome), state, rejections_suppressed, episode_rejections)
             /\ OrderedAs(Said(t, outcome), state)
  <2>1. entered[t] \in Nat
    BY DEF LogType
  <2>2. LET e == Entry(outcome, 0, entered[t]) IN e \in LogEntries /\ e.what = outcome
    BY <2>1, EntryFacts
  <2>3. outcome \notin {"refused", "rejected", "closed"}
    BY DEF Outcomes
  <2> QED
    BY <2>2, <2>3, AccountedElse, SaidOrdered DEF Said
<1>5. \A what \in {"opened", "closed"} : \A number \in Nat :
        LET e == Entry(what, number, 0)
        IN e \in LogEntries /\ e.what = what /\ e.number = number
  BY EntryFacts DEF EventNames
<1>6. ASSUME NEW t \in Tasks, NEW outcome \in Outcomes, Passes(t, outcome) \/ Adds(t, outcome)
      PROVE  Accounted
  BY <1>4, <1>6 DEF Passes, Adds, rejections
<1>7. ASSUME NEW t \in Tasks, NEW outcome \in Outcomes, TripsNow(t, outcome)
      PROVE  Accounted
  <2>1. state = "CLOSED" /\ rejections_suppressed' = 0 /\ episode_rejections' = 0
    BY <1>7 DEF TripsNow, CountsClosed, Inv, TicketInv
  <2>2. PICK number \in Nat : log' = Append(Said(t, outcome), Entry("opened", number, 0))
    BY <1>7 DEF TripsNow
  <2> QED
    BY <1>4, <1>5, <2>1, <2>2, AccountedOpening
<1>8. ASSUME NEW t \in Tasks, NEW outcome \in Outcomes, Reopens(t, outcome)
      PROVE  Accounted
  <2>1. /\ state # "CLOSED" /\ UNCHANGED <<rejections_suppressed, episode_rejections>>
        /\ log' = Append(Said(t, outcome), Entry("opened", 1, 0))
    BY <1>8 DEF Reopens, rejections
  <2> QED
    BY <1>4, <1>5, <2>1, AccountedElse
<1>9. ASSUME NEW t \in Tasks, NEW outcome \in Outcomes, Closes(t, outcome)
      PROVE  Accounted
  <2>1. /\ state # "CLOSED" /\ state' = "CLOSED"
        /\ log' = Append(Said(t, outcome), Entry("closed", episode_rejections, 0))
    BY <1>9 DEF Closes, Close, MoveTo
  <2> QED
    BY <1>0, <1>4, <1>5, <2>1, AccountedClosing
<1> QED
  BY <1>1, <1>2, <1>3, <1>6, <1>7, <1>8, <1>9, StepIs

LEMMA AccountedMeans ==
    ASSUME LogType, AccountedAs(log, state, rejections_suppressed, episode_rejections)
    PROVE  RejectionsAccounted
<1>1. ASSUME state # "CLOSED"
      PROVE  LET start == OutageStart(Len(log))
                 reports == Within(start, Len(log), "rejected")
                 reported == SumFunctionOnSet([i \in reports |-> 1 + log[i].number], reports)
             IN Cardinality(Within(start, Len(log), "refused")) = reported + rejections_suppressed
  <2>1. \A what : Within(OutageStart(Len(log)), Len(log), what) = OutageOf(log, what)
    BY ShownLog DEF Within, OutageOf, WithinOf
  <2>2. AccountedSince(log, rejections_suppressed, episode_rejections)
    BY <1>1 DEF AccountedAs
  <2> QED
    BY <2>1, <2>2 DEF AccountedSince, ReportedBy
<1>2. ASSUME NEW i \in Positions, log[i].what = "closed"
      PROVE  log[i].number = Cardinality(Within(OutageStart(i - 1), i, "refused"))
  <2>1. i \in 1 .. Len(log)
    BY DEF Positions, LogType
  <2>2. Within(OutageStart(i - 1), i, "refused") = RefusalsAt(log, i)
    BY ShownLog DEF Within, RefusalsAt, WithinOf
  <2> QED
    BY <1>2, <2>1, <2>2 DEF AccountedAs, AccountedSoFar
<1> QED
  BY <1>1, <1>2 DEF RejectionsAccounted

-----------------------------------------------------------------------------
(* The evidence that a circuit opens on.                                   *)

EvidenceOf(entries, i) ==
    /\ entries[i].what \in {"success", "failure"}
    /\ ShownIn(entries, i) = "CLOSED"
    /\ LastOf(entries, i, Lifecycle) = entries[i].began

EvidenceIn(entries, n) ==
    {i \in 1 .. n : i > LastOf(entries, n, Lifecycle) /\ EvidenceOf(entries, i)}

StreakIn(entries, n) ==
    {i \in EvidenceIn(entries, n) :
        \A k \in EvidenceIn(entries, n) : k >= i => entries[k].what = "failure"}

LiveIn(entries, n) ==
    {i \in EvidenceIn(entries, n) :
        W!Slot(entries[i].at) > W!Slot(entries[n].at) - BucketCount}

RateDue(entries, n) ==
    LET live == Cardinality(LiveIn(entries, n))
        failed == Cardinality({k \in LiveIn(entries, n) : entries[k].what = "failure"})
    IN live >= MinimumCalls /\ failed * RateDen >= RateNum * live

StreakDue(entries, n) == Cardinality(StreakIn(entries, n)) >= FailureThreshold

(* Entry n is evidence, and the circuit must open on it.                   *)
MustOpen(entries, n) ==
    EvidenceOf(entries, n) /\ IF RateMode THEN RateDue(entries, n) ELSE StreakDue(entries, n)

LEMMA LogShows ==
    /\ \A i : Evidence(i) <=> EvidenceOf(log, i)
    /\ \A n : /\ EvidenceUpTo(n) = EvidenceIn(log, n)
              /\ StreakUpTo(n) = StreakIn(log, n)
              /\ LiveUpTo(n) = LiveIn(log, n)
<1>1. ASSUME NEW i PROVE Evidence(i) <=> EvidenceOf(log, i)
  BY ShownLog, LastTransitionOf DEF Evidence, EvidenceOf
<1>2. ASSUME NEW n PROVE EvidenceUpTo(n) = EvidenceIn(log, n)
  BY <1>1, LastTransitionOf DEF EvidenceUpTo, EvidenceIn
<1> QED
  BY <1>1, <1>2 DEF StreakUpTo, StreakIn, LiveUpTo, LiveIn

LEMMA EvidenceSame ==
    ASSUME NEW entries, NEW more, GoesOn(entries, more), NEW n \in 0 .. Len(entries)
    PROVE  /\ n # 0 => (EvidenceOf(more, n) <=> EvidenceOf(entries, n))
           /\ EvidenceIn(more, n) = EvidenceIn(entries, n)
           /\ EvidenceIn(entries, n) \in SUBSET (1 .. n)
           /\ \A i \in EvidenceIn(entries, n) : more[i] = entries[i]
<1>1. ASSUME NEW i \in 1 .. n PROVE EvidenceOf(more, i) <=> EvidenceOf(entries, i)
  <2>1. i \in 0 .. Len(entries) /\ more[i] = entries[i]
    BY DEF GoesOn
  <2>2. /\ ShownIn(more, i) = ShownIn(entries, i)
        /\ LastOf(more, i, Lifecycle) = LastOf(entries, i, Lifecycle)
    BY <2>1, ShownSame, LastOfSame
  <2> QED
    BY <2>1, <2>2 DEF EvidenceOf
<1>2. LastOf(more, n, Lifecycle) = LastOf(entries, n, Lifecycle)
  BY LastOfSame
<1>3. EvidenceIn(more, n) = EvidenceIn(entries, n)
  BY <1>1, <1>2 DEF EvidenceIn
<1>4. \A i \in 1 .. n : more[i] = entries[i]
  BY DEF GoesOn
<1>5. n # 0 => n \in 1 .. n
  BY DEF GoesOn
<1> QED
  BY <1>1, <1>3, <1>4, <1>5 DEF EvidenceIn

LEMMA DueSame ==
    ASSUME NEW entries, NEW more, GoesOn(entries, more), NEW n \in 1 .. Len(entries)
    PROVE  /\ StreakIn(more, n) = StreakIn(entries, n)
           /\ MustOpen(more, n) <=> MustOpen(entries, n)
<1>1. /\ EvidenceOf(more, n) <=> EvidenceOf(entries, n)
      /\ EvidenceIn(more, n) = EvidenceIn(entries, n)
      /\ \A i \in EvidenceIn(entries, n) : more[i] = entries[i]
      /\ more[n] = entries[n]
  <2>1. n \in 0 .. Len(entries) /\ n # 0 /\ more[n] = entries[n]
    BY DEF GoesOn
  <2> QED
    BY <2>1, EvidenceSame
<1>2. StreakIn(more, n) = StreakIn(entries, n)
  BY <1>1 DEF StreakIn
<1>3. LiveIn(more, n) = LiveIn(entries, n) /\ LiveIn(entries, n) \in SUBSET EvidenceIn(entries, n)
  BY <1>1 DEF LiveIn
<1>4. {k \in LiveIn(more, n) : more[k].what = "failure"} =
        {k \in LiveIn(entries, n) : entries[k].what = "failure"}
  BY <1>1, <1>3
<1> QED
  BY <1>1, <1>2, <1>3, <1>4 DEF MustOpen, RateDue, StreakDue

(* One entry more.                                                         *)
LEMMA EvidenceNext ==
    ASSUME NEW entries, NEW s, OrderedAs(entries, s), NEW e \in LogEntries
    PROVE  LET n == Len(entries)
               more == Append(entries, e)
               old == EvidenceIn(entries, n)
           IN /\ EvidenceOf(more, n + 1) <=>
                   /\ e.what \in {"success", "failure"} /\ s = "CLOSED"
                   /\ LastOf(entries, n, Lifecycle) = e.began
              /\ EvidenceIn(more, n + 1) =
                   IF e.what \in Lifecycle THEN {}
                   ELSE IF EvidenceOf(more, n + 1) THEN old \cup {n + 1} ELSE old
              /\ \A i \in old : more[i] = entries[i]
              /\ old \in SUBSET (1 .. n)
<1> DEFINE n == Len(entries)
           more == Append(entries, e)
           old == EvidenceIn(entries, n)
           last == LastOf(entries, n, Lifecycle)
<1>1. n \in Nat /\ Len(more) = n + 1 /\ more[n + 1] = e /\ GoesOn(entries, more)
  BY Appended
<1>2. last \in 0 .. n
  BY <1>1, LastOfFacts
<1>3. ShownIn(entries, n) = s
  BY DEF OrderedAs
<1> HIDE DEF more
<1>4. /\ LastOf(more, n, Lifecycle) = last /\ ShownIn(more, n) = s
      /\ EvidenceIn(more, n) = old /\ old \in SUBSET (1 .. n)
      /\ \A i \in old : more[i] = entries[i]
  <2>1. n \in 0 .. Len(entries)
    BY <1>1
  <2> QED
    BY <1>1, <1>3, <2>1, LastOfSame, ShownSame, EvidenceSame
<1> HIDE DEF old, last, n
<1>5. LastOf(more, n + 1, Lifecycle) = IF e.what \in Lifecycle THEN n + 1 ELSE last
  BY <1>1, <1>4, LastOfNext
<1>6. EvidenceOf(more, n + 1) <=>
        /\ e.what \in {"success", "failure"} /\ s = "CLOSED"
        /\ last = e.began
  <2>1. ASSUME e.what \in {"success", "failure"}
        PROVE  /\ ShownIn(more, n + 1) = s
               /\ LastOf(more, n + 1, Lifecycle) = last
    <3>1. e.what \notin Lifecycle
      BY <2>1 DEF Lifecycle
    <3> QED
      BY <1>1, <1>4, <1>5, <3>1, ShownNext
  <2> QED
    BY <1>1, <2>1 DEF EvidenceOf
<1>7. CASE e.what \in Lifecycle
  <2>1. EvidenceIn(more, n + 1) = {}
    BY <1>1, <1>5, <1>7 DEF EvidenceIn
  <2> QED
    BY <1>4, <1>6, <1>7, <2>1 DEF more, old, last, n
<1>8. CASE e.what \notin Lifecycle
  <2>1. EvidenceIn(more, n + 1) = {i \in 1 .. n + 1 : i > last /\ EvidenceOf(more, i)}
    BY <1>5, <1>8 DEF EvidenceIn
  <2>2. old = {i \in 1 .. n : i > last /\ EvidenceOf(more, i)}
    BY <1>4 DEF EvidenceIn
  <2>3. 1 .. n + 1 = (1 .. n) \cup {n + 1} /\ n + 1 > last
    BY <1>1, <1>2
  <2>4. EvidenceIn(more, n + 1) = IF EvidenceOf(more, n + 1) THEN old \cup {n + 1} ELSE old
    BY <2>1, <2>2, <2>3
  <2> QED
    BY <1>4, <1>6, <1>8, <2>4 DEF more, old, last, n
<1> QED
  BY <1>7, <1>8

LEMMA EvidenceFinite ==
    ASSUME NEW entries, NEW n \in Nat, NEW S \in SUBSET EvidenceIn(entries, n)
    PROVE  IsFiniteSet(S) /\ Cardinality(S) \in Nat /\ S \in SUBSET (1 .. n)
<1>1. S \in SUBSET (1 .. n)
  BY DEF EvidenceIn
<1>2. IsFiniteSet(1 .. n)
  BY FS_Interval
<1>3. IsFiniteSet(S)
  BY <1>1, <1>2, FS_Subset
<1> QED
  BY <1>1, <1>3, FS_CardinalityType

(* A failure makes the streak longer, a success ends it.                   *)
LEMMA StreakNext ==
    ASSUME NEW entries, NEW s, OrderedAs(entries, s), NEW e \in LogEntries,
           e.what \notin Lifecycle
    PROVE  LET n == Len(entries)
               more == Append(entries, e)
           IN Cardinality(StreakIn(more, n + 1)) =
                IF ~EvidenceOf(more, n + 1) THEN Cardinality(StreakIn(entries, n))
                ELSE IF e.what = "failure" THEN Cardinality(StreakIn(entries, n)) + 1
                ELSE 0
<1> DEFINE n == Len(entries)
           more == Append(entries, e)
           old == EvidenceIn(entries, n)
           new == EvidenceIn(more, n + 1)
<1>1. /\ new = IF EvidenceOf(more, n + 1) THEN old \cup {n + 1} ELSE old
      /\ \A i \in old : more[i] = entries[i]
      /\ old \in SUBSET (1 .. n)
      /\ EvidenceOf(more, n + 1) => e.what \in {"success", "failure"}
  BY EvidenceNext
<1>2. n \in Nat /\ more[n + 1] = e
  BY Appended
<1> HIDE DEF more
<1>3. /\ StreakIn(more, n + 1) = {i \in new : \A k \in new : k >= i => more[k].what = "failure"}
      /\ StreakIn(entries, n) = {i \in old : \A k \in old : k >= i => entries[k].what = "failure"}
  BY DEF StreakIn
<1>4. IsFiniteSet(StreakIn(entries, n)) /\ StreakIn(entries, n) \in SUBSET (1 .. n)
  <2>1. StreakIn(entries, n) \in SUBSET EvidenceIn(entries, n)
    BY <1>3
  <2> QED
    BY <1>2, <2>1, EvidenceFinite
<1> HIDE DEF old, new, n
<1>5. CASE ~EvidenceOf(more, n + 1)
  BY <1>1, <1>3, <1>5 DEF n, more
<1>6. CASE EvidenceOf(more, n + 1) /\ e.what = "failure"
  <2>1. /\ new = old \cup {n + 1}
        /\ \A k \in old : k \in Int /\ k < n + 1
    BY <1>1, <1>2, <1>6
  <2>2. StreakIn(more, n + 1) = StreakIn(entries, n) \cup {n + 1}
    BY <1>1, <1>2, <1>3, <1>6, <2>1
  <2>3. n + 1 \notin StreakIn(entries, n)
    BY <1>2, <1>4
  <2> QED
    BY <1>4, <1>6, <2>2, <2>3, FS_AddElement DEF n, more
<1>7. CASE EvidenceOf(more, n + 1) /\ e.what = "success"
  <2>1. /\ new = old \cup {n + 1}
        /\ \A k \in old : k \in Int /\ k < n + 1
    BY <1>1, <1>2, <1>7
  <2>2. StreakIn(more, n + 1) = {}
    BY <1>2, <1>3, <1>7, <2>1
  <2> QED
    BY <1>7, <2>2, FS_EmptySet DEF n, more
<1> QED
  BY <1>1, <1>5, <1>6, <1>7 DEF n, more

LEMMA EvidenceGone ==
    ASSUME NEW entries, NEW s, OrderedAs(entries, s), NEW e \in LogEntries, e.what \in Lifecycle
    PROVE  LET n == Len(Append(entries, e))
           IN /\ EvidenceIn(Append(entries, e), n) = {}
              /\ Cardinality(StreakIn(Append(entries, e), n)) = 0
<1> DEFINE n == Len(entries)
           more == Append(entries, e)
<1>1. Len(more) = n + 1 /\ EvidenceIn(more, n + 1) = {}
  BY Appended, EvidenceNext
<1> HIDE DEF more
<1>2. StreakIn(more, n + 1) = {}
  BY <1>1 DEF StreakIn
<1> QED
  BY <1>1, <1>2, FS_EmptySet DEF more

-----------------------------------------------------------------------------
(* Opening exactly when due.                                               *)

(* After every entry but the last, while CLOSED.                           *)
TripsSoFar(entries) ==
    \A i \in 1 .. Len(entries) - 1 : ShownIn(entries, i) = "CLOSED" =>
        (entries[i + 1].what = "opened" <=> MustOpen(entries, i))

MustOpenNow(entries) == Len(entries) # 0 /\ MustOpen(entries, Len(entries))

LEMMA TripsNext ==
    ASSUME NEW entries, NEW s, OrderedAs(entries, s), NEW e \in LogEntries,
           TripsSoFar(entries), s = "CLOSED" /\ Len(entries) # 0 =>
                                  (e.what = "opened" <=> MustOpenNow(entries))
    PROVE  TripsSoFar(Append(entries, e))
<1> DEFINE n == Len(entries)
           more == Append(entries, e)
<1>1. n \in Nat /\ Len(more) = n + 1 /\ more[n + 1] = e /\ GoesOn(entries, more)
  BY Appended
<1>2. ShownIn(entries, n) = s
  BY DEF OrderedAs
<1> HIDE DEF more
<1> SUFFICES ASSUME NEW i \in 1 .. n, ShownIn(more, i) = "CLOSED"
             PROVE  more[i + 1].what = "opened" <=> MustOpen(more, i)
  BY <1>1 DEF TripsSoFar, more
<1>3. ShownIn(entries, i) = "CLOSED" /\ (MustOpen(more, i) <=> MustOpen(entries, i))
  BY <1>1, ShownSame, DueSame
<1>4. CASE i = n
  BY <1>1, <1>2, <1>3, <1>4 DEF MustOpenNow
<1>5. CASE i # n
  <2>1. i \in 1 .. n - 1 /\ i + 1 \in 1 .. n
    BY <1>1, <1>5
  <2>2. more[i + 1] = entries[i + 1]
    BY <1>1, <2>1 DEF GoesOn
  <2> QED
    BY <1>3, <2>1, <2>2 DEF TripsSoFar
<1> QED
  BY <1>4, <1>5

-----------------------------------------------------------------------------
(* When the calls under way began: entered tells what their tickets do.    *)

BeganInv ==
    \A t \in Tasks : ticket[t] # NoTicket =>
        (entered[t] = LastOf(log, Len(log), Lifecycle) <=> ticket[t] >= epoch)

LEMMA LastAppended ==
    ASSUME NEW entries \in Seq(LogEntries), NEW e \in LogEntries
    PROVE  LET more == Append(entries, e)
           IN /\ more \in Seq(LogEntries) /\ Len(entries) \in Nat /\ Len(more) = Len(entries) + 1
              /\ LastOf(more, Len(more), Lifecycle) =
                   IF e.what \in Lifecycle THEN Len(more) ELSE LastOf(entries, Len(entries), Lifecycle)
<1> DEFINE n == Len(entries)
           more == Append(entries, e)
<1>1. /\ more \in Seq(LogEntries) /\ n \in Nat /\ Len(more) = n + 1 /\ more[n + 1] = e
      /\ GoesOn(entries, more)
  BY DEF GoesOn
<1> HIDE DEF more
<1>2. LastOf(more, n, Lifecycle) = LastOf(entries, n, Lifecycle)
  BY <1>1, LastOfSame
<1>3. LastOf(more, n + 1, Lifecycle) =
        IF e.what \in Lifecycle THEN n + 1 ELSE LastOf(more, n, Lifecycle)
  BY <1>1, LastOfNext
<1> QED
  BY <1>1, <1>2, <1>3 DEF more

(* The log of a step that moves the circuit ends in the event.             *)
LEMMA LastMoved ==
    ASSUME LogType, [Next]_vars, Inv
    PROVE  /\ epoch' = epoch \/ epoch' = epoch + EpochStep
           /\ LET last == LastOf(log', Len(log'), Lifecycle)
              IN IF epoch' = epoch THEN last = LastOf(log, Len(log), Lifecycle)
                                   ELSE last = Len(log') /\ Len(log') > Len(log)
<1>0. epoch \in Nat /\ epoch + EpochStep # epoch /\ log \in Seq(LogEntries)
  BY DEF Inv, CoreType, MachineType, EpochStep, LogType
<1>1. CASE Silent
  BY <1>0, <1>1 DEF Silent
<1>2. ASSUME NEW t \in Tasks, Refuse(t)
      PROVE  epoch' = epoch /\ LastOf(log', Len(log'), Lifecycle) = LastOf(log, Len(log), Lifecycle)
  <2> DEFINE e == Entry("rejected", rejections_suppressed, 0)
  <2>1. /\ e \in LogEntries /\ e.what \notin Lifecycle
        /\ Refused \in LogEntries /\ Refused.what \notin Lifecycle
    BY EntryFacts DEF LogType, RejectionType, EventNames, Refused, Lifecycle
  <2>2. epoch' = epoch /\ (log' = Append(log, Refused) \/ log' = Append(Append(log, e), Refused))
    BY <1>2, RefuseIs DEF Reported
  <2> HIDE DEF e
  <2> QED
    BY <1>0, <2>1, <2>2, LastAppended
<1>3. ASSUME NEW t \in Tasks, TurnHalfOpen(t)
      PROVE  /\ epoch' = epoch + EpochStep
             /\ LastOf(log', Len(log'), Lifecycle) = Len(log') /\ Len(log') > Len(log)
  <2> DEFINE e == Entry("half_open", 0, 0)
  <2>1. e \in LogEntries /\ e.what \in Lifecycle
    BY EntryFacts DEF EventNames, Lifecycle
  <2>2. log' = Append(log, e) /\ epoch' = epoch + EpochStep
    BY <1>3, TurnIs DEF MoveTo
  <2> HIDE DEF e
  <2> QED
    BY <1>0, <2>1, <2>2, LastAppended
<1>4. ASSUME NEW t \in Tasks, NEW outcome \in Outcomes
      PROVE  LET said == Said(t, outcome)
             IN /\ said \in Seq(LogEntries) /\ Len(said) = Len(log) + 1
                /\ LastOf(said, Len(said), Lifecycle) = LastOf(log, Len(log), Lifecycle)
  <2> DEFINE e == Entry(outcome, 0, entered[t])
  <2>1. entered[t] \in Nat
    BY DEF LogType
  <2>2. e \in LogEntries /\ e.what = outcome /\ outcome \notin Lifecycle
    BY <2>1, EntryFacts, NoLifecycle
  <2>3. Said(t, outcome) = Append(log, e)
    BY DEF Said
  <2> HIDE DEF e
  <2> QED
    BY <1>0, <2>2, <2>3, LastAppended
<1>5. ASSUME NEW t \in Tasks, NEW outcome \in Outcomes, NEW what \in {"opened", "closed"},
             NEW number \in Nat, log' = Append(Said(t, outcome), Entry(what, number, 0))
      PROVE  LastOf(log', Len(log'), Lifecycle) = Len(log') /\ Len(log') > Len(log)
  <2> DEFINE e == Entry(what, number, 0)
  <2>1. e \in LogEntries /\ e.what \in Lifecycle
    BY EntryFacts DEF EventNames, Lifecycle
  <2>2. log' = Append(Said(t, outcome), e)
    BY <1>5
  <2> HIDE DEF e
  <2>3. Len(log) \in Nat
    BY <1>0
  <2> QED
    BY <1>4, <2>1, <2>2, <2>3, LastAppended
<1>6. ASSUME NEW t \in Tasks, NEW outcome \in Outcomes, Passes(t, outcome) \/ Adds(t, outcome)
      PROVE  epoch' = epoch /\ LastOf(log', Len(log'), Lifecycle) = LastOf(log, Len(log), Lifecycle)
  BY <1>4, <1>6 DEF Passes, Adds
<1>7. ASSUME NEW t \in Tasks, NEW outcome \in Outcomes,
             TripsNow(t, outcome) \/ Reopens(t, outcome) \/ Closes(t, outcome)
      PROVE  /\ epoch' = epoch + EpochStep
             /\ LastOf(log', Len(log'), Lifecycle) = Len(log') /\ Len(log') > Len(log)
  <2>1. episode_rejections \in Nat
    BY DEF LogType, RejectionType
  <2>2. epoch' = epoch + EpochStep
    BY <1>7 DEF TripsNow, Reopens, Closes, Close, MoveTo
  <2>3. PICK what \in {"opened", "closed"}, number \in Nat :
          log' = Append(Said(t, outcome), Entry(what, number, 0))
    BY <1>7, <2>1 DEF TripsNow, Reopens, Closes
  <2> QED
    BY <1>5, <2>2, <2>3
<1> QED
  BY <1>0, <1>1, <1>2, <1>3, <1>6, <1>7, StepIs

LEMMA StepBegan ==
    ASSUME Inv, LogType, BeganInv, [Next]_vars
    PROVE  BeganInv'
<1> DEFINE last == LastOf(log, Len(log), Lifecycle)
           later == LastOf(log', Len(log'), Lifecycle)
<1>0. /\ epoch \in Nat
      /\ \A u \in Tasks : /\ ticket[u] \in Int /\ ticket[u] <= epoch + Probe
                          /\ entered[u] \in Nat /\ entered[u] <= Len(log)
      /\ ticket \in [Tasks -> Nat \cup {NoTicket}] /\ entered \in [Tasks -> 0 .. Len(log)]
      /\ Len(log) \in Nat
  <2>1. Len(log) \in Nat /\ entered \in [Tasks -> 0 .. Len(log)]
    BY DEF LogType
  <2>2. \A u \in Tasks : entered[u] \in 0 .. Len(log)
    BY <2>1
  <2> QED
    BY <2>1, <2>2, Numbers DEF Inv, TicketInv, CoreType
<1>1. /\ epoch' = epoch \/ epoch' = epoch + EpochStep
      /\ IF epoch' = epoch THEN later = last ELSE later = Len(log') /\ Len(log') > Len(log)
  BY LastMoved
<1>2. Len(log') \in Nat
  BY StepType DEF LogType
<1> HIDE DEF last, later
<1>3. \A u \in Tasks : ticket[u] # NoTicket => (entered[u] = last <=> ticket[u] >= epoch)
  BY DEF BeganInv, last
<1>4. ASSUME NEW u \in Tasks, ticket'[u] = ticket[u], entered'[u] = entered[u]
      PROVE  ticket'[u] # NoTicket => (entered'[u] = later <=> ticket'[u] >= epoch')
  <2>1. CASE epoch' = epoch
    BY <1>1, <1>3, <1>4, <2>1
  <2>2. CASE epoch' # epoch
    <3>1. /\ later = Len(log') /\ Len(log') > Len(log) /\ epoch' = epoch + EpochStep
          /\ ticket[u] \in Int /\ ticket[u] <= epoch + Probe
          /\ entered[u] \in Nat /\ entered[u] <= Len(log)
      BY <1>0, <1>1, <2>2
    <3>2. entered[u] # later /\ ~(ticket[u] >= epoch')
      BY <1>0, <1>2, <3>1 DEF EpochStep, Probe
    <3> QED
      BY <1>4, <3>2
  <2> QED
    BY <2>1, <2>2
<1>5. ASSUME NEW t \in Tasks,
             \A u \in Tasks \ {t} : ticket'[u] = ticket[u] /\ entered'[u] = entered[u],
             ticket'[t] # NoTicket => (entered'[t] = later <=> ticket'[t] >= epoch')
      PROVE  BeganInv'
  BY <1>4, <1>5 DEF BeganInv, later
<1>6. ASSUME NEW t \in Tasks, Refuse(t) PROVE BeganInv'
  <2>1. ticket' = ticket /\ entered' = entered
    BY <1>6, RefuseIs
  <2> QED
    BY <1>4, <2>1 DEF BeganInv, later
<1>7. ASSUME NEW t \in Tasks, TurnHalfOpen(t) PROVE BeganInv'
  <2>1. /\ ticket' = [ticket EXCEPT ![t] = epoch' + Probe]
        /\ entered' = [entered EXCEPT ![t] = later]
    BY <1>7, TurnIs, LastTransitionOf DEF later
  <2>2. \A u \in Tasks \ {t} : ticket'[u] = ticket[u] /\ entered'[u] = entered[u]
    BY <1>0, <2>1
  <2>3. ticket'[t] = epoch' + Probe /\ entered'[t] = later
    BY <1>0, <2>1
  <2>4. ticket'[t] >= epoch'
    BY <1>0, <1>1, <2>3 DEF EpochStep, Probe
  <2> QED
    BY <1>5, <2>2, <2>3, <2>4
<1>8. ASSUME NEW t \in Tasks, Enter(t) PROVE BeganInv'
  <2>1. /\ ticket' = [ticket EXCEPT ![t] = Ticket]
        /\ entered' = [entered EXCEPT ![t] = last]
        /\ epoch' = epoch
    BY <1>8, LastTransitionOf DEF Enter, Admit, machine, last
  <2>2. \A u \in Tasks \ {t} : ticket'[u] = ticket[u] /\ entered'[u] = entered[u]
    BY <1>0, <2>1
  <2>3. ticket'[t] = Ticket /\ entered'[t] = last
    BY <1>0, <2>1
  <2>4. Ticket >= epoch
    BY <1>0 DEF Ticket, Inv, TicketInv, Probe
  <2> QED
    BY <1>1, <1>5, <2>1, <2>2, <2>3, <2>4
<1>9. ASSUME NEW t \in Tasks, NEW outcome \in Outcomes, Return(t, outcome) PROVE BeganInv'
  <2>1. /\ ticket' = [ticket EXCEPT ![t] = NoTicket]
        /\ entered' = [entered EXCEPT ![t] = 0]
    BY <1>9 DEF Return
  <2>2. \A u \in Tasks \ {t} : ticket'[u] = ticket[u] /\ entered'[u] = entered[u]
    BY <1>0, <2>1
  <2>3. ticket'[t] = NoTicket
    BY <1>0, <2>1
  <2> QED
    BY <1>5, <2>2, <2>3
<1>10. CASE Tick \/ UNCHANGED vars
  <2>1. ticket' = ticket /\ entered' = entered
    BY <1>10 DEF Tick, vars
  <2> QED
    BY <1>4, <2>1 DEF BeganInv, later
<1> QED
  BY <1>6, <1>7, <1>8, <1>9, <1>10 DEF Next, Finished

(* What counts for the breaker is what the log shows as evidence.          *)
LEMMA SaidEvidence ==
    ASSUME Inv, LogType, BeganInv, OrderedAs(log, state),
           NEW t \in Tasks, ticket[t] # NoTicket, NEW outcome \in Outcomes
    PROVE  LET said == Said(t, outcome)
           IN /\ OrderedAs(said, state) /\ Len(log) \in Nat /\ Len(said) = Len(log) + 1
              /\ said[Len(log) + 1].what = outcome /\ said[Len(log) + 1].at = now
              /\ EvidenceOf(said, Len(log) + 1) <=> CountsClosed(ticket[t], outcome)
<1> DEFINE e == Entry(outcome, 0, entered[t])
           said == Said(t, outcome)
           n == Len(log)
<1>1. entered[t] \in Nat
  BY DEF LogType
<1>2. e \in LogEntries /\ e.what = outcome /\ e.at = now /\ e.began = entered[t]
  BY <1>1, EntryFacts
<1>3. said = Append(log, e)
  BY DEF Said
<1>4. OrderedAs(said, state)
  BY SaidOrdered
<1> HIDE DEF e, said
<1>5. n \in Nat /\ Len(said) = n + 1 /\ said[n + 1] = e
  BY <1>2, <1>3, Appended
<1>6. EvidenceOf(said, n + 1) <=>
        /\ e.what \in {"success", "failure"} /\ state = "CLOSED"
        /\ LastOf(log, n, Lifecycle) = e.began
  BY <1>2, <1>3, EvidenceNext
<1>7. entered[t] = LastOf(log, n, Lifecycle) <=> ticket[t] >= epoch
  BY DEF BeganInv
<1>8. state = "CLOSED" => (ticket[t] >= epoch <=> ticket[t] = epoch)
  <2>1. epoch \in Nat /\ ticket[t] \in Int /\ ticket[t] <= epoch + Probe
    BY Numbers DEF Inv, TicketInv
  <2>2. state = "CLOSED" => ticket[t] # epoch + Probe
    BY DEF Inv, TicketInv
  <2> QED
    BY <2>1, <2>2 DEF Probe
<1>9. ticket[t] = epoch => state = "CLOSED"
  BY DEF Inv, TicketInv
<1>10. EvidenceOf(said, n + 1) <=> CountsClosed(ticket[t], outcome)
  BY <1>2, <1>6, <1>7, <1>8, <1>9 DEF CountsClosed, Outcomes
<1> QED
  BY <1>2, <1>4, <1>5, <1>10 DEF said

TripsInv == TripsSoFar(log) /\ (state = "CLOSED" => ~MustOpenNow(log))

(* The breaker opens when the log says so.                                 *)
TripsWhenDue ==
    \A t \in Tasks, outcome \in Outcomes :
        ticket[t] # NoTicket /\ CountsClosed(ticket[t], outcome) =>
            (Trips(outcome) <=> MustOpen(Said(t, outcome), Len(log) + 1))

LEMMA StepTrips ==
    ASSUME Inv, LogType, BeganInv, OrderedAs(log, state), TripsInv, TripsWhenDue, [Next]_vars
    PROVE  TripsInv'
<1> DEFINE Good == TripsSoFar(log') /\ (state' = "CLOSED" => ~MustOpenNow(log'))
<1> SUFFICES Good
  BY DEF TripsInv, TripsSoFar, MustOpenNow, MustOpen, RateDue, StreakDue, EvidenceOf, StreakIn, LiveIn
<1>1. CASE Silent
  BY <1>1 DEF Silent, TripsInv
<1>2. ASSUME NEW t \in Tasks, Refuse(t) PROVE Good
  <2> DEFINE e == Entry("rejected", rejections_suppressed, 0)
  <2>1. /\ e \in LogEntries /\ Refused \in LogEntries
    BY EntryFacts DEF LogType, RejectionType, EventNames, Refused
  <2>2. /\ state # "CLOSED" /\ state' = state
        /\ log' = Append(log, Refused) \/ log' = Append(Reported, Refused)
    BY <1>2, RefuseIs
  <2>3. Reported = Append(log, e) /\ OrderedAs(Reported, state)
    BY ReportedOrdered DEF Reported
  <2> HIDE DEF e
  <2>4. TripsSoFar(Reported)
    BY <2>1, <2>2, <2>3, TripsNext DEF TripsInv
  <2>5. TripsSoFar(Append(log, Refused))
    BY <2>1, <2>2, TripsNext DEF TripsInv
  <2>6. TripsSoFar(Append(Reported, Refused))
    BY <2>1, <2>2, <2>3, <2>4, TripsNext
  <2> QED
    BY <2>2, <2>5, <2>6
<1>3. ASSUME NEW t \in Tasks, TurnHalfOpen(t) PROVE Good
  <2> DEFINE e == Entry("half_open", 0, 0)
  <2>1. e \in LogEntries
    BY EntryFacts DEF EventNames
  <2>2. log' = Append(log, e) /\ state = "OPEN" /\ state' = "HALF_OPEN"
    BY <1>3, TurnIs DEF MoveTo
  <2> HIDE DEF e
  <2> QED
    BY <2>1, <2>2, TripsNext DEF TripsInv
<1>4. ASSUME NEW t \in Tasks, NEW outcome \in Outcomes, ticket[t] # NoTicket
      PROVE  /\ TripsSoFar(Said(t, outcome))
             /\ Len(log) \in Nat /\ Len(Said(t, outcome)) = Len(log) + 1
             /\ OrderedAs(Said(t, outcome), state)
             /\ EvidenceOf(Said(t, outcome), Len(log) + 1) <=> CountsClosed(ticket[t], outcome)
             /\ MustOpenNow(Said(t, outcome)) <=> MustOpen(Said(t, outcome), Len(log) + 1)
  <2> DEFINE e == Entry(outcome, 0, entered[t])
  <2>1. entered[t] \in Nat
    BY DEF LogType
  <2>2. e \in LogEntries /\ e.what # "opened"
    BY <2>1, EntryFacts DEF Outcomes
  <2>3. Said(t, outcome) = Append(log, e)
    BY DEF Said
  <2>4. /\ Len(log) \in Nat /\ Len(Said(t, outcome)) = Len(log) + 1
        /\ OrderedAs(Said(t, outcome), state)
        /\ EvidenceOf(Said(t, outcome), Len(log) + 1) <=> CountsClosed(ticket[t], outcome)
    BY <1>4, SaidEvidence
  <2> HIDE DEF e
  <2>5. TripsSoFar(Said(t, outcome))
    BY <2>2, <2>3, TripsNext DEF TripsInv
  <2>6. Len(Said(t, outcome)) # 0
    BY <2>4
  <2> QED
    BY <2>4, <2>5, <2>6 DEF MustOpenNow
<1>5. \A what \in {"opened", "closed"} : \A number \in Nat :
        LET e == Entry(what, number, 0) IN e \in LogEntries /\ e.what = what
  BY EntryFacts DEF EventNames
<1>6. ASSUME NEW t \in Tasks, NEW outcome \in Outcomes, ticket[t] # NoTicket, Passes(t, outcome)
      PROVE  Good
  <2>1. log' = Said(t, outcome) /\ ~CountsClosed(ticket[t], outcome)
    BY <1>6 DEF Passes
  <2>2. ~MustOpenNow(Said(t, outcome))
    BY <1>4, <1>6, <2>1 DEF MustOpen
  <2> QED
    BY <1>4, <1>6, <2>1, <2>2
<1>7. ASSUME NEW t \in Tasks, NEW outcome \in Outcomes, ticket[t] # NoTicket, Adds(t, outcome)
      PROVE  Good
  <2>1. log' = Said(t, outcome) /\ CountsClosed(ticket[t], outcome) /\ ~Trips(outcome)
    BY <1>7 DEF Adds
  <2>2. ~MustOpenNow(Said(t, outcome))
    BY <1>4, <1>7, <2>1 DEF TripsWhenDue
  <2> QED
    BY <1>4, <1>7, <2>1, <2>2
<1>8. ASSUME NEW t \in Tasks, NEW outcome \in Outcomes, ticket[t] # NoTicket, TripsNow(t, outcome)
      PROVE  Good
  <2>1. /\ CountsClosed(ticket[t], outcome) /\ Trips(outcome) /\ state' = "OPEN"
    BY <1>8 DEF TripsNow, MoveTo
  <2>2. PICK number \in Nat : log' = Append(Said(t, outcome), Entry("opened", number, 0))
    BY <1>8 DEF TripsNow
  <2>3. MustOpenNow(Said(t, outcome))
    BY <1>4, <1>8, <2>1 DEF TripsWhenDue
  <2>4. TripsSoFar(log')
    BY <1>4, <1>5, <1>8, <2>2, <2>3, TripsNext
  <2> QED
    BY <2>1, <2>4
<1>9. ASSUME NEW t \in Tasks, NEW outcome \in Outcomes, ticket[t] # NoTicket, Reopens(t, outcome)
      PROVE  Good
  <2>1. /\ state = "HALF_OPEN" /\ state' = "OPEN"
        /\ log' = Append(Said(t, outcome), Entry("opened", 1, 0))
    BY <1>9 DEF Reopens, MoveTo
  <2>2. TripsSoFar(log')
    BY <1>4, <1>5, <1>9, <2>1, TripsNext
  <2> QED
    BY <2>1, <2>2
<1>10. ASSUME NEW t \in Tasks, NEW outcome \in Outcomes, ticket[t] # NoTicket, Closes(t, outcome)
       PROVE  Good
  <2> DEFINE e == Entry("closed", episode_rejections, 0)
  <2>1. state = "HALF_OPEN" /\ log' = Append(Said(t, outcome), e)
    BY <1>10 DEF Closes
  <2>2. e \in LogEntries /\ e.what = "closed"
    BY <1>5 DEF LogType, RejectionType
  <2> HIDE DEF e
  <2>3. TripsSoFar(log')
    BY <1>4, <1>10, <2>1, <2>2, TripsNext
  <2>4. Len(log') = Len(Said(t, outcome)) + 1 /\ log'[Len(log')].what = "closed"
    BY <1>4, <1>10, <2>1, <2>2, Appended
  <2>5. ~MustOpenNow(log')
    BY <2>4 DEF MustOpenNow, MustOpen, EvidenceOf
  <2> QED
    BY <2>3, <2>5
<1> QED
  BY <1>1, <1>2, <1>3, <1>6, <1>7, <1>8, <1>9, <1>10, StepIs

-----------------------------------------------------------------------------
(* Classic mode: consecutive_failures is the length of the streak.         *)

StreakInv ==
    ~RateMode /\ state = "CLOSED" =>
        consecutive_failures = Cardinality(StreakIn(log, Len(log)))

LEMMA SaidStreak ==
    ASSUME Inv, LogType, BeganInv, OrderedAs(log, state), StreakInv, ~RateMode, state = "CLOSED",
           NEW t \in Tasks, ticket[t] # NoTicket, NEW outcome \in Outcomes
    PROVE  Cardinality(StreakIn(Said(t, outcome), Len(log) + 1)) =
             IF ~CountsClosed(ticket[t], outcome) THEN consecutive_failures
             ELSE IF outcome = "failure" THEN consecutive_failures + 1 ELSE 0
<1> DEFINE e == Entry(outcome, 0, entered[t])
<1>1. entered[t] \in Nat
  BY DEF LogType
<1>2. e \in LogEntries /\ e.what = outcome /\ outcome \notin Lifecycle
  BY <1>1, EntryFacts, NoLifecycle
<1>3. Said(t, outcome) = Append(log, e)
  BY DEF Said
<1>4. EvidenceOf(Said(t, outcome), Len(log) + 1) <=> CountsClosed(ticket[t], outcome)
  BY SaidEvidence
<1>5. consecutive_failures = Cardinality(StreakIn(log, Len(log)))
  BY DEF StreakInv
<1> HIDE DEF e
<1>6. Cardinality(StreakIn(Append(log, e), Len(log) + 1)) =
        IF ~EvidenceOf(Append(log, e), Len(log) + 1) THEN Cardinality(StreakIn(log, Len(log)))
        ELSE IF e.what = "failure" THEN Cardinality(StreakIn(log, Len(log))) + 1
        ELSE 0
  BY <1>2, StreakNext
<1> QED
  BY <1>2, <1>3, <1>4, <1>5, <1>6

LEMMA StreakWhenDue ==
    ASSUME Inv, LogType, BeganInv, OrderedAs(log, state), StreakInv, ~RateMode
    PROVE  TripsWhenDue
<1> SUFFICES ASSUME NEW t \in Tasks, NEW outcome \in Outcomes, ticket[t] # NoTicket,
                    CountsClosed(ticket[t], outcome)
             PROVE  Trips(outcome) <=> MustOpen(Said(t, outcome), Len(log) + 1)
  BY DEF TripsWhenDue
<1>1. state = "CLOSED"
  BY DEF CountsClosed, Inv, TicketInv
<1>2. Cardinality(StreakIn(Said(t, outcome), Len(log) + 1)) =
        IF outcome = "failure" THEN consecutive_failures + 1 ELSE 0
  BY <1>1, SaidStreak
<1>3. EvidenceOf(Said(t, outcome), Len(log) + 1)
  BY SaidEvidence
<1>4. FailureThreshold \in Nat \ {0}
  BY CircuitAssumption
<1> QED
  BY <1>2, <1>3, <1>4 DEF MustOpen, StreakDue, Trips

LEMMA StepStreak ==
    ASSUME Inv, LogType, BeganInv, OrderedAs(log, state), StreakInv, [Next]_vars
    PROVE  StreakInv'
<1> SUFFICES ASSUME ~RateMode, state' = "CLOSED"
             PROVE  consecutive_failures' = Cardinality(StreakIn(log', Len(log')))
  BY DEF StreakInv, StreakIn, EvidenceIn, EvidenceOf
<1>1. CASE Silent
  BY <1>1 DEF Silent, StreakInv
<1>2. ASSUME NEW t \in Tasks, Refuse(t) PROVE FALSE
  BY <1>2, RefuseIs
<1>3. ASSUME NEW t \in Tasks, TurnHalfOpen(t) PROVE FALSE
  BY <1>3, TurnIs DEF MoveTo
<1>4. ASSUME NEW t \in Tasks, NEW outcome \in Outcomes, ticket[t] # NoTicket,
             Passes(t, outcome) \/ Adds(t, outcome)
      PROVE  consecutive_failures' = Cardinality(StreakIn(log', Len(log')))
  <2>1. log' = Said(t, outcome) /\ state = "CLOSED"
    BY <1>4 DEF Passes, Adds
  <2>2. Len(log') = Len(log) + 1
    BY <1>4, <2>1, SaidEvidence
  <2>3. CASE Passes(t, outcome)
    BY <1>4, <2>1, <2>2, <2>3, SaidStreak DEF Passes
  <2>4. CASE Adds(t, outcome)
    <3>1. CountsClosed(ticket[t], outcome) /\ outcome \in {"success", "failure"}
      BY <2>4 DEF Adds, CountsClosed, Outcomes
    <3>2. consecutive_failures' = IF outcome = "failure" THEN consecutive_failures + 1 ELSE 0
      BY <2>4, <3>1 DEF Adds, RecordClosed
    <3> QED
      BY <1>4, <2>1, <2>2, <3>1, <3>2, SaidStreak
  <2> QED
    BY <1>4, <2>3, <2>4
<1>5. ASSUME NEW t \in Tasks, NEW outcome \in Outcomes, TripsNow(t, outcome) \/ Reopens(t, outcome)
      PROVE  FALSE
  BY <1>5 DEF TripsNow, Reopens, MoveTo
<1>6. ASSUME NEW t \in Tasks, NEW outcome \in Outcomes, ticket[t] # NoTicket, Closes(t, outcome)
      PROVE  consecutive_failures' = Cardinality(StreakIn(log', Len(log')))
  <2> DEFINE e == Entry("closed", episode_rejections, 0)
  <2>1. consecutive_failures' = 0 /\ log' = Append(Said(t, outcome), e)
    BY <1>6 DEF Closes, Close
  <2>2. e \in LogEntries /\ e.what \in Lifecycle
    BY EntryFacts DEF LogType, RejectionType, EventNames, Lifecycle
  <2>3. OrderedAs(Said(t, outcome), state)
    BY SaidOrdered
  <2> HIDE DEF e
  <2> QED
    BY <2>1, <2>2, <2>3, EvidenceGone
<1> QED
  BY <1>1, <1>2, <1>3, <1>4, <1>5, <1>6, StepIs

LEMMA OpensWhenDue ==
    ASSUME LogType, OrderedAs(log, state), TripsInv, NEW i \in Positions, Shown(i) = "CLOSED"
    PROVE  OpensAt(i + 1) <=> MustOpen(log, i)
<1>1. i \in 1 .. Len(log) /\ Positions = 1 .. Len(log) /\ Len(log) \in Nat
  BY DEF Positions, LogType
<1>2. ShownIn(log, i) = "CLOSED" /\ ShownIn(log, Len(log)) = state
  BY ShownLog DEF OrderedAs
<1>3. CASE i = Len(log)
  <2>1. ~OpensAt(i + 1)
    BY <1>1, <1>3 DEF OpensAt
  <2>2. ~MustOpen(log, i)
    BY <1>1, <1>2, <1>3 DEF TripsInv, MustOpenNow
  <2> QED
    BY <2>1, <2>2
<1>4. CASE i # Len(log)
  <2>1. i \in 1 .. Len(log) - 1 /\ i + 1 \in Positions
    BY <1>1, <1>4
  <2> QED
    BY <1>2, <2>1 DEF TripsInv, TripsSoFar, OpensAt
<1> QED
  BY <1>3, <1>4

LEMMA StreakMeans ==
    ASSUME LogType, OrderedAs(log, state), TripsInv
    PROVE  TripsOnStreak
BY OpensWhenDue, LogShows DEF TripsOnStreak, MustOpen, StreakDue

LEMMA RateMeans ==
    ASSUME LogType, OrderedAs(log, state), TripsInv
    PROVE  TripsOnRate
BY OpensWhenDue, LogShows DEF TripsOnRate, MustOpen, RateDue

-----------------------------------------------------------------------------
(* Rate mode: the window counts the evidence.                              *)

(* The lemmas about the window alone; they are not about its use.          *)
P == INSTANCE RollingWindowProofs WITH MaxNow <- 0, MaxOutcomes <- 0, good <- 0, bad <- 0

LEMMA SameSums ==
    \A f, S : P!SumFunctionOnSet(f, S) = SumFunctionOnSet(f, S)
BY DEF P!SumFunctionOnSet, P!FoldFunctionOnSet, P!MapThenFoldSet,
       SumFunctionOnSet, FoldFunctionOnSet, MapThenFoldSet

LEMMA SameSlots ==
    \A n : P!Slot(n) = W!Slot(n)
BY DEF P!Slot, W!Slot

LEMMA SameClear ==
    /\ \A w : P!Clear(w) = W!Clear(w)
    /\ P!NewWindow = W!NewWindow /\ P!Windows = W!Windows
BY DEF P!Clear, W!Clear, P!NewWindow, W!NewWindow, P!Windows, W!Windows, P!NoOutcomes, W!NoOutcomes,
       P!Buckets, W!Buckets, P!NeverAdvanced, W!NeverAdvanced

LEMMA SameAdvance ==
    \A w, n : P!Advance(w, n) = W!Advance(w, n)
BY DEF P!Advance, W!Advance, P!Slot, W!Slot, P!Clear, W!Clear, P!Forget, W!Forget,
       P!NoOutcomes, W!NoOutcomes, P!Buckets, W!Buckets,
       P!SumFunctionOnSet, P!FoldFunctionOnSet, P!MapThenFoldSet,
       W!SumFunctionOnSet, W!FoldFunctionOnSet, W!MapThenFoldSet

LEMMA SameRecord ==
    /\ \A w, n, failed : P!Record(w, n, failed) = W!Record(w, n, failed)
    /\ \A w, n : P!Totals(w, n) = W!Totals(w, n)
<1>1. ASSUME NEW w, NEW n, NEW failed PROVE P!Record(w, n, failed) = W!Record(w, n, failed)
  <2>1. P!Advance(w, n) = W!Advance(w, n)
    BY SameAdvance
  <2> QED
    BY <2>1, Zenon DEF P!Record, W!Record
<1>2. ASSUME NEW w, NEW n PROVE P!Totals(w, n) = W!Totals(w, n)
  <2>1. P!Advance(w, n) = W!Advance(w, n)
    BY SameAdvance
  <2> QED
    BY <2>1, Zenon DEF P!Totals, W!Totals
<1> QED
  BY <1>1, <1>2

LEMMA WindowAssumption == P!BucketAssumption
BY CircuitAssumption DEF P!BucketAssumption

LEMMA SlotsAreInts ==
    /\ BucketCount \in Nat \ {0} /\ BucketWidth \in Nat \ {0}
    /\ \A n \in Int : W!Slot(n) \in Int
BY CircuitAssumption DEF W!Slot

(* The window lemmas, said of the breaker's window.                        *)
LEMMA WindowRecords ==
    ASSUME NEW w, NEW g \in P!Tallies, NEW b \in P!Tallies, P!Counts(w, g, b),
           NEW n \in Int, w.slot <= W!Slot(n), P!EndsAt(g, w.slot), P!EndsAt(b, w.slot)
    PROVE  /\ P!Counts(W!Record(w, n, TRUE), g, P!Bump(b, W!Slot(n)))
           /\ P!Counts(W!Record(w, n, FALSE), P!Bump(g, W!Slot(n)), b)
           /\ W!Record(w, n, TRUE).slot = W!Slot(n)
           /\ W!Record(w, n, FALSE).slot = W!Slot(n)
BY WindowAssumption, P!RecordCounts, SameRecord, SameSlots

LEMMA WindowTotals ==
    ASSUME NEW w, NEW g \in P!Tallies, NEW b \in P!Tallies, P!Counts(w, g, b)
    PROVE  LET slots == w.slot - BucketCount + 1 .. w.slot
           IN /\ w.failures = SumFunctionOnSet(b, slots)
              /\ w.total = SumFunctionOnSet(g, slots) + SumFunctionOnSet(b, slots)
BY WindowAssumption, P!CountsTotals, SameSums

LEMMA WindowClears ==
    /\ P!Counts(W!NewWindow, P!Blank, P!Blank) /\ P!Blank \in P!Tallies
    /\ \A w : P!Shaped(w) => /\ P!Counts(W!Clear(w), P!Blank, P!Blank)
                             /\ W!Clear(w).slot = w.slot
BY WindowAssumption, P!ClearCounts, SameClear

-----------------------------------------------------------------------------
(* Members of a set by their keys.                                         *)
LEMMA CountByKey ==
    ASSUME NEW S, IsFiniteSet(S), NEW key, NEW T \in SUBSET Int, IsFiniteSet(T)
    PROVE  SumFunctionOnSet([s \in Int |-> Cardinality({k \in S : key[k] = s})], T) =
             Cardinality({k \in S : key[k] \in T})
<1> DEFINE h == [s \in Int |-> Cardinality({k \in S : key[k] = s})]
           In(U) == {k \in S : key[k] \in U}
           F == {U \in SUBSET T : SumFunctionOnSet(h, U) = Cardinality(In(U))}
<1>0. \A U : IsFiniteSet(In(U)) /\ Cardinality(In(U)) \in Nat
  <2> TAKE U
  <2>1. In(U) \in SUBSET S
    OBVIOUS
  <2> QED
    BY <2>1, FS_Subset, FS_CardinalityType
<1>1. {} \in F
  <2>1. In({}) = {}
    OBVIOUS
  <2> QED
    BY <2>1, SumOfNothing, FS_EmptySet
<1>2. ASSUME NEW U \in SUBSET T, NEW s \in T, U \in F PROVE U \cup {s} \in F
  <2>1. CASE s \in U
    <3>1. U \cup {s} = U
      BY <2>1
    <3> QED
      BY <1>2, <3>1
  <2>2. CASE s \notin U
    <3>1. In(U \cup {s}) = In(U) \cup In({s}) /\ In(U) \cap In({s}) = {}
      BY <2>2
    <3>2. s \in Int /\ h[s] = Cardinality(In({s}))
      <4>1. {k \in S : key[k] = s} = In({s})
        OBVIOUS
      <4> HIDE DEF In
      <4> QED
        BY <4>1
    <3>3. IsFiniteSet(U) /\ Ints(h, U \cup {s})
      <4>1. \A r \in Int : h[r] \in Int
        <5> TAKE r \in Int
        <5>1. h[r] = Cardinality(In({r}))
          <6>1. {k \in S : key[k] = r} = In({r})
            OBVIOUS
          <6> HIDE DEF In
          <6> QED
            BY <6>1
        <5> HIDE DEF h, In
        <5> QED
          BY <1>0, <5>1
      <4>2. U \cup {s} \in SUBSET Int
        OBVIOUS
      <4>3. IsFiniteSet(U)
        BY FS_Subset
      <4> HIDE DEF h
      <4> QED
        BY <4>1, <4>2, <4>3 DEF Ints
    <3>4. SumFunctionOnSet(h, U) = Cardinality(In(U))
      BY <1>2
    <3> HIDE DEF h, In
    <3>5. SumFunctionOnSet(h, U \cup {s}) = h[s] + SumFunctionOnSet(h, U)
      BY <2>2, <3>3, SumOfMore
    <3>6. Cardinality(In(U) \cup In({s})) = Cardinality(In(U)) + Cardinality(In({s}))
      <4>1. /\ Cardinality(In(U) \cup In({s})) =
                 Cardinality(In(U)) + Cardinality(In({s})) - Cardinality(In(U) \cap In({s}))
            /\ Cardinality(In(U) \cap In({s})) = 0
        BY <1>0, <3>1, FS_Union, FS_EmptySet
      <4> QED
        BY <1>0, <4>1
    <3>7. SumFunctionOnSet(h, U \cup {s}) = Cardinality(In(U \cup {s}))
      <4>1. Cardinality(In(U)) \in Nat /\ Cardinality(In({s})) \in Nat
        BY <1>0
      <4>2. Cardinality(In(U \cup {s})) = Cardinality(In(U)) + Cardinality(In({s}))
        BY <3>1, <3>6
      <4>3. SumFunctionOnSet(h, U \cup {s}) = Cardinality(In({s})) + Cardinality(In(U))
        BY <3>2, <3>4, <3>5
      <4> QED
        BY <4>1, <4>2, <4>3
    <3>8. U \cup {s} \in SUBSET T
      BY <1>2
    <3> QED
      BY <3>7, <3>8
  <2> QED
    BY <2>1, <2>2
<1> HIDE DEF F
<1>3. T \in F
  BY <1>1, <1>2, SetsByElements
<1> QED
  BY <1>3 DEF F

-----------------------------------------------------------------------------
(* The evidence of a log by what it is and by slot.                        *)

EvidenceOn(entries, what) ==
    {k \in EvidenceIn(entries, Len(entries)) : entries[k].what = what}

InSlot(entries, what, s) ==
    {k \in EvidenceOn(entries, what) : W!Slot(entries[k].at) = s}

Tally(entries, what) == [s \in Int |-> Cardinality(InSlot(entries, what, s))]

LEMMA EvidenceOnFacts ==
    ASSUME NEW entries \in Seq(LogEntries), NEW what
    PROVE  LET S == EvidenceOn(entries, what)
           IN /\ S \in SUBSET (1 .. Len(entries)) /\ Len(entries) \in Nat
              /\ \A k \in S : W!Slot(entries[k].at) \in Int
              /\ \A U \in SUBSET S : IsFiniteSet(U) /\ Cardinality(U) \in Nat
<1> DEFINE S == EvidenceOn(entries, what)
           n == Len(entries)
<1>1. n \in Nat /\ S \in SUBSET EvidenceIn(entries, n)
  BY DEF EvidenceOn
<1>2. S \in SUBSET (1 .. n)
  BY <1>1, EvidenceFinite
<1>3. \A k \in 1 .. n : entries[k] \in LogEntries
  OBVIOUS
<1>4. \A k \in S : entries[k].at \in Int
  BY <1>2, <1>3 DEF LogEntries
<1> HIDE DEF S, n
<1>5. \A U \in SUBSET S : IsFiniteSet(U) /\ Cardinality(U) \in Nat
  <2> TAKE U \in SUBSET S
  <2>1. U \in SUBSET EvidenceIn(entries, n)
    BY <1>1
  <2> QED
    BY <1>1, <2>1, EvidenceFinite
<1> QED
  BY <1>1, <1>2, <1>4, <1>5, SlotsAreInts DEF S, n

LEMMA TallyFacts ==
    ASSUME NEW entries \in Seq(LogEntries), NEW what
    PROVE  /\ Tally(entries, what) \in P!Tallies
           /\ \A s \in Int : Tally(entries, what)[s] = Cardinality(InSlot(entries, what, s))
<1>1. \A s \in Int : Cardinality(InSlot(entries, what, s)) \in Nat
  <2> TAKE s \in Int
  <2>1. InSlot(entries, what, s) \in SUBSET EvidenceOn(entries, what)
    BY DEF InSlot
  <2> QED
    BY <2>1, EvidenceOnFacts
<1> QED
  BY <1>1 DEF Tally, P!Tallies

LEMMA TallySums ==
    ASSUME NEW entries \in Seq(LogEntries), NEW what, NEW T \in SUBSET Int, IsFiniteSet(T)
    PROVE  SumFunctionOnSet(Tally(entries, what), T) =
             Cardinality({k \in EvidenceOn(entries, what) : W!Slot(entries[k].at) \in T})
<1> DEFINE S == EvidenceOn(entries, what)
           key == [k \in S |-> W!Slot(entries[k].at)]
<1>1. IsFiniteSet(S)
  BY EvidenceOnFacts
<1>2. \A k \in S : key[k] = W!Slot(entries[k].at)
  OBVIOUS
<1> HIDE DEF key
<1>3. \A s : {k \in S : key[k] = s} = InSlot(entries, what, s)
  BY <1>2 DEF InSlot
<1>4. {k \in S : key[k] \in T} = {k \in S : W!Slot(entries[k].at) \in T}
  BY <1>2
<1> HIDE DEF S
<1>5. SumFunctionOnSet([s \in Int |-> Cardinality({k \in S : key[k] = s})], T) =
        Cardinality({k \in S : key[k] \in T})
  BY <1>1, CountByKey
<1>6. [s \in Int |-> Cardinality({k \in S : key[k] = s})] = Tally(entries, what)
  BY <1>3 DEF Tally
<1> QED
  BY <1>4, <1>5, <1>6 DEF S

LEMMA TallyNext ==
    ASSUME NEW entries, NEW s, OrderedAs(entries, s), NEW e \in LogEntries, e.what \notin Lifecycle,
           NEW what
    PROVE  LET n == Len(entries)
               more == Append(entries, e)
           IN Tally(more, what) =
                IF EvidenceOf(more, n + 1) /\ e.what = what
                THEN P!Bump(Tally(entries, what), W!Slot(e.at))
                ELSE Tally(entries, what)
<1> DEFINE n == Len(entries)
           more == Append(entries, e)
           old == EvidenceOn(entries, what)
           new == EvidenceOn(more, what)
           at == W!Slot(e.at)
<1>1. /\ n \in Nat /\ Len(more) = n + 1 /\ more[n + 1] = e
      /\ entries \in Seq(LogEntries) /\ more \in Seq(LogEntries)
  BY Appended DEF OrderedAs
<1>2. /\ EvidenceIn(more, n + 1) =
           IF EvidenceOf(more, n + 1) THEN EvidenceIn(entries, n) \cup {n + 1} ELSE EvidenceIn(entries, n)
      /\ \A i \in EvidenceIn(entries, n) : more[i] = entries[i]
      /\ EvidenceIn(entries, n) \in SUBSET (1 .. n)
  BY EvidenceNext
<1>3. /\ old \in SUBSET (1 .. n) /\ \A k \in old : more[k] = entries[k]
      /\ \A U \in SUBSET old : IsFiniteSet(U) /\ Cardinality(U) \in Nat
  <2>1. old \in SUBSET EvidenceIn(entries, n)
    BY DEF EvidenceOn
  <2> QED
    BY <1>1, <1>2, <2>1, EvidenceOnFacts
<1>4. new = IF EvidenceOf(more, n + 1) /\ e.what = what THEN old \cup {n + 1} ELSE old
  <2> HIDE DEF more
  <2> QED
    BY <1>1, <1>2 DEF EvidenceOn
<1>5. at \in Int
  BY SlotsAreInts DEF LogEntries
<1> HIDE DEF more, n, at
<1>6. CASE ~(EvidenceOf(more, n + 1) /\ e.what = what)
  <2>1. \A r : InSlot(more, what, r) = InSlot(entries, what, r)
    BY <1>3, <1>4, <1>6 DEF InSlot
  <2> QED
    BY <1>6, <2>1 DEF Tally, more, n
<1>7. CASE EvidenceOf(more, n + 1) /\ e.what = what
  <2> DEFINE h == Tally(entries, what)
             g == Tally(more, what)
  <2>1. h \in P!Tallies /\ g \in P!Tallies
        /\ \A r \in Int : /\ h[r] = Cardinality(InSlot(entries, what, r))
                          /\ g[r] = Cardinality(InSlot(more, what, r))
    BY <1>1, TallyFacts
  <2>2. \A r : InSlot(more, what, r) =
          IF r = at THEN InSlot(entries, what, r) \cup {n + 1} ELSE InSlot(entries, what, r)
    BY <1>1, <1>3, <1>4, <1>7 DEF InSlot, at
  <2>3. \A r : IsFiniteSet(InSlot(entries, what, r)) /\ n + 1 \notin InSlot(entries, what, r)
    <3> TAKE r
    <3>1. InSlot(entries, what, r) \in SUBSET old
      BY DEF InSlot
    <3>2. n + 1 \notin old
      BY <1>1, <1>3
    <3> HIDE DEF old
    <3> QED
      BY <1>3, <3>1, <3>2
  <2>4. Cardinality(InSlot(entries, what, at) \cup {n + 1}) =
          Cardinality(InSlot(entries, what, at)) + 1
    BY <2>3, FS_AddElement
  <2> HIDE DEF h, g
  <2>5. g[at] = h[at] + 1 /\ \A r \in Int : r # at => g[r] = h[r]
    BY <1>5, <2>1, <2>2, <2>4
  <2>6. g = P!Bump(h, at)
    BY <1>5, <2>1, <2>5 DEF P!Bump, P!Tallies
  <2> QED
    BY <1>7, <2>6 DEF g, h, more, n, at
<1> QED
  BY <1>6, <1>7 DEF more, n

LEMMA TallyGone ==
    ASSUME NEW entries, NEW s, OrderedAs(entries, s), NEW e \in LogEntries, e.what \in Lifecycle,
           NEW what
    PROVE  Tally(Append(entries, e), what) = P!Blank
<1> DEFINE more == Append(entries, e)
<1>1. EvidenceIn(more, Len(more)) = {}
  BY EvidenceGone
<1> HIDE DEF more
<1>2. \A r : InSlot(more, what, r) = {}
  BY <1>1 DEF InSlot, EvidenceOn
<1>3. Cardinality({}) = 0
  BY FS_EmptySet
<1> QED
  BY <1>2, <1>3 DEF Tally, P!Blank, more

-----------------------------------------------------------------------------
(* A window that counts the evidence of a log.                             *)

Counted(entries, w) ==
    /\ P!Counts(w, Tally(entries, "success"), Tally(entries, "failure"))
    /\ \A what \in {"success", "failure"} : P!EndsAt(Tally(entries, what), w.slot)

RateInv ==
    RateMode =>
        /\ P!Shaped(window) /\ window.slot <= W!Slot(now)
        /\ state = "CLOSED" => Counted(log, window)

LEMMA ShapedSlot ==
    ASSUME NEW w, P!Shaped(w)
    PROVE  w.slot \in Int
BY DEF P!Shaped, P!Windows

(* Its totals are the live evidence.                                       *)
LEMMA LiveTotals ==
    ASSUME NEW entries \in Seq(LogEntries), Len(entries) # 0, NEW w, Counted(entries, w),
           w.slot = W!Slot(entries[Len(entries)].at)
    PROVE  LET live == LiveIn(entries, Len(entries))
           IN /\ w.total = Cardinality(live)
              /\ w.failures = Cardinality({k \in live : entries[k].what = "failure"})
<1> DEFINE n == Len(entries)
           live == LiveIn(entries, n)
           slots == w.slot - BucketCount + 1 .. w.slot
           Of(what) == {k \in live : entries[k].what = what}
<1>1. w.slot \in Int /\ BucketCount \in Nat \ {0}
  BY ShapedSlot, SlotsAreInts DEF Counted, P!Counts
<1>2. slots \in SUBSET Int /\ IsFiniteSet(slots)
  BY <1>1, FS_Interval
<1>3. /\ w.failures = SumFunctionOnSet(Tally(entries, "failure"), slots)
      /\ w.total = SumFunctionOnSet(Tally(entries, "success"), slots)
                     + SumFunctionOnSet(Tally(entries, "failure"), slots)
  BY TallyFacts, WindowTotals DEF Counted
<1>4. ASSUME NEW what \in {"success", "failure"}
      PROVE  /\ SumFunctionOnSet(Tally(entries, what), slots) = Cardinality(Of(what))
             /\ IsFiniteSet(Of(what)) /\ Cardinality(Of(what)) \in Nat
  <2> DEFINE S == EvidenceOn(entries, what)
  <2>1. \A k \in S : W!Slot(entries[k].at) \in Int
    BY EvidenceOnFacts
  <2>2. ASSUME NEW k \in S, W!Slot(entries[k].at) > w.slot PROVE FALSE
    <3> DEFINE r == W!Slot(entries[k].at)
               U == InSlot(entries, what, r)
    <3>1. r \in Int /\ Tally(entries, what)[r] = 0
      BY <2>1, <2>2 DEF Counted, P!EndsAt
    <3>2. Cardinality(U) = 0
      BY <3>1, TallyFacts
    <3>3. U \in SUBSET S /\ k \in U
      BY DEF InSlot
    <3>4. IsFiniteSet(U)
      BY <3>3, EvidenceOnFacts
    <3> HIDE DEF U
    <3> QED
      BY <3>2, <3>3, <3>4, FS_EmptySet
  <2>3. Of(what) = {k \in S : W!Slot(entries[k].at) > w.slot - BucketCount}
    BY DEF LiveIn, EvidenceOn
  <2>4. \A k \in S : W!Slot(entries[k].at) > w.slot - BucketCount <=> W!Slot(entries[k].at) \in slots
    <3> TAKE k \in S
    <3> DEFINE r == W!Slot(entries[k].at)
    <3>1. r \in Int /\ ~(r > w.slot)
      BY <2>1, <2>2
    <3> HIDE DEF r
    <3>2. r > w.slot - BucketCount <=> r \in slots
      BY <1>1, <3>1
    <3> QED
      BY <3>2 DEF r
  <2>5. Of(what) = {k \in S : W!Slot(entries[k].at) \in slots}
    <3> HIDE DEF slots
    <3> QED
      BY <2>3, <2>4
  <2>6. Of(what) \in SUBSET S
    BY <2>3
  <2> HIDE DEF Of, S, slots
  <2>7. SumFunctionOnSet(Tally(entries, what), slots) =
          Cardinality({k \in EvidenceOn(entries, what) : W!Slot(entries[k].at) \in slots})
    BY <1>2, TallySums
  <2>8. SumFunctionOnSet(Tally(entries, what), slots) = Cardinality(Of(what))
    BY <2>5, <2>7 DEF S
  <2> QED
    BY <2>6, <2>8, EvidenceOnFacts DEF S
<1>5. live = Of("success") \cup Of("failure") /\ Of("success") \cap Of("failure") = {}
  <2>1. \A k \in live : entries[k].what \in {"success", "failure"}
    BY DEF LiveIn, EvidenceIn, EvidenceOf
  <2> QED
    BY <2>1
<1>6. {k \in live : entries[k].what = "failure"} = Of("failure")
  OBVIOUS
<1> HIDE DEF Of, live, slots
<1>7. /\ IsFiniteSet(Of("success")) /\ IsFiniteSet(Of("failure"))
      /\ Cardinality(Of("success")) \in Nat /\ Cardinality(Of("failure")) \in Nat
  BY <1>4
<1>8. Cardinality(live) = Cardinality(Of("success")) + Cardinality(Of("failure"))
  <2>1. /\ Cardinality(Of("success") \cup Of("failure")) =
             Cardinality(Of("success")) + Cardinality(Of("failure"))
               - Cardinality(Of("success") \cap Of("failure"))
        /\ Cardinality(Of("success") \cap Of("failure")) = 0
    BY <1>5, <1>7, FS_Union, FS_EmptySet
  <2> QED
    BY <1>5, <1>7, <2>1
<1>9. w.failures = Cardinality(Of("failure")) /\ w.total = Cardinality(live)
  BY <1>3, <1>4, <1>8
<1> QED
  BY <1>6, <1>9 DEF live, n

LEMMA BumpEnds ==
    ASSUME NEW h \in P!Tallies, NEW last \in Int, NEW s \in Int, last <= s, P!EndsAt(h, last)
    PROVE  P!EndsAt(h, s) /\ P!EndsAt(P!Bump(h, s), s)
BY DEF P!Tallies, P!EndsAt, P!Bump

(* The window after an outcome that counts.                                *)
LEMMA CountedNext ==
    ASSUME Inv, LogType, BeganInv, OrderedAs(log, state), Counted(log, window),
           window.slot <= W!Slot(now), NEW t \in Tasks, ticket[t] # NoTicket,
           NEW outcome \in Outcomes, CountsClosed(ticket[t], outcome)
    PROVE  LET w == W!Record(window, now, outcome = "failure")
           IN Counted(Said(t, outcome), w) /\ w.slot = W!Slot(now)
<1> DEFINE e == Entry(outcome, 0, entered[t])
           g == Tally(log, "success")
           b == Tally(log, "failure")
           s == W!Slot(now)
           w == W!Record(window, now, outcome = "failure")
           said == Said(t, outcome)
<1>1. entered[t] \in Nat
  BY DEF LogType
<1>2. e \in LogEntries /\ e.what = outcome /\ outcome \notin Lifecycle /\ e.at = now
  BY <1>1, EntryFacts, NoLifecycle
<1>3. said = Append(log, e)
  BY DEF Said
<1>4. EvidenceOf(said, Len(log) + 1)
  BY SaidEvidence
<1>5. outcome = "success" \/ outcome = "failure"
  BY DEF CountsClosed, Outcomes
<1>6. log \in Seq(LogEntries) /\ now \in Int /\ s \in Int /\ window.slot \in Int
  <2>1. P!Shaped(window)
    BY DEF Counted, P!Counts
  <2> QED
    BY <2>1, ShapedSlot, SlotsAreInts DEF LogType
<1> HIDE DEF e, said
<1>7. \A what : Tally(said, what) =
        IF what = outcome THEN P!Bump(Tally(log, what), s) ELSE Tally(log, what)
  <2> TAKE what
  <2>1. Tally(Append(log, e), what) =
          IF EvidenceOf(Append(log, e), Len(log) + 1) /\ e.what = what
          THEN P!Bump(Tally(log, what), W!Slot(e.at)) ELSE Tally(log, what)
    BY <1>2, TallyNext
  <2> QED
    BY <1>2, <1>3, <1>4, <2>1
<1>8. /\ g \in P!Tallies /\ b \in P!Tallies /\ P!Counts(window, g, b)
      /\ P!EndsAt(g, window.slot) /\ P!EndsAt(b, window.slot)
  BY <1>6, TallyFacts DEF Counted
<1>9. /\ P!Counts(W!Record(window, now, TRUE), g, P!Bump(b, s))
      /\ P!Counts(W!Record(window, now, FALSE), P!Bump(g, s), b)
      /\ W!Record(window, now, TRUE).slot = s
      /\ W!Record(window, now, FALSE).slot = s
  <2> HIDE DEF g, b
  <2> QED
    BY <1>6, <1>8, WindowRecords
<1>10. P!EndsAt(g, s) /\ P!EndsAt(P!Bump(g, s), s) /\ P!EndsAt(b, s) /\ P!EndsAt(P!Bump(b, s), s)
  <2> HIDE DEF g, b, s
  <2>1. window.slot <= s
    BY DEF s
  <2> QED
    BY <1>6, <1>8, <2>1, BumpEnds
<1>11. CASE outcome = "failure"
  <2>1. w = W!Record(window, now, TRUE)
    BY <1>11
  <2>2. Tally(said, "success") = g /\ Tally(said, "failure") = P!Bump(b, s)
    BY <1>7, <1>11
  <2> HIDE DEF w, g, b, s
  <2>3. Counted(said, w) /\ w.slot = s
    BY <1>9, <1>10, <2>1, <2>2 DEF Counted
  <2> QED
    BY <2>3 DEF w, s, said
<1>12. CASE outcome = "success"
  <2>1. w = W!Record(window, now, FALSE)
    <3>1. (outcome = "failure") = FALSE
      BY <1>12
    <3> QED
      BY <3>1
  <2>2. Tally(said, "success") = P!Bump(g, s) /\ Tally(said, "failure") = b
    BY <1>7, <1>12
  <2> HIDE DEF w, g, b, s
  <2>3. Counted(said, w) /\ w.slot = s
    BY <1>9, <1>10, <2>1, <2>2 DEF Counted
  <2> QED
    BY <2>3 DEF w, s, said
<1> QED
  BY <1>5, <1>11, <1>12

(* In rate mode the breaker opens when the log says so.                    *)
LEMMA ReadsRecorded ==
    ASSUME NEW failed, W!Record(window, now, failed).slot = W!Slot(now), now \in Int
    PROVE  LET w == W!Record(window, now, failed)
           IN W!Totals(w, now) = [total |-> w.total, failures |-> w.failures]
<1> DEFINE w == W!Record(window, now, failed)
<1>1. W!Slot(now) \in Int /\ w.slot = W!Slot(now)
  BY SlotsAreInts
<1> HIDE DEF w
<1>2. W!Slot(now) <= w.slot
  BY <1>1
<1>3. W!Advance(w, now) = w
  BY <1>2, Zenon DEF W!Advance
<1>4. W!Totals(w, now) = [total |-> w.total, failures |-> w.failures]
  BY <1>3, Zenon DEF W!Totals
<1> QED
  BY <1>4 DEF w

LEMMA RateWhenDue ==
    ASSUME Inv, LogType, BeganInv, OrderedAs(log, state), RateInv, RateMode
    PROVE  TripsWhenDue
<1> SUFFICES ASSUME NEW t \in Tasks, NEW outcome \in Outcomes, ticket[t] # NoTicket,
                    CountsClosed(ticket[t], outcome)
             PROVE  Trips(outcome) <=> MustOpen(Said(t, outcome), Len(log) + 1)
  BY DEF TripsWhenDue
<1> DEFINE failed == outcome = "failure"
           w == W!Record(window, now, failed)
           said == Said(t, outcome)
           n == Len(log) + 1
           live == LiveIn(said, n)
<1>1. state = "CLOSED"
  BY DEF CountsClosed, Inv, TicketInv
<1>2. Counted(said, w) /\ w.slot = W!Slot(now)
  BY <1>1, CountedNext DEF RateInv
<1>3. /\ OrderedAs(said, state) /\ Len(log) \in Nat /\ Len(said) = n
      /\ said[n].at = now /\ EvidenceOf(said, n)
  BY SaidEvidence
<1>4. said \in Seq(LogEntries) /\ Len(said) # 0 /\ now \in Int
  BY <1>3 DEF OrderedAs, LogType
<1>5. W!Totals(w, now) = [total |-> w.total, failures |-> w.failures]
  BY <1>2, <1>4, ReadsRecorded
<1> HIDE DEF said, n
<1>6. /\ w.total = Cardinality(live)
      /\ w.failures = Cardinality({k \in live : said[k].what = "failure"})
  <2> HIDE DEF w
  <2> QED
    BY <1>2, <1>3, <1>4, LiveTotals
<1>7. Trips(outcome) <=> RateReached(failed)
  BY DEF Trips
<1>8. RateReached(failed) <=> w.total >= MinimumCalls /\ w.failures * RateDen >= RateNum * w.total
  <2>1. RateReached(failed) <=>
          LET read == W!Totals(w, now)
          IN read.total >= MinimumCalls /\ read.failures * RateDen >= RateNum * read.total
    BY DEF RateReached
  <2> HIDE DEF w, failed
  <2> QED
    BY <1>5, <2>1
<1>9. RateDue(said, n) <=> w.total >= MinimumCalls /\ w.failures * RateDen >= RateNum * w.total
  <2> HIDE DEF w
  <2> QED
    BY <1>6 DEF RateDue
<1>10. MustOpen(said, n) <=> RateDue(said, n)
  BY <1>3 DEF MustOpen
<1> QED
  BY <1>7, <1>8, <1>9, <1>10 DEF said, n

LEMMA TimeSteps ==
    ASSUME LogType, Inv, [Next]_vars
    PROVE  /\ now' \in Nat /\ now <= now' /\ W!Slot(now) <= W!Slot(now')
           /\ W!Slot(now) \in Int /\ W!Slot(now') \in Int
           /\ ~Silent => now' = now
<1>1. now' = now \/ (now' = now + 1 /\ Silent)
  BY DEF Next, Refuse, TurnHalfOpen, Enter, Return, Begin, Tick, Finished, vars, circuit, Silent,
         machine, counters
<1>2. now \in Nat /\ now' \in Nat /\ now <= now'
  BY <1>1 DEF LogType
<1>3. W!Slot(now) \in Int /\ W!Slot(now') \in Int
  BY <1>2, SlotsAreInts
<1>4. W!Slot(now) <= W!Slot(now')
  <2> DEFINE before == now
             after == now'
  <2>1. before \in Int /\ after \in Int /\ before <= after /\ BucketWidth \in Nat \ {0}
    BY <1>2, SlotsAreInts
  <2> HIDE DEF before, after
  <2>2. before \div BucketWidth <= after \div BucketWidth
    BY <2>1, QuotientsOrdered
  <2> QED
    BY <2>2 DEF before, after, W!Slot
<1> QED
  BY <1>1, <1>2, <1>3, <1>4

LEMMA StepRate ==
    ASSUME Inv, LogType, BeganInv, OrderedAs(log, state), RateInv, [Next]_vars
    PROVE  RateInv'
<1> DEFINE Good == /\ P!Shaped(window') /\ window'.slot <= W!Slot(now')
                   /\ state' = "CLOSED" => Counted(log', window')
<1> SUFFICES ASSUME RateMode PROVE Good
  BY DEF RateInv, Counted, Tally, InSlot, EvidenceOn, EvidenceIn, EvidenceOf
<1>0. /\ P!Shaped(window) /\ window.slot <= W!Slot(now)
      /\ state = "CLOSED" => Counted(log, window)
  BY DEF RateInv
<1>1. ASSUME UNCHANGED window, state' = "CLOSED" => state = "CLOSED" /\ Counted(log', window)
      PROVE  Good
  <2>1. window.slot \in Int /\ window'.slot <= W!Slot(now')
    BY <1>0, <1>1, ShapedSlot, TimeSteps
  <2> QED
    BY <1>0, <1>1, <2>1
<1>5. ASSUME NEW t \in Tasks, NEW outcome \in Outcomes, ticket[t] # NoTicket, Passes(t, outcome)
      PROVE  Good
  <2> DEFINE e == Entry(outcome, 0, entered[t])
  <2>1. entered[t] \in Nat
    BY DEF LogType
  <2>2. e \in LogEntries /\ e.what \notin Lifecycle
    BY <2>1, EntryFacts, NoLifecycle
  <2>3. /\ log' = Append(log, e) /\ state' = state /\ window' = window
        /\ ~CountsClosed(ticket[t], outcome) /\ log' = Said(t, outcome)
    BY <1>5 DEF Passes, Said
  <2>4. ~EvidenceOf(log', Len(log) + 1)
    BY <1>5, <2>3, SaidEvidence
  <2> HIDE DEF e
  <2>5. \A what : Tally(log', what) = Tally(log, what)
    <3> TAKE what
    <3>1. Tally(Append(log, e), what) =
            IF EvidenceOf(Append(log, e), Len(log) + 1) /\ e.what = what
            THEN P!Bump(Tally(log, what), W!Slot(e.at)) ELSE Tally(log, what)
      BY <2>2, TallyNext
    <3> QED
      BY <2>3, <2>4, <3>1
  <2>6. Counted(log, window) => Counted(log', window)
    BY <2>5 DEF Counted
  <2> QED
    BY <1>0, <1>1, <2>3, <2>6
<1>2. ASSUME NEW t \in Tasks, NEW outcome \in Outcomes, ticket[t] # NoTicket,
             Adds(t, outcome) \/ TripsNow(t, outcome)
      PROVE  Good
  <2> DEFINE w == W!Record(window, now, outcome = "failure")
  <2>1. CountsClosed(ticket[t], outcome) /\ window' = w /\ state = "CLOSED"
    BY <1>2 DEF Adds, TripsNow, RecordClosed, CountsClosed, Inv, TicketInv
  <2>2. Counted(Said(t, outcome), w) /\ w.slot = W!Slot(now)
    BY <1>0, <1>2, <2>1, CountedNext
  <2> HIDE DEF w
  <2>3. P!Shaped(window') /\ window'.slot <= W!Slot(now')
    BY <2>1, <2>2, TimeSteps DEF Counted, P!Counts
  <2>4. Adds(t, outcome) => log' = Said(t, outcome)
    BY DEF Adds
  <2>5. TripsNow(t, outcome) => state' # "CLOSED"
    BY DEF TripsNow, MoveTo
  <2> QED
    BY <1>2, <2>1, <2>2, <2>3, <2>4, <2>5
<1>3. ASSUME NEW t \in Tasks, NEW outcome \in Outcomes, Closes(t, outcome)
      PROVE  Good
  <2> DEFINE e == Entry("closed", episode_rejections, 0)
             w == W!Clear(window)
  <2>1. window' = w /\ log' = Append(Said(t, outcome), e)
    BY <1>3 DEF Closes, Close
  <2>2. e \in LogEntries /\ e.what \in Lifecycle
    BY EntryFacts DEF LogType, RejectionType, EventNames, Lifecycle
  <2>3. OrderedAs(Said(t, outcome), state)
    BY SaidOrdered
  <2>4. P!Counts(w, P!Blank, P!Blank) /\ w.slot = window.slot
    BY <1>0, WindowClears
  <2>5. P!EndsAt(P!Blank, w.slot)
    BY DEF P!EndsAt, P!Blank
  <2> HIDE DEF e, w
  <2>6. \A what : Tally(log', what) = P!Blank
    BY <2>1, <2>2, <2>3, TallyGone
  <2>7. Counted(log', window')
    BY <2>1, <2>4, <2>5, <2>6 DEF Counted
  <2>8. window'.slot <= W!Slot(now')
    <3>1. window.slot \in Int
      BY <1>0, ShapedSlot
    <3> QED
      BY <1>0, <2>1, <2>4, <3>1, TimeSteps
  <2> QED
    BY <2>1, <2>4, <2>7, <2>8 DEF P!Counts
<1>4. ASSUME NEW t \in Tasks, Refuse(t) \/ TurnHalfOpen(t)
      PROVE  Good
  BY <1>1, <1>4, RefuseIs, TurnIs DEF MoveTo
<1>6. ASSUME NEW t \in Tasks, NEW outcome \in Outcomes, Reopens(t, outcome)
      PROVE  Good
  BY <1>1, <1>6 DEF Reopens, MoveTo
<1>7. CASE Silent
  BY <1>0, <1>1, <1>7 DEF Silent
<1> QED
  BY <1>2, <1>3, <1>4, <1>5, <1>6, <1>7, StepIs

LEMMA InitRate == Init => RateInv
<1> SUFFICES ASSUME Init PROVE RateInv
  OBVIOUS
<1>1. log = <<>> /\ window = W!NewWindow /\ now = 0
  BY DEF Init, CircuitInit
<1>2. P!Counts(window, P!Blank, P!Blank)
  BY <1>1, WindowClears
<1>3. window.slot = -BucketCount /\ window.slot <= W!Slot(now)
  <2>1. W!Slot(0) = 0
    BY SlotsAreInts DEF W!Slot
  <2>2. W!NewWindow.slot = -BucketCount
    BY DEF W!NewWindow, W!NeverAdvanced
  <2> QED
    BY <1>1, <2>1, <2>2, SlotsAreInts
<1>4. \A what : Tally(log, what) = P!Blank
  <2>1. EvidenceIn(log, Len(log)) = {}
    BY <1>1 DEF EvidenceIn
  <2>2. \A what, s : InSlot(log, what, s) = {}
    BY <2>1 DEF InSlot, EvidenceOn
  <2> QED
    BY <2>2, FS_EmptySet DEF Tally, P!Blank
<1>5. P!EndsAt(P!Blank, window.slot)
  BY DEF P!EndsAt, P!Blank
<1>6. Counted(log, window)
  BY <1>2, <1>4, <1>5 DEF Counted
<1> QED
  BY <1>2, <1>3, <1>6 DEF RateInv, P!Counts

-----------------------------------------------------------------------------
(* The invariant about the log.  Inv and LogType are what a step needs to  *)
(* be read at all; OrderedAs ties the log to the state, SpacedAs and       *)
(* AccountedAs to the rejection counters, BeganInv to the tickets, and     *)
(* StreakInv and RateInv to what consecutive_failures and the window have  *)
(* counted, so that TripsInv is kept.                                      *)
LogInv ==
    /\ Inv /\ LogType
    /\ OrderedAs(log, state)
    /\ SpacedAs(log, state, rejected_emitted_at)
    /\ AccountedAs(log, state, rejections_suppressed, episode_rejections)
    /\ BeganInv /\ TripsInv /\ StreakInv /\ RateInv

LEMMA InitLogInv == Init => LogInv
<1> SUFFICES ASSUME Init PROVE LogInv
  OBVIOUS
<1>1. Inv /\ LogType /\ OrderedAs(log, state) /\ RateInv
  BY InitCore, InitLogType, InitOrdered, InitRate
<1>2. log = <<>> /\ Len(log) = 0 /\ state = "CLOSED" /\ consecutive_failures = 0
  BY DEF Init, CircuitInit
<1>3. SpacedAs(log, state, rejected_emitted_at)
  BY <1>2 DEF SpacedAs, SpacedSoFar
<1>4. AccountedAs(log, state, rejections_suppressed, episode_rejections)
  BY <1>2 DEF AccountedAs, AccountedSoFar
<1>5. BeganInv
  BY DEF Init, BeganInv
<1>6. TripsInv
  BY <1>2 DEF TripsInv, TripsSoFar, MustOpenNow
<1>7. StreakInv
  <2>1. StreakIn(log, 0) = {}
    BY DEF StreakIn, EvidenceIn
  <2> QED
    BY <1>2, <2>1, FS_EmptySet DEF StreakInv
<1> QED
  BY <1>1, <1>3, <1>4, <1>5, <1>6, <1>7 DEF LogInv

LEMMA StepLogInv == LogInv /\ [Next]_vars => LogInv'
<1> SUFFICES ASSUME LogInv, [Next]_vars PROVE LogInv'
  OBVIOUS
<1>0. /\ Inv /\ LogType /\ BeganInv /\ TripsInv /\ StreakInv /\ RateInv
      /\ OrderedAs(log, state) /\ SpacedAs(log, state, rejected_emitted_at)
      /\ AccountedAs(log, state, rejections_suppressed, episode_rejections)
  BY DEF LogInv
<1>1. Inv' /\ LogType' /\ OrderedAs(log, state)'
  BY <1>0, StepRefines, StepType, StepOrdered
<1>2. /\ SpacedAs(log, state, rejected_emitted_at)'
      /\ AccountedAs(log, state, rejections_suppressed, episode_rejections)'
  BY <1>0, StepSpaced, StepAccounted
<1>3. BeganInv' /\ StreakInv' /\ RateInv'
  BY <1>0, StepBegan, StepStreak, StepRate
<1>4. TripsWhenDue
  <2>1. CASE RateMode
    BY <1>0, <2>1, RateWhenDue
  <2>2. CASE ~RateMode
    BY <1>0, <2>2, StreakWhenDue
  <2> QED
    BY <2>1, <2>2
<1>5. TripsInv'
  BY <1>0, <1>4, StepTrips
<1> QED
  BY <1>1, <1>2, <1>3, <1>5 DEF LogInv

(* At every step of every task the fields of the circuit know of the log   *)
(* what the theorems below need them to.                                   *)
THEOREM LogInvariant == Spec => []LogInv
BY InitLogInv, StepLogInv, PTL DEF Spec

(* Every variable keeps its type, in both modes: the counters below their  *)
(* thresholds, the window a window, each call's beginning in the log.      *)
THEOREM AsyncTypes == Spec => []TypeOK
<1>1. ASSUME LogInv PROVE TypeOK
  <2>1. MachineType /\ CounterType /\ ticket \in [Tasks -> Nat \cup {NoTicket}]
    BY <1>1 DEF LogInv, Inv, CoreType
  <2>2. /\ RejectionType /\ opened_at \in Nat /\ probe_in_flight \in BOOLEAN /\ now \in Nat
        /\ calls \in 0 .. MaxCalls /\ entered \in [Tasks -> 0 .. Len(log)]
    BY <1>1, Zenon DEF LogInv, LogType
  <2>3. RateMode => window \in W!Windows
    BY <1>1, SameClear DEF LogInv, RateInv, P!Shaped
  <2> QED
    BY <2>1, <2>2, <2>3, Zenon DEF TypeOK, CircuitType
<1> QED
  BY <1>1, LogInvariant, PTL

(* However the calls overlap, the lifecycle events of _emit_events come in *)
(* an order that the state machine has, and the last one tells the state.  *)
THEOREM AsyncLifecycleInOrder == Spec => []LifecycleInOrder
<1>1. ASSUME LogInv PROVE LifecycleInOrder
  <2>1. OrderedAs(log, state)
    BY <1>1 DEF LogInv
  <2>2. Shown(Len(log)) = state
    BY <2>1, ShownLog DEF OrderedAs
  <2>3. ASSUME NEW i \in Positions PROVE MayFollow(log[i].what, Shown(i - 1))
    <3>1. i \in 1 .. Len(log)
      BY <2>1 DEF Positions, OrderedAs
    <3> QED
      BY <2>1, <3>1, ShownLog DEF OrderedAs, Ordered
  <2> QED
    BY <2>2, <2>3 DEF LifecycleInOrder, MayFollow
<1> QED
  BY <1>1, LogInvariant, PTL

(* _reject's rate limit: within an outage rejected events are at least an  *)
(* interval apart, and no refusal comes before the first of them.          *)
THEOREM AsyncRejectedEventsSpaced == Spec => []RejectedEventsSpaced
<1>1. LogInv => RejectedEventsSpaced
  BY SpacedMeans DEF LogInv
<1> QED
  BY <1>1, LogInvariant, PTL

(* No refusal is lost to the rate limit or to a re-opening: the rejected   *)
(* events and the suppressed counter make up those of the outage, and the  *)
(* closing event's rejected is their number.                               *)
THEOREM AsyncRejectionsAccounted == Spec => []RejectionsAccounted
<1>1. LogInv => RejectionsAccounted
  BY AccountedMeans DEF LogInv
<1> QED
  BY <1>1, LogInvariant, PTL

(* Classic mode opens after an outcome exactly when the evidence since the *)
(* circuit closed ends in failure_threshold failures, whatever late        *)
(* outcomes, cancellations and refusals there were in between.             *)
THEOREM AsyncTripsOnStreak == Spec => []TripsOnStreak
<1>1. LogInv => TripsOnStreak
  BY StreakMeans DEF LogInv
<1> QED
  BY <1>1, LogInvariant, PTL

(* Rate mode opens after an outcome exactly when the evidence of the slots *)
(* still in the window has minimum_calls outcomes and the share of its     *)
(* failures reaches the threshold: the ring of buckets and its running     *)
(* totals give the breaker nothing else to decide on.                      *)
THEOREM AsyncTripsOnRate == Spec => []TripsOnRate
<1>1. LogInv => TripsOnRate
  BY RateMeans DEF LogInv
<1> QED
  BY <1>1, LogInvariant, PTL

=============================================================================
