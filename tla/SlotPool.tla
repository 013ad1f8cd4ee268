------------------------------- MODULE SlotPool -------------------------------
(***************************************************************************)
(* What a bulkhead promises: at most Slots callers inside, and those who   *)
(* have to wait are let in in the order they came.  It does not promise    *)
(* that a caller who comes while a slot is free need not wait: see         *)
(* FreeSlotAdmits of MCAsyncBulkhead.                                      *)
(***************************************************************************)
EXTENDS Integers, FiniteSets

CONSTANTS Callers, Slots

VARIABLES
    inside,     \* callers that have a slot
    waiting,    \* callers that wait for one
    before      \* the pairs of these of which the first came first

vars == <<inside, waiting, before>>

Init == inside = {} /\ waiting = {} /\ before = {}

(* Those who wait no longer, for whatever reason, are in nobody's way.     *)
Depart(S) ==
    /\ waiting' = waiting \ S
    /\ before' = {p \in before : p[1] \notin S /\ p[2] \notin S}

(* Some are let in, nobody before one who came first, besides those who    *)
(* stay.                                                                   *)
LetIn(S, staying) ==
    /\ \A t \in waiting, u \in S : <<t, u>> \in before => t \in S
    /\ Depart(S)
    /\ inside' = staying \cup S
    /\ Cardinality(inside') <= Slots

Enter(t) ==
    /\ waiting = {}
    /\ t \notin inside
    /\ inside' = inside \cup {t}
    /\ Cardinality(inside') <= Slots
    /\ UNCHANGED <<waiting, before>>

Wait(t) ==
    /\ t \notin inside \cup waiting
    /\ waiting' = waiting \cup {t}
    /\ before' = before \cup (waiting \X {t})
    /\ UNCHANGED inside

(* A caller waits no longer: its time is up, or it was cancelled.          *)
GiveUp(t) == t \in waiting /\ Depart({t}) /\ UNCHANGED inside

Leave(t) == t \in inside /\ \E S \in SUBSET waiting : LetIn(S, inside \ {t})

Admit == \E S \in SUBSET waiting : LetIn(S, inside)

Next ==
    \/ \E t \in Callers : Enter(t) \/ Wait(t) \/ Leave(t) \/ GiveUp(t)
    \/ Admit

Spec == Init /\ [][Next]_vars

=============================================================================
