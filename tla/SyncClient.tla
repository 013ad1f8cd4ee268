------------------------------- MODULE SyncClient -------------------------------
(***************************************************************************)
(* Threads that send through one Client, and what they share on the way: a *)
(* decoder, a KeyedCircuitBreaker and a Bulkhead, in the order of the      *)
(* documented composition.                                                 *)
(*                                                                         *)
(* A call with a response_model asks the decoder before anything is sent   *)
(* and again when the response is there.                                   *)
(***************************************************************************)
EXTENDS DecoderCache, KeyedStates, Bulkhead

CONSTANTS
    Typed,          \* the threads whose calls have a response_model
    KeysOf          \* the circuit keys of each thread's requests

ASSUME ClientAssumption ==
    /\ Typed \subseteq Threads
    /\ KeysOf \in [Threads -> SUBSET Keys]

VARIABLE responded  \* has the thread its response?

vars == <<pc, cacheVars, keyedVars, bulkheadVars, responded>>

Init ==
    /\ pc = [t \in Threads |-> "idle"]
    /\ CacheInit /\ KeyedInit /\ BulkheadInit
    /\ responded = [t \in Threads |-> FALSE]

(* An idle thread remembers nothing of its last call.                      *)
Forget(t) ==
    /\ model' = [model EXCEPT ![t] = NoModel]
    /\ adapter' = [adapter EXCEPT ![t] = NoModel]
    /\ key' = [key EXCEPT ![t] = NoKeyYet]
    /\ circuit' = [circuit EXCEPT ![t] = NoCircuit]
    /\ responded' = [responded EXCEPT ![t] = FALSE]
    /\ UNCHANGED <<cache, states, created>>

-----------------------------------------------------------------------------
(* send(response_model=m): the resolver asks the decoder.                  *)
Begin(t) ==
    /\ pc[t] = "idle"
    /\ t \in Typed
    /\ \E m \in Models : model' = [model EXCEPT ![t] = m]
    /\ Goto(t, "looking")
    /\ UNCHANGED <<cache, adapter, keyedVars, bulkheadVars, responded>>

UseCache(t) ==
    /\ CacheStep(t)
    /\ UNCHANGED <<keyedVars, bulkheadVars, responded>>

(* MissingDecoderError                                                     *)
Unclaimed(t) ==
    /\ pc[t] = "answered"
    /\ ~responded[t]
    /\ ~CanDecode(t)
    /\ Goto(t, "idle")
    /\ Forget(t)
    /\ UNCHANGED bulkheadVars

(* The request enters the chain: the breaker picks its circuit.            *)
Dispatch(t) ==
    /\ \/ pc[t] = "answered" /\ ~responded[t] /\ CanDecode(t)
       \/ pc[t] = "idle" /\ t \notin Typed
    /\ \E k \in KeysOf[t] : Get(t, k)
    /\ UNCHANGED <<cacheVars, bulkheadVars, responded>>

PickCircuit(t) ==
    /\ Create(t)
    /\ UNCHANGED <<cacheVars, bulkheadVars, responded>>

UseBulkhead(t) ==
    /\ BulkheadStep(t) \/ Expire(t)
    /\ UNCHANGED <<cacheVars, keyedVars, responded>>

BulkheadFull(t) == Refuse(t) /\ Forget(t)

(* CircuitOpenError: the circuit lets nobody through at present.           *)
CircuitOpen(t) ==
    /\ pc[t] = "acquiring"
    /\ Goto(t, "idle")
    /\ Forget(t)
    /\ UNCHANGED bulkheadVars

(* The response is there, to be decoded.                                   *)
Respond(t) ==
    /\ t \in Typed
    /\ Release(t, "looking")
    /\ responded' = [responded EXCEPT ![t] = TRUE]
    /\ UNCHANGED <<cacheVars, keyedVars>>

(* It is what the caller wants as it is, or the call has failed.           *)
Return(t) == Release(t, "idle") /\ Forget(t)

(* The decoder does its work, or raises, which becomes a DecodeError.      *)
Decode(t) ==
    /\ pc[t] = "answered"
    /\ responded[t]
    /\ Goto(t, "idle")
    /\ Forget(t)
    /\ UNCHANGED bulkheadVars

(* What a thread in a call does next.                                      *)
Continue(t) ==
    \/ UseCache(t) \/ Unclaimed(t) \/ (pc[t] # "idle" /\ Dispatch(t)) \/ PickCircuit(t)
    \/ CircuitOpen(t) \/ UseBulkhead(t) \/ BulkheadFull(t)
    \/ Respond(t) \/ Return(t) \/ Decode(t)

Next == \E t \in Threads : Begin(t) \/ (pc[t] = "idle" /\ Dispatch(t)) \/ Continue(t)

(* Threads run, upstream calls end and timeouts expire, however often a    *)
(* thread that waits has been woken for nothing.                           *)
Fairness == \A t \in Threads : WF_vars(Continue(t)) /\ WF_vars(Expire(t) /\ UseBulkhead(t))

Spec == Init /\ [][Next]_vars

FairSpec == Spec /\ Fairness

-----------------------------------------------------------------------------
Places ==
    {"idle", "looking", "building", "clearing", "storing", "answered",
     "creating", "acquiring", "waiting", "calling"}

(* Each part, and that a thread on its way to the upstream has a circuit.  *)
TypeOK ==
    /\ pc \in [Threads -> Places]
    /\ CacheType /\ KeyedType /\ BulkheadType
    /\ responded \in [Threads -> BOOLEAN]
    /\ \A t \in Threads :
        pc[t] \in {"acquiring", "waiting", "calling"} => circuit[t] # NoCircuit

(* However many threads miss at once, the cache exceeds its bound by at    *)
(* most one entry for each other thread that decodes, the entries about to *)
(* be stored included.                                                     *)
CacheBounded ==
    Cardinality(DOMAIN cache) + Cardinality(At("storing")) < MaxEntries + Cardinality(Typed)

(* Every call ends, though a newcomer may overtake a waiter again and      *)
(* again: what ends the wait in the end is the timeout.                    *)
EveryCallEnds == \A t \in Threads : pc[t] # "idle" ~> pc[t] = "idle"

=============================================================================
