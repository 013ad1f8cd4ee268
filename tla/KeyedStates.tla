------------------------------ MODULE KeyedStates ------------------------------
(***************************************************************************)
(* The circuits of a KeyedCircuitBreaker, class _KeyedStates of            *)
(* middleware/resilience/circuit_breaker.py: looked up without a lock,     *)
(* created under one.  What a circuit does is CircuitBreaker's business.   *)
(***************************************************************************)
EXTENDS ClientThreads

CONSTANT Keys       \* circuit keys

VARIABLES
    states,     \* _states: the circuit of each key, or NoCircuit
    created,    \* the circuits created, which are numbered
    key,        \* the circuit key of each thread's request
    circuit     \* the circuit its call runs on

keyedVars == <<states, created, key, circuit>>

NoCircuit == 0
NoKeyYet == "None"

KeyedInit ==
    /\ states = [k \in Keys |-> NoCircuit]
    /\ created = 0
    /\ key = [t \in Threads |-> NoKeyYet]
    /\ circuit = [t \in Threads |-> NoCircuit]

(* get(), which finds the circuit ...                                      *)
Get(t, k) ==
    /\ key' = [key EXCEPT ![t] = k]
    /\ circuit' = [circuit EXCEPT ![t] = states[k]]
    /\ Goto(t, IF states[k] = NoCircuit THEN "creating" ELSE "acquiring")
    /\ UNCHANGED <<states, created>>

(* Faulty variant: no second look under the lock.                          *)
Missing_NotAsked(k) == TRUE

Missing(k) == states[k] = NoCircuit

(* ... or not: _create(), which looks again with the lock held.            *)
Create(t) ==
    /\ pc[t] = "creating"
    /\ IF Missing(key[t])
       THEN /\ created' = created + 1
            /\ states' = [states EXCEPT ![key[t]] = created']
       ELSE UNCHANGED <<states, created>>
    /\ circuit' = [circuit EXCEPT ![t] = states'[key[t]]]
    /\ Goto(t, "acquiring")
    /\ UNCHANGED key

-----------------------------------------------------------------------------
KeyedType ==
    /\ created \in Nat
    /\ states \in [Keys -> 0 .. created]
    /\ key \in [Threads -> Keys \cup {NoKeyYet}]
    /\ circuit \in [Threads -> 0 .. created]

(* Requests with one key meet on one circuit, whoever came first, and it   *)
(* is no other key's: failures add up where they belong and nowhere else.  *)
OneCircuitPerKey ==
    /\ \A t \in Threads : circuit[t] # NoCircuit => circuit[t] = states[key[t]]
    /\ \A k, l \in Keys : k # l /\ states[k] # NoCircuit => states[k] # states[l]

=============================================================================
